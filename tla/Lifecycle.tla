------------------------------ MODULE Lifecycle ------------------------------
(***************************************************************************)
(* The orchestrator of one scope (a feature environment or the workspace): *)
(* `up`, partial `up`, `down`, partial `down` and `restart`, each run by   *)
(* an operating-system process of its own, against ONE tmux session whose  *)
(* panes hold the services.  Nothing locks: two invocations only see each  *)
(* other through tmux.  A step of an invocation is one call it makes on    *)
(* tmux, on the layout hook, on the process reaper or on `winter service   *)
(* status`; what it does between two calls is local to it.                 *)
(*                                                                         *)
(* Services are numbered in the order the manifest declares them, because  *)
(* every `for svc in ctx.services` of the code runs in that order.  A pane *)
(* is named by the service it is the target of (the manifest validator     *)
(* rejects two services with one target).                                  *)
(***************************************************************************)
EXTENDS Integers, Sequences, FiniteSets

CONSTANTS
    Procs,        \* the CLI invocations
    NumServices,  \* how many services the scope's manifest declares
    External,     \* depends_on patterns that name another scope or provider
    DependsOn,    \* service -> its depends_on patterns, in declared order
    Retries,      \* service -> startup.retries (0: no startup policy)
    LaunchRank,   \* set of services -> their positions in _topological_order
    Layouts,      \* the sets of panes a run of the layout hook may leave
    Jobs,         \* the commands and arguments that may be given
    MaxPolls      \* BOUND: polls of one dependency within its time limit

Services == 1..NumServices
Targets == Services \union External   \* what a dependency may name

(* req is the tuple of requested service names, as a set: {} is the bare   *)
(* scope.  resolves is the set of services whose launch line can be built: *)
(* a service mapping may name a variable that is not set in this call.     *)
(* place is a service's position among the names given to restart, which   *)
(* are in the order of the patterns on the command line.                   *)
JobType == [cmd : {"up", "down", "restart"}, req : SUBSET Services,
            retry : BOOLEAN, resolves : SUBSET Services,
            place : [Services -> Nat]]

ASSUME ConstantsAssumption ==
    /\ NumServices \in Nat \ {0}
    /\ External \intersect Services = {}
    /\ DependsOn \in [Services -> Seq(Targets)]
    /\ Retries \in [Services -> Nat]
    /\ LaunchRank \in [SUBSET Services -> [Services -> Nat]]
    /\ Layouts \subseteq SUBSET Services
    /\ Jobs \subseteq JobType
    /\ \A j \in Jobs : \A s, t \in Services : j.place[s] = j.place[t] => s = t
    /\ MaxPolls \in Nat

(* What module LaunchOrder establishes of _topological_order: the          *)
(* positions of the members of T differ, and a dependency that is itself   *)
(* in T comes first.  The validator rejects same-scope cycles.             *)
ASSUME LaunchRankAssumption ==
    \A T \in SUBSET Services :
        /\ \A s, t \in T : LaunchRank[T][s] = LaunchRank[T][t] => s = t
        /\ \A s \in T : \A i \in 1..Len(DependsOn[s]) :
              DependsOn[s][i] \in T =>
                  LaunchRank[T][DependsOn[s][i]] < LaunchRank[T][s]

VARIABLES
    alive,    \* the tmux session exists
    gen,      \* how many sessions were created so far: the latest one's number
    panes,    \* the services whose target pane exists in the session
    running,  \* service -> its pane's shell has a child process
    tty,      \* service -> lines typed into its pane, not yet read by the shell
    proc      \* invocation -> its local state

tmux == <<alive, gen, panes, running, tty>>
vars == <<alive, gen, panes, running, tty, proc>>

-----------------------------------------------------------------------------
(* Derived from an invocation's arguments.                                 *)

IsWhole(j) == j.req = {} \/ Services \subseteq j.req
Wanted(j) == IF IsWhole(j) THEN Services ELSE j.req

PC == {"start", "snapshot", "create", "hook", "teardown", "validate", "gate",
       "type", "probe", "term", "kill", "recheck", "endsession", "done"}

(* How an invocation ended: "ok", "running" and "absent" stand for exit    *)
(* code 0, every other one for a non-zero code or an OrchestratorError.    *)
Results == {"none", "ok", "running", "absent", "preflight", "nopane", "exists",
            "torndown", "hookwarn", "unmet", "gone", "failed", "interrupted"}

(* made, typed, seen, up and reaped are observations of the run that the   *)
(* properties speak about; the other fields are the invocation's locals.   *)
ProcType ==
    [ pc : PC, job : JobType, result : Results,
      snap : Nat,               \* the session its pane snapshot was taken of
      launch : SUBSET Services, \* the services it decided to act on
      todo : SUBSET Services,   \* those its current loop has still to handle
      dep : Nat \ {0}, polls : Nat,     \* position in _await_dependencies
      tries : Nat, failed : SUBSET Services, \* position in _await_startup
      made : Nat,                    \* the session it created, 0 if none
      typed : [Services -> Nat],     \* lines it typed, per service
      seen : SUBSET Targets,         \* dependencies it saw ready
      up : SUBSET Services,          \* services it saw up after its last line
      reaped : SUBSET Services ]     \* services whose panes it reaped

TypeOK ==
    /\ alive \in BOOLEAN
    /\ gen \in Nat
    /\ panes \in SUBSET Services
    /\ running \in [Services -> BOOLEAN]
    /\ tty \in [Services -> Nat]
    /\ proc \in [Procs -> ProcType]

Idle == [s \in Services |-> FALSE]
Blank == [s \in Services |-> 0]

Init ==
    /\ alive = FALSE
    /\ gen = 0
    /\ panes = {}
    /\ running = Idle
    /\ tty = Blank
    /\ \E j \in [Procs -> Jobs] :
          proc = [p \in Procs |->
                    [pc |-> "start", job |-> j[p], result |-> "none",
                     snap |-> 0, launch |-> {}, todo |-> {}, dep |-> 1,
                     polls |-> 0, tries |-> 0, failed |-> {}, made |-> 0,
                     typed |-> Blank, seen |-> {}, up |-> {}, reaped |-> {}]]

-----------------------------------------------------------------------------
(* Helpers.                                                                *)

At(p, label) == proc[p].pc = label
Become(p, r) == proc' = [proc EXCEPT ![p] = r]
Goto(p, label) == Become(p, [proc[p] EXCEPT !.pc = label])
Finish(p, r) == Become(p, [proc[p] EXCEPT !.pc = "done", !.result = r])

(* list_panes: remember the session's pane processes and act on S.         *)
Decide(p, S, label) ==
    Become(p, [proc[p] EXCEPT !.pc = label, !.snap = gen,
                              !.launch = S, !.todo = S])

(* `tmux kill-session`: no error when there is no session.                 *)
KillSession ==
    /\ alive' = FALSE
    /\ panes' = {}
    /\ running' = Idle
    /\ tty' = Blank
    /\ UNCHANGED gen

(* The loops of down and _await_startup take services as declared ...      *)
NextDeclared(p, s) == s \in proc[p].todo /\ \A t \in proc[p].todo : s <= t

(* ... the loop of restart in the order requested.                         *)
NextRequested(p, s) ==
    LET place == proc[p].job.place
    IN  s \in proc[p].todo /\ \A t \in proc[p].todo : place[s] <= place[t]

(* Mutation of NextInOrder: up forgets to sort.                            *)
NextUnsorted(p, s) == NextDeclared(p, s)

(* The launch loops of up take them in topological order.                  *)
NextInOrder(p, s) ==
    LET rank == LaunchRank[Wanted(proc[p].job)]
    IN  s \in proc[p].todo /\ \A t \in proc[p].todo : rank[s] <= rank[t]

(* The pane processes an invocation knows are those of its snapshot.       *)
SnapshotLive(p) == alive /\ proc[p].snap = gen
HasChildren(p, s) == SnapshotLive(p) /\ s \in panes /\ running[s]

(* Mutation of Victims: every call reaps all the services of the loop.     *)
VictimsAll(p) == proc[p].todo

(* What one reap_descendants call acts on: every pane for a whole-scope    *)
(* down, one service's pane otherwise.                                     *)
Victims(p) ==
    LET job == proc[p].job
    IN  IF job.cmd = "down" /\ IsWhole(job)
        THEN proc[p].todo
        ELSE {s \in proc[p].todo : IF job.cmd = "restart"
                                   THEN NextRequested(p, s)
                                   ELSE NextDeclared(p, s)}

(* _dependency_ready of a `winter service status` answer.  Without a probe  *)
(* a dependency is ready when it runs; with one, when it runs and the probe *)
(* passes.  The answer may always be "not ready": the probe or the status   *)
(* call itself may fail.  Another scope's services are not modelled.        *)
MayBeReady(d) == d \in External \/ (alive /\ d \in panes /\ running[d])

-----------------------------------------------------------------------------
(* The steps of the invocations.                                           *)

(* Mutation of UpBegin: a whole-scope up of an existing session goes on    *)
(* like a partial one.                                                     *)
UpBeginAlways(p) ==
    LET job == proc[p].job
    IN  /\ At(p, "start") /\ job.cmd = "up"
        /\ IF alive THEN Goto(p, "snapshot")
           ELSE IF Wanted(job) \subseteq job.resolves THEN Goto(p, "create")
           ELSE Finish(p, "preflight")
        /\ UNCHANGED tmux

(* `up`: has_session, and on the creating path the launch lines.           *)
UpBegin(p) ==
    LET job == proc[p].job
    IN  /\ At(p, "start") /\ job.cmd = "up"
        /\ \/ alive /\ IsWhole(job) /\ Finish(p, "running")
           \/ alive /\ ~IsWhole(job) /\ Goto(p, "snapshot")
           \/ /\ ~alive /\ ~(Wanted(job) \subseteq job.resolves)
              /\ Finish(p, "preflight")
           \/ ~alive /\ Wanted(job) \subseteq job.resolves /\ Goto(p, "create")
        /\ UNCHANGED tmux

(* Mutation of UpCreate: "session exists" is taken for success.            *)
UpCreateOrAttach(p) ==
    /\ At(p, "create")
    /\ IF alive
       THEN Goto(p, "hook") /\ UNCHANGED tmux
       ELSE /\ alive' = TRUE
            /\ gen' = gen + 1
            /\ panes' = {}
            /\ running' = Idle
            /\ tty' = Blank
            /\ Become(p, [proc[p] EXCEPT !.pc = "hook", !.made = gen + 1])

(* new_session: tmux itself refuses a second session of the same name.     *)
UpCreate(p) ==
    /\ At(p, "create")
    /\ IF alive
       THEN Finish(p, "exists") /\ UNCHANGED tmux
       ELSE /\ alive' = TRUE
            /\ gen' = gen + 1
            /\ panes' = {}
            /\ running' = Idle
            /\ tty' = Blank
            /\ Become(p, [proc[p] EXCEPT !.pc = "hook", !.made = gen + 1])

(* The layout hook builds panes in whatever session has the name.  It may  *)
(* fail; the session is then kept only if it has more than one window.  No *)
(* session: the hook's TMUX value or the list of windows cannot be read.   *)
UpHook(p) ==
    /\ At(p, "hook")
    /\ \/ /\ ~alive
          /\ Goto(p, "teardown") \/ Finish(p, "gone")
          /\ UNCHANGED tmux
       \/ /\ alive
          /\ \E built \in Layouts : panes' = panes \union built
          /\ \/ Goto(p, "validate")
             \/ Goto(p, "teardown")
             \/ Finish(p, "hookwarn")
          /\ UNCHANGED <<alive, gen, running, tty>>

UpTeardown(p) ==
    /\ At(p, "teardown")
    /\ KillSession
    /\ Finish(p, "torndown")

(* list_panes after the hook: every target must exist.                     *)
UpValidate(p) ==
    LET wanted == Wanted(proc[p].job)
    IN  /\ At(p, "validate")
        /\ \/ ~alive /\ Finish(p, "gone")
           \/ alive /\ ~(wanted \subseteq panes) /\ Goto(p, "teardown")
           \/ alive /\ wanted \subseteq panes /\ Decide(p, wanted, "gate")
        /\ UNCHANGED tmux

(* _up_partial_existing: the stopped services among the requested ones, by *)
(* list_panes and one has_children per pane, read here in one step.        *)
UpSnapshot(p) ==
    LET job == proc[p].job
        stopped == {s \in Wanted(job) \intersect panes : ~running[s]}
    IN  /\ At(p, "snapshot") /\ job.cmd = "up"
        /\ \/ ~alive /\ Finish(p, "gone")
           \/ alive /\ ~(stopped \subseteq job.resolves) /\ Finish(p, "preflight")
           \/ alive /\ stopped \subseteq job.resolves /\ Decide(p, stopped, "gate")
        /\ UNCHANGED tmux

(* Mutation of UpPoll: the deadline is computed again before every poll.   *)
UpPollForever(p) ==
    \E s \in Services :
        LET i == proc[p].dep
            d == DependsOn[s][i]
        IN  /\ At(p, "gate") /\ NextInOrder(p, s)
            /\ i <= Len(DependsOn[s])
            /\ \/ /\ MayBeReady(d)
                  /\ Become(p, [proc[p] EXCEPT !.dep = i + 1, !.polls = 0,
                                               !.seen = @ \union {d}])
               \/ Become(p, [proc[p] EXCEPT !.polls = 0])
            /\ UNCHANGED tmux

(* One poll of the dependency the next service waits for.                  *)
UpPoll(p) ==
    \E s \in Services :
        LET i == proc[p].dep
            d == DependsOn[s][i]
        IN  /\ At(p, "gate") /\ NextInOrder(p, s)
            /\ i <= Len(DependsOn[s])
            /\ \/ /\ MayBeReady(d)
                  /\ Become(p, [proc[p] EXCEPT !.dep = i + 1, !.polls = 0,
                                               !.seen = @ \union {d}])
               \/ /\ proc[p].polls < MaxPolls
                  /\ Become(p, [proc[p] EXCEPT !.polls = @ + 1])
               \/ Finish(p, "unmet")
            /\ UNCHANGED tmux

(* Every dependency of the next service was seen ready.                    *)
UpGateOpen(p) ==
    /\ At(p, "gate")
    /\ \E s \in Services : NextInOrder(p, s) /\ proc[p].dep > Len(DependsOn[s])
    /\ Goto(p, "type")
    /\ UNCHANGED tmux

(* Mutation of UpLaunched: the retry loop watches every requested service. *)
UpLaunchedAll(p) ==
    LET watched == {s \in Wanted(proc[p].job) : Retries[s] > 0}
    IN  /\ At(p, "gate") /\ proc[p].todo = {}
        /\ IF proc[p].job.retry
           THEN Become(p, [proc[p] EXCEPT !.pc = "probe", !.todo = watched])
           ELSE Finish(p, "ok")
        /\ UNCHANGED tmux

(* All lines are typed: _await_startup, when asked for, takes the launched *)
(* services that have a startup policy.                                    *)
UpLaunched(p) ==
    LET watched == {s \in proc[p].launch : Retries[s] > 0}
    IN  /\ At(p, "gate") /\ proc[p].todo = {}
        /\ IF proc[p].job.retry
           THEN Become(p, [proc[p] EXCEPT !.pc = "probe", !.todo = watched])
           ELSE Finish(p, "ok")
        /\ UNCHANGED tmux

(* Mutation of TypeLine: the dependency index restarts at 0.               *)
TypeLineFromZero(p, s, next) ==
    /\ alive /\ s \in panes
    /\ tty' = [tty EXCEPT ![s] = @ + 1]
    /\ Become(p, [proc[p] EXCEPT !.pc = next, !.dep = 0,
                                 !.typed[s] = @ + 1,
                                 !.todo = @ \ {s}])
    /\ UNCHANGED <<alive, gen, panes, running>>

(* send_keys, by session name and target: an error when there is no pane.  *)
TypeLine(p, s, next) ==
    IF alive /\ s \in panes
    THEN /\ tty' = [tty EXCEPT ![s] = @ + 1]
         /\ Become(p, [proc[p] EXCEPT !.pc = next, !.dep = 1, !.polls = 0,
                                      !.typed[s] = @ + 1,
                                      !.up = @ \ {s},
                                      !.todo = IF next = "recheck"
                                               THEN @ ELSE @ \ {s}])
         /\ UNCHANGED <<alive, gen, panes, running>>
    ELSE Finish(p, "gone") /\ UNCHANGED tmux

UpType(p) ==
    \E s \in Services :
        /\ At(p, "type") /\ proc[p].job.cmd = "up" /\ proc[p].tries = 0
        /\ NextInOrder(p, s)
        /\ TypeLine(p, s, "gate")

(* _await_startup: look at the next candidate after the settle window.     *)
UpProbe(p) ==
    \E s \in Services :
        /\ At(p, "probe") /\ NextDeclared(p, s)
        /\ IF HasChildren(p, s)
           THEN Become(p, [proc[p] EXCEPT !.todo = @ \ {s}, !.up = @ \union {s}])
           ELSE Become(p, [proc[p] EXCEPT !.pc = "term", !.tries = 1])
        /\ UNCHANGED tmux

UpRetype(p) ==
    \E s \in Services :
        /\ At(p, "type") /\ proc[p].job.cmd = "up" /\ proc[p].tries > 0
        /\ NextDeclared(p, s)
        /\ TypeLine(p, s, "recheck")

(* Mutation of UpRecheck: one attempt too many.                            *)
UpRecheckOnceMore(p) ==
    \E s \in Services :
        /\ At(p, "recheck") /\ NextDeclared(p, s)
        /\ ~HasChildren(p, s) /\ proc[p].tries <= Retries[s]
        /\ Become(p, [proc[p] EXCEPT !.pc = "term", !.tries = @ + 1])
        /\ UNCHANGED tmux

UpRecheck(p) ==
    \E s \in Services :
        /\ At(p, "recheck") /\ NextDeclared(p, s)
        /\ \/ /\ HasChildren(p, s)
              /\ Become(p, [proc[p] EXCEPT !.pc = "probe", !.tries = 0,
                                           !.todo = @ \ {s}, !.up = @ \union {s}])
           \/ /\ ~HasChildren(p, s) /\ proc[p].tries < Retries[s]
              /\ Become(p, [proc[p] EXCEPT !.pc = "term", !.tries = @ + 1])
           \/ /\ ~HasChildren(p, s) /\ proc[p].tries >= Retries[s]
              /\ Become(p, [proc[p] EXCEPT !.pc = "probe", !.tries = 0,
                                           !.todo = @ \ {s},
                                           !.failed = @ \union {s}])
        /\ UNCHANGED tmux

(* Mutation of UpSettled: services that never stayed up are forgotten.     *)
UpSettledAnyway(p) ==
    /\ At(p, "probe") /\ proc[p].todo = {}
    /\ Finish(p, "ok")
    /\ UNCHANGED tmux

UpSettled(p) ==
    /\ At(p, "probe") /\ proc[p].todo = {}
    /\ Finish(p, IF proc[p].failed = {} THEN "ok" ELSE "failed")
    /\ UNCHANGED tmux

(* Mutation of RestartBegin: the panes are reaped before the lines resolve.*)
RestartBeginReaping(p) ==
    LET job == proc[p].job
    IN  /\ At(p, "start") /\ job.cmd = "restart"
        /\ IF job.req \subseteq job.resolves
           THEN Goto(p, "snapshot")
           ELSE Become(p, [proc[p] EXCEPT !.pc = "done", !.result = "preflight",
                                          !.reaped = job.req])
        /\ UNCHANGED tmux

(* `restart`: _restart_plan resolves every line, then looks up the panes.  *)
RestartBegin(p) ==
    LET job == proc[p].job
    IN  /\ At(p, "start") /\ job.cmd = "restart"
        /\ IF job.req \subseteq job.resolves
           THEN Goto(p, "snapshot")
           ELSE Finish(p, "preflight")
        /\ UNCHANGED tmux

RestartSnapshot(p) ==
    LET job == proc[p].job
    IN  /\ At(p, "snapshot") /\ job.cmd = "restart"
        /\ \/ ~alive /\ Finish(p, "gone")
           \/ alive /\ ~(job.req \subseteq panes) /\ Finish(p, "nopane")
           \/ alive /\ job.req \subseteq panes /\ Decide(p, job.req, "term")
        /\ UNCHANGED tmux

RestartType(p) ==
    \E s \in Services :
        /\ At(p, "type") /\ proc[p].job.cmd = "restart" /\ NextRequested(p, s)
        /\ TypeLine(p, s, "term")

(* `down`: a whole-scope down reaps every pane of the session at once.     *)
DownBegin(p) ==
    /\ At(p, "start") /\ proc[p].job.cmd = "down"
    /\ IF alive THEN Goto(p, "snapshot") ELSE Finish(p, "absent")
    /\ UNCHANGED tmux

DownSnapshot(p) ==
    LET job == proc[p].job
        hit == IF IsWhole(job) THEN panes ELSE job.req \intersect panes
    IN  /\ At(p, "snapshot") /\ job.cmd = "down"
        /\ IF alive
           THEN Decide(p, hit, "term")
           ELSE Finish(p, "gone")
        /\ UNCHANGED tmux

DownKill(p) ==
    /\ At(p, "endsession")
    /\ KillSession
    /\ Finish(p, "ok")

(* reap_descendants, shared: SIGTERM the descendants; a second later SIGKILL*)
(* what descends from the same pane shells then.  TERM may be obeyed or not.*)
ReapTerm(p) ==
    /\ At(p, "term") /\ proc[p].todo # {}
    /\ \E obey \in SUBSET Victims(p) :
          running' = [s \in Services |->
                        running[s] /\ ~(SnapshotLive(p) /\ s \in obey)]
    /\ Become(p, [proc[p] EXCEPT !.pc = "kill", !.reaped = @ \union Victims(p)])
    /\ UNCHANGED <<alive, gen, panes, tty>>

ReapKill(p) ==
    LET job == proc[p].job
    IN  /\ At(p, "kill")
        /\ running' = [s \in Services |->
                         running[s] /\ ~(SnapshotLive(p) /\ s \in Victims(p))]
        /\ IF job.cmd = "down"
           THEN Become(p, [proc[p] EXCEPT !.pc = "term", !.todo = @ \ Victims(p)])
           ELSE Goto(p, "type")
        /\ UNCHANGED <<alive, gen, panes, tty>>

(* Mutation of Reaped: a whole-scope down stops at reaping.                *)
ReapedKeepsSession(p) ==
    At(p, "term") /\ proc[p].todo = {} /\ Finish(p, "ok") /\ UNCHANGED tmux

(* The loop of restart or down has handled every service.                  *)
Reaped(p) ==
    LET job == proc[p].job
    IN  /\ At(p, "term") /\ proc[p].todo = {}
        /\ IF job.cmd = "down" /\ IsWhole(job)
           THEN Goto(p, "endsession")
           ELSE Finish(p, "ok")
        /\ UNCHANGED tmux

(* Ctrl-C, or the death of the terminal, at any point of the invocation.   *)
Interrupt(p) ==
    /\ proc[p].pc \notin {"start", "done"}
    /\ Finish(p, "interrupted")
    /\ UNCHANGED tmux

-----------------------------------------------------------------------------
(* The panes.  A shell reads its next line only when no job is in the      *)
(* foreground, so a line typed at a busy pane waits and runs later.        *)

ShellLaunch(s) ==
    /\ alive /\ s \in panes /\ ~running[s] /\ tty[s] > 0
    /\ running' = [running EXCEPT ![s] = TRUE]
    /\ tty' = [tty EXCEPT ![s] = @ - 1]
    /\ UNCHANGED <<alive, gen, panes, proc>>

ServiceExit(s) ==
    /\ running[s]
    /\ running' = [running EXCEPT ![s] = FALSE]
    /\ UNCHANGED <<alive, gen, panes, tty, proc>>

-----------------------------------------------------------------------------
UpStep(p) ==
    \/ UpBegin(p) \/ UpCreate(p) \/ UpHook(p) \/ UpTeardown(p) \/ UpValidate(p)
    \/ UpSnapshot(p) \/ UpPoll(p) \/ UpGateOpen(p) \/ UpType(p) \/ UpLaunched(p)
    \/ UpProbe(p) \/ UpRetype(p) \/ UpRecheck(p) \/ UpSettled(p)

Step(p) ==
    \/ UpStep(p)
    \/ RestartBegin(p) \/ RestartSnapshot(p) \/ RestartType(p)
    \/ DownBegin(p) \/ DownSnapshot(p) \/ DownKill(p)
    \/ ReapTerm(p) \/ ReapKill(p) \/ Reaped(p)

Pane(s) == ShellLaunch(s) \/ ServiceExit(s)

Next ==
    \/ \E p \in Procs : Step(p) \/ Interrupt(p)
    \/ \E s \in Services : Pane(s)

Spec == Init /\ [][Next]_vars

(* Every call an invocation makes returns, so an invocation that has begun *)
(* keeps going; nothing is assumed of shells, services or the user.        *)
FairSpec ==
    /\ Spec
    /\ \A p \in Procs : WF_vars(proc[p].pc # "start" /\ Step(p))

-----------------------------------------------------------------------------
(* Properties.                                                             *)

(* A service's line is typed by an up only after that up has seen every    *)
(* depends_on pattern of the service ready, and after it has itself typed  *)
(* the lines of those dependencies it is launching too.                    *)
GatedLaunch ==
    \A p \in Procs, s \in Services :
        proc[p].job.cmd = "up" /\ proc[p].typed[s] > 0 =>
            \A i \in 1..Len(DependsOn[s]) :
                LET d == DependsOn[s][i]
                IN  /\ d \in proc[p].seen
                    /\ d \in proc[p].launch => proc[p].typed[d] > 0

Begun == {p \in Procs : ~At(p, "start")}

(* The kill_session of an up whose hook failed or left panes missing hits  *)
(* the session that up created, never a later one of the same name, as     *)
(* long as only ups have begun: a `down` beside it would break that.       *)
OwnTeardown ==
    (\A p \in Begun : proc[p].job.cmd = "up") =>
        \A p \in Procs : At(p, "teardown") => ~alive \/ gen = proc[p].made

(* No line waits in a pane behind a launched copy of the same service, or  *)
(* behind an unread copy of that line (it would run when that copy exits), *)
(* as long as only ups of the whole scope without retries have begun.      *)
NoStacking ==
    (\A p \in Begun : LET job == proc[p].job
                      IN  job.cmd = "up" /\ IsWhole(job) /\ ~job.retry) =>
        \A s \in Services : tty[s] + (IF running[s] THEN 1 ELSE 0) <= 1

(* An invocation refused before it acts (a line that does not resolve, a   *)
(* missing pane, a session created meanwhile, nothing to do) has created   *)
(* no session, typed nothing and reaped nothing.                           *)
RefusedUntouched ==
    \A p \in Procs :
        proc[p].result \in {"preflight", "nopane", "exists", "absent", "running"} =>
            proc[p].made = 0 /\ proc[p].typed = Blank /\ proc[p].reaped = {}

(* An up reaps only panes it has typed a line into: a matched service that *)
(* was already running is never stopped by the retry loop.                 *)
UpReapsOnlyItsOwn ==
    \A p \in Procs : proc[p].job.cmd = "up" =>
        \A s \in proc[p].reaped : proc[p].typed[s] > 0 /\ s \in Wanted(proc[p].job)

(* An up types at most one line per service and one more per retry.        *)
LinesBounded ==
    \A p \in Procs, s \in Services : proc[p].job.cmd = "up" =>
        proc[p].typed[s] <= 1 + (IF proc[p].job.retry THEN Retries[s] ELSE 0)

(* Exit code 0 of an up that launched something: it typed the line of      *)
(* every service it had to launch (all it was asked for if it created the  *)
(* session) and, when retrying, saw every one with a startup policy up     *)
(* after the last line it typed for it.                                    *)
UpOkIsTrue ==
    \A p \in Procs : proc[p].job.cmd = "up" /\ proc[p].result = "ok" =>
        /\ proc[p].made # 0 => proc[p].launch = Wanted(proc[p].job)
        /\ \A s \in proc[p].launch :
              /\ proc[p].typed[s] > 0
              /\ proc[p].job.retry /\ Retries[s] > 0 => s \in proc[p].up

(* A restart that reports success has reaped exactly the requested panes   *)
(* and typed one line into each; one that stops on the way (its session is *)
(* gone) leaves at most one pane reaped and not relaunched.                *)
RestartRelaunches ==
    \A p \in Procs : proc[p].job.cmd = "restart" =>
        LET typed == {s \in Services : proc[p].typed[s] = 1}
        IN  /\ proc[p].result = "ok" =>
                  proc[p].reaped = proc[p].job.req /\ typed = proc[p].job.req
            /\ typed \subseteq proc[p].reaped
            /\ \A s, t \in proc[p].reaped \ typed : s = t

(* When a whole-scope down reports success, the session it found is gone.  *)
DownRemovesSession ==
    \A p \in Procs :
        /\ proc[p].job.cmd = "down" /\ IsWhole(proc[p].job)
        /\ proc[p].result = "ok"
        => ~alive \/ gen # proc[p].snap

(* A partial up never types a line into a pane whose service is running or *)
(* about to run: it can be called repeatedly.                              *)
PartialUpIdempotent ==
    [][\A p \in Procs, s \in Services :
          /\ proc[p].job.cmd = "up" /\ proc[p].made = 0 /\ proc[p].tries = 0
          /\ proc'[p].typed[s] > proc[p].typed[s]
          => ~running[s] /\ tty[s] = 0]_vars

(* Every invocation that has begun ends: the dependency gate, the retries  *)
(* and the loops are all bounded.                                          *)
EveryCommandEnds ==
    \A p \in Procs : ~At(p, "start") ~> At(p, "done")

=============================================================================
