------------------------------- MODULE Status -------------------------------
(***************************************************************************)
(* A `status` command of one scope beside everything that changes what it  *)
(* looks at.  status_env_document asks tmux for the session and its panes, *)
(* evaluates the environments its probes need, and then handles service by *)
(* service: has_children of the pane's shell as listed, and the probe.     *)
(* `status`, the table, evaluates the environments first and captures each *)
(* pane for its last line.  A step is one call; nothing holds the scene    *)
(* still in between.                                                       *)
(*                                                                         *)
(* Time is whether a process has lived as long as an uptime probe asks,    *)
(* output is whether the line a log probe looks for is in it.  A session's *)
(* panes are those of its last layout; the panes of different sessions     *)
(* have different shells.                                                  *)
(***************************************************************************)
EXTENDS Integers, Sequences

CONSTANTS
    Log,          \* service -> "file" or "pane", in declared order
    Probe,        \* service -> "none", "log", "uptime" or "cmd"
    MaxSessions,  \* BOUND: sessions created
    MaxLaunches   \* BOUND: launches of each service

Shown == 1..Len(Log)

ASSUME StatusConstants ==
    /\ Log \in Seq({"file", "pane"}) /\ Log # <<>>
    /\ Probe \in [Shown -> {"none", "log", "uptime", "cmd"}]
    /\ MaxSessions \in Nat /\ MaxLaunches \in Nat

VARIABLES
    session,   \* the running session's number, 0 if none
    sessions,  \* sessions created
    built,     \* the services whose pane exists in it
    child,     \* service -> what its pane's shell has for a child
    old,       \* service -> that child has lived as long as the probe asks
    launched,  \* service -> launches
    piped,     \* service -> the current one was piped into the writer
    printed,   \* service -> the current one printed the line looked for
    visible,   \* service -> that line is in what the log probe reads
    query      \* the status command

scene == <<session, sessions, built, child, old, launched, piped, printed, visible>>
statusVars == <<scene, query>>

Child == {"none", "sourcing", "serving"}
Rows == [of : Shown, state : {"running", "stopped", "missing"},
         health : {"healthy", "unhealthy", "unknown"}]

(* at is the session of the pane list, 0 if none was listed; listed are    *)
(* the services with a pane in it; state is the current row's.  saw and    *)
(* down are observations: what was true of each service, and whether the   *)
(* session went away, since the command began.                             *)
QueryType ==
    [ pc : {"idle", "session", "panes", "sources", "state", "probe", "last", "done"},
      table : BOOLEAN, at : Nat, listed : SUBSET Shown,
      state : {"running", "stopped", "missing"},
      rows : Seq(Rows), result : {"none", "ok", "absent", "sources", "tmux"},
      saw : [Shown -> SUBSET {"running", "stopped", "printed", "visible", "old"}],
      down : BOOLEAN ]

StatusTypeOK ==
    /\ session \in Nat /\ sessions \in Nat
    /\ built \subseteq Shown
    /\ child \in [Shown -> Child]
    /\ old \in [Shown -> BOOLEAN]
    /\ launched \in [Shown -> Nat]
    /\ piped \in [Shown -> BOOLEAN]
    /\ printed \in [Shown -> BOOLEAN]
    /\ visible \in [Shown -> BOOLEAN]
    /\ query \in QueryType

No == [s \in Shown |-> FALSE]

StatusInit ==
    /\ session = 0 /\ sessions = 0 /\ built = {}
    /\ child = [s \in Shown |-> "none"]
    /\ old = No /\ piped = No /\ printed = No /\ visible = No
    /\ launched = [s \in Shown |-> 0]
    /\ query = [pc |-> "idle", table |-> FALSE, at |-> 0, listed |-> {},
                state |-> "stopped", rows |-> <<>>, result |-> "none",
                saw |-> [s \in Shown |-> {}], down |-> FALSE]

-----------------------------------------------------------------------------
(* The scene.                                                              *)

(* What is true of a service now.                                          *)
Now(s) ==
    (IF child[s] = "none" THEN {"stopped"} ELSE {"running"})
    \union (IF child[s] # "none" /\ old[s] THEN {"old"} ELSE {})
    \union (IF printed[s] THEN {"printed"} ELSE {})
    \union (IF visible[s] THEN {"visible"} ELSE {})

(* The command cannot see a change but may have looked before or after it. *)
Observe(gone) ==
    IF query.pc \in {"idle", "done"} THEN UNCHANGED query
    ELSE query' = [query EXCEPT !.saw = [s \in Shown |-> @[s] \union Now(s)'],
                                !.down = @ \/ gone]

Fits(s) == session # 0 /\ s \in built

TmuxUp ==
    /\ session = 0 /\ sessions < MaxSessions
    /\ session' = sessions + 1 /\ sessions' = sessions + 1 /\ built' = {}
    /\ UNCHANGED <<child, old, launched, piped, printed, visible>>
    /\ Observe(FALSE)

(* The layout hook builds a pane.                                          *)
BuildPane(s) ==
    /\ session # 0 /\ s \notin built
    /\ built' = built \union {s}
    /\ UNCHANGED <<session, sessions, child, old, launched, piped, printed, visible>>
    /\ Observe(FALSE)

(* With the session its panes' contents go; log files stay.                *)
TmuxDown ==
    /\ session # 0
    /\ session' = 0 /\ built' = {}
    /\ child' = [s \in Shown |-> "none"] /\ printed' = No /\ old' = No /\ piped' = No
    /\ visible' = [s \in Shown |-> visible[s] /\ Log[s] = "file"]
    /\ UNCHANGED <<sessions, launched>>
    /\ Observe(TRUE)

(* The shell reads a launch line: it evaluates `winter env` in a subshell. *)
Begin(s, captured) ==
    /\ Fits(s) /\ child[s] = "none" /\ launched[s] < MaxLaunches
    /\ child' = [child EXCEPT ![s] = "sourcing"]
    /\ launched' = [launched EXCEPT ![s] = @ + 1]
    /\ piped' = [piped EXCEPT ![s] = captured]
    /\ printed' = [printed EXCEPT ![s] = FALSE]
    /\ old' = [old EXCEPT ![s] = FALSE]
    /\ UNCHANGED <<session, sessions, built, visible>>
    /\ Observe(FALSE)

(* The line of `up`, by _launch_lines_for.                                 *)
UpLine(s) == Begin(s, Log[s] = "file")

(* The line of `restart`, by _launch_lines_for(capture_logs=False).        *)
RestartLine(s) == Begin(s, FALSE)

(* The command runs, piped or bare.  The writer rotates the active file    *)
(* away as it starts.                                                      *)
Serve(s) ==
    /\ child[s] = "sourcing"
    /\ child' = [child EXCEPT ![s] = "serving"]
    /\ old' = [old EXCEPT ![s] = FALSE]
    /\ visible' = [visible EXCEPT ![s] = @ /\ ~piped[s]]
    /\ UNCHANGED <<session, sessions, built, launched, piped, printed>>
    /\ Observe(FALSE)

(* The service prints the line: into the pane, and into the writer's file. *)
PrintReady(s) ==
    /\ child[s] = "serving" /\ ~printed[s]
    /\ printed' = [printed EXCEPT ![s] = TRUE]
    /\ visible' = [visible EXCEPT ![s] = @ \/ Log[s] = "pane" \/ piped[s]]
    /\ UNCHANGED <<session, sessions, built, child, old, launched, piped>>
    /\ Observe(FALSE)

(* The environment cannot be had, or the service exits.                    *)
ChildEnds(s) ==
    /\ child[s] # "none"
    /\ child' = [child EXCEPT ![s] = "none"]
    /\ old' = [old EXCEPT ![s] = FALSE]
    /\ printed' = [printed EXCEPT ![s] = FALSE]
    /\ UNCHANGED <<session, sessions, built, launched, piped, visible>>
    /\ Observe(FALSE)

(* The line leaves the screen, or the bounded tail of the file.            *)
ScrollOut(s) ==
    /\ visible[s]
    /\ visible' = [visible EXCEPT ![s] = FALSE]
    /\ UNCHANGED <<session, sessions, built, child, old, launched, piped, printed>>
    /\ Observe(FALSE)

Age(s) ==
    /\ child[s] # "none" /\ ~old[s]
    /\ old' = [old EXCEPT ![s] = TRUE]
    /\ UNCHANGED <<session, sessions, built, child, launched, piped, printed, visible>>
    /\ Observe(FALSE)

SceneStep ==
    \/ TmuxUp \/ TmuxDown
    \/ \E s \in Shown :
          \/ BuildPane(s) \/ UpLine(s) \/ RestartLine(s) \/ Serve(s)
          \/ PrintReady(s) \/ ChildEnds(s) \/ ScrollOut(s) \/ Age(s)

-----------------------------------------------------------------------------
(* The command.                                                            *)

Asks(label) == query.pc = label
Answer(r) == query' = [query EXCEPT !.pc = "done", !.result = r]

(* The service whose row is next.                                          *)
Row == Len(query.rows) + 1

(* Where the rows begin and, after each, go on or end.                     *)
NextRow(rows) == IF Len(rows) = Len(Log) THEN "done" ELSE "state"

AskStatus ==
    /\ Asks("idle")
    /\ \E t \in BOOLEAN :
          query' = [query EXCEPT !.pc = IF t THEN "sources" ELSE "session",
                                 !.table = t, !.saw = [s \in Shown |-> Now(s)]]
    /\ UNCHANGED scene

(* Mutation of HasSession: the panes are listed in any case.               *)
HasSessionAlways ==
    /\ Asks("session")
    /\ query' = [query EXCEPT !.pc = "panes"]
    /\ UNCHANGED scene

(* has_session.  The document goes on without a session, the table ends.   *)
HasSession ==
    /\ Asks("session")
    /\ \/ session # 0 /\ query' = [query EXCEPT !.pc = "panes"]
       \/ session = 0 /\ query.table /\ Answer("absent")
       \/ session = 0 /\ ~query.table /\ query' = [query EXCEPT !.pc = "sources"]
    /\ UNCHANGED scene

(* list_panes, which fails without a session.                              *)
ListPanes ==
    /\ Asks("panes")
    /\ \/ session = 0 /\ Answer("tmux")
       \/ /\ session # 0
          /\ query' = [query EXCEPT !.pc = IF query.table THEN "state" ELSE "sources",
                                    !.at = session, !.listed = built]
    /\ UNCHANGED scene

(* Environment snapshots, port environment and mapping preflight, of all   *)
(* services before the first row: any failure fails the command.           *)
ReadSources ==
    /\ Asks("sources")
    /\ \/ Answer("sources")
       \/ query' = [query EXCEPT !.pc = IF query.table THEN "session" ELSE "state"]
    /\ UNCHANGED scene

(* The shell of the pane as listed is still there.                         *)
ListedShell(s) == s \in query.listed /\ session = query.at

(* has_children of the listed shell.                                       *)
HasChild(s) == ListedShell(s) /\ child[s] # "none"

(* Mutation of ReadState: a pane that exists is a service that runs.       *)
ReadStateOfPane ==
    /\ Asks("state")
    /\ query' = [query EXCEPT !.pc = "probe",
          !.state = IF Row \in query.listed THEN "running"
                    ELSE IF query.table THEN "missing" ELSE "stopped"]
    /\ UNCHANGED scene

ReadState ==
    /\ Asks("state")
    /\ query' = [query EXCEPT !.pc = "probe",
          !.state = IF HasChild(Row) THEN "running"
                    ELSE IF query.table /\ Row \notin query.listed THEN "missing"
                    ELSE "stopped"]
    /\ UNCHANGED scene

Tell(health) ==
    LET rows == Append(query.rows, [of |-> Row, state |-> query.state, health |-> health])
        next == IF query.table /\ query.state # "missing" THEN "last" ELSE NextRow(rows)
    IN  query' = [query EXCEPT !.rows = rows, !.pc = next,
                               !.result = IF next = "done" THEN "ok" ELSE @]

(* _service_health, and is_healthy.  The pane of a log probe is captured   *)
(* by its target, whatever session has the name now; an uptime is that of  *)
(* a child of the listed shell; what a cmd or url answers is its own.      *)
RunProbe ==
    /\ Asks("probe")
    /\ LET p == Probe[Row]
       IN  \/ p = "none" /\ Tell("unknown")
           \/ p # "none" /\ query.state # "running" /\ Tell("unhealthy")
           \/ /\ p = "log" /\ query.state = "running"
              /\ IF Log[Row] = "pane" /\ ~Fits(Row) THEN Answer("tmux")
                 ELSE Tell(IF visible[Row] THEN "healthy" ELSE "unhealthy")
           \/ /\ p = "uptime" /\ query.state = "running"
              /\ Tell(IF HasChild(Row) /\ old[Row] THEN "healthy" ELSE "unhealthy")
           \/ /\ p = "cmd" /\ query.state = "running"
              /\ Tell("healthy") \/ Tell("unhealthy")
    /\ UNCHANGED scene

(* The table captures the pane for its last line.                          *)
LastLine ==
    /\ Asks("last")
    /\ \/ ~Fits(Len(query.rows)) /\ Answer("tmux")
       \/ /\ Fits(Len(query.rows))
          /\ query' = [query EXCEPT !.pc = NextRow(query.rows),
                !.result = IF NextRow(query.rows) = "done" THEN "ok" ELSE @]
    /\ UNCHANGED scene

StatusStep ==
    \/ AskStatus \/ HasSession \/ ListPanes \/ ReadSources
    \/ ReadState \/ RunProbe \/ LastLine

StatusSpec == StatusInit /\ [][SceneStep \/ StatusStep]_statusVars

-----------------------------------------------------------------------------
(* _dependency_ready.                                                      *)
DependencyReady(row) ==
    row.health = "healthy" \/ (row.health = "unknown" /\ row.state = "running")

(* What a row says was true of its service at some moment of the command,  *)
(* even when the session it listed was replaced meanwhile: its state, and  *)
(* of a healthy one that it ran and that the uptime was reached or the     *)
(* line was there to be read.  So a dependency that lets its dependents    *)
(* start was seen running.                                                 *)
RowsWereTrue ==
    \A i \in 1..Len(query.rows) :
        LET row == query.rows[i]
            saw == query.saw[row.of]
        IN  /\ IF row.state = "running" THEN "running" \in saw ELSE "stopped" \in saw
            /\ row.health = "healthy" /\ Probe[row.of] = "log" => "visible" \in saw
            /\ row.health = "healthy" /\ Probe[row.of] = "uptime" => "old" \in saw
            /\ DependencyReady(row) => "running" \in saw

(* A status fails for tmux's sake only if the session went away since it   *)
(* began, and otherwise answers for every service, in declared order.      *)
FailsOnlyOnLoss ==
    /\ query.result = "tmux" => query.down
    /\ query.result = "ok" =>
          /\ Len(query.rows) = Len(Log)
          /\ \A i \in Shown : query.rows[i].of = i

(* "every commanded service's stdout/stderr is piped through a capture     *)
(* writer": what a file-logged service prints is captured.                 *)
FileOutputCaptured ==
    \A s \in Shown : Log[s] = "file" /\ child[s] = "serving" => piped[s]

=============================================================================
