--------------------------- MODULE LifecycleProofs ---------------------------
(***************************************************************************)
(* Proofs about Lifecycle, for any number of invocations and services, any *)
(* dependency graph that LaunchRank orders and any jobs.                   *)
(***************************************************************************)
EXTENDS Lifecycle, TLAPS

(* The literal program counters and results are among those listed.        *)
LEMMA Literals ==
    /\ \A l \in {"start", "snapshot", "create", "hook", "teardown", "validate",
                 "gate", "type", "probe", "term", "kill", "recheck",
                 "endsession", "done"} : l \in PC
    /\ \A r \in {"none", "ok", "running", "absent", "preflight", "nopane",
                 "exists", "torndown", "hookwarn", "unmet", "gone", "failed",
                 "interrupted"} : r \in Results
BY DEF PC, Results

(* A step of an invocation replaces its record by another of the type.     *)
LEMMA BecomeType ==
    ASSUME NEW p \in Procs, NEW r \in ProcType, proc \in [Procs -> ProcType],
           Become(p, r)
    PROVE  proc' \in [Procs -> ProcType]
BY DEF Become

LEMMA GotoType ==
    ASSUME NEW p \in Procs, NEW label \in PC, proc \in [Procs -> ProcType],
           Goto(p, label)
    PROVE  proc' \in [Procs -> ProcType]
<1>1. [proc[p] EXCEPT !.pc = label] \in ProcType
  BY SMTT(30) DEF ProcType
<1>2. QED BY <1>1, BecomeType DEF Goto

LEMMA FinishType ==
    ASSUME NEW p \in Procs, NEW r \in Results, proc \in [Procs -> ProcType],
           Finish(p, r)
    PROVE  proc' \in [Procs -> ProcType]
<1>0. "done" \in PC BY Literals
<1>1. [proc[p] EXCEPT !.pc = "done", !.result = r] \in ProcType
  BY <1>0, ZenonT(40) DEF ProcType
<1>2. QED BY <1>1, BecomeType DEF Finish

LEMMA DecideType ==
    ASSUME NEW p \in Procs, NEW label \in PC, NEW S \in SUBSET Services,
           TypeOK, Decide(p, S, label)
    PROVE  proc' \in [Procs -> ProcType]
<1>1. [proc[p] EXCEPT !.pc = label, !.snap = gen, !.launch = S, !.todo = S]
         \in ProcType
  <2>1. proc[p] \in ProcType /\ gen \in Nat
    BY DEF TypeOK
  <2>2. QED BY <2>1 DEF ProcType
<1>2. QED BY <1>1, BecomeType DEF Decide, TypeOK

LEMMA TypeLineType ==
    ASSUME NEW p \in Procs, NEW s \in Services, NEW label \in PC,
           TypeOK, TypeLine(p, s, label)
    PROVE  TypeOK'
<1>1. CASE ~(alive /\ s \in panes)
  BY <1>1, FinishType DEF TypeLine, TypeOK, tmux, Results
<1>2. CASE alive /\ s \in panes
  <2> DEFINE r == [proc[p] EXCEPT !.pc = label, !.dep = 1, !.polls = 0,
                      !.typed[s] = @ + 1, !.up = @ \ {s},
                      !.todo = IF label = "recheck" THEN @ ELSE @ \ {s}]
  <2>0. proc[p] \in ProcType
    BY DEF TypeOK
  <2>1. r \in ProcType
    <3> DEFINE t == [proc[p].typed EXCEPT ![s] = @ + 1]
               u == proc[p].up \ {s}
               d == IF label = "recheck" THEN proc[p].todo ELSE proc[p].todo \ {s}
    <3>1. t \in [Services -> Nat] /\ u \in SUBSET Services /\ d \in SUBSET Services
      BY <2>0 DEF ProcType
    <3>2. r = [proc[p] EXCEPT !.pc = label, !.dep = 1, !.polls = 0,
                              !.typed = t, !.up = u, !.todo = d]
      BY <2>0 DEF ProcType
    <3>3. 1 \in Nat \ {0} /\ 0 \in Nat
      OBVIOUS
    <3> HIDE DEF t, u, d
    <3>4. QED BY <2>0, <3>1, <3>2, <3>3, ZenonT(30) DEF ProcType
  <2>2. Become(p, r)
    BY <1>2 DEF TypeLine
  <2>3. proc' \in [Procs -> ProcType]
    BY <2>1, <2>2, BecomeType DEF TypeOK
  <2>4. tty' \in [Services -> Nat]
    BY <1>2 DEF TypeLine, TypeOK
  <2>5. QED
    BY <1>2, <2>3, <2>4 DEF TypeLine, TypeOK
<1>3. QED BY <1>1, <1>2

(* Every job has the fields and values its type promises.                  *)
LEMMA InitType == Init => TypeOK
<1> SUFFICES ASSUME Init PROVE TypeOK
  OBVIOUS
<1>1. running \in [Services -> BOOLEAN]
  BY DEF Init, Idle
<1>2. tty \in [Services -> Nat] /\ Blank \in [Services -> Nat]
  BY DEF Init, Blank
<1>3. PICK j \in [Procs -> Jobs] :
         proc = [p \in Procs |->
                    [pc |-> "start", job |-> j[p], result |-> "none",
                     snap |-> 0, launch |-> {}, todo |-> {}, dep |-> 1,
                     polls |-> 0, tries |-> 0, failed |-> {}, made |-> 0,
                     typed |-> Blank, seen |-> {}, up |-> {}, reaped |-> {}]]
  BY DEF Init
<1>4. proc \in [Procs -> ProcType]
  <2>1. \A p \in Procs : j[p] \in JobType
    BY <1>3, ConstantsAssumption
  <2>2. QED
    BY <1>2, <1>3, <2>1 DEF ProcType, PC, Results
<1>5. QED
  BY <1>1, <1>2, <1>4 DEF Init, TypeOK

LEMMA UpStepType ==
    ASSUME TypeOK, NEW p \in Procs, UpStep(p)
    PROVE  TypeOK'
<1> USE DEF TypeOK
<1>0. /\ Idle \in [Services -> BOOLEAN] /\ Blank \in [Services -> Nat]
      /\ proc[p] \in ProcType
  BY DEF Idle, Blank
<1>1. CASE UpBegin(p)
  BY <1>1, GotoType, FinishType, Literals DEF UpBegin, tmux
<1>2. CASE UpCreate(p)
  <2>1. CASE alive
    BY <1>2, <2>1, FinishType, Literals DEF UpCreate, tmux
  <2>2. CASE ~alive
    <3>1. [proc[p] EXCEPT !.pc = "hook", !.made = gen + 1] \in ProcType
      <4>1. "hook" \in PC /\ gen + 1 \in Nat
        BY Literals
      <4>2. QED BY <1>0, <4>1 DEF ProcType
    <3>2. QED BY <1>0, <1>2, <2>2, <3>1, BecomeType DEF UpCreate
  <2>3. QED BY <2>1, <2>2
<1>3. CASE UpHook(p)
  BY <1>3, GotoType, FinishType, Literals, ConstantsAssumption DEF UpHook, tmux
<1>4. CASE UpTeardown(p)
  BY <1>0, <1>4, FinishType, Literals DEF UpTeardown, KillSession
<1>5. CASE UpValidate(p)
  <2>1. Wanted(proc[p].job) \in SUBSET Services
    BY <1>0 DEF Wanted, ProcType, JobType
  <2>2. QED
    BY <1>5, <2>1, GotoType, FinishType, DecideType, Literals DEF UpValidate, tmux
<1>6. CASE UpSnapshot(p)
  BY <1>6, FinishType, DecideType, Literals DEF UpSnapshot, tmux
<1>7. CASE UpPoll(p)
  <2>1. PICK s \in Services :
           LET i == proc[p].dep
               d == DependsOn[s][i]
           IN  /\ i <= Len(DependsOn[s])
               /\ \/ Become(p, [proc[p] EXCEPT !.dep = i + 1, !.polls = 0,
                                              !.seen = @ \union {d}])
                  \/ Become(p, [proc[p] EXCEPT !.polls = @ + 1])
                  \/ Finish(p, "unmet")
               /\ UNCHANGED tmux
    BY <1>7 DEF UpPoll
  <2> DEFINE i == proc[p].dep
             d == DependsOn[s][i]
  <2>2. i + 1 \in Nat \ {0} /\ 0 \in Nat /\ proc[p].polls + 1 \in Nat
    BY <1>0 DEF ProcType
  <2>3. proc[p].seen \union {d} \in SUBSET Targets
    <3>1. DependsOn[s] \in Seq(Targets) /\ i \in 1..Len(DependsOn[s])
      BY <1>0, <2>1, ConstantsAssumption DEF ProcType
    <3>2. d \in Targets
      BY <3>1
    <3>3. QED BY <1>0, <3>2 DEF ProcType
  <2>4. [proc[p] EXCEPT !.dep = i + 1, !.polls = 0, !.seen = @ \union {d}] \in ProcType
    BY <1>0, <2>2, <2>3, Zenon DEF ProcType
  <2>5. [proc[p] EXCEPT !.polls = @ + 1] \in ProcType
    BY <1>0, <2>2 DEF ProcType
  <2>6. QED BY <2>1, <2>4, <2>5, BecomeType, FinishType, Literals DEF tmux
<1>8. CASE UpGateOpen(p)
  BY <1>8, GotoType, Literals DEF UpGateOpen, tmux
<1>9. CASE UpType(p)
  BY <1>9, TypeLineType, Literals DEF UpType
<1>10. CASE UpLaunched(p)
  <2> DEFINE watched == {s \in proc[p].launch : Retries[s] > 0}
  <2>1. [proc[p] EXCEPT !.pc = "probe", !.todo = watched] \in ProcType
    <3>1. watched \in SUBSET Services /\ "probe" \in PC
      BY <1>0, Literals DEF ProcType
    <3> HIDE DEF watched
    <3>2. QED BY <1>0, <3>1 DEF ProcType
  <2>2. QED BY <1>10, <2>1, BecomeType, FinishType, Literals DEF UpLaunched, tmux
<1>11. CASE UpProbe(p)
  <2>1. PICK s \in Services :
           /\ \/ Become(p, [proc[p] EXCEPT !.todo = @ \ {s}, !.up = @ \union {s}])
              \/ Become(p, [proc[p] EXCEPT !.pc = "term", !.tries = 1])
           /\ UNCHANGED tmux
    BY <1>11 DEF UpProbe
  <2>2. [proc[p] EXCEPT !.todo = @ \ {s}, !.up = @ \union {s}] \in ProcType
    BY <1>0 DEF ProcType
  <2>3. [proc[p] EXCEPT !.pc = "term", !.tries = 1] \in ProcType
    BY <1>0, Literals DEF ProcType
  <2>4. QED BY <2>1, <2>2, <2>3, BecomeType DEF tmux
<1>12. CASE UpRetype(p)
  BY <1>12, TypeLineType, Literals DEF UpRetype
<1>13. CASE UpRecheck(p)
  <2>1. PICK s \in Services :
           /\ \/ Become(p, [proc[p] EXCEPT !.pc = "probe", !.tries = 0,
                                           !.todo = @ \ {s}, !.up = @ \union {s}])
              \/ Become(p, [proc[p] EXCEPT !.pc = "term", !.tries = @ + 1])
              \/ Become(p, [proc[p] EXCEPT !.pc = "probe", !.tries = 0,
                                           !.todo = @ \ {s},
                                           !.failed = @ \union {s}])
           /\ UNCHANGED tmux
    BY <1>13 DEF UpRecheck
  <2>2. /\ "probe" \in PC /\ "term" \in PC /\ 0 \in Nat /\ proc[p].tries + 1 \in Nat
        /\ proc[p].todo \ {s} \in SUBSET Services
        /\ proc[p].up \union {s} \in SUBSET Services
        /\ proc[p].failed \union {s} \in SUBSET Services
    BY <1>0, Literals DEF ProcType
  <2>3. [proc[p] EXCEPT !.pc = "probe", !.tries = 0, !.todo = @ \ {s},
                        !.up = @ \union {s}] \in ProcType
    BY <1>0, <2>2, Zenon DEF ProcType
  <2>4. [proc[p] EXCEPT !.pc = "term", !.tries = @ + 1] \in ProcType
    BY <1>0, <2>2, Zenon DEF ProcType
  <2>5. [proc[p] EXCEPT !.pc = "probe", !.tries = 0, !.todo = @ \ {s},
                        !.failed = @ \union {s}] \in ProcType
    BY <1>0, <2>2, Zenon DEF ProcType
  <2>6. QED BY <2>1, <2>3, <2>4, <2>5, BecomeType DEF tmux
<1>14. CASE UpSettled(p)
  BY <1>14, FinishType, Literals DEF UpSettled, tmux
<1>15. QED
  BY <1>1, <1>2, <1>3, <1>4, <1>5, <1>6, <1>7, <1>8, <1>9, <1>10, <1>11,
     <1>12, <1>13, <1>14 DEF UpStep

LEMMA OtherStepType ==
    ASSUME TypeOK, NEW p \in Procs,
           \/ RestartBegin(p) \/ RestartSnapshot(p) \/ RestartType(p)
           \/ DownBegin(p) \/ DownSnapshot(p) \/ DownKill(p)
           \/ ReapTerm(p) \/ ReapKill(p) \/ Reaped(p) \/ Interrupt(p)
    PROVE  TypeOK'
<1> USE DEF TypeOK
<1>0. /\ Idle \in [Services -> BOOLEAN] /\ Blank \in [Services -> Nat]
      /\ proc[p] \in ProcType
  BY DEF Idle, Blank
<1>1. CASE RestartBegin(p)
  BY <1>1, GotoType, FinishType, Literals DEF RestartBegin, tmux
<1>2. CASE RestartSnapshot(p)
  <2>1. proc[p].job.req \in SUBSET Services
    BY <1>0 DEF ProcType, JobType
  <2>2. QED
    BY <1>2, <2>1, FinishType, DecideType, Literals DEF RestartSnapshot, tmux
<1>3. CASE RestartType(p)
  BY <1>3, TypeLineType, Literals DEF RestartType
<1>4. CASE DownBegin(p)
  BY <1>4, GotoType, FinishType, Literals DEF DownBegin, tmux
<1>5. CASE DownSnapshot(p)
  BY <1>5, FinishType, DecideType, Literals DEF DownSnapshot, tmux
<1>6. CASE DownKill(p)
  BY <1>0, <1>6, FinishType, Literals DEF DownKill, KillSession
<1>7. CASE ReapTerm(p)
  <2>1. Victims(p) \in SUBSET Services
    BY <1>0 DEF Victims, ProcType
  <2>2. [proc[p] EXCEPT !.pc = "kill", !.reaped = @ \union Victims(p)] \in ProcType
    <3>1. "kill" \in PC /\ proc[p].reaped \union Victims(p) \in SUBSET Services
      BY <1>0, <2>1, Literals DEF ProcType
    <3>2. QED BY <1>0, <3>1, Zenon DEF ProcType
  <2>3. running' \in [Services -> BOOLEAN]
    BY <1>7, Zenon DEF ReapTerm
  <2>4. QED BY <1>7, <2>2, <2>3, BecomeType DEF ReapTerm
<1>8. CASE ReapKill(p)
  <2>1. [proc[p] EXCEPT !.pc = "term", !.todo = @ \ Victims(p)] \in ProcType
    <3>1. "term" \in PC /\ proc[p].todo \ Victims(p) \in SUBSET Services
      BY <1>0, Literals DEF ProcType
    <3>2. QED BY <1>0, <3>1, Zenon DEF ProcType
  <2>2. running' \in [Services -> BOOLEAN]
    BY <1>8, Zenon DEF ReapKill
  <2>3. QED BY <1>8, <2>1, <2>2, BecomeType, GotoType, Literals DEF ReapKill
<1>9. CASE Reaped(p)
  BY <1>9, GotoType, FinishType, Literals DEF Reaped, tmux
<1>10. CASE Interrupt(p)
  BY <1>10, FinishType, Literals DEF Interrupt, tmux
<1>11. QED
  BY <1>1, <1>2, <1>3, <1>4, <1>5, <1>6, <1>7, <1>8, <1>9, <1>10

(* The records of the invocations and the session keep their types.        *)
THEOREM TypeCorrect == Spec => []TypeOK
<1>1. TypeOK /\ [Next]_vars => TypeOK'
  <2> SUFFICES ASSUME TypeOK, [Next]_vars PROVE TypeOK'
    OBVIOUS
  <2>1. ASSUME NEW p \in Procs, Step(p) \/ Interrupt(p) PROVE TypeOK'
    BY <2>1, UpStepType, OtherStepType DEF Step
  <2>2. ASSUME NEW s \in Services, Pane(s) PROVE TypeOK'
    <3>1. running' \in [Services -> BOOLEAN]
      BY <2>2 DEF Pane, ShellLaunch, ServiceExit, TypeOK
    <3>2. tty' \in [Services -> Nat]
      BY <2>2 DEF Pane, ShellLaunch, ServiceExit, TypeOK
    <3>3. QED
      BY <2>2, <3>1, <3>2 DEF Pane, ShellLaunch, ServiceExit, TypeOK
  <2>3. CASE UNCHANGED vars
    BY <2>3 DEF vars, TypeOK
  <2>4. QED BY <2>1, <2>2, <2>3 DEF Next
<1>2. QED BY InitType, <1>1, PTL DEF Spec

-----------------------------------------------------------------------------
(* The dependency gate.  GateInv is what an up knows of the services it    *)
(* launches: those taken off its list have their line typed; at the gate,  *)
(* the patterns before position dep of the next service were seen ready;   *)
(* and the retry loop is entered only when every line was typed.           *)

First(me, s) ==
    LET rank == LaunchRank[Wanted(me.job)]
    IN  s \in me.todo /\ \A t \in me.todo : rank[s] <= rank[t]

Before(me) ==
    me.pc \in {"start", "snapshot", "create", "hook", "teardown", "validate"}

Gated(me) ==
    \A s \in Services : me.typed[s] > 0 =>
        \A i \in 1..Len(DependsOn[s]) :
            LET d == DependsOn[s][i]
            IN  d \in me.seen /\ (d \in me.launch => me.typed[d] > 0)

SeenUpTo(me, n) ==
    \A s \in Services : First(me, s) =>
        \A i \in 1..Len(DependsOn[s]) : i < n => DependsOn[s][i] \in me.seen

GateInv(me) == me.job.cmd = "up" =>
    /\ Gated(me)
    /\ me.launch \subseteq Wanted(me.job) /\ me.todo \subseteq me.launch
    /\ Before(me) => me.typed = Blank /\ me.tries = 0 /\ me.dep = 1
    /\ me.pc \in {"gate", "type"} /\ me.tries = 0 =>
          \A s \in me.launch \ me.todo : me.typed[s] > 0
    /\ me.pc = "gate" => me.tries = 0 /\ SeenUpTo(me, me.dep)
    /\ me.pc = "type" /\ me.tries = 0 =>
          \A s \in Services : First(me, s) => SeenUpTo(me, Len(DependsOn[s]) + 1)
    /\ me.pc \in {"probe", "term", "kill", "recheck"} \/ me.tries > 0 =>
          \A s \in me.launch : me.typed[s] > 0
    /\ me.pc \in {"term", "kill", "recheck"} => me.tries > 0

(* At most one service is the next one in launch order.                    *)
LEMMA FirstUnique ==
    ASSUME NEW me \in ProcType, me.todo \subseteq Wanted(me.job),
           NEW s \in Services, NEW t \in Services, First(me, s), First(me, t)
    PROVE  s = t
<1>1. Wanted(me.job) \in SUBSET Services
  BY DEF Wanted, ProcType, JobType
<1>2. LaunchRank[Wanted(me.job)] \in [Services -> Nat]
  BY <1>1, ConstantsAssumption
<1>3. LaunchRank[Wanted(me.job)][s] = LaunchRank[Wanted(me.job)][t]
  BY <1>2 DEF First
<1>4. QED BY <1>1, <1>3, LaunchRankAssumption DEF First

(* Typing the line of the next service keeps the gate's invariant.         *)
LEMMA TypingGated ==
    ASSUME NEW me \in ProcType, GateInv(me), me.job.cmd = "up", me.pc = "type",
           me.tries = 0, NEW s \in Services, First(me, s),
           NEW r \in ProcType,
           r = [me EXCEPT !.pc = "gate", !.dep = 1, !.polls = 0,
                          !.typed[s] = @ + 1, !.up = @ \ {s}, !.todo = @ \ {s}]
    PROVE  GateInv(r)
<1>0. /\ r.pc = "gate" /\ r.dep = 1 /\ r.job = me.job /\ r.tries = 0
      /\ r.todo = me.todo \ {s} /\ r.launch = me.launch /\ r.seen = me.seen
      /\ r.typed = [me.typed EXCEPT ![s] = @ + 1]
      /\ me.typed \in [Services -> Nat] /\ me.launch \in SUBSET Services
  BY DEF ProcType
<1>1. \A u \in Services : me.typed[u] > 0 => r.typed[u] > 0
  BY <1>0
<1>2. r.typed[s] > 0
  BY <1>0
<1>3. ASSUME NEW u \in me.launch, u # s, u \notin me.todo PROVE r.typed[u] > 0
  BY <1>0, <1>1, <1>3 DEF GateInv
<1>4. ASSUME NEW i \in 1..Len(DependsOn[s])
      PROVE  /\ DependsOn[s][i] \in me.seen
             /\ DependsOn[s][i] \in me.launch => r.typed[DependsOn[s][i]] > 0
  <2> DEFINE d == DependsOn[s][i]
  <2>0. DependsOn[s] \in Seq(Targets)
    BY ConstantsAssumption
  <2>1. d \in me.seen
    BY <2>0 DEF GateInv, SeenUpTo
  <2>2. ASSUME d \in me.launch PROVE r.typed[d] > 0
    <3>1. Wanted(me.job) \in SUBSET Services
      BY DEF Wanted, ProcType, JobType
    <3>2. s \in Wanted(me.job) /\ d \in Wanted(me.job)
      BY <2>2 DEF GateInv, First
    <3>3. LaunchRank[Wanted(me.job)][d] < LaunchRank[Wanted(me.job)][s]
      BY <3>1, <3>2, LaunchRankAssumption
    <3>4. LaunchRank[Wanted(me.job)] \in [Services -> Nat]
      BY <3>1, ConstantsAssumption
    <3>5. d \notin me.todo /\ d # s
      BY <3>1, <3>2, <3>3, <3>4 DEF First
    <3>6. QED BY <1>3, <2>2, <3>5
  <2>3. QED BY <2>1, <2>2
<1>5. Gated(r)
  <2> SUFFICES ASSUME NEW u \in Services, r.typed[u] > 0,
                      NEW i \in 1..Len(DependsOn[u])
               PROVE  /\ DependsOn[u][i] \in r.seen
                      /\ DependsOn[u][i] \in r.launch => r.typed[DependsOn[u][i]] > 0
    BY DEF Gated
  <2>1. CASE u = s
    BY <1>0, <1>4, <2>1
  <2>2. CASE u # s
    <3>1. me.typed[u] > 0
      BY <1>0, <2>2
    <3>2. QED BY <1>0, <1>1, <3>1 DEF GateInv, Gated
  <2>3. QED BY <2>1, <2>2
<1>6. \A u \in r.launch \ r.todo : r.typed[u] > 0
  BY <1>0, <1>2, <1>3
<1>7. SeenUpTo(r, r.dep)
  BY <1>0 DEF SeenUpTo
<1>8. QED
  BY <1>0, <1>5, <1>6, <1>7 DEF GateInv, Before

(* A step of an invocation touches no other invocation's record.           *)
LEMMA BecomeAlone ==
    ASSUME NEW p \in Procs, NEW r, proc \in [Procs -> ProcType], Become(p, r)
    PROVE  proc'[p] = r /\ \A q \in Procs \ {p} : proc'[q] = proc[q]
BY DEF Become

(* What GateInv looks at in a record; the invocation's other fields are    *)
(* free, so a step that keeps these, or ends the invocation, keeps it.     *)
LEMMA EndedGated ==
    ASSUME NEW me, GateInv(me), NEW r,
           r.job = me.job, r.tries = me.tries, r.todo = me.todo,
           r.launch = me.launch, r.seen = me.seen, r.typed = me.typed,
           r.pc \in {"done", "endsession"}
    PROVE  GateInv(r)
BY DEF GateInv, Gated, Before

LEMMA EarlyGated ==
    ASSUME NEW me, GateInv(me), Before(me), NEW r, Before(r),
           r.job = me.job, r.tries = me.tries, r.todo = me.todo, r.dep = me.dep,
           r.launch = me.launch, r.seen = me.seen, r.typed = me.typed
    PROVE  GateInv(r)
BY DEF GateInv, Gated, Before

(* No invocation but an up is concerned.                                   *)
LEMMA OthersGated ==
    ASSUME NEW me, NEW r, r.job = me.job, me.job.cmd # "up"
    PROVE  GateInv(r)
BY DEF GateInv

(* In the retry loop every line has been typed.                            *)
LEMMA RetryGated ==
    ASSUME NEW me \in ProcType, GateInv(me), NEW r \in ProcType,
           \A s \in me.launch : me.typed[s] > 0,
           \A s \in Services : me.typed[s] > 0 => r.typed[s] > 0,
           \A s \in Services : r.typed[s] > 0 => me.typed[s] > 0,
           r.job = me.job, r.launch = me.launch, r.seen = me.seen,
           r.todo \subseteq me.launch,
           r.pc \in {"probe", "term", "kill", "recheck", "type"},
           r.pc # "probe" => r.tries > 0
    PROVE  GateInv(r)
<1>1. CASE me.job.cmd = "up"
  <2>1. me.launch \in SUBSET Services
    BY DEF ProcType
  <2>2. Gated(me)
    BY <1>1 DEF GateInv
  <2>3. Gated(r)
    <3> SUFFICES ASSUME NEW s \in Services, r.typed[s] > 0,
                        NEW i \in 1..Len(DependsOn[s])
                 PROVE  /\ DependsOn[s][i] \in r.seen
                        /\ DependsOn[s][i] \in r.launch => r.typed[DependsOn[s][i]] > 0
      BY DEF Gated
    <3>1. QED BY <2>1, <2>2 DEF Gated
  <2>4. \A s \in r.launch : r.typed[s] > 0
    BY <2>1
  <2>5. ~Before(r) /\ r.pc # "gate" /\ (r.pc = "type" => r.tries > 0) /\ r.tries \in Nat
    BY DEF Before, ProcType
  <2>6. QED BY <1>1, <2>3, <2>4, <2>5 DEF GateInv
<1>2. CASE me.job.cmd # "up"
  BY <1>2 DEF GateInv
<1>3. QED BY <1>1, <1>2

LEMMA GateInvInit == Init => \A p \in Procs : GateInv(proc[p])
<1> SUFFICES ASSUME Init, NEW p \in Procs PROVE GateInv(proc[p])
  OBVIOUS
<1>1. /\ proc[p].pc = "start" /\ proc[p].typed = Blank /\ proc[p].tries = 0
      /\ proc[p].dep = 1 /\ proc[p].launch = {} /\ proc[p].todo = {}
  BY DEF Init
<1>2. \A s \in Services : proc[p].typed[s] = 0
  BY <1>1 DEF Blank
<1> DEFINE me == proc[p]
<1> HIDE DEF me
<1>3. GateInv(me)
  BY <1>1, <1>2 DEF GateInv, Gated, Before, me
<1>4. QED BY <1>3 DEF me

LEMMA UpStepGated ==
    ASSUME TypeOK, NEW p \in Procs, UpStep(p), GateInv(proc[p])
    PROVE  GateInv(proc'[p])
<1> DEFINE me == proc[p]
           my == proc'[p]
<1>0. /\ me \in ProcType /\ my \in ProcType /\ proc \in [Procs -> ProcType]
      /\ me.launch \in SUBSET Services /\ me.todo \in SUBSET Services
      /\ me.typed \in [Services -> Nat] /\ me.tries \in Nat
      /\ Wanted(me.job) \in SUBSET Services /\ GateInv(me)
  <2>1. proc \in [Procs -> ProcType] /\ proc' \in [Procs -> ProcType]
    BY UpStepType DEF TypeOK
  <2>2. QED BY <2>1 DEF ProcType, JobType, Wanted
<1>b. ASSUME NEW r, Become(p, r) PROVE my = r
  BY <1>0, <1>b, BecomeAlone
<1>f. ASSUME NEW x, Finish(p, x) PROVE GateInv(my)
  <2>1. my = [me EXCEPT !.pc = "done", !.result = x]
    BY <1>b, <1>f DEF Finish
  <2>2. QED BY <1>0, <2>1, EndedGated DEF ProcType
<1>g. ASSUME NEW l, Goto(p, l), Before(me),
             l \in {"snapshot", "create", "hook", "teardown", "validate"}
      PROVE  GateInv(my)
  <2>1. my = [me EXCEPT !.pc = l]
    BY <1>b, <1>g DEF Goto
  <2>2. Before(my)
    BY <1>0, <1>g, <2>1 DEF Before, ProcType
  <2>3. QED BY <1>0, <1>g, <2>1, <2>2, EarlyGated DEF ProcType
<1>d. ASSUME NEW S, S \subseteq Wanted(me.job), Before(me), Decide(p, S, "gate")
      PROVE  GateInv(my)
  <2>1. my = [me EXCEPT !.pc = "gate", !.snap = gen, !.launch = S, !.todo = S]
    BY <1>b, <1>d DEF Decide
  <2>2. /\ my.pc = "gate" /\ my.job = me.job /\ my.tries = me.tries /\ my.todo = S
        /\ my.launch = S /\ my.seen = me.seen /\ my.typed = me.typed /\ my.dep = me.dep
    BY <1>0, <2>1 DEF ProcType
  <2>3. CASE me.job.cmd = "up"
    <3>1. me.typed = Blank /\ me.tries = 0 /\ me.dep = 1
      BY <1>d, <2>3 DEF GateInv
    <3>2. \A s \in Services : my.typed[s] = 0
      BY <2>2, <3>1 DEF Blank
    <3>3. SeenUpTo(my, my.dep)
      BY <2>2, <3>1 DEF SeenUpTo
    <3> HIDE DEF my, me
    <3>4. QED BY <1>d, <2>2, <3>1, <3>2, <3>3 DEF GateInv, Gated, Before
  <2>4. QED BY <2>2, <2>3, OthersGated
<1>1. CASE UpBegin(p)
  BY <1>1, <1>f, <1>g DEF UpBegin, At, Before
<1>2. CASE UpCreate(p)
  <2>1. ASSUME Become(p, [me EXCEPT !.pc = "hook", !.made = gen + 1])
        PROVE  GateInv(my)
    <3>1. my = [me EXCEPT !.pc = "hook", !.made = gen + 1]
      BY <1>b, <2>1
    <3>2. Before(me) /\ Before(my)
      BY <1>0, <1>2, <3>1 DEF UpCreate, At, Before, ProcType
    <3>3. QED BY <1>0, <3>1, <3>2, EarlyGated DEF ProcType
  <2>2. QED BY <1>2, <1>f, <2>1 DEF UpCreate
<1>3. CASE UpHook(p)
  BY <1>3, <1>f, <1>g DEF UpHook, At, Before
<1>4. CASE UpTeardown(p)
  BY <1>4, <1>f DEF UpTeardown
<1>5. CASE UpValidate(p)
  <2>1. Before(me)
    BY <1>5 DEF UpValidate, At, Before
  <2>2. QED BY <1>5, <1>f, <1>g, <1>d, <2>1 DEF UpValidate
<1>6. CASE UpSnapshot(p)
  <2>1. Before(me)
    BY <1>6 DEF UpSnapshot, At, Before
  <2>2. QED BY <1>6, <1>f, <1>d, <2>1 DEF UpSnapshot
<1>7. CASE UpPoll(p)
  <2>1. PICK s \in Services :
           /\ me.pc = "gate" /\ First(me, s)
           /\ \/ Become(p, [me EXCEPT !.dep = me.dep + 1, !.polls = 0,
                               !.seen = @ \union {DependsOn[s][me.dep]}])
              \/ Become(p, [me EXCEPT !.polls = @ + 1])
              \/ Finish(p, "unmet")
    BY <1>7 DEF UpPoll, NextInOrder, First, At
  <2>2. ASSUME Become(p, [me EXCEPT !.dep = me.dep + 1, !.polls = 0,
                                    !.seen = @ \union {DependsOn[s][me.dep]}])
        PROVE  GateInv(my)
    <3>1. my = [me EXCEPT !.dep = me.dep + 1, !.polls = 0,
                          !.seen = @ \union {DependsOn[s][me.dep]}]
      BY <1>b, <2>2
    <3>2. /\ my.pc = "gate" /\ my.job = me.job /\ my.tries = me.tries
          /\ my.todo = me.todo /\ my.launch = me.launch /\ my.typed = me.typed
          /\ my.dep = me.dep + 1 /\ my.seen = me.seen \union {DependsOn[s][me.dep]}
          /\ me.dep \in Nat
      BY <1>0, <2>1, <3>1 DEF ProcType
    <3>3. CASE me.job.cmd = "up"
      <4>1. me.todo \subseteq Wanted(me.job) /\ SeenUpTo(me, me.dep) /\ Gated(me)
        BY <2>1, <3>3 DEF GateInv
      <4>2. SeenUpTo(my, my.dep)
        <5> SUFFICES ASSUME NEW t \in Services, First(my, t),
                            NEW i \in 1..Len(DependsOn[t]), i < my.dep
                     PROVE  DependsOn[t][i] \in my.seen
          BY DEF SeenUpTo
        <5>1. First(me, t)
          BY <3>2 DEF First
        <5>2. t = s
          BY <1>0, <2>1, <4>1, <5>1, FirstUnique
        <5>3. CASE i = me.dep
          BY <3>2, <5>2, <5>3
        <5>4. CASE i < me.dep
          BY <3>2, <4>1, <5>1, <5>4 DEF SeenUpTo
        <5>5. QED BY <3>2, <5>3, <5>4
      <4>3. Gated(my)
        BY <3>2, <4>1 DEF Gated
      <4> HIDE DEF my, me
      <4>4. QED BY <1>0, <2>1, <3>2, <3>3, <4>2, <4>3 DEF GateInv, Before
    <3>4. QED BY <3>2, <3>3, OthersGated
  <2>3. ASSUME Become(p, [me EXCEPT !.polls = @ + 1]) PROVE GateInv(my)
    <3>1. my = [me EXCEPT !.polls = @ + 1]
      BY <1>b, <2>3
    <3>2. /\ my.pc = me.pc /\ my.job = me.job /\ my.tries = me.tries
          /\ my.todo = me.todo /\ my.launch = me.launch /\ my.typed = me.typed
          /\ my.dep = me.dep /\ my.seen = me.seen
      BY <1>0, <3>1 DEF ProcType
    <3> HIDE DEF my, me
    <3>3. QED BY <1>0, <3>2 DEF GateInv, Gated, SeenUpTo, First, Before
  <2>4. QED BY <1>f, <2>1, <2>2, <2>3
<1>8. CASE UpGateOpen(p)
  <2>1. PICK s \in Services : First(me, s) /\ me.dep > Len(DependsOn[s])
    BY <1>8 DEF UpGateOpen, NextInOrder, First
  <2>2. my = [me EXCEPT !.pc = "type"] /\ me.pc = "gate"
    BY <1>b, <1>8 DEF UpGateOpen, Goto, At
  <2>3. /\ my.pc = "type" /\ my.job = me.job /\ my.tries = me.tries
        /\ my.todo = me.todo /\ my.launch = me.launch /\ my.typed = me.typed
        /\ my.seen = me.seen /\ me.dep \in Nat
    BY <1>0, <2>2 DEF ProcType
  <2>4. CASE me.job.cmd = "up"
    <3>1. /\ me.todo \subseteq Wanted(me.job) /\ SeenUpTo(me, me.dep) /\ Gated(me)
          /\ me.tries = 0
      BY <2>2, <2>4 DEF GateInv
    <3>2. \A t \in Services : First(my, t) => t = s
      <4>1. \A t \in Services : First(my, t) => First(me, t)
        BY <2>3 DEF First
      <4>2. QED BY <1>0, <2>1, <3>1, <4>1, FirstUnique
    <3>3. SeenUpTo(my, Len(DependsOn[s]) + 1)
      <4> SUFFICES ASSUME NEW i \in 1..Len(DependsOn[s])
                   PROVE  DependsOn[s][i] \in my.seen
        BY <3>2 DEF SeenUpTo
      <4>1. Len(DependsOn[s]) \in Nat
        BY ConstantsAssumption
      <4>2. i < me.dep
        BY <2>1, <2>3, <4>1
      <4>3. QED BY <2>1, <2>3, <3>1, <4>2 DEF SeenUpTo
    <3>4. \A t \in Services : First(my, t) => SeenUpTo(my, Len(DependsOn[t]) + 1)
      BY <3>2, <3>3
    <3>5. Gated(my)
      BY <2>3, <3>1 DEF Gated
    <3>6. /\ my.launch \subseteq Wanted(my.job) /\ my.todo \subseteq my.launch
          /\ \A u \in my.launch \ my.todo : my.typed[u] > 0
      BY <1>0, <2>2, <2>3, <2>4, <3>1 DEF GateInv
    <3>7. my.pc = "type" /\ my.tries = 0 /\ ~Before(my)
      BY <2>3, <3>1 DEF Before
    <3> HIDE DEF my, me
    <3>8. GateInv(my)
      BY <3>4, <3>5, <3>6, <3>7 DEF GateInv
    <3>9. QED BY <3>8 DEF my
  <2>5. QED BY <2>3, <2>4, OthersGated
<1>9. CASE UpType(p)
  <2>1. PICK s \in Services :
           /\ me.job.cmd = "up" /\ me.pc = "type" /\ me.tries = 0 /\ First(me, s)
           /\ TypeLine(p, s, "gate")
    BY <1>9 DEF UpType, NextInOrder, First, At
  <2>2. CASE alive /\ s \in panes
    <3>1. my = [me EXCEPT !.pc = "gate", !.dep = 1, !.polls = 0,
                          !.typed[s] = @ + 1, !.up = @ \ {s}, !.todo = @ \ {s}]
      BY <1>b, <2>1, <2>2 DEF TypeLine
    <3>2. QED BY <1>0, <2>1, <3>1, TypingGated
  <2>3. QED BY <1>f, <2>1, <2>2 DEF TypeLine
<1>10. CASE UpLaunched(p)
  <2> DEFINE watched == {s \in me.launch : Retries[s] > 0}
  <2>1. ASSUME Become(p, [me EXCEPT !.pc = "probe", !.todo = watched])
        PROVE  GateInv(my)
    <3>1. my = [me EXCEPT !.pc = "probe", !.todo = watched] /\ me.pc = "gate"
               /\ me.todo = {}
      BY <1>b, <1>10, <2>1 DEF UpLaunched, At
    <3>2. /\ my.pc = "probe" /\ my.job = me.job /\ my.todo \subseteq me.launch
          /\ my.launch = me.launch /\ my.typed = me.typed /\ my.seen = me.seen
      BY <1>0, <3>1, ZenonT(40) DEF ProcType
    <3>3. CASE me.job.cmd = "up"
      <4>1. \A s \in me.launch : me.typed[s] > 0
        BY <3>1, <3>3 DEF GateInv
      <4>2. QED BY <1>0, <3>2, <4>1, RetryGated
    <3>4. QED BY <3>2, <3>3, OthersGated
  <2>2. QED BY <1>f, <1>10, <2>1 DEF UpLaunched
<1>11. CASE UpProbe(p)
  <2>1. PICK s \in Services :
           /\ me.pc = "probe"
           /\ \/ my = [me EXCEPT !.todo = @ \ {s}, !.up = @ \union {s}]
              \/ my = [me EXCEPT !.pc = "term", !.tries = 1]
    BY <1>b, <1>11 DEF UpProbe, At
  <2>2. /\ my.pc \in {"probe", "term"} /\ (my.pc = "term" => my.tries > 0)
        /\ my.job = me.job /\ my.todo \subseteq me.todo
        /\ my.launch = me.launch /\ my.typed = me.typed /\ my.seen = me.seen
    <3>1. CASE my = [me EXCEPT !.todo = @ \ {s}, !.up = @ \union {s}]
      BY <1>0, <2>1, <3>1 DEF ProcType
    <3>2. CASE my = [me EXCEPT !.pc = "term", !.tries = 1]
      BY <1>0, <3>2 DEF ProcType
    <3>3. QED BY <2>1, <3>1, <3>2
  <2>3. CASE me.job.cmd = "up"
    <3>1. (\A t \in me.launch : me.typed[t] > 0) /\ me.todo \subseteq me.launch
      BY <2>1, <2>3 DEF GateInv
    <3>2. QED BY <1>0, <2>2, <3>1, RetryGated
  <2>4. QED BY <2>2, <2>3, OthersGated
<1>12. CASE UpRetype(p)
  <2>1. PICK s \in Services :
           /\ me.job.cmd = "up" /\ me.pc = "type" /\ me.tries > 0 /\ s \in me.todo
           /\ TypeLine(p, s, "recheck")
    BY <1>12 DEF UpRetype, NextDeclared, At
  <2>2. CASE alive /\ s \in panes
    <3>1. my = [me EXCEPT !.pc = "recheck", !.dep = 1, !.polls = 0,
                          !.typed[s] = @ + 1, !.up = @ \ {s}, !.todo = @]
      BY <1>b, <2>1, <2>2 DEF TypeLine
    <3>2. /\ my.pc = "recheck" /\ my.job = me.job /\ my.todo = me.todo
          /\ my.launch = me.launch /\ my.typed = [me.typed EXCEPT ![s] = @ + 1]
          /\ my.seen = me.seen /\ my.tries = me.tries
      BY <1>0, <3>1 DEF ProcType
    <3>3. (\A t \in me.launch : me.typed[t] > 0) /\ me.todo \subseteq me.launch
      BY <2>1 DEF GateInv
    <3>4. /\ \A t \in Services : me.typed[t] > 0 => my.typed[t] > 0
          /\ \A t \in Services : my.typed[t] > 0 => me.typed[t] > 0
      BY <1>0, <2>1, <3>2, <3>3
    <3>5. QED BY <1>0, <2>1, <3>2, <3>3, <3>4, RetryGated
  <2>3. QED BY <1>f, <2>1, <2>2 DEF TypeLine
<1>13. CASE UpRecheck(p)
  <2>1. PICK s \in Services :
           /\ me.pc = "recheck"
           /\ \/ my = [me EXCEPT !.pc = "probe", !.tries = 0, !.todo = @ \ {s},
                                 !.up = @ \union {s}]
              \/ my = [me EXCEPT !.pc = "term", !.tries = @ + 1]
              \/ my = [me EXCEPT !.pc = "probe", !.tries = 0, !.todo = @ \ {s},
                                 !.failed = @ \union {s}]
    BY <1>b, <1>13 DEF UpRecheck, At
  <2>2. /\ my.pc \in {"probe", "term"} /\ (my.pc = "term" => my.tries > 0)
        /\ my.job = me.job /\ my.todo \subseteq me.todo
        /\ my.launch = me.launch /\ my.typed = me.typed /\ my.seen = me.seen
    <3>1. CASE my = [me EXCEPT !.pc = "probe", !.tries = 0, !.todo = @ \ {s},
                               !.up = @ \union {s}]
      BY <1>0, <3>1 DEF ProcType
    <3>2. CASE my = [me EXCEPT !.pc = "term", !.tries = @ + 1]
      BY <1>0, <3>2 DEF ProcType
    <3>3. CASE my = [me EXCEPT !.pc = "probe", !.tries = 0, !.todo = @ \ {s},
                               !.failed = @ \union {s}]
      BY <1>0, <3>3 DEF ProcType
    <3>4. QED BY <2>1, <3>1, <3>2, <3>3
  <2>3. CASE me.job.cmd = "up"
    <3>1. (\A t \in me.launch : me.typed[t] > 0) /\ me.todo \subseteq me.launch
      BY <2>1, <2>3 DEF GateInv
    <3>2. QED BY <1>0, <2>2, <3>1, RetryGated
  <2>4. QED BY <2>2, <2>3, OthersGated
<1>14. CASE UpSettled(p)
  BY <1>14, <1>f DEF UpSettled
<1>15. QED
  BY <1>1, <1>2, <1>3, <1>4, <1>5, <1>6, <1>7, <1>8, <1>9, <1>10, <1>11,
     <1>12, <1>13, <1>14 DEF UpStep

(* The steps shared with restart and down: an up takes them in its retry   *)
(* loop, or is interrupted.                                                *)
LEMMA OtherStepGated ==
    ASSUME TypeOK, NEW p \in Procs, GateInv(proc[p]),
           \/ RestartBegin(p) \/ RestartSnapshot(p) \/ RestartType(p)
           \/ DownBegin(p) \/ DownSnapshot(p) \/ DownKill(p)
           \/ ReapTerm(p) \/ ReapKill(p) \/ Reaped(p) \/ Interrupt(p)
    PROVE  GateInv(proc'[p])
<1> DEFINE me == proc[p]
           my == proc'[p]
<1>0. /\ me \in ProcType /\ my \in ProcType /\ proc \in [Procs -> ProcType]
      /\ me.todo \in SUBSET Services
  <2>1. proc \in [Procs -> ProcType] /\ proc' \in [Procs -> ProcType]
    BY OtherStepType DEF TypeOK
  <2>2. QED BY <2>1 DEF ProcType
<1>b. ASSUME NEW r, Become(p, r) PROVE my = r
  BY <1>0, <1>b, BecomeAlone
<1>f. ASSUME NEW x, Finish(p, x) PROVE GateInv(my)
  <2>1. my = [me EXCEPT !.pc = "done", !.result = x]
    BY <1>b, <1>f DEF Finish
  <2>2. QED BY <1>0, <2>1, EndedGated DEF ProcType
<1>1. CASE me.job.cmd # "up"
  <2>1. my.job = me.job
    <3>1. ASSUME NEW l, Goto(p, l) PROVE my.job = me.job
      BY <1>0, <1>b, <3>1 DEF Goto, ProcType
    <3>2. ASSUME NEW x, Finish(p, x) PROVE my.job = me.job
      BY <1>0, <1>b, <3>2 DEF Finish, ProcType
    <3>3. ASSUME NEW S, NEW l, Decide(p, S, l) PROVE my.job = me.job
      BY <1>0, <1>b, <3>3 DEF Decide, ProcType
    <3>4. ASSUME NEW s, TypeLine(p, s, "term") PROVE my.job = me.job
      BY <1>0, <1>b, <3>2, <3>4, ZenonT(40) DEF TypeLine, ProcType
    <3>5. CASE ReapTerm(p)
      BY <1>0, <1>b, <3>5, ZenonT(40) DEF ReapTerm, ProcType
    <3>6. CASE ReapKill(p)
      BY <1>0, <1>b, <3>1, <3>6 DEF ReapKill, ProcType
    <3>7. QED
      BY <3>1, <3>2, <3>3, <3>4, <3>5, <3>6 DEF RestartBegin, RestartSnapshot,
         RestartType, DownBegin, DownSnapshot, DownKill, Reaped, Interrupt
  <2>2. QED BY <1>1, <2>1, OthersGated
<1>2. CASE me.job.cmd = "up"
  <2>1. CASE ReapTerm(p)
    <3>1. my = [me EXCEPT !.pc = "kill", !.reaped = @ \union Victims(p)] /\ me.pc = "term"
      BY <1>b, <2>1 DEF ReapTerm, At
    <3>2. /\ my.pc = "kill" /\ my.job = me.job /\ my.todo = me.todo /\ my.tries = me.tries
          /\ my.launch = me.launch /\ my.typed = me.typed /\ my.seen = me.seen
      BY <1>0, <3>1 DEF ProcType
    <3>3. (\A t \in me.launch : me.typed[t] > 0) /\ me.todo \subseteq me.launch /\ me.tries > 0
      BY <1>2, <3>1 DEF GateInv
    <3>4. QED BY <1>0, <3>2, <3>3, RetryGated
  <2>2. CASE ReapKill(p)
    <3>1. my = [me EXCEPT !.pc = "type"] /\ me.pc = "kill"
      BY <1>b, <1>2, <2>2 DEF ReapKill, At, Goto
    <3>2. /\ my.pc = "type" /\ my.job = me.job /\ my.todo = me.todo /\ my.tries = me.tries
          /\ my.launch = me.launch /\ my.typed = me.typed /\ my.seen = me.seen
      BY <1>0, <3>1 DEF ProcType
    <3>3. (\A t \in me.launch : me.typed[t] > 0) /\ me.todo \subseteq me.launch /\ me.tries > 0
      BY <1>2, <3>1 DEF GateInv
    <3>4. QED BY <1>0, <3>2, <3>3, RetryGated
  <2>3. CASE Reaped(p)
    BY <1>f, <1>2, <2>3 DEF Reaped
  <2>4. CASE DownKill(p) \/ Interrupt(p)
    BY <1>f, <2>4 DEF DownKill, Interrupt
  <2>5. QED
    BY <1>2, <2>1, <2>2, <2>3, <2>4 DEF RestartBegin, RestartSnapshot, RestartType,
       DownBegin, DownSnapshot
<1>3. QED BY <1>1, <1>2

(* No up types a service's line before it saw each of its dependencies     *)
(* ready and typed the lines of those it launches itself.                  *)
THEOREM DependenciesGateLaunch == Spec => []GatedLaunch
<1> DEFINE IInv == \A p \in Procs : GateInv(proc[p])
<1>1. Init => IInv
  BY GateInvInit
<1>2. TypeOK /\ IInv /\ [Next]_vars => IInv'
  <2> SUFFICES ASSUME TypeOK, IInv, [Next]_vars, NEW q \in Procs
               PROVE  GateInv(proc'[q])
    OBVIOUS
  <2>1. ASSUME NEW p \in Procs, Step(p) \/ Interrupt(p) PROVE GateInv(proc'[q])
    <3>1. CASE q = p
      BY <2>1, <3>1, UpStepGated, OtherStepGated DEF Step
    <3>2. CASE q # p
      <4>1. \E r : Become(p, r)
        BY <2>1 DEF Step, UpStep, UpBegin, UpCreate, UpHook, UpTeardown,
           UpValidate, UpSnapshot, UpPoll, UpGateOpen, UpType, UpLaunched, UpProbe,
           UpRetype, UpRecheck, UpSettled, RestartBegin, RestartSnapshot,
           RestartType, DownBegin, DownSnapshot, DownKill, ReapTerm, ReapKill,
           Reaped, Interrupt, TypeLine, Goto, Finish, Decide
      <4>2. proc'[q] = proc[q]
        BY <3>2, <4>1, BecomeAlone DEF TypeOK
      <4>3. QED BY <4>2
    <3>3. QED BY <3>1, <3>2
  <2>2. CASE \E s \in Services : Pane(s)
    BY <2>2 DEF Pane, ShellLaunch, ServiceExit
  <2>3. CASE UNCHANGED vars
    BY <2>3 DEF vars
  <2>4. QED BY <2>1, <2>2, <2>3 DEF Next
<1>3. TypeOK /\ IInv => GatedLaunch
  <2> SUFFICES ASSUME TypeOK, IInv, NEW p \in Procs, NEW s \in Services,
                      proc[p].job.cmd = "up", proc[p].typed[s] > 0,
                      NEW i \in 1..Len(DependsOn[s])
               PROVE  /\ DependsOn[s][i] \in proc[p].seen
                      /\ DependsOn[s][i] \in proc[p].launch =>
                            proc[p].typed[DependsOn[s][i]] > 0
    BY DEF GatedLaunch
  <2>1. Gated(proc[p])
    BY DEF GateInv
  <2>2. QED BY <2>1 DEF Gated
<1>4. QED BY <1>1, <1>2, <1>3, TypeCorrect, PTL DEF Spec
=============================================================================
