--------------------------- MODULE InvocationProofs ---------------------------
(***************************************************************************)
(* What each invocation does and reports, for any number of invocations    *)
(* and services, any dependencies, retries, layouts and jobs, whatever the *)
(* other invocations, the shells and the services do in between; and what  *)
(* sessions become of it when several run at once.                         *)
(***************************************************************************)
EXTENDS LifecycleProofs

Fresh == {"start", "snapshot", "create"}
Built == {"hook", "teardown", "validate"}
Refusals == {"preflight", "nopane", "exists", "absent", "running"}

Untouched(me) == me.made = 0 /\ me.typed = Blank /\ me.reaped = {}

Limit(me, s) == 1 + (IF me.job.retry THEN Retries[s] ELSE 0)

Current(me, s) == s \in me.todo /\ \A t \in me.todo : s <= t
Asked(me, s) == s \in me.todo /\ \A t \in me.todo : me.job.place[s] <= me.job.place[t]

Relaunched(me) == {s \in Services : me.typed[s] = 1}

(* What "ok" has to mean.                                                  *)
OkTrue(me) ==
    /\ me.job.cmd = "up" =>
          /\ me.made # 0 => me.launch = Wanted(me.job)
          /\ \A s \in me.launch :
                /\ me.typed[s] > 0
                /\ me.job.retry /\ Retries[s] > 0 => s \in me.up
    /\ me.job.cmd = "restart" =>
          me.reaped = me.job.req /\ Relaunched(me) = me.job.req

(* What holds of an invocation wherever it is, and where it ends.          *)
Always(me) ==
    /\ me.job \in Jobs
    /\ me.pc # "done" => me.result = "none"
    /\ me.result \in Refusals => Untouched(me)
    /\ me.result = "ok" => OkTrue(me)
    /\ me.job.cmd = "up" =>
          /\ \A s \in me.reaped : me.typed[s] > 0 /\ s \in Wanted(me.job)
          /\ \A s \in Services : me.typed[s] <= Limit(me, s)
    /\ me.job.cmd = "restart" =>
          /\ Relaunched(me) \subseteq me.reaped
          /\ \A s, t \in me.reaped \ Relaunched(me) : s = t

(* Before it acts, and while an up builds its session.                     *)
Early(me) ==
    /\ me.pc \in Fresh => Untouched(me)
    /\ me.pc \in Fresh \union Built =>
          me.typed = Blank /\ me.reaped = {} /\ me.tries = 0 /\ me.failed = {}
    /\ me.pc \in {"create"} \union Built => me.job.cmd = "up"
    /\ me.pc = "endsession" => me.job.cmd = "down"

(* In the launch loops of up, what is off the list was typed once.         *)
IsLaunching(me) == me.pc = "gate" \/ (me.pc = "type" /\ me.job.cmd = "up" /\ me.tries = 0)
Launching(me) == IsLaunching(me) =>
    /\ me.job.cmd = "up" /\ me.tries = 0 /\ me.reaped = {} /\ me.failed = {}
    /\ me.launch \subseteq Wanted(me.job) /\ me.todo \subseteq me.launch
    /\ me.made # 0 => me.launch = Wanted(me.job)
    /\ \A s \in Services : me.typed[s] = IF s \in me.launch \ me.todo THEN 1 ELSE 0

(* In its retry loop, the service in hand has been typed once for each try *)
(* and before them, those after it once.                                   *)
IsRetrying(me) ==
    \/ me.pc \in {"probe", "recheck"}
    \/ me.job.cmd = "up" /\ me.pc \in {"term", "kill"}
    \/ me.job.cmd = "up" /\ me.pc = "type" /\ me.tries > 0
Retrying(me) == IsRetrying(me) =>
    /\ me.job.cmd = "up" /\ me.job.retry
    /\ me.launch \subseteq Wanted(me.job) /\ me.todo \subseteq me.launch
    /\ me.made # 0 => me.launch = Wanted(me.job)
    /\ \A s \in me.launch : me.typed[s] > 0
    /\ \A s \in me.launch : Retries[s] > 0 => s \in me.todo \union me.up \union me.failed
    /\ \A s \in me.todo : ~Current(me, s) => me.typed[s] = 1
    /\ me.pc = "probe" => me.tries = 0 /\ \A s \in me.todo : Retries[s] > 0 /\ me.typed[s] = 1
    /\ me.pc # "probe" =>
          /\ me.tries > 0
          /\ \A s \in me.todo : Retries[s] > 0
          /\ \E s \in me.todo :
                /\ Current(me, s) /\ me.tries <= Retries[s]
                /\ me.typed[s] = IF me.pc = "recheck" THEN me.tries + 1 ELSE me.tries

(* A restart has typed the line of what is off the list, and stopped that  *)
(* and perhaps the service in hand.                                        *)
IsRestarting(me) == me.job.cmd = "restart" /\ me.pc \in {"term", "kill", "type"}
Restarting(me) == IsRestarting(me) =>
    /\ me.todo \subseteq me.job.req
    /\ \A s \in Services : me.typed[s] = IF s \in me.job.req \ me.todo THEN 1 ELSE 0
    /\ me.pc = "term" => me.reaped = me.job.req \ me.todo
    /\ me.pc # "term" =>
          me.reaped = (me.job.req \ me.todo) \union {s \in Services : Asked(me, s)}

RunInv(me) ==
    Always(me) /\ Early(me) /\ Launching(me) /\ Retrying(me) /\ Restarting(me)

-----------------------------------------------------------------------------
LEMMA RecordTypes ==
    ASSUME NEW me \in ProcType
    PROVE  /\ me.launch \subseteq Services /\ me.todo \subseteq Services
           /\ me.reaped \subseteq Services /\ me.up \subseteq Services
           /\ me.failed \subseteq Services /\ me.job.req \subseteq Services
           /\ me.typed \in [Services -> Nat] /\ me.tries \in Nat /\ me.made \in Nat
           /\ me.job \in JobType /\ me.job.retry \in BOOLEAN
           /\ me.job.cmd \in {"up", "down", "restart"}
           /\ me.job.place \in [Services -> Nat]
           /\ Wanted(me.job) \subseteq Services
           /\ Retries \in [Services -> Nat] /\ Services \subseteq Nat
<1>1. /\ me.launch \subseteq Services /\ me.todo \subseteq Services
      /\ me.reaped \subseteq Services /\ me.up \subseteq Services
      /\ me.failed \subseteq Services
      /\ me.typed \in [Services -> Nat] /\ me.tries \in Nat /\ me.made \in Nat
      /\ me.job \in JobType
  BY DEF ProcType
<1>2. /\ me.job.req \subseteq Services /\ me.job.retry \in BOOLEAN
      /\ me.job.cmd \in {"up", "down", "restart"}
      /\ me.job.place \in [Services -> Nat]
  BY <1>1 DEF JobType
<1>3. Wanted(me.job) \subseteq Services BY <1>2 DEF Wanted
<1>4. Retries \in [Services -> Nat] /\ Services \subseteq Nat
  BY ConstantsAssumption DEF Services
<1>5. QED BY <1>1, <1>2, <1>3, <1>4

(* The next service of either loop is one.                                 *)
LEMMA NextIsOne ==
    ASSUME NEW me \in ProcType, me.job \in Jobs
    PROVE  /\ \A s, t \in Services : Current(me, s) /\ Current(me, t) => s = t
           /\ \A s, t \in Services : Asked(me, s) /\ Asked(me, t) => s = t
<1>1. \A s, t \in Services : me.job.place[s] = me.job.place[t] => s = t
  BY ConstantsAssumption
<1>2. Services \subseteq Nat /\ me.job.place \in [Services -> Nat] BY RecordTypes
<1>3. ASSUME NEW s \in Services, NEW t \in Services, Current(me, s), Current(me, t)
      PROVE  s = t
  <2>1. s <= t /\ t <= s /\ s \in Nat /\ t \in Nat BY <1>2, <1>3 DEF Current
  <2>2. QED BY <2>1
<1>4. ASSUME NEW s \in Services, NEW t \in Services, Asked(me, s), Asked(me, t)
      PROVE  s = t
  <2>1. /\ me.job.place[s] <= me.job.place[t] /\ me.job.place[t] <= me.job.place[s]
        /\ me.job.place[s] \in Nat /\ me.job.place[t] \in Nat
    BY <1>2, <1>4 DEF Asked
  <2>2. me.job.place[s] = me.job.place[t] BY <2>1
  <2>3. QED BY <1>1, <2>2
<1>5. QED BY <1>3, <1>4

(* Whatever ends an invocation, its report must be right.                  *)
LEMMA EndedRun ==
    ASSUME NEW me \in ProcType, Always(me), me.pc # "done", NEW x, NEW r,
           r = [me EXCEPT !.pc = "done", !.result = x],
           x \in Refusals => Untouched(me), x = "ok" => OkTrue(me)
    PROVE  RunInv(r)
<1>1. /\ r.pc = "done" /\ r.result = x /\ r.job = me.job /\ r.made = me.made
      /\ r.typed = me.typed /\ r.reaped = me.reaped /\ r.launch = me.launch /\ r.up = me.up
  BY DEF ProcType
<1>2. Always(r) BY <1>1 DEF Always, Untouched, OkTrue, Relaunched, Limit
<1>3. QED
  BY <1>1, <1>2 DEF RunInv, Early, Fresh, Built, Launching, IsLaunching, Retrying,
     IsRetrying, Restarting, IsRestarting

LEMMA InitRun == ASSUME Init, NEW p \in Procs PROVE RunInv(proc[p])
<1> DEFINE me == proc[p]
<1>1. /\ me.pc = "start" /\ me.job \in Jobs /\ me.result = "none" /\ me.typed = Blank
      /\ me.reaped = {} /\ me.made = 0 /\ me.tries = 0 /\ me.failed = {}
  BY DEF Init
<1>2. \A s \in Services : me.typed[s] = 0 BY <1>1 DEF Blank
<1>3. \A s \in Services : Limit(me, s) \in Nat /\ Limit(me, s) >= 1
  BY ConstantsAssumption DEF Limit
<1> HIDE DEF me
<1>4. Always(me)
  BY <1>1, <1>2, <1>3 DEF Always, Untouched, Refusals, Relaunched
<1>5. QED
  BY <1>1, <1>4 DEF me, RunInv, Early, Fresh, Built, Untouched, Launching, IsLaunching,
     Retrying, IsRetrying, Restarting, IsRestarting

(* Before anything is typed or reaped only pc and made move.               *)
LEMMA EarlyRun ==
    ASSUME NEW me \in ProcType, RunInv(me), me.pc \in Fresh \union Built,
           NEW l \in {"snapshot", "create"} \union Built, NEW n, NEW r,
           r = [me EXCEPT !.pc = l, !.made = n],
           l \in Fresh => n = 0 /\ me.pc \in Fresh,
           l # "snapshot" => me.job.cmd = "up"
    PROVE  RunInv(r)
<1>1. /\ r.pc = l /\ r.made = n /\ r.result = me.result /\ r.job = me.job
      /\ r.typed = me.typed /\ r.reaped = me.reaped /\ r.tries = me.tries
      /\ r.failed = me.failed
  BY DEF ProcType
<1>2. me.result = "none" /\ me.pc # "done" BY DEF RunInv, Always, Fresh, Built
<1>3. Always(r)
  BY <1>1, <1>2 DEF RunInv, Always, Refusals, Relaunched, Limit
<1>4. Early(r) BY <1>1 DEF RunInv, Early, Fresh, Built, Untouched
<1>5. r.pc \notin {"gate", "type", "probe", "recheck", "term", "kill"} BY <1>1 DEF Built
<1>6. QED
  BY <1>3, <1>4, <1>5 DEF RunInv, Launching, IsLaunching, Retrying, IsRetrying,
     Restarting, IsRestarting

(* The launch loop begins with everything on its list.                     *)
LEMMA DecidedLaunch ==
    ASSUME NEW me \in ProcType, RunInv(me), me.pc \in Fresh \union Built,
           me.job.cmd = "up", NEW S \in SUBSET Wanted(me.job), NEW n, NEW r,
           r = [me EXCEPT !.pc = "gate", !.snap = n, !.launch = S, !.todo = S],
           me.made # 0 => S = Wanted(me.job)
    PROVE  RunInv(r)
<1>1. /\ r.pc = "gate" /\ r.result = me.result /\ r.job = me.job /\ r.typed = me.typed
      /\ r.reaped = me.reaped /\ r.tries = me.tries /\ r.failed = me.failed
      /\ r.launch = S /\ r.todo = S /\ r.made = me.made
  BY DEF ProcType
<1>2. me.result = "none" /\ me.typed = Blank /\ me.reaped = {} /\ me.tries = 0 /\ me.failed = {}
  BY DEF RunInv, Always, Early, Fresh, Built
<1>3. Always(r) BY <1>1, <1>2 DEF RunInv, Always, Refusals, Relaunched, Limit
<1>4. Launching(r) BY <1>1, <1>2 DEF Launching, Blank
<1>5. QED
  BY <1>1, <1>3, <1>4 DEF RunInv, Early, Fresh, Built, Retrying, IsRetrying, Restarting,
     IsRestarting

(* The record an invocation has after a step that replaces it.             *)
LEMMA Becomes ==
    ASSUME TypeOK, NEW p \in Procs, NEW r, Become(p, r)
    PROVE  proc'[p] = r
BY BecomeAlone DEF TypeOK

LEMMA FinishRun ==
    ASSUME TypeOK, NEW p \in Procs, RunInv(proc[p]), proc[p].pc # "done",
           NEW x, Finish(p, x),
           x \in Refusals => Untouched(proc[p]), x = "ok" => OkTrue(proc[p])
    PROVE  RunInv(proc'[p])
<1>1. proc'[p] = [proc[p] EXCEPT !.pc = "done", !.result = x]
  BY Becomes DEF Finish
<1>2. proc[p] \in ProcType /\ Always(proc[p]) BY DEF TypeOK, RunInv
<1>3. QED BY <1>1, <1>2, EndedRun

(* A step before anything is typed.                                        *)
LEMMA EarlyGoto ==
    ASSUME TypeOK, NEW p \in Procs, RunInv(proc[p]), proc[p].pc \in Fresh \union Built,
           NEW l \in {"snapshot", "create"} \union Built, Goto(p, l),
           l \in Fresh => proc[p].pc \in Fresh,
           l # "snapshot" => proc[p].job.cmd = "up"
    PROVE  RunInv(proc'[p])
<1>1. proc'[p] = [proc[p] EXCEPT !.pc = l] BY Becomes DEF Goto
<1>2. proc[p] \in ProcType BY DEF TypeOK
<1>3. proc'[p] = [proc[p] EXCEPT !.pc = l, !.made = proc[p].made] BY <1>1, <1>2 DEF ProcType
<1>4. l \in Fresh => proc[p].made = 0 BY DEF RunInv, Early, Untouched
<1>5. QED BY <1>2, <1>3, <1>4, EarlyRun

LEMMA BeginRun ==
    ASSUME TypeOK, NEW p \in Procs, RunInv(proc[p]),
           UpBegin(p) \/ UpCreate(p) \/ RestartBegin(p) \/ DownBegin(p)
    PROVE  RunInv(proc'[p])
<1>1. proc[p].pc \in Fresh /\ proc[p].pc # "done"
  BY DEF UpBegin, UpCreate, RestartBegin, DownBegin, At, Fresh
<1>2. Untouched(proc[p]) BY <1>1 DEF RunInv, Early
<1>3. ASSUME NEW x \in Refusals, Finish(p, x) PROVE RunInv(proc'[p])
  BY <1>1, <1>2, <1>3, FinishRun DEF Refusals
<1>4. ASSUME NEW l \in {"snapshot", "create"}, Goto(p, l), l = "create" => proc[p].job.cmd = "up"
      PROVE  RunInv(proc'[p])
  BY <1>1, <1>4, EarlyGoto DEF Built
<1>5. CASE UpBegin(p)
  BY <1>3, <1>4, <1>5 DEF UpBegin, Refusals
<1>6. CASE RestartBegin(p) \/ DownBegin(p)
  BY <1>3, <1>4, <1>6 DEF RestartBegin, DownBegin, Refusals
<1>7. CASE UpCreate(p)
  <2>1. \/ Finish(p, "exists")
        \/ Become(p, [proc[p] EXCEPT !.pc = "hook", !.made = gen + 1])
    BY <1>7 DEF UpCreate
  <2>2. CASE Become(p, [proc[p] EXCEPT !.pc = "hook", !.made = gen + 1])
    <3>1. proc'[p] = [proc[p] EXCEPT !.pc = "hook", !.made = gen + 1] BY <2>2, Becomes
    <3>2. proc[p].job.cmd = "up" BY <1>7 DEF UpCreate, At, RunInv, Early
    <3>3. proc[p] \in ProcType BY DEF TypeOK
    <3>4. "hook" \in Built /\ "hook" \notin Fresh BY DEF Built, Fresh
    <3>5. QED BY <1>1, <3>1, <3>2, <3>3, <3>4, EarlyRun
  <2>3. QED BY <1>3, <2>1, <2>2 DEF Refusals
<1>8. QED BY <1>5, <1>6, <1>7

LEMMA BuildRun ==
    ASSUME TypeOK, NEW p \in Procs, RunInv(proc[p]),
           UpHook(p) \/ UpTeardown(p) \/ UpValidate(p) \/ UpSnapshot(p)
    PROVE  RunInv(proc'[p])
<1>1. /\ proc[p].pc \in Fresh \union Built /\ proc[p].pc # "done"
      /\ proc[p].job.cmd = "up" /\ proc[p] \in ProcType
  BY DEF UpHook, UpTeardown, UpValidate, UpSnapshot, At, Fresh, Built, RunInv, Early, TypeOK
<1>2. ASSUME NEW x \in {"gone", "hookwarn", "torndown"}, Finish(p, x)
      PROVE  RunInv(proc'[p])
  BY <1>1, <1>2, FinishRun DEF Refusals
<1>3. ASSUME NEW l \in {"teardown", "validate"}, Goto(p, l) PROVE RunInv(proc'[p])
  BY <1>1, <1>3, EarlyGoto DEF Built, Fresh
<1>4. ASSUME NEW S \in SUBSET Wanted(proc[p].job), Decide(p, S, "gate"),
             proc[p].made # 0 => S = Wanted(proc[p].job)
      PROVE  RunInv(proc'[p])
  <2>1. proc'[p] = [proc[p] EXCEPT !.pc = "gate", !.snap = gen, !.launch = S, !.todo = S]
    BY <1>4, Becomes DEF Decide
  <2>2. QED BY <1>1, <1>4, <2>1, DecidedLaunch
<1>5. CASE UpHook(p) BY <1>2, <1>3, <1>5 DEF UpHook
<1>6. CASE UpTeardown(p) BY <1>2, <1>6 DEF UpTeardown
<1>7. CASE UpValidate(p) BY <1>2, <1>3, <1>4, <1>7 DEF UpValidate
<1>8. CASE UpSnapshot(p)
  <2>1. Untouched(proc[p]) /\ proc[p].made = 0
    BY <1>8 DEF UpSnapshot, At, RunInv, Early, Fresh, Untouched
  <2>2. Finish(p, "preflight") => RunInv(proc'[p]) BY <1>1, <2>1, FinishRun DEF Refusals
  <2>3. QED BY <1>2, <1>4, <1>8, <2>1, <2>2 DEF UpSnapshot
<1>9. QED BY <1>5, <1>6, <1>7, <1>8

(* A step that moves none of what the invariant looks at, but pc.          *)
Same(r, me) ==
    /\ r.job = me.job /\ r.result = me.result /\ r.made = me.made /\ r.typed = me.typed
    /\ r.reaped = me.reaped /\ r.tries = me.tries /\ r.failed = me.failed
    /\ r.launch = me.launch /\ r.todo = me.todo /\ r.up = me.up

(* The gate only looks.                                                    *)
LEMMA GateRun ==
    ASSUME TypeOK, NEW p \in Procs, RunInv(proc[p]), UpPoll(p) \/ UpGateOpen(p)
    PROVE  RunInv(proc'[p])
<1> DEFINE me == proc[p]
           r == proc'[p]
<1>1. me \in ProcType /\ me.pc = "gate" BY DEF UpPoll, UpGateOpen, At, TypeOK
<1>2. Launching(me) /\ IsLaunching(me) /\ Always(me) BY <1>1 DEF RunInv, IsLaunching
<1>3. ASSUME r.pc \in {"gate", "type"}, Same(r, me) PROVE RunInv(r)
  <2>1. r.tries = 0 /\ r.job.cmd = "up" /\ me.result = "none"
    BY <1>1, <1>2, <1>3 DEF Launching, Always, Same
  <2> HIDE DEF r, me
  <2>2. Always(r) BY <1>2, <1>3, <2>1 DEF Always, Relaunched, Limit, Refusals, Same
  <2>3. Launching(r) BY <1>2, <1>3 DEF Launching, Same
  <2>4. QED
    BY <1>3, <2>1, <2>2, <2>3 DEF RunInv, Early, Fresh, Built, Retrying, IsRetrying,
       Restarting, IsRestarting
<1>4. CASE UpGateOpen(p)
  <2>1. r = [me EXCEPT !.pc = "type"] BY <1>4, Becomes DEF UpGateOpen, Goto
  <2>2. QED BY <1>1, <1>3, <2>1 DEF ProcType, Same
<1>5. CASE UpPoll(p)
  <2>1. \/ \E d : Become(p, [me EXCEPT !.dep = me.dep + 1, !.polls = 0,
                                       !.seen = me.seen \union {d}])
        \/ Become(p, [me EXCEPT !.polls = me.polls + 1])
        \/ Finish(p, "unmet")
    BY <1>5 DEF UpPoll
  <2>2. ASSUME NEW d, Become(p, [me EXCEPT !.dep = me.dep + 1, !.polls = 0,
                                           !.seen = me.seen \union {d}])
        PROVE  RunInv(r)
    <3>1. r = [me EXCEPT !.dep = me.dep + 1, !.polls = 0, !.seen = me.seen \union {d}]
      BY <2>2, Becomes
    <3>2. QED BY <1>1, <1>3, <3>1 DEF ProcType, Same
  <2>3. CASE Become(p, [me EXCEPT !.polls = me.polls + 1])
    <3>1. r = [me EXCEPT !.polls = me.polls + 1] BY <2>3, Becomes
    <3>2. QED BY <1>1, <1>3, <3>1 DEF ProcType, Same
  <2>4. CASE Finish(p, "unmet") BY <1>1, <2>4, FinishRun DEF Refusals
  <2>5. QED BY <2>1, <2>2, <2>3, <2>4
<1>6. QED BY <1>4, <1>5

(* The line of the next service, the first time an up types it.            *)
LEMMA TypeRun ==
    ASSUME TypeOK, NEW p \in Procs, RunInv(proc[p]), UpType(p)
    PROVE  RunInv(proc'[p])
<1> DEFINE me == proc[p]
           r == proc'[p]
<1>1. me \in ProcType /\ me.pc = "type" /\ me.job.cmd = "up" /\ me.tries = 0
  BY DEF UpType, At, TypeOK
<1>2. Launching(me) /\ IsLaunching(me) /\ Always(me) BY <1>1 DEF RunInv, IsLaunching
<1>3. PICK s \in Services : NextInOrder(p, s) /\ TypeLine(p, s, "gate") BY DEF UpType
<1>4. s \in me.todo BY <1>3 DEF NextInOrder
<1>5. CASE Finish(p, "gone") BY <1>1, <1>5, FinishRun DEF Refusals
<1>6. CASE ~Finish(p, "gone")
  <2>1. r = [me EXCEPT !.pc = "gate", !.dep = 1, !.polls = 0,
                       !.typed = [me.typed EXCEPT ![s] = @ + 1],
                       !.up = me.up \ {s}, !.todo = me.todo \ {s}]
    BY <1>3, <1>6, Becomes DEF TypeLine
  <2>2. /\ r.pc = "gate" /\ r.job = me.job /\ r.result = me.result /\ r.made = me.made
        /\ r.reaped = me.reaped /\ r.tries = me.tries /\ r.failed = me.failed
        /\ r.launch = me.launch /\ r.todo = me.todo \ {s}
        /\ r.typed = [me.typed EXCEPT ![s] = @ + 1]
    BY <1>1, <2>1 DEF ProcType
  <2>3. /\ me.typed \in [Services -> Nat] /\ me.todo \subseteq Services
        /\ Retries \in [Services -> Nat] /\ me.job.retry \in BOOLEAN
    BY <1>1, RecordTypes
  <2>4. \A x \in Services : r.typed[x] = IF x \in me.launch \ (me.todo \ {s}) THEN 1 ELSE 0
    BY <1>2, <1>4, <2>2, <2>3 DEF Launching
  <2>5. \A x \in Services : Limit(me, x) \in Nat /\ Limit(me, x) >= 1 BY <2>3 DEF Limit
  <2>6. \A x \in Services : r.typed[x] <= Limit(r, x)
    BY <2>2, <2>4, <2>5 DEF Limit
  <2>7. me.reaped = {} /\ me.result = "none" BY <1>1, <1>2 DEF Launching, Always
  <2> HIDE DEF r, me
  <2>8. Always(r) BY <1>1, <1>2, <2>2, <2>6, <2>7 DEF Always, Refusals
  <2>9. Launching(r) BY <1>2, <2>2, <2>4 DEF Launching
  <2>10. r.tries = 0 BY <1>1, <2>2
  <2>11. RunInv(r)
    BY <1>1, <2>2, <2>8, <2>9, <2>10 DEF RunInv, Early, Fresh, Built, Retrying, IsRetrying,
       Restarting, IsRestarting
  <2>12. QED BY <2>11 DEF r
<1>7. QED BY <1>5, <1>6

(* All lines typed: report, or begin to watch.                             *)
LEMMA LaunchedRun ==
    ASSUME TypeOK, NEW p \in Procs, RunInv(proc[p]), UpLaunched(p)
    PROVE  RunInv(proc'[p])
<1> DEFINE me == proc[p]
           r == proc'[p]
           watched == {s \in me.launch : Retries[s] > 0}
<1>1. me \in ProcType /\ me.pc = "gate" /\ me.todo = {} BY DEF UpLaunched, At, TypeOK
<1>2. Launching(me) /\ IsLaunching(me) /\ Always(me) BY <1>1 DEF RunInv, IsLaunching
<1>3. /\ me.launch \subseteq Services /\ me.job.retry \in BOOLEAN /\ me.typed \in [Services -> Nat]
  BY <1>1, RecordTypes
<1>4. \A s \in me.launch : me.typed[s] = 1 BY <1>1, <1>2, <1>3 DEF Launching
<1>5. CASE ~me.job.retry
  <2>1. Finish(p, "ok") BY <1>5 DEF UpLaunched
  <2>2. me.job.cmd = "up" /\ (me.made # 0 => me.launch = Wanted(me.job))
    BY <1>2 DEF Launching
  <2>3. OkTrue(me) BY <1>4, <1>5, <2>2 DEF OkTrue
  <2>4. QED BY <1>1, <2>1, <2>3, FinishRun DEF Refusals
<1>6. CASE me.job.retry
  <2>1. r = [me EXCEPT !.pc = "probe", !.todo = watched]
    BY <1>6, Becomes DEF UpLaunched
  <2>2. /\ r.pc = "probe" /\ r.job = me.job /\ r.result = me.result /\ r.made = me.made
        /\ r.reaped = me.reaped /\ r.tries = me.tries /\ r.failed = me.failed
        /\ r.launch = me.launch /\ r.todo = watched /\ r.typed = me.typed /\ r.up = me.up
    BY <1>1, <2>1 DEF ProcType
  <2>3. me.reaped = {} /\ me.result = "none" /\ me.job.cmd = "up" /\ me.tries = 0
    BY <1>1, <1>2 DEF Launching, Always
  <2>4. Always(r) BY <1>2, <2>2, <2>3 DEF Always, Refusals, Relaunched, Limit
  <2> HIDE DEF r
  <2>5. Retrying(r)
    BY <1>2, <1>4, <1>6, <2>2, <2>3 DEF Retrying, Launching
  <2>6. RunInv(r)
    BY <2>2, <2>3, <2>4, <2>5 DEF RunInv, Early, Fresh, Built, Launching, IsLaunching,
       Restarting, IsRestarting
  <2>7. QED BY <2>6 DEF r
<1>7. QED BY <1>5, <1>6

(* The retry loop, step by step: what it keeps whatever it does.           *)
LEMMA RetryStep ==
    ASSUME NEW me \in ProcType, RunInv(me), IsRetrying(me), NEW r,
           r.job = me.job, r.result = me.result, r.made = me.made, r.launch = me.launch,
           r.pc \in {"probe", "recheck", "term", "kill", "type"},
           r.pc = "type" => r.tries > 0,
           \A s \in Services : r.typed[s] <= Limit(me, s),
           \A s \in r.reaped : r.typed[s] > 0 /\ s \in Wanted(me.job),
           Retrying(r)
    PROVE  RunInv(r)
<1>1. me.job.cmd = "up" /\ Always(me) /\ me.result = "none"
  BY DEF RunInv, Retrying, IsRetrying, Always
<1>2. Always(r) BY <1>1 DEF Always, Refusals, Limit
<1>3. Early(r) BY DEF Early, Fresh, Built
<1>4. ~(r.tries > 0 /\ r.tries = 0)
  OBVIOUS
<1>5. Launching(r) BY <1>4 DEF Launching, IsLaunching
<1>6. Restarting(r) BY <1>1 DEF Restarting, IsRestarting
<1>7. QED BY <1>2, <1>3, <1>5, <1>6 DEF RunInv


(* After the settle window: up, or a first retry.                          *)
LEMMA ProbeRun ==
    ASSUME TypeOK, NEW p \in Procs, RunInv(proc[p]), UpProbe(p)
    PROVE  RunInv(proc'[p])
<1> DEFINE me == proc[p]
           r == proc'[p]
<1>1. PICK s \in Services :
         /\ me.pc = "probe" /\ Current(me, s)
         /\ \/ Become(p, [me EXCEPT !.todo = me.todo \ {s}, !.up = me.up \union {s}])
            \/ Become(p, [me EXCEPT !.pc = "term", !.tries = 1])
  BY DEF UpProbe, At, NextDeclared, Current
<1>2. me \in ProcType BY DEF TypeOK
<1>3. IsRetrying(me) /\ Retrying(me) /\ Always(me) BY <1>1 DEF RunInv, IsRetrying
<1>4. /\ me.typed \in [Services -> Nat] /\ Retries \in [Services -> Nat]
      /\ me.todo \subseteq Services /\ s \in me.todo
  BY <1>1, <1>2, RecordTypes DEF Current
<1>5. CASE Become(p, [me EXCEPT !.todo = me.todo \ {s}, !.up = me.up \union {s}])
  <2>1. r = [me EXCEPT !.todo = me.todo \ {s}, !.up = me.up \union {s}] BY <1>5, Becomes
  <2>2. /\ r.pc = "probe" /\ r.job = me.job /\ r.result = me.result /\ r.made = me.made
        /\ r.reaped = me.reaped /\ r.tries = me.tries /\ r.failed = me.failed
        /\ r.launch = me.launch /\ r.typed = me.typed
        /\ r.todo = me.todo \ {s} /\ r.up = me.up \union {s}
    BY <1>1, <1>2, <2>1 DEF ProcType
  <2> HIDE DEF me, r
  <2>3. Retrying(r) BY <1>1, <1>3, <2>2 DEF Retrying
  <2>4. RunInv(me) BY DEF me
  <2>5. RunInv(r) BY <1>2, <1>3, <2>2, <2>3, <2>4, RetryStep DEF Always, Retrying
  <2>6. QED BY <2>5 DEF r
<1>6. CASE Become(p, [me EXCEPT !.pc = "term", !.tries = 1])
  <2>1. r = [me EXCEPT !.pc = "term", !.tries = 1] BY <1>6, Becomes
  <2>2. /\ r.pc = "term" /\ r.job = me.job /\ r.result = me.result /\ r.made = me.made
        /\ r.reaped = me.reaped /\ r.tries = 1 /\ r.failed = me.failed
        /\ r.launch = me.launch /\ r.typed = me.typed /\ r.todo = me.todo /\ r.up = me.up
    BY <1>2, <2>1 DEF ProcType
  <2> HIDE DEF me, r
  <2>3. /\ Retries[s] \in Nat /\ Retries[s] > 0 /\ me.typed[s] = 1
    BY <1>1, <1>3, <1>4 DEF Retrying
  <2>4. Current(r, s) /\ r.tries <= Retries[s] /\ r.typed[s] = r.tries
    BY <1>1, <2>2, <2>3 DEF Current
  <2>5. Retrying(r) BY <1>1, <1>3, <1>4, <2>2, <2>4 DEF Retrying, Current
  <2>6. RunInv(me) BY DEF me
  <2>7. RunInv(r) BY <1>2, <1>3, <2>2, <2>5, <2>6, RetryStep DEF Always, Retrying
  <2>8. QED BY <2>7 DEF r
<1>7. QED BY <1>1, <1>5, <1>6

(* The service in hand between two probes, and what is known of it.        *)
LEMMA InHand ==
    ASSUME NEW me \in ProcType, RunInv(me), IsRetrying(me), me.pc # "probe",
           NEW s \in Services, Current(me, s)
    PROVE  /\ s \in me.todo /\ me.tries <= Retries[s] /\ me.tries > 0
           /\ me.typed[s] = IF me.pc = "recheck" THEN me.tries + 1 ELSE me.tries
           /\ \A t \in me.todo : t # s => me.typed[t] = 1 /\ ~Current(me, t)
           /\ me.typed[s] <= Limit(me, s) /\ me.typed[s] > 0 /\ s \in Wanted(me.job)
<1>1. Retrying(me) /\ me.job \in Jobs BY DEF RunInv, Always
<1>2. /\ me.typed \in [Services -> Nat] /\ Retries \in [Services -> Nat] /\ me.tries \in Nat
      /\ me.todo \subseteq Services /\ me.job.retry \in BOOLEAN
  BY RecordTypes
<1>3. PICK t \in me.todo :
         /\ Current(me, t) /\ me.tries <= Retries[t]
         /\ me.typed[t] = IF me.pc = "recheck" THEN me.tries + 1 ELSE me.tries
  BY <1>1 DEF Retrying
<1>4. t = s BY <1>1, <1>2, <1>3, NextIsOne
<1>5. \A x \in me.todo : x # s => ~Current(me, x) BY <1>1, <1>2, NextIsOne
<1>6. s \in me.todo /\ me.tries > 0 /\ me.job.retry BY <1>1, <1>3, <1>4 DEF Retrying
<1>7. me.typed[s] > 0 /\ me.typed[s] <= 1 + Retries[s] BY <1>2, <1>3, <1>4, <1>6
<1>8. s \in Wanted(me.job) BY <1>1, <1>6 DEF Retrying
<1>9. QED BY <1>1, <1>3, <1>4, <1>5, <1>6, <1>7, <1>8 DEF Retrying, Limit

(* The line again.                                                         *)
LEMMA RetypeRun ==
    ASSUME TypeOK, NEW p \in Procs, RunInv(proc[p]), UpRetype(p)
    PROVE  RunInv(proc'[p])
<1> DEFINE me == proc[p]
           r == proc'[p]
<1>1. PICK s \in Services :
         /\ me.pc = "type" /\ me.job.cmd = "up" /\ me.tries > 0 /\ Current(me, s)
         /\ TypeLine(p, s, "recheck")
  BY DEF UpRetype, At, NextDeclared, Current
<1>2. me \in ProcType BY DEF TypeOK
<1>3. IsRetrying(me) /\ Retrying(me) /\ Always(me) BY <1>1 DEF RunInv, IsRetrying
<1>4. /\ me.typed \in [Services -> Nat] /\ Retries \in [Services -> Nat] /\ me.tries \in Nat
      /\ me.todo \subseteq Services /\ me.launch \subseteq Services
      /\ me.reaped \subseteq Services /\ s \in me.todo
  BY <1>1, <1>2, RecordTypes DEF Current
<1>5. CASE Finish(p, "gone") BY <1>1, <1>2, <1>5, FinishRun DEF Refusals
<1>6. CASE ~Finish(p, "gone")
  <2>1. r = [me EXCEPT !.pc = "recheck", !.dep = 1, !.polls = 0,
                       !.typed = [me.typed EXCEPT ![s] = @ + 1],
                       !.up = me.up \ {s}, !.todo = me.todo]
    BY <1>1, <1>6, Becomes DEF TypeLine
  <2>2. /\ r.pc = "recheck" /\ r.job = me.job /\ r.result = me.result /\ r.made = me.made
        /\ r.reaped = me.reaped /\ r.tries = me.tries /\ r.failed = me.failed
        /\ r.launch = me.launch /\ r.todo = me.todo /\ r.up = me.up \ {s}
        /\ r.typed = [me.typed EXCEPT ![s] = @ + 1]
    BY <1>2, <2>1 DEF ProcType
  <2>3. /\ me.tries <= Retries[s] /\ me.typed[s] = me.tries /\ me.job.retry
        /\ \A t \in me.todo : t # s => me.typed[t] = 1 /\ ~Current(me, t)
    BY <1>1, <1>2, <1>3, InHand DEF Retrying
  <2>4. /\ r.typed[s] = me.tries + 1
        /\ \A t \in Services : t # s => r.typed[t] = me.typed[t]
        /\ \A t \in Services : me.typed[t] \in Nat /\ r.typed[t] >= me.typed[t]
    BY <1>4, <2>2, <2>3
  <2>5. \A t \in Services : me.typed[t] <= Limit(me, t)
    BY <1>1, <1>3 DEF Always
  <2> HIDE DEF me, r
  <2>6. r.typed[s] <= Limit(me, s) BY <1>4, <2>3, <2>4 DEF Limit
  <2>7. \A t \in Services : r.typed[t] <= Limit(me, t) BY <2>4, <2>5, <2>6
  <2>8. Current(r, s) /\ \A t \in me.todo : t # s => ~Current(r, t)
    BY <1>1, <2>2, <2>3 DEF Current
  <2>9. \A t \in me.launch : r.typed[t] > 0
    <3>1. SUFFICES ASSUME NEW t \in me.launch PROVE r.typed[t] > 0 OBVIOUS
    <3>2. me.typed[t] > 0 /\ t \in Services BY <1>3, <1>4 DEF Retrying
    <3>3. CASE t = s BY <1>1, <1>4, <2>4, <3>3
    <3>4. CASE t # s BY <2>4, <3>2, <3>4
    <3>5. QED BY <3>3, <3>4
  <2>10. \A t \in r.reaped : r.typed[t] > 0 /\ t \in Wanted(me.job)
    <3>1. SUFFICES ASSUME NEW t \in me.reaped PROVE r.typed[t] > 0 /\ t \in Wanted(me.job)
      BY <2>2
    <3>2. me.typed[t] > 0 /\ t \in Services /\ t \in Wanted(me.job)
      BY <1>1, <1>3, <1>4 DEF Always
    <3>3. CASE t = s BY <1>1, <1>4, <2>4, <3>2, <3>3
    <3>4. CASE t # s BY <2>4, <3>2, <3>4
    <3>5. QED BY <3>3, <3>4
  <2>11. \A t \in r.todo : ~Current(r, t) => r.typed[t] = 1 BY <1>4, <2>2, <2>3, <2>4, <2>8
  <2>12. \A t \in r.launch : Retries[t] > 0 => t \in r.todo \union r.up \union r.failed
    BY <1>3, <1>4, <2>2 DEF Retrying
  <2>13. Retrying(r)
    BY <1>1, <1>3, <1>4, <2>2, <2>3, <2>4, <2>8, <2>9, <2>11, <2>12 DEF Retrying
  <2>14. RunInv(me) BY DEF me
  <2>15. r.pc \in {"probe", "recheck", "term", "kill", "type"} /\ r.pc # "type" BY <2>2
  <2>16. RunInv(r) BY <1>2, <1>3, <2>2, <2>7, <2>10, <2>13, <2>14, <2>15, RetryStep
  <2>17. QED BY <2>16 DEF r
<1>7. QED BY <1>5, <1>6

(* Up, once more, or given up.                                             *)
LEMMA RecheckRun ==
    ASSUME TypeOK, NEW p \in Procs, RunInv(proc[p]), UpRecheck(p)
    PROVE  RunInv(proc'[p])
<1> DEFINE me == proc[p]
           r == proc'[p]
<1>1. PICK s \in Services :
         /\ me.pc = "recheck" /\ Current(me, s)
         /\ \/ Become(p, [me EXCEPT !.pc = "probe", !.tries = 0,
                                    !.todo = me.todo \ {s}, !.up = me.up \union {s}])
            \/ /\ me.tries < Retries[s]
               /\ Become(p, [me EXCEPT !.pc = "term", !.tries = me.tries + 1])
            \/ Become(p, [me EXCEPT !.pc = "probe", !.tries = 0, !.todo = me.todo \ {s},
                                    !.failed = me.failed \union {s}])
  BY DEF UpRecheck, At, NextDeclared, Current
<1>2. me \in ProcType BY DEF TypeOK
<1>3. IsRetrying(me) /\ Retrying(me) /\ Always(me) BY <1>1 DEF RunInv, IsRetrying
<1>4. /\ me.typed \in [Services -> Nat] /\ Retries \in [Services -> Nat] /\ me.tries \in Nat
      /\ me.todo \subseteq Services /\ s \in me.todo
  BY <1>1, <1>2, RecordTypes DEF Current
<1>5. /\ me.typed[s] = me.tries + 1
      /\ \A t \in me.todo : t # s => me.typed[t] = 1 /\ ~Current(me, t)
  BY <1>1, <1>2, <1>3, InHand
<1>6. ASSUME r.pc = "probe", r.tries = 0, r.todo = me.todo \ {s}, r.job = me.job,
             r.result = me.result, r.made = me.made, r.reaped = me.reaped,
             r.launch = me.launch, r.typed = me.typed,
             r.up \union r.failed = me.up \union me.failed \union {s}
      PROVE  RunInv(r)
  <2> HIDE DEF me, r
  <2>1. \A t \in r.todo : r.typed[t] = 1 /\ Retries[t] > 0
    BY <1>1, <1>3, <1>5, <1>6 DEF Retrying
  <2>2. \A t \in r.launch : Retries[t] > 0 => t \in r.todo \union r.up \union r.failed
    BY <1>3, <1>6 DEF Retrying
  <2>3. Retrying(r) BY <1>3, <1>6, <2>1, <2>2 DEF Retrying
  <2>4. RunInv(me) BY DEF me
  <2>5. QED BY <1>2, <1>3, <1>6, <2>3, <2>4, RetryStep DEF Always, Retrying
<1>7. CASE Become(p, [me EXCEPT !.pc = "probe", !.tries = 0,
                                !.todo = me.todo \ {s}, !.up = me.up \union {s}])
  <2>1. r = [me EXCEPT !.pc = "probe", !.tries = 0,
                       !.todo = me.todo \ {s}, !.up = me.up \union {s}]
    BY <1>7, Becomes
  <2>2. r.up = me.up \union {s} /\ r.failed = me.failed BY <1>2, <2>1 DEF ProcType
  <2>3. QED BY <1>2, <1>6, <2>1, <2>2 DEF ProcType
<1>8. CASE Become(p, [me EXCEPT !.pc = "probe", !.tries = 0, !.todo = me.todo \ {s},
                                !.failed = me.failed \union {s}])
  <2>1. r = [me EXCEPT !.pc = "probe", !.tries = 0, !.todo = me.todo \ {s},
                       !.failed = me.failed \union {s}]
    BY <1>8, Becomes
  <2>2. r.up = me.up /\ r.failed = me.failed \union {s} BY <1>2, <2>1 DEF ProcType
  <2>3. QED BY <1>2, <1>6, <2>1, <2>2 DEF ProcType
<1>9. CASE /\ me.tries < Retries[s]
           /\ Become(p, [me EXCEPT !.pc = "term", !.tries = me.tries + 1])
  <2>1. r = [me EXCEPT !.pc = "term", !.tries = me.tries + 1] BY <1>9, Becomes
  <2>2. /\ r.pc = "term" /\ r.job = me.job /\ r.result = me.result /\ r.made = me.made
        /\ r.reaped = me.reaped /\ r.tries = me.tries + 1 /\ r.failed = me.failed
        /\ r.launch = me.launch /\ r.typed = me.typed /\ r.todo = me.todo /\ r.up = me.up
    BY <1>2, <2>1 DEF ProcType
  <2> HIDE DEF me, r
  <2>3. Current(r, s) /\ r.tries <= Retries[s] /\ r.tries > 0 /\ r.typed[s] = r.tries
    BY <1>1, <1>4, <1>5, <1>9, <2>2 DEF Current
  <2>4. \A t \in r.todo : ~Current(r, t) => r.typed[t] = 1
    BY <1>1, <1>5, <2>2, <2>3
  <2>5. Retrying(r) BY <1>1, <1>3, <1>4, <2>2, <2>3, <2>4 DEF Retrying
  <2>6. RunInv(me) BY DEF me
  <2>7. RunInv(r) BY <1>2, <1>3, <2>2, <2>5, <2>6, RetryStep DEF Always, Retrying
  <2>8. QED BY <2>7 DEF r
<1>10. QED BY <1>1, <1>7, <1>8, <1>9

(* Nothing left to watch.                                                  *)
LEMMA SettledRun ==
    ASSUME TypeOK, NEW p \in Procs, RunInv(proc[p]), UpSettled(p)
    PROVE  RunInv(proc'[p])
<1> DEFINE me == proc[p]
<1>1. me.pc = "probe" /\ me.todo = {} /\ me \in ProcType BY DEF UpSettled, At, TypeOK
<1>2. Retrying(me) /\ IsRetrying(me) BY <1>1 DEF RunInv, IsRetrying
<1>3. PICK x \in {"ok", "failed"} : Finish(p, x) /\ (x = "ok" => me.failed = {})
  BY DEF UpSettled
<1> HIDE DEF me
<1>4. x = "ok" => OkTrue(me) BY <1>1, <1>2, <1>3 DEF OkTrue, Retrying
<1>5. x \notin Refusals BY <1>3 DEF Refusals
<1>6. proc[p].pc # "done" /\ (x = "ok" => OkTrue(proc[p])) BY <1>1, <1>4 DEF me
<1>7. QED BY <1>3, <1>5, <1>6, FinishRun

(* A restart or a down decides what to act on.                             *)
LEMMA DecideRun ==
    ASSUME TypeOK, NEW p \in Procs, RunInv(proc[p]), RestartSnapshot(p) \/ DownSnapshot(p)
    PROVE  RunInv(proc'[p])
<1> DEFINE me == proc[p]
           r == proc'[p]
<1>1. me \in ProcType /\ me.pc = "snapshot" /\ me.job.cmd \in {"restart", "down"}
  BY DEF RestartSnapshot, DownSnapshot, At, TypeOK
<1>2. /\ Always(me) /\ Untouched(me) /\ me.typed = Blank /\ me.reaped = {}
      /\ me.result = "none"
  BY <1>1 DEF RunInv, Early, Fresh, Always, Untouched
<1>3. \/ Finish(p, "gone") \/ Finish(p, "nopane")
      \/ \E S : Decide(p, S, "term") /\ (me.job.cmd = "restart" => S = me.job.req)
  BY DEF RestartSnapshot, DownSnapshot
<1>4. CASE Finish(p, "gone") \/ Finish(p, "nopane")
  BY <1>1, <1>2, <1>4, FinishRun DEF Refusals
<1>5. ASSUME NEW S, Decide(p, S, "term"), me.job.cmd = "restart" => S = me.job.req
      PROVE  RunInv(r)
  <2>1. r = [me EXCEPT !.pc = "term", !.snap = gen, !.launch = S, !.todo = S]
    BY <1>5, Becomes DEF Decide
  <2>2. /\ r.pc = "term" /\ r.job = me.job /\ r.result = me.result /\ r.typed = me.typed
        /\ r.reaped = me.reaped /\ r.todo = S /\ r.made = me.made
    BY <1>1, <2>1 DEF ProcType
  <2> HIDE DEF me, r
  <2>3. Always(r) BY <1>1, <1>2, <2>2 DEF Always, Refusals, Relaunched, Blank
  <2>4. Restarting(r) BY <1>2, <1>5, <2>2 DEF Restarting, IsRestarting, Blank
  <2>5. QED
    BY <1>1, <2>2, <2>3, <2>4 DEF RunInv, Early, Fresh, Built, Launching, IsLaunching,
       Retrying, IsRetrying
<1>6. QED BY <1>3, <1>4, <1>5

(* A restart's line into the pane it has just stopped.                     *)
LEMMA RestartTypeRun ==
    ASSUME TypeOK, NEW p \in Procs, RunInv(proc[p]), RestartType(p)
    PROVE  RunInv(proc'[p])
<1> DEFINE me == proc[p]
           r == proc'[p]
<1>1. PICK s \in Services :
         /\ me.pc = "type" /\ me.job.cmd = "restart" /\ Asked(me, s)
         /\ TypeLine(p, s, "term")
  BY DEF RestartType, At, NextRequested, Asked
<1>2. me \in ProcType BY DEF TypeOK
<1>3. Restarting(me) /\ IsRestarting(me) /\ Always(me) /\ me.result = "none"
  BY <1>1 DEF RunInv, IsRestarting, Always
<1>4. /\ me.typed \in [Services -> Nat] /\ me.todo \subseteq Services
      /\ me.job.req \subseteq Services /\ s \in me.todo
  BY <1>1, <1>2, RecordTypes DEF Asked
<1>5. CASE Finish(p, "gone") BY <1>1, <1>5, FinishRun DEF Refusals
<1>6. CASE ~Finish(p, "gone")
  <2>1. r = [me EXCEPT !.pc = "term", !.dep = 1, !.polls = 0,
                       !.typed = [me.typed EXCEPT ![s] = @ + 1],
                       !.up = me.up \ {s}, !.todo = me.todo \ {s}]
    BY <1>1, <1>6, Becomes DEF TypeLine
  <2>2. /\ r.pc = "term" /\ r.job = me.job /\ r.result = me.result /\ r.reaped = me.reaped
        /\ r.todo = me.todo \ {s} /\ r.typed = [me.typed EXCEPT ![s] = @ + 1]
    BY <1>2, <2>1 DEF ProcType
  <2> HIDE DEF me, r
  <2>3. {x \in Services : Asked(me, x)} = {s}
    BY <1>1, <1>2, <1>3, NextIsOne DEF Always
  <2>4. r.reaped = me.job.req \ r.todo /\ r.todo \subseteq me.job.req
    BY <1>1, <1>3, <1>4, <2>2, <2>3 DEF Restarting
  <2>5. \A x \in Services : r.typed[x] = IF x \in me.job.req \ r.todo THEN 1 ELSE 0
    BY <1>3, <1>4, <2>2 DEF Restarting
  <2>6. Restarting(r) BY <2>2, <2>4, <2>5 DEF Restarting
  <2>7. Relaunched(r) = r.reaped BY <1>4, <2>4, <2>5 DEF Relaunched
  <2>8. Always(r) BY <1>1, <1>3, <2>2, <2>7 DEF Always, Refusals
  <2>9. RunInv(r)
    BY <1>1, <2>2, <2>6, <2>8 DEF RunInv, Early, Fresh, Built, Launching, IsLaunching,
       Retrying, IsRetrying
  <2>10. QED BY <2>9 DEF r
<1>7. QED BY <1>5, <1>6

(* Reaping: the panes of the service in hand, or those of a whole scope.   *)
LEMMA TermRun ==
    ASSUME TypeOK, NEW p \in Procs, RunInv(proc[p]), ReapTerm(p)
    PROVE  RunInv(proc'[p])
<1> DEFINE me == proc[p]
           r == proc'[p]
           hit == Victims(p)
<1>1. me.pc = "term" /\ me \in ProcType BY DEF ReapTerm, At, TypeOK
<1>2. Always(me) /\ me.result = "none" BY <1>1 DEF RunInv, Always
<1>3. r = [me EXCEPT !.pc = "kill", !.reaped = me.reaped \union hit]
  BY Becomes DEF ReapTerm
<1>4. /\ r.pc = "kill" /\ r.job = me.job /\ r.result = me.result /\ r.made = me.made
      /\ r.reaped = me.reaped \union hit /\ r.tries = me.tries /\ r.failed = me.failed
      /\ r.launch = me.launch /\ r.typed = me.typed /\ r.todo = me.todo /\ r.up = me.up
  BY <1>1, <1>3 DEF ProcType
<1>5. /\ me.todo \subseteq Services /\ me.job.cmd \in {"up", "down", "restart"}
  BY <1>1, RecordTypes
<1>6. CASE me.job.cmd = "up"
  <2>1. hit = {s \in Services : Current(me, s)}
    BY <1>5, <1>6 DEF Victims, NextDeclared, Current
  <2>2. IsRetrying(me) /\ Retrying(me) BY <1>1, <1>6 DEF RunInv, IsRetrying
  <2>3. \A s \in hit : me.typed[s] > 0 /\ s \in Wanted(me.job)
    BY <1>1, <2>1, <2>2, InHand
  <2> HIDE DEF me, r, hit
  <2>4. Retrying(r) BY <1>1, <1>4, <1>6, <2>2 DEF Retrying, Current
  <2>5. \A s \in r.reaped : r.typed[s] > 0 /\ s \in Wanted(me.job)
    BY <1>2, <1>4, <1>6, <2>3 DEF Always
  <2>6. RunInv(me) BY DEF me
  <2>7. RunInv(r) BY <1>1, <1>2, <1>4, <1>6, <2>2, <2>4, <2>5, <2>6, RetryStep DEF Always
  <2>8. QED BY <2>7 DEF r
<1>7. CASE me.job.cmd = "restart"
  <2>1. hit = {s \in Services : Asked(me, s)}
    BY <1>5, <1>7 DEF Victims, NextRequested, Asked
  <2>2. Restarting(me) /\ IsRestarting(me) BY <1>1, <1>7 DEF RunInv, IsRestarting
  <2>3. \A s, t \in hit : s = t BY <1>1, <1>2, <2>1, NextIsOne DEF Always
  <2>4. /\ me.typed \in [Services -> Nat] /\ me.job.req \subseteq Services
    BY <1>1, RecordTypes
  <2> HIDE DEF me, r, hit
  <2>5. Relaunched(me) = me.reaped
    BY <1>1, <2>2, <2>4 DEF Relaunched, Restarting
  <2>6. Relaunched(r) = me.reaped BY <1>4, <2>5 DEF Relaunched
  <2>7. Always(r) BY <1>2, <1>4, <1>7, <2>3, <2>6 DEF Always, Refusals
  <2>8. Restarting(r) BY <1>1, <1>4, <2>1, <2>2 DEF Restarting, Asked
  <2>9. RunInv(r)
    BY <1>4, <1>7, <2>7, <2>8 DEF RunInv, Early, Fresh, Built, Launching, IsLaunching,
       Retrying, IsRetrying
  <2>10. QED BY <2>9 DEF r
<1>8. CASE me.job.cmd = "down"
  <2> HIDE DEF me, r, hit
  <2>1. Always(r) BY <1>2, <1>4, <1>8 DEF Always, Refusals
  <2>2. RunInv(r)
    BY <1>4, <1>8, <2>1 DEF RunInv, Early, Fresh, Built, Launching, IsLaunching,
       Retrying, IsRetrying, Restarting, IsRestarting
  <2>3. QED BY <2>2 DEF r
<1>9. QED BY <1>5, <1>6, <1>7, <1>8

LEMMA KillRun ==
    ASSUME TypeOK, NEW p \in Procs, RunInv(proc[p]), ReapKill(p)
    PROVE  RunInv(proc'[p])
<1> DEFINE me == proc[p]
           r == proc'[p]
<1>1. me.pc = "kill" /\ me \in ProcType BY DEF ReapKill, At, TypeOK
<1>2. Always(me) /\ me.result = "none" BY <1>1 DEF RunInv, Always
<1>3. me.job.cmd \in {"up", "down", "restart"} BY <1>1, RecordTypes
<1>4. CASE me.job.cmd = "down"
  <2>1. r = [me EXCEPT !.pc = "term", !.todo = me.todo \ Victims(p)]
    BY <1>4, Becomes DEF ReapKill
  <2>2. r.pc = "term" /\ r.job = me.job /\ r.result = me.result
    BY <1>1, <2>1 DEF ProcType
  <2> HIDE DEF me, r
  <2>3. Always(r) BY <1>2, <1>4, <2>2 DEF Always, Refusals
  <2>4. RunInv(r)
    BY <1>4, <2>2, <2>3 DEF RunInv, Early, Fresh, Built, Launching, IsLaunching,
       Retrying, IsRetrying, Restarting, IsRestarting
  <2>5. QED BY <2>4 DEF r
<1>5. CASE me.job.cmd # "down"
  <2>1. r = [me EXCEPT !.pc = "type"] BY <1>5, Becomes DEF ReapKill, Goto
  <2>2. r.pc = "type" /\ Same(r, me) BY <1>1, <2>1 DEF ProcType, Same
  <2>3. RunInv(me) OBVIOUS
  <2> HIDE DEF me, r
  <2>4. CASE me.job.cmd = "up"
    <3>1. IsRetrying(me) /\ Retrying(me) BY <1>1, <2>3, <2>4 DEF RunInv, IsRetrying
    <3>2. Retrying(r) BY <1>1, <2>2, <2>4, <3>1 DEF Retrying, Current, Same
    <3>3. r.tries > 0 BY <1>1, <2>2, <3>1 DEF Retrying, Same
    <3>4. RunInv(r) BY <1>1, <1>2, <2>2, <2>3, <2>4, <3>1, <3>2, <3>3, RetryStep DEF Always, Same
    <3>5. QED BY <3>4 DEF r
  <2>5. CASE me.job.cmd = "restart"
    <3>1. IsRestarting(me) /\ Restarting(me) BY <1>1, <2>3, <2>5 DEF RunInv, IsRestarting
    <3>2. Restarting(r) BY <1>1, <2>2, <3>1 DEF Restarting, Asked, Same
    <3>3. Always(r) BY <1>2, <2>2, <2>5 DEF Always, Refusals, Relaunched, Same
    <3>4. RunInv(r)
      BY <2>2, <2>5, <3>2, <3>3 DEF RunInv, Early, Fresh, Built, Launching, IsLaunching,
         Retrying, IsRetrying, Same
    <3>5. QED BY <3>4 DEF r
  <2>6. QED BY <1>3, <1>5, <2>4, <2>5
<1>6. QED BY <1>4, <1>5

LEMMA EndRun ==
    ASSUME TypeOK, NEW p \in Procs, RunInv(proc[p]),
           Reaped(p) \/ DownKill(p) \/ Interrupt(p)
    PROVE  RunInv(proc'[p])
<1> DEFINE me == proc[p]
           r == proc'[p]
<1>1. me \in ProcType BY DEF TypeOK
<1>2. CASE Interrupt(p) BY <1>2, FinishRun DEF Interrupt, Refusals
<1>3. CASE DownKill(p)
  <2>1. me.pc = "endsession" /\ Finish(p, "ok") BY <1>3 DEF DownKill, At
  <2>2. me.job.cmd = "down" BY <2>1 DEF RunInv, Early
  <2>3. OkTrue(me) BY <2>2 DEF OkTrue
  <2>4. QED BY <2>1, <2>3, FinishRun DEF Refusals
<1>4. CASE Reaped(p)
  <2>1. me.pc = "term" /\ me.todo = {} BY <1>4 DEF Reaped, At
  <2>2. me.job.cmd # "up"
    BY <2>1 DEF RunInv, Retrying, IsRetrying
  <2>3. CASE Finish(p, "ok")
    <3>1. me.job.cmd = "restart" => me.reaped = me.job.req /\ Relaunched(me) = me.job.req
      <4>1. SUFFICES ASSUME me.job.cmd = "restart"
                     PROVE  me.reaped = me.job.req /\ Relaunched(me) = me.job.req
        OBVIOUS
      <4>2. Restarting(me) /\ IsRestarting(me) BY <2>1, <4>1 DEF RunInv, IsRestarting
      <4>3. me.job.req \subseteq Services BY <1>1, RecordTypes
      <4>4. QED BY <2>1, <4>2, <4>3 DEF Restarting, Relaunched
    <3>2. OkTrue(me) BY <2>2, <3>1 DEF OkTrue
    <3>3. QED BY <2>1, <2>3, <3>2, FinishRun DEF Refusals
  <2>4. CASE me.job.cmd = "down" /\ Goto(p, "endsession")
    <3>1. r = [me EXCEPT !.pc = "endsession"] BY <2>4, Becomes DEF Goto
    <3>2. r.pc = "endsession" /\ r.job = me.job /\ r.result = me.result
      BY <1>1, <3>1 DEF ProcType
    <3>3. Always(me) /\ me.result = "none" BY <2>1 DEF RunInv, Always
    <3> HIDE DEF me, r
    <3>4. Always(r) BY <2>4, <3>2, <3>3 DEF Always, Refusals
    <3>5. RunInv(r)
      BY <2>4, <3>2, <3>4 DEF RunInv, Early, Fresh, Built, Launching, IsLaunching,
         Retrying, IsRetrying, Restarting, IsRestarting
    <3>6. QED BY <3>5 DEF r
  <2>5. QED BY <1>4, <2>3, <2>4 DEF Reaped
<1>5. QED BY <1>2, <1>3, <1>4

LEMMA RunNext ==
    ASSUME TypeOK, NEW p \in Procs, RunInv(proc[p]), Step(p) \/ Interrupt(p)
    PROVE  RunInv(proc'[p])
BY BeginRun, BuildRun, GateRun, TypeRun, LaunchedRun, ProbeRun, RetypeRun, RecheckRun,
   SettledRun, DecideRun, RestartTypeRun, TermRun, KillRun, EndRun DEF Step, UpStep

(* One invocation moves per step, and only itself.                         *)
LEMMA OneMoves ==
    ASSUME TypeOK, NEW p \in Procs, NEW q \in Procs, q # p, Step(p) \/ Interrupt(p)
    PROVE  proc'[q] = proc[q]
<1>1. \E r : Become(p, r)
  BY DEF Step, UpStep, UpBegin, UpCreate, UpHook, UpTeardown, UpValidate, UpSnapshot,
     UpPoll, UpGateOpen, UpType, UpLaunched, UpProbe, UpRetype, UpRecheck, UpSettled,
     RestartBegin, RestartSnapshot, RestartType, DownBegin, DownSnapshot, DownKill,
     ReapTerm, ReapKill, Reaped, Interrupt, TypeLine, Goto, Finish, Decide
<1>2. QED BY <1>1, BecomeAlone DEF TypeOK

LEMMA RunsInvariant == Spec => [](\A p \in Procs : RunInv(proc[p]))
<1> DEFINE IInv == \A p \in Procs : RunInv(proc[p])
<1>1. Init => IInv BY InitRun
<1>2. TypeOK /\ IInv /\ [Next]_vars => IInv'
  <2> SUFFICES ASSUME TypeOK, IInv, [Next]_vars, NEW q \in Procs
               PROVE  RunInv(proc'[q])
    OBVIOUS
  <2>1. ASSUME NEW p \in Procs, Step(p) \/ Interrupt(p) PROVE RunInv(proc'[q])
    <3>1. CASE q = p BY <2>1, <3>1, RunNext
    <3>2. CASE q # p BY <2>1, <3>2, OneMoves
    <3>3. QED BY <3>1, <3>2
  <2>2. CASE \E s \in Services : Pane(s) BY <2>2 DEF Pane, ShellLaunch, ServiceExit
  <2>3. CASE UNCHANGED vars BY <2>3 DEF vars
  <2>4. QED BY <2>1, <2>2, <2>3 DEF Next
<1>3. QED BY <1>1, <1>2, TypeCorrect, PTL DEF Spec

(* An invocation refused before it acts created no session, typed no line  *)
(* and reaped no pane.                                                     *)
THEOREM RefusalsTouchNothing == Spec => []RefusedUntouched
<1>1. (\A p \in Procs : RunInv(proc[p])) => RefusedUntouched
  BY DEF RefusedUntouched, RunInv, Always, Refusals, Untouched
<1>2. QED BY <1>1, RunsInvariant, PTL

(* The retry loop of an up reaps only panes that up has typed into.        *)
THEOREM RetriesReapTheirOwn == Spec => []UpReapsOnlyItsOwn
<1>1. (\A p \in Procs : RunInv(proc[p])) => UpReapsOnlyItsOwn
  BY DEF UpReapsOnlyItsOwn, RunInv, Always
<1>2. QED BY <1>1, RunsInvariant, PTL

(* No up types more than one line per service and one more per retry.      *)
THEOREM LinesAreBounded == Spec => []LinesBounded
<1>1. (\A p \in Procs : RunInv(proc[p])) => LinesBounded
  BY DEF LinesBounded, RunInv, Always, Limit
<1>2. QED BY <1>1, RunsInvariant, PTL

(* An up that reports success has launched what it was to launch.          *)
THEOREM OkIsTrue == Spec => []UpOkIsTrue
<1>1. (\A p \in Procs : RunInv(proc[p])) => UpOkIsTrue
  BY DEF UpOkIsTrue, RunInv, Always, OkTrue
<1>2. QED BY <1>1, RunsInvariant, PTL

(* A restart that reports success has stopped and relaunched exactly what  *)
(* it was asked for, and a broken-off one leaves at most one pane stopped. *)
THEOREM RestartsRelaunch == Spec => []RestartRelaunches
<1>1. (\A p \in Procs : RunInv(proc[p])) => RestartRelaunches
  BY DEF RestartRelaunches, RunInv, Always, OkTrue, Relaunched
<1>2. QED BY <1>1, RunsInvariant, PTL

-----------------------------------------------------------------------------
(* What sessions become of it.  A step of an invocation does one of these. *)

Creates(p) ==
    /\ ~alive /\ alive' /\ gen' = gen + 1 /\ tty' = Blank /\ running' = Idle
    /\ proc'[p].made = gen + 1 /\ proc'[p].typed = proc[p].typed
    /\ proc'[p].pc = "hook"

Kills(p) ==
    /\ ~alive' /\ gen' = gen /\ tty' = Blank /\ running' = Idle
    /\ proc'[p].made = proc[p].made /\ proc'[p].typed = proc[p].typed
    /\ proc[p].pc \in {"teardown", "endsession"} /\ proc'[p].pc = "done"

Types(p, s) ==
    /\ alive /\ alive' = alive /\ gen' = gen /\ running' = running
    /\ tty' = [tty EXCEPT ![s] = @ + 1]
    /\ proc'[p].made = proc[p].made
    /\ proc'[p].typed = [proc[p].typed EXCEPT ![s] = @ + 1]
    /\ s \in proc[p].todo
    /\ proc[p].pc = "type" /\ proc'[p].pc \in {"gate", "recheck", "term"}

Reaps(p) ==
    /\ alive' = alive /\ gen' = gen /\ tty' = tty
    /\ \A s \in Services : running'[s] => running[s]
    /\ proc'[p].made = proc[p].made /\ proc'[p].typed = proc[p].typed
    /\ proc[p].pc \in {"term", "kill"} /\ proc'[p].pc \in {"term", "kill", "type"}

Looks(p) ==
    /\ alive' = alive /\ gen' = gen /\ tty' = tty /\ running' = running
    /\ proc'[p].made = proc[p].made /\ proc'[p].typed = proc[p].typed
    /\ proc'[p].pc \in Built => proc[p].pc \in Built
    /\ proc'[p].pc \in {"gate", "type"} => proc[p].pc \in Built \union {"snapshot", "gate"}
    /\ proc'[p].pc = "snapshot" =>
          (proc[p].job.cmd = "up" => ~IsWhole(proc[p].job))

Effect(p) ==
    \/ Creates(p) \/ Kills(p) \/ Reaps(p) \/ Looks(p)
    \/ \E s \in Services : Types(p, s)

(* What every step of an invocation leaves as it was.                      *)
Own(p) ==
    /\ proc'[p].job = proc[p].job
    /\ proc[p].pc # "done" /\ proc'[p].pc # "start"
    /\ proc'[p].snap \in {proc[p].snap, gen}
    /\ proc'[p].job.cmd = "down" /\ IsWhole(proc'[p].job) /\ proc'[p].result = "ok"
          => ~alive'

LEMMA Finishes ==
    ASSUME TypeOK, NEW p \in Procs, RunInv(proc[p]), proc[p].pc # "done",
           NEW x, Finish(p, x), UNCHANGED <<alive, gen, tty, running>>,
           x = "ok" => proc[p].job.cmd # "down" \/ ~IsWhole(proc[p].job)
    PROVE  Effect(p) /\ Own(p)
<1> DEFINE me == proc[p]
           r == proc'[p]
<1>1. r = [me EXCEPT !.pc = "done", !.result = x] BY Becomes DEF Finish
<1>2. me \in ProcType BY DEF TypeOK
<1>3. /\ r.pc = "done" /\ r.result = x /\ r.job = me.job /\ r.made = me.made
      /\ r.typed = me.typed /\ r.snap = me.snap
  BY <1>1, <1>2 DEF ProcType
<1>4. Looks(p) BY <1>3 DEF Looks, Built
<1>5. QED BY <1>3, <1>4 DEF Effect, Own

LEMMA Goes ==
    ASSUME TypeOK, NEW p \in Procs, RunInv(proc[p]), proc[p].pc # "done",
           NEW l \in {"snapshot", "create", "teardown", "validate", "type", "endsession"},
           Goto(p, l), UNCHANGED <<alive, gen, tty, running>>,
           l \in {"teardown", "validate"} => proc[p].pc \in Built,
           l = "type" => proc[p].pc = "gate",
           l = "snapshot" => (proc[p].job.cmd = "up" => ~IsWhole(proc[p].job))
    PROVE  Effect(p) /\ Own(p)
<1> DEFINE me == proc[p]
           r == proc'[p]
<1>1. r = [me EXCEPT !.pc = l] BY Becomes DEF Goto
<1>2. me \in ProcType BY DEF TypeOK
<1>3. /\ r.pc = l /\ r.result = me.result /\ r.job = me.job /\ r.made = me.made
      /\ r.typed = me.typed /\ r.snap = me.snap
  BY <1>1, <1>2 DEF ProcType
<1>4. me.result = "none" BY DEF RunInv, Always
<1>5. Looks(p) BY <1>3 DEF Looks, Built
<1>6. QED BY <1>3, <1>4, <1>5 DEF Effect, Own

(* Steps that only move what the run remembers.                            *)
LEMMA Notes ==
    ASSUME TypeOK, NEW p \in Procs, RunInv(proc[p]), proc[p].pc # "done",
           UNCHANGED <<alive, gen, tty, running>>,
           proc'[p].pc \in {"gate", "term", "probe", "recheck"},
           proc'[p].pc = "gate" => proc[p].pc \in Built \union {"snapshot", "gate"},
           proc'[p].job = proc[p].job, proc'[p].made = proc[p].made,
           proc'[p].typed = proc[p].typed, proc'[p].snap \in {proc[p].snap, gen},
           proc'[p].result = proc[p].result
    PROVE  Effect(p) /\ Own(p)
<1>1. proc[p].result = "none" BY DEF RunInv, Always
<1>2. Looks(p) BY DEF Looks, Built
<1>3. QED BY <1>1, <1>2 DEF Effect, Own

LEMMA Writes ==
    ASSUME TypeOK, NEW p \in Procs, RunInv(proc[p]), proc[p].pc = "type",
           NEW s \in Services, s \in proc[p].todo,
           NEW l \in {"gate", "recheck", "term"}, TypeLine(p, s, l)
    PROVE  Effect(p) /\ Own(p)
<1> DEFINE me == proc[p]
           r == proc'[p]
           left == IF l = "recheck" THEN me.todo ELSE me.todo \ {s}
<1>1. CASE Finish(p, "gone") /\ UNCHANGED tmux
  BY <1>1, Finishes DEF tmux
<1>2. CASE ~(Finish(p, "gone") /\ UNCHANGED tmux)
  <2>1. /\ r = [me EXCEPT !.pc = l, !.dep = 1, !.polls = 0,
                          !.typed = [me.typed EXCEPT ![s] = @ + 1],
                          !.up = me.up \ {s}, !.todo = left]
        /\ alive /\ tty' = [tty EXCEPT ![s] = @ + 1]
        /\ UNCHANGED <<alive, gen, panes, running>>
    BY <1>2, Becomes DEF TypeLine
  <2>2. me \in ProcType BY DEF TypeOK
  <2>3. /\ r.pc = l /\ r.result = me.result /\ r.job = me.job /\ r.made = me.made
        /\ r.typed = [me.typed EXCEPT ![s] = @ + 1] /\ r.snap = me.snap
    BY <2>1, <2>2 DEF ProcType
  <2>4. me.result = "none" BY DEF RunInv, Always
  <2>5. Types(p, s) BY <2>1, <2>3 DEF Types
  <2>6. QED BY <2>3, <2>4, <2>5 DEF Effect, Own
<1>3. QED BY <1>1, <1>2

LEMMA UpEffect ==
    ASSUME TypeOK, NEW p \in Procs, RunInv(proc[p]), UpStep(p)
    PROVE  Effect(p) /\ Own(p)
<1> DEFINE me == proc[p]
           r == proc'[p]
<1>1. me \in ProcType BY DEF TypeOK
<1>2. me.pc # "done"
  BY DEF UpStep, UpBegin, UpCreate, UpHook, UpTeardown, UpValidate, UpSnapshot, UpPoll,
     UpGateOpen, UpType, UpLaunched, UpProbe, UpRetype, UpRecheck, UpSettled, At
<1>3. CASE UpBegin(p)
  BY <1>2, <1>3, Finishes, Goes DEF UpBegin, tmux
<1>4. CASE UpCreate(p)
  <2>1. CASE alive BY <1>2, <1>4, <2>1, Finishes DEF UpCreate, tmux
  <2>2. CASE ~alive
    <3>1. r = [me EXCEPT !.pc = "hook", !.made = gen + 1]
      BY <1>4, <2>2, Becomes DEF UpCreate
    <3>2. /\ r.pc = "hook" /\ r.made = gen + 1 /\ r.typed = me.typed /\ r.job = me.job
          /\ r.snap = me.snap /\ r.result = me.result
      BY <1>1, <3>1 DEF ProcType
    <3>3. me.result = "none" BY <1>2 DEF RunInv, Always
    <3>4. Creates(p) BY <1>4, <2>2, <3>2 DEF UpCreate, Creates
    <3>5. QED BY <1>2, <3>2, <3>3, <3>4 DEF Effect, Own
  <2>3. QED BY <2>1, <2>2
<1>5. CASE UpHook(p)
  <2>1. me.pc \in Built BY <1>5 DEF UpHook, At, Built
  <2>2. UNCHANGED <<alive, gen, tty, running>> BY <1>5 DEF UpHook, tmux
  <2>3. \/ Finish(p, "gone") \/ Finish(p, "hookwarn") \/ Goto(p, "teardown")
        \/ Goto(p, "validate")
    BY <1>5 DEF UpHook
  <2>4. QED BY <1>2, <2>1, <2>2, <2>3, Finishes, Goes
<1>6. CASE UpTeardown(p)
  <2>1. r = [me EXCEPT !.pc = "done", !.result = "torndown"] /\ me.pc = "teardown"
    BY <1>6, Becomes DEF UpTeardown, Finish, At
  <2>2. /\ r.pc = "done" /\ r.made = me.made /\ r.typed = me.typed /\ r.job = me.job
        /\ r.snap = me.snap /\ r.result = "torndown"
    BY <1>1, <2>1 DEF ProcType
  <2>3. Kills(p) BY <1>6, <2>1, <2>2 DEF UpTeardown, KillSession, Kills
  <2>4. QED BY <1>2, <2>2, <2>3 DEF Effect, Own
<1>7. CASE UpValidate(p) \/ UpSnapshot(p)
  <2>1. me.pc \in Built \union {"snapshot"}
    BY <1>7 DEF UpValidate, UpSnapshot, At, Built
  <2>2. UNCHANGED <<alive, gen, tty, running>> BY <1>7 DEF UpValidate, UpSnapshot, tmux
  <2>3. ASSUME NEW S, Decide(p, S, "gate") PROVE Effect(p) /\ Own(p)
    <3>1. r = [me EXCEPT !.pc = "gate", !.snap = gen, !.launch = S, !.todo = S]
      BY <2>3, Becomes DEF Decide
    <3>2. /\ r.pc = "gate" /\ r.made = me.made /\ r.typed = me.typed /\ r.job = me.job
          /\ r.snap = gen /\ r.result = me.result
      BY <1>1, <3>1 DEF ProcType
    <3>3. QED BY <1>2, <2>1, <2>2, <3>2, Notes
  <2>4. \/ Finish(p, "gone") \/ Finish(p, "preflight") \/ \E S : Decide(p, S, "gate")
        \/ Goto(p, "teardown") /\ me.pc \in Built
    BY <1>7 DEF UpValidate, UpSnapshot, At, Built
  <2>5. CASE Finish(p, "gone") BY <1>2, <2>2, <2>5, Finishes
  <2>6. CASE Finish(p, "preflight") BY <1>2, <2>2, <2>6, Finishes
  <2>7. CASE Goto(p, "teardown") /\ me.pc \in Built BY <1>2, <2>2, <2>7, Goes
  <2>8. QED BY <2>3, <2>4, <2>5, <2>6, <2>7
<1>8. CASE UpPoll(p)
  <2>1. /\ me.pc = "gate" /\ UNCHANGED <<alive, gen, tty, running>>
        /\ \/ \E d : Become(p, [me EXCEPT !.dep = me.dep + 1, !.polls = 0,
                                          !.seen = me.seen \union {d}])
           \/ Become(p, [me EXCEPT !.polls = me.polls + 1])
           \/ Finish(p, "unmet")
    BY <1>8 DEF UpPoll, At, tmux
  <2>2. ASSUME NEW d, Become(p, [me EXCEPT !.dep = me.dep + 1, !.polls = 0,
                                           !.seen = me.seen \union {d}])
        PROVE  Effect(p) /\ Own(p)
    <3>1. r = [me EXCEPT !.dep = me.dep + 1, !.polls = 0, !.seen = me.seen \union {d}]
      BY <2>2, Becomes
    <3>2. /\ r.pc = me.pc /\ r.made = me.made /\ r.typed = me.typed /\ r.job = me.job
          /\ r.snap = me.snap /\ r.result = me.result
      BY <1>1, <3>1 DEF ProcType
    <3>3. QED BY <1>2, <2>1, <3>2, Notes
  <2>3. CASE Become(p, [me EXCEPT !.polls = me.polls + 1])
    <3>1. r = [me EXCEPT !.polls = me.polls + 1] BY <2>3, Becomes
    <3>2. /\ r.pc = me.pc /\ r.made = me.made /\ r.typed = me.typed /\ r.job = me.job
          /\ r.snap = me.snap /\ r.result = me.result
      BY <1>1, <3>1 DEF ProcType
    <3>3. QED BY <1>2, <2>1, <3>2, Notes
  <2>4. CASE Finish(p, "unmet") BY <1>2, <2>1, <2>4, Finishes
  <2>5. QED BY <2>1, <2>2, <2>3, <2>4
<1>9. CASE UpGateOpen(p)
  BY <1>2, <1>9, Goes DEF UpGateOpen, At, tmux
<1>10. CASE UpLaunched(p) \/ UpSettled(p)
  <2>1. /\ me.pc \in {"gate", "probe"} /\ UNCHANGED <<alive, gen, tty, running>>
        /\ \/ \E S : Become(p, [me EXCEPT !.pc = "probe", !.todo = S])
           \/ Finish(p, "ok") \/ Finish(p, "failed")
    BY <1>10 DEF UpLaunched, UpSettled, At, tmux
  <2>2. me.job.cmd = "up"
    BY <2>1 DEF RunInv, Launching, IsLaunching, Retrying, IsRetrying
  <2>3. ASSUME NEW S, Become(p, [me EXCEPT !.pc = "probe", !.todo = S])
        PROVE  Effect(p) /\ Own(p)
    <3>1. r = [me EXCEPT !.pc = "probe", !.todo = S] BY <2>3, Becomes
    <3>2. /\ r.pc = "probe" /\ r.made = me.made /\ r.typed = me.typed /\ r.job = me.job
          /\ r.snap = me.snap /\ r.result = me.result
      BY <1>1, <3>1 DEF ProcType
    <3>3. QED BY <1>2, <2>1, <3>2, Notes
  <2>4. CASE Finish(p, "ok") BY <1>2, <2>1, <2>2, <2>4, Finishes
  <2>5. CASE Finish(p, "failed") BY <1>2, <2>1, <2>5, Finishes
  <2>6. QED BY <2>1, <2>3, <2>4, <2>5
<1>11. CASE UpType(p) \/ UpRetype(p)
  BY <1>11, Writes DEF UpType, UpRetype, At, NextInOrder, NextDeclared
<1>12. CASE UpProbe(p) \/ UpRecheck(p)
  <2>1. /\ UNCHANGED <<alive, gen, tty, running>>
        /\ \/ \E S, T : Become(p, [me EXCEPT !.todo = S, !.up = T]) /\ me.pc = "probe"
           \/ \E n : Become(p, [me EXCEPT !.pc = "term", !.tries = n])
           \/ \E S, T : Become(p, [me EXCEPT !.pc = "probe", !.tries = 0, !.todo = S, !.up = T])
           \/ \E S, T : Become(p, [me EXCEPT !.pc = "probe", !.tries = 0, !.todo = S,
                                             !.failed = T])
    BY <1>12 DEF UpProbe, UpRecheck, At, tmux
  <2>2. ASSUME NEW x, Become(p, x), x.pc \in {"probe", "term"}, x.made = me.made,
               x.typed = me.typed, x.job = me.job, x.snap = me.snap, x.result = me.result
        PROVE  Effect(p) /\ Own(p)
    <3>1. r = x BY <2>2, Becomes
    <3>2. QED BY <1>2, <2>1, <2>2, <3>1, Notes
  <2>3. QED BY <1>1, <2>1, <2>2 DEF ProcType
<1>13. QED
  BY <1>3, <1>4, <1>5, <1>6, <1>7, <1>8, <1>9, <1>10, <1>11, <1>12 DEF UpStep

LEMMA OtherEffect ==
    ASSUME TypeOK, NEW p \in Procs, RunInv(proc[p]),
           \/ RestartBegin(p) \/ RestartSnapshot(p) \/ RestartType(p)
           \/ DownBegin(p) \/ DownSnapshot(p) \/ DownKill(p)
           \/ ReapTerm(p) \/ ReapKill(p) \/ Reaped(p) \/ Interrupt(p)
    PROVE  Effect(p) /\ Own(p)
<1> DEFINE me == proc[p]
           r == proc'[p]
<1>1. me \in ProcType BY DEF TypeOK
<1>2. me.pc # "done"
  BY DEF RestartBegin, RestartSnapshot, RestartType, DownBegin, DownSnapshot, DownKill,
     ReapTerm, ReapKill, Reaped, Interrupt, At
<1>3. me.result = "none" BY <1>2 DEF RunInv, Always
<1>4. CASE RestartBegin(p) \/ DownBegin(p)
  BY <1>2, <1>4, Finishes, Goes DEF RestartBegin, DownBegin, tmux
<1>5. CASE RestartSnapshot(p) \/ DownSnapshot(p)
  <2>1. /\ UNCHANGED <<alive, gen, tty, running>>
        /\ Finish(p, "gone") \/ Finish(p, "nopane") \/ \E S : Decide(p, S, "term")
    BY <1>5 DEF RestartSnapshot, DownSnapshot, tmux
  <2>2. ASSUME NEW S, Decide(p, S, "term") PROVE Effect(p) /\ Own(p)
    <3>1. r = [me EXCEPT !.pc = "term", !.snap = gen, !.launch = S, !.todo = S]
      BY <2>2, Becomes DEF Decide
    <3>2. /\ r.pc = "term" /\ r.made = me.made /\ r.typed = me.typed /\ r.job = me.job
          /\ r.snap = gen /\ r.result = me.result
      BY <1>1, <3>1 DEF ProcType
    <3>3. QED BY <1>2, <2>1, <3>2, Notes
  <2>3. CASE Finish(p, "gone") BY <1>2, <2>1, <2>3, Finishes
  <2>4. CASE Finish(p, "nopane") BY <1>2, <2>1, <2>4, Finishes
  <2>5. QED BY <2>1, <2>2, <2>3, <2>4
<1>6. CASE RestartType(p) BY <1>6, Writes DEF RestartType, At, NextRequested
<1>7. CASE DownKill(p)
  <2>1. r = [me EXCEPT !.pc = "done", !.result = "ok"] /\ me.pc = "endsession"
    BY <1>7, Becomes DEF DownKill, Finish, At
  <2>2. /\ r.pc = "done" /\ r.made = me.made /\ r.typed = me.typed /\ r.job = me.job
        /\ r.snap = me.snap
    BY <1>1, <2>1 DEF ProcType
  <2>3. Kills(p) BY <1>7, <2>1, <2>2 DEF DownKill, KillSession, Kills
  <2>4. QED BY <1>2, <2>2, <2>3 DEF Effect, Own, Kills
<1>8. CASE ReapTerm(p) \/ ReapKill(p)
  <2>1. /\ UNCHANGED <<alive, gen, tty>> /\ me.pc \in {"term", "kill"}
        /\ \A s \in Services : running'[s] => running[s]
        /\ \/ \E S : Become(p, [me EXCEPT !.pc = "kill", !.reaped = S])
           \/ \E S : Become(p, [me EXCEPT !.pc = "term", !.todo = S])
           \/ Become(p, [me EXCEPT !.pc = "type"])
    BY <1>8 DEF ReapTerm, ReapKill, At, Goto
  <2>2. ASSUME NEW x, Become(p, x), x.pc \in {"kill", "term", "type"}, x.made = me.made,
               x.typed = me.typed, x.job = me.job, x.snap = me.snap, x.result = me.result
        PROVE  Effect(p) /\ Own(p)
    <3>1. r = x BY <2>2, Becomes
    <3>2. Reaps(p) BY <2>1, <2>2, <3>1 DEF Reaps
    <3>3. QED BY <1>2, <1>3, <2>2, <3>1, <3>2 DEF Effect, Own
  <2>3. QED BY <1>1, <2>1, <2>2 DEF ProcType
<1>9. CASE Reaped(p)
  <2>1. /\ UNCHANGED <<alive, gen, tty, running>>
        /\ \/ Goto(p, "endsession")
           \/ Finish(p, "ok") /\ ~(me.job.cmd = "down" /\ IsWhole(me.job))
    BY <1>9 DEF Reaped, tmux
  <2>2. CASE Goto(p, "endsession") BY <1>2, <2>1, <2>2, Goes
  <2>3. CASE Finish(p, "ok") /\ ~(me.job.cmd = "down" /\ IsWhole(me.job))
    BY <1>2, <2>1, <2>3, Finishes
  <2>4. QED BY <2>1, <2>2, <2>3
<1>10. CASE Interrupt(p) BY <1>2, <1>10, Finishes DEF Interrupt, tmux
<1>11. QED BY <1>4, <1>5, <1>6, <1>7, <1>8, <1>9, <1>10

LEMMA EffectOfStep ==
    ASSUME TypeOK, NEW p \in Procs, RunInv(proc[p]), Step(p) \/ Interrupt(p)
    PROVE  Effect(p) /\ Own(p)
BY UpEffect, OtherEffect DEF Step

-----------------------------------------------------------------------------
Open(s) == tty[s] + (IF running[s] THEN 1 ELSE 0)
Mine(p) == alive /\ proc[p].made = gen /\ proc[p].made # 0

AllUp == \A p \in Begun : proc[p].job.cmd = "up"
AllWhole ==
    \A p \in Begun : LET job == proc[p].job
                     IN  job.cmd = "up" /\ IsWhole(job) /\ ~job.retry

(* Sessions are numbered, no two ups made the same one, and nothing is left*)
(* of a session that is gone.                                              *)
Numbered ==
    /\ \A p \in Procs : proc[p].snap <= gen /\ proc[p].made <= gen
    /\ \A p, q \in Procs : proc[p].made = proc[q].made /\ proc[p].made # 0 => p = q
    /\ ~alive => \A s \in Services : tty[s] = 0 /\ ~running[s]

(* An up that is still building has its own session, if only ups run; so   *)
(* has one that is launching, if they are whole and do not retry; and then *)
(* what is in a pane was typed by the up that made the session.            *)
Builders == AllUp => \A p \in Procs : proc[p].pc \in Built => Mine(p)
Launchers == AllWhole => \A p \in Procs :
    /\ proc[p].pc # "snapshot"
    /\ proc[p].pc \in Built \union {"gate", "type"} => Mine(p)
Typists == AllWhole => \A s \in Services :
    /\ Open(s) <= 1
    /\ Open(s) > 0 => \E p \in Procs : proc[p].made = gen /\ proc[p].typed[s] > 0

SessionInv ==
    Numbered /\ DownRemovesSession /\ Builders /\ Launchers /\ Typists

LEMMA InitSession == Init => SessionInv
<1> SUFFICES ASSUME Init PROVE SessionInv OBVIOUS
<1>1. /\ gen = 0 /\ \A s \in Services : tty[s] = 0 /\ ~running[s]
  BY DEF Init, Blank, Idle
<1>2. \A p \in Procs : /\ proc[p].snap = 0 /\ proc[p].made = 0 /\ proc[p].pc = "start"
                       /\ proc[p].result = "none"
  BY DEF Init
<1>3. QED
  BY <1>1, <1>2 DEF SessionInv, Numbered, DownRemovesSession, Builders, Launchers,
     Typists, Built, Open

(* As invocations begin, what is assumed of all of them only gets stronger.*)
LEMMA BegunGrows ==
    ASSUME TypeOK, NEW p \in Procs, Own(p),
           \A q \in Procs : q # p => proc'[q] = proc[q]
    PROVE  /\ AllUp' => AllUp /\ proc[p].job.cmd = "up"
           /\ AllWhole' => AllWhole /\ proc[p].job.cmd = "up" /\ IsWhole(proc[p].job)
                           /\ ~proc[p].job.retry
<1>1. \A q \in Procs : proc'[q].job = proc[q].job BY DEF Own
<1>2. Begun \subseteq Begun' /\ p \in Begun' BY DEF Begun, At, Own
<1>3. \A q \in Begun' : q \in Procs BY DEF Begun
<1>4. QED BY <1>1, <1>2, <1>3 DEF AllUp, AllWhole

LEMMA NumberedStep ==
    ASSUME TypeOK, NEW p \in Procs, Own(p), Effect(p), Numbered,
           \A q \in Procs : q # p => proc'[q] = proc[q]
    PROVE  Numbered'
<1>1. /\ gen \in Nat /\ tty \in [Services -> Nat]
      /\ \A q \in Procs : proc[q] \in ProcType
  BY DEF TypeOK
<1>2. \A q \in Procs : proc[q].snap \in Nat /\ proc[q].made \in Nat
  BY <1>1 DEF ProcType
<1>3. /\ gen' \in {gen, gen + 1}
      /\ proc'[p].made = proc[p].made \/ (proc'[p].made = gen + 1 /\ gen' = gen + 1)
  BY DEF Effect, Creates, Kills, Types, Reaps, Looks
<1>4. \A q \in Procs : proc'[q].snap <= gen' /\ proc'[q].made <= gen'
  BY <1>1, <1>2, <1>3 DEF Numbered, Own
<1>5. \A q \in Procs : proc[q].made # gen + 1
  BY <1>1, <1>2 DEF Numbered
<1>6. ASSUME NEW q \in Procs, NEW x \in Procs, proc'[q].made = proc'[x].made,
             proc'[q].made # 0
      PROVE  q = x
  BY <1>3, <1>5, <1>6 DEF Numbered
<1>7. ASSUME ~alive', NEW s \in Services PROVE tty'[s] = 0 /\ ~running'[s]
  <2>1. ~Creates(p) BY <1>7 DEF Creates
  <2>2. \A t \in Services : ~Types(p, t)
    <3>1. SUFFICES ASSUME NEW t \in Services, Types(p, t) PROVE FALSE OBVIOUS
    <3>2. alive /\ alive' = alive BY <3>1 DEF Types
    <3>3. QED BY <1>7, <3>2
  <2>3. CASE Kills(p)
    <3>1. tty' = Blank /\ running' = Idle BY <2>3 DEF Kills
    <3>2. QED BY <3>1 DEF Blank, Idle
  <2>4. CASE Reaps(p) \/ Looks(p)
    <3>1. /\ alive' = alive /\ tty' = tty
          /\ \A t \in Services : running'[t] => running[t]
      BY <2>4 DEF Reaps, Looks
    <3>2. ~alive BY <1>7, <3>1
    <3>3. QED BY <3>1, <3>2 DEF Numbered
  <2>5. QED BY <2>1, <2>2, <2>3, <2>4 DEF Effect
<1>8. \A q, x \in Procs : proc'[q].made = proc'[x].made /\ proc'[q].made # 0 => q = x
  BY <1>6
<1>9. ~alive' => \A s \in Services : tty'[s] = 0 /\ ~running'[s] BY <1>7
<1>10. QED BY <1>4, <1>8, <1>9 DEF Numbered

LEMMA DownStep ==
    ASSUME TypeOK, NEW p \in Procs, Own(p), Effect(p), Numbered, DownRemovesSession,
           \A q \in Procs : q # p => proc'[q] = proc[q]
    PROVE  DownRemovesSession'
<1>1. gen \in Nat /\ \A q \in Procs : proc[q] \in ProcType BY DEF TypeOK
<1>2. \A q \in Procs : proc[q].snap \in Nat BY <1>1 DEF ProcType
<1>3. SUFFICES ASSUME NEW q \in Procs, proc'[q].job.cmd = "down", IsWhole(proc'[q].job),
                      proc'[q].result = "ok"
               PROVE  ~alive' \/ gen' # proc'[q].snap
  BY DEF DownRemovesSession
<1>4. CASE q = p BY <1>3, <1>4 DEF Own
<1>5. CASE q # p
  <2>1. proc'[q] = proc[q] BY <1>5
  <2>2. (~alive \/ gen # proc[q].snap) /\ proc[q].snap <= gen
    BY <1>3, <2>1 DEF DownRemovesSession, Numbered
  <2>3. gen + 1 # proc[q].snap BY <1>1, <1>2, <2>2
  <2>4. ~alive' \/ (gen' = gen /\ (alive' => alive)) \/ gen' = gen + 1
    <3>1. Creates(p) => gen' = gen + 1 BY DEF Creates
    <3>2. Kills(p) => ~alive' BY DEF Kills
    <3>3. Looks(p) \/ Reaps(p) => gen' = gen /\ alive' = alive BY DEF Looks, Reaps
    <3>4. \A s \in Services : Types(p, s) => gen' = gen /\ alive' = alive BY DEF Types
    <3>5. QED BY <3>1, <3>2, <3>3, <3>4 DEF Effect
  <2>5. QED BY <2>1, <2>2, <2>3, <2>4
<1>6. QED BY <1>4, <1>5

(* A step that neither makes nor ends a session leaves everyone's own.     *)
LEMMA MineKept ==
    ASSUME NEW p \in Procs, NEW q \in Procs, Mine(q), alive' = alive, gen' = gen,
           proc'[q].made = proc[q].made
    PROVE  Mine(q)'
BY DEF Mine

LEMMA BuildersStep ==
    ASSUME TypeOK, NEW p \in Procs, RunInv(proc[p]), Own(p), Effect(p), Numbered, Builders,
           \A q \in Procs : q # p => proc'[q] = proc[q]
    PROVE  Builders'
<1>1. SUFFICES ASSUME AllUp', NEW q \in Procs, proc'[q].pc \in Built PROVE Mine(q)'
  BY DEF Builders
<1>2. AllUp /\ proc[p].job.cmd = "up" BY <1>1, BegunGrows
<1>3. \A x \in Procs : proc[x].pc \in Built => Mine(x) BY <1>2 DEF Builders
<1>4. gen \in Nat BY DEF TypeOK
<1>5. CASE Creates(p)
  <2>1. CASE q = p BY <1>4, <1>5, <2>1 DEF Creates, Mine
  <2>2. CASE q # p BY <1>1, <1>3, <1>5, <2>2 DEF Creates, Mine
  <2>3. QED BY <2>1, <2>2
<1>6. CASE Kills(p)
  <2>1. proc[p].pc = "teardown" BY <1>2, <1>6 DEF Kills, RunInv, Early
  <2>2. "teardown" \in Built BY DEF Built
  <2>3. Mine(p) BY <1>3, <2>1, <2>2
  <2>4. q # p BY <1>1, <1>6 DEF Kills, Built
  <2>5. Mine(q) BY <1>1, <1>3, <2>4
  <2>6. QED BY <2>3, <2>4, <2>5 DEF Mine, Numbered
<1>7. CASE Looks(p) \/ Reaps(p) \/ \E s \in Services : Types(p, s)
  <2>1. alive' = alive /\ gen' = gen /\ proc'[p].made = proc[p].made
    BY <1>7 DEF Looks, Reaps, Types
  <2>2. proc'[p].pc \in Built => proc[p].pc \in Built
    BY <1>7 DEF Looks, Reaps, Types, Built
  <2>3. Mine(q) BY <1>1, <1>3, <2>2
  <2>4. proc'[q].made = proc[q].made BY <2>1
  <2>5. QED BY <2>1, <2>3, <2>4, MineKept
<1>8. QED BY <1>5, <1>6, <1>7 DEF Effect

LEMMA LaunchersStep ==
    ASSUME TypeOK, NEW p \in Procs, RunInv(proc[p]), Own(p), Effect(p), Numbered, Launchers,
           \A q \in Procs : q # p => proc'[q] = proc[q]
    PROVE  Launchers'
<1> DEFINE Busy == Built \union {"gate", "type"}
<1>1. SUFFICES ASSUME AllWhole', NEW q \in Procs
               PROVE  proc'[q].pc # "snapshot" /\ (proc'[q].pc \in Busy => Mine(q)')
  BY DEF Launchers
<1>2. /\ AllWhole /\ proc[p].job.cmd = "up" /\ IsWhole(proc[p].job) /\ ~proc[p].job.retry
  BY <1>1, BegunGrows
<1>3. \A x \in Procs : /\ proc[x].pc # "snapshot"
                       /\ proc[x].pc \in Busy => Mine(x)
  BY <1>2 DEF Launchers
<1>4. gen \in Nat BY DEF TypeOK
<1>5. CASE Creates(p)
  <2>1. CASE q = p BY <1>4, <1>5, <2>1 DEF Creates, Mine
  <2>2. CASE q # p BY <1>3, <1>5, <2>2 DEF Creates, Mine
  <2>3. QED BY <2>1, <2>2
<1>6. CASE Kills(p)
  <2>1. proc[p].pc = "teardown" BY <1>2, <1>6 DEF Kills, RunInv, Early
  <2>2. "teardown" \in Busy BY DEF Built
  <2>3. Mine(p) BY <1>3, <2>1, <2>2
  <2>4. CASE q = p BY <1>6, <2>4 DEF Kills, Built
  <2>5. CASE q # p BY <1>3, <2>3, <2>5 DEF Mine, Numbered
  <2>6. QED BY <2>4, <2>5
<1>7. CASE Looks(p) \/ Reaps(p) \/ \E s \in Services : Types(p, s)
  <2>1. alive' = alive /\ gen' = gen /\ proc'[p].made = proc[p].made
    BY <1>7 DEF Looks, Reaps, Types
  <2>2. ~Reaps(p) BY <1>2 DEF Reaps, RunInv, Retrying, IsRetrying
  <2>3. proc'[p].pc # "snapshot" BY <1>2, <1>7, <2>2 DEF Looks, Types
  <2>4. proc'[p].pc \in Busy => proc[p].pc \in Busy \union {"snapshot"}
    BY <1>7, <2>2 DEF Looks, Types, Built
  <2>5. proc'[q].pc \in Busy => Mine(q)
    <3>1. CASE q = p BY <1>3, <2>4, <3>1
    <3>2. CASE q # p BY <1>3, <3>2
    <3>3. QED BY <3>1, <3>2
  <2>6. proc'[q].made = proc[q].made BY <2>1
  <2>7. proc'[q].pc # "snapshot" BY <1>3, <2>3
  <2>8. QED BY <2>1, <2>5, <2>6, <2>7, MineKept
<1>8. QED BY <1>5, <1>6, <1>7 DEF Effect

LEMMA TypistsStep ==
    ASSUME TypeOK, NEW p \in Procs, RunInv(proc[p]), Own(p), Effect(p), Numbered,
           Launchers, Typists, \A q \in Procs : q # p => proc'[q] = proc[q]
    PROVE  Typists'
<1>1. SUFFICES ASSUME AllWhole', NEW s \in Services
               PROVE  /\ Open(s)' <= 1
                      /\ Open(s)' > 0 => \E q \in Procs : /\ proc'[q].made = gen'
                                                          /\ proc'[q].typed[s] > 0
  BY DEF Typists
<1>2. /\ AllWhole /\ proc[p].job.cmd = "up" /\ IsWhole(proc[p].job) /\ ~proc[p].job.retry
  BY <1>1, BegunGrows
<1>3. /\ Open(s) <= 1
      /\ Open(s) > 0 => \E q \in Procs : proc[q].made = gen /\ proc[q].typed[s] > 0
  BY <1>2 DEF Typists
<1>4. /\ gen \in Nat /\ tty \in [Services -> Nat] /\ running \in [Services -> BOOLEAN]
      /\ proc[p] \in ProcType
  BY DEF TypeOK
<1>5. CASE Creates(p) \/ Kills(p)
  <2>1. Open(s)' = 0 BY <1>5 DEF Creates, Kills, Open, Blank, Idle
  <2>2. QED BY <2>1
<1>6. CASE Looks(p)
  <2>1. Open(s)' = Open(s) /\ gen' = gen BY <1>6 DEF Looks, Open
  <2>2. \A q \in Procs : proc'[q].made = proc[q].made /\ proc'[q].typed = proc[q].typed
    BY <1>6 DEF Looks
  <2>3. QED BY <1>3, <2>1, <2>2
<1>7. CASE Reaps(p) BY <1>2, <1>7 DEF Reaps, RunInv, Retrying, IsRetrying
<1>8. ASSUME NEW t \in Services, Types(p, t)
      PROVE  /\ Open(s)' <= 1
             /\ Open(s)' > 0 => \E q \in Procs : /\ proc'[q].made = gen'
                                                 /\ proc'[q].typed[s] > 0
  <2>1. /\ proc[p].pc = "type" /\ t \in proc[p].todo /\ gen' = gen /\ running' = running
        /\ tty' = [tty EXCEPT ![t] = @ + 1] /\ proc'[p].made = proc[p].made
        /\ proc'[p].typed = [proc[p].typed EXCEPT ![t] = @ + 1]
    BY <1>8 DEF Types
  <2>2. proc[p].typed \in [Services -> Nat] /\ proc[p].tries \in Nat BY <1>4, RecordTypes
  <2>3. proc[p].tries = 0 BY <1>2, <2>1, <2>2 DEF RunInv, Retrying, IsRetrying
  <2>4. proc[p].typed[t] = 0
    BY <1>2, <2>1, <2>3 DEF RunInv, Launching, IsLaunching
  <2>5. Mine(p) BY <1>2, <2>1 DEF Launchers
  <2>6. CASE s = t
    <3>1. ~(Open(t) > 0) BY <1>3, <2>4, <2>5, <2>6 DEF Mine, Numbered
    <3>2. tty[t] = 0 /\ ~running[t] BY <1>4, <3>1 DEF Open
    <3>3. Open(s)' = 1 BY <1>4, <2>1, <2>6, <3>2 DEF Open
    <3>4. proc'[p].typed[s] = 1 /\ proc'[p].made = gen' BY <2>1, <2>2, <2>4, <2>5, <2>6 DEF Mine
    <3>5. QED BY <3>3, <3>4
  <2>7. CASE s # t
    <3>1. Open(s)' = Open(s) BY <1>4, <2>1, <2>7 DEF Open
    <3>2. \A q \in Procs : proc'[q].made = proc[q].made /\ proc'[q].typed[s] = proc[q].typed[s]
      <4>1. TAKE q \in Procs
      <4>2. CASE q = p BY <2>1, <2>2, <2>7, <4>2
      <4>3. CASE q # p BY <4>3
      <4>4. QED BY <4>2, <4>3
    <3>3. QED BY <1>3, <2>1, <3>1, <3>2
  <2>8. QED BY <2>6, <2>7
<1>9. QED BY <1>1, <1>5, <1>6, <1>7, <1>8 DEF Effect

(* The panes launch what was typed, and what they run may end.             *)
LEMMA PaneSession ==
    ASSUME TypeOK, SessionInv, NEW s \in Services, Pane(s)
    PROVE  SessionInv'
<1>1. /\ tty \in [Services -> Nat] /\ running \in [Services -> BOOLEAN] BY DEF TypeOK
<1>2. UNCHANGED <<alive, gen, panes, proc>> BY DEF Pane, ShellLaunch, ServiceExit
<1>3. Begun' = Begun /\ AllUp' = AllUp /\ AllWhole' = AllWhole
  BY <1>2 DEF Begun, At, AllUp, AllWhole
<1>4. alive \/ ~ShellLaunch(s) BY DEF ShellLaunch
<1>5. \A t \in Services : tty'[t] <= tty[t] /\ (~running[t] /\ tty[t] = 0 => ~running'[t])
  <2>1. TAKE t \in Services
  <2>2. CASE ShellLaunch(s) BY <1>1, <2>2 DEF ShellLaunch
  <2>3. CASE ServiceExit(s) BY <1>1, <2>3 DEF ServiceExit
  <2>4. QED BY <2>2, <2>3 DEF Pane
<1>6. \A t \in Services : Open(t)' <= Open(t) /\ Open(t) \in Nat /\ Open(t)' \in Nat
  <2>1. SUFFICES ASSUME NEW t \in Services
                 PROVE  Open(t)' <= Open(t) /\ Open(t) \in Nat /\ Open(t)' \in Nat
    OBVIOUS
  <2>2. CASE ShellLaunch(s)
    <3>1. CASE t = s BY <1>1, <2>2, <3>1 DEF ShellLaunch, Open
    <3>2. CASE t # s BY <1>1, <2>2, <3>2 DEF ShellLaunch, Open
    <3>3. QED BY <3>1, <3>2
  <2>3. CASE ServiceExit(s)
    <3>1. CASE t = s BY <1>1, <2>3, <3>1 DEF ServiceExit, Open
    <3>2. CASE t # s BY <1>1, <2>3, <3>2 DEF ServiceExit, Open
    <3>3. QED BY <3>1, <3>2
  <2>4. QED BY <2>2, <2>3 DEF Pane
<1>7. Numbered'
  <2>1. ~alive => \A t \in Services : tty'[t] = 0 /\ ~running'[t]
    BY <1>1, <1>4 DEF SessionInv, Numbered, Pane, ServiceExit
  <2>2. QED BY <1>2, <2>1 DEF SessionInv, Numbered
<1>8. DownRemovesSession' BY <1>2 DEF SessionInv, DownRemovesSession
<1>9. Builders' /\ Launchers' BY <1>2, <1>3 DEF SessionInv, Builders, Launchers, Mine
<1>10. Typists'
  <2>1. SUFFICES ASSUME AllWhole, NEW t \in Services
                 PROVE  /\ Open(t)' <= 1
                        /\ Open(t)' > 0 => \E q \in Procs : /\ proc[q].made = gen
                                                            /\ proc[q].typed[t] > 0
    BY <1>2, <1>3 DEF Typists
  <2>2. /\ Open(t) <= 1
        /\ Open(t) > 0 => \E q \in Procs : proc[q].made = gen /\ proc[q].typed[t] > 0
    BY <2>1 DEF SessionInv, Typists
  <2>3. QED BY <1>6, <2>2
<1>11. QED BY <1>7, <1>8, <1>9, <1>10 DEF SessionInv

LEMMA SessionsInvariant == Spec => []SessionInv
<1> DEFINE Runs == \A p \in Procs : RunInv(proc[p])
<1>1. TypeOK /\ Runs /\ SessionInv /\ [Next]_vars => SessionInv'
  <2> SUFFICES ASSUME TypeOK, Runs, SessionInv, [Next]_vars PROVE SessionInv'
    OBVIOUS
  <2>1. ASSUME NEW p \in Procs, Step(p) \/ Interrupt(p) PROVE SessionInv'
    <3>1. RunInv(proc[p]) /\ \A q \in Procs : q # p => proc'[q] = proc[q]
      BY <2>1, OneMoves
    <3>2. Effect(p) /\ Own(p) BY <2>1, <3>1, EffectOfStep
    <3> HIDE DEF Runs
    <3>3. Numbered' BY <3>1, <3>2, NumberedStep DEF SessionInv
    <3>4. DownRemovesSession' BY <3>1, <3>2, DownStep DEF SessionInv
    <3>5. Builders' BY <3>1, <3>2, BuildersStep DEF SessionInv
    <3>6. Launchers' BY <3>1, <3>2, LaunchersStep DEF SessionInv
    <3>7. Typists' BY <3>1, <3>2, TypistsStep DEF SessionInv
    <3>8. QED BY <3>3, <3>4, <3>5, <3>6, <3>7 DEF SessionInv
  <2>2. CASE \E s \in Services : Pane(s) BY <2>2, PaneSession
  <2>3. CASE UNCHANGED vars
    BY <2>3 DEF vars, SessionInv, Numbered, DownRemovesSession, Builders, Launchers,
       Typists, AllUp, AllWhole, Begun, At, Open, Mine
  <2>4. QED BY <2>1, <2>2, <2>3 DEF Next
<1>2. QED BY <1>1, InitSession, RunsInvariant, TypeCorrect, PTL DEF Spec

(* A whole-scope down that reports success has ended the session it found. *)
THEOREM DownsEndTheSession == Spec => []DownRemovesSession
<1>1. SessionInv => DownRemovesSession BY DEF SessionInv
<1>2. QED BY <1>1, SessionsInvariant, PTL

(* While only ups run, an up that tears down ends the session it made and  *)
(* no later one of the same name, however many run at once.                *)
THEOREM TeardownsAreOwn == Spec => []OwnTeardown
<1>1. SessionInv => OwnTeardown
  <2>1. "teardown" \in Built BY DEF Built
  <2>2. QED BY <2>1 DEF SessionInv, OwnTeardown, Builders, AllUp, At, Mine
<1>2. QED BY <1>1, SessionsInvariant, PTL

(* While only ups of the whole scope without retries run, no line waits    *)
(* behind another copy of the same service.                                *)
THEOREM WholeUpsDoNotStack == Spec => []NoStacking
<1>1. SessionInv => NoStacking
  BY DEF SessionInv, NoStacking, Typists, AllWhole, Open
<1>2. QED BY <1>1, SessionsInvariant, PTL

=============================================================================
