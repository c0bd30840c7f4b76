----------------------------- MODULE CommandProofs -----------------------------
(***************************************************************************)
(* Proofs about the commands that are given an environment's session.      *)
(* Door: `down --tmux-only`, which `winter ws destroy` runs, for any       *)
(* sessions on the server, any environments, any calls and any tmux calls  *)
(* that fail: exit code 0 means that the environment's session is gone, or *)
(* that a call about it failed.                                            *)
(* Status: for any number of services and whatever sessions and launches   *)
(* come and go while it looks, each row it answers was true at some moment *)
(* of the command, and it fails for tmux's sake only if a session went     *)
(* away.                                                                   *)
(***************************************************************************)
EXTENDS Door, Status, TLAPS

Wanted == Own[door.env]

(* The steps of the command that acts itself.                              *)
Acting == {"build", "has", "panes", "kill", "list", "each"}

(* The session is still to be killed, was missed or does not last.  Without *)
(* a manifest what is left of the list is still there if nobody else        *)
(* interferes.                                                              *)
DoorInv ==
    /\ DoorTypeOK
    /\ door.call \in Calls /\ door.env \in Environments
    /\ door.pc \in Acting => TmuxOnlyCall
    /\ door.pc = "attach" => ~TmuxOnlyCall
    /\ door.pc = "each" /\ Wanted \in lasting => Wanted \in door.found \union door.missed
    /\ door.pc \in {"main", "build", "list"} => door.killed = {} /\ door.found = {}
    /\ door.blind => door.pc \in {"list", "each", "done"}
    /\ door.pc = "each" /\ door.blind /\ visits = 0
          => door.found \subseteq Ends[door.env] \intersect running
    /\ DestroyedUnlessFailed

LEMMA ResolvedFacts ==
    ASSUME running \subseteq Names, NEW n \in Names
    PROVE  Resolved(n) \subseteq running /\ (n \in running => Resolved(n) = {n})
BY DEF Resolved

(* What the directory and the command line name are environments.          *)
LEMMA MeantIsKnown ==
    ASSUME NEW c \in Calls
    PROVE  Meant(c) \in Environments /\ c \in Call
<1>1. c \in Call /\ "" \in Environments BY DoorConstants
<1>2. c.link \in Environments /\ c.named \in Environments BY <1>1 DEF Call
<1>3. Located(c) \in Environments BY <1>1, <1>2 DEF Located
<1>4. QED BY <1>1, <1>2, <1>3 DEF Meant

LEMMA WantedIsName ==
    ASSUME door.env \in Environments
    PROVE  Wanted \in Names /\ Wanted \in Ends[door.env] /\ Ends[door.env] \subseteq Names
BY DoorConstants DEF Wanted

LEMMA DoorStart == ASSUME DoorInit PROVE DoorInv
<1>1. PICK c \in Calls :
         door = [pc |-> "main", call |-> c, env |-> "", to |-> <<"", "">>, rc |-> 0,
                 blind |-> FALSE, found |-> {}, killed |-> {}, missed |-> {}]
  BY DEF DoorInit
<1>2. c \in Call /\ "" \in Environments BY <1>1, DoorConstants
<1>3. door \in DoorType BY <1>1, <1>2 DEF DoorType
<1>4. DoorTypeOK
  <2>1. MaxVisits \in Nat BY DoorConstants
  <2>2. 0 \in 0..MaxVisits BY <2>1
  <2>3. QED BY <1>3, <2>2 DEF DoorInit, DoorTypeOK
<1>5. /\ door.pc = "main" /\ door.call = c /\ door.env = "" /\ ~door.blind
      /\ door.killed = {} /\ door.found = {}
  BY <1>1
<1>6. QED BY <1>2, <1>4, <1>5 DEF DoorInv, Acting, DestroyedUnlessFailed, Stands

(* A step of the door that kills nothing and does not list.                *)
LEMMA DoorMoves ==
    ASSUME DoorInv, Main \/ Attach \/ Build \/ DoorHasSession \/ DoorListPanes \/ EachDone
    PROVE  DoorInv'
<1>1. UNCHANGED <<running, visits, lasting>>
  BY DEF Main, Attach, Build, DoorHasSession, DoorListPanes, EachDone, Apart
<1>2. door \in DoorType /\ lasting \subseteq running /\ running \subseteq Names
  BY DEF DoorInv, DoorTypeOK
<1>3. CASE Main
  <2>1. door.pc = "main" BY <1>3 DEF Main, Stands
  <2>2. door.killed = {} /\ door.found = {} /\ ~door.blind BY <2>1 DEF DoorInv
  <2>3. CASE NoAction(door.call) \/ TurnAway(door.call) \/ MisUse(door.call)
    <3>1. PICK rc \in {1, 2} : ExitWith(rc) BY <2>3 DEF NoAction, TurnAway, MisUse, Usage
    <3>2. door' \in DoorType BY <1>2, <3>1 DEF ExitWith, DoorType
    <3>3. /\ door'.pc = "done" /\ door'.rc # 0
          /\ UNCHANGED <<door.call, door.env, door.blind>>
      <4>1. door' = [door EXCEPT !.pc = "done", !.rc = rc] BY <3>1 DEF ExitWith
      <4>2. door'.rc = rc /\ door'.pc = "done" BY <1>2, <4>1 DEF DoorType
      <4>3. UNCHANGED <<door.call, door.env, door.blind>> BY <1>2, <4>1 DEF DoorType
      <4>4. QED BY <4>2, <4>3
    <3>4. QED
      BY <1>1, <2>2, <3>2, <3>3
      DEF DoorInv, DoorTypeOK, Acting, TmuxOnlyCall, DestroyedUnlessFailed, Wanted, Stands
  <2>4. CASE door.call.action \in Actions /\ HandOver(door.call)
    <3>1. PICK rc \in {0, 1} :
             door' = [door EXCEPT
                        !.to = <<door.call.action,
                                 IF door.call.action = "status" /\ door.call.flag THEN ""
                                 ELSE Meant(door.call)>>,
                        !.rc = rc,
                        !.pc = IF door.call.action = "up" /\ door.call.flag /\ rc = 0
                               THEN "attach" ELSE "done"]
      BY <2>4 DEF HandOver
    <3>2. door.call.action \in Actions /\ Meant(door.call) \in Environments
      BY <2>4, MeantIsKnown DEF DoorInv
    <3>3. door'.pc \in {"attach", "done"} /\ UNCHANGED <<door.call, door.env, door.blind>>
      BY <1>2, <3>1 DEF DoorType
    <3>4. door' \in DoorType BY <1>2, <3>1, <3>2, DoorConstants DEF DoorType
    <3>5. ~TmuxOnlyCall BY <2>4 DEF HandOver, TmuxOnlyCall
    <3>6. QED
      BY <1>1, <2>2, <3>3, <3>4, <3>5
      DEF DoorInv, DoorTypeOK, Acting, TmuxOnlyCall, DestroyedUnlessFailed, Wanted, Stands
  <2>5. CASE TmuxOnly(door.call)
    <3>1. door' = [door EXCEPT !.pc = "build", !.env = Meant(door.call)] /\ TmuxOnlyCall
      BY <2>5 DEF TmuxOnly, TmuxOnlyCall
    <3>2. Meant(door.call) \in Environments
      BY MeantIsKnown DEF DoorInv
    <3>3. door' \in DoorType BY <1>2, <3>1, <3>2 DEF DoorType
    <3>4. /\ door'.pc = "build" /\ door'.env \in Environments
          /\ UNCHANGED <<door.call, door.blind, door.killed, door.found>>
      BY <1>2, <3>1, <3>2 DEF DoorType
    <3>5. QED
      BY <1>1, <2>2, <3>1, <3>3, <3>4
      DEF DoorInv, DoorTypeOK, Acting, TmuxOnlyCall, DestroyedUnlessFailed, Wanted, Stands
  <2>6. QED BY <1>3, <2>3, <2>4, <2>5 DEF Main
<1>4. CASE Attach
  <2>1. /\ \E rc \in {0, 1} : door' = [door EXCEPT !.pc = "done", !.rc = rc]
        /\ door.pc = "attach"
    BY <1>4 DEF Attach, ExitWith, Stands
  <2>2. door' \in DoorType BY <1>2, <2>1 DEF DoorType
  <2>3. door'.pc = "done" /\ UNCHANGED <<door.call, door.env, door.blind>>
    BY <1>2, <2>1 DEF DoorType
  <2>4. ~TmuxOnlyCall /\ ~door.blind BY <2>1 DEF DoorInv
  <2>5. QED
    BY <1>1, <2>2, <2>3, <2>4
    DEF DoorInv, DoorTypeOK, Acting, TmuxOnlyCall, DestroyedUnlessFailed, Wanted, Stands
<1>5. CASE Build
  <2>1. door.pc = "build" BY <1>5 DEF Build, Stands
  <2>2. \/ door' = [door EXCEPT !.pc = "has"]
        \/ door' = [door EXCEPT !.pc = "list", !.blind = TRUE]
    BY <1>5 DEF Build
  <2>3. door' \in DoorType BY <1>2, <2>2 DEF DoorType
  <2>4. /\ UNCHANGED <<door.call, door.env, door.killed, door.found>>
        /\ \/ door'.pc = "list"
           \/ door'.pc = "has" /\ door'.blind = door.blind
    BY <1>2, <2>2 DEF DoorType
  <2>5. TmuxOnlyCall /\ door.killed = {} /\ door.found = {} /\ ~door.blind BY <2>1 DEF DoorInv, Acting
  <2>6. QED
    BY <1>1, <2>3, <2>4, <2>5
    DEF DoorInv, DoorTypeOK, Acting, TmuxOnlyCall, DestroyedUnlessFailed, Wanted, Stands
<1>6. CASE DoorHasSession \/ DoorListPanes
  <2>1. door.pc \in {"has", "panes"} BY <1>6 DEF DoorHasSession, DoorListPanes, Stands
  <2>2. TmuxOnlyCall /\ ~door.blind BY <2>1 DEF DoorInv, Acting
  <2>3. \/ ExitWith(0) /\ Resolved(Wanted) = {}
        \/ ExitWith(1)
        \/ PassOver({Wanted})
        \/ \E next \in {"panes", "kill"} : door' = [door EXCEPT !.pc = next]
    BY <1>6 DEF DoorHasSession, DoorListPanes, Wanted
  <2>4. Wanted \in Names BY WantedIsName DEF DoorInv
  <2>5. /\ door' \in DoorType /\ UNCHANGED <<door.call, door.env, door.blind>>
        /\ \/ door'.pc = "done" /\ door'.rc = 0 /\ Resolved(Wanted) = {}
           \/ door'.pc = "done" /\ door'.rc = 1
           \/ door'.pc = "done" /\ Wanted \in door'.missed
           \/ door'.pc \in {"panes", "kill"}
    <3>1. CASE ExitWith(0) /\ Resolved(Wanted) = {}
      BY <1>2, <3>1 DEF ExitWith, DoorType
    <3>2. CASE ExitWith(1) BY <1>2, <3>2 DEF ExitWith, DoorType
    <3>3. CASE PassOver({Wanted}) BY <1>2, <2>4, <3>3 DEF PassOver, DoorType
    <3>4. CASE \E next \in {"panes", "kill"} : door' = [door EXCEPT !.pc = next]
      BY <1>2, <3>4 DEF DoorType
    <3>5. QED BY <2>3, <3>1, <3>2, <3>3, <3>4
  <2>6. Resolved(Wanted) = {} => Wanted \notin lasting
    BY <1>2, WantedIsName, ResolvedFacts DEF DoorInv
  <2>7. QED
    BY <1>1, <2>2, <2>5, <2>6
    DEF DoorInv, DoorTypeOK, Acting, TmuxOnlyCall, DestroyedUnlessFailed, Wanted, Stands
<1>7. CASE EachDone
  <2>1. /\ door' = [door EXCEPT !.pc = "done", !.rc = 0]
        /\ door.pc = "each" /\ door.found = {}
    BY <1>7 DEF EachDone, ExitWith, Stands
  <2>2. door' \in DoorType BY <1>2, <2>1 DEF DoorType
  <2>3. /\ door'.pc = "done"
        /\ UNCHANGED <<door.call, door.env, door.blind, door.killed, door.missed>>
    BY <1>2, <2>1 DEF DoorType
  <2>4. Wanted \in lasting => Wanted \in door.missed BY <2>1 DEF DoorInv
  <2>5. QED
    BY <1>1, <2>2, <2>3, <2>4
    DEF DoorInv, DoorTypeOK, Acting, TmuxOnlyCall, DestroyedUnlessFailed, Wanted, Stands
<1>8. QED BY <1>3, <1>4, <1>5, <1>6, <1>7

LEMMA DoorKills ==
    ASSUME DoorInv, DoorKill \/ ListMatches \/ KillEach PROVE DoorInv'
<1>1. door \in DoorType /\ lasting \subseteq running /\ running \subseteq Names
  BY DEF DoorInv, DoorTypeOK
<1>2. Wanted \in Names /\ Wanted \in Ends[door.env] /\ Ends[door.env] \subseteq Names
  BY WantedIsName DEF DoorInv
<1>3. CASE DoorKill
  <2>1. door.pc = "kill" BY <1>3 DEF DoorKill, Stands
  <2>2. TmuxOnlyCall /\ ~door.blind BY <2>1 DEF DoorInv, Acting
  <2>3. \/ /\ door' = [door EXCEPT !.pc = "done", !.killed = Resolved(Wanted)]
           /\ running' = running \ Resolved(Wanted) /\ lasting' = lasting \ Resolved(Wanted)
           /\ UNCHANGED visits
        \/ PassOver({Wanted}) /\ UNCHANGED <<running, visits, lasting>>
        \/ ExitWith(1) /\ UNCHANGED <<running, visits, lasting>>
    BY <1>3 DEF DoorKill, KillNamed, Wanted, Apart
  <2>4. Resolved(Wanted) \subseteq Names /\ (Wanted \in running => Resolved(Wanted) = {Wanted})
    BY <1>1, <1>2, ResolvedFacts
  <2>5. /\ door' \in DoorType /\ door'.pc = "done"
        /\ UNCHANGED <<door.call, door.env, door.blind, visits>>
        /\ Wanted \in lasting' => Wanted \in door'.missed \/ door'.rc = 1
        /\ running' \subseteq Names /\ lasting' \subseteq running'
    <3>1. CASE /\ door' = [door EXCEPT !.pc = "done", !.killed = Resolved(Wanted)]
               /\ running' = running \ Resolved(Wanted)
               /\ lasting' = lasting \ Resolved(Wanted) /\ UNCHANGED visits
      BY <1>1, <2>4, <3>1 DEF DoorType
    <3>2. CASE PassOver({Wanted}) /\ UNCHANGED <<running, visits, lasting>>
      BY <1>1, <1>2, <3>2 DEF PassOver, DoorType
    <3>3. CASE ExitWith(1) /\ UNCHANGED <<running, visits, lasting>>
      BY <1>1, <3>3 DEF ExitWith, DoorType
    <3>4. QED BY <2>3, <3>1, <3>2, <3>3
  <2>6. QED
    BY <2>2, <2>5
    DEF DoorInv, DoorTypeOK, Acting, TmuxOnlyCall, DestroyedUnlessFailed, Wanted, Stands
<1>4. CASE ListMatches
  <2>1. /\ \/ door' = [door EXCEPT !.pc = "each", !.found = Suffixed]
           \/ door' = [door EXCEPT !.pc = "each", !.missed = Suffixed]
        /\ door.pc = "list" /\ UNCHANGED <<running, visits, lasting>>
    BY <1>4 DEF ListMatches, Apart, Stands
  <2>2. Suffixed \subseteq Names /\ Suffixed = Ends[door.env] \intersect running
    BY <1>2 DEF Suffixed
  <2>3. door.killed = {} /\ door.found = {} BY <2>1 DEF DoorInv
  <2>4. /\ door' \in DoorType /\ door'.pc = "each" /\ door'.killed = {}
        /\ Suffixed \subseteq door'.found \union door'.missed
        /\ door'.found \subseteq Suffixed
        /\ UNCHANGED <<door.call, door.env, door.blind>>
    <3>1. CASE door' = [door EXCEPT !.pc = "each", !.found = Suffixed]
      BY <1>1, <2>2, <2>3, <3>1 DEF DoorType
    <3>2. CASE door' = [door EXCEPT !.pc = "each", !.missed = Suffixed]
      BY <1>1, <2>2, <2>3, <3>2 DEF DoorType
    <3>3. QED BY <2>1, <3>1, <3>2
  <2>5. TmuxOnlyCall BY <2>1 DEF DoorInv, Acting
  <2>6. Wanted \in lasting => Wanted \in Suffixed BY <1>1, <1>2, <2>2
  <2>7. DoorTypeOK' BY <2>1, <2>4 DEF DoorInv, DoorTypeOK
  <2>8. QED
    BY <2>1, <2>2, <2>4, <2>5, <2>6, <2>7
    DEF DoorInv, Acting, TmuxOnlyCall, DestroyedUnlessFailed, Wanted, Stands
<1>5. CASE KillEach
  <2>1. PICK n \in door.found :
           \/ /\ door' = [door EXCEPT !.found = @ \ {n}, !.killed = @ \union Resolved(n)]
              /\ running' = running \ Resolved(n) /\ lasting' = lasting \ Resolved(n)
              /\ UNCHANGED visits
           \/ /\ door' = [door EXCEPT !.found = @ \ {n}, !.missed = @ \union {n}]
              /\ UNCHANGED <<running, visits, lasting>>
    BY <1>5 DEF KillEach, KillNamed, Apart
  <2>2. door.pc = "each" /\ n \in Names BY <1>1, <1>5, <2>1 DEF KillEach, Stands, DoorType
  <2>3. Resolved(n) \subseteq Names /\ (n \in running => Resolved(n) = {n})
    BY <1>1, <2>2, ResolvedFacts
  <2>4. /\ door' \in DoorType /\ door'.pc = "each" /\ door'.found = door.found \ {n}
        /\ UNCHANGED <<door.call, door.env, door.blind, visits>>
        /\ \/ /\ door'.killed = door.killed \union Resolved(n) /\ door'.missed = door.missed
              /\ running' = running \ Resolved(n) /\ lasting' = lasting \ Resolved(n)
           \/ /\ door'.killed = door.killed /\ door'.missed = door.missed \union {n}
              /\ UNCHANGED <<running, lasting>>
    <3>1. CASE /\ door' = [door EXCEPT !.found = @ \ {n}, !.killed = @ \union Resolved(n)]
               /\ running' = running \ Resolved(n) /\ lasting' = lasting \ Resolved(n)
               /\ UNCHANGED visits
      BY <1>1, <2>2, <2>3, <3>1 DEF DoorType
    <3>2. CASE /\ door' = [door EXCEPT !.found = @ \ {n}, !.missed = @ \union {n}]
               /\ UNCHANGED <<running, visits, lasting>>
      BY <1>1, <2>2, <3>2 DEF DoorType
    <3>3. QED BY <2>1, <3>1, <3>2
  <2>5. running' \subseteq Names /\ lasting' \subseteq running' BY <1>1, <2>4
  <2>6. TmuxOnlyCall BY <2>2 DEF DoorInv, Acting
  <2>7. Wanted \in lasting' => Wanted \in door'.found \union door'.missed
    BY <1>1, <2>2, <2>3, <2>4 DEF DoorInv
  <2>8. ASSUME door.blind, visits = 0
        PROVE  /\ door'.found \subseteq Ends[door.env] \intersect running'
               /\ door'.killed \subseteq Ends[door.env]
    <3>1. door.found \subseteq Ends[door.env] \intersect running
      BY <2>2, <2>8 DEF DoorInv
    <3>2. Resolved(n) = {n} /\ n \in Ends[door.env] BY <2>3, <3>1
    <3>3. door.killed \subseteq Ends[door.env]
      BY <2>8 DEF DoorInv, DestroyedUnlessFailed
    <3>4. QED BY <2>4, <3>1, <3>2, <3>3
  <2>9. DoorTypeOK' BY <2>4, <2>5 DEF DoorInv, DoorTypeOK
  <2>10. QED
    BY <2>4, <2>6, <2>7, <2>8, <2>9
    DEF DoorInv, Acting, TmuxOnlyCall, DestroyedUnlessFailed, Wanted, Stands
<1>6. QED BY <1>3, <1>4, <1>5

LEMMA DoorNextStep == ASSUME DoorInv, [DoorNext]_doorVars PROVE DoorInv'
<1>1. CASE UNCHANGED doorVars
  BY <1>1
  DEF doorVars, DoorInv, DoorTypeOK, Acting, TmuxOnlyCall, DestroyedUnlessFailed, Wanted, Stands
<1>2. CASE Visit
  <2>1. /\ UNCHANGED door /\ visits' = visits + 1 /\ visits < MaxVisits
        /\ lasting' \subseteq lasting /\ ~Stands("done")
    BY <1>2 DEF Visit
  <2>2. running' \subseteq Names /\ lasting' \subseteq running'
    BY <1>2 DEF Visit, DoorInv, DoorTypeOK
  <2>3. visits' \in 0..MaxVisits /\ visits' # 0
    <3>1. visits \in 0..MaxVisits /\ MaxVisits \in Nat BY DoorConstants DEF DoorInv, DoorTypeOK
    <3>2. visits' = visits + 1 /\ visits < MaxVisits BY <2>1
    <3>3. QED BY <3>1, <3>2
  <2>4. DoorTypeOK' BY <2>1, <2>2, <2>3 DEF DoorInv, DoorTypeOK
  <2>5. QED
    BY <2>1, <2>3, <2>4
    DEF DoorInv, Acting, TmuxOnlyCall, DestroyedUnlessFailed, Wanted, Stands
<1>3. QED BY <1>1, <1>2, DoorMoves, DoorKills DEF DoorNext

(* When `down --tmux-only` exits with 0, the environment's session that    *)
(* ran all along is gone, with the manifest and without, or a tmux call    *)
(* about it failed; and without the manifest only sessions that end in the *)
(* environment's name went along.                                          *)
THEOREM DestroyTakesOrMisses == DoorSpec => []DestroyedUnlessFailed
<1>1. DoorInit => DoorInv BY DoorStart
<1>2. DoorInv /\ [DoorNext]_doorVars => DoorInv' BY DoorNextStep
<1>3. DoorInv => DestroyedUnlessFailed BY DEF DoorInv
<1>4. QED BY <1>1, <1>2, <1>3, PTL DEF DoorSpec

-----------------------------------------------------------------------------
Active == query.pc \notin {"idle", "done"}

(* The command has its list of panes, or knows that there is no session.   *)
Looking ==
    \/ query.pc \in {"state", "probe", "last"}
    \/ query.pc = "sources" /\ ~query.table

(* Every child lives below a pane that exists; session numbers only grow.  *)
SceneInv ==
    /\ StatusTypeOK
    /\ session <= sessions
    /\ \A s \in Shown : child[s] # "none" => Fits(s)

(* What is true now has been seen since the command began.                 *)
Seen == Active => \A s \in Shown : Now(s) \subseteq query.saw[s]

(* A service without a pane in the list, or with a pane in a session that  *)
(* is another one now, was stopped at some moment.                         *)
Listing ==
    /\ query.at <= sessions
    /\ query.at = 0 => query.listed = {}
    /\ Active /\ ~Looking => query.at = 0
    /\ query.pc = "idle" => query.at = 0
    /\ Looking => \A s \in Shown :
          s \notin query.listed \/ session # query.at => "stopped" \in query.saw[s]

(* A pane that was listed is there, or a session went away.                *)
Losing ==
    /\ Active /\ ~query.down => \A s \in query.listed : Fits(s)
    /\ query.pc = "panes" /\ ~query.down => session # 0
    /\ query.result = "tmux" => query.down

StateTrue ==
    query.pc = "probe" =>
        /\ query.state = "running" => "running" \in query.saw[Row] /\ Row \in query.listed
        /\ query.state # "running" => "stopped" \in query.saw[Row]
        /\ query.table /\ query.state # "missing" => Row \in query.listed

(* The rows are those of the first services, in order.                     *)
Table ==
    /\ Len(query.rows) <= Len(Log)
    /\ \A i \in 1..Len(query.rows) : query.rows[i].of = i
    /\ query.pc \in {"state", "probe"} => Len(query.rows) < Len(Log)
    /\ query.pc = "last" => Len(query.rows) \in query.listed
    /\ query.pc \notin {"state", "probe", "last", "done"} => query.rows = <<>>
    /\ query.result # "none" => query.pc = "done"
    /\ query.result = "ok" => Len(query.rows) = Len(Log)

StatusInv ==
    SceneInv /\ Seen /\ Listing /\ Losing /\ StateTrue /\ Table /\ RowsWereTrue

-----------------------------------------------------------------------------
(* What a step of the scene may do, to itself and to the command.          *)
Kept == UNCHANGED <<query.pc, query.table, query.at, query.listed, query.state,
                    query.rows, query.result>>

Watched ==
    /\ ~Active => UNCHANGED query
    /\ Active => \A s \in Shown : query'.saw[s] = query.saw[s] \union Now(s)'
    /\ query.down => query'.down

SceneMoves ==
    /\ sessions <= sessions'
    /\ session' # session => \/ session' = 0
                             \/ session = 0 /\ session' > sessions
    /\ session' = 0 => \A s \in Shown : child'[s] = "none"
    /\ \A s \in Shown : Fits(s) /\ ~Fits(s)' /\ Active => query'.down
    /\ session # 0 /\ session' = 0 /\ Active => query'.down

LEMMA ShownFacts == Len(Log) \in Nat /\ Len(Log) > 0 /\ Shown = 1..Len(Log)
BY StatusConstants DEF Shown

LEMMA NowFacts ==
    ASSUME NEW s
    PROVE  /\ Now(s) \subseteq {"running", "stopped", "printed", "visible", "old"}
           /\ child[s] = "none" <=> "stopped" \in Now(s)
           /\ child[s] # "none" <=> "running" \in Now(s)
           /\ visible[s] => "visible" \in Now(s)
           /\ child[s] # "none" /\ old[s] => "old" \in Now(s)
BY DEF Now

LEMMA Watching ==
    ASSUME query \in QueryType, NEW gone \in BOOLEAN, Observe(gone)
    PROVE  query' \in QueryType /\ Kept /\ Watched /\ (gone /\ Active => query'.down)
<1>1. CASE query.pc \in {"idle", "done"}
  <2>1. UNCHANGED query BY <1>1 DEF Observe
  <2>2. QED BY <1>1, <2>1 DEF Kept, Watched, Active
<1>2. CASE query.pc \notin {"idle", "done"}
  <2>1. query' = [query EXCEPT !.saw = [s \in Shown |-> query.saw[s] \union Now(s)'],
                               !.down = query.down \/ gone]
    BY <1>2 DEF Observe
  <2>2. \A s \in Shown :
           Now(s)' \subseteq {"running", "stopped", "printed", "visible", "old"}
    BY DEF Now
  <2>3. query'.saw = [s \in Shown |-> query.saw[s] \union Now(s)']
        /\ query'.down = (query.down \/ gone) /\ Kept
    BY <2>1 DEF QueryType, Kept
  <2>4. \A s \in Shown : query.saw[s] \in SUBSET {"running", "stopped", "printed", "visible", "old"}
    BY DEF QueryType
  <2>5. [s \in Shown |-> query.saw[s] \union Now(s)']
           \in [Shown -> SUBSET {"running", "stopped", "printed", "visible", "old"}]
    BY <2>2, <2>4
  <2>6. query' \in QueryType BY <2>1, <2>5 DEF QueryType
  <2>7. QED BY <1>2, <2>3, <2>6 DEF Watched, Active
<1>3. QED BY <1>1, <1>2

(* Every step of the scene keeps its own order.                            *)
LEMMA SceneKeeps ==
    ASSUME SceneInv, SceneStep
    PROVE  SceneInv' /\ Kept /\ Watched /\ SceneMoves
<1>1. query \in QueryType BY DEF SceneInv, StatusTypeOK
<1>2. CASE TmuxUp
  <2>1. query' \in QueryType /\ Kept /\ Watched BY <1>1, <1>2, Watching DEF TmuxUp
  <2>2. /\ session = 0 /\ session' = sessions + 1 /\ sessions' = sessions + 1 /\ built' = {}
        /\ UNCHANGED <<child, old, launched, piped, printed, visible>>
    BY <1>2 DEF TmuxUp
  <2>3. session \in Nat /\ sessions \in Nat BY DEF SceneInv, StatusTypeOK
  <2>4. \A s \in Shown : child[s] = "none" BY <2>2 DEF SceneInv, Fits
  <2>5. StatusTypeOK' BY <2>1, <2>2, <2>3 DEF SceneInv, StatusTypeOK
  <2>6. SceneInv' BY <2>2, <2>3, <2>4, <2>5 DEF SceneInv
  <2>7. SceneMoves BY <2>2, <2>3 DEF SceneMoves, Fits
  <2>8. QED BY <2>1, <2>6, <2>7
<1>3. CASE TmuxDown
  <2>1. query' \in QueryType /\ Kept /\ Watched /\ (Active => query'.down)
    BY <1>1, <1>3, Watching DEF TmuxDown
  <2>2. /\ session' = 0 /\ built' = {} /\ sessions' = sessions
        /\ child' = [s \in Shown |-> "none"]
    BY <1>3 DEF TmuxDown
  <2>3. StatusTypeOK'
    <3>1. sessions \in Nat BY DEF SceneInv, StatusTypeOK
    <3>2. child' \in [Shown -> Child] BY <2>2 DEF Child
    <3>3. printed' \in [Shown -> BOOLEAN] /\ old' \in [Shown -> BOOLEAN]
          /\ piped' \in [Shown -> BOOLEAN]
      BY <1>3 DEF TmuxDown, No
    <3>4. visible' \in [Shown -> BOOLEAN] BY <1>3, Zenon DEF TmuxDown, SceneInv, StatusTypeOK
    <3>5. launched' \in [Shown -> Nat] BY <1>3 DEF TmuxDown, SceneInv, StatusTypeOK
    <3>6. QED BY <2>1, <2>2, <3>1, <3>2, <3>3, <3>4, <3>5 DEF StatusTypeOK
  <2>4. SceneInv' BY <2>2, <2>3 DEF SceneInv, StatusTypeOK
  <2>5. SceneMoves BY <2>1, <2>2 DEF SceneInv, StatusTypeOK, SceneMoves
  <2>6. QED BY <2>1, <2>4, <2>5
<1>4. ASSUME NEW s \in Shown, BuildPane(s)
      PROVE  SceneInv' /\ Kept /\ Watched /\ SceneMoves
  <2>1. query' \in QueryType /\ Kept /\ Watched BY <1>1, <1>4, Watching DEF BuildPane
  <2>2. /\ built' = built \union {s} /\ session # 0
        /\ UNCHANGED <<session, sessions, child, old, launched, piped, printed, visible>>
    BY <1>4 DEF BuildPane
  <2>3. SceneInv' BY <2>1, <2>2 DEF SceneInv, StatusTypeOK, Fits
  <2>4. SceneMoves BY <2>2 DEF SceneInv, StatusTypeOK, SceneMoves, Fits
  <2>5. QED BY <2>1, <2>3, <2>4
<1>5. ASSUME NEW s \in Shown, NEW c \in BOOLEAN, Begin(s, c)
      PROVE  SceneInv' /\ Kept /\ Watched /\ SceneMoves
  <2>1. query' \in QueryType /\ Kept /\ Watched BY <1>1, <1>5, Watching DEF Begin
  <2>2. /\ child' = [child EXCEPT ![s] = "sourcing"] /\ Fits(s)
        /\ UNCHANGED <<session, sessions, built, visible>>
    BY <1>5 DEF Begin
  <2>3. StatusTypeOK'
    <3>1. child' \in [Shown -> Child] BY <2>2 DEF SceneInv, StatusTypeOK, Child
    <3>2. launched' \in [Shown -> Nat] BY <1>5 DEF Begin, SceneInv, StatusTypeOK
    <3>3. piped' \in [Shown -> BOOLEAN] BY <1>5 DEF Begin, SceneInv, StatusTypeOK
    <3>4. printed' \in [Shown -> BOOLEAN] /\ old' \in [Shown -> BOOLEAN]
      BY <1>5 DEF Begin, SceneInv, StatusTypeOK
    <3>5. QED BY <2>1, <2>2, <3>1, <3>2, <3>3, <3>4 DEF SceneInv, StatusTypeOK
  <2>4. \A t \in Shown : child'[t] # "none" => Fits(t)'
    BY <2>2 DEF SceneInv, StatusTypeOK, Fits
  <2>5. SceneInv' BY <2>2, <2>3, <2>4 DEF SceneInv
  <2>6. SceneMoves BY <2>2 DEF SceneInv, StatusTypeOK, SceneMoves, Fits
  <2>7. QED BY <2>1, <2>5, <2>6
<1>6. ASSUME NEW s \in Shown, Serve(s) \/ ChildEnds(s)
      PROVE  SceneInv' /\ Kept /\ Watched /\ SceneMoves
  <2>1. query' \in QueryType /\ Kept /\ Watched BY <1>1, <1>6, Watching DEF Serve, ChildEnds
  <2>2. /\ child[s] # "none" /\ UNCHANGED <<session, sessions, built, launched, piped>>
        /\ \E new \in {"none", "serving"} : child' = [child EXCEPT ![s] = new]
        /\ old' = [old EXCEPT ![s] = FALSE]
    BY <1>6 DEF Serve, ChildEnds
  <2>3. StatusTypeOK'
    <3>1. child' \in [Shown -> Child] BY <2>2 DEF SceneInv, StatusTypeOK, Child
    <3>2. old' \in [Shown -> BOOLEAN] BY <2>2 DEF SceneInv, StatusTypeOK
    <3>3. printed' \in [Shown -> BOOLEAN] BY <1>6 DEF Serve, ChildEnds, SceneInv, StatusTypeOK
    <3>4. visible' \in [Shown -> BOOLEAN]
      <4>1. visible \in [Shown -> BOOLEAN] BY DEF SceneInv, StatusTypeOK
      <4>2. \/ visible' = visible
            \/ visible' = [visible EXCEPT ![s] = visible[s] /\ ~piped[s]]
        BY <1>6 DEF Serve, ChildEnds
      <4>3. QED BY <4>1, <4>2, Zenon
    <3>5. QED BY <2>1, <2>2, <3>1, <3>2, <3>3, <3>4 DEF SceneInv, StatusTypeOK
  <2>4. \A t \in Shown : child'[t] # "none" => Fits(t)'
    BY <2>2 DEF SceneInv, StatusTypeOK, Fits
  <2>5. SceneInv' BY <2>2, <2>3, <2>4 DEF SceneInv
  <2>6. Fits(s) /\ session # 0 BY <2>2 DEF SceneInv, Fits
  <2>7. SceneMoves BY <2>2, <2>6 DEF SceneInv, StatusTypeOK, SceneMoves, Fits
  <2>8. QED BY <2>1, <2>5, <2>7
<1>7. ASSUME NEW s \in Shown, PrintReady(s) \/ ScrollOut(s) \/ Age(s)
      PROVE  SceneInv' /\ Kept /\ Watched /\ SceneMoves
  <2>1. query' \in QueryType /\ Kept /\ Watched
    BY <1>1, <1>7, Watching DEF PrintReady, ScrollOut, Age
  <2>2. UNCHANGED <<session, sessions, built, child, launched, piped>>
    BY <1>7 DEF PrintReady, ScrollOut, Age
  <2>3. StatusTypeOK'
    <3>1. /\ visible \in [Shown -> BOOLEAN] /\ printed \in [Shown -> BOOLEAN]
          /\ old \in [Shown -> BOOLEAN]
      BY DEF SceneInv, StatusTypeOK
    <3>2. printed' \in [Shown -> BOOLEAN] BY <1>7, <3>1, Zenon DEF PrintReady, ScrollOut, Age
    <3>3. old' \in [Shown -> BOOLEAN] BY <1>7, <3>1, Zenon DEF PrintReady, ScrollOut, Age
    <3>4. visible' \in [Shown -> BOOLEAN] BY <1>7, <3>1, Zenon DEF PrintReady, ScrollOut, Age
    <3>5. QED BY <2>1, <2>2, <3>2, <3>3, <3>4 DEF SceneInv, StatusTypeOK
  <2>4. SceneInv' BY <2>2, <2>3 DEF SceneInv, Fits
  <2>5. SceneMoves BY <2>2 DEF SceneInv, StatusTypeOK, SceneMoves, Fits
  <2>6. QED BY <2>1, <2>4, <2>5
<1>8. ASSUME NEW s \in Shown, UpLine(s) \/ RestartLine(s)
      PROVE  \E c \in BOOLEAN : Begin(s, c)
  BY <1>8 DEF UpLine, RestartLine
<1>9. QED BY <1>2, <1>3, <1>4, <1>5, <1>6, <1>7, <1>8 DEF SceneStep

(* The observations only grow while the scene moves.                       *)
LEMMA SceneHolds == ASSUME StatusInv, SceneStep PROVE StatusInv'
<1>1. SceneInv' /\ Kept /\ Watched /\ SceneMoves BY SceneKeeps DEF StatusInv
<1>2. Active' = Active /\ Looking' = Looking /\ Row' = Row
  BY <1>1 DEF Kept, Active, Looking, Row
<1>3. \A s \in Shown : query.saw[s] \subseteq query'.saw[s]
  BY <1>1 DEF Watched
<1>4. Seen' BY <1>1, <1>2 DEF Watched, Seen
<1>5. session \in Nat /\ sessions \in Nat /\ sessions' \in Nat /\ session' \in Nat
      /\ query.at \in Nat
  BY <1>1 DEF StatusInv, SceneInv, StatusTypeOK, QueryType
<1>6. Listing'
  <2>1. query'.at = query.at /\ query'.listed = query.listed /\ query'.pc = query.pc
    BY <1>1 DEF Kept
  <2>2. query.at <= sessions' BY <1>1, <1>5 DEF SceneMoves, StatusInv, Listing
  <2>3. ASSUME Looking, NEW s \in Shown, s \notin query.listed \/ session' # query.at
        PROVE  "stopped" \in query'.saw[s]
    <3>1. CASE s \notin query.listed \/ session # query.at
      BY <1>3, <2>3, <3>1 DEF StatusInv, Listing
    <3>2. CASE s \in query.listed /\ session = query.at
      <4>1. session # 0 /\ session' # session BY <2>3, <3>2 DEF StatusInv, Listing
      <4>2. session' = 0 BY <1>1, <4>1 DEF SceneMoves
      <4>3. child'[s] = "none" BY <1>1, <4>2 DEF SceneMoves
      <4>4. "stopped" \in Now(s)' BY <4>3 DEF Now
      <4>5. Active BY <2>3 DEF Looking, Active
      <4>6. QED BY <1>1, <4>4, <4>5 DEF Watched
    <3>3. QED BY <3>1, <3>2
  <2>4. QED BY <1>2, <2>1, <2>2, <2>3 DEF StatusInv, Listing
<1>7. Losing'
  <2>1. UNCHANGED <<query.pc, query.listed, query.result>> BY <1>1 DEF Kept
  <2>2. ASSUME Active, ~query'.down, NEW s \in query.listed PROVE Fits(s)'
    <3>1. ~query.down BY <1>1, <2>2 DEF Watched
    <3>2. Fits(s) BY <2>2, <3>1 DEF StatusInv, Losing
    <3>3. s \in Shown
      BY <3>2 DEF Fits, StatusInv, SceneInv, StatusTypeOK
    <3>4. QED BY <1>1, <2>2, <3>2, <3>3 DEF SceneMoves
  <2>3. query.pc = "panes" /\ ~query'.down => session' # 0
    <3>1. query.pc = "panes" => Active BY DEF Active
    <3>2. query.down => query'.down BY <1>1 DEF Watched
    <3>3. QED BY <1>1, <3>1, <3>2 DEF SceneMoves, StatusInv, Losing
  <2>4. query.result = "tmux" => query'.down BY <1>1 DEF Watched, StatusInv, Losing
  <2>5. QED BY <1>2, <2>1, <2>2, <2>3, <2>4 DEF Losing
<1>8. StateTrue'
  <2>1. UNCHANGED <<query.pc, query.state, query.listed, query.table>> BY <1>1 DEF Kept
  <2>2. query.pc = "probe" => Row \in Shown
    BY ShownFacts DEF StatusInv, SceneInv, StatusTypeOK, QueryType, Table, Row
  <2>3. QED BY <1>2, <1>3, <2>1, <2>2 DEF StatusInv, StateTrue
<1>9. Table' BY <1>1 DEF Kept, StatusInv, Table
<1>10. RowsWereTrue'
  <2>1. query'.rows = query.rows BY <1>1 DEF Kept
  <2>2. \A i \in 1..Len(query.rows) : query.rows[i].of \in Shown
    BY ShownFacts DEF StatusInv, SceneInv, StatusTypeOK, QueryType, Table
  <2>3. QED BY <1>3, <2>1, <2>2 DEF StatusInv, RowsWereTrue
<1>11. QED BY <1>1, <1>4, <1>6, <1>7, <1>8, <1>9, <1>10 DEF StatusInv

-----------------------------------------------------------------------------
(* The command's own steps change nothing that it looks at.                *)
LEMMA SceneStays ==
    ASSUME SceneInv, UNCHANGED scene, query' \in QueryType
    PROVE  /\ SceneInv' /\ UNCHANGED <<session, sessions, built, child>>
           /\ \A s \in Shown : Now(s)' = Now(s) /\ (Fits(s)' <=> Fits(s))
BY DEF scene, SceneInv, StatusTypeOK, Now, Fits

(* A step that only goes on, with what it has seen and listed.             *)
Goes == UNCHANGED <<query.table, query.rows, query.saw, query.down>>

LEMMA AskHolds == ASSUME StatusInv, AskStatus PROVE StatusInv'
<1>1. query \in QueryType /\ query.pc = "idle" BY DEF StatusInv, SceneInv, StatusTypeOK, AskStatus, Asks
<1>2. PICK t \in BOOLEAN :
         query' = [query EXCEPT !.pc = IF t THEN "sources" ELSE "session",
                                !.table = t, !.saw = [s \in Shown |-> Now(s)]]
  BY DEF AskStatus
<1>3. [s \in Shown |-> Now(s)]
         \in [Shown -> SUBSET {"running", "stopped", "printed", "visible", "old"}]
  BY NowFacts
<1>4. query' \in QueryType BY <1>1, <1>2, <1>3 DEF QueryType
<1>5. /\ query'.pc = IF t THEN "sources" ELSE "session"
      /\ query'.table = t /\ query'.saw = [s \in Shown |-> Now(s)]
      /\ UNCHANGED <<query.at, query.listed, query.state, query.rows, query.result, query.down>>
  BY <1>1, <1>2 DEF QueryType
<1>6. /\ SceneInv' /\ UNCHANGED <<session, sessions, built, child>>
      /\ \A s \in Shown : Now(s)' = Now(s) /\ (Fits(s)' <=> Fits(s))
  BY <1>4, SceneStays DEF StatusInv, AskStatus
<1>7. query.rows = <<>> /\ query.at = 0 /\ query.listed = {} /\ query.result = "none"
  BY <1>1 DEF StatusInv, Table, Listing, Losing
<1>8. Seen' BY <1>5, <1>6 DEF Seen
<1>9. Listing' BY <1>5, <1>6, <1>7 DEF Listing, Active, Looking, StatusInv
<1>10. Losing' BY <1>5, <1>7 DEF Losing
<1>11. StateTrue' BY <1>5 DEF StateTrue
<1>12. Table' BY <1>5, <1>7, ShownFacts DEF Table
<1>13. RowsWereTrue' BY <1>5, <1>7 DEF RowsWereTrue
<1>14. QED BY <1>6, <1>8, <1>9, <1>10, <1>11, <1>12, <1>13 DEF StatusInv

LEMMA SessionHolds == ASSUME StatusInv, HasSession PROVE StatusInv'
<1>1. query \in QueryType /\ query.pc = "session"
  BY DEF StatusInv, SceneInv, StatusTypeOK, HasSession, Asks
<1>2. \/ session # 0 /\ query' = [query EXCEPT !.pc = "panes"]
      \/ session = 0 /\ query.table /\ query' = [query EXCEPT !.pc = "done", !.result = "absent"]
      \/ session = 0 /\ ~query.table /\ query' = [query EXCEPT !.pc = "sources"]
  BY DEF HasSession, Answer
<1>3. query' \in QueryType BY <1>1, <1>2, ZenonT(40) DEF QueryType
<1>4. /\ UNCHANGED <<query.at, query.listed, query.state>> /\ Goes
      /\ \/ session # 0 /\ query'.pc = "panes" /\ query'.result = query.result
         \/ query'.pc = "done" /\ query'.result = "absent"
         \/ session = 0 /\ ~query.table /\ query'.pc = "sources" /\ query'.result = query.result
  BY <1>1, <1>2, ZenonT(40) DEF QueryType, Goes
<1>5. /\ SceneInv' /\ UNCHANGED <<session, sessions, built, child>>
      /\ \A s \in Shown : Now(s)' = Now(s) /\ (Fits(s)' <=> Fits(s))
  BY <1>3, SceneStays DEF StatusInv, HasSession
<1>6. query.rows = <<>> /\ query.at = 0 /\ query.listed = {} /\ query.result = "none"
  BY <1>1 DEF StatusInv, Table, Listing, Losing, Active, Looking
<1>7. Seen' BY <1>1, <1>4, <1>5 DEF StatusInv, Seen, Active, Goes
<1>8. Listing'
  <2>1. ASSUME session = 0, NEW s \in Shown PROVE "stopped" \in query.saw[s]
    <3>1. child[s] = "none" BY <2>1 DEF StatusInv, SceneInv, Fits
    <3>2. "stopped" \in Now(s) BY <3>1 DEF Now
    <3>3. QED BY <1>1, <3>2 DEF StatusInv, Seen, Active
  <2>2. QED BY <1>4, <1>5, <1>6, <2>1 DEF Listing, Active, Looking, Goes, StatusInv
<1>9. Losing' BY <1>4, <1>5, <1>6 DEF Losing, Goes
<1>10. StateTrue' BY <1>4 DEF StateTrue
<1>11. Table' BY <1>4, <1>6, ShownFacts DEF Table, Goes
<1>12. RowsWereTrue' BY <1>4, <1>6 DEF RowsWereTrue, Goes
<1>13. QED BY <1>5, <1>7, <1>8, <1>9, <1>10, <1>11, <1>12 DEF StatusInv

LEMMA PanesHolds == ASSUME StatusInv, ListPanes PROVE StatusInv'
<1>1. query \in QueryType /\ query.pc = "panes" /\ session \in Nat /\ session <= sessions
      /\ built \subseteq Shown
  BY DEF StatusInv, SceneInv, StatusTypeOK, ListPanes, Asks
<1>2. \/ session = 0 /\ query' = [query EXCEPT !.pc = "done", !.result = "tmux"]
      \/ /\ session # 0
         /\ query' = [query EXCEPT !.pc = IF query.table THEN "state" ELSE "sources",
                                   !.at = session, !.listed = built]
  BY DEF ListPanes, Answer
<1>3. query' \in QueryType BY <1>1, <1>2, ZenonT(40) DEF QueryType
<1>4. /\ query'.state = query.state /\ Goes
      /\ \/ /\ session = 0 /\ query'.pc = "done" /\ query'.result = "tmux"
            /\ UNCHANGED <<query.at, query.listed>>
         \/ /\ session # 0 /\ query'.pc = IF query.table THEN "state" ELSE "sources"
            /\ query'.at = session /\ query'.listed = built /\ query'.result = query.result
  BY <1>1, <1>2, ZenonT(40) DEF QueryType, Goes
<1>5. /\ SceneInv' /\ UNCHANGED <<session, sessions, built, child>>
      /\ \A s \in Shown : Now(s)' = Now(s) /\ (Fits(s)' <=> Fits(s))
  BY <1>3, SceneStays DEF StatusInv, ListPanes
<1>6. query.rows = <<>> /\ query.at = 0 /\ query.listed = {} /\ query.result = "none"
  BY <1>1 DEF StatusInv, Table, Listing, Losing, Active, Looking
<1>7. Seen' BY <1>1, <1>4, <1>5 DEF StatusInv, Seen, Active, Goes
<1>8. Listing'
  <2>1. ASSUME NEW s \in Shown, s \notin built PROVE "stopped" \in query.saw[s]
    <3>1. child[s] = "none" BY <2>1 DEF StatusInv, SceneInv, Fits
    <3>2. "stopped" \in Now(s) BY <3>1 DEF Now
    <3>3. QED BY <1>1, <3>2 DEF StatusInv, Seen, Active
  <2>2. QED BY <1>1, <1>4, <1>5, <1>6, <2>1 DEF Listing, Active, Looking, Goes, StatusInv
<1>9. Losing'
  <2>1. session = 0 => query.down BY <1>1 DEF StatusInv, Losing
  <2>2. QED BY <1>1, <1>4, <1>5, <1>6, <2>1 DEF Losing, Goes, Active, Fits
<1>10. StateTrue' BY <1>4 DEF StateTrue
<1>11. Table' BY <1>4, <1>6, ShownFacts DEF Table, Goes
<1>12. RowsWereTrue' BY <1>4, <1>6 DEF RowsWereTrue, Goes
<1>13. QED BY <1>5, <1>7, <1>8, <1>9, <1>10, <1>11, <1>12 DEF StatusInv

LEMMA SourcesHolds == ASSUME StatusInv, ReadSources PROVE StatusInv'
<1>1. query \in QueryType /\ query.pc = "sources"
  BY DEF StatusInv, SceneInv, StatusTypeOK, ReadSources, Asks
<1>2. \/ query' = [query EXCEPT !.pc = "done", !.result = "sources"]
      \/ query' = [query EXCEPT !.pc = IF query.table THEN "session" ELSE "state"]
  BY DEF ReadSources, Answer
<1>3. query' \in QueryType BY <1>1, <1>2, ZenonT(40) DEF QueryType
<1>4. /\ UNCHANGED <<query.at, query.listed, query.state>> /\ Goes
      /\ \/ query'.pc = "done" /\ query'.result = "sources"
         \/ /\ query'.pc = IF query.table THEN "session" ELSE "state"
            /\ query'.result = query.result
  BY <1>1, <1>2, ZenonT(40) DEF QueryType, Goes
<1>5. /\ SceneInv' /\ UNCHANGED <<session, sessions, built, child>>
      /\ \A s \in Shown : Now(s)' = Now(s) /\ (Fits(s)' <=> Fits(s))
  BY <1>3, SceneStays DEF StatusInv, ReadSources
<1>6. query.rows = <<>> /\ query.result = "none" BY <1>1 DEF StatusInv, Table
<1>7. Seen' BY <1>1, <1>4, <1>5 DEF StatusInv, Seen, Active, Goes
<1>8. Listing' BY <1>1, <1>4, <1>5 DEF StatusInv, Listing, Active, Looking, Goes
<1>9. query'.listed \subseteq Shown BY <1>3 DEF QueryType
<1>10. Losing' BY <1>1, <1>4, <1>5, <1>6, <1>9 DEF StatusInv, Losing, Active, Goes
<1>11. StateTrue' BY <1>4 DEF StateTrue
<1>12. Table' BY <1>4, <1>6, ShownFacts DEF Table, Goes
<1>13. RowsWereTrue' BY <1>4, <1>6 DEF RowsWereTrue, Goes
<1>14. QED BY <1>5, <1>7, <1>8, <1>10, <1>11, <1>12, <1>13 DEF StatusInv

LEMMA StateHolds == ASSUME StatusInv, ReadState PROVE StatusInv'
<1>1. query \in QueryType /\ query.pc = "state"
  BY DEF StatusInv, SceneInv, StatusTypeOK, ReadState, Asks
<1> DEFINE state == IF HasChild(Row) THEN "running"
                    ELSE IF query.table /\ Row \notin query.listed THEN "missing"
                    ELSE "stopped"
<1>2. query' = [query EXCEPT !.pc = "probe", !.state = state] BY DEF ReadState
<1>3. query' \in QueryType BY <1>1, <1>2 DEF QueryType
<1>4. /\ UNCHANGED <<query.at, query.listed, query.result>> /\ Goes
      /\ query'.pc = "probe" /\ query'.state = state
  BY <1>1, <1>2 DEF QueryType, Goes
<1>5. /\ SceneInv' /\ UNCHANGED <<session, sessions, built, child>>
      /\ \A s \in Shown : Now(s)' = Now(s) /\ (Fits(s)' <=> Fits(s))
  BY <1>3, SceneStays DEF StatusInv, ReadState
<1>6. Row \in Shown /\ Row' = Row
  <2>1. Len(query.rows) \in Nat BY <1>1 DEF QueryType
  <2>2. QED BY <1>1, <1>4, <2>1, ShownFacts DEF StatusInv, Table, Row, Goes
<1>7. Seen' BY <1>1, <1>4, <1>5 DEF StatusInv, Seen, Active, Goes
<1>8. Listing' BY <1>1, <1>4, <1>5 DEF StatusInv, Listing, Active, Looking, Goes
<1>9. query.listed \subseteq Shown BY <1>1 DEF QueryType
<1>10. Losing' BY <1>1, <1>4, <1>5, <1>9 DEF StatusInv, Losing, Active, Goes
<1>11. StateTrue'
  <2>1. Now(Row) \subseteq query.saw[Row] BY <1>1, <1>6 DEF StatusInv, Seen, Active
  <2>2. HasChild(Row) => "running" \in query.saw[Row] /\ Row \in query.listed
    BY <2>1 DEF HasChild, ListedShell, Now
  <2>3. ~HasChild(Row) => "stopped" \in query.saw[Row]
    <3>1. child[Row] = "none" => "stopped" \in query.saw[Row] BY <2>1 DEF Now
    <3>2. ~ListedShell(Row) => "stopped" \in query.saw[Row]
      BY <1>1, <1>6 DEF StatusInv, Listing, Looking, ListedShell
    <3>3. QED BY <3>1, <3>2 DEF HasChild
  <2>4. QED BY <1>4, <1>6, <2>2, <2>3 DEF StateTrue, Goes
<1>12. Table' BY <1>1, <1>4 DEF StatusInv, Table, Goes
<1>13. RowsWereTrue' BY <1>4 DEF StatusInv, RowsWereTrue, Goes
<1>14. QED BY <1>5, <1>7, <1>8, <1>10, <1>11, <1>12, <1>13 DEF StatusInv

(* A new row that is true keeps the answer true.                           *)
LEMMA TellHolds ==
    ASSUME StatusInv, UNCHANGED scene, query.pc = "probe",
           NEW health \in {"healthy", "unhealthy", "unknown"}, Tell(health),
           health = "healthy" =>
              /\ query.state = "running"
              /\ Probe[Row] = "log" => "visible" \in query.saw[Row]
              /\ Probe[Row] = "uptime" => "old" \in query.saw[Row]
    PROVE  StatusInv'
<1> DEFINE row == [of |-> Row, state |-> query.state, health |-> health]
           rows == Append(query.rows, row)
           next == IF query.table /\ query.state # "missing" THEN "last" ELSE NextRow(rows)
<1>1. query \in QueryType /\ query.rows \in Seq(Rows) /\ Len(query.rows) \in Nat
      /\ query.state \in {"running", "stopped", "missing"}
  BY DEF StatusInv, SceneInv, StatusTypeOK, QueryType
<1>2. Len(query.rows) < Len(Log) /\ Row = Len(query.rows) + 1 /\ Row \in Shown
  BY <1>1, ShownFacts DEF StatusInv, Table, Row
<1>3. row \in Rows BY <1>1, <1>2 DEF Rows
<1>4. /\ rows \in Seq(Rows) /\ Len(rows) = Row /\ rows[Row] = row
      /\ \A i \in 1..Len(query.rows) : rows[i] = query.rows[i]
  BY <1>1, <1>2, <1>3
<1>5. query' = [query EXCEPT !.rows = rows, !.pc = next,
                             !.result = IF next = "done" THEN "ok" ELSE query.result]
  BY DEF Tell
<1>6. next \in {"last", "done", "state"} BY DEF NextRow
<1>7. next = "last" => query.table /\ query.state # "missing" BY DEF NextRow
<1>8. next = "done" => Len(rows) = Len(Log) BY DEF NextRow
<1>9. next = "state" => Len(rows) # Len(Log) BY DEF NextRow
<1> HIDE DEF rows, next
<1>10. query' \in QueryType BY <1>1, <1>4, <1>5, <1>6 DEF QueryType
<1>11. /\ query'.rows = rows /\ query'.pc = next
       /\ query'.result = IF next = "done" THEN "ok" ELSE query.result
       /\ UNCHANGED <<query.table, query.at, query.listed, query.state, query.saw, query.down>>
  BY <1>1, <1>5 DEF QueryType
<1>12. /\ SceneInv' /\ UNCHANGED <<session, sessions, built, child>>
       /\ \A s \in Shown : Now(s)' = Now(s) /\ (Fits(s)' <=> Fits(s))
  BY <1>10, SceneStays DEF StatusInv
<1>13. query.result = "none" BY DEF StatusInv, Table
<1>14. Active /\ Looking BY DEF Active, Looking
<1>15. Seen' BY <1>11, <1>12, <1>14 DEF StatusInv, Seen
<1>16. Listing' BY <1>6, <1>11, <1>12, <1>14 DEF StatusInv, Listing, Active, Looking
<1>17. Losing'
  <2>1. query.listed \subseteq Shown BY <1>1 DEF QueryType
  <2>2. QED BY <1>6, <1>11, <1>12, <1>13, <1>14, <2>1 DEF StatusInv, Losing
<1>18. StateTrue' BY <1>6, <1>11 DEF StateTrue
<1>19. Table'
  <2>1. next = "last" => Len(rows) \in query.listed
    BY <1>4, <1>7 DEF StatusInv, StateTrue
  <2>2. \A i \in 1..Len(rows) : rows[i].of = i
    <3>1. \A i \in 1..Len(query.rows) : rows[i].of = i BY <1>4 DEF StatusInv, Table
    <3>2. rows[Row].of = Row BY <1>4
    <3>3. QED BY <1>1, <1>2, <1>4, <3>1, <3>2
  <2>3. Len(rows) <= Len(Log) /\ (next = "state" => Len(rows) < Len(Log))
    BY <1>1, <1>2, <1>4, <1>9, ShownFacts
  <2>4. QED BY <1>6, <1>8, <1>11, <1>13, <2>1, <2>2, <2>3 DEF Table
<1>20. RowsWereTrue'
  <2>1. SUFFICES ASSUME NEW i \in 1..Len(rows)
                 PROVE  /\ IF rows[i].state = "running" THEN "running" \in query.saw[rows[i].of]
                           ELSE "stopped" \in query.saw[rows[i].of]
                        /\ rows[i].health = "healthy" /\ Probe[rows[i].of] = "log"
                              => "visible" \in query.saw[rows[i].of]
                        /\ rows[i].health = "healthy" /\ Probe[rows[i].of] = "uptime"
                              => "old" \in query.saw[rows[i].of]
                        /\ DependencyReady(rows[i]) => "running" \in query.saw[rows[i].of]
    BY <1>11 DEF RowsWereTrue
  <2>2. CASE i \in 1..Len(query.rows) BY <1>4, <2>2 DEF StatusInv, RowsWereTrue
  <2>3. CASE i = Row
    <3>1. rows[i].state = query.state /\ rows[i].of = Row /\ rows[i].health = health
      BY <1>4, <2>3
    <3>2. IF query.state = "running" THEN "running" \in query.saw[Row]
          ELSE "stopped" \in query.saw[Row]
      BY DEF StatusInv, StateTrue
    <3>3. QED BY <3>1, <3>2 DEF DependencyReady
  <2>4. QED BY <1>1, <1>2, <1>4, <2>1, <2>2, <2>3
<1>21. QED BY <1>12, <1>15, <1>16, <1>17, <1>18, <1>19, <1>20 DEF StatusInv

(* A capture that fails: the pane was listed, so a session went away.      *)
LEMMA FailHolds ==
    ASSUME StatusInv, UNCHANGED scene, query.pc \in {"probe", "last"}, Answer("tmux"),
           NEW s \in query.listed, ~Fits(s)
    PROVE  StatusInv'
<1>1. query \in QueryType BY DEF StatusInv, SceneInv, StatusTypeOK
<1>2. query' = [query EXCEPT !.pc = "done", !.result = "tmux"] BY DEF Answer
<1>3. query' \in QueryType BY <1>1, <1>2 DEF QueryType
<1>4. /\ query'.pc = "done" /\ query'.result = "tmux" /\ Goes
      /\ UNCHANGED <<query.at, query.listed, query.state>>
  BY <1>1, <1>2 DEF QueryType, Goes
<1>5. SceneInv' /\ UNCHANGED <<session, sessions, built, child>>
  BY <1>3, SceneStays DEF StatusInv
<1>6. query.down BY DEF StatusInv, Losing, Active
<1>7. Seen' BY <1>4 DEF Seen, Active
<1>8. Listing' BY <1>4, <1>5 DEF StatusInv, Listing, Active, Looking
<1>9. Losing' BY <1>4, <1>6 DEF Losing, Active, Goes
<1>10. StateTrue' BY <1>4 DEF StateTrue
<1>11. Table' BY <1>4 DEF StatusInv, Table, Goes
<1>12. RowsWereTrue' BY <1>4 DEF StatusInv, RowsWereTrue, Goes
<1>13. QED BY <1>5, <1>7, <1>8, <1>9, <1>10, <1>11, <1>12 DEF StatusInv

LEMMA ProbeHolds == ASSUME StatusInv, RunProbe PROVE StatusInv'
<1>1. query \in QueryType /\ query.pc = "probe" /\ UNCHANGED scene
  BY DEF StatusInv, SceneInv, StatusTypeOK, RunProbe, Asks
<1>2. Row \in Shown
  <2>1. Len(query.rows) \in Nat BY <1>1 DEF QueryType
  <2>2. QED BY <1>1, <2>1, ShownFacts DEF StatusInv, Table, Row
<1>3. Now(Row) \subseteq query.saw[Row] BY <1>1, <1>2 DEF StatusInv, Seen, Active
<1>4. query.state = "running" => Row \in query.listed BY <1>1 DEF StatusInv, StateTrue
<1>5. CASE Probe[Row] = "none" /\ Tell("unknown") BY <1>1, <1>5, TellHolds
<1>6. CASE Probe[Row] # "none" /\ query.state # "running" /\ Tell("unhealthy")
  BY <1>1, <1>6, TellHolds
<1>7. CASE /\ Probe[Row] = "log" /\ query.state = "running"
           /\ IF Log[Row] = "pane" /\ ~Fits(Row) THEN Answer("tmux")
              ELSE Tell(IF visible[Row] THEN "healthy" ELSE "unhealthy")
  <2>1. CASE Log[Row] = "pane" /\ ~Fits(Row) BY <1>1, <1>4, <1>7, <2>1, FailHolds
  <2>2. CASE ~(Log[Row] = "pane" /\ ~Fits(Row)) /\ visible[Row]
    <3>1. Tell("healthy") BY <1>7, <2>2
    <3>2. "visible" \in query.saw[Row] BY <1>3, <2>2 DEF Now
    <3>3. QED BY <1>1, <1>7, <3>1, <3>2, TellHolds
  <2>3. CASE ~(Log[Row] = "pane" /\ ~Fits(Row)) /\ ~visible[Row]
    <3>1. Tell("unhealthy") BY <1>7, <2>3
    <3>2. QED BY <1>1, <3>1, TellHolds
  <2>4. QED BY <2>1, <2>2, <2>3
<1>8. CASE /\ Probe[Row] = "uptime" /\ query.state = "running"
           /\ Tell(IF HasChild(Row) /\ old[Row] THEN "healthy" ELSE "unhealthy")
  <2>1. CASE HasChild(Row) /\ old[Row]
    <3>1. Tell("healthy") BY <1>8, <2>1
    <3>2. "old" \in query.saw[Row] BY <1>3, <2>1 DEF Now, HasChild
    <3>3. QED BY <1>1, <1>8, <3>1, <3>2, TellHolds
  <2>2. CASE ~(HasChild(Row) /\ old[Row])
    <3>1. Tell("unhealthy") BY <1>8, <2>2
    <3>2. QED BY <1>1, <3>1, TellHolds
  <2>3. QED BY <2>1, <2>2
<1>9. CASE /\ Probe[Row] = "cmd" /\ query.state = "running"
           /\ Tell("healthy") \/ Tell("unhealthy")
  BY <1>1, <1>9, TellHolds
<1>10. QED BY <1>5, <1>6, <1>7, <1>8, <1>9 DEF RunProbe

LEMMA LastHolds == ASSUME StatusInv, LastLine PROVE StatusInv'
<1>1. query \in QueryType /\ query.pc = "last" /\ UNCHANGED scene
  BY DEF StatusInv, SceneInv, StatusTypeOK, LastLine, Asks
<1> DEFINE s == Len(query.rows)
<1>2. s \in query.listed BY <1>1 DEF StatusInv, Table
<1>3. CASE ~Fits(s) /\ Answer("tmux") BY <1>1, <1>2, <1>3, FailHolds
<1>4. CASE query' = [query EXCEPT !.pc = NextRow(query.rows),
                        !.result = IF NextRow(query.rows) = "done" THEN "ok" ELSE query.result]
  <2> DEFINE next == NextRow(query.rows)
  <2>1. next \in {"done", "state"} /\ (next = "done" <=> Len(query.rows) = Len(Log))
    BY DEF NextRow
  <2> HIDE DEF next
  <2>2. query' \in QueryType BY <1>1, <1>4, <2>1 DEF QueryType, next
  <2>3. /\ query'.pc = next /\ Goes
        /\ query'.result = IF next = "done" THEN "ok" ELSE query.result
        /\ UNCHANGED <<query.at, query.listed, query.state>>
    BY <1>1, <1>4 DEF QueryType, Goes, next
  <2>4. /\ SceneInv' /\ UNCHANGED <<session, sessions, built, child>>
        /\ \A t \in Shown : Now(t)' = Now(t) /\ (Fits(t)' <=> Fits(t))
    BY <1>1, <2>2, SceneStays DEF StatusInv
  <2>5. query.listed \subseteq Shown /\ Len(query.rows) \in Nat BY <1>1 DEF QueryType
  <2>6. query.result = "none" BY <1>1 DEF StatusInv, Table
  <2>7. Seen' BY <1>1, <2>1, <2>3, <2>4 DEF StatusInv, Seen, Active, Goes
  <2>8. Listing' BY <1>1, <2>1, <2>3, <2>4 DEF StatusInv, Listing, Active, Looking, Goes
  <2>9. Losing' BY <1>1, <2>1, <2>3, <2>4, <2>5, <2>6 DEF StatusInv, Losing, Active, Goes
  <2>10. StateTrue' BY <2>1, <2>3 DEF StateTrue
  <2>11. Table' BY <1>1, <2>1, <2>3, <2>5, <2>6, ShownFacts DEF StatusInv, Table, Goes
  <2>12. RowsWereTrue' BY <2>3 DEF StatusInv, RowsWereTrue, Goes
  <2>13. QED BY <2>4, <2>7, <2>8, <2>9, <2>10, <2>11, <2>12 DEF StatusInv
<1>5. QED BY <1>3, <1>4 DEF LastLine

LEMMA StatusStart == ASSUME StatusInit PROVE StatusInv
<1>1. /\ query.pc = "idle" /\ query.rows = <<>> /\ query.at = 0 /\ query.listed = {}
      /\ query.result = "none"
  BY DEF StatusInit
<1>2. query \in QueryType
  <2>1. <<>> \in Seq(Rows) /\ [s \in Shown |-> {}]
           \in [Shown -> SUBSET {"running", "stopped", "printed", "visible", "old"}]
    OBVIOUS
  <2>2. QED BY <2>1 DEF StatusInit, QueryType
<1>3. StatusTypeOK BY <1>2 DEF StatusInit, StatusTypeOK, Child, No
<1>4. SceneInv BY <1>3 DEF StatusInit, SceneInv
<1>5. 0 <= sessions BY DEF StatusInit
<1>6. QED
  BY <1>1, <1>4, <1>5, ShownFacts
  DEF StatusInv, Seen, Listing, Losing, StateTrue, Table, RowsWereTrue, Active, Looking

LEMMA StatusNextHolds ==
    ASSUME StatusInv, [SceneStep \/ StatusStep]_statusVars PROVE StatusInv'
<1>1. CASE UNCHANGED statusVars
  <2>1. UNCHANGED query /\ UNCHANGED scene BY <1>1 DEF statusVars
  <2>2. query' \in QueryType BY <2>1 DEF StatusInv, SceneInv, StatusTypeOK
  <2>3. /\ SceneInv' /\ UNCHANGED <<session, sessions, built, child>>
        /\ \A s \in Shown : Now(s)' = Now(s) /\ (Fits(s)' <=> Fits(s))
    BY <2>1, <2>2, SceneStays DEF StatusInv
  <2>4. query.listed \subseteq Shown BY <2>1, <2>2 DEF QueryType
  <2>5. Seen' BY <2>1, <2>3 DEF StatusInv, Seen, Active
  <2>6. Listing' BY <2>1, <2>3 DEF StatusInv, Listing, Active, Looking
  <2>7. Losing' BY <2>1, <2>3, <2>4 DEF StatusInv, Losing, Active
  <2>8. StateTrue' BY <2>1 DEF StatusInv, StateTrue, Row
  <2>9. Table' BY <2>1 DEF StatusInv, Table
  <2>10. RowsWereTrue' BY <2>1 DEF StatusInv, RowsWereTrue
  <2>11. QED BY <2>3, <2>5, <2>6, <2>7, <2>8, <2>9, <2>10 DEF StatusInv
<1>2. QED
  BY <1>1, SceneHolds, AskHolds, SessionHolds, PanesHolds, SourcesHolds, StateHolds,
     ProbeHolds, LastHolds
  DEF StatusStep

(* Each row says what was true of its service at some moment of the        *)
(* command, so a dependency that lets its dependents start was running.    *)
THEOREM RowsTellTheTruth == StatusSpec => []RowsWereTrue
<1>1. StatusInit => StatusInv BY StatusStart
<1>2. StatusInv /\ [SceneStep \/ StatusStep]_statusVars => StatusInv' BY StatusNextHolds
<1>3. StatusInv => RowsWereTrue BY DEF StatusInv
<1>4. QED BY <1>1, <1>2, <1>3, PTL DEF StatusSpec

(* A status fails for tmux's sake only if a session went away meanwhile;   *)
(* an answer has a row for every service, in declared order.               *)
THEOREM FailureHasACause == StatusSpec => []FailsOnlyOnLoss
<1>1. StatusInit => StatusInv BY StatusStart
<1>2. StatusInv /\ [SceneStep \/ StatusStep]_statusVars => StatusInv' BY StatusNextHolds
<1>3. StatusInv => FailsOnlyOnLoss
  <2>1. SUFFICES ASSUME StatusInv, query.result = "ok", NEW i \in Shown
                 PROVE  query.rows[i].of = i
    BY DEF StatusInv, Losing, Table, FailsOnlyOnLoss
  <2>2. QED BY <2>1, ShownFacts DEF StatusInv, Table
<1>4. QED BY <1>1, <1>2, <1>3, PTL DEF StatusSpec

===============================================================================
