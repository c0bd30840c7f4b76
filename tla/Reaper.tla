------------------------------- MODULE Reaper -------------------------------
(***************************************************************************)
(* reap_descendants (pgrep_process_reaper.py), which `down`, `restart` and *)
(* the retry of `up` call with the pane shells of the services they stop:  *)
(* walk the process tree below each shell with one `pgrep -P` per process, *)
(* SIGTERM what was found, wait a second, walk again, SIGKILL.  A step is  *)
(* one call; processes fork and exit between any two of them.              *)
(*                                                                         *)
(* Processes are numbered in the order of their births and no number comes *)
(* back while a reap runs.  A process whose parent exits becomes a child   *)
(* of process 0, which adopts orphans.  An exited process is collected by  *)
(* its parent at once.  What else stops a process, another reap or the     *)
(* death of the session, is an exit like any other.                        *)
(***************************************************************************)
EXTENDS Integers, Sequences, FiniteSets

CONSTANTS
    MaxPid,    \* BOUND: processes that ever exist
    Roots,     \* root_pids: the pane shells
    Guarded    \* processes of another user: to signal them is not permitted

Pids == 1..MaxPid
Shells == {Roots[i] : i \in 1..Len(Roots)}

Adopter == 0
Gone == -1    \* the parent of what is no process (any more, or yet)

ASSUME ReaperConstants ==
    /\ MaxPid \in Nat
    /\ Roots \in Seq(Pids) /\ Roots # <<>>
    /\ Guarded \subseteq Pids

VARIABLES
    parent,    \* the process table
    born,      \* the last number given to a process
    doomed,    \* processes that got SIGKILL and are not gone yet
    pc, pass,  \* where the reap is, and in which of its two rounds
    stack,     \* the frames of _collect and of the loop over root_pids
    list,      \* first_pass or second_pass, from the next one to signal on
    sent,      \* those of this round's list that were signalled
    termed,    \* processes that got SIGTERM
    first,     \* what descended from the shells when the reap began
    stayed,    \* what descends from them and did when the walk began
    lineage,   \* what descended from them then, and all born of it since
    late       \* what the processes of the first list fork before the second walk

table == <<parent, born, doomed, stayed, lineage, late>>
calls == <<pc, pass, stack, list, sent, termed>>
reapVars == <<parent, born, doomed, pc, pass, stack, list, sent, termed,
              first, stayed, lineage, late>>

Children(p) == {c \in Pids : parent[c] = p}
Alive == {p \in Pids : parent[p] # Gone}

(* What descends from the shells: the least set closed under children.     *)
Closed(S) == \A c \in Pids : parent[c] \in Shells \/ parent[c] \in S => c \in S
Tree == {c \in Pids : \A S \in SUBSET Pids : c \in S \/ ~Closed(S)}

(* What is left of a round's list.                                         *)
Listed == {list[i] : i \in 1..Len(list)}

Frame == [pid : Pids, asked : BOOLEAN]

ReaperTypeOK ==
    /\ parent \in [Pids -> Pids \union {Adopter, Gone}]
    /\ born \in 0..MaxPid
    /\ doomed \subseteq Pids /\ sent \subseteq Pids /\ termed \subseteq Pids
    /\ first \subseteq Pids /\ stayed \subseteq Pids /\ lineage \subseteq Pids
    /\ late \subseteq Pids
    /\ pc \in {"walk", "term", "sleep", "kill", "done"}
    /\ pass \in {1, 2}
    /\ stack \in Seq(Frame)
    /\ list \in Seq(Pids)

(* Parents are older, the shells are nobody's children here (tmux's own).  *)
WellFormed ==
    /\ \A c \in Pids : parent[c] \in Pids => parent[c] < c
    /\ \A c \in Pids : c > born => parent[c] = Gone
    /\ \A r \in Shells : parent[r] \in {Adopter, Gone}

(* Mutation of Walks: the walk starts at the first shell only.             *)
WalksFirstOnly == << [pid |-> Roots[1], asked |-> FALSE] >>

(* `for root in root_pids: ... descendants(root)`.                         *)
Walks == [i \in 1..Len(Roots) |-> [pid |-> Roots[i], asked |-> FALSE]]

ReaperInit ==
    /\ parent \in [Pids -> Pids \union {Adopter, Gone}]
    /\ born \in 0..MaxPid
    /\ WellFormed
    /\ Shells \subseteq 1..born
    /\ \A p \in 1..born : parent[p] \in Pids => parent[parent[p]] # Gone
    /\ doomed = {} /\ sent = {} /\ termed = {}
    /\ pc = "walk" /\ pass = 1 /\ stack = Walks /\ list = <<>>
    /\ first = Tree /\ stayed = Tree /\ lineage = Tree /\ late = {}

-----------------------------------------------------------------------------
(* The processes.                                                          *)

Fork(p) ==
    /\ p \in Alive \ doomed /\ born < MaxPid
    /\ born' = born + 1
    /\ parent' = [parent EXCEPT ![born + 1] = p]
    /\ lineage' = IF p \in Shells \union lineage THEN lineage \union {born + 1}
                  ELSE lineage
    /\ late' = IF pc \in {"term", "sleep"} /\ p \in Listed \union sent
               THEN late \union {born + 1} ELSE late
    /\ stayed' = stayed \intersect Tree'
    /\ UNCHANGED <<doomed, first, calls>>

Exit(p) ==
    /\ p \in Alive
    /\ parent' = [c \in Pids |-> IF c = p THEN Gone
                                 ELSE IF parent[c] = p THEN Adopter ELSE parent[c]]
    /\ doomed' = doomed \ {p}
    /\ stayed' = stayed \intersect Tree'
    /\ UNCHANGED <<born, first, lineage, late, calls>>

-----------------------------------------------------------------------------
(* The reap.                                                               *)

(* pgrep lists every child, in some order.                                 *)
Orders(S) == {l \in [1..Cardinality(S) -> S] : \A c \in S : \E i \in DOMAIN l : l[i] = c}

(* The calls of _collect that one call makes, before its own end.          *)
Push(kids, p) == [i \in 1..Len(kids) |-> [pid |-> kids[i], asked |-> FALSE]]

(* _collect: ask for the children, then handle each of them.               *)
Ask ==
    /\ pc = "walk" /\ stack # <<>> /\ ~Head(stack).asked
    /\ LET p == Head(stack).pid
       IN  \E kids \in Orders(Children(p)) :
              stack' = Push(kids, p) \o <<[pid |-> p, asked |-> TRUE]>> \o Tail(stack)
    /\ UNCHANGED <<table, first, pc, pass, list, sent, termed>>

(* Mutation of Return: the shells are collected with the rest.             *)
ReturnAll ==
    /\ pc = "walk" /\ stack # <<>> /\ Head(stack).asked
    /\ stack' = Tail(stack)
    /\ list' = Append(list, Head(stack).pid)
    /\ UNCHANGED <<table, first, pc, pass, sent, termed>>

(* _collect ends: the process comes after its children, the root nowhere.  *)
Return ==
    /\ pc = "walk" /\ stack # <<>> /\ Head(stack).asked
    /\ stack' = Tail(stack)
    /\ list' = IF Head(stack).pid \in Shells THEN list ELSE Append(list, Head(stack).pid)
    /\ UNCHANGED <<table, first, pc, pass, sent, termed>>

(* Mutation of WalkDone: what was found is killed at once.                 *)
WalkDoneKilling ==
    /\ pc = "walk" /\ stack = <<>>
    /\ pc' = "kill"
    /\ UNCHANGED <<table, first, pass, stack, list, sent, termed>>

(* What the first walk finds is asked to stop, what the second finds dies. *)
WalkDone ==
    /\ pc = "walk" /\ stack = <<>>
    /\ pc' = IF pass = 1 THEN "term" ELSE "kill"
    /\ UNCHANGED <<table, first, pass, stack, list, sent, termed>>

(* Whether a signal arrives; ESRCH and EPERM are passed over.              *)
Reached(p) == p \in Alive \ Guarded

(* SIGTERM to the next one.                                                *)
Term ==
    /\ pc = "term" /\ list # <<>>
    /\ list' = Tail(list)
    /\ sent' = sent \union {Head(list)}
    /\ termed' = IF Reached(Head(list)) THEN termed \union {Head(list)} ELSE termed
    /\ UNCHANGED <<table, first, pc, pass, stack>>

TermDone ==
    /\ pc = "term" /\ list = <<>>
    /\ pc' = "sleep"
    /\ UNCHANGED <<table, first, pass, stack, list, sent, termed>>

(* A second has passed; the second walk begins.                            *)
Wake ==
    /\ pc = "sleep"
    /\ pc' = "walk" /\ pass' = 2 /\ stack' = Walks /\ sent' = {}
    /\ stayed' = Tree /\ lineage' = Tree
    /\ UNCHANGED <<parent, born, doomed, first, late, list, termed>>

(* Mutation of Kill: what got no SIGTERM gets no SIGKILL.                  *)
KillTermed ==
    /\ pc = "kill" /\ list # <<>>
    /\ list' = Tail(list)
    /\ sent' = sent \union {Head(list)}
    /\ doomed' = IF Reached(Head(list)) /\ Head(list) \in termed
                 THEN doomed \union {Head(list)} ELSE doomed
    /\ UNCHANGED <<parent, born, stayed, lineage, late, first, pc, pass, stack, termed>>

(* SIGKILL to the next one.                                                *)
Kill ==
    /\ pc = "kill" /\ list # <<>>
    /\ list' = Tail(list)
    /\ sent' = sent \union {Head(list)}
    /\ doomed' = IF Reached(Head(list)) THEN doomed \union {Head(list)} ELSE doomed
    /\ UNCHANGED <<parent, born, stayed, lineage, late, first, pc, pass, stack, termed>>

(* The call returns without a look at what became of the killed ones.      *)
KillDone ==
    /\ pc = "kill" /\ list = <<>>
    /\ pc' = "done"
    /\ UNCHANGED <<table, first, pass, stack, list, sent, termed>>

ReaperStep ==
    \/ Ask \/ Return \/ WalkDone \/ Term \/ TermDone \/ Wake \/ Kill \/ KillDone

ReaperNext == ReaperStep \/ \E p \in Pids : Fork(p) \/ Exit(p)

ReaperSpec == ReaperInit /\ [][ReaperNext]_reapVars

(* The reap goes on, and what got SIGKILL dies.                            *)
ReaperFairness ==
    /\ WF_reapVars(ReaperStep)
    /\ \A p \in Pids : WF_reapVars(p \in doomed /\ Exit(p))

-----------------------------------------------------------------------------
(* No signal goes to a process that does not descend from one of the       *)
(* shells, nor to a shell ("they are never signalled themselves"), however *)
(* the tree changes while it is walked.                                    *)
OnlyDescendants == sent \union Listed \subseteq lineage \ Shells

(* The walks are complete for what hangs below a shell throughout: it is   *)
(* found, whatever forks and exits elsewhere in the tree while pgrep is    *)
(* called process by process, asked to stop in the first round and killed  *)
(* in the second.  What loses its place below the shells is not meant      *)
(* here: GrandchildrenCaught is about that.                                *)
NoneOverlooked ==
    /\ pc \in {"term", "kill"} => stayed \subseteq Listed \union sent
    /\ pc = "sleep" => stayed \subseteq termed \union Guarded
    /\ pc = "done" => stayed \subseteq doomed \union Guarded

(* "Re-collecting after the sleep catches grandchildren forked during the  *)
(* shutdown window (between the initial snapshot and their parent's        *)
(* death)": while the shells live, what a process of the first list forked *)
(* before the second walk is gone or killed in the end.  It is not: with   *)
(* its parent's death it leaves the tree that the second walk looks at.    *)
GrandchildrenCaught ==
    pc = "done" /\ Shells \subseteq Alive => late \intersect Alive \subseteq doomed \union Guarded

(* What was there when the reap began is not killed unless it was asked to *)
(* stop before.                                                            *)
GraceBeforeKill == doomed \intersect first \subseteq termed

(* In the end nothing is left below the shells that was there when the     *)
(* second walk began and stayed there, except what may not be signalled.   *)
Cleared == <>[](pc = "done" /\ stayed \subseteq Guarded)

=============================================================================
