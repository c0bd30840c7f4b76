----------------------------- MODULE ReaperProofs -----------------------------
(***************************************************************************)
(* Whatever processes fork and exit while reap_descendants walks the tree, *)
(* and however many there are: it signals only what descends from the      *)
(* shells, overlooks nothing that stays below them, and kills nothing it   *)
(* has not asked to stop.                                                  *)
(***************************************************************************)
EXTENDS Reaper, FiniteSetTheorems, TLAPS

(* The tree below the shells, of any process table.                        *)
ClosedIn(f, S) == \A c \in Pids : f[c] \in Shells \/ f[c] \in S => c \in S
TreeOf(f) == {c \in Pids : \A S \in {T \in SUBSET Pids : ClosedIn(f, T)} : c \in S}

LEMMA TreeIsTreeOf == Tree = TreeOf(parent) /\ Tree' = TreeOf(parent')
BY DEF Tree, Closed, TreeOf, ClosedIn

LEMMA ShellsArePids == Shells \subseteq Pids /\ Pids \subseteq Nat \ {0}
BY ReaperConstants DEF Shells, Pids

LEMMA TreeClosed == ASSUME NEW f PROVE ClosedIn(f, TreeOf(f)) /\ TreeOf(f) \subseteq Pids
<1>1. SUFFICES ASSUME NEW c \in Pids, f[c] \in Shells \/ f[c] \in TreeOf(f),
                      NEW S \in SUBSET Pids, ClosedIn(f, S)
               PROVE  c \in S
  BY DEF ClosedIn, TreeOf
<1>2. f[c] \in TreeOf(f) => f[c] \in S BY <1>1 DEF TreeOf
<1>3. QED BY <1>1, <1>2 DEF ClosedIn

LEMMA TreeLeast ==
    ASSUME NEW f, NEW S \in SUBSET Pids, ClosedIn(f, S) PROVE TreeOf(f) \subseteq S
BY DEF TreeOf

(* The parent of what descends from the shells is one or descends itself.  *)
LEMMA TreeGrounded ==
    ASSUME NEW f, NEW c \in TreeOf(f) PROVE f[c] \in Shells \union TreeOf(f)
<1> DEFINE S == {d \in TreeOf(f) : f[d] \in Shells \union TreeOf(f)}
<1>1. ClosedIn(f, S) BY TreeClosed DEF ClosedIn
<1>2. S \in SUBSET Pids BY TreeClosed
<1>3. TreeOf(f) \subseteq S BY <1>1, <1>2, TreeLeast
<1>4. QED BY <1>3

-----------------------------------------------------------------------------
(* The process table between any two steps.                                *)
TableOK ==
    /\ parent \in [Pids -> Pids \union {Adopter, Gone}]
    /\ born \in 0..MaxPid
    /\ WellFormed
    /\ Shells \subseteq 1..born

LEMMA TreeFacts ==
    ASSUME TableOK
    PROVE  /\ Tree \subseteq Pids /\ Tree \subseteq Alive /\ Tree \intersect Shells = {}
           /\ \A c \in Tree : c <= born /\ parent[c] \in Shells \union Tree
<1>1. Tree \subseteq Pids BY TreeIsTreeOf, TreeClosed
<1>2. \A c \in Tree : parent[c] \in Shells \union Tree BY TreeIsTreeOf, TreeGrounded
<1>3. \A c \in Tree : parent[c] \in Pids BY <1>1, <1>2, ShellsArePids
<1>4. \A c \in Tree : parent[c] # Gone /\ parent[c] # Adopter
  BY <1>3, ShellsArePids DEF Gone, Adopter
<1>5. Tree \subseteq Alive BY <1>1, <1>4 DEF Alive
<1>6. Tree \intersect Shells = {} BY <1>4 DEF TableOK, WellFormed
<1>7. \A c \in Tree : c <= born
  BY <1>1, <1>4, ReaperConstants DEF TableOK, WellFormed, Pids
<1>8. QED BY <1>1, <1>2, <1>5, <1>6, <1>7

(* A fork adds at most the newborn to the tree, and only below it.         *)
LEMMA ForkTree ==
    ASSUME TableOK, NEW p \in Pids, Fork(p)
    PROVE  /\ TableOK' /\ born + 1 \in Pids /\ born + 1 > born
           /\ Tree' \subseteq Tree \union {born + 1}
           /\ \A c \in Pids : c # born + 1 => parent'[c] = parent[c]
           /\ parent'[born + 1] = p /\ p # born + 1
<1> DEFINE n == born + 1
<1>1. /\ n \in Pids /\ born \in Nat /\ p \in Alive /\ n > born
      /\ born' = n /\ parent' = [parent EXCEPT ![n] = p]
  BY ReaperConstants DEF TableOK, Fork, Pids
<1>2. p <= born BY <1>1 DEF TableOK, WellFormed, Alive, Pids
<1>3. /\ \A c \in Pids : c # n => parent'[c] = parent[c]
      /\ parent'[n] = p /\ p < n /\ p # n
      /\ parent' \in [Pids -> Pids \union {Adopter, Gone}]
  BY <1>1, <1>2 DEF TableOK, Pids
<1>4. \A c \in Pids : parent[c] # n
  BY <1>1 DEF TableOK, WellFormed, Pids, Gone
<1>5. TableOK'
  <2>1. born' \in 0..MaxPid BY <1>1, ReaperConstants DEF Pids
  <2>2. Shells \subseteq 1..born' BY <1>1 DEF TableOK
  <2>3. \A c \in Pids : parent'[c] \in Pids => parent'[c] < c BY <1>3 DEF TableOK, WellFormed
  <2>4. \A c \in Pids : c > born' => parent'[c] = Gone
    BY <1>1, <1>3 DEF TableOK, WellFormed, Pids
  <2>5. \A r \in Shells : parent'[r] \in {Adopter, Gone}
    BY <1>1, <1>3, ShellsArePids DEF TableOK, WellFormed
  <2>6. QED BY <1>3, <2>1, <2>2, <2>3, <2>4, <2>5 DEF TableOK, WellFormed
<1>6. Tree' \subseteq Tree \union {n}
  <2>1. n \notin Shells BY <1>1 DEF TableOK
  <2>2. ClosedIn(parent, Tree) /\ Tree \subseteq Pids BY TreeIsTreeOf, TreeClosed
  <2>3. ClosedIn(parent', Tree \union {n}) BY <1>3, <1>4, <2>2 DEF ClosedIn
  <2>4. QED BY <1>1, <2>2, <2>3, TreeLeast, TreeIsTreeOf
<1>7. QED BY <1>1, <1>3, <1>5, <1>6

(* An exit takes from the tree; who stays in it keeps its parent.          *)
LEMMA ExitTree ==
    ASSUME TableOK, NEW p \in Pids, Exit(p)
    PROVE  /\ TableOK' /\ Tree' \subseteq Tree /\ p \notin Tree'
           /\ \A c \in Pids : parent'[c] \in Pids => parent'[c] = parent[c]
<1>1. /\ parent' = [c \in Pids |-> IF c = p THEN Gone
                                   ELSE IF parent[c] = p THEN Adopter ELSE parent[c]]
      /\ born' = born
  BY DEF Exit
<1>2. Adopter \notin Pids /\ Gone \notin Pids BY ShellsArePids DEF Adopter, Gone
<1>3. \A c \in Pids : \/ parent'[c] \in {Adopter, Gone}
                      \/ parent'[c] = parent[c]
  BY <1>1
<1>4. \A c \in Pids : parent'[c] \in Pids => parent'[c] = parent[c] BY <1>2, <1>3
<1>5. TableOK'
  <2>1. parent' \in [Pids -> Pids \union {Adopter, Gone}] BY <1>1 DEF TableOK
  <2>2. \A c \in Pids : parent'[c] \in Pids => parent'[c] < c
    BY <1>4 DEF TableOK, WellFormed
  <2>3. \A c \in Pids : c > born' => parent'[c] = Gone
    BY <1>1, ShellsArePids DEF TableOK, WellFormed, Gone
  <2>4. \A r \in Shells : parent'[r] \in {Adopter, Gone}
    BY <1>3, ShellsArePids DEF TableOK, WellFormed
  <2>5. QED BY <1>1, <2>1, <2>2, <2>3, <2>4 DEF TableOK, WellFormed
<1>6. Tree' \subseteq Tree
  <2>1. ClosedIn(parent, Tree) /\ Tree \subseteq Pids BY TreeIsTreeOf, TreeClosed
  <2>2. ClosedIn(parent', Tree) BY <1>4, <2>1, ShellsArePids DEF ClosedIn
  <2>3. QED BY <2>1, <2>2, TreeLeast, TreeIsTreeOf
<1>7. p \notin Tree'
  <2>1. parent'[p] = Gone BY <1>1
  <2>2. \A c \in Tree' : parent'[c] \in Shells \union Tree' BY TreeIsTreeOf, TreeGrounded
  <2>3. Tree' \subseteq Pids BY <1>6, TreeIsTreeOf, TreeClosed
  <2>4. QED BY <1>2, <2>1, <2>2, <2>3, ShellsArePids
<1>8. QED BY <1>4, <1>5, <1>6, <1>7

-----------------------------------------------------------------------------
(* The elements of a sequence, as the reap takes it apart.                 *)
Elems(s) == {s[i] : i \in 1..Len(s)}

LEMMA ElemsConcat ==
    ASSUME NEW S, NEW s \in Seq(S), NEW t \in Seq(S)
    PROVE  s \o t \in Seq(S) /\ Elems(s \o t) = Elems(s) \union Elems(t)
<1>1. /\ Len(s \o t) = Len(s) + Len(t) /\ Len(s) \in Nat /\ Len(t) \in Nat
      /\ \A i \in 1..Len(s) + Len(t) :
            (s \o t)[i] = IF i <= Len(s) THEN s[i] ELSE t[i - Len(s)]
  OBVIOUS
<1>2. \A i \in 1..Len(s) : (s \o t)[i] = s[i] /\ i \in 1..Len(s \o t) BY <1>1
<1>3. \A i \in 1..Len(t) : (s \o t)[Len(s) + i] = t[i] /\ Len(s) + i \in 1..Len(s \o t)
  BY <1>1
<1>4. \A i \in 1..Len(s \o t) : i \in 1..Len(s) \/ (i - Len(s) \in 1..Len(t)
                                                    /\ (s \o t)[i] = t[i - Len(s)])
  BY <1>1
<1>5. Elems(s \o t) \subseteq Elems(s) \union Elems(t) BY <1>2, <1>4 DEF Elems
<1>6. Elems(s) \union Elems(t) \subseteq Elems(s \o t) BY <1>2, <1>3 DEF Elems
<1>7. s \o t \in Seq(S) OBVIOUS
<1>8. QED BY <1>5, <1>6, <1>7

LEMMA ElemsHead ==
    ASSUME NEW S, NEW s \in Seq(S), s # <<>>
    PROVE  /\ Head(s) \in S /\ Tail(s) \in Seq(S)
           /\ Elems(s) = {Head(s)} \union Elems(Tail(s))
<1>1. /\ Len(s) \in Nat \ {0} /\ Len(Tail(s)) = Len(s) - 1 /\ Head(s) = s[1]
      /\ \A i \in 1..Len(s) - 1 : Tail(s)[i] = s[i + 1]
  OBVIOUS
<1>2. Head(s) \in S /\ Tail(s) \in Seq(S) OBVIOUS
<1>3. \A i \in 1..Len(s) : i = 1 \/ i - 1 \in 1..Len(Tail(s)) BY <1>1
<1>4. \A i \in 1..Len(s) : i = 1 \/ s[i] = Tail(s)[i - 1] BY <1>1
<1>5. Elems(s) \subseteq {Head(s)} \union Elems(Tail(s)) BY <1>1, <1>3, <1>4 DEF Elems
<1>6. \A i \in 1..Len(Tail(s)) : i + 1 \in 1..Len(s) /\ Tail(s)[i] = s[i + 1] BY <1>1
<1>7. {Head(s)} \union Elems(Tail(s)) \subseteq Elems(s) BY <1>1, <1>6 DEF Elems
<1>8. QED BY <1>2, <1>5, <1>7

LEMMA ElemsAppend ==
    ASSUME NEW S, NEW s \in Seq(S), NEW e \in S
    PROVE  Append(s, e) \in Seq(S) /\ Elems(Append(s, e)) = Elems(s) \union {e}
<1>1. /\ Len(Append(s, e)) = Len(s) + 1 /\ Len(s) \in Nat /\ Append(s, e) \in Seq(S)
      /\ Append(s, e)[Len(s) + 1] = e
      /\ \A i \in 1..Len(s) : Append(s, e)[i] = s[i]
  OBVIOUS
<1>2. \A i \in 1..Len(s) + 1 : i \in 1..Len(s) \/ i = Len(s) + 1 BY <1>1
<1>3. Elems(Append(s, e)) \subseteq Elems(s) \union {e} BY <1>1, <1>2 DEF Elems
<1>4. Elems(s) \union {e} \subseteq Elems(Append(s, e)) BY <1>1 DEF Elems
<1>5. QED BY <1>1, <1>3, <1>4

LEMMA ElemsEmpty == Elems(<<>>) = {}
BY DEF Elems

LEMMA ElemsSingle == ASSUME NEW S, NEW e \in S PROVE <<e>> \in Seq(S) /\ Elems(<<e>>) = {e}
<1>1. <<e>> \in Seq(S) /\ Len(<<e>>) = 1 /\ <<e>>[1] = e OBVIOUS
<1>2. 1..1 = {1} OBVIOUS
<1>3. QED BY <1>1, <1>2 DEF Elems

LEMMA ListedIsElems == Listed = Elems(list) /\ Listed' = Elems(list')
BY DEF Listed, Elems

OnStack == {f.pid : f \in Elems(stack)}
Unasked == {f.pid : f \in {g \in Elems(stack) : ~g.asked}}

(* Each child of p becomes a call of _collect, and nothing else.           *)
LEMMA PushElems ==
    ASSUME NEW p \in Pids, NEW kids \in Orders(Children(p))
    PROVE  /\ Push(kids, p) \in Seq(Frame)
           /\ \A f \in Elems(Push(kids, p)) : f.pid \in Children(p)
           /\ \A c \in Children(p) : \E f \in Elems(Push(kids, p)) : f.pid = c /\ ~f.asked
<1> DEFINE n == Cardinality(Children(p))
<1>1. n \in Nat
  <2>1. IsFiniteSet(Pids) BY FS_Interval, ReaperConstants DEF Pids
  <2>2. IsFiniteSet(Children(p)) BY <2>1, FS_Subset DEF Children
  <2>3. QED BY <2>2, FS_CardinalityType
<1>2. /\ kids \in [1..n -> Children(p)]
      /\ \A c \in Children(p) : \E i \in 1..n : kids[i] = c
  BY DEF Orders
<1> HIDE DEF n
<1>3. kids \in Seq(Children(p)) /\ Len(kids) = n BY <1>1, <1>2
<1>4. Children(p) \subseteq Pids BY DEF Children
<1>5. /\ Push(kids, p) = [i \in 1..n |-> [pid |-> kids[i], asked |-> FALSE]]
      /\ \A i \in 1..n : kids[i] \in Pids
  BY <1>2, <1>3, <1>4 DEF Push
<1>6. Push(kids, p) \in [1..n -> Frame] BY <1>5 DEF Frame
<1>7. Push(kids, p) \in Seq(Frame) /\ Len(Push(kids, p)) = n BY <1>1, <1>6
<1>8. \A i \in 1..n : Push(kids, p)[i] = [pid |-> kids[i], asked |-> FALSE] BY <1>5
<1>9. Elems(Push(kids, p)) = {[pid |-> kids[i], asked |-> FALSE] : i \in 1..n}
  BY <1>7, <1>8 DEF Elems
<1>10. \A f \in Elems(Push(kids, p)) : f.pid \in Children(p) BY <1>2, <1>9
<1>11. ASSUME NEW c \in Children(p)
       PROVE  \E f \in Elems(Push(kids, p)) : f.pid = c /\ ~f.asked
  <2>1. PICK i \in 1..n : kids[i] = c BY <1>2
  <2>2. [pid |-> kids[i], asked |-> FALSE] \in Elems(Push(kids, p)) BY <1>9
  <2>3. QED BY <2>1, <2>2
<1>12. QED BY <1>7, <1>10, <1>11

LEMMA WalksElems ==
    /\ Walks \in Seq(Frame)
    /\ Elems(Walks) = {[pid |-> r, asked |-> FALSE] : r \in Shells}
<1>1. /\ Len(Roots) \in Nat /\ \A i \in 1..Len(Roots) : Roots[i] \in Pids
  BY ReaperConstants
<1>2. Walks \in [1..Len(Roots) -> Frame] BY <1>1 DEF Walks, Frame
<1>3. Walks \in Seq(Frame) /\ Len(Walks) = Len(Roots) BY <1>1, <1>2
<1>4. \A i \in 1..Len(Roots) : Walks[i] = [pid |-> Roots[i], asked |-> FALSE] BY DEF Walks
<1>5. QED BY <1>3, <1>4 DEF Elems, Shells

-----------------------------------------------------------------------------
(* The table and the calls keep their types.                               *)
TypeInv == ReaperTypeOK /\ TableOK

LEMMA TypeInit == ASSUME ReaperInit PROVE TypeInv
<1>1. TableOK BY DEF ReaperInit, TableOK
<1>2. Tree \subseteq Pids BY TreeIsTreeOf, TreeClosed
<1>3. <<>> \in Seq(Pids) OBVIOUS
<1>4. QED BY <1>1, <1>2, <1>3, WalksElems DEF TypeInv, ReaperInit, ReaperTypeOK

LEMMA TypeFork == ASSUME TypeInv, NEW p \in Pids, Fork(p) PROVE TypeInv'
<1>1. TableOK' /\ born + 1 \in Pids BY ForkTree DEF TypeInv
<1>2. lineage' \subseteq Pids BY <1>1 DEF Fork, TypeInv, ReaperTypeOK
<1>3. QED BY <1>1, <1>2 DEF Fork, TypeInv, ReaperTypeOK, TableOK, calls

LEMMA TypeExit == ASSUME TypeInv, NEW p \in Pids, Exit(p) PROVE TypeInv'
<1>1. TableOK' BY ExitTree DEF TypeInv
<1>2. QED BY <1>1 DEF Exit, TypeInv, ReaperTypeOK, TableOK, calls

(* What asking for a process's children does to the frames.                *)
LEMMA AskFrames ==
    ASSUME TypeInv, Ask
    PROVE  \E p \in Pids :
              /\ p \in Unasked /\ stack' \in Seq(Frame)
              /\ OnStack' = OnStack \union Children(p)
              /\ Children(p) \subseteq Unasked' /\ Unasked \ {p} \subseteq Unasked'
<1> DEFINE p == Head(stack).pid
           self == [pid |-> p, asked |-> TRUE]
           rest == Tail(stack)
<1>1. stack \in Seq(Frame) /\ stack # <<>> /\ ~Head(stack).asked
  BY DEF Ask, TypeInv, ReaperTypeOK
<1>2. /\ Head(stack) \in Frame /\ rest \in Seq(Frame)
      /\ Elems(stack) = {Head(stack)} \union Elems(rest)
  BY <1>1, ElemsHead
<1>3. p \in Pids BY <1>2 DEF Frame
<1>4. PICK kids \in Orders(Children(p)) : stack' = Push(kids, p) \o <<self>> \o rest
  BY DEF Ask
<1> DEFINE asks == Push(kids, p)
           mid == <<self>>
           front == asks \o mid
<1>5. asks \in Seq(Frame) /\ \A f \in Elems(asks) : f.pid \in Children(p)
  BY <1>3, PushElems
<1>6. \A c \in Children(p) : \E f \in Elems(asks) : f.pid = c /\ ~f.asked
  BY <1>3, PushElems
<1>7. self \in Frame /\ self.pid = p BY <1>3 DEF Frame
<1>8. Head(stack).pid = p OBVIOUS
<1>9. stack' = front \o rest BY <1>4
<1> HIDE DEF p, self, rest, asks
<1>10. mid \in Seq(Frame) /\ Elems(mid) = {self} BY <1>7, ElemsSingle
<1> HIDE DEF mid
<1>11. front \in Seq(Frame) /\ Elems(front) = Elems(asks) \union {self}
  BY <1>5, <1>10, ElemsConcat
<1> HIDE DEF front
<1>12. /\ stack' \in Seq(Frame)
       /\ Elems(stack') = Elems(asks) \union {self} \union Elems(rest)
  BY <1>2, <1>9, <1>11, ElemsConcat
<1>13. p \in Unasked BY <1>1, <1>2, <1>8 DEF Unasked
<1>14. OnStack' = OnStack \union Children(p)
  <2>1. OnStack' = {f.pid : f \in Elems(asks) \union {self} \union Elems(rest)}
    BY <1>12 DEF OnStack
  <2>2. OnStack = {f.pid : f \in {Head(stack)} \union Elems(rest)} BY <1>2 DEF OnStack
  <2>3. QED BY <1>5, <1>6, <1>7, <1>8, <2>1, <2>2
<1>15. Children(p) \subseteq Unasked'
  <2>1. \A c \in Children(p) : \E f \in Elems(stack') : f.pid = c /\ ~f.asked
    BY <1>6, <1>12
  <2>2. Unasked' = {f.pid : f \in {g \in Elems(stack') : ~g.asked}} BY DEF Unasked
  <2>3. QED BY <2>1, <2>2
<1>16. Unasked \ {p} \subseteq Unasked'
  <2>1. \A f \in Elems(stack) : f.pid # p => f \in Elems(stack') BY <1>2, <1>8, <1>12
  <2>2. QED BY <2>1 DEF Unasked
<1>17. QED BY <1>3, <1>12, <1>13, <1>14, <1>15, <1>16

(* The end of a call of _collect moves its process from stack to list.     *)
LEMMA ReturnFrames ==
    ASSUME TypeInv, Return
    PROVE  \E p \in Pids :
              /\ p \in OnStack /\ stack' \in Seq(Frame) /\ list' \in Seq(Pids)
              /\ OnStack = OnStack' \union {p} /\ Unasked' = Unasked
              /\ Elems(list') = IF p \in Shells THEN Elems(list) ELSE Elems(list) \union {p}
<1> DEFINE p == Head(stack).pid
<1>1. stack \in Seq(Frame) /\ stack # <<>> /\ Head(stack).asked /\ stack' = Tail(stack)
  BY DEF Return, TypeInv, ReaperTypeOK
<1>2. /\ Head(stack) \in Frame /\ Tail(stack) \in Seq(Frame)
      /\ Elems(stack) = {Head(stack)} \union Elems(stack')
  BY <1>1, ElemsHead
<1>3. p \in Pids BY <1>2 DEF Frame
<1>4. OnStack = OnStack' \union {p} BY <1>2 DEF OnStack
<1>5. Unasked' = Unasked BY <1>1, <1>2 DEF Unasked
<1>6. list' = IF p \in Shells THEN list ELSE Append(list, p) BY DEF Return
<1>7. list \in Seq(Pids) BY DEF TypeInv, ReaperTypeOK
<1>8. /\ list' \in Seq(Pids)
      /\ Elems(list') = IF p \in Shells THEN Elems(list) ELSE Elems(list) \union {p}
  <2>1. CASE p \in Shells BY <1>6, <1>7, <2>1
  <2>2. CASE p \notin Shells
    <3> HIDE DEF p
    <3>1. list' = Append(list, p) BY <1>6, <2>2
    <3>2. QED BY <1>3, <1>7, <2>2, <3>1, ElemsAppend
  <2>3. QED BY <2>1, <2>2
<1>9. QED BY <1>1, <1>2, <1>3, <1>4, <1>5, <1>8

(* A signal takes the first of the list.                                   *)
LEMMA SignalElems ==
    ASSUME TypeInv, Term \/ Kill
    PROVE  \E p \in Pids :
              /\ p = Head(list) /\ sent' = sent \union {p} /\ list' \in Seq(Pids)
              /\ Elems(list) = Elems(list') \union {p}
<1>1. list \in Seq(Pids) /\ list # <<>> /\ list' = Tail(list)
  BY DEF Term, Kill, TypeInv, ReaperTypeOK
<1>2. sent' = sent \union {Head(list)} BY DEF Term, Kill
<1>3. QED BY <1>1, <1>2, ElemsHead

LEMMA TypeNext == ASSUME TypeInv, [ReaperNext]_reapVars PROVE TypeInv'
<1>1. ASSUME NEW p \in Pids, Fork(p) PROVE TypeInv' BY <1>1, TypeFork
<1>2. ASSUME NEW p \in Pids, Exit(p) PROVE TypeInv' BY <1>2, TypeExit
<1>3. ASSUME UNCHANGED <<parent, born>>, ReaperTypeOK' PROVE TypeInv'
  BY <1>3 DEF TypeInv, TableOK, WellFormed
<1>4. CASE Ask
  <2>1. stack' \in Seq(Frame) BY <1>4, AskFrames
  <2>2. ReaperTypeOK' BY <1>4, <2>1 DEF Ask, TypeInv, ReaperTypeOK, table
  <2>3. QED BY <1>3, <1>4, <2>2 DEF Ask, table
<1>5. CASE Return
  <2>1. stack' \in Seq(Frame) /\ list' \in Seq(Pids) BY <1>5, ReturnFrames
  <2>2. ReaperTypeOK' BY <1>5, <2>1 DEF Return, TypeInv, ReaperTypeOK, table
  <2>3. QED BY <1>3, <1>5, <2>2 DEF Return, table
<1>6. CASE WalkDone
  <2>1. ReaperTypeOK' BY <1>6 DEF WalkDone, TypeInv, ReaperTypeOK, table
  <2>2. QED BY <1>3, <1>6, <2>1 DEF WalkDone, table
<1>7. CASE Term
  <2>1. Head(list) \in Pids /\ list' \in Seq(Pids) BY <1>7, SignalElems
  <2>2. ReaperTypeOK' BY <1>7, <2>1 DEF Term, TypeInv, ReaperTypeOK, table
  <2>3. QED BY <1>3, <1>7, <2>2 DEF Term, table
<1>8. CASE TermDone
  <2>1. ReaperTypeOK' BY <1>8 DEF TermDone, TypeInv, ReaperTypeOK, table
  <2>2. QED BY <1>3, <1>8, <2>1 DEF TermDone, table
<1>9. CASE Wake
  <2>1. Tree \subseteq Pids BY TreeIsTreeOf, TreeClosed
  <2>2. ReaperTypeOK' BY <1>9, <2>1, WalksElems DEF Wake, TypeInv, ReaperTypeOK
  <2>3. QED BY <1>3, <1>9, <2>2 DEF Wake
<1>10. CASE Kill
  <2>1. Head(list) \in Pids /\ list' \in Seq(Pids) BY <1>10, SignalElems
  <2>2. ReaperTypeOK' BY <1>10, <2>1 DEF Kill, TypeInv, ReaperTypeOK
  <2>3. QED BY <1>3, <1>10, <2>2 DEF Kill
<1>11. CASE KillDone
  <2>1. ReaperTypeOK' BY <1>11 DEF KillDone, TypeInv, ReaperTypeOK, table
  <2>2. QED BY <1>3, <1>11, <2>1 DEF KillDone, table
<1>12. CASE UNCHANGED reapVars
  BY <1>12 DEF reapVars, TypeInv, ReaperTypeOK, TableOK, WellFormed
<1>13. QED
  BY <1>1, <1>2, <1>4, <1>5, <1>6, <1>7, <1>8, <1>9, <1>10, <1>11, <1>12
  DEF ReaperNext, ReaperStep

-----------------------------------------------------------------------------
(* Type correctness, for any tree and any roots.                           *)
THEOREM ReaperTypeCorrect == ReaperSpec => []ReaperTypeOK
<1>1. ReaperInit => TypeInv BY TypeInit
<1>2. TypeInv /\ [ReaperNext]_reapVars => TypeInv' BY TypeNext
<1>3. TypeInv => ReaperTypeOK BY DEF TypeInv
<1>4. QED BY <1>1, <1>2, <1>3, PTL DEF ReaperSpec

-----------------------------------------------------------------------------
(* What may be signalled: lineage is closed under birth, the frames are    *)
(* about it and the shells, what is on its way to a signal is in it.       *)
AimInv ==
    /\ TypeInv
    /\ lineage \subseteq (1..born) \ Shells
    /\ ClosedIn(parent, lineage)
    /\ OnStack \subseteq Shells \union lineage
    /\ Elems(list) \union sent \subseteq lineage \ Shells
    /\ pc = "sleep" => list = <<>>

LEMMA WalksOnStack ==
    /\ {f.pid : f \in Elems(Walks)} = Shells
    /\ {f.pid : f \in {g \in Elems(Walks) : ~g.asked}} = Shells
<1>1. \A f \in Elems(Walks) : f.pid \in Shells /\ ~f.asked BY WalksElems
<1>2. ASSUME NEW r \in Shells PROVE \E f \in Elems(Walks) : f.pid = r /\ ~f.asked
  <2>1. [pid |-> r, asked |-> FALSE] \in Elems(Walks) BY WalksElems
  <2>2. QED BY <2>1
<1>3. QED BY <1>1, <1>2

LEMMA TreeAims ==
    ASSUME TableOK PROVE Tree \subseteq (1..born) \ Shells /\ ClosedIn(parent, Tree)
<1>1. Tree \subseteq Pids /\ Tree \intersect Shells = {} /\ \A c \in Tree : c <= born
  BY TreeFacts
<1>2. QED BY <1>1, TreeIsTreeOf, TreeClosed DEF Pids, TableOK

LEMMA AimInit == ASSUME ReaperInit PROVE AimInv
<1>1. TypeInv BY TypeInit
<1>2. stack = Walks /\ list = <<>> /\ sent = {} /\ lineage = Tree /\ pc = "walk"
  BY DEF ReaperInit
<1>3. lineage \subseteq (1..born) \ Shells /\ ClosedIn(parent, lineage)
  BY <1>1, <1>2, TreeAims DEF TypeInv
<1>4. OnStack = Shells /\ Elems(list) = {} BY <1>2, WalksOnStack, ElemsEmpty DEF OnStack
<1>5. QED BY <1>1, <1>2, <1>3, <1>4 DEF AimInv

LEMMA AimFork == ASSUME AimInv, NEW p \in Pids, Fork(p) PROVE AimInv'
<1>1. TypeInv' BY TypeFork DEF AimInv
<1>2. /\ born' = born + 1 /\ born + 1 > born /\ born + 1 \in Pids
      /\ \A c \in Pids : c # born + 1 => parent'[c] = parent[c]
      /\ parent'[born + 1] = p /\ Shells \subseteq 1..born
      /\ UNCHANGED calls
      /\ lineage' = IF p \in Shells \union lineage THEN lineage \union {born + 1} ELSE lineage
  BY ForkTree DEF AimInv, TypeInv, TableOK, Fork
<1>3. UNCHANGED <<OnStack, list, sent, pc>> BY <1>2 DEF OnStack, calls
<1>4. lineage \subseteq lineage' BY <1>2
<1>5. born \in Nat BY ReaperConstants DEF AimInv, TypeInv, TableOK
<1>6. lineage' \subseteq (1..born') \ Shells BY <1>2, <1>5 DEF AimInv
<1>7. ClosedIn(parent', lineage')
  <2>1. SUFFICES ASSUME NEW c \in Pids, parent'[c] \in Shells \/ parent'[c] \in lineage'
                 PROVE  c \in lineage'
    BY DEF ClosedIn
  <2>2. CASE c = born + 1
    <3>1. p \in Shells \union lineage
      <4>1. p # born + 1 BY ForkTree DEF AimInv, TypeInv
      <4>2. QED BY <1>2, <2>1, <2>2, <4>1
    <3>2. QED BY <1>2, <2>2, <3>1
  <2>3. CASE c # born + 1
    <3>1. parent'[c] = parent[c] BY <1>2, <2>3
    <3>2. parent[c] # born + 1
      BY <1>2, <1>5 DEF AimInv, TypeInv, TableOK, WellFormed, Pids, Gone
    <3>3. parent[c] \in Shells \union lineage BY <1>2, <2>1, <3>1, <3>2
    <3>4. QED BY <1>4, <3>3 DEF AimInv, ClosedIn
  <2>4. QED BY <2>2, <2>3
<1>8. QED BY <1>1, <1>3, <1>4, <1>6, <1>7 DEF AimInv

LEMMA AimExit == ASSUME AimInv, NEW p \in Pids, Exit(p) PROVE AimInv'
<1>1. TypeInv' BY TypeExit DEF AimInv
<1>2. /\ \A c \in Pids : parent'[c] \in Pids => parent'[c] = parent[c]
      /\ UNCHANGED <<born, lineage, calls>>
  BY ExitTree DEF AimInv, TypeInv, Exit
<1>3. UNCHANGED <<OnStack, list, sent, pc>> BY <1>2 DEF OnStack, calls
<1>4. lineage \subseteq Pids BY DEF AimInv, TypeInv, ReaperTypeOK
<1>5. ClosedIn(parent', lineage) BY <1>2, <1>4, ShellsArePids DEF AimInv, ClosedIn
<1>6. QED BY <1>1, <1>2, <1>3, <1>5 DEF AimInv

(* A step that leaves the table and its history alone.                     *)
LEMMA AimStep ==
    ASSUME AimInv, TypeInv', UNCHANGED <<parent, born, lineage>>,
           OnStack' \subseteq Shells \union lineage,
           Elems(list') \union sent' \subseteq lineage \ Shells,
           pc' = "sleep" => list' = <<>>
    PROVE  AimInv'
BY DEF AimInv, ClosedIn

LEMMA AimNext == ASSUME AimInv, [ReaperNext]_reapVars PROVE AimInv'
<1> USE DEF table
<1>1. TypeInv /\ TypeInv' BY TypeNext DEF AimInv
<1>2. ASSUME NEW p \in Pids, Fork(p) PROVE AimInv' BY <1>2, AimFork
<1>3. ASSUME NEW p \in Pids, Exit(p) PROVE AimInv' BY <1>3, AimExit
<1>4. CASE Ask
  <2>1. PICK p \in Pids : p \in Unasked /\ OnStack' = OnStack \union Children(p)
    BY <1>1, <1>4, AskFrames
  <2>2. p \in OnStack BY <2>1 DEF OnStack, Unasked
  <2>3. Children(p) \subseteq lineage BY <2>2 DEF AimInv, ClosedIn, Children
  <2>4. UNCHANGED <<parent, born, lineage, list, sent>> /\ pc' # "sleep" BY <1>4 DEF Ask
  <2>5. QED BY <1>1, <2>1, <2>3, <2>4, AimStep DEF AimInv
<1>5. CASE Return
  <2>1. PICK p \in Pids :
           /\ p \in OnStack /\ OnStack = OnStack' \union {p}
           /\ Elems(list') = IF p \in Shells THEN Elems(list) ELSE Elems(list) \union {p}
    BY <1>1, <1>5, ReturnFrames
  <2>2. UNCHANGED <<parent, born, lineage, sent>> /\ pc' # "sleep" BY <1>5 DEF Return
  <2>3. Elems(list') \subseteq lineage \ Shells BY <2>1 DEF AimInv
  <2>4. QED BY <1>1, <2>1, <2>2, <2>3, AimStep DEF AimInv
<1>6. CASE WalkDone
  <2>1. UNCHANGED <<parent, born, lineage, list, sent, stack>> /\ pc' # "sleep"
    BY <1>6 DEF WalkDone
  <2>2. OnStack' = OnStack BY <2>1 DEF OnStack
  <2>3. QED BY <1>1, <2>1, <2>2, AimStep DEF AimInv
<1>7. CASE Term \/ Kill
  <2>1. PICK p \in Pids :
           sent' = sent \union {p} /\ Elems(list) = Elems(list') \union {p}
    BY <1>1, <1>7, SignalElems
  <2>2. UNCHANGED <<parent, born, lineage, stack>> /\ pc' # "sleep"
    BY <1>7 DEF Term, Kill
  <2>3. OnStack' = OnStack BY <2>2 DEF OnStack
  <2>4. Elems(list') \union sent' \subseteq lineage \ Shells BY <2>1 DEF AimInv
  <2>5. QED BY <1>1, <2>2, <2>3, <2>4, AimStep DEF AimInv
<1>8. CASE TermDone \/ KillDone
  <2>1. UNCHANGED <<parent, born, lineage, list, sent, stack>> /\ list = <<>>
    BY <1>8 DEF TermDone, KillDone
  <2>2. OnStack' = OnStack BY <2>1 DEF OnStack
  <2>3. QED BY <1>1, <2>1, <2>2, AimStep DEF AimInv
<1>9. CASE Wake
  <2>1. /\ UNCHANGED <<parent, born, list>> /\ lineage' = Tree /\ stack' = Walks
        /\ sent' = {} /\ list = <<>> /\ pc' = "walk"
    BY <1>9 DEF Wake, AimInv
  <2>2. OnStack' = Shells BY <2>1, WalksOnStack DEF OnStack
  <2>3. Elems(list') = {} BY <2>1, ElemsEmpty
  <2>4. lineage' \subseteq (1..born') \ Shells /\ ClosedIn(parent', lineage')
    BY <1>1, <2>1, TreeAims DEF TypeInv
  <2>5. QED BY <1>1, <2>1, <2>2, <2>3, <2>4 DEF AimInv
<1>10. CASE UNCHANGED reapVars
  <2>1. UNCHANGED <<parent, born, lineage, list, sent, stack, pc>> BY <1>10 DEF reapVars
  <2>2. OnStack' = OnStack BY <2>1 DEF OnStack
  <2>3. QED BY <1>1, <2>1, <2>2, AimStep DEF AimInv
<1>11. QED
  BY <1>2, <1>3, <1>4, <1>5, <1>6, <1>7, <1>8, <1>9, <1>10 DEF ReaperNext, ReaperStep

(* No signal reaches a process that does not descend from one of the       *)
(* shells, nor a shell itself.                                             *)
THEOREM SignalsOnlyDescendants == ReaperSpec => []OnlyDescendants
<1>1. ReaperInit => AimInv BY AimInit
<1>2. AimInv /\ [ReaperNext]_reapVars => AimInv' BY AimNext
<1>3. AimInv => OnlyDescendants BY ListedIsElems DEF AimInv, OnlyDescendants
<1>4. QED BY <1>1, <1>2, <1>3, PTL DEF ReaperSpec

-----------------------------------------------------------------------------
(* What is not overlooked.  Of each process that has stayed below a shell  *)
(* since the walk began, the walk has found it, or is yet to ask its       *)
(* parent, or has not found its parent either.                             *)
Found == Elems(list) \union OnStack

Pending ==
    \A c \in stayed : \/ c \in Found
                      \/ parent[c] \in Unasked
                      \/ parent[c] \in stayed \ Found

Rooted ==
    /\ TypeInv
    /\ stayed \subseteq Tree
    /\ \A c \in stayed : parent[c] \in Shells \union stayed

Progress ==
    /\ pc = "walk" => sent = {} /\ Pending
    /\ pc \in {"term", "kill"} => stayed \subseteq Elems(list) \union sent
    /\ pc = "term" => stayed \intersect sent \subseteq termed \union Guarded
    /\ pc = "sleep" => list = <<>> /\ stayed \subseteq termed \union Guarded
    /\ pc = "kill" => stayed \intersect sent \subseteq doomed \union Guarded
    /\ pc = "done" => stayed \subseteq doomed \union Guarded

WalkInv == Rooted /\ Progress

LEMMA TreeRooted ==
    ASSUME TypeInv, stayed = Tree PROVE Rooted
BY TreeFacts DEF TypeInv, Rooted

(* A walk that begins has everything before it.                            *)
LEMMA AllPending ==
    ASSUME Rooted, stack = Walks, list = <<>> PROVE Pending
<1>1. Unasked = Shells /\ Found = Shells
  BY WalksOnStack, ElemsEmpty DEF Unasked, OnStack, Found
<1>2. QED BY <1>1 DEF Pending, Rooted

LEMMA WalkInit == ASSUME ReaperInit PROVE WalkInv
<1>1. TypeInv BY TypeInit
<1>2. stack = Walks /\ list = <<>> /\ sent = {} /\ stayed = Tree /\ pc = "walk"
  BY DEF ReaperInit
<1>3. Rooted BY <1>1, <1>2, TreeRooted
<1>4. QED BY <1>2, <1>3, AllPending DEF WalkInv, Progress

(* What a fork or an exit leaves of stayed keeps its parent, and what is   *)
(* doomed of it stays doomed.                                              *)
LEMMA SceneKeeps ==
    ASSUME Rooted, NEW p \in Pids, Fork(p) \/ Exit(p)
    PROVE  /\ Rooted' /\ stayed' \subseteq stayed
           /\ \A c \in stayed' : parent'[c] = parent[c]
           /\ stayed' \intersect doomed \subseteq doomed'
           /\ UNCHANGED calls
<1>1. TypeInv' /\ TableOK /\ TableOK' BY TypeFork, TypeExit DEF Rooted, TypeInv
<1>2. stayed' = stayed \intersect Tree' /\ UNCHANGED calls BY DEF Fork, Exit
<1>3. \A c \in Tree' : c \in Pids /\ parent'[c] \in Shells \union Tree'
  BY TreeIsTreeOf, TreeClosed, TreeGrounded
<1>4. \A c \in stayed : c \in Pids /\ c <= born BY <1>1, TreeFacts DEF Rooted
<1>5. \A c \in stayed' : parent'[c] = parent[c]
  <2>1. CASE Fork(p)
    <3>1. born \in Nat BY <1>1, ReaperConstants DEF TableOK
    <3>2. \A c \in stayed : c # born + 1 BY <1>4, <3>1, ShellsArePids
    <3>3. QED BY <1>1, <1>2, <1>4, <2>1, <3>2, ForkTree
  <2>2. CASE Exit(p)
    <3>1. \A c \in stayed' : parent'[c] \in Pids BY <1>2, <1>3, ShellsArePids
    <3>2. QED BY <1>1, <1>2, <1>4, <2>2, <3>1, ExitTree
  <2>3. QED BY <2>1, <2>2
<1>6. \A c \in stayed' : parent'[c] \in Shells \union stayed'
  <2>1. \A c \in stayed' : parent'[c] \in Shells \union stayed BY <1>2, <1>5 DEF Rooted
  <2>2. \A c \in stayed' : parent'[c] \in Shells \union Tree' BY <1>2, <1>3
  <2>3. QED BY <1>2, <2>1, <2>2
<1>7. stayed' \intersect doomed \subseteq doomed'
  <2>1. CASE Fork(p) BY <2>1 DEF Fork
  <2>2. CASE Exit(p)
    <3>1. p \notin Tree' /\ doomed' = doomed \ {p} BY <1>1, <2>2, ExitTree DEF Exit
    <3>2. QED BY <1>2, <3>1
  <2>3. QED BY <2>1, <2>2
<1>8. QED BY <1>1, <1>2, <1>5, <1>6, <1>7 DEF Rooted

LEMMA WalkScene ==
    ASSUME WalkInv, NEW p \in Pids, Fork(p) \/ Exit(p) PROVE WalkInv'
<1>1. /\ Rooted' /\ stayed' \subseteq stayed
      /\ \A c \in stayed' : parent'[c] = parent[c]
      /\ stayed' \intersect doomed \subseteq doomed'
      /\ UNCHANGED <<pc, pass, stack, list, sent, termed>>
  BY SceneKeeps DEF WalkInv, calls
<1>2. UNCHANGED <<OnStack, Unasked, Found>> BY <1>1 DEF OnStack, Unasked, Found
<1>3. stayed \intersect Shells = {} BY TreeFacts DEF WalkInv, Rooted, TypeInv
<1>4. ASSUME Pending PROVE Pending'
  <2>1. SUFFICES ASSUME NEW c \in stayed', c \notin Found, parent[c] \notin Unasked
                 PROVE  parent'[c] \in stayed' \ Found
    BY <1>1, <1>2 DEF Pending
  <2>2. parent[c] \in stayed \ Found BY <1>1, <1>4, <2>1 DEF Pending
  <2>3. parent'[c] \in Shells \union stayed' BY <1>1 DEF Rooted
  <2>4. QED BY <1>1, <1>3, <2>2, <2>3
<1>5. Progress' BY <1>1, <1>4 DEF WalkInv, Progress
<1>6. QED BY <1>1, <1>5 DEF WalkInv

(* A step of the reap that leaves the processes alone.                     *)
LEMMA RootedStep ==
    ASSUME Rooted, TypeInv', UNCHANGED <<parent, stayed>> PROVE Rooted'
<1>1. Tree' = Tree BY DEF Tree, Closed
<1>2. QED BY <1>1 DEF Rooted

LEMMA WalkAsk == ASSUME WalkInv, Ask PROVE WalkInv'
<1>1. TypeInv /\ TypeInv' BY TypeNext DEF WalkInv, Rooted, ReaperNext, ReaperStep
<1>2. PICK p \in Pids :
         /\ OnStack' = OnStack \union Children(p)
         /\ Children(p) \subseteq Unasked' /\ Unasked \ {p} \subseteq Unasked'
  BY <1>1, AskFrames
<1>3. UNCHANGED <<parent, stayed, list, sent, pc>> /\ pc = "walk" BY DEF Ask, table
<1>4. Rooted' BY <1>1, <1>3, RootedStep DEF WalkInv
<1>5. Found' = Found \union Children(p) BY <1>2, <1>3 DEF Found
<1>6. Pending'
  <2>1. SUFFICES ASSUME NEW c \in stayed, c \notin Found', parent[c] \notin stayed \ Found'
                 PROVE  parent[c] \in Unasked'
    BY <1>3 DEF Pending
  <2>2. c \in Pids BY <1>1, TreeFacts DEF WalkInv, Rooted, TypeInv
  <2>3. parent[c] # p BY <1>5, <2>1, <2>2 DEF Children
  <2>4. CASE parent[c] \in Unasked BY <1>2, <2>3, <2>4
  <2>5. CASE parent[c] \in stayed \ Found BY <1>2, <1>5, <2>1, <2>5
  <2>6. Pending BY <1>3 DEF WalkInv, Progress
  <2>7. QED BY <1>5, <2>1, <2>4, <2>5, <2>6 DEF Pending
<1>7. QED BY <1>3, <1>4, <1>6 DEF WalkInv, Progress

LEMMA WalkReturn == ASSUME WalkInv, Return PROVE WalkInv'
<1>1. TypeInv /\ TypeInv' BY TypeNext DEF WalkInv, Rooted, ReaperNext, ReaperStep
<1>2. PICK p \in Pids :
         /\ OnStack = OnStack' \union {p} /\ Unasked' = Unasked
         /\ Elems(list') = IF p \in Shells THEN Elems(list) ELSE Elems(list) \union {p}
  BY <1>1, ReturnFrames
<1>3. UNCHANGED <<parent, stayed, sent, pc>> /\ pc = "walk" BY DEF Return, table
<1>4. Rooted' BY <1>1, <1>3, RootedStep DEF WalkInv
<1>5. Found \ Shells \subseteq Found' /\ Found' \subseteq Found BY <1>2 DEF Found
<1>6. stayed \intersect Shells = {} BY <1>1, TreeFacts DEF WalkInv, Rooted, TypeInv
<1>7. Pending' BY <1>2, <1>3, <1>5, <1>6 DEF WalkInv, Progress, Pending
<1>8. QED BY <1>3, <1>4, <1>7 DEF WalkInv, Progress

(* When the walk ends nothing is pending: what the tree keeps without the  *)
(* processes overlooked would be a smaller tree.                           *)
LEMMA NothingPending ==
    ASSUME Rooted, Pending, stack = <<>> PROVE stayed \subseteq Elems(list)
<1> DEFINE lost == stayed \ Elems(list)
           S == Tree \ lost
<1>1. OnStack = {} /\ Unasked = {} BY ElemsEmpty DEF OnStack, Unasked
<1>2. \A c \in lost : parent[c] \in lost BY <1>1 DEF Pending, Found
<1>3. lost \intersect Shells = {} BY TreeFacts DEF Rooted, TypeInv
<1>4. Tree \subseteq Pids /\ ClosedIn(parent, Tree) BY TreeIsTreeOf, TreeClosed
<1>5. ClosedIn(parent, S) BY <1>2, <1>3, <1>4 DEF ClosedIn
<1>6. Tree \subseteq S BY <1>4, <1>5, TreeIsTreeOf, TreeLeast
<1>7. QED BY <1>6 DEF Rooted

LEMMA WalkStep == ASSUME WalkInv, ReaperStep PROVE WalkInv'
<1> USE DEF table
<1>1. TypeInv /\ TypeInv' BY TypeNext DEF WalkInv, Rooted, ReaperNext
<1>2. CASE WalkDone
  <2>1. UNCHANGED <<parent, stayed, list, sent, stack>> /\ pc = "walk" /\ stack = <<>>
    BY <1>2 DEF WalkDone
  <2>2. stayed \subseteq Elems(list) BY <2>1, NothingPending DEF WalkInv, Progress
  <2>3. Rooted' BY <1>1, <2>1, RootedStep DEF WalkInv
  <2>4. sent = {} BY <2>1 DEF WalkInv, Progress
  <2>5. pc' \in {"term", "kill"} BY <1>2 DEF WalkDone
  <2>6. QED BY <2>1, <2>2, <2>3, <2>4, <2>5 DEF WalkInv, Progress
<1>3. CASE Term
  <2>1. PICK p \in Pids : /\ p = Head(list) /\ sent' = sent \union {p}
                          /\ Elems(list) = Elems(list') \union {p}
    BY <1>1, <1>3, SignalElems
  <2>2. UNCHANGED <<parent, stayed, pc>> /\ pc = "term" BY <1>3 DEF Term
  <2>3. termed' = IF Reached(p) THEN termed \union {p} ELSE termed BY <1>3, <2>1 DEF Term
  <2>4. p \in stayed => p \in termed' \union Guarded
    BY <1>1, <2>3, TreeFacts DEF WalkInv, Rooted, TypeInv, Reached
  <2>5. Rooted' BY <1>1, <2>2, RootedStep DEF WalkInv
  <2>6. termed \subseteq termed' BY <2>3
  <2>7. QED BY <2>1, <2>2, <2>4, <2>5, <2>6 DEF WalkInv, Progress
<1>4. CASE TermDone
  <2>1. /\ UNCHANGED <<parent, stayed, list, sent, termed>> /\ list = <<>>
        /\ pc = "term" /\ pc' = "sleep"
    BY <1>4 DEF TermDone
  <2>2. Rooted' BY <1>1, <2>1, RootedStep DEF WalkInv
  <2>3. stayed \subseteq sent BY <2>1, ElemsEmpty DEF WalkInv, Progress
  <2>4. stayed \subseteq termed \union Guarded BY <2>1, <2>3 DEF WalkInv, Progress
  <2>5. QED BY <2>1, <2>2, <2>4 DEF WalkInv, Progress
<1>5. CASE Wake
  <2>1. /\ UNCHANGED <<parent, list>> /\ stayed' = Tree /\ stack' = Walks
        /\ sent' = {} /\ pc' = "walk" /\ list = <<>>
    BY <1>5 DEF Wake, WalkInv, Progress
  <2>2. Tree' = Tree BY <2>1 DEF Tree, Closed
  <2>3. Rooted' BY <1>1, <2>1, <2>2, TreeFacts DEF TypeInv, Rooted
  <2>4. Unasked' = Shells /\ Found' = Shells
    BY <1>5, <2>1, WalksOnStack, ElemsEmpty DEF Unasked, OnStack, Found
  <2>5. Pending' BY <2>3, <2>4 DEF Pending, Rooted
  <2>6. QED BY <2>1, <2>3, <2>5 DEF WalkInv, Progress
<1>6. CASE Kill
  <2>1. PICK p \in Pids : /\ p = Head(list) /\ sent' = sent \union {p}
                          /\ Elems(list) = Elems(list') \union {p}
    BY <1>1, <1>6, SignalElems
  <2>2. UNCHANGED <<parent, stayed, pc>> /\ pc = "kill" BY <1>6 DEF Kill
  <2>3. doomed' = IF Reached(p) THEN doomed \union {p} ELSE doomed BY <1>6, <2>1 DEF Kill
  <2>4. p \in stayed => p \in doomed' \union Guarded
    BY <1>1, <2>3, TreeFacts DEF WalkInv, Rooted, TypeInv, Reached
  <2>5. Rooted' BY <1>1, <2>2, RootedStep DEF WalkInv
  <2>6. doomed \subseteq doomed' BY <2>3
  <2>7. QED BY <2>1, <2>2, <2>4, <2>5, <2>6 DEF WalkInv, Progress
<1>7. CASE KillDone
  <2>1. /\ UNCHANGED <<parent, stayed, sent, doomed>> /\ list = <<>>
        /\ pc = "kill" /\ pc' = "done"
    BY <1>7 DEF KillDone
  <2>2. Rooted' BY <1>1, <2>1, RootedStep DEF WalkInv
  <2>3. stayed \subseteq sent BY <2>1, ElemsEmpty DEF WalkInv, Progress
  <2>4. stayed \subseteq doomed \union Guarded BY <2>1, <2>3 DEF WalkInv, Progress
  <2>5. QED BY <2>1, <2>2, <2>4 DEF WalkInv, Progress
<1>8. QED
  BY <1>2, <1>3, <1>4, <1>5, <1>6, <1>7, WalkAsk, WalkReturn DEF ReaperStep

LEMMA WalkNext == ASSUME WalkInv, [ReaperNext]_reapVars PROVE WalkInv'
<1>1. CASE UNCHANGED reapVars
  <2>1. UNCHANGED <<parent, born, doomed, pc, stack, list, sent, termed, stayed>>
    BY <1>1 DEF reapVars
  <2>2. TypeInv' BY TypeNext DEF WalkInv, Rooted
  <2>3. Rooted' BY <2>1, <2>2, RootedStep DEF WalkInv
  <2>4. UNCHANGED <<Found, Unasked>> BY <2>1 DEF Found, OnStack, Unasked
  <2>5. QED BY <2>1, <2>3, <2>4 DEF WalkInv, Progress, Pending
<1>2. QED BY <1>1, WalkScene, WalkStep DEF ReaperNext

(* Each walk finds every process that descends from a shell throughout: it *)
(* is signalled, unless it is somebody else's.                             *)
THEOREM NothingOverlooked == ReaperSpec => []NoneOverlooked
<1>1. ReaperInit => WalkInv BY WalkInit
<1>2. WalkInv /\ [ReaperNext]_reapVars => WalkInv' BY WalkNext
<1>3. WalkInv => NoneOverlooked BY ListedIsElems DEF WalkInv, Progress, NoneOverlooked
<1>4. QED BY <1>1, <1>2, <1>3, PTL DEF ReaperSpec

-----------------------------------------------------------------------------
(* The grace.  What was there at the beginning and still descends from a   *)
(* shell has stayed all through the first walk; what of it is left for the *)
(* second was asked to stop in the first.                                  *)
GraceInv ==
    /\ pc \in {"term", "sleep"} => pass = 1
    /\ pc \in {"kill", "done"} => pass = 2
    /\ first \subseteq 1..born
    /\ pass = 1 => Tree \intersect first \subseteq stayed
    /\ pass = 2 => lineage \intersect first \subseteq termed \union Guarded
    /\ GraceBeforeKill

LEMMA GraceInit == ASSUME ReaperInit PROVE GraceInv
<1>1. TypeInv BY TypeInit
<1>2. Tree \subseteq 1..born BY <1>1, TreeAims DEF TypeInv
<1>3. QED BY <1>2 DEF ReaperInit, GraceInv, GraceBeforeKill

LEMMA GraceScene ==
    ASSUME TypeInv, GraceInv, NEW p \in Pids, Fork(p) \/ Exit(p) PROVE GraceInv'
<1>1. /\ UNCHANGED <<pc, pass, termed, first>>
      /\ stayed' = stayed \intersect Tree' /\ doomed' \subseteq doomed
  BY DEF Fork, Exit, calls
<1>2. born \in Nat BY ReaperConstants DEF TypeInv, TableOK
<1>3. CASE Fork(p)
  <2>1. born' = born + 1 /\ lineage' \subseteq lineage \union {born + 1} BY <1>3 DEF Fork
  <2>2. Tree' \subseteq Tree \union {born + 1} BY <1>3, ForkTree DEF TypeInv
  <2>3. born + 1 \notin first BY <1>2 DEF GraceInv
  <2>4. first' \subseteq 1..born' BY <1>1, <1>2, <2>1 DEF GraceInv
  <2>5. Tree' \intersect first \subseteq Tree BY <2>2, <2>3
  <2>6. lineage' \intersect first \subseteq lineage BY <2>1, <2>3
  <2>7. QED BY <1>1, <2>4, <2>5, <2>6 DEF GraceInv, GraceBeforeKill
<1>4. CASE Exit(p)
  <2>1. UNCHANGED <<born, lineage>> BY <1>4 DEF Exit
  <2>2. Tree' \subseteq Tree BY <1>4, ExitTree DEF TypeInv
  <2>3. QED BY <1>1, <2>1, <2>2 DEF GraceInv, GraceBeforeKill
<1>5. QED BY <1>3, <1>4

LEMMA GraceStep ==
    ASSUME AimInv, WalkInv, GraceInv, ReaperStep PROVE GraceInv'
<1>1. TypeInv BY DEF AimInv
<1>2. CASE Ask \/ Return \/ TermDone \/ KillDone
  <2>1. UNCHANGED <<parent, born, doomed, stayed, lineage, first, pass, termed>>
    BY <1>2 DEF Ask, Return, TermDone, KillDone, table
  <2>2. UNCHANGED Tree BY <2>1 DEF Tree, Closed
  <2>3. \/ pc' = pc
        \/ pc = "term" /\ pc' = "sleep"
        \/ pc = "kill" /\ pc' = "done"
    BY <1>2 DEF Ask, Return, TermDone, KillDone
  <2>4. QED BY <2>1, <2>2, <2>3 DEF GraceInv, GraceBeforeKill
<1>3. CASE WalkDone
  <2>1. UNCHANGED <<parent, born, doomed, stayed, lineage, first, pass, termed>>
    BY <1>3 DEF WalkDone, table
  <2>2. UNCHANGED Tree BY <2>1 DEF Tree, Closed
  <2>3. pc' = IF pass = 1 THEN "term" ELSE "kill" BY <1>3 DEF WalkDone
  <2>4. pass \in {1, 2} BY <1>1 DEF TypeInv, ReaperTypeOK
  <2>5. QED BY <2>1, <2>2, <2>3, <2>4 DEF GraceInv, GraceBeforeKill
<1>4. CASE Term
  <2>1. UNCHANGED <<parent, born, doomed, stayed, lineage, first, pc, pass>>
    BY <1>4 DEF Term, table
  <2>2. UNCHANGED Tree BY <2>1 DEF Tree, Closed
  <2>3. termed \subseteq termed' BY <1>4 DEF Term
  <2>4. QED BY <2>1, <2>2, <2>3 DEF GraceInv, GraceBeforeKill
<1>5. CASE Wake
  <2>1. /\ UNCHANGED <<parent, born, doomed, first, termed>>
        /\ lineage' = Tree /\ pc = "sleep" /\ pc' = "walk" /\ pass' = 2
    BY <1>5 DEF Wake
  <2>2. Tree \intersect first \subseteq stayed BY <2>1 DEF GraceInv
  <2>3. stayed \subseteq termed \union Guarded BY <2>1 DEF WalkInv, Progress
  <2>4. lineage' \intersect first \subseteq termed \union Guarded BY <2>1, <2>2, <2>3
  <2>5. QED BY <2>1, <2>4 DEF GraceInv, GraceBeforeKill
<1>6. CASE Kill
  <2>1. UNCHANGED <<born, lineage, first, pc, pass, termed>> /\ pc = "kill" /\ pass = 2
    BY <1>6 DEF Kill, GraceInv
  <2>2. PICK p \in Pids : p = Head(list) /\ Elems(list) = Elems(list') \union {p}
    BY <1>1, <1>6, SignalElems
  <2>3. p \in lineage BY <2>2 DEF AimInv
  <2>4. doomed' = IF Reached(p) THEN doomed \union {p} ELSE doomed BY <1>6, <2>2 DEF Kill
  <2>5. Reached(p) /\ p \in first => p \in termed
    BY <2>1, <2>3 DEF GraceInv, Reached
  <2>6. GraceBeforeKill' BY <2>1, <2>4, <2>5 DEF GraceInv, GraceBeforeKill
  <2>7. QED BY <2>1, <2>6 DEF GraceInv
<1>7. QED BY <1>2, <1>3, <1>4, <1>5, <1>6 DEF ReaperStep

LEMMA GraceNext ==
    ASSUME AimInv, WalkInv, GraceInv, [ReaperNext]_reapVars PROVE GraceInv'
<1>1. CASE UNCHANGED reapVars
  <2>1. UNCHANGED <<parent, born, doomed, pc, pass, termed, first, stayed, lineage>>
    BY <1>1 DEF reapVars
  <2>2. UNCHANGED Tree BY <2>1 DEF Tree, Closed
  <2>3. QED BY <2>1, <2>2 DEF GraceInv, GraceBeforeKill
<1>2. QED BY <1>1, GraceScene, GraceStep DEF ReaperNext, AimInv

(* What was there when the reap began is killed only after it was asked to *)
(* stop.                                                                   *)
THEOREM KilledOnlyAfterGrace == ReaperSpec => []GraceBeforeKill
<1> DEFINE Inv == AimInv /\ WalkInv /\ GraceInv
<1>1. ReaperInit => Inv BY AimInit, WalkInit, GraceInit
<1>2. Inv /\ [ReaperNext]_reapVars => Inv' BY AimNext, WalkNext, GraceNext
<1>3. Inv => GraceBeforeKill BY DEF GraceInv
<1>4. QED BY <1>1, <1>2, <1>3, PTL DEF ReaperSpec

=============================================================================
