---------------------------- MODULE ManifestProofs ----------------------------
(***************************************************************************)
(* The launch order is correct for every depends_on graph.  The recursive  *)
(* functions of TopologicalOrder are unfolded with RecursionUnfolds and    *)
(* followed by induction: Declared lists a set in ascending order, and     *)
(* Ordering holds after every turn of the loop of Kahn's algorithm.        *)
(* The validator's search reports a cycle exactly when there is one:       *)
(* Searched holds after every step of it, and says that the black services *)
(* have no trap.                                                           *)
(* The manifest read from any two files lets the overlay win and keeps     *)
(* names unique: Placed and Grown hold after every turn of the folds.      *)
(***************************************************************************)
EXTENDS CycleCheck, Manifest, ListLemmas

(* The list of T's members in ascending order.                             *)
Ascending(list, T) ==
    /\ list \in Seq(T)
    /\ \A s \in T : \E i \in 1..Len(list) : list[i] = s
    /\ \A i, j \in 1..Len(list) : i < j => list[i] < list[j]
    /\ Len(list) = Cardinality(T)

LEMMA DeclaredIsAscending ==
    ASSUME NEW N \in Nat, NEW T \in SUBSET (1..N)
    PROVE  Ascending(Declared(N, T), T)
<1> DEFINE Turn(h) == [n \in 0..N |-> IF n = 0 THEN <<>>
                                      ELSE IF n \in T THEN Append(h[n - 1], n)
                                      ELSE h[n - 1]]
           kept == CHOOSE h : h = Turn(h)
           next == [p \in Nat \X Seq(Nat) |-> IF p[1] \in T THEN Append(p[2], p[1]) ELSE p[2]]
<1>1. Declared(N, T) = kept[N] BY DEF Declared
<1>2. \E h : h = Turn(h)
  <2>1. next \in [Nat \X Seq(Nat) -> Seq(Nat)] /\ <<>> \in Seq(Nat) OBVIOUS
  <2>2. \E f : Unfolds(f, <<>>, next, Seq(Nat), N)
    <3> DEFINE Lists == Seq(Nat)
    <3>1. next \in [Nat \X Lists -> Lists] /\ <<>> \in Lists BY <2>1
    <3> HIDE DEF next, Lists
    <3>2. \E f : Unfolds(f, <<>>, next, Lists, N) BY <3>1, RecursionUnfolds
    <3>3. QED BY <3>2 DEF Lists
  <2>3. PICK f : Unfolds(f, <<>>, next, Seq(Nat), N) BY <2>2
  <2>0. f \in [0..N -> Seq(Nat)] BY <2>3 DEF Unfolds
  <2>4. ASSUME NEW i \in 1..N
        PROVE next[<<i, f[i - 1]>>] = IF i \in T THEN Append(f[i - 1], i) ELSE f[i - 1]
    <3>1. i - 1 \in 0..N /\ i \in Nat OBVIOUS
    <3>2. f[i - 1] \in Seq(Nat) BY <2>0, <3>1
    <3>3. QED BY <3>1, <3>2
  <2>5. f = Turn(f)
    <3>1. ASSUME NEW i \in 0..N PROVE Turn(f)[i] = IF i = 0 THEN <<>> ELSE next[<<i, f[i - 1]>>]
      BY <2>4
    <3>2. Turn(f) = [i \in 0..N |-> IF i = 0 THEN <<>> ELSE next[<<i, f[i - 1]>>]]
      <4> HIDE DEF next
      <4>1. QED BY <3>1
    <3> HIDE DEF next, Turn
    <3>3. QED BY <2>3, <3>2 DEF Unfolds
  <2> HIDE DEF Turn
  <2>6. QED BY <2>5
<1> HIDE DEF Turn
<1>3. kept = Turn(kept) BY <1>2
<1> HIDE DEF kept
<1>4. \A n \in 0..N : kept[n] = IF n = 0 THEN <<>>
                                ELSE IF n \in T THEN Append(kept[n - 1], n)
                                ELSE kept[n - 1]
  BY <1>3 DEF Turn
<1> DEFINE upto(n) == T \cap (1..n)
           D == {n \in Nat : n <= N => Ascending(kept[n], upto(n))}
<1>5. 0 \in D
  <2>1. upto(0) = {} /\ kept[0] = <<>> BY <1>4
  <2>2. Cardinality({}) = 0 BY FS_EmptySet
  <2> HIDE DEF upto
  <2>3. Ascending(<<>>, {}) BY <2>2 DEF Ascending
  <2>4. QED BY <2>1, <2>3
<1>6. ASSUME NEW n \in Nat, n \in D PROVE n + 1 \in D
  <2> SUFFICES ASSUME n + 1 <= N PROVE Ascending(kept[n + 1], upto(n + 1))
    OBVIOUS
  <2>1. Ascending(kept[n], upto(n)) BY <1>6
  <2>2. kept[n + 1] = IF n + 1 \in T THEN Append(kept[n], n + 1) ELSE kept[n]
    BY <1>4
  <2>3. CASE n + 1 \notin T
    <3>1. upto(n + 1) = upto(n) BY <2>3
    <3>2. QED BY <2>1, <2>2, <2>3, <3>1
  <2>4. CASE n + 1 \in T
    <3> DEFINE U == upto(n)
               list == kept[n]
    <3>1. /\ upto(n + 1) = U \cup {n + 1} /\ n + 1 \notin U
          /\ U \subseteq 1..N /\ \A s \in U : s < n + 1 /\ s \in Nat
      BY <2>4
    <3> HIDE DEF U, list
    <3>2. IsFiniteSet(U)
      <4>1. IsFiniteSet(1..N) BY FS_Interval
      <4>0. U \in SUBSET (1..N) BY <3>1
      <4>2. QED BY <4>0, <4>1, FS_Subset
    <3>3. Cardinality(U \cup {n + 1}) = Cardinality(U) + 1 BY <3>1, <3>2, FS_AddElement
    <3>4. list \in Seq(U) /\ Len(list) \in Nat BY <2>1 DEF Ascending, U, list
    <3> DEFINE longer == Append(list, n + 1)
    <3>5. /\ longer \in Seq(U \cup {n + 1}) /\ Len(longer) = Len(list) + 1
          /\ longer[Len(list) + 1] = n + 1 /\ \A i \in 1..Len(list) : longer[i] = list[i]
      BY <3>4
    <3> HIDE DEF longer
    <3>6. \A i \in 1..Len(list) : list[i] \in U /\ list[i] < n + 1 BY <3>1, <3>4
    <3>7. Ascending(longer, U \cup {n + 1})
      <4>1. Ascending(list, U) BY <2>1 DEF U, list
      <4>2. \A s \in U \cup {n + 1} : \E i \in 1..Len(longer) : longer[i] = s
        BY <4>1, <3>4, <3>5 DEF Ascending
      <4>3. ASSUME NEW i \in 1..Len(longer), NEW j \in 1..Len(longer), i < j
            PROVE  longer[i] < longer[j]
        <5>1. i \in 1..Len(list) BY <3>4, <3>5, <4>3
        <5>2. CASE j \in 1..Len(list) BY <4>1, <4>3, <5>1, <5>2, <3>5 DEF Ascending
        <5>3. CASE j = Len(list) + 1 BY <5>1, <5>3, <3>5, <3>6
        <5>4. QED BY <5>2, <5>3, <3>4, <3>5
      <4>4. QED BY <4>1, <4>2, <4>3, <3>3, <3>5 DEF Ascending
    <3>8. QED BY <2>2, <2>4, <3>1, <3>7 DEF longer, list
  <2>5. QED BY <2>3, <2>4
<1> HIDE DEF D
<1>7. \A n \in Nat : n \in D BY <1>5, <1>6, SetInduction
<1>8. Ascending(kept[N], upto(N)) BY <1>7 DEF D
<1>9. upto(N) = T OBVIOUS
<1>10. QED BY <1>1, <1>8, <1>9

-----------------------------------------------------------------------------
(* Where s names a service of T that is not in X.                          *)
OpenAt(D, T, s, X) == {i \in LocalAt(D, T, s, AtLaunch) : D[s][i][2] \notin X}

(* A depends_on graph and the services to launch.                          *)
Graph(D, T) == D \in [Services -> Seq(Pattern)] /\ T \in SUBSET Services

LEMMA OpenCounts ==
    ASSUME NEW D, NEW T, Graph(D, T), NEW s \in T, NEW X
    PROVE  /\ IsFiniteSet(OpenAt(D, T, s, X))
           /\ Cardinality(OpenAt(D, T, s, X)) \in Nat
           /\ Cardinality(OpenAt(D, T, s, X)) = 0 <=> OpenAt(D, T, s, X) = {}
<1>1. Len(D[s]) \in Nat
  <2>1. D[s] \in Seq(Pattern) BY DEF Graph
  <2>2. QED BY <2>1
<1>2. OpenAt(D, T, s, X) \in SUBSET (1..Len(D[s])) BY DEF OpenAt, LocalAt
<1>3. IsFiniteSet(1..Len(D[s])) BY <1>1, FS_Interval
<1>4. IsFiniteSet(OpenAt(D, T, s, X)) BY <1>2, <1>3, FS_Subset
<1>5. QED BY <1>4, FS_CardinalityType, FS_EmptySet

(* What the queue's head frees is what the others no longer wait for.      *)
LEMMA OpenShrinks ==
    ASSUME NEW D, NEW T, Graph(D, T), NEW s \in T, NEW X, NEW name, name \notin X
    PROVE  Cardinality(OpenAt(D, T, s, X)) - Dependents(D, T, name)[s]
              = Cardinality(OpenAt(D, T, s, X \cup {name}))
<1> DEFINE here == {i \in LocalAt(D, T, s, AtLaunch) : D[s][i][2] = name}
           less == OpenAt(D, T, s, X \cup {name})
           more == OpenAt(D, T, s, X)
<1>1. Dependents(D, T, name)[s] = Cardinality(here) BY DEF Dependents
<1>2. more = less \cup here /\ less \cap here = {} /\ here \in SUBSET more BY DEF OpenAt
<1>3. IsFiniteSet(more) /\ IsFiniteSet(less) BY OpenCounts
<1>4. IsFiniteSet(here) BY <1>2, <1>3, FS_Subset
<1> HIDE DEF here, less, more
<1>5. Cardinality(less \cup here) = Cardinality(less) + Cardinality(here) - Cardinality(less \cap here)
  BY <1>3, <1>4, FS_Union
<1>6. Cardinality(less \cap here) = 0 BY <1>2, FS_EmptySet
<1>7. Cardinality(less) \in Nat /\ Cardinality(here) \in Nat BY <1>3, <1>4, FS_CardinalityType
<1>8. Cardinality(more) - Cardinality(here) = Cardinality(less) BY <1>2, <1>5, <1>6, <1>7
<1>9. QED BY <1>1, <1>8 DEF less, more

LEMMA AscendingNoRepeat ==
    ASSUME NEW T \in SUBSET Nat, NEW list, Ascending(list, T)
    PROVE  NoRepeat(list)
<1> SUFFICES ASSUME NEW i \in 1..Len(list), NEW j \in 1..Len(list), list[i] = list[j]
             PROVE  i = j
  BY DEF NoRepeat
<1>1. Len(list) \in Nat /\ list[i] \in T /\ list[j] \in T BY DEF Ascending
<1>0. list[i] \in Nat /\ list[j] \in Nat BY <1>1
<1>2. ~(list[i] < list[j]) /\ ~(list[j] < list[i]) BY <1>0
<1>3. ~(i < j) /\ ~(j < i) BY <1>2 DEF Ascending
<1>4. QED BY <1>1, <1>3

(* What was taken from the queue and what is in it: no service twice, and  *)
(* exactly those that wait for no other any more.                          *)
Queued(T, degree, queue) ==
    /\ queue \in Seq(T) /\ NoRepeat(queue)
    /\ \A s \in T : degree[s] = 0 <=> Holds(queue, s)

(* The degrees count what is not in X.                                     *)
Counted(D, T, degree, X) ==
    /\ degree \in [T -> Nat]
    /\ \A s \in T : degree[s] = Cardinality(OpenAt(D, T, s, X))

(* Each comes after those it names.                                        *)
After(D, T, list) ==
    \A j \in 1..Len(list) : \A i \in LocalAt(D, T, list[j], AtLaunch) :
        \E k \in 1..(j - 1) : list[k] = D[list[j]][i][2]

BeginsWith(list, start) ==
    Len(start) <= Len(list) /\ \A i \in 1..Len(start) : list[i] = start[i]

(* Where the services stand after n turns of the loop.                     *)
Ordering(D, T, L, n) ==
    /\ L.ready \in Seq(T) /\ L.ordered \in Seq(T)
    /\ Queued(T, L.degree, L.ordered \o L.ready)
    /\ Counted(D, T, L.degree, Range(L.ordered))
    /\ After(D, T, L.ordered)
    /\ Len(L.ordered) = n \/ L.ready = <<>>
    /\ BeginsWith(L.ordered \o L.ready, Start(D, T).ready)

LEMMA ServicesLen == ASSUME NEW D, NEW T, Graph(D, T) PROVE Len(D) = NumServices
<1>1. NumServices \in Nat BY LaunchOrderConstants
<1>2. D \in Seq(Seq(Pattern)) BY <1>1 DEF Services, Graph
<1>3. DOMAIN D = 1..NumServices BY DEF Services, Graph
<1>4. QED BY <1>1, <1>2, <1>3

LEMMA StartIsOrdering ==
    ASSUME NEW D, NEW T, Graph(D, T)
    PROVE  Ordering(D, T, Start(D, T), 0)
<1> DEFINE L == Start(D, T)
           F == {s \in T : InDegrees(D, T)[s] = 0}
<1>1. F \in SUBSET (1..NumServices) /\ NumServices \in Nat
  BY LaunchOrderConstants DEF Services, Graph
<1>2. L.ready = Declared(NumServices, F) /\ L.degree = InDegrees(D, T) /\ L.ordered = <<>>
  BY ServicesLen DEF Start
<1>3. Ascending(L.ready, F) BY <1>1, <1>2, DeclaredIsAscending
<1>4. L.ready \in Seq(F) /\ F \subseteq T BY <1>3 DEF Ascending
<1>5. L.ready \in Seq(T) /\ L.ordered \in Seq(T) /\ L.ordered \o L.ready = L.ready
      /\ Len(L.ordered) = 0
  BY <1>2, <1>4
<1>6. Range(L.ordered) = {} BY <1>2 DEF Range
<1>7. Counted(D, T, L.degree, {})
  <2>1. \A s \in T : OpenAt(D, T, s, {}) = LocalAt(D, T, s, AtLaunch) BY DEF OpenAt
  <2>2. \A s \in T : Cardinality(OpenAt(D, T, s, {})) \in Nat BY OpenCounts
  <2>3. L.degree = [s \in T |-> Cardinality(OpenAt(D, T, s, {}))] BY <1>2, <2>1 DEF InDegrees
  <2>4. QED BY <2>2, <2>3 DEF Counted
<1>8. Queued(T, L.degree, L.ready)
  <2>1. \A i \in 1..Len(L.ready) : L.ready[i] \in F BY <1>4
  <2>2. F \in SUBSET Nat BY <1>1
  <2>3. NoRepeat(L.ready) BY <1>3, <2>2, AscendingNoRepeat
  <2>4. \A s \in F : \E i \in 1..Len(L.ready) : L.ready[i] = s BY <1>3 DEF Ascending
  <2>5. \A s \in T : s \in F <=> L.degree[s] = 0 BY <1>2
  <2>6. QED BY <1>5, <2>1, <2>3, <2>4, <2>5 DEF Queued, Holds
<1> HIDE DEF L, F
<1>9. L.ready = Start(D, T).ready /\ Len(L.ready) \in Nat BY <1>5 DEF L
<1>10. BeginsWith(L.ready, Start(D, T).ready) BY <1>9 DEF BeginsWith
<1>11. After(D, T, L.ordered) BY <1>5 DEF After
<1>12. Ordering(D, T, L, 0) BY <1>5, <1>6, <1>7, <1>8, <1>10, <1>11 DEF Ordering
<1>13. QED BY <1>12 DEF L

(* A turn of the loop moves the head of the queue and appends what waited  *)
(* for nothing else.                                                       *)
Moved(T, ordered, ready, freed) ==
    LET queue == ordered \o ready
        taken == Append(ordered, Head(ready))
        rest == Tail(ready) \o freed
    IN  /\ taken \in Seq(T) /\ rest \in Seq(T)
        /\ taken \o rest = queue \o freed
        /\ Range(taken) = Range(ordered) \cup {Head(ready)}
        /\ queue[Len(ordered) + 1] = Head(ready) /\ Len(ordered) + 1 \in 1..Len(queue)
        /\ Len(ordered) \in Nat /\ Head(ready) \in T
        /\ Len(taken) = Len(ordered) + 1 /\ taken[Len(ordered) + 1] = Head(ready)
        /\ \A i \in 1..Len(ordered) :
              taken[i] = ordered[i] /\ queue[i] = ordered[i] /\ i \in 1..Len(queue)
        /\ Range(ordered) = {ordered[i] : i \in 1..Len(ordered)}

LEMMA QueueMoves ==
    ASSUME NEW T, NEW ordered \in Seq(T), NEW ready \in Seq(T), ready # <<>>,
           NEW freed \in Seq(T)
    PROVE  Moved(T, ordered, ready, freed)
<1> DEFINE queue == ordered \o ready
           taken == Append(ordered, Head(ready))
           rest == Tail(ready) \o freed
<1>1. Head(ready) \in T /\ Tail(ready) \in Seq(T) OBVIOUS
<1>2. taken \in Seq(T) /\ rest \in Seq(T) BY <1>1
<1>4. taken \o rest = queue \o freed
  <2> DEFINE one == taken \o rest
             other == queue \o freed
  <2>1. one \in Seq(T) /\ other \in Seq(T) BY <1>1, <1>2
  <2>2. Len(one) = Len(other) BY <1>1
  <2>3. \A i \in 1..Len(one) : one[i] = other[i] BY <1>1
  <2> HIDE DEF one, other
  <2>4. one = other BY <2>1, <2>2, <2>3, SeqEqual
  <2>5. QED BY <2>4 DEF one, other
<1>5. Range(taken) = Range(ordered) \cup {Head(ready)}
  <2>1. DOMAIN taken = 1..(Len(ordered) + 1) /\ DOMAIN ordered = 1..Len(ordered)
        /\ Len(ordered) \in Nat
    BY <1>1
  <2>2. \A i \in 1..Len(ordered) : taken[i] = ordered[i] BY <1>1
  <2>3. taken[Len(ordered) + 1] = Head(ready) BY <1>1
  <2> HIDE DEF taken
  <2>4. ASSUME NEW x \in Range(taken) PROVE x \in Range(ordered) \cup {Head(ready)}
    <3>1. PICK i \in 1..(Len(ordered) + 1) : x = taken[i] BY <2>1 DEF Range
    <3>2. CASE i = Len(ordered) + 1 BY <3>1, <3>2, <2>3
    <3>3. CASE i \in 1..Len(ordered) BY <3>1, <3>3, <2>1, <2>2 DEF Range
    <3>4. QED BY <3>2, <3>3, <2>1
  <2>5. Head(ready) \in Range(taken)
    <3>1. Len(ordered) + 1 \in DOMAIN taken BY <2>1
    <3>2. QED BY <3>1, <2>3 DEF Range
  <2>6. ASSUME NEW x \in Range(ordered) PROVE x \in Range(taken)
    <3>1. PICK i \in 1..Len(ordered) : x = ordered[i] BY <2>1 DEF Range
    <3>2. i \in DOMAIN taken /\ x = taken[i] BY <3>1, <2>1, <2>2
    <3>3. QED BY <3>2 DEF Range
  <2>7. QED BY <2>4, <2>5, <2>6
<1>6. queue[Len(ordered) + 1] = Head(ready) /\ Len(ordered) + 1 \in 1..Len(queue)
  OBVIOUS
<1>7. \A i \in 1..Len(ordered) : queue[i] = ordered[i] /\ i \in 1..Len(queue) OBVIOUS
<1>8. /\ Len(ordered) \in Nat /\ Len(taken) = Len(ordered) + 1
      /\ taken[Len(ordered) + 1] = Head(ready)
      /\ \A i \in 1..Len(ordered) : taken[i] = ordered[i]
  BY <1>1
<1>9. Range(ordered) = {ordered[i] : i \in 1..Len(ordered)} BY DEF Range
<1>10. QED BY <1>1, <1>2, <1>4, <1>5, <1>6, <1>7, <1>8, <1>9 DEF Moved

LEMMA TurnIsOrdering ==
    ASSUME NEW D, NEW T, Graph(D, T), NEW L, NEW n \in Nat, Ordering(D, T, L, n)
    PROVE  Ordering(D, T, Pop(D, T, L), n + 1)
<1>1. CASE L.ready = <<>>
  <2>1. Pop(D, T, L) = L BY <1>1 DEF Pop
  <2>2. QED BY <1>1, <2>1 DEF Ordering
<1>2. CASE L.ready # <<>>
  <2> DEFINE name == Head(L.ready)
             X == Range(L.ordered)
             after == [s \in T |-> L.degree[s] - Dependents(D, T, name)[s]]
             F == {s \in T : L.degree[s] > 0 /\ after[s] = 0}
             freed == Declared(NumServices, F)
             queue == L.ordered \o L.ready
             taken == Append(L.ordered, name)
             rest == Tail(L.ready) \o freed
             m == Len(L.ordered)
  <2>1. Pop(D, T, L) = [ready |-> rest, degree |-> after, ordered |-> taken]
    BY <1>2, ServicesLen DEF Pop
  <2>2. /\ L.ready \in Seq(T) /\ L.ordered \in Seq(T) /\ L.degree \in [T -> Nat]
        /\ queue \in Seq(T) /\ NoRepeat(queue) /\ m = n
        /\ \A s \in T : L.degree[s] = Cardinality(OpenAt(D, T, s, X))
        /\ \A s \in T : L.degree[s] = 0 <=> Holds(queue, s)
        /\ After(D, T, L.ordered) /\ BeginsWith(queue, Start(D, T).ready)
    BY <1>2 DEF Ordering, Queued, Counted
  <2>3. F \in SUBSET (1..NumServices) /\ F \subseteq Nat /\ F \in SUBSET T /\ NumServices \in Nat
    <3>1. F \subseteq T BY DEF F
    <3> HIDE DEF F
    <3>2. QED BY <3>1, LaunchOrderConstants DEF Services, Graph
  <2>4. Ascending(freed, F) BY <2>3, DeclaredIsAscending
  <2>5. freed \in Seq(F) /\ NoRepeat(freed)
    <3>1. F \in SUBSET Nat BY <2>3
    <3> HIDE DEF F, freed
    <3>2. QED BY <2>4, <3>1, AscendingNoRepeat DEF Ascending
  <2>6. freed \in Seq(T)
    <3> HIDE DEF F, freed
    <3>1. F \subseteq T BY <2>3
    <3>2. QED BY <2>5, <3>1, SeqMonotonic
  <2> HIDE DEF freed
  <2>7. /\ taken \in Seq(T) /\ rest \in Seq(T)
        /\ taken \o rest = queue \o freed
        /\ Range(taken) = X \cup {name}
        /\ queue[m + 1] = name /\ m + 1 \in 1..Len(queue)
        /\ m \in Nat /\ name \in T
        /\ Len(taken) = m + 1 /\ taken[m + 1] = name
        /\ \A i \in 1..m :
              taken[i] = L.ordered[i] /\ queue[i] = L.ordered[i] /\ i \in 1..Len(queue)
        /\ X = {L.ordered[i] : i \in 1..m}
    <3>1. Moved(T, L.ordered, L.ready, freed) BY <1>2, <2>2, <2>6, QueueMoves
    <3>2. QED BY <3>1 DEF Moved
  <2> HIDE DEF name, X, F, queue, taken, rest, m
  <2>10. name \notin X
    <3>1. SUFFICES ASSUME NEW i \in 1..m, L.ordered[i] = name PROVE FALSE
      BY <2>7
    <3>2. queue[i] = queue[m + 1] BY <2>7, <3>1
    <3>3. i = m + 1 BY <2>2, <2>7, <3>2 DEF NoRepeat
    <3>4. QED BY <2>7, <3>3
  <2>11. Counted(D, T, after, X \cup {name})
    <3>1. ASSUME NEW s \in T PROVE after[s] = Cardinality(OpenAt(D, T, s, X \cup {name}))
      <4>1. Cardinality(OpenAt(D, T, s, X)) - Dependents(D, T, name)[s]
              = Cardinality(OpenAt(D, T, s, X \cup {name}))
        BY <2>10, OpenShrinks
      <4>2. after[s] = L.degree[s] - Dependents(D, T, name)[s] OBVIOUS
      <4>3. L.degree[s] = Cardinality(OpenAt(D, T, s, X)) BY <2>2
      <4> HIDE DEF after
      <4>4. QED BY <4>1, <4>2, <4>3
    <3>2. \A s \in T : after[s] \in Nat BY <3>1, OpenCounts
    <3>3. after \in [T -> Nat] BY <3>2
    <3>4. QED BY <3>1, <3>3 DEF Counted
  <2>12. \A s \in T : after[s] = 0 <=> L.degree[s] = 0 \/ s \in F
    <3> SUFFICES ASSUME NEW s \in T PROVE after[s] = 0 <=> L.degree[s] = 0 \/ s \in F
      OBVIOUS
    <3>1. L.degree[s] \in Nat BY <2>2
    <3>2. ASSUME L.degree[s] = 0 PROVE after[s] = 0
      <4>1. OpenAt(D, T, s, X) = {} BY <2>2, <3>2, OpenCounts
      <4>2. OpenAt(D, T, s, X \cup {name}) = {} BY <4>1 DEF OpenAt
      <4>3. QED BY <4>2, <2>11, FS_EmptySet DEF Counted
    <3>3. s \in F <=> L.degree[s] > 0 /\ after[s] = 0 BY DEF F
    <3> HIDE DEF after
    <3>4. QED BY <3>1, <3>2, <3>3
  <2> HIDE DEF after
  <2>13. Queued(T, after, queue \o freed)
    <3>1. \A i \in 1..Len(freed) : freed[i] \in F BY <2>5
    <3>2. \A s \in F : s \in T /\ L.degree[s] # 0
      <4>1. \A s \in F : s \in T /\ L.degree[s] > 0 BY DEF F
      <4>2. QED BY <2>2, <4>1
    <3>3. \A i \in 1..Len(queue) : queue[i] \in T /\ L.degree[queue[i]] = 0
      BY <2>2 DEF Holds
    <3>4. \A i \in 1..Len(queue), j \in 1..Len(freed) : queue[i] # freed[j]
      BY <3>1, <3>2, <3>3
    <3>5. NoRepeat(queue \o freed) BY <2>2, <2>5, <2>6, <3>4, QueueGrows
    <3>6. \A s : Holds(queue \o freed, s) <=> Holds(queue, s) \/ Holds(freed, s)
      BY <2>2, <2>5, <2>6, <3>4, QueueGrows
    <3>7. \A s : s \in F <=> Holds(freed, s) BY <2>4, <3>1 DEF Ascending, Holds
    <3>8. queue \o freed \in Seq(T) BY <2>2, <2>6
    <3>9. QED BY <2>2, <2>12, <3>5, <3>6, <3>7, <3>8 DEF Queued
  <2>14. After(D, T, taken)
    <3> SUFFICES ASSUME NEW j \in 1..Len(taken), NEW i \in LocalAt(D, T, taken[j], AtLaunch)
                 PROVE  \E k \in 1..(j - 1) : taken[k] = D[taken[j]][i][2]
      BY DEF After
    <3>1. CASE j \in 1..m
      <4>1. taken[j] = L.ordered[j] BY <2>7, <3>1
      <4>2. PICK k \in 1..(j - 1) : L.ordered[k] = D[L.ordered[j]][i][2]
        BY <2>2, <3>1, <4>1 DEF After, m
      <4>3. k \in 1..m BY <2>7, <3>1
      <4>4. QED BY <2>7, <4>1, <4>2, <4>3
    <3>2. CASE j = m + 1
      <4>1. taken[j] = name BY <2>7, <3>2
      <4>2. L.degree[name] = 0 BY <2>2, <2>7 DEF Holds
      <4>3. OpenAt(D, T, name, X) = {} BY <2>2, <2>7, <4>2, OpenCounts
      <4>4. D[name][i][2] \in X BY <4>1, <4>3 DEF OpenAt
      <4>5. PICK k \in 1..m : L.ordered[k] = D[name][i][2] BY <2>7, <4>4
      <4>6. k \in 1..(j - 1) BY <2>7, <3>2
      <4>7. QED BY <2>7, <4>1, <4>5, <4>6
    <3>3. QED BY <2>7, <3>1, <3>2
  <2>15. BeginsWith(queue \o freed, Start(D, T).ready)
    <3> DEFINE start == Start(D, T).ready
    <3>1. Len(start) <= Len(queue) /\ \A i \in 1..Len(start) : queue[i] = start[i]
      BY <2>2 DEF BeginsWith
    <3>2. Len(start) \in Nat
      <4>1. Ordering(D, T, Start(D, T), 0) BY StartIsOrdering
      <4>2. start \in Seq(T) BY <4>1 DEF Ordering
      <4>3. QED BY <4>2
    <3> HIDE DEF start
    <3>3. /\ Len(queue) \in Nat /\ Len(queue) <= Len(queue \o freed)
          /\ \A i \in 1..Len(queue) : (queue \o freed)[i] = queue[i]
      BY <2>2, <2>6
    <3>4. Len(start) <= Len(queue \o freed) BY <2>2, <2>6, <3>1, <3>2
    <3>5. \A i \in 1..Len(start) : i \in 1..Len(queue) BY <3>1, <3>2, <3>3
    <3>6. QED BY <3>1, <3>3, <3>4, <3>5 DEF BeginsWith, start
  <2>16. Len(taken) = n + 1 BY <2>2, <2>7
  <2> DEFINE M == [ready |-> rest, degree |-> after, ordered |-> taken]
  <2>17. M.ready = rest /\ M.degree = after /\ M.ordered = taken OBVIOUS
  <2> HIDE DEF M
  <2>18. Ordering(D, T, M, n + 1)
    BY <2>7, <2>11, <2>13, <2>14, <2>15, <2>16, <2>17 DEF Ordering
  <2>19. QED BY <2>1, <2>18 DEF M
<1>3. QED BY <1>1, <1>2

(* The states of the loop.                                                 *)
Loops(D, T) ==
    {L \in [ready : Seq(T), degree : [T -> Nat], ordered : Seq(T)] :
        \E n \in Nat : Ordering(D, T, L, n)}

LEMMA PopLoops ==
    ASSUME NEW D, NEW T, Graph(D, T), NEW L \in Loops(D, T)
    PROVE  Pop(D, T, L) \in Loops(D, T)
<1>1. PICK n \in Nat : Ordering(D, T, L, n) BY DEF Loops
<1> DEFINE M == Pop(D, T, L)
<1>2. Ordering(D, T, M, n + 1) BY <1>1, TurnIsOrdering
<1>3. M.ready \in Seq(T) /\ M.degree \in [T -> Nat] /\ M.ordered \in Seq(T)
  BY <1>2 DEF Ordering, Counted
<1>4. M = L \/ M = [ready |-> M.ready, degree |-> M.degree, ordered |-> M.ordered]
  BY DEF Pop
<1>5. L = [ready |-> L.ready, degree |-> L.degree, ordered |-> L.ordered] BY DEF Loops
<1> HIDE DEF M
<1> DEFINE lists == Seq(T)
           counts == [T -> Nat]
<1> HIDE DEF lists, counts
<1>6. M = [ready |-> M.ready, degree |-> M.degree, ordered |-> M.ordered] BY <1>4, <1>5
<1>7. M.ready \in lists /\ M.degree \in counts /\ M.ordered \in lists BY <1>3 DEF lists, counts
<1>8. M \in [ready : lists, degree : counts, ordered : lists] BY <1>6, <1>7
<1>9. M \in Loops(D, T) BY <1>2, <1>8 DEF Loops, lists, counts
<1>10. QED BY <1>9 DEF M

LEMMA StartLoops ==
    ASSUME NEW D, NEW T, Graph(D, T)
    PROVE  Start(D, T) \in Loops(D, T)
<1> DEFINE M == Start(D, T)
           lists == Seq(T)
           counts == [T -> Nat]
<1>1. Ordering(D, T, M, 0) BY StartIsOrdering
<1>2. M = [ready |-> M.ready, degree |-> M.degree, ordered |-> M.ordered] BY DEF Start
<1> HIDE DEF M, lists, counts
<1>3. M.ready \in lists /\ M.degree \in counts /\ M.ordered \in lists
  BY <1>1 DEF Ordering, Counted, lists, counts
<1>4. M \in [ready : lists, degree : counts, ordered : lists] BY <1>2, <1>3
<1>5. M \in Loops(D, T) BY <1>1, <1>4 DEF Loops, lists, counts
<1>6. QED BY <1>5 DEF M

(* What the loop has taken when the queue is empty.                        *)
IsDrained(D, T, taken) ==
    /\ taken \in Seq(T) /\ NoRepeat(taken) /\ After(D, T, taken)
    /\ BeginsWith(taken, Start(D, T).ready)
    /\ \A s \in T : Holds(taken, s) <=> OpenAt(D, T, s, Range(taken)) = {}

LEMMA DrainedTakes ==
    ASSUME NEW D, NEW T, Graph(D, T)
    PROVE  IsDrained(D, T, Drained(D, T))
<1> DEFINE C == Cardinality(T)
           Turn(h) == [n \in 0..C |-> IF n = 0 THEN Start(D, T) ELSE Pop(D, T, h[n - 1])]
           loop == CHOOSE h : h = Turn(h)
           S == Loops(D, T)
           next == [p \in Nat \X S |-> Pop(D, T, p[2])]
<1>1. Drained(D, T) = loop[C].ordered BY DEF Drained
<1>2. IsFiniteSet(T) /\ C \in Nat
  <2>1. T \in SUBSET (1..NumServices) BY DEF Graph, Services
  <2>2. IsFiniteSet(1..NumServices) BY LaunchOrderConstants, FS_Interval
  <2>3. IsFiniteSet(T) BY <2>1, <2>2, FS_Subset
  <2>4. QED BY <2>3, FS_CardinalityType
<1> HIDE DEF C
<1>3. \E h : h = Turn(h)
  <2> HIDE DEF S
  <2>1. Start(D, T) \in S BY StartLoops DEF S
  <2>2. next \in [Nat \X S -> S] BY PopLoops DEF S
  <2>3. PICK f : Unfolds(f, Start(D, T), next, S, C)
    <3> HIDE DEF next
    <3>1. QED BY <1>2, <2>1, <2>2, RecursionUnfolds
  <2>4. f \in [0..C -> S] BY <2>3 DEF Unfolds
  <2>5. ASSUME NEW i \in 1..C PROVE next[<<i, f[i - 1]>>] = Pop(D, T, f[i - 1])
    <3>1. i - 1 \in 0..C /\ i \in Nat BY <1>2
    <3>2. f[i - 1] \in S BY <2>4, <3>1
    <3>3. <<i, f[i - 1]>> \in Nat \X S BY <3>1, <3>2
    <3>4. QED BY <3>3
  <2>6. Turn(f) = [i \in 0..C |-> IF i = 0 THEN Start(D, T) ELSE next[<<i, f[i - 1]>>]]
    <3>1. \A i \in 0..C : i # 0 => i \in 1..C BY <1>2
    <3> HIDE DEF next
    <3>2. QED BY <2>5, <3>1
  <2> HIDE DEF next, Turn
  <2>7. f = Turn(f) BY <2>3, <2>6 DEF Unfolds
  <2>8. QED BY <2>7
<1> HIDE DEF Turn
<1>4. loop = Turn(loop) BY <1>3
<1> HIDE DEF loop
<1>5. \A n \in 0..C : loop[n] = IF n = 0 THEN Start(D, T) ELSE Pop(D, T, loop[n - 1])
  BY <1>4 DEF Turn
<1> DEFINE B == {n \in Nat : n <= C => Ordering(D, T, loop[n], n)}
<1>6. 0 \in B BY <1>2, <1>5, StartIsOrdering
<1>7. ASSUME NEW n \in Nat, n \in B PROVE n + 1 \in B
  <2> SUFFICES ASSUME n + 1 <= C PROVE Ordering(D, T, loop[n + 1], n + 1)
    OBVIOUS
  <2>1. Ordering(D, T, loop[n], n) BY <1>2, <1>7
  <2>2. loop[n + 1] = Pop(D, T, loop[n]) BY <1>2, <1>5
  <2>3. QED BY <2>1, <2>2, TurnIsOrdering
<1> HIDE DEF B
<1>8. \A n \in Nat : n \in B BY <1>6, <1>7, SetInduction
<1>9. Ordering(D, T, loop[C], C) BY <1>2, <1>8 DEF B
<1> DEFINE L == loop[C]
           taken == L.ordered
           queue == L.ordered \o L.ready
<1>10. /\ L.ready \in Seq(T) /\ taken \in Seq(T) /\ queue \in Seq(T)
       /\ Queued(T, L.degree, queue) /\ Counted(D, T, L.degree, Range(taken))
       /\ After(D, T, taken)
       /\ Len(taken) = C \/ L.ready = <<>>
       /\ BeginsWith(queue, Start(D, T).ready)
  BY <1>9 DEF Ordering
<1>11. L.ready = <<>>
  <2> SUFFICES ASSUME L.ready # <<>> PROVE FALSE
    OBVIOUS
  <2>1. Len(queue) <= C BY <1>2, <1>10, NoRepeatLen DEF Queued, C
  <2>2. Len(queue) = Len(taken) + Len(L.ready) /\ Len(L.ready) \in Nat \ {0} /\ Len(taken) \in Nat
    BY <1>10
  <2>3. Len(taken) = C BY <1>10
  <2> HIDE DEF queue, taken, L
  <2>4. QED BY <1>2, <2>1, <2>2, <2>3
<1>12. queue = taken BY <1>10, <1>11
<1> HIDE DEF L, queue
<1>13. \A s \in T : Holds(taken, s) <=> OpenAt(D, T, s, Range(taken)) = {}
  BY <1>10, <1>12, OpenCounts DEF Queued, Counted
<1>14. NoRepeat(taken) /\ BeginsWith(taken, Start(D, T).ready) BY <1>10, <1>12 DEF Queued
<1>15. Drained(D, T) = taken BY <1>1 DEF L
<1> HIDE DEF taken
<1>16. taken \in Seq(T) /\ After(D, T, taken) BY <1>10
<1>17. IsDrained(D, T, taken) BY <1>13, <1>14, <1>16 DEF IsDrained
<1>18. QED BY <1>15, <1>17

(* Services that each wait for another one of them wait in a circle.       *)
LEMMA StuckIsCyclic ==
    ASSUME NEW T, IsFiniteSet(T), NEW E, NEW left \in SUBSET T, left # {},
           \A s \in left : \E t \in left : <<s, t>> \in E
    PROVE  \E n \in 1..Cardinality(T) : \E walk \in [0..n -> T] :
              (\A i \in 1..n : <<walk[i - 1], walk[i]>> \in E) /\ walk[0] = walk[n]
<1> DEFINE follower(s) == CHOOSE t \in left : <<s, t>> \in E
           next == [p \in Nat \X left |-> follower(p[2])]
<1>1. PICK first \in left : TRUE OBVIOUS
<1>2. ASSUME NEW s \in left PROVE follower(s) \in left /\ <<s, follower(s)>> \in E
  OBVIOUS
<1> HIDE DEF follower
<1>3. next \in [Nat \X left -> left] BY <1>2
<1>4. \A n \in Nat, s \in left : next[<<n, s>>] = follower(s) OBVIOUS
<1> HIDE DEF next
<1>0. PICK endless : Endless(endless, first, next, left) BY <1>1, <1>3, RecursionExists
<1>5. /\ endless \in [Nat -> left]
      /\ \A n \in Nat : endless[n + 1] = next[<<n + 1, endless[n]>>]
  BY <1>0 DEF Endless
<1>6. ASSUME NEW n \in Nat PROVE <<endless[n], endless[n + 1]>> \in E
  <2>1. endless[n] \in left /\ n + 1 \in Nat BY <1>5
  <2>2. endless[n + 1] = follower(endless[n]) BY <1>4, <1>5, <2>1
  <2>3. QED BY <1>2, <2>1, <2>2
<1>7. endless \in [Nat -> T] BY <1>5
<1>8. PICK x \in Nat, n \in 1..Cardinality(T) : endless[x] = endless[x + n]
  BY <1>7, WalkCloses
<1>9. n \in Nat BY FS_CardinalityType
<1> DEFINE walk == [i \in 0..n |-> endless[x + i]]
<1>10. walk \in [0..n -> T] /\ walk[0] = walk[n] BY <1>7, <1>8, <1>9
<1>11. ASSUME NEW i \in 1..n PROVE <<walk[i - 1], walk[i]>> \in E
  <2>1. x + (i - 1) \in Nat /\ (x + (i - 1)) + 1 = x + i /\ i - 1 \in 0..n /\ i \in 0..n
    BY <1>9
  <2>2. walk[i - 1] = endless[x + (i - 1)] /\ walk[i] = endless[x + i] BY <2>1
  <2> HIDE DEF walk
  <2>3. <<endless[x + (i - 1)], endless[(x + (i - 1)) + 1]>> \in E BY <1>6, <2>1
  <2>4. QED BY <2>1, <2>2, <2>3
<1> HIDE DEF walk
<1>12. QED BY <1>8, <1>10, <1>11

LEMMA AppendedIsWhole ==
    ASSUME NEW D, NEW T, Graph(D, T)
    PROVE  LET taken == Drained(D, T)
               whole == TopologicalOrder(D, T)
           IN  /\ whole \in Seq(T) /\ NoRepeat(whole) /\ \A s \in T : Holds(whole, s)
               /\ Len(whole) = Cardinality(T)
               /\ Len(taken) \in Nat /\ Len(taken) <= Len(whole)
               /\ \A i \in 1..Len(taken) : whole[i] = taken[i]
<1> DEFINE taken == Drained(D, T)
           left == T \ Range(taken)
           added == Declared(NumServices, left)
           whole == TopologicalOrder(D, T)
<1>1. whole = taken \o added BY ServicesLen DEF TopologicalOrder
<1>2. IsDrained(D, T, taken) BY DrainedTakes
<1>3. left \in SUBSET (1..NumServices) /\ left \in SUBSET Nat /\ left \subseteq T
      /\ NumServices \in Nat /\ T \in SUBSET (1..NumServices)
  <2>1. left \subseteq T OBVIOUS
  <2> HIDE DEF left
  <2>2. NumServices \in Nat /\ T \subseteq 1..NumServices
    BY LaunchOrderConstants DEF Graph, Services
  <2>3. QED BY <2>1, <2>2
<1>4. IsFiniteSet(T)
  <2>1. IsFiniteSet(1..NumServices) BY <1>3, FS_Interval
  <2>2. QED BY <1>3, <2>1, FS_Subset
<1> HIDE DEF whole, taken
<1>5. taken \in Seq(T) /\ NoRepeat(taken) BY <1>2 DEF IsDrained
<1>6. Range(taken) = {taken[i] : i \in 1..Len(taken)} BY <1>5 DEF Range
<1>7. \A i \in 1..Len(taken) : taken[i] \notin left BY <1>6
<1>8. \A s \in T : s \in left \/ Holds(taken, s) BY <1>6 DEF Holds
<1> HIDE DEF left
<1>9. Ascending(added, left) BY <1>3, DeclaredIsAscending
<1> HIDE DEF added
<1>10. added \in Seq(left) /\ NoRepeat(added) BY <1>3, <1>9, AscendingNoRepeat DEF Ascending
<1>11. added \in Seq(T) BY <1>3, <1>10, SeqMonotonic
<1>12. \A i \in 1..Len(taken), j \in 1..Len(added) : taken[i] # added[j] BY <1>7, <1>10
<1>13. NoRepeat(whole) BY <1>1, <1>5, <1>10, <1>11, <1>12, QueueGrows
<1>14. \A s : Holds(whole, s) <=> Holds(taken, s) \/ Holds(added, s)
  BY <1>1, <1>5, <1>10, <1>11, <1>12, QueueGrows
<1>15. \A s \in left : Holds(added, s) BY <1>9 DEF Ascending, Holds
<1>16. \A s \in T : Holds(whole, s) BY <1>8, <1>14, <1>15
<1>17. /\ whole \in Seq(T) /\ Len(taken) \in Nat /\ Len(taken) <= Len(whole)
       /\ \A i \in 1..Len(taken) : whole[i] = taken[i]
  BY <1>1, <1>5, <1>11
<1>18. Len(whole) = Cardinality(T) BY <1>4, <1>13, <1>16, <1>17, NoRepeatLen
<1>19. QED BY <1>13, <1>16, <1>17, <1>18 DEF whole, taken

(* Without a cycle nothing is left when the queue is empty.                *)
LEMMA DrainedIsWhole ==
    ASSUME Graph(deps, subset), Acyclic(subset, AtLaunch)
    PROVE  \A s \in subset : Holds(Drained(deps, subset), s)
<1> DEFINE taken == Drained(deps, subset)
           left == subset \ Range(taken)
           E == Edge(subset, AtLaunch)
<1>1. IsDrained(deps, subset, taken) BY DrainedTakes
<1>2. IsFiniteSet(subset)
  <2>1. subset \in SUBSET (1..NumServices) BY DEF Graph, Services
  <2>2. IsFiniteSet(1..NumServices) BY LaunchOrderConstants, FS_Interval
  <2>3. QED BY <2>1, <2>2, FS_Subset
<1> HIDE DEF taken
<1>3. taken \in Seq(subset) BY <1>1 DEF IsDrained
<1>4. Range(taken) = {taken[i] : i \in 1..Len(taken)} BY <1>3 DEF Range
<1>5. \A s \in subset : s \in left <=> ~Holds(taken, s) BY <1>4 DEF Holds
<1>6. ASSUME NEW s \in left PROVE \E t \in left : <<s, t>> \in E
  <2>1. OpenAt(deps, subset, s, Range(taken)) # {} BY <1>1, <1>5 DEF IsDrained
  <2>2. PICK i \in LocalAt(deps, subset, s, AtLaunch) : deps[s][i][2] \notin Range(taken)
    BY <2>1 DEF OpenAt
  <2>3. /\ i \in 1..Len(deps[s]) /\ deps[s][i][1] \in AtLaunch
        /\ deps[s][i][2] \in subset
    BY DEF LocalAt
  <2>4. <<s, deps[s][i][2]>> \in E BY <2>3 DEF Edge
  <2>5. QED BY <2>2, <2>3, <2>4
<1>7. left = {}
  <2> SUFFICES ASSUME left # {} PROVE FALSE
    OBVIOUS
  <2>1. left \in SUBSET subset OBVIOUS
  <2> HIDE DEF left, E
  <2>2. PICK n \in 1..Cardinality(subset) : \E walk \in [0..n -> subset] :
           (\A i \in 1..n : <<walk[i - 1], walk[i]>> \in E) /\ walk[0] = walk[n]
    BY <1>2, <1>6, <2>1, StuckIsCyclic
  <2>3. QED BY <2>2 DEF Acyclic, LoopFree, E
<1>8. QED BY <1>5, <1>7 DEF taken

-----------------------------------------------------------------------------
OrderInv ==
    /\ deps \in [Services -> Seq(Pattern)]
    /\ subset \in SUBSET Services
    /\ phase = "ordered" => order = TopologicalOrder(deps, subset)

LEMMA OrderFollows == OrderInv => OrderCorrect
<1> SUFFICES ASSUME OrderInv, phase = "ordered" PROVE OrderCorrect
  BY DEF OrderCorrect
<1> DEFINE taken == Drained(deps, subset)
<1>1. Graph(deps, subset) /\ order = TopologicalOrder(deps, subset) BY DEF OrderInv, Graph
<1>2. /\ order \in Seq(subset) /\ NoRepeat(order) /\ \A s \in subset : Holds(order, s)
      /\ Len(order) = Cardinality(subset)
      /\ Len(taken) \in Nat /\ Len(taken) <= Len(order)
      /\ \A i \in 1..Len(taken) : order[i] = taken[i]
  BY <1>1, AppendedIsWhole
<1>3. IsDrained(deps, subset, taken) BY <1>1, DrainedTakes
<1> HIDE DEF taken
<1>4. Range(order) = subset
  <2>1. Range(order) = {order[i] : i \in 1..Len(order)} BY <1>2 DEF Range
  <2>2. QED BY <1>2, <2>1 DEF Holds
<1>5. ASSUME Acyclic(subset, AtLaunch), NEW i \in 1..Len(order), NEW j \in 1..Len(order),
             <<order[i], order[j]>> \in Edge(subset, AtLaunch)
      PROVE  j < i
  <2>1. \A s \in subset : Holds(taken, s) BY <1>1, <1>5, DrainedIsWhole DEF taken
  <2>2. order[i] \in subset /\ order[j] \in subset BY <1>2
  <2>3. PICK k \in 1..Len(taken) : taken[k] = order[i] BY <2>1, <2>2 DEF Holds
  <2>4. k = i BY <1>2, <2>3 DEF NoRepeat
  <2>5. PICK p \in 1..Len(deps[order[i]]) :
           deps[order[i]][p][1] \in AtLaunch /\ deps[order[i]][p][2] = order[j]
    BY <1>5 DEF Edge
  <2>6. order[j] # order[i]
    <3> SUFFICES ASSUME order[j] = order[i] PROVE FALSE
      OBVIOUS
    <3> DEFINE walk == [m \in 0..1 |-> order[i]]
    <3>1. walk \in [0..1 -> subset] /\ walk[0] = walk[1] /\ walk[0] = order[i] BY <2>2
    <3>2. \A m \in 1..1 : walk[m - 1] = order[i] /\ walk[m] = order[i] OBVIOUS
    <3> HIDE DEF walk
    <3>3. \A m \in 1..1 : <<walk[m - 1], walk[m]>> \in Edge(subset, AtLaunch) BY <1>5, <3>2
    <3>4. 1 \in 1..Cardinality(subset) BY <1>2
    <3>5. QED BY <1>5, <3>1, <3>3, <3>4 DEF Acyclic, LoopFree
  <2>7. p \in LocalAt(deps, subset, order[i], AtLaunch) BY <2>2, <2>5, <2>6 DEF LocalAt
  <2>8. p \in LocalAt(deps, subset, taken[k], AtLaunch) BY <2>3, <2>7
  <2>9. PICK m \in 1..(k - 1) : taken[m] = deps[taken[k]][p][2]
    BY <1>3, <2>8 DEF IsDrained, After
  <2>10. order[m] = order[j] /\ m \in 1..Len(order) BY <1>2, <2>3, <2>4, <2>5, <2>9, SMTT(30)
  <2>11. m = j BY <1>2, <2>10 DEF NoRepeat
  <2>12. QED BY <2>4, <2>9, <2>11
<1>6. ASSUME NEW i \in 1..Len(order), NEW j \in 1..Len(order), i < j,
             Free(order[i]), Free(order[j])
      PROVE  order[i] < order[j]
  <2> DEFINE start == Start(deps, subset).ready
             F == {s \in subset : InDegrees(deps, subset)[s] = 0}
  <2>1. Ascending(start, F)
    <3>1. start = Declared(NumServices, F) BY <1>1, ServicesLen DEF Start
    <3>2. F \in SUBSET (1..NumServices) /\ NumServices \in Nat
      BY <1>1, LaunchOrderConstants DEF Graph, Services
    <3>3. QED BY <3>1, <3>2, DeclaredIsAscending
  <2>2. ASSUME NEW k \in 1..Len(order), Free(order[k])
        PROVE  k \in 1..Len(start) /\ start[k] = order[k]
    <3>1. order[k] \in subset BY <1>2
    <3>2. order[k] \in F BY <3>1, <2>2, FS_EmptySet DEF Free, InDegrees
    <3>3. PICK m \in 1..Len(start) : start[m] = order[k] BY <2>1, <3>2 DEF Ascending
    <3>4. Len(start) <= Len(taken) /\ \A n \in 1..Len(start) : taken[n] = start[n]
      BY <1>3 DEF IsDrained, BeginsWith
    <3>5. Len(start) \in Nat BY <2>1 DEF Ascending
    <3> HIDE DEF start, F
    <3>6. m \in 1..Len(taken) /\ m \in 1..Len(order) BY <1>2, <3>4, <3>5
    <3>7. order[m] = order[k] BY <1>2, <3>3, <3>4, <3>6
    <3>8. m = k BY <1>2, <3>6, <3>7 DEF NoRepeat
    <3>9. QED BY <3>3, <3>8
  <2>3. /\ i \in 1..Len(start) /\ start[i] = order[i]
        /\ j \in 1..Len(start) /\ start[j] = order[j]
    BY <1>6, <2>2
  <2> HIDE DEF start, F
  <2>4. start[i] < start[j] BY <1>6, <2>1, <2>3 DEF Ascending
  <2>5. QED BY <2>3, <2>4
<1>7. QED BY <1>2, <1>4, <1>5, <1>6 DEF OrderCorrect

(* OrderCorrect: for every set of services and every depends_on graph, the *)
(* launch order is complete, puts dependencies first when they form no     *)
(* cycle, and keeps the declared order of what depends on nothing.         *)
THEOREM LaunchOrderIsCorrect == OrderSpec => []OrderCorrect
<1>1. OrderInit => OrderInv
  BY LaunchOrderConstants DEF OrderInit, OrderInv
<1>2. OrderInv /\ [Order]_orderVars => OrderInv'
  BY DEF OrderInv, Order, orderVars
<1>3. QED BY <1>1, <1>2, OrderFollows, PTL DEF OrderSpec

-----------------------------------------------------------------------------
(* The validator's search.  No trap: every set of members of T has one     *)
(* from which no edge leads into the set.                                  *)
NoTrap(T, E) ==
    \A S \in SUBSET T : S # {} => \E s \in S : \A t \in S : <<s, t>> \notin E

LEMMA NoTrapIsLoopFree ==
    ASSUME NEW T, NEW E, NoTrap(T, E)
    PROVE  LoopFree(T, E)
<1> SUFFICES ASSUME NEW n \in 1..Cardinality(T), NEW walk \in [0..n -> T],
                    \A i \in 1..n : <<walk[i - 1], walk[i]>> \in E, walk[0] = walk[n]
             PROVE  FALSE
  BY DEF LoopFree
<1> DEFINE S == {walk[i] : i \in 0..(n - 1)}
<1>1. n \in Nat /\ n >= 1 OBVIOUS
<1>2. S \in SUBSET T /\ walk[0] \in S BY <1>1
<1> HIDE DEF S
<1>3. PICK s \in S : \A t \in S : <<s, t>> \notin E BY <1>2 DEF NoTrap
<1>4. PICK i \in 0..(n - 1) : s = walk[i] BY DEF S
<1>5. i + 1 \in 1..n /\ i + 1 - 1 = i BY <1>1
<1>6. <<walk[i], walk[i + 1]>> \in E BY <1>5
<1>7. walk[i + 1] \in S
  <2>1. CASE i + 1 = n BY <1>2, <2>1
  <2>2. CASE i + 1 # n
    <3>1. i + 1 \in 0..(n - 1) BY <1>1, <2>2
    <3>2. QED BY <3>1 DEF S
  <2>3. QED BY <2>1, <2>2
<1>8. QED BY <1>3, <1>4, <1>6, <1>7

LEMMA NoTrapGrows ==
    ASSUME NEW T, NEW E, NEW n, NoTrap(T, E), <<n, n>> \notin E,
           \A s \in T : <<s, n>> \notin E
    PROVE  NoTrap(T \union {n}, E)
<1> SUFFICES ASSUME NEW S \in SUBSET (T \union {n}), S # {}
             PROVE  \E s \in S : \A t \in S : <<s, t>> \notin E
  BY DEF NoTrap
<1>1. CASE S \ {n} = {}
  <2>1. n \in S /\ \A t \in S : t = n BY <1>1
  <2>2. QED BY <2>1
<1>2. CASE S \ {n} # {}
  <2> DEFINE R == S \ {n}
  <2>1. R \in SUBSET T /\ R # {} BY <1>2
  <2> HIDE DEF R
  <2>2. PICK s \in R : \A t \in R : <<s, t>> \notin E BY <2>1 DEF NoTrap
  <2>3. s \in S /\ s \in T BY <2>1 DEF R
  <2>4. \A t \in S : <<s, t>> \notin E
    <3> SUFFICES ASSUME NEW t \in S PROVE <<s, t>> \notin E
      OBVIOUS
    <3>1. CASE t = n BY <2>3, <3>1
    <3>2. CASE t # n
      <4>1. t \in R BY <3>2 DEF R
      <4>2. QED BY <2>2, <4>1
    <3>3. QED BY <3>1, <3>2
  <2>5. QED BY <2>3, <2>4
<1>3. QED BY <1>1, <1>2

(* A closed list of edges through distinct members is a closed walk that   *)
(* LoopFree forbids.                                                       *)
IsCycle(c, E) ==
    /\ Len(c) >= 2 /\ c[1] = c[Len(c)]
    /\ \A i \in 1..(Len(c) - 1) : <<c[i], c[i + 1]>> \in E
    /\ \A i, j \in 1..(Len(c) - 1) : c[i] = c[j] => i = j

LEMMA CycleIsLoop ==
    ASSUME NEW T, IsFiniteSet(T), NEW E, NEW c \in Seq(T), IsCycle(c, E)
    PROVE  ~LoopFree(T, E)
<1> DEFINE n == Len(c) - 1
           open == [i \in 1..n |-> c[i]]
           walk == [i \in 0..n |-> c[i + 1]]
<1>1. Len(c) \in Nat /\ Len(c) >= 2 BY DEF IsCycle
<1>2. n \in Nat /\ n >= 1 /\ Len(c) = n + 1 BY <1>1
<1>3. open \in Seq(T) /\ Len(open) = n BY <1>2
<1>4. NoRepeat(open)
  <2>1. \A i \in 1..n : open[i] = c[i] OBVIOUS
  <2>2. \A i, j \in 1..n : c[i] = c[j] => i = j BY DEF IsCycle
  <2> HIDE DEF open, n
  <2>3. QED BY <1>3, <2>1, <2>2 DEF NoRepeat
<1>5. n <= Cardinality(T)
  <2> HIDE DEF open
  <2>1. Len(open) <= Cardinality(T) BY <1>3, <1>4, NoRepeatLen
  <2>2. QED BY <1>3, <2>1
<1>6. Cardinality(T) \in Nat BY FS_CardinalityType
<1>7. n \in 1..Cardinality(T) BY <1>2, <1>5, <1>6
<1>8. walk \in [0..n -> T] BY <1>2
<1>9. ASSUME NEW i \in 1..n PROVE <<walk[i - 1], walk[i]>> \in E
  <2>1. walk[i - 1] = c[i] /\ walk[i] = c[i + 1] BY <1>2
  <2>2. QED BY <2>1 DEF IsCycle
<1>10. walk[0] = c[1] /\ walk[n] = c[Len(c)] BY <1>2
<1>11. walk[0] = walk[n] BY <1>10 DEF IsCycle
<1> HIDE DEF walk, n
<1>12. QED BY <1>7, <1>8, <1>9, <1>11 DEF LoopFree

-----------------------------------------------------------------------------
(* What holds after every step of the search r of a graph that has the     *)
(* lists ns and the edges E: its stack is a path through the gray          *)
(* services; what was looked at is black or next on the stack; and the     *)
(* black services have no trap, since all they depend on is black.         *)
Colors == {"white", "gray", "black"}

IsGraph(ns, E) ==
    /\ ns \in [Services -> Seq(Services)]
    /\ \A s, t \in Services : <<s, t>> \in E <=> Holds(ns[s], t)
    /\ \A s \in Services : <<s, s>> \notin E

IsSearch(r) ==
    r \in [color : [Services -> Colors], stack : Seq(Services), seen : [Services -> Nat]]

OnPath(r, E) ==
    /\ NoRepeat(r.stack)
    /\ \A s \in Services : r.color[s] = "gray" <=> Holds(r.stack, s)
    /\ \A i \in 1..(Len(r.stack) - 1) : <<r.stack[i], r.stack[i + 1]>> \in E

Behind(r, ns) ==
    /\ \A s \in Services : /\ r.seen[s] <= Len(ns[s])
                           /\ r.color[s] = "white" => r.seen[s] = 0
    /\ \A i \in 1..Len(r.stack) : \A k \in 1..r.seen[r.stack[i]] :
          LET t == ns[r.stack[i]][k]
          IN  r.color[t] = "black" \/ (i < Len(r.stack) /\ t = r.stack[i + 1])

Blacks(r) == {s \in Services : r.color[s] = "black"}

Finished(r, E) ==
    /\ \A s \in Blacks(r), t \in Services : <<s, t>> \in E => t \in Blacks(r)
    /\ NoTrap(Blacks(r), E)

Searched(r, ns, E) == IsSearch(r) /\ OnPath(r, E) /\ Behind(r, ns) /\ Finished(r, E)

LEMMA SearchTypes ==
    ASSUME NEW r, NEW ns, NEW E, Searched(r, ns, E), IsGraph(ns, E)
    PROVE  /\ r.stack \in Seq(Services) /\ Len(r.stack) \in Nat
           /\ r.color \in [Services -> Colors] /\ r.seen \in [Services -> Nat]
           /\ ns \in [Services -> Seq(Services)]
           /\ \A s \in Services : r.seen[s] \in Nat /\ Len(ns[s]) \in Nat
<1>1. /\ r.stack \in Seq(Services) /\ r.color \in [Services -> Colors]
      /\ r.seen \in [Services -> Nat]
  BY DEF Searched, IsSearch
<1>2. ns \in [Services -> Seq(Services)] BY DEF IsGraph
<1>3. Len(r.stack) \in Nat BY <1>1
<1>4. ASSUME NEW s \in Services PROVE r.seen[s] \in Nat /\ Len(ns[s]) \in Nat
  <2>1. r.seen[s] \in Nat BY <1>1
  <2>2. ns[s] \in Seq(Services) BY <1>2
  <2>3. QED BY <2>1, <2>2
<1>5. QED BY <1>1, <1>2, <1>3, <1>4

LEMMA WhiteIsSearched ==
    ASSUME NEW ns, NEW E, IsGraph(ns, E)
    PROVE  Searched(White, ns, E)
<1>1. /\ White.stack = <<>> /\ White.color = [s \in Services |-> "white"]
      /\ White.seen = [s \in Services |-> 0]
  BY DEF White
<1>2. IsSearch(White) BY DEF White, IsSearch, Colors
<1>3. OnPath(White, E) BY <1>1 DEF OnPath, NoRepeat, Holds
<1>4. Behind(White, ns)
  <2>1. \A s \in Services : Len(ns[s]) \in Nat BY DEF IsGraph
  <2>2. QED BY <1>1, <2>1 DEF Behind
<1>5. Blacks(White) = {} BY <1>1 DEF Blacks
<1>6. QED BY <1>2, <1>3, <1>4, <1>5 DEF Searched, Finished, NoTrap

(* A step that colours no service black leaves the black ones alone.       *)
LEMMA SameBlacks ==
    ASSUME NEW r, NEW q, NEW E, Finished(r, E), Blacks(q) = Blacks(r)
    PROVE  Finished(q, E)
BY DEF Finished

(* From r to q the search has reached n: from the stack's top, or anew.    *)
Reached(r, q, ns, n) ==
    \/ r.stack = <<>> /\ q.seen = r.seen
    \/ \E top \in Services :
          /\ r.stack # <<>> /\ top = r.stack[Len(r.stack)]
          /\ r.seen[top] < Len(ns[top]) /\ n = ns[top][r.seen[top] + 1]
          /\ q.seen = [r.seen EXCEPT ![top] = @ + 1]

(* A white service that is reached enters the stack.                       *)
LEMMA EnteredIsSearched ==
    ASSUME NEW ns, NEW E, IsGraph(ns, E), NEW r, Searched(r, ns, E), NEW n \in Services,
           r.color[n] = "white", NEW q, IsSearch(q),
           q.color = [r.color EXCEPT ![n] = "gray"], q.stack = Append(r.stack, n),
           Reached(r, q, ns, n)
    PROVE  Searched(q, ns, E)
<1> DEFINE L == Len(r.stack)
<1>1. /\ r.stack \in Seq(Services) /\ r.color \in [Services -> Colors]
      /\ r.seen \in [Services -> Nat] /\ q.stack \in Seq(Services)
      /\ L \in Nat /\ q.seen \in [Services -> Nat]
  BY DEF Searched, IsSearch
<1>2. /\ Len(q.stack) = L + 1 /\ q.stack[L + 1] = n
      /\ \A i \in 1..L : q.stack[i] = r.stack[i] /\ r.stack[i] \in Services
  BY <1>1
<1>3. ~Holds(r.stack, n) BY DEF Searched, OnPath
<1>4. \A i \in 1..L : r.stack[i] # n BY <1>3 DEF Holds
<1>5. /\ q.color[n] = "gray" /\ \A s \in Services : s # n => q.color[s] = r.color[s]
  BY <1>1
<1>6. ns \in [Services -> Seq(Services)] BY DEF IsGraph
<1>7. Blacks(q) = Blacks(r) BY <1>5 DEF Blacks
<1>8. r.stack # <<>> => L >= 1 /\ L \in 1..L /\ q.stack[L] = r.stack[L]
  BY <1>1, <1>2
<1>9. r.stack = <<>> => L = 0 BY <1>1
<1>10. r.stack # <<>> => <<r.stack[L], n>> \in E
  <2> SUFFICES ASSUME r.stack # <<>> PROVE <<r.stack[L], n>> \in E
    OBVIOUS
  <2>1. PICK top \in Services :
           /\ top = r.stack[L] /\ r.seen[top] < Len(ns[top])
           /\ n = ns[top][r.seen[top] + 1]
    BY DEF Reached
  <2>2. Len(ns[top]) \in Nat /\ r.seen[top] \in Nat BY <1>1, <1>6
  <2>3. r.seen[top] + 1 \in 1..Len(ns[top])
    <3>1. \A a, b \in Nat : a < b => a + 1 \in 1..b OBVIOUS
    <3>2. r.seen[top] < Len(ns[top]) BY <2>1
    <3>3. QED BY <2>2, <3>1, <3>2
  <2>4. Holds(ns[top], n) BY <2>1, <2>3 DEF Holds
  <2>5. <<top, n>> \in E BY <2>4 DEF IsGraph
  <2>6. QED BY <2>1, <2>5
<1> HIDE DEF L
<1>11. OnPath(q, E)
  <2>1. NoRepeat(q.stack)
    <3>1. NoRepeat(r.stack) BY DEF Searched, OnPath
    <3>2. QED BY <1>1, <1>3, <3>1, AppendNoRepeat
  <2>2. ASSUME NEW s \in Services PROVE q.color[s] = "gray" <=> Holds(q.stack, s)
    <3>1. Holds(q.stack, s) <=> Holds(r.stack, s) \/ s = n BY <1>1, AppendHolds
    <3>2. r.color[s] = "gray" <=> Holds(r.stack, s) BY DEF Searched, OnPath
    <3>3. QED BY <1>5, <3>1, <3>2
  <2>3. ASSUME NEW i \in 1..(Len(q.stack) - 1) PROVE <<q.stack[i], q.stack[i + 1]>> \in E
    <3>1. i \in 1..L BY <1>1, <1>2
    <3>2. CASE i = L
      <4>1. r.stack # <<>> BY <1>9, <3>1
      <4>2. QED BY <1>2, <1>10, <3>1, <3>2, <4>1
    <3>3. CASE i # L
      <4>1. i \in 1..(L - 1) /\ i + 1 \in 1..L BY <1>1, <3>1, <3>3
      <4>2. <<r.stack[i], r.stack[i + 1]>> \in E BY <4>1 DEF Searched, OnPath, L
      <4>3. QED BY <1>2, <3>1, <4>1, <4>2
    <3>4. QED BY <3>2, <3>3
  <2>4. QED BY <2>1, <2>2, <2>3 DEF OnPath
<1>12. Behind(q, ns)
  <2>1. ASSUME NEW s \in Services
        PROVE  q.seen[s] <= Len(ns[s]) /\ (q.color[s] = "white" => q.seen[s] = 0)
    <3>1. r.seen[s] <= Len(ns[s]) /\ (r.color[s] = "white" => r.seen[s] = 0)
      BY DEF Searched, Behind
    <3>2. Len(ns[s]) \in Nat BY <1>6
    <3>3. CASE r.stack = <<>> BY <1>5, <3>1, <3>3 DEF Reached
    <3>4. CASE r.stack # <<>>
      <4>1. PICK top \in Services :
               /\ top = r.stack[L] /\ r.seen[top] < Len(ns[top])
               /\ q.seen = [r.seen EXCEPT ![top] = @ + 1]
        BY <3>4 DEF Reached, L
      <4>2. r.color[top] = "gray"
        <5>1. Holds(r.stack, top) BY <1>8, <3>4, <4>1 DEF Holds, L
        <5>2. QED BY <5>1 DEF Searched, OnPath
      <4>3. CASE s = top
        <5>1. q.seen[s] = r.seen[s] + 1 BY <1>1, <4>1, <4>3
        <5>2. q.color[s] # "white" BY <1>5, <4>2, <4>3
        <5>3. r.seen[s] \in Nat /\ r.seen[s] < Len(ns[s]) BY <1>1, <4>1, <4>3
        <5>4. \A a, b \in Nat : a < b => a + 1 <= b OBVIOUS
        <5>5. QED BY <3>2, <5>1, <5>2, <5>3, <5>4
      <4>4. CASE s # top
        <5>1. q.seen[s] = r.seen[s] BY <1>1, <4>1, <4>4
        <5>2. QED BY <1>5, <3>1, <5>1
      <4>5. QED BY <4>3, <4>4
    <3>5. QED BY <3>3, <3>4
  <2>2. q.seen[n] = 0
    <3>1. r.seen[n] = 0 BY DEF Searched, Behind
    <3>2. CASE r.stack = <<>> BY <3>1, <3>2 DEF Reached
    <3>3. CASE r.stack # <<>>
      <4>1. PICK top \in Services : /\ top = r.stack[L]
                                    /\ q.seen = [r.seen EXCEPT ![top] = @ + 1]
        BY <3>3 DEF Reached, L
      <4>2. top # n BY <1>4, <1>8, <3>3, <4>1
      <4>3. QED BY <1>1, <3>1, <4>1, <4>2
    <3>4. QED BY <3>2, <3>3
  <2>3. ASSUME NEW i \in 1..Len(q.stack), NEW k \in 1..q.seen[q.stack[i]]
        PROVE  LET t == ns[q.stack[i]][k]
               IN  q.color[t] = "black" \/ (i < Len(q.stack) /\ t = q.stack[i + 1])
    <3> DEFINE s == q.stack[i]
               t == ns[s][k]
    <3>1. i # L + 1 BY <1>2, <2>2
    <3>2. i \in 1..L /\ i < Len(q.stack) BY <1>1, <1>2, <3>1
    <3>3. s = r.stack[i] /\ s \in Services /\ s # n BY <1>2, <1>4, <3>2
    <3>4. k \in 1..Len(ns[s])
      <4>1. q.seen[s] <= Len(ns[s]) BY <2>1, <3>3
      <4>2. Len(ns[s]) \in Nat /\ q.seen[s] \in Nat
        <5>1. s \in Services BY <3>3
        <5> HIDE DEF s
        <5>2. q.seen[s] \in Nat BY <1>1, <5>1
        <5>3. ns[s] \in Seq(Services) BY <1>6, <5>1
        <5>4. QED BY <5>2, <5>3
      <4>3. QED BY <4>1, <4>2, SMTT(30)
    <3>5. t \in Services BY <1>6, <3>3, <3>4
    <3>6. ASSUME k \in 1..r.seen[s]
          PROVE  q.color[t] = "black" \/ t = q.stack[i + 1]
      <4>1. r.color[t] = "black" \/ (i < L /\ t = r.stack[i + 1])
        BY <3>2, <3>3, <3>6 DEF Searched, Behind, L
      <4>2. i < L => q.stack[i + 1] = r.stack[i + 1]
        <5>1. i < L => i + 1 \in 1..L BY <1>1, <3>2
        <5>2. QED BY <1>2, <5>1
      <4>3. r.color[t] = "black" => q.color[t] = "black" BY <1>5, <3>5
      <4>4. QED BY <4>1, <4>2, <4>3
    <3>7. ASSUME k \notin 1..r.seen[s] PROVE t = q.stack[i + 1]
      <4>1. q.seen[s] # r.seen[s] BY <3>7
      <4>2. r.stack # <<>> BY <4>1 DEF Reached
      <4>3. PICK top \in Services :
               /\ top = r.stack[L] /\ n = ns[top][r.seen[top] + 1]
               /\ q.seen = [r.seen EXCEPT ![top] = @ + 1]
        BY <4>2 DEF Reached, L
      <4>4. s = top BY <1>1, <3>3, <4>1, <4>3
      <4>5. q.seen[s] = r.seen[s] + 1 BY <1>1, <3>3, <4>3, <4>4
      <4>6. k = r.seen[s] + 1
        <5>1. r.seen[s] \in Nat BY <1>1, <3>3
        <5>2. k \in 1..(r.seen[s] + 1) BY <4>5
        <5> HIDE DEF s
        <5>3. QED BY <3>7, <5>1, <5>2
      <4>7. i = L
        <5>1. L \in 1..L BY <1>8, <4>2
        <5>2. NoRepeat(r.stack) BY DEF Searched, OnPath
        <5>3. r.stack[i] = r.stack[L] BY <3>3, <4>3, <4>4
        <5>4. QED BY <3>2, <5>1, <5>2, <5>3 DEF NoRepeat, L
      <4>8. QED BY <1>2, <4>3, <4>4, <4>6, <4>7
    <3> HIDE DEF s, t
    <3>8. q.color[t] = "black" \/ t = q.stack[i + 1] BY <3>6, <3>7
    <3>9. QED BY <3>2, <3>8 DEF s, t
  <2>4. QED BY <2>1, <2>3 DEF Behind
<1>13. Finished(q, E)
  <2>1. Finished(r, E) BY DEF Searched
  <2>2. QED BY <1>7, <2>1, SameBlacks
<1>14. QED BY <1>11, <1>12, <1>13 DEF Searched

(* From r to q the search passes over a black neighbour of the one on top. *)
Passed(r, q, ns, top) ==
    /\ r.stack # <<>> /\ top = r.stack[Len(r.stack)]
    /\ r.seen[top] < Len(ns[top]) /\ r.color[ns[top][r.seen[top] + 1]] = "black"
    /\ q.color = r.color /\ q.stack = r.stack
    /\ q.seen = [r.seen EXCEPT ![top] = @ + 1]

LEMMA PassedIsSearched ==
    ASSUME NEW ns, NEW E, IsGraph(ns, E), NEW r, Searched(r, ns, E),
           NEW top \in Services, NEW q, IsSearch(q), Passed(r, q, ns, top)
    PROVE  Searched(q, ns, E)
<1> DEFINE L == Len(r.stack)
           n == r.seen[top]
<1>1. /\ r.stack \in Seq(Services) /\ r.seen \in [Services -> Nat] /\ L \in Nat
      /\ \A s \in Services : r.seen[s] \in Nat /\ Len(ns[s]) \in Nat
  BY SearchTypes
<1>2. L \in 1..L
  <2>1. r.stack # <<>> BY DEF Passed
  <2>2. L # 0 BY <1>1, <2>1
  <2>3. QED BY <1>1, <2>2
<1>3. OnPath(q, E)
  <2>1. OnPath(r, E) BY DEF Searched
  <2>2. q.color = r.color /\ q.stack = r.stack BY DEF Passed
  <2>3. QED BY <2>1, <2>2 DEF OnPath
<1>4. r.color[top] = "gray"
  <2>1. Holds(r.stack, top) BY <1>2 DEF Holds, Passed
  <2>2. QED BY <2>1 DEF Searched, OnPath
<1>5. q.seen[top] = n + 1 /\ \A s \in Services : s # top => q.seen[s] = r.seen[s]
  BY <1>1 DEF Passed
<1>6. /\ n \in Nat /\ n + 1 <= Len(ns[top]) /\ r.color[ns[top][n + 1]] = "black"
      /\ q.color = r.color /\ q.stack = r.stack
  <2>1. n \in Nat /\ Len(ns[top]) \in Nat BY <1>1
  <2>2. /\ n < Len(ns[top]) /\ r.color[ns[top][n + 1]] = "black"
        /\ q.color = r.color /\ q.stack = r.stack
    BY DEF Passed
  <2> HIDE DEF n
  <2>3. QED BY <2>1, <2>2
<1> HIDE DEF n, L
<1>7. ASSUME NEW s \in Services
      PROVE  q.seen[s] <= Len(ns[s]) /\ (q.color[s] = "white" => q.seen[s] = 0)
  <2>1. r.seen[s] <= Len(ns[s]) /\ (r.color[s] = "white" => r.seen[s] = 0)
    BY DEF Searched, Behind
  <2>2. CASE s = top
    <3>1. q.color[s] # "white" BY <1>4, <1>6, <2>2
    <3>2. QED BY <1>5, <1>6, <2>2, <3>1
  <2>3. CASE s # top
    <3>1. q.seen[s] = r.seen[s] BY <1>5, <2>3
    <3>2. QED BY <1>6, <2>1, <3>1
  <2>4. QED BY <2>2, <2>3
<1>8. ASSUME NEW i \in 1..L, NEW s, s = r.stack[i], NEW k \in 1..q.seen[s]
      PROVE  r.color[ns[s][k]] = "black" \/ (i < L /\ ns[s][k] = r.stack[i + 1])
  <2>1. s \in Services BY <1>1, <1>8 DEF L
  <2>2. CASE k \in 1..r.seen[s] BY <1>8, <2>2 DEF Searched, Behind, L
  <2>3. CASE k \notin 1..r.seen[s]
    <3>1. s = top BY <1>5, <2>1, <2>3
    <3>2. k \in 1..(n + 1) BY <1>5, <3>1
    <3>3. k \notin 1..n BY <2>3, <3>1 DEF n
    <3>4. k = n + 1 BY <1>6, <3>2, <3>3
    <3>5. QED BY <1>6, <3>1, <3>4
  <2>4. QED BY <2>2, <2>3
<1>9. Behind(q, ns) BY <1>6, <1>7, <1>8 DEF Behind, L
<1>10. Finished(q, E)
  <2>1. Finished(r, E) BY DEF Searched
  <2>2. Blacks(q) = Blacks(r) BY <1>6 DEF Blacks
  <2>3. QED BY <2>1, <2>2, SameBlacks
<1>11. QED BY <1>3, <1>9, <1>10 DEF Searched

(* The service on top leaves the stack when all it names are black.        *)
LEMMA LeftIsSearched ==
    ASSUME NEW ns, NEW E, IsGraph(ns, E), NEW r, Searched(r, ns, E), r.stack # <<>>,
           NEW top \in Services, top = r.stack[Len(r.stack)], r.seen[top] = Len(ns[top]),
           NEW q, IsSearch(q), q.seen = r.seen,
           q.color = [r.color EXCEPT ![top] = "black"],
           q.stack = SubSeq(r.stack, 1, Len(r.stack) - 1)
    PROVE  Searched(q, ns, E)
<1> DEFINE L == Len(r.stack)
<1>1. /\ r.stack \in Seq(Services) /\ r.color \in [Services -> Colors] /\ L \in Nat
      /\ r.seen \in [Services -> Nat] /\ ns \in [Services -> Seq(Services)]
  BY SearchTypes
<1>2. L \in 1..L /\ L - 1 \in Nat /\ \A i \in 1..L : r.stack[i] \in Services BY <1>1
<1>3. Len(q.stack) = L - 1 /\ \A i \in 1..(L - 1) : q.stack[i] = r.stack[i] /\ i \in 1..L
  <2>1. \A i \in 1..(L - 1) : i \in 1..L BY <1>2
  <2>2. Len(q.stack) = L - 1 BY <1>1, <1>2
  <2>3. \A i \in 1..(L - 1) : q.stack[i] = r.stack[i] BY <1>1, <1>2
  <2>4. QED BY <2>1, <2>2, <2>3
<1>4. q.color[top] = "black" /\ \A s \in Services : s # top => q.color[s] = r.color[s]
  BY <1>1
<1>5. NoRepeat(r.stack) BY DEF Searched, OnPath
<1>6. r.color[top] = "gray"
  <2>1. Holds(r.stack, top) BY <1>2 DEF Holds
  <2>2. QED BY <2>1 DEF Searched, OnPath
<1>7. Blacks(q) = Blacks(r) \union {top} BY <1>4 DEF Blacks
<1>8. ASSUME NEW t \in Services, <<top, t>> \in E PROVE t \in Blacks(r)
  <2>1. PICK k \in 1..Len(ns[top]) : ns[top][k] = t BY <1>8 DEF IsGraph, Holds
  <2>2. k \in 1..r.seen[r.stack[L]] OBVIOUS
  <2>3. r.color[t] = "black" \/ L < L BY <1>2, <2>1, <2>2 DEF Searched, Behind
  <2>4. QED BY <1>1, <2>3 DEF Blacks
<1> HIDE DEF L
<1>9. OnPath(q, E)
  <2>1. NoRepeat(q.stack)
    <3>1. \A i, j \in 1..L : r.stack[i] = r.stack[j] => i = j BY <1>5 DEF NoRepeat, L
    <3>2. QED BY <1>3, <3>1 DEF NoRepeat
  <2>2. ASSUME NEW s \in Services PROVE q.color[s] = "gray" <=> Holds(q.stack, s)
    <3>1. r.color[s] = "gray" <=> Holds(r.stack, s) BY DEF Searched, OnPath
    <3>2. CASE s = top
      <4>1. ASSUME NEW i \in 1..(L - 1), q.stack[i] = top PROVE FALSE
        <5>1. r.stack[i] = r.stack[L] /\ i \in 1..L BY <1>3, <4>1 DEF L
        <5>2. i = L BY <1>2, <1>5, <5>1 DEF NoRepeat, L
        <5>3. QED BY <1>2, <5>2
      <4>2. ~Holds(q.stack, s) BY <1>3, <3>2, <4>1 DEF Holds
      <4>3. QED BY <1>4, <3>2, <4>2
    <3>3. CASE s # top
      <4>1. ASSUME Holds(r.stack, s) PROVE Holds(q.stack, s)
        <5>1. PICK i \in 1..L : r.stack[i] = s BY <4>1 DEF Holds, L
        <5>2. i # L BY <3>3, <5>1 DEF L
        <5>3. i \in 1..(L - 1) BY <1>2, <5>1, <5>2
        <5>4. QED BY <1>3, <5>1, <5>3 DEF Holds
      <4>2. ASSUME Holds(q.stack, s) PROVE Holds(r.stack, s)
        <5>1. PICK i \in 1..(L - 1) : q.stack[i] = s BY <1>3, <4>2 DEF Holds
        <5>2. QED BY <1>3, <5>1 DEF Holds, L
      <4>3. QED BY <1>4, <3>1, <3>3, <4>1, <4>2
    <3>4. QED BY <3>2, <3>3
  <2>3. ASSUME NEW i \in 1..(Len(q.stack) - 1) PROVE <<q.stack[i], q.stack[i + 1]>> \in E
    <3>1. i \in 1..(L - 1) /\ i + 1 \in 1..(L - 1) BY <1>2, <1>3
    <3>2. <<r.stack[i], r.stack[i + 1]>> \in E BY <3>1 DEF Searched, OnPath, L
    <3>3. QED BY <1>3, <3>1, <3>2
  <2>4. QED BY <2>1, <2>2, <2>3 DEF OnPath
<1>10. Behind(q, ns)
  <2>1. ASSUME NEW s \in Services
        PROVE  q.seen[s] <= Len(ns[s]) /\ (q.color[s] = "white" => q.seen[s] = 0)
    <3>1. r.seen[s] <= Len(ns[s]) /\ (r.color[s] = "white" => r.seen[s] = 0)
      BY DEF Searched, Behind
    <3>2. QED BY <1>4, <3>1
  <2>2. ASSUME NEW i \in 1..(L - 1), NEW k \in 1..q.seen[q.stack[i]]
        PROVE  LET t == ns[q.stack[i]][k]
               IN  q.color[t] = "black" \/ (i < L - 1 /\ t = q.stack[i + 1])
    <3> DEFINE s == r.stack[i]
               t == ns[s][k]
    <3>1. q.stack[i] = s /\ i \in 1..L /\ s \in Services BY <1>2, <1>3
    <3>2. k \in 1..r.seen[s] BY <3>1
    <3>3. r.color[t] = "black" \/ t = r.stack[i + 1]
      BY <3>1, <3>2 DEF Searched, Behind, L
    <3>4. t \in Services
      <4>1. r.seen[s] <= Len(ns[s]) BY <3>1 DEF Searched, Behind
      <4>2. r.seen[s] \in Nat /\ Len(ns[s]) \in Nat
        <5>1. s \in Services BY <3>1
        <5> HIDE DEF s
        <5>2. QED BY <1>1, <5>1
      <4>3. k \in 1..Len(ns[s]) BY <3>2, <4>1, <4>2
      <4>4. ns[s] \in Seq(Services) BY <1>1, <3>1
      <4> HIDE DEF s
      <4>5. QED BY <4>3, <4>4
    <3> HIDE DEF s, t
    <3>5. CASE r.color[t] = "black" \/ i = L - 1
      <4>1. i = L - 1 /\ t = r.stack[i + 1] => t = top BY <1>2 DEF L
      <4>2. q.color[t] = "black" BY <1>4, <3>3, <3>4, <3>5, <4>1
      <4>3. QED BY <3>1, <4>2 DEF t
    <3>6. CASE r.color[t] # "black" /\ i # L - 1
      <4>1. i < L - 1 /\ i + 1 \in 1..(L - 1) BY <1>2, <3>6
      <4>2. t = q.stack[i + 1] BY <1>3, <3>3, <3>6, <4>1
      <4>3. QED BY <3>1, <4>1, <4>2 DEF t
    <3>7. QED BY <3>5, <3>6
  <2>3. QED BY <1>3, <2>1, <2>2 DEF Behind
<1>11. Finished(q, E)
  <2>1. /\ \A s \in Blacks(r), t \in Services : <<s, t>> \in E => t \in Blacks(r)
        /\ NoTrap(Blacks(r), E)
    BY DEF Searched, Finished
  <2>2. top \notin Blacks(r) BY <1>6 DEF Blacks
  <2>3. <<top, top>> \notin E BY DEF IsGraph
  <2>4. \A s \in Blacks(r) : <<s, top>> \notin E BY <2>1, <2>2
  <2>5. NoTrap(Blacks(r) \union {top}, E) BY <2>1, <2>3, <2>4, NoTrapGrows
  <2>6. QED BY <1>7, <1>8, <2>1, <2>5 DEF Finished
<1>12. QED BY <1>9, <1>10, <1>11 DEF Searched

-----------------------------------------------------------------------------
(* The graph that the validator builds.                                    *)
Adjacency == [s \in Services |-> Neighbours(s)]

Listed == deps \in [Services -> Seq(Pattern)]

LEMMA NeighboursAreDependencies ==
    ASSUME Listed, NEW s \in Services
    PROVE  /\ Neighbours(s) \in Seq(Services)
           /\ \A t \in Services : <<s, t>> \in Dependency <=> Holds(Neighbours(s), t)
<1> DEFINE kinds == AtValidation(scopeKnown)
           local == kinds \X (Services \ {s})
           kept == Filtered(deps[s], local)
<1>1. deps[s] \in Seq(Pattern) BY DEF Listed
<1>2. /\ kept \in Seq(Pattern)
      /\ \A x : Holds(kept, x) <=> Holds(deps[s], x) /\ x \in local
  <2> HIDE DEF local
  <2>1. QED BY <1>1, FilteredHolds
<1>3. Neighbours(s) = [i \in 1..Len(kept) |-> kept[i][2]] BY DEF Neighbours
<1> HIDE DEF kept
<1>4. ASSUME NEW i \in 1..Len(kept) PROVE kept[i] \in local
  <2>1. Holds(kept, kept[i]) BY DEF Holds
  <2>2. QED BY <1>2, <2>1
<1>5. Len(kept) \in Nat BY <1>2
<1>6. Neighbours(s) \in Seq(Services) /\ Len(Neighbours(s)) = Len(kept)
  <2>1. \A i \in 1..Len(kept) : kept[i][2] \in Services BY <1>4
  <2>2. QED BY <1>3, <1>5, <2>1
<1>7. ASSUME NEW t \in Services, <<s, t>> \in Dependency PROVE Holds(Neighbours(s), t)
  <2>1. s # t /\ <<s, t>> \in Edge(Services, kinds) BY <1>7 DEF Dependency
  <2>2. PICK i \in 1..Len(deps[s]) : deps[s][i][1] \in kinds /\ deps[s][i][2] = t
    BY <2>1 DEF Edge
  <2>3. deps[s][i] \in Pattern BY <1>1
  <2>4. deps[s][i] = <<deps[s][i][1], deps[s][i][2]>> BY <2>3 DEF Pattern
  <2>5. deps[s][i] \in local BY <2>1, <2>2, <2>4
  <2>6. Holds(deps[s], deps[s][i]) BY DEF Holds
  <2>7. Holds(kept, deps[s][i]) BY <1>2, <2>5, <2>6
  <2>8. PICK k \in 1..Len(kept) : kept[k] = deps[s][i] BY <2>7 DEF Holds
  <2>9. Neighbours(s)[k] = t BY <1>3, <2>2, <2>8
  <2>10. QED BY <1>6, <2>9 DEF Holds
<1>8. ASSUME NEW t \in Services, Holds(Neighbours(s), t) PROVE <<s, t>> \in Dependency
  <2>1. PICK k \in 1..Len(kept) : Neighbours(s)[k] = t BY <1>6, <1>8 DEF Holds
  <2>2. kept[k][2] = t BY <1>3, <2>1
  <2>3. kept[k] \in local BY <1>4
  <2>4. Holds(deps[s], kept[k])
    <3>1. Holds(kept, kept[k]) BY DEF Holds
    <3>2. QED BY <1>2, <3>1
  <2>5. PICK i \in 1..Len(deps[s]) : deps[s][i] = kept[k] BY <2>4 DEF Holds
  <2>6. s # t /\ deps[s][i][1] \in kinds /\ deps[s][i][2] = t BY <2>2, <2>3, <2>5
  <2>7. <<s, t>> \in Edge(Services, kinds) BY <2>6 DEF Edge
  <2>8. QED BY <2>6, <2>7 DEF Dependency
<1>9. QED BY <1>6, <1>7, <1>8

LEMMA AdjacencyIsGraph ==
    ASSUME Listed
    PROVE  IsGraph(Adjacency, Dependency)
<1>1. \A s \in Services : Neighbours(s) \in Seq(Services) BY NeighboursAreDependencies
<1>2. Adjacency \in [Services -> Seq(Services)] BY <1>1 DEF Adjacency
<1>3. ASSUME NEW s \in Services, NEW t \in Services
      PROVE  <<s, t>> \in Dependency <=> Holds(Adjacency[s], t)
  <2>1. Adjacency[s] = Neighbours(s) BY DEF Adjacency
  <2>2. QED BY <2>1, NeighboursAreDependencies
<1>4. \A s \in Services : <<s, s>> \notin Dependency BY DEF Dependency
<1>5. QED BY <1>2, <1>3, <1>4 DEF IsGraph

-----------------------------------------------------------------------------
(* The inductive invariant of the validator's check.                       *)
CheckTypeOK ==
    /\ Listed
    /\ scopeKnown \in BOOLEAN
    /\ checking \in {"unread", "searching", "done"}
    /\ verdict \in [self : BOOLEAN, unknown : BOOLEAN, cycle : Seq(Services)]

CheckInv ==
    /\ CheckTypeOK
    /\ Searched(search, Adjacency, Dependency)
    /\ checking # "unread" => verdict.self = Violations(deps, scopeKnown).self
    /\ checking # "done" => verdict.cycle = <<>>
    /\ checking = "done" /\ verdict.cycle = <<>> => Blacks(search) = Services
    /\ verdict.cycle # <<>> => IsCycle(verdict.cycle, Dependency)

(* A search whose stack is empty and that finds no white service has left  *)
(* them all.                                                               *)
LEMMA NoneGray ==
    ASSUME NEW r, NEW ns, NEW E, Searched(r, ns, E), r.stack = <<>>,
           \A s \in Services : r.color[s] # "white"
    PROVE  Blacks(r) = Services
<1>1. \A s \in Services : r.color[s] \in Colors BY DEF Searched, IsSearch
<1>2. \A s \in Services : ~Holds(r.stack, s) BY DEF Holds
<1>3. \A s \in Services : r.color[s] # "gray" BY <1>2 DEF Searched, OnPath
<1>4. QED BY <1>1, <1>3 DEF Blacks, Colors

(* The end of the stack from a gray neighbour of the service on top, and   *)
(* that neighbour again.                                                   *)
LEMMA ClosedIsCycle ==
    ASSUME NEW ns, NEW E, IsGraph(ns, E), NEW r, Searched(r, ns, E),
           NEW top \in Services, r.stack # <<>>, top = r.stack[Len(r.stack)],
           NEW n \in Services, <<top, n>> \in E,
           NEW from \in 1..Len(r.stack), r.stack[from] = n,
           NEW c, c = Append(SubSeq(r.stack, from, Len(r.stack)), n)
    PROVE  c \in Seq(Services) /\ c # <<>> /\ IsCycle(c, E)
<1> DEFINE L == Len(r.stack)
           part == SubSeq(r.stack, from, L)
           K == L - from + 1
<1>1. r.stack \in Seq(Services) /\ L \in Nat BY SearchTypes
<1>2. from \in Nat /\ from >= 1 /\ K \in Nat /\ K >= 1 /\ K <= L BY <1>1
<1>3. /\ part \in Seq(Services) /\ Len(part) = K
      /\ \A i \in 1..K : part[i] = r.stack[from + i - 1] /\ from + i - 1 \in 1..L
  BY <1>1, <1>2
<1> HIDE DEF part
<1>4. /\ c \in Seq(Services) /\ Len(c) = K + 1 /\ c[K + 1] = n
      /\ \A i \in 1..K : c[i] = part[i]
  BY <1>3 DEF part
<1> HIDE DEF L, K
<1>5. \A i \in 1..K : c[i] = r.stack[from + i - 1] /\ from + i - 1 \in 1..L BY <1>3, <1>4
<1>6. Len(c) >= 2 /\ c # <<>> BY <1>2, <1>4
<1>7. c[1] = c[Len(c)]
  <2>1. 1 \in 1..K /\ from + 1 - 1 = from BY <1>2
  <2>2. QED BY <1>4, <1>5, <2>1
<1>8. ASSUME NEW i \in 1..(Len(c) - 1) PROVE <<c[i], c[i + 1]>> \in E
  <2>1. i \in 1..K BY <1>2, <1>4
  <2>2. CASE i = K
    <3>1. from + i - 1 = L BY <1>1, <1>2, <2>2 DEF K
    <3>2. c[i] = top BY <1>5, <2>1, <3>1 DEF L
    <3>3. QED BY <1>4, <2>2, <3>2
  <2>3. CASE i # K
    <3>1. i + 1 \in 1..K BY <1>2, <2>1, <2>3
    <3>2. /\ from + (i + 1) - 1 = (from + i - 1) + 1
          /\ from + i - 1 \in 1..(L - 1)
      <4>1. from + i - 1 \in 1..L /\ from + (i + 1) - 1 \in 1..L BY <1>5, <2>1, <3>1
      <4>2. i \in Nat BY <1>2, <2>1
      <4>3. QED BY <1>1, <1>2, <4>1, <4>2
    <3>3. <<r.stack[from + i - 1], r.stack[(from + i - 1) + 1]>> \in E
      BY <3>2 DEF Searched, OnPath, L
    <3>4. c[i] = r.stack[from + i - 1] /\ c[i + 1] = r.stack[(from + i - 1) + 1]
      BY <1>5, <2>1, <3>1, <3>2
    <3>5. QED BY <3>3, <3>4
  <2>4. QED BY <2>2, <2>3
<1>9. ASSUME NEW i \in 1..(Len(c) - 1), NEW j \in 1..(Len(c) - 1), c[i] = c[j] PROVE i = j
  <2>1. i \in 1..K /\ j \in 1..K BY <1>2, <1>4
  <2>2. r.stack[from + i - 1] = r.stack[from + j - 1] BY <1>5, <1>9, <2>1
  <2>3. NoRepeat(r.stack) BY DEF Searched, OnPath
  <2>4. from + i - 1 = from + j - 1 BY <1>5, <2>1, <2>2, <2>3 DEF NoRepeat, L
  <2>5. QED BY <1>2, <2>1, <2>4
<1>10. QED BY <1>4, <1>6, <1>7, <1>8, <1>9 DEF IsCycle

LEMMA CheckBegins == Init => CheckInv
<1> SUFFICES ASSUME Init PROVE CheckInv
  OBVIOUS
<1>1. CheckTypeOK
  <2>1. Listed BY LaunchOrderConstants DEF Init, OrderInit, Listed
  <2>2. QED BY <2>1 DEF Init, CheckTypeOK, Unread
<1>2. Searched(search, Adjacency, Dependency)
  <2>1. IsGraph(Adjacency, Dependency) BY <1>1, AdjacencyIsGraph DEF CheckTypeOK
  <2>2. QED BY <2>1, WhiteIsSearched DEF Init
<1>3. QED BY <1>1, <1>2 DEF Init, CheckInv, Unread

-----------------------------------------------------------------------------
LEMMA GraphStays ==
    ASSUME UNCHANGED <<deps, scopeKnown>>
    PROVE  Adjacency' = Adjacency /\ Dependency' = Dependency
BY DEF Adjacency, Neighbours, Dependency, Edge, AtValidation

(* A step of the search that goes on.                                      *)
LEMMA SearchGoesOn ==
    ASSUME CheckInv, UNCHANGED <<deps, scopeKnown, verdict, checking>>, checking = "searching",
           Searched(search', Adjacency, Dependency)
    PROVE  CheckInv'
<1>1. Adjacency' = Adjacency /\ Dependency' = Dependency BY GraphStays
<1>2. CheckTypeOK' BY DEF CheckInv, CheckTypeOK, Listed
<1>3. (checking # "unread" => verdict.self = Violations(deps, scopeKnown).self)'
  <2>1. Violations(deps, scopeKnown)' = Violations(deps, scopeKnown) BY DEF Violations
  <2>2. verdict.self = Violations(deps, scopeKnown).self BY DEF CheckInv
  <2>3. QED BY <2>1, <2>2
<1>4. QED BY <1>1, <1>2, <1>3 DEF CheckInv

LEMMA OnTop ==
    ASSUME CheckInv, search.stack # <<>>
    PROVE  /\ Innermost \in Services /\ Innermost = search.stack[Len(search.stack)]
           /\ Adjacency[Innermost] = Neighbours(Innermost)
           /\ IsSearch(search) /\ IsGraph(Adjacency, Dependency)
<1>1. IsSearch(search) BY DEF CheckInv, Searched
<1>2. search.stack \in Seq(Services) BY <1>1 DEF IsSearch
<1>3. Len(search.stack) \in 1..Len(search.stack) BY <1>2
<1>4. Innermost \in Services BY <1>2, <1>3 DEF Innermost
<1>5. IsGraph(Adjacency, Dependency) BY AdjacencyIsGraph DEF CheckInv, CheckTypeOK
<1>6. QED BY <1>1, <1>4, <1>5 DEF Innermost, Adjacency

LEMMA RootKeeps == CheckInv /\ Root => CheckInv'
<1> SUFFICES ASSUME CheckInv, Root PROVE CheckInv'
  OBVIOUS
<1>1. PICK n \in Unvisited : search' = Entered(search, n) BY DEF Root
<1>2. n \in Services /\ search.color[n] = "white" /\ search.stack = <<>>
  BY DEF Unvisited, Root
<1>3. Searched(search, Adjacency, Dependency) /\ IsSearch(search) BY DEF CheckInv, Searched
<1>4. /\ search'.color = [search.color EXCEPT ![n] = "gray"]
      /\ search'.stack = Append(search.stack, n) /\ search'.seen = search.seen
  BY <1>1, <1>3 DEF Entered, IsSearch
<1>5. IsSearch(search')
  <2>1. [search.color EXCEPT ![n] = "gray"] \in [Services -> Colors]
    BY <1>2, <1>3 DEF IsSearch, Colors
  <2>2. Append(search.stack, n) \in Seq(Services) BY <1>2, <1>3 DEF IsSearch
  <2>3. search' = [color |-> [search.color EXCEPT ![n] = "gray"],
                   stack |-> Append(search.stack, n), seen |-> search.seen]
    BY <1>1, <1>3 DEF Entered, IsSearch
  <2>4. QED BY <1>3, <2>1, <2>2, <2>3 DEF IsSearch
<1>6. IsGraph(Adjacency, Dependency) BY AdjacencyIsGraph DEF CheckInv, CheckTypeOK
<1>7. Reached(search, search', Adjacency, n) BY <1>2, <1>4 DEF Reached
<1>8. Searched(search', Adjacency, Dependency)
  BY <1>2, <1>3, <1>4, <1>5, <1>6, <1>7, EnteredIsSearched
<1>9. QED BY <1>8, SearchGoesOn DEF Root, orderVars

LEMMA EnterKeeps == ASSUME CheckInv, NEW n \in Services, Enter(n) PROVE CheckInv'
<1> DEFINE top == Innermost
<1>1. /\ top \in Services /\ search.stack # <<>> /\ top = search.stack[Len(search.stack)]
      /\ Adjacency[top] = Neighbours(top) /\ IsSearch(search) /\ IsGraph(Adjacency, Dependency)
  BY OnTop DEF Enter, LooksAt
<1>2. /\ search.seen[top] < Len(Adjacency[top]) /\ n = Adjacency[top][search.seen[top] + 1]
      /\ search.color[n] = "white"
  BY <1>1 DEF Enter, LooksAt
<1>3. Searched(search, Adjacency, Dependency) BY DEF CheckInv
<1>4. search' = Entered(Looked, n) BY DEF Enter
<1>5. /\ search'.color = [search.color EXCEPT ![n] = "gray"]
      /\ search'.stack = Append(search.stack, n)
      /\ search'.seen = [search.seen EXCEPT ![top] = @ + 1]
  BY <1>1, <1>4 DEF Entered, Looked, IsSearch
<1>6. IsSearch(search')
  <2>1. [search.color EXCEPT ![n] = "gray"] \in [Services -> Colors]
    BY <1>1 DEF IsSearch, Colors
  <2>2. Append(search.stack, n) \in Seq(Services) BY <1>1 DEF IsSearch
  <2>3. [search.seen EXCEPT ![top] = @ + 1] \in [Services -> Nat] BY <1>1 DEF IsSearch
  <2>4. search' = [color |-> [search.color EXCEPT ![n] = "gray"],
                   stack |-> Append(search.stack, n),
                   seen |-> [search.seen EXCEPT ![top] = @ + 1]]
    BY <1>1, <1>4 DEF Entered, Looked, IsSearch
  <2>5. QED BY <2>1, <2>2, <2>3, <2>4 DEF IsSearch
<1> HIDE DEF top
<1>7. Searched(search', Adjacency, Dependency)
  <2>1. Reached(search, search', Adjacency, n) BY <1>1, <1>2, <1>5 DEF Reached
  <2>2. IsGraph(Adjacency, Dependency) /\ search.color[n] = "white" BY <1>1, <1>2
  <2>3. QED BY <1>3, <1>5, <1>6, <2>1, <2>2, EnteredIsSearched
<1>8. QED BY <1>7, SearchGoesOn DEF Enter, LooksAt, orderVars

LEMMA PassKeeps == ASSUME CheckInv, NEW n \in Services, Pass(n) PROVE CheckInv'
<1> DEFINE top == Innermost
<1>1. /\ top \in Services /\ search.stack # <<>> /\ top = search.stack[Len(search.stack)]
      /\ Adjacency[top] = Neighbours(top) /\ IsSearch(search) /\ IsGraph(Adjacency, Dependency)
  BY OnTop DEF Pass, LooksAt
<1>2. /\ search.seen[top] < Len(Adjacency[top])
      /\ search.color[Adjacency[top][search.seen[top] + 1]] = "black"
  BY <1>1 DEF Pass, LooksAt
<1>3. Searched(search, Adjacency, Dependency) BY DEF CheckInv
<1>4. search' = Looked BY DEF Pass
<1>5. /\ search'.color = search.color /\ search'.stack = search.stack
      /\ search'.seen = [search.seen EXCEPT ![top] = @ + 1]
  BY <1>1, <1>4 DEF Looked, IsSearch
<1>6. IsSearch(search')
  <2>1. [search.seen EXCEPT ![top] = @ + 1] \in [Services -> Nat] BY <1>1 DEF IsSearch
  <2>2. search' = [color |-> search.color, stack |-> search.stack,
                   seen |-> [search.seen EXCEPT ![top] = @ + 1]]
    BY <1>1, <1>4 DEF Looked, IsSearch
  <2>3. QED BY <1>1, <2>1, <2>2 DEF IsSearch
<1> HIDE DEF top
<1>7. Passed(search, search', Adjacency, top) BY <1>1, <1>2, <1>5 DEF Passed
<1>8. Searched(search', Adjacency, Dependency) BY <1>1, <1>3, <1>6, <1>7, PassedIsSearched
<1>9. QED BY <1>8, SearchGoesOn DEF Pass, LooksAt, orderVars

LEMMA LeaveKeeps == CheckInv /\ Leave => CheckInv'
<1> SUFFICES ASSUME CheckInv, Leave PROVE CheckInv'
  OBVIOUS
<1> DEFINE top == Innermost
<1>1. /\ top \in Services /\ search.stack # <<>> /\ top = search.stack[Len(search.stack)]
      /\ Adjacency[top] = Neighbours(top) /\ IsSearch(search) /\ IsGraph(Adjacency, Dependency)
  BY OnTop DEF Leave
<1>2. search.seen[top] = Len(Adjacency[top]) BY <1>1 DEF Leave
<1>3. Searched(search, Adjacency, Dependency) BY DEF CheckInv
<1>4. /\ search'.color = [search.color EXCEPT ![top] = "black"]
      /\ search'.stack = SubSeq(search.stack, 1, Len(search.stack) - 1)
      /\ search'.seen = search.seen
  BY <1>1 DEF Leave, IsSearch
<1>5. IsSearch(search')
  <2>1. search.stack \in Seq(Services) /\ Len(search.stack) >= 1 BY <1>1 DEF IsSearch
  <2>2. SubSeq(search.stack, 1, Len(search.stack) - 1) \in Seq(Services) BY <2>1
  <2>3. QED BY <1>1, <2>2 DEF Leave, IsSearch, Colors
<1> HIDE DEF top
<1>6. Searched(search', Adjacency, Dependency)
  BY <1>1, <1>2, <1>3, <1>4, <1>5, LeftIsSearched
<1>7. QED BY <1>6, SearchGoesOn DEF Leave, orderVars

LEMMA NoCycleKeeps == CheckInv /\ NoCycle => CheckInv'
<1> SUFFICES ASSUME CheckInv, NoCycle PROVE CheckInv'
  OBVIOUS
<1>1. Adjacency' = Adjacency /\ Dependency' = Dependency BY GraphStays DEF NoCycle, orderVars
<1>2. Searched(search, Adjacency, Dependency) BY DEF CheckInv
<1>3. \A s \in Services : search.color[s] # "white" BY DEF NoCycle, Unvisited
<1>4. search.stack = <<>> BY DEF NoCycle
<1>5. Blacks(search) = Services BY <1>2, <1>3, <1>4, NoneGray
<1>6. CheckTypeOK' BY DEF CheckInv, CheckTypeOK, Listed, NoCycle, orderVars
<1>7. (checking # "unread" => verdict.self = Violations(deps, scopeKnown).self)'
  <2>1. Violations(deps, scopeKnown)' = Violations(deps, scopeKnown)
    BY DEF Violations, NoCycle, orderVars
  <2>2. verdict.self = Violations(deps, scopeKnown).self BY DEF CheckInv, NoCycle
  <2>3. verdict' = verdict BY DEF NoCycle
  <2>4. QED BY <2>1, <2>2, <2>3
<1>8. search' = search /\ verdict' = verdict BY DEF NoCycle
<1>9. QED BY <1>1, <1>2, <1>5, <1>6, <1>7, <1>8 DEF CheckInv, NoCycle

LEMMA CloseKeeps == ASSUME CheckInv, NEW n \in Services, Close(n) PROVE CheckInv'
<1> DEFINE top == Innermost
<1>1. /\ top \in Services /\ search.stack # <<>> /\ top = search.stack[Len(search.stack)]
      /\ Adjacency[top] = Neighbours(top) /\ IsSearch(search) /\ IsGraph(Adjacency, Dependency)
  BY OnTop DEF Close, LooksAt
<1>2. search.seen[top] < Len(Adjacency[top]) /\ n = Adjacency[top][search.seen[top] + 1]
  BY <1>1 DEF Close, LooksAt
<1>3. PICK from \in 1..Len(search.stack) :
         /\ search.stack[from] = n
         /\ verdict' = [verdict EXCEPT !.cycle =
                           Append(SubSeq(search.stack, from, Len(search.stack)), n)]
  BY DEF Close
<1> DEFINE c == Append(SubSeq(search.stack, from, Len(search.stack)), n)
<1>4. Searched(search, Adjacency, Dependency) BY DEF CheckInv
<1>5. Adjacency' = Adjacency /\ Dependency' = Dependency BY GraphStays DEF Close, orderVars
<1>6. verdict \in [self : BOOLEAN, unknown : BOOLEAN, cycle : Seq(Services)]
  BY DEF CheckInv, CheckTypeOK
<1>7. /\ verdict'.cycle = c /\ verdict'.self = verdict.self
      /\ verdict'.unknown = verdict.unknown
      /\ verdict' = [self |-> verdict.self, unknown |-> verdict.unknown, cycle |-> c]
  BY <1>3, <1>6
<1> HIDE DEF top
<1>8. <<top, n>> \in Dependency
  <2>1. Adjacency[top] \in Seq(Services) /\ search.seen[top] \in Nat
    BY <1>1 DEF IsGraph, IsSearch
  <2>2. \A a, b \in Nat : a < b => a + 1 \in 1..b OBVIOUS
  <2>3. search.seen[top] + 1 \in 1..Len(Adjacency[top]) BY <1>2, <2>1, <2>2
  <2>4. Holds(Adjacency[top], n) BY <1>2, <2>3 DEF Holds
  <2>5. QED BY <1>1, <2>4 DEF IsGraph
<1>9. c \in Seq(Services) /\ c # <<>> /\ IsCycle(c, Dependency)
  BY <1>1, <1>3, <1>4, <1>8, ClosedIsCycle
<1> HIDE DEF c
<1>10. CheckTypeOK'
  <2>1. verdict' \in [self : BOOLEAN, unknown : BOOLEAN, cycle : Seq(Services)]
    BY <1>6, <1>7, <1>9
  <2>2. QED BY <2>1 DEF CheckInv, CheckTypeOK, Listed, Close, orderVars
<1>11. (checking # "unread" => verdict.self = Violations(deps, scopeKnown).self)'
  <2>1. Violations(deps, scopeKnown)' = Violations(deps, scopeKnown)
    BY DEF Violations, Close, orderVars
  <2>2. verdict.self = Violations(deps, scopeKnown).self BY DEF CheckInv, Close, LooksAt
  <2>3. QED BY <1>7, <2>1, <2>2
<1>12. search' = search /\ checking' = "done" BY DEF Close
<1>13. QED BY <1>4, <1>5, <1>7, <1>9, <1>10, <1>11, <1>12 DEF CheckInv

LEMMA CollectKeeps == CheckInv /\ Collect => CheckInv'
<1> SUFFICES ASSUME CheckInv, Collect PROVE CheckInv'
  OBVIOUS
<1>1. Adjacency' = Adjacency /\ Dependency' = Dependency BY GraphStays DEF Collect, orderVars
<1>2. verdict' = Violations(deps, scopeKnown) /\ verdict'.cycle = <<>>
  BY DEF Collect, Violations
<1>3. CheckTypeOK'
  <2>1. verdict' \in [self : BOOLEAN, unknown : BOOLEAN, cycle : Seq(Services)]
    BY <1>2 DEF Violations
  <2>2. QED BY <2>1 DEF CheckInv, CheckTypeOK, Listed, Collect, orderVars
<1>4. verdict'.self = Violations(deps, scopeKnown)'.self
  BY <1>2 DEF Violations, Collect, orderVars
<1>5. QED BY <1>1, <1>2, <1>3, <1>4 DEF CheckInv, Collect

(* Order, and a step that changes nothing, leave the check alone.          *)
LEMMA CheckStays ==
    ASSUME CheckInv, UNCHANGED <<deps, scopeKnown, verdict, checking, search>>
    PROVE  CheckInv'
<1>1. Adjacency' = Adjacency /\ Dependency' = Dependency BY GraphStays
<1>2. CheckTypeOK' BY DEF CheckInv, CheckTypeOK, Listed
<1>3. Violations(deps, scopeKnown)' = Violations(deps, scopeKnown) BY DEF Violations
<1>4. QED BY <1>1, <1>2, <1>3 DEF CheckInv

LEMMA CheckInvHolds == Spec => []CheckInv
<1>1. CheckInv /\ [Next]_vars => CheckInv'
  <2> SUFFICES ASSUME CheckInv, [Next]_vars PROVE CheckInv'
    OBVIOUS
  <2>1. CASE Collect BY <2>1, CollectKeeps
  <2>2. CASE Root BY <2>2, RootKeeps
  <2>3. CASE NoCycle BY <2>3, NoCycleKeeps
  <2>4. ASSUME NEW n \in Services, Close(n) PROVE CheckInv' BY <2>4, CloseKeeps
  <2>5. ASSUME NEW n \in Services, Enter(n) PROVE CheckInv' BY <2>5, EnterKeeps
  <2>6. ASSUME NEW n \in Services, Pass(n) PROVE CheckInv' BY <2>6, PassKeeps
  <2>7. CASE Leave BY <2>7, LeaveKeeps
  <2>8. CASE Order /\ UNCHANGED <<scopeKnown, verdict, checking, search>>
    BY <2>8, CheckStays DEF Order
  <2>9. CASE UNCHANGED vars BY <2>9, CheckStays DEF vars, orderVars
  <2>10. QED BY <2>1, <2>2, <2>3, <2>4, <2>5, <2>6, <2>7, <2>8, <2>9 DEF Next, Search
<1>2. QED BY <1>1, CheckBegins, PTL DEF Spec

-----------------------------------------------------------------------------
LEMMA SearchDecides == CheckInv => CycleReportExact
<1> SUFFICES ASSUME CheckInv, checking = "done" PROVE CycleReportExact
  BY DEF CycleReportExact
<1>1. verdict.cycle = <<>> => LoopFree(Services, Dependency)
  <2> SUFFICES ASSUME verdict.cycle = <<>> PROVE LoopFree(Services, Dependency)
    OBVIOUS
  <2>1. Blacks(search) = Services BY DEF CheckInv
  <2>2. NoTrap(Services, Dependency) BY <2>1 DEF CheckInv, Searched, Finished
  <2>3. QED BY <2>2, NoTrapIsLoopFree
<1>2. verdict.cycle # <<>> => ~LoopFree(Services, Dependency)
  <2> SUFFICES ASSUME verdict.cycle # <<>> PROVE ~LoopFree(Services, Dependency)
    OBVIOUS
  <2>1. IsCycle(verdict.cycle, Dependency) /\ verdict.cycle \in Seq(Services)
    BY DEF CheckInv, CheckTypeOK
  <2>2. IsFiniteSet(Services) BY LaunchOrderConstants, FS_Interval DEF Services
  <2>3. QED BY <2>1, <2>2, CycleIsLoop
<1>3. verdict.cycle # <<>> => IsCycle(verdict.cycle, Dependency) BY DEF CheckInv
<1>4. QED BY <1>1, <1>2, <1>3 DEF CycleReportExact, IsCycle

(* CycleReportExact: for every number of services and every depends_on     *)
(* lists the depth-first search reports a cycle exactly when there is one, *)
(* and what it reports is one.                                             *)
THEOREM CycleIsReported == Spec => []CycleReportExact
<1>1. QED BY CheckInvHolds, SearchDecides, PTL

(* Without a pattern that only the launch takes as local, both take the    *)
(* same patterns as dependencies; without a self-reference none of them is *)
(* left out of the search.                                                 *)
LEMMA SearchedIsLaunched ==
    ASSUME Listed, ~Violations(deps, scopeKnown).self,
           \/ scopeKnown
           \/ \A s \in Services : \A i \in 1..Len(deps[s]) : deps[s][i][1] # "qualified"
    PROVE  Edge(Services, AtLaunch) = Dependency
<1> DEFINE kinds == AtValidation(scopeKnown)
<1>1. ASSUME NEW s \in Services, NEW i \in 1..Len(deps[s])
      PROVE  deps[s][i][1] \in AtLaunch <=> deps[s][i][1] \in kinds
  BY DEF AtLaunch, AtValidation
<1>2. ASSUME NEW s \in Services, NEW i \in 1..Len(deps[s]), deps[s][i][1] \in kinds
      PROVE  deps[s][i][2] # s
  BY <1>2 DEF Violations
<1> HIDE DEF kinds
<1>3. ASSUME NEW s \in Services, NEW t \in Services
      PROVE  <<s, t>> \in Edge(Services, AtLaunch) <=> <<s, t>> \in Edge(Services, kinds)
  BY <1>1 DEF Edge
<1>4. \A s \in Services : <<s, s>> \notin Edge(Services, kinds) BY <1>2 DEF Edge
<1>5. Edge(Services, AtLaunch) \subseteq Services \X Services BY DEF Edge
<1>6. Dependency \subseteq Services \X Services BY DEF Dependency, Edge
<1>7. ASSUME NEW s \in Services, NEW t \in Services
      PROVE  <<s, t>> \in Edge(Services, AtLaunch) <=> <<s, t>> \in Dependency
  <2>1. <<s, t>> \in Dependency <=> <<s, t>> \in Edge(Services, kinds) /\ s # t
    BY DEF Dependency, kinds
  <2>2. QED BY <1>3, <1>4, <2>1
<1>8. ASSUME NEW pair \in Services \X Services
      PROVE  pair \in Edge(Services, AtLaunch) <=> pair \in Dependency
  <2>1. pair = <<pair[1], pair[2]>> /\ pair[1] \in Services /\ pair[2] \in Services
    OBVIOUS
  <2>2. QED BY <1>7, <2>1
<1>9. QED BY <1>5, <1>6, <1>8

LEMMA AcceptedFollows == CheckInv => AcceptedNeverDeadlocks
<1> SUFFICES ASSUME CheckInv, checking = "done", Accepted(verdict),
                    \/ scopeKnown
                    \/ ~(\E s \in Services : \E i \in 1..Len(deps[s]) :
                            deps[s][i][1] = "qualified")
             PROVE  Acyclic(Services, AtLaunch)
  BY DEF AcceptedNeverDeadlocks
<1>1. verdict.cycle = <<>> /\ ~verdict.self BY DEF Accepted
<1>2. ~Violations(deps, scopeKnown).self BY <1>1 DEF CheckInv
<1>3. Edge(Services, AtLaunch) = Dependency
  BY <1>2, SearchedIsLaunched DEF CheckInv, CheckTypeOK
<1>4. LoopFree(Services, Dependency) BY <1>1, SearchDecides DEF CycleReportExact
<1>5. QED BY <1>3, <1>4 DEF Acyclic

(* AcceptedNeverDeadlocks: for every manifest that the validator accepts,  *)
(* no launched service waits for itself, unless the validator was not told *)
(* the name that a pattern is spelled with.                                *)
THEOREM AcceptedIsAcyclic == Spec => []AcceptedNeverDeadlocks
<1>1. QED BY CheckInvHolds, AcceptedFollows, PTL

-----------------------------------------------------------------------------
(* Each step of the search ends it or moves a service on and none back: to *)
(* the next neighbour, from white to gray or to black.                     *)
Forward ==
    /\ \A s \in Services :
          /\ search.seen[s] <= search.seen'[s]
          /\ search.color'[s] = "white" => search.color[s] = "white"
          /\ search.color[s] = "black" => search.color'[s] = "black"
    /\ \E s \in Services :
          \/ search.seen[s] < search.seen'[s]
          \/ search.color[s] = "white" /\ search.color'[s] # "white"
          \/ search.color[s] # "black" /\ search.color'[s] = "black"

SearchAdvances == [][Search => checking' = "done" \/ Forward]_vars

(* How far a service can be moved on is bounded, and a search that has not *)
(* ended has a step to take: a white service to begin with or none, a list *)
(* looked through to its end, or a neighbour; a gray one is on the stack.  *)
SearchNeverStuck ==
    /\ \A s \in Services : search.seen[s] <= Len(Neighbours(s))
    /\ checking = "searching" =>
          \/ /\ search.stack = <<>>
             /\ Unvisited = {} \/ \E n \in Unvisited : \A m \in Unvisited : n <= m
          \/ search.stack # <<>> /\ search.seen[Innermost] = Len(Neighbours(Innermost))
          \/ \E n \in Services :
                /\ LooksAt(n)
                /\ \/ search.color[n] \in {"white", "black"}
                   \/ \E from \in 1..Len(search.stack) : search.stack[from] = n

LEMMA SearchHasStep == CheckInv => SearchNeverStuck
<1> SUFFICES ASSUME CheckInv PROVE SearchNeverStuck
  OBVIOUS
<1>1. Searched(search, Adjacency, Dependency) /\ IsGraph(Adjacency, Dependency)
  BY AdjacencyIsGraph DEF CheckInv, CheckTypeOK
<1>2. ASSUME NEW s \in Services PROVE search.seen[s] <= Len(Neighbours(s))
  <2>1. Adjacency[s] = Neighbours(s) BY DEF Adjacency
  <2>2. search.seen[s] <= Len(Adjacency[s]) BY <1>1 DEF Searched, Behind
  <2>3. QED BY <2>1, <2>2
<1>3. CASE search.stack = <<>>
  <2>1. Unvisited \subseteq Nat BY LaunchOrderConstants DEF Unvisited, Services
  <2>2. Unvisited # {} => \E n \in Unvisited : \A m \in Unvisited : n <= m
    BY <2>1, LeastNatural
  <2>3. QED BY <1>2, <1>3, <2>2 DEF SearchNeverStuck
<1>4. CASE search.stack # <<>> /\ checking = "searching"
  <2> DEFINE top == Innermost
             k == search.seen[top]
             list == Neighbours(top)
  <2>1. top \in Services /\ Adjacency[top] = list BY <1>4, OnTop
  <2>2. k \in Nat /\ Len(list) \in Nat /\ list \in Seq(Services)
    <3>1. /\ search.seen[top] \in Nat /\ Len(Adjacency[top]) \in Nat
          /\ Adjacency \in [Services -> Seq(Services)]
      BY <1>1, <2>1, SearchTypes
    <3>2. QED BY <2>1, <3>1
  <2>3. k <= Len(list) BY <1>2, <2>1
  <2>4. CASE k = Len(list) BY <1>2, <1>4, <2>4 DEF SearchNeverStuck
  <2>5. CASE k # Len(list)
    <3> DEFINE n == list[k + 1]
    <3>1. k < Len(list) BY <2>2, <2>3, <2>5
    <3>2. LooksAt(n) BY <1>4, <3>1 DEF LooksAt
    <3> HIDE DEF k, list, top
    <3>3. k + 1 \in 1..Len(list) BY <2>2, <3>1
    <3>4. n \in Services BY <2>2, <3>3
    <3> HIDE DEF n
    <3>5. \/ search.color[n] \in {"white", "black"}
          \/ \E from \in 1..Len(search.stack) : search.stack[from] = n
      <4>1. search.color[n] \in Colors BY <1>1, <3>4 DEF Searched, IsSearch
      <4>2. search.color[n] = "gray" => Holds(search.stack, n)
        BY <1>1, <3>4 DEF Searched, OnPath
      <4>3. QED BY <4>1, <4>2 DEF Colors, Holds
    <3>6. QED BY <1>2, <3>2, <3>4, <3>5 DEF SearchNeverStuck
  <2>6. QED BY <2>4, <2>5
<1>5. CASE checking # "searching" BY <1>2, <1>5 DEF SearchNeverStuck
<1>6. QED BY <1>3, <1>4, <1>5

(* What each of the steps does to the search goes forward.                 *)
LEMMA EntersForward ==
    ASSUME IsSearch(search), NEW n \in Services, search.color[n] = "white",
           search'.color = [search.color EXCEPT ![n] = "gray"],
           \A s \in Services : search.seen[s] <= search'.seen[s]
    PROVE  Forward
<1>1. search.color \in [Services -> Colors] BY DEF IsSearch
<1>2. search'.color[n] = "gray" BY <1>1
<1>3. \A s \in Services : s # n => search'.color[s] = search.color[s] BY <1>1
<1>4. QED BY <1>2, <1>3 DEF Forward

LEMMA SearchIsForward ==
    ASSUME CheckInv, Search
    PROVE  checking' = "done" \/ Forward
<1>1. IsSearch(search) BY DEF CheckInv, Searched
<1>2. /\ search.seen \in [Services -> Nat] /\ search.color \in [Services -> Colors]
      /\ \A s \in Services : search.seen[s] \in Nat
  BY <1>1 DEF IsSearch
<1>3. CASE Root
  <2>1. PICK n \in Unvisited : search' = Entered(search, n) BY <1>3 DEF Root
  <2>2. /\ search'.color = [search.color EXCEPT ![n] = "gray"]
        /\ search'.seen = search.seen
    BY <1>1, <2>1 DEF Entered, IsSearch
  <2>3. n \in Services /\ search.color[n] = "white" BY DEF Unvisited
  <2>4. \A s \in Services : search.seen[s] <= search'.seen[s] BY <1>2, <2>2
  <2>5. QED BY <1>1, <2>2, <2>3, <2>4, EntersForward
<1>4. CASE NoCycle BY <1>4 DEF NoCycle
<1>5. ASSUME NEW n \in Services, Close(n) PROVE checking' = "done" BY <1>5 DEF Close
<1>6. ASSUME search.stack # <<>>, search'.seen = [search.seen EXCEPT ![Innermost] = @ + 1]
      PROVE  /\ Innermost \in Services /\ search.seen[Innermost] < search'.seen[Innermost]
             /\ \A s \in Services : search.seen[s] <= search'.seen[s]
  <2> DEFINE top == Innermost
  <2>1. top \in Services BY <1>6, OnTop
  <2>2. search.seen[top] \in Nat BY <1>2, <2>1
  <2> HIDE DEF top
  <2>3. search'.seen[top] = search.seen[top] + 1 BY <1>2, <1>6, <2>1 DEF top
  <2>4. \A s \in Services : s # top => search'.seen[s] = search.seen[s]
    BY <1>2, <1>6 DEF top
  <2>5. search.seen[top] < search'.seen[top] BY <2>2, <2>3
  <2>6. ASSUME NEW s \in Services PROVE search.seen[s] <= search'.seen[s]
    <3>1. CASE s = top BY <2>2, <2>3, <3>1
    <3>2. CASE s # top
      <4>1. search.seen[s] \in Nat /\ search'.seen[s] = search.seen[s] BY <1>2, <2>4, <3>2
      <4>2. QED BY <4>1
    <3>3. QED BY <3>1, <3>2
  <2>7. QED BY <2>1, <2>5, <2>6 DEF top
<1>7. ASSUME NEW n \in Services, Enter(n) PROVE Forward
  <2>1. search' = Entered(Looked, n) /\ search.stack # <<>> /\ search.color[n] = "white"
    BY <1>7 DEF Enter, LooksAt
  <2>2. /\ search'.color = [search.color EXCEPT ![n] = "gray"]
        /\ search'.seen = [search.seen EXCEPT ![Innermost] = @ + 1]
    BY <1>1, <2>1 DEF Entered, Looked, IsSearch
  <2>3. \A s \in Services : search.seen[s] <= search'.seen[s] BY <1>6, <2>1, <2>2
  <2>4. QED BY <1>1, <2>1, <2>2, <2>3, EntersForward
<1>8. ASSUME NEW n \in Services, Pass(n) PROVE Forward
  <2>1. search' = Looked /\ search.stack # <<>> BY <1>8 DEF Pass, LooksAt
  <2>2. /\ search'.color = search.color
        /\ search'.seen = [search.seen EXCEPT ![Innermost] = @ + 1]
    BY <1>1, <2>1 DEF Looked, IsSearch
  <2>3. /\ Innermost \in Services /\ search.seen[Innermost] < search'.seen[Innermost]
        /\ \A s \in Services : search.seen[s] <= search'.seen[s]
    BY <1>6, <2>1, <2>2
  <2>4. QED BY <2>2, <2>3 DEF Forward
<1>9. CASE Leave
  <2> DEFINE top == Innermost
  <2>1. top \in Services BY <1>9, OnTop DEF Leave
  <2>2. /\ search'.color = [search.color EXCEPT ![top] = "black"]
        /\ search'.seen = search.seen
    BY <1>1, <1>9 DEF Leave, IsSearch
  <2>3. search.color[top] # "black"
    <3>1. search.stack # <<>> BY <1>9 DEF Leave
    <3>2. search.stack \in Seq(Services) BY <1>1 DEF IsSearch
    <3>3. Len(search.stack) \in 1..Len(search.stack) BY <3>1, <3>2
    <3>4. Holds(search.stack, top) BY <3>3 DEF Holds, Innermost
    <3> HIDE DEF top
    <3>5. search.color[top] = "gray" BY <2>1, <3>4 DEF CheckInv, Searched, OnPath
    <3>6. QED BY <3>5
  <2> HIDE DEF top
  <2>4. search'.color[top] = "black" BY <1>2, <2>1, <2>2
  <2>5. \A s \in Services : s # top => search'.color[s] = search.color[s] BY <1>2, <2>2
  <2>6. \A s \in Services : search.seen[s] <= search'.seen[s] BY <1>2, <2>2
  <2>7. QED BY <2>1, <2>3, <2>4, <2>5, <2>6 DEF Forward
<1>10. QED BY <1>3, <1>4, <1>5, <1>7, <1>8, <1>9 DEF Search

(* The validator's search ends: it always has a step to take, and no more  *)
(* of them than there are services to enter and leave and neighbours to    *)
(* look at.                                                                *)
THEOREM SearchTerminates == Spec => []SearchNeverStuck /\ SearchAdvances
<1>1. CheckInv /\ [Next]_vars => [Search => checking' = "done" \/ Forward]_vars
  <2> SUFFICES ASSUME CheckInv, Search PROVE checking' = "done" \/ Forward
    BY DEF SearchAdvances
  <2>1. QED BY SearchIsForward
<1>2. QED BY <1>1, CheckInvHolds, SearchHasStep, PTL DEF Spec, SearchAdvances

-----------------------------------------------------------------------------
(* The two folds of Manifest, turn by turn.                                *)

LEMMA MergeRuns ==
    ASSUME NEW list, NEW T, NEW entries \in Seq(T)
    PROVE  \E h : /\ h[0] = list
                  /\ \A i \in 1..Len(entries) : h[i] = MergeOne(h[i - 1], entries[i])
                  /\ MergeKeyed(list, entries) = h[Len(entries)]
<1> DEFINE N == Len(entries)
           Turn(h) == [n \in 0..N |-> IF n = 0 THEN list ELSE MergeOne(h[n - 1], entries[n])]
           run == CHOOSE h : h = Turn(h)
           Partial(h, n) == h[0] = list /\ \A i \in 1..n : h[i] = MergeOne(h[i - 1], entries[i])
           D == {n \in Nat : \E h : Partial(h, n)}
<1>1. MergeKeyed(list, entries) = run[N] BY DEF MergeKeyed, Folded
<1>2. N \in Nat OBVIOUS
<1> HIDE DEF N
<1>3. 0 \in D
  <2>1. Partial([i \in 0..0 |-> list], 0) OBVIOUS
  <2>2. QED BY <2>1
<1>4. ASSUME NEW n \in Nat, n \in D PROVE n + 1 \in D
  <2>1. PICK h : Partial(h, n) BY <1>4
  <2> DEFINE last == MergeOne(h[n], entries[n + 1])
             g == [i \in 0..(n + 1) |-> IF i = n + 1 THEN last ELSE h[i]]
  <2> HIDE DEF last
  <2>2. g[0] = list /\ g[n + 1] = last /\ \A i \in 0..n : g[i] = h[i] BY <2>1
  <2> HIDE DEF g
  <2>3. \A i \in 1..n : g[i] = MergeOne(g[i - 1], entries[i])
    <3>1. \A i \in 1..n : i \in 0..n /\ i - 1 \in 0..n OBVIOUS
    <3>2. QED BY <2>1, <2>2, <3>1
  <2>4. g[n + 1] = MergeOne(g[(n + 1) - 1], entries[n + 1])
    <3>1. (n + 1) - 1 = n /\ n \in 0..n OBVIOUS
    <3>2. QED BY <2>2, <3>1 DEF last
  <2>5. \A i \in 1..(n + 1) : i = n + 1 \/ i \in 1..n OBVIOUS
  <2>6. Partial(g, n + 1) BY <2>2, <2>3, <2>4, <2>5
  <2> HIDE DEF Partial
  <2>7. QED BY <2>6
<1> HIDE DEF D
<1>5. N \in D BY <1>2, <1>3, <1>4, SetInduction
<1>6. PICK h : Partial(h, N) BY <1>5 DEF D
<1>7. \E f : f = Turn(f)
  <2> DEFINE f == [i \in 0..N |-> h[i]]
  <2>1. \A i \in 0..N : f[i] = IF i = 0 THEN list ELSE MergeOne(f[i - 1], entries[i])
    <3>1. \A i \in 0..N : i # 0 => i \in 1..N /\ i - 1 \in 0..N BY <1>2
    <3>2. \A i \in 0..N : f[i] = h[i] OBVIOUS
    <3> HIDE DEF f
    <3>3. 0 \in 0..N BY <1>2
    <3>4. QED BY <1>6, <3>1, <3>2, <3>3
  <2>2. f = Turn(f) BY <2>1
  <2>3. QED BY <2>2
<1> HIDE DEF Turn
<1>8. run = Turn(run) BY <1>7
<1> HIDE DEF run
<1>9. \A i \in 0..N : run[i] = IF i = 0 THEN list ELSE MergeOne(run[i - 1], entries[i])
  BY <1>8 DEF Turn
<1>10. Partial(run, N)
  <2>1. 0 \in 0..N /\ \A i \in 1..N : i \in 0..N /\ i # 0 BY <1>2
  <2>2. QED BY <1>9, <2>1
<1>11. QED BY <1>1, <1>10 DEF N

LEMMA ExtendRuns ==
    ASSUME NEW read, NEW T, NEW list \in Seq(T)
    PROVE  \E h : /\ h[0] = read
                  /\ \A i \in 1..Len(list) : h[i] = Extend(h[i - 1], list[i])
                  /\ WithExtensions(read, list) = h[Len(list)]
<1> DEFINE N == Len(list)
           Turn(h) == [n \in 0..N |-> IF n = 0 THEN read ELSE Extend(h[n - 1], list[n])]
           run == CHOOSE h : h = Turn(h)
           Partial(h, n) == h[0] = read /\ \A i \in 1..n : h[i] = Extend(h[i - 1], list[i])
           D == {n \in Nat : \E h : Partial(h, n)}
<1>1. WithExtensions(read, list) = run[N] BY DEF WithExtensions, Folded
<1>2. N \in Nat OBVIOUS
<1> HIDE DEF N
<1>3. 0 \in D
  <2>1. Partial([i \in 0..0 |-> read], 0) OBVIOUS
  <2>2. QED BY <2>1
<1>4. ASSUME NEW n \in Nat, n \in D PROVE n + 1 \in D
  <2>1. PICK h : Partial(h, n) BY <1>4
  <2> DEFINE last == Extend(h[n], list[n + 1])
             g == [i \in 0..(n + 1) |-> IF i = n + 1 THEN last ELSE h[i]]
  <2> HIDE DEF last
  <2>2. g[0] = read /\ g[n + 1] = last /\ \A i \in 0..n : g[i] = h[i] BY <2>1
  <2> HIDE DEF g
  <2>3. \A i \in 1..n : g[i] = Extend(g[i - 1], list[i])
    <3>1. \A i \in 1..n : i \in 0..n /\ i - 1 \in 0..n OBVIOUS
    <3>2. QED BY <2>1, <2>2, <3>1
  <2>4. g[n + 1] = Extend(g[(n + 1) - 1], list[n + 1])
    <3>1. (n + 1) - 1 = n /\ n \in 0..n OBVIOUS
    <3>2. QED BY <2>2, <3>1 DEF last
  <2>5. \A i \in 1..(n + 1) : i = n + 1 \/ i \in 1..n OBVIOUS
  <2>6. Partial(g, n + 1) BY <2>2, <2>3, <2>4, <2>5
  <2> HIDE DEF Partial
  <2>7. QED BY <2>6
<1> HIDE DEF D
<1>5. N \in D BY <1>2, <1>3, <1>4, SetInduction
<1>6. PICK h : Partial(h, N) BY <1>5 DEF D
<1>7. \E f : f = Turn(f)
  <2> DEFINE f == [i \in 0..N |-> h[i]]
  <2>1. \A i \in 0..N : f[i] = IF i = 0 THEN read ELSE Extend(f[i - 1], list[i])
    <3>1. \A i \in 0..N : i # 0 => i \in 1..N /\ i - 1 \in 0..N BY <1>2
    <3>2. \A i \in 0..N : f[i] = h[i] OBVIOUS
    <3> HIDE DEF f
    <3>3. 0 \in 0..N BY <1>2
    <3>4. QED BY <1>6, <3>1, <3>2, <3>3
  <2>2. f = Turn(f) BY <2>1
  <2>3. QED BY <2>2
<1> HIDE DEF Turn
<1>8. run = Turn(run) BY <1>7
<1> HIDE DEF run
<1>9. \A i \in 0..N : run[i] = IF i = 0 THEN read ELSE Extend(run[i - 1], list[i])
  BY <1>8 DEF Turn
<1>10. Partial(run, N)
  <2>1. 0 \in 0..N /\ \A i \in 1..N : i \in 0..N /\ i # 0 BY <1>2
  <2>2. QED BY <1>9, <2>1
<1>11. QED BY <1>1, <1>10 DEF N

-----------------------------------------------------------------------------
(* No name twice.                                                          *)

(* Lists of services, no two of which have one name.                       *)
Apart(a, b) ==
    /\ \A i, j \in 1..Len(a) : a[i].name = a[j].name => i = j
    /\ \A i, j \in 1..Len(b) : b[i].name = b[j].name => i = j
    /\ \A i \in 1..Len(a), j \in 1..Len(b) : a[i].name # b[j].name

LEMMA ApartMeans ==
    ASSUME NEW T, NEW a \in Seq(T), NEW b \in Seq(T)
    PROVE  Apart(a, b) <=> ~Twice(a \o b, LAMBDA s : s.name)
<1> DEFINE both == a \o b
           m == Len(a)
           n == Len(b)
<1>1. m \in Nat /\ n \in Nat /\ both \in Seq(T) /\ Len(both) = m + n OBVIOUS
<1>2. \A i \in 1..m : i \in 1..(m + n) /\ both[i] = a[i] OBVIOUS
<1>3. \A i \in 1..n : m + i \in 1..(m + n) /\ both[m + i] = b[i] OBVIOUS
<1>4. \A i \in 1..(m + n) : i \notin 1..m => i - m \in 1..n /\ both[i] = b[i - m] OBVIOUS
<1>5. Twice(both, LAMBDA s : s.name)
         <=> \E i, j \in 1..(m + n) : i < j /\ both[i].name = both[j].name
  BY <1>1 DEF Twice
<1>6. Apart(a, b) <=>
         /\ \A i, j \in 1..m : a[i].name = a[j].name => i = j
         /\ \A i, j \in 1..n : b[i].name = b[j].name => i = j
         /\ \A i \in 1..m, j \in 1..n : a[i].name # b[j].name
  BY DEF Apart
<1> HIDE DEF both, m, n
<1>7. ASSUME Apart(a, b), NEW i \in 1..(m + n), NEW j \in 1..(m + n), i < j,
             both[i].name = both[j].name
      PROVE  FALSE
  <2>1. CASE i \in 1..m /\ j \in 1..m BY <1>2, <1>6, <1>7, <2>1
  <2>2. CASE i \in 1..m /\ j \notin 1..m BY <1>2, <1>4, <1>6, <1>7, <2>2
  <2>3. CASE i \notin 1..m /\ j \notin 1..m
    <3>1. i - m \in 1..n /\ j - m \in 1..n /\ b[i - m].name = b[j - m].name
      BY <1>4, <1>7, <2>3
    <3>2. i - m = j - m BY <1>6, <1>7, <3>1
    <3>3. QED BY <1>1, <1>7, <3>2
  <2>4. CASE i \notin 1..m /\ j \in 1..m BY <1>1, <1>7, <2>4
  <2>5. QED BY <2>1, <2>2, <2>3, <2>4
<1>8. ASSUME \A i, j \in 1..(m + n) : ~(i < j /\ both[i].name = both[j].name)
      PROVE  Apart(a, b)
  <2>1. \A i, j \in 1..(m + n) : both[i].name = both[j].name => i = j BY <1>1, <1>8
  <2>2. \A i, j \in 1..m : a[i].name = a[j].name => i = j BY <1>2, <2>1
  <2>3. ASSUME NEW i \in 1..n, NEW j \in 1..n, b[i].name = b[j].name PROVE i = j
    <3>1. m + i = m + j BY <1>3, <2>1, <2>3
    <3>2. QED BY <1>1, <3>1
  <2>4. ASSUME NEW i \in 1..m, NEW j \in 1..n, a[i].name = b[j].name PROVE FALSE
    <3>1. i = m + j BY <1>2, <1>3, <2>1, <2>4
    <3>2. QED BY <1>1, <3>1
  <2>5. QED BY <1>6, <2>2, <2>3, <2>4
<1>9. QED BY <1>5, <1>7, <1>8 DEF both

LEMMA NamesOfBoth ==
    ASSUME NEW T, NEW a \in Seq(T), NEW b \in Seq(T)
    PROVE  Names(a \o b) = Names(a) \union Names(b)
<1>1. \A x : Holds(a \o b, x) <=> Holds(a, x) \/ Holds(b, x) BY ConcatHolds
<1>2. \A list : Names(list) = {list[i].name : i \in 1..Len(list)} BY DEF Names
<1>3. \A list, k : k \in Names(list) <=> \E i \in 1..Len(list) : list[i].name = k BY <1>2
<1>4. \A list, k : k \in Names(list) <=> \E x : Holds(list, x) /\ x.name = k BY <1>3 DEF Holds
<1>5. QED BY <1>1, <1>4

(* A service whose name is new, at the end of one of the lists.            *)
LEMMA ApartGrows ==
    ASSUME NEW T, NEW a \in Seq(T), NEW b \in Seq(T), NEW x, Apart(a, b),
           x.name \notin Names(a), x.name \notin Names(b)
    PROVE  Apart(Append(a, x), b) /\ Apart(a, Append(b, x))
<1>1. \A i \in 1..Len(a) : a[i].name # x.name BY DEF Names
<1>2. \A i \in 1..Len(b) : b[i].name # x.name BY DEF Names
<1>3. /\ Len(a) \in Nat /\ Len(Append(a, x)) = Len(a) + 1 /\ Append(a, x)[Len(a) + 1] = x
      /\ \A i \in 1..Len(a) : Append(a, x)[i] = a[i]
      /\ \A i \in 1..(Len(a) + 1) : i = Len(a) + 1 \/ i \in 1..Len(a)
  OBVIOUS
<1>4. /\ Len(b) \in Nat /\ Len(Append(b, x)) = Len(b) + 1 /\ Append(b, x)[Len(b) + 1] = x
      /\ \A i \in 1..Len(b) : Append(b, x)[i] = b[i]
      /\ \A i \in 1..(Len(b) + 1) : i = Len(b) + 1 \/ i \in 1..Len(b)
  OBVIOUS
<1>5. Apart(Append(a, x), b) BY <1>1, <1>2, <1>3 DEF Apart
<1>6. Apart(a, Append(b, x)) BY <1>1, <1>2, <1>4 DEF Apart
<1>7. QED BY <1>5, <1>6

Begins(front, list) ==
    Len(front) <= Len(list) /\ \A i \in 1..Len(front) : list[i] = front[i]

(* m is what was read, with services of new names after it.                *)
Grown(read, m) ==
    /\ {"services", "workspace"} \subseteq DOMAIN m
    /\ \E T : m.services \in Seq(T) /\ m.workspace \in Seq(T)
    /\ Begins(read.services, m.services) /\ Begins(read.workspace, m.workspace)
    /\ Apart(m.services, m.workspace)

LEMMA BeginsStays ==
    ASSUME NEW T, NEW list \in Seq(T), NEW front, Len(front) \in Nat, Begins(front, list), NEW x
    PROVE  Begins(front, Append(list, x))
<1>1. /\ Len(list) \in Nat /\ Len(Append(list, x)) = Len(list) + 1
      /\ \A i \in 1..Len(list) : Append(list, x)[i] = list[i]
  OBVIOUS
<1>2. QED BY <1>1 DEF Begins

LEMMA ExtendGrows ==
    ASSUME NEW read, NEW taken, NEW raw, Grown(read, taken),
           Len(read.services) \in Nat, Len(read.workspace) \in Nat
    PROVE  Grown(read, Extend(taken, raw))
<1> DEFINE entry == Normalized(raw)
           service == Over([env |-> <<>>], ServiceOf(entry))
           project == Over([scope |-> "project"], service)
           name == entry["name"]
<1>1. PICK T : taken.services \in Seq(T) /\ taken.workspace \in Seq(T) BY DEF Grown
<1>2. Names(taken.services \o taken.workspace)
         = Names(taken.services) \union Names(taken.workspace)
  BY <1>1, NamesOfBoth
<1>3. \/ Extend(taken, raw) = taken
      \/ /\ Runnable(entry) /\ name \notin Names(taken.services \o taken.workspace)
         /\ \/ Extend(taken, raw) = [taken EXCEPT !.workspace = Append(@, service)]
            \/ Extend(taken, raw) = [taken EXCEPT !.services = Append(@, project)]
  BY DEF Extend
<1>4. ASSUME Runnable(entry) PROVE service.name = name /\ project.name = name
  <2>1. "name" \in DOMAIN entry BY <1>4 DEF Runnable
  <2> HIDE DEF entry
  <2>2. "name" \in DOMAIN ServiceOf(entry) /\ ServiceOf(entry).name = name
    BY <2>1 DEF ServiceOf, Over
  <2>3. "name" \in DOMAIN service /\ service.name = name BY <2>2 DEF Over
  <2> HIDE DEF service
  <2>4. project.name = name BY <2>3 DEF Over
  <2>5. QED BY <2>3, <2>4
<1> HIDE DEF entry, service, project, name
<1>5. CASE Extend(taken, raw) = taken BY <1>5
<1>6. CASE /\ Runnable(entry) /\ name \notin Names(taken.services \o taken.workspace)
           /\ Extend(taken, raw) = [taken EXCEPT !.workspace = Append(@, service)]
  <2> DEFINE m == [taken EXCEPT !.workspace = Append(@, service)]
  <2>1. /\ DOMAIN m = DOMAIN taken /\ m.services = taken.services
        /\ m.workspace = Append(taken.workspace, service)
    BY DEF Grown
  <2> HIDE DEF m
  <2>2. Apart(taken.services, Append(taken.workspace, service))
    BY <1>1, <1>2, <1>4, <1>6, ApartGrows DEF Grown
  <2>3. Begins(read.workspace, Append(taken.workspace, service)) BY <1>1, BeginsStays DEF Grown
  <2>4. m.services \in Seq(T \union {service}) /\ m.workspace \in Seq(T \union {service})
    BY <1>1, <2>1
  <2>5. Grown(read, m) BY <2>1, <2>2, <2>3, <2>4 DEF Grown
  <2>6. QED BY <1>6, <2>5 DEF m
<1>7. CASE /\ Runnable(entry) /\ name \notin Names(taken.services \o taken.workspace)
           /\ Extend(taken, raw) = [taken EXCEPT !.services = Append(@, project)]
  <2> DEFINE m == [taken EXCEPT !.services = Append(@, project)]
  <2>1. /\ DOMAIN m = DOMAIN taken /\ m.workspace = taken.workspace
        /\ m.services = Append(taken.services, project)
    BY DEF Grown
  <2> HIDE DEF m
  <2>2. Apart(Append(taken.services, project), taken.workspace)
    BY <1>1, <1>2, <1>4, <1>7, ApartGrows DEF Grown
  <2>3. Begins(read.services, Append(taken.services, project)) BY <1>1, BeginsStays DEF Grown
  <2>4. m.services \in Seq(T \union {project}) /\ m.workspace \in Seq(T \union {project})
    BY <1>1, <2>1
  <2>5. Grown(read, m) BY <2>1, <2>2, <2>3, <2>4 DEF Grown
  <2>6. QED BY <1>7, <2>5 DEF m
<1>8. QED BY <1>3, <1>5, <1>6, <1>7

LEMMA ExtensionsGrow ==
    ASSUME NEW read, NEW T, NEW list \in Seq(T), Grown(read, read),
           Len(read.services) \in Nat, Len(read.workspace) \in Nat
    PROVE  Grown(read, WithExtensions(read, list))
<1>1. PICK h : /\ h[0] = read
               /\ \A i \in 1..Len(list) : h[i] = Extend(h[i - 1], list[i])
               /\ WithExtensions(read, list) = h[Len(list)]
  BY ExtendRuns
<1> DEFINE D == {n \in Nat : n <= Len(list) => Grown(read, h[n])}
<1>2. 0 \in D BY <1>1
<1>3. ASSUME NEW n \in Nat, n \in D PROVE n + 1 \in D
  <2> SUFFICES ASSUME n + 1 <= Len(list) PROVE Grown(read, h[n + 1])
    OBVIOUS
  <2>1. n + 1 \in 1..Len(list) /\ (n + 1) - 1 = n /\ n <= Len(list) OBVIOUS
  <2>2. h[n + 1] = Extend(h[n], list[n + 1]) BY <1>1, <2>1
  <2>3. Grown(read, h[n]) BY <1>3, <2>1
  <2>4. QED BY <2>2, <2>3, ExtendGrows
<1> HIDE DEF D
<1>4. \A n \in Nat : n \in D BY <1>2, <1>3, SetInduction
<1>5. Len(list) \in Nat OBVIOUS
<1>6. QED BY <1>1, <1>4, <1>5 DEF D

-----------------------------------------------------------------------------
(* What is read consists of lists.                                         *)

IsList(x) == \E T : x \in Seq(T)

LEMMA MergeKeepsList ==
    ASSUME NEW list, NEW entry, IsList(list) PROVE IsList(MergeOne(list, entry))
<1> DEFINE same == {i \in 1..Len(list) : /\ "name" \in DOMAIN entry \cap DOMAIN list[i]
                                         /\ list[i]["name"] = entry["name"]}
           k == Max(same)
           v == MergeEntry(list[k], entry)
<1>1. PICK T : list \in Seq(T) BY DEF IsList
<1>2. MergeOne(list, entry) = IF same = {} THEN Append(list, entry) ELSE [list EXCEPT ![k] = v]
  BY DEF MergeOne
<1> HIDE DEF same, k, v
<1>3. Append(list, entry) \in Seq(T \union {entry}) BY <1>1
<1>4. [list EXCEPT ![k] = v] \in Seq(T \union {v})
  <2> DEFINE n == Len(list)
             changed == [list EXCEPT ![k] = v]
  <2>1. n \in Nat /\ list \in [1..n -> T] BY <1>1
  <2> HIDE DEF n
  <2>2. changed \in [1..n -> T \union {v}] BY <2>1
  <2>3. [1..n -> T \union {v}] \subseteq Seq(T \union {v}) BY <2>1
  <2>4. QED BY <2>2, <2>3
<1>5. QED BY <1>2, <1>3, <1>4 DEF IsList

LEMMA MergedIsList ==
    ASSUME NEW T, NEW list \in Seq(T), NEW entries \in Seq(T)
    PROVE  IsList(MergeKeyed(list, entries))
<1>1. PICK h : /\ h[0] = list
               /\ \A i \in 1..Len(entries) : h[i] = MergeOne(h[i - 1], entries[i])
               /\ MergeKeyed(list, entries) = h[Len(entries)]
  BY MergeRuns
<1> DEFINE D == {n \in Nat : n <= Len(entries) => IsList(h[n])}
<1>2. 0 \in D BY <1>1 DEF IsList
<1>3. ASSUME NEW n \in Nat, n \in D PROVE n + 1 \in D
  <2> SUFFICES ASSUME n + 1 <= Len(entries) PROVE IsList(h[n + 1])
    OBVIOUS
  <2>1. n + 1 \in 1..Len(entries) /\ (n + 1) - 1 = n /\ n <= Len(entries) OBVIOUS
  <2>2. h[n + 1] = MergeOne(h[n], entries[n + 1]) BY <1>1, <2>1
  <2>3. IsList(h[n]) BY <1>3, <2>1
  <2>4. QED BY <2>2, <2>3, MergeKeepsList
<1> HIDE DEF D
<1>4. \A n \in Nat : n \in D BY <1>2, <1>3, SetInduction
<1>5. Len(entries) \in Nat OBVIOUS
<1>6. QED BY <1>1, <1>4, <1>5 DEF D

(* The merged entries with `cmd` in its place, as services.                *)
Merged == MergeDocuments(sources.committed, sources.overlay)
Read == Built(Merged)

FilesGiven == sources \in [committed : Committed, overlay : Overlays, extension : Extensions]

LEMMA EachIsList ==
    ASSUME NEW T, NEW list \in Seq(T)
    PROVE  /\ IsList(Each(Normalized, list)) /\ Len(Each(Normalized, list)) = Len(list)
           /\ \A i \in 1..Len(list) : Each(Normalized, list)[i] = Normalized(list[i])
<1> DEFINE n == Len(list)
           all == Each(Normalized, list)
           U == {Normalized(list[i]) : i \in 1..n}
<1>1. n \in Nat /\ all = [i \in 1..n |-> Normalized(list[i])] BY DEF Each
<1> HIDE DEF n, all
<1>2. all \in [1..n -> U] BY <1>1
<1> HIDE DEF U
<1>3. all \in Seq(U) /\ Len(all) = n BY <1>1, <1>2
<1>4. QED BY <1>1, <1>3 DEF IsList, n, all

LEMMA MergedLists == ASSUME FilesGiven PROVE IsList(Merged.service)
<1> DEFINE ours == sources.committed.service
           theirs == sources.overlay.service
           a == Each(Normalized, ours)
           b == Each(Normalized, theirs)
<1>1. ours \in Seq(Range(ours)) /\ theirs \in Seq(Range(theirs)) BY FilesAssumption DEF FilesGiven
<1>2. IsList(a) /\ IsList(b) BY <1>1, EachIsList
<1>3. Merged.service = MergeKeyed(a, b) BY DEF Merged, MergeDocuments
<1> HIDE DEF a, b
<1>4. PICK T, U : a \in Seq(T) /\ b \in Seq(U) BY <1>2 DEF IsList
<1>5. a \in Seq(T \union U) /\ b \in Seq(T \union U) BY <1>4
<1>6. QED BY <1>3, <1>5, MergedIsList

(* The services of the merged entries, before they are split by scope.     *)
Whole == [i \in 1..Len(Merged.service) |-> ServiceOf(Normalized(Merged.service[i]))]
InScope(scope) == Filtered(Whole, {s \in Range(Whole) : s.scope = scope})

LEMMA ReadIsSplit ==
    ASSUME IsList(Merged.service)
    PROVE  /\ Read.services = InScope("project") /\ Read.workspace = InScope("workspace")
           /\ Whole \in Seq(Range(Whole)) /\ Len(Whole) = Len(Merged.service)
           /\ {"services", "workspace"} \subseteq DOMAIN Read
<1> DEFINE n == Len(Merged.service)
<1>1. n \in Nat BY DEF IsList
<1>2. Len(Each(Normalized, Merged.service)) = n
      /\ \A i \in 1..n : Each(Normalized, Merged.service)[i] = Normalized(Merged.service[i])
  BY EachIsList DEF IsList
<1>3. Each(ServiceOf, Each(Normalized, Merged.service)) = Whole
  <2> DEFINE all == Each(Normalized, Merged.service)
  <2>1. Len(all) = n /\ \A i \in 1..n : all[i] = Normalized(Merged.service[i]) BY <1>2
  <2> HIDE DEF all
  <2>2. Each(ServiceOf, all) = [i \in 1..n |-> ServiceOf(all[i])] BY <2>1 DEF Each
  <2>3. QED BY <2>1, <2>2 DEF Whole, all
<1>4. Read = [settings |-> Merged.settings, services |-> InScope("project"),
              workspace |-> InScope("workspace")]
  BY <1>3 DEF Read, Built, InScope
<1>5. Whole \in [1..n -> Range(Whole)]
  <2>1. Whole = [i \in 1..n |-> ServiceOf(Normalized(Merged.service[i]))] BY DEF Whole
  <2>2. DOMAIN Whole = 1..n /\ Whole = [i \in 1..n |-> Whole[i]] BY <2>1
  <2> HIDE DEF n
  <2>3. \A i \in 1..n : Whole[i] \in Range(Whole) BY <2>2 DEF Range
  <2>4. QED BY <2>2, <2>3
<1> HIDE DEF n
<1>6. Whole \in Seq(Range(Whole)) /\ Len(Whole) = n BY <1>1, <1>5
<1>7. QED BY <1>4, <1>6 DEF n

LEMMA ReadLists ==
    ASSUME FilesGiven
    PROVE  /\ Read.services \in Seq(Range(Whole)) /\ Read.workspace \in Seq(Range(Whole))
           /\ {"services", "workspace"} \subseteq DOMAIN Read
<1>1. /\ Read.services = InScope("project") /\ Read.workspace = InScope("workspace")
      /\ Whole \in Seq(Range(Whole)) /\ {"services", "workspace"} \subseteq DOMAIN Read
  BY MergedLists, ReadIsSplit
<1>2. \A scope : InScope(scope) \in Seq(Range(Whole)) BY <1>1, FilteredHolds DEF InScope
<1>3. QED BY <1>1, <1>2

-----------------------------------------------------------------------------
(* The steps.                                                              *)

ManifestInv ==
    /\ FilesGiven
    /\ step \in {"unread", "refused", "read", "validated", "extended", "checked"}
    /\ step \in {"read", "validated"} => manifest = Read
    /\ step = "read" =>
          ~Unreadable([Merged EXCEPT !.service = Each(Normalized, @)])
    /\ step = "validated" /\ report = {} => Apart(Read.services, Read.workspace)
    /\ step = "checked" /\ report = {} => Grown(Read, manifest)

LEMMA ManifestStarts == ASSUME ManifestInit PROVE ManifestInv
BY DEF ManifestInit, ManifestInv, FilesGiven

LEMMA ManifestStepKeeps == ASSUME ManifestInv, [ManifestNext]_manifestVars PROVE ManifestInv'
<1>1. UNCHANGED sources
  BY DEF ManifestNext, ReadManifest, CheckManifest, AddExtensions, manifestVars
<1>2. FilesGiven' /\ Read' = Read /\ Merged' = Merged
  BY <1>1 DEF ManifestInv, FilesGiven, Read, Merged
<1>3. CASE ReadManifest
  <2>1. \/ step' = "refused"
        \/ /\ step' = "read" /\ manifest' = Read
           /\ ~Unreadable([Merged EXCEPT !.service = Each(Normalized, @)])
    BY <1>3 DEF ReadManifest, Read, Merged
  <2>2. QED BY <1>2, <2>1 DEF ManifestInv
<1>4. CASE CheckManifest
  <2>1. step = "read" /\ step' = "validated" /\ manifest' = manifest /\ manifest = Read
    BY <1>4 DEF CheckManifest, ManifestInv
  <2>2. DuplicateName => "name" \in report'
    <3> HIDE DEF DuplicateName
    <3>1. QED BY <1>4 DEF CheckManifest
  <2>3. ASSUME report' = {} PROVE Apart(Read.services, Read.workspace)
    <3>1. ~DuplicateName BY <2>2, <2>3
    <3>2. ~Twice(Read.services \o Read.workspace, LAMBDA s : s.name)
      BY <2>1, <3>1 DEF DuplicateName
    <3>3. Read.services \in Seq(Range(Whole)) /\ Read.workspace \in Seq(Range(Whole))
      BY ReadLists DEF ManifestInv
    <3>4. Apart(Read.services, Read.workspace)
             <=> ~Twice(Read.services \o Read.workspace, LAMBDA s : s.name)
      BY <3>3, ApartMeans
    <3>5. QED BY <3>2, <3>4
  <2>4. QED BY <1>2, <2>1, <2>3 DEF ManifestInv
<1>5. CASE AddExtensions
  <2>1. /\ step \in {"read", "validated"} /\ manifest = Read /\ report' = report
        /\ manifest' = WithExtensions(Read, sources.extension)
        /\ step' = IF step = "read" THEN "extended" ELSE "checked"
    BY <1>5 DEF AddExtensions, ManifestInv
  <2>2. ASSUME step' = "checked", report' = {} PROVE Grown(Read, manifest')
    <3>1. Apart(Read.services, Read.workspace) BY <2>1, <2>2 DEF ManifestInv
    <3>2. /\ Read.services \in Seq(Range(Whole)) /\ Read.workspace \in Seq(Range(Whole))
          /\ {"services", "workspace"} \subseteq DOMAIN Read
      BY ReadLists DEF ManifestInv
    <3>3. Len(Read.services) \in Nat /\ Len(Read.workspace) \in Nat BY <3>2
    <3>4. Begins(Read.services, Read.services) /\ Begins(Read.workspace, Read.workspace)
      BY <3>3 DEF Begins
    <3>5. Grown(Read, Read) BY <3>1, <3>2, <3>4 DEF Grown
    <3>6. sources.extension \in Seq(Range(sources.extension))
      BY FilesAssumption DEF ManifestInv, FilesGiven
    <3>7. Grown(Read, WithExtensions(Read, sources.extension))
      BY <3>3, <3>5, <3>6, ExtensionsGrow
    <3>8. QED BY <2>1, <3>7
  <2>3. QED BY <1>2, <2>1, <2>2 DEF ManifestInv
<1>6. CASE UNCHANGED manifestVars
  BY <1>2, <1>6 DEF ManifestInv, manifestVars
<1>7. QED BY <1>3, <1>4, <1>5, <1>6 DEF ManifestNext

LEMMA GrownGives ==
    ASSUME FilesGiven, Grown(Read, manifest)
    PROVE  /\ ~Twice(manifest.services \o manifest.workspace, LAMBDA s : s.name)
           /\ IsPrefix(Read.services, manifest.services)
           /\ IsPrefix(Read.workspace, manifest.workspace)
<1>1. PICK T : manifest.services \in Seq(T) /\ manifest.workspace \in Seq(T) BY DEF Grown
<1>2. ~Twice(manifest.services \o manifest.workspace, LAMBDA s : s.name)
  BY <1>1, ApartMeans DEF Grown
<1>3. ASSUME NEW U, NEW front \in Seq(U), NEW list \in Seq(T), Begins(front, list)
      PROVE  IsPrefix(front, list)
  <2>1. Len(front) <= Len(list) BY <1>3 DEF Begins
  <2>2. SubSeq(front, 1, Len(front)) = SubSeq(list, 1, Len(front))
    BY <1>3, <2>1 DEF Begins
  <2>3. QED BY <2>1, <2>2 DEF IsPrefix
<1>4. QED BY <1>1, <1>2, <1>3, ReadLists DEF Grown

(* What the validator accepts has one service to a name, and still has     *)
(* when the extensions' services are added: the validator's check of both  *)
(* scopes and read_and_merge's skipping of names already taken.            *)
THEOREM NamesStayUnique == ManifestSpec => []NoNameTwice
<1>1. ManifestInit => ManifestInv BY ManifestStarts
<1>2. ManifestInv /\ [ManifestNext]_manifestVars => ManifestInv' BY ManifestStepKeeps
<1>3. ManifestInv => NoNameTwice
  BY GrownGives DEF ManifestInv, NoNameTwice, Read, Merged
<1>4. QED BY <1>1, <1>2, <1>3, PTL DEF ManifestSpec

-----------------------------------------------------------------------------
(* The overlay wins.  First what the tables of one service become.         *)

LEMMA NormalizedKeys ==
    ASSUME NEW entry
    PROVE  /\ "command" \notin DOMAIN Normalized(entry)
           /\ \A key : key \notin {"cmd", "command"} =>
                 (key \in DOMAIN Normalized(entry) <=> key \in DOMAIN entry)
           /\ \A key \in DOMAIN entry : key \notin {"cmd", "command"} =>
                 Normalized(entry)[key] = entry[key]
           /\ "cmd" \in DOMAIN Normalized(entry) <=> Command(entry) # {}
           /\ "cmd" \in DOMAIN Normalized(entry) => Normalized(entry)["cmd"] \in Command(entry)
<1>1. CASE "command" \notin DOMAIN entry
  <2>1. Normalized(entry) = entry BY <1>1 DEF Normalized
  <2>2. QED BY <1>1, <2>1 DEF Command
<1>2. CASE "command" \in DOMAIN entry
  <2> DEFINE front == [key \in DOMAIN entry \ {"command"} |-> entry[key]]
             back == [cmd |-> entry["command"]]
             both == DOMAIN front \union DOMAIN back
  <2>1. /\ DOMAIN front = DOMAIN entry \ {"command"}
        /\ \A key \in DOMAIN front : front[key] = entry[key]
        /\ DOMAIN back = {"cmd"} /\ back["cmd"] = entry["command"]
    OBVIOUS
  <2>2. Normalized(entry) = [key \in both |-> IF key \in DOMAIN front THEN front[key] ELSE back[key]]
    BY <1>2 DEF Normalized, Over, Restrict
  <2> HIDE DEF front, back
  <2>3. /\ DOMAIN Normalized(entry) = both
        /\ \A key \in both : Normalized(entry)[key] = IF key \in DOMAIN front THEN front[key]
                                                     ELSE back[key]
    BY <2>2
  <2>4. QED BY <1>2, <2>1, <2>3 DEF Command
<1>3. QED BY <1>1, <1>2

LEMMA MergeEntryKeys ==
    ASSUME NEW old, NEW new
    PROVE  /\ DOMAIN MergeEntry(old, new) = DOMAIN new \union DOMAIN old
           /\ \A key \in DOMAIN new \union DOMAIN old : key # "env" =>
                 MergeEntry(old, new)[key] = IF key \in DOMAIN new THEN new[key] ELSE old[key]
           /\ "env" \in DOMAIN old \cap DOMAIN new =>
                 MergeEntry(old, new)["env"] = Over(new["env"], old["env"])
           /\ "env" \in DOMAIN old /\ "env" \notin DOMAIN new =>
                 MergeEntry(old, new)["env"] = old["env"]
           /\ "env" \in DOMAIN new /\ "env" \notin DOMAIN old =>
                 MergeEntry(old, new)["env"] = new["env"]
<1> DEFINE merged == Over(new, old)
           env == Over(new["env"], old["env"])
           table == [env |-> env]
<1>1. /\ DOMAIN merged = DOMAIN new \union DOMAIN old
      /\ \A key \in DOMAIN new \union DOMAIN old :
            merged[key] = IF key \in DOMAIN new THEN new[key] ELSE old[key]
  BY DEF Over
<1>2. MergeEntry(old, new) = IF "env" \in DOMAIN old \cap DOMAIN new
                             THEN Over(table, merged) ELSE merged
  BY DEF MergeEntry
<1> HIDE DEF merged, env
<1>3. DOMAIN table = {"env"} /\ table["env"] = env OBVIOUS
<1> HIDE DEF table
<1>4. CASE "env" \notin DOMAIN old \cap DOMAIN new BY <1>1, <1>2, <1>4
<1>5. CASE "env" \in DOMAIN old \cap DOMAIN new
  <2>1. MergeEntry(old, new) = Over(table, merged) BY <1>2, <1>5
  <2>2. /\ DOMAIN Over(table, merged) = {"env"} \union DOMAIN merged
        /\ \A key \in {"env"} \union DOMAIN merged :
              Over(table, merged)[key] = IF key \in {"env"} THEN table[key] ELSE merged[key]
    BY <1>3 DEF Over
  <2>3. QED BY <1>1, <1>5, <1>3, <2>1, <2>2 DEF env
<1>6. QED BY <1>4, <1>5

LEMMA ServiceKeys ==
    ASSUME NEW entry
    PROVE  /\ DOMAIN ServiceOf(entry) = DOMAIN entry \union {"cmd", "scope", "env"}
           /\ \A key \in DOMAIN entry : ServiceOf(entry)[key] = entry[key]
           /\ "scope" \notin DOMAIN entry => ServiceOf(entry)["scope"] = "project"
           /\ "env" \notin DOMAIN entry => ServiceOf(entry)["env"] = <<>>
<1> DEFINE defaults == [cmd |-> "", scope |-> "project", env |-> <<>>]
<1>1. /\ DOMAIN defaults = {"cmd", "scope", "env"}
      /\ defaults["scope"] = "project" /\ defaults["env"] = <<>>
  OBVIOUS
<1>2. ServiceOf(entry) = Over(entry, defaults) BY DEF ServiceOf
<1> HIDE DEF defaults
<1>3. /\ DOMAIN Over(entry, defaults) = DOMAIN entry \union DOMAIN defaults
      /\ \A key \in DOMAIN entry \union DOMAIN defaults :
            Over(entry, defaults)[key] = IF key \in DOMAIN entry THEN entry[key] ELSE defaults[key]
  BY DEF Over
<1>4. QED BY <1>1, <1>2, <1>3

(* An env is a table, where there is one.                                  *)
Env(entry) == IF "env" \in DOMAIN entry THEN entry["env"] ELSE <<>>
Table(entry) ==
    "env" \in DOMAIN entry => entry["env"] \in [DOMAIN entry["env"] -> Range(entry["env"])]

(* Key by key, s is what theirs says, and ours where theirs says nothing.  *)
Wins(s, theirs, ours) ==
    /\ \A key \in {"target", "scope"} :
          IF key \in DOMAIN theirs THEN s[key] = theirs[key]
          ELSE key \in DOMAIN ours => s[key] = ours[key]
    /\ IF Command(theirs) # {} THEN s.cmd \in Command(theirs)
       ELSE Command(ours) # {} => s.cmd \in Command(ours)
    /\ s.env = Over(Env(theirs), Env(ours))

LEMMA EmptyOver ==
    ASSUME NEW U, NEW f, f \in [DOMAIN f -> U]
    PROVE  Over(<<>>, f) = f /\ Over(f, <<>>) = f
<1> DEFINE empty == <<>>
<1>1. DOMAIN empty = {} OBVIOUS
<1> HIDE DEF empty
<1>2. /\ Over(empty, f) = [key \in DOMAIN f |-> f[key]]
      /\ Over(f, empty) = [key \in DOMAIN f |-> f[key]]
  <2>1. Over(empty, f) = [key \in DOMAIN empty \union DOMAIN f |->
                            IF key \in DOMAIN empty THEN empty[key] ELSE f[key]]
    BY DEF Over
  <2>2. Over(f, empty) = [key \in DOMAIN f \union DOMAIN empty |->
                            IF key \in DOMAIN f THEN f[key] ELSE empty[key]]
    BY DEF Over
  <2>3. QED BY <1>1, <2>1, <2>2
<1>3. f = [key \in DOMAIN f |-> f[key]] OBVIOUS
<1>4. QED BY <1>2, <1>3 DEF empty

LEMMA EmptyEmpty == Over(<<>>, <<>>) = <<>>
<1>1. <<>> \in [1..0 -> {}] /\ DOMAIN <<>> = 1..0 OBVIOUS
<1>2. <<>> \in [DOMAIN <<>> -> {}] BY <1>1
<1>3. QED BY <1>2, EmptyOver

LEMMA MergedWins ==
    ASSUME NEW ours, NEW theirs, Table(ours), Table(theirs)
    PROVE  Wins(ServiceOf(MergeEntry(Normalized(ours), Normalized(theirs))), theirs, ours)
<1> DEFINE old == Normalized(ours)
           new == Normalized(theirs)
           merged == MergeEntry(old, new)
           s == ServiceOf(merged)
<1>1. /\ \A key : key \notin {"cmd", "command"} => (key \in DOMAIN old <=> key \in DOMAIN ours)
      /\ \A key \in DOMAIN ours : key \notin {"cmd", "command"} => old[key] = ours[key]
      /\ "cmd" \in DOMAIN old <=> Command(ours) # {}
      /\ "cmd" \in DOMAIN old => old["cmd"] \in Command(ours)
  BY NormalizedKeys
<1>2. /\ \A key : key \notin {"cmd", "command"} => (key \in DOMAIN new <=> key \in DOMAIN theirs)
      /\ \A key \in DOMAIN theirs : key \notin {"cmd", "command"} => new[key] = theirs[key]
      /\ "cmd" \in DOMAIN new <=> Command(theirs) # {}
      /\ "cmd" \in DOMAIN new => new["cmd"] \in Command(theirs)
  BY NormalizedKeys
<1> HIDE DEF old, new
<1>3. /\ DOMAIN merged = DOMAIN new \union DOMAIN old
      /\ \A key \in DOMAIN new \union DOMAIN old : key # "env" =>
            merged[key] = IF key \in DOMAIN new THEN new[key] ELSE old[key]
      /\ "env" \in DOMAIN old \cap DOMAIN new => merged["env"] = Over(new["env"], old["env"])
      /\ "env" \in DOMAIN old /\ "env" \notin DOMAIN new => merged["env"] = old["env"]
      /\ "env" \in DOMAIN new /\ "env" \notin DOMAIN old => merged["env"] = new["env"]
  BY MergeEntryKeys
<1> HIDE DEF merged
<1>4. /\ \A key \in DOMAIN merged : s[key] = merged[key]
      /\ "env" \notin DOMAIN merged => s["env"] = <<>>
  BY ServiceKeys
<1> HIDE DEF s
<1>5. ASSUME NEW key \in {"target", "scope"}
      PROVE  IF key \in DOMAIN theirs THEN s[key] = theirs[key]
             ELSE key \in DOMAIN ours => s[key] = ours[key]
  <2>1. key \notin {"cmd", "command"} /\ key # "env" BY <1>5
  <2>2. QED BY <1>1, <1>2, <1>3, <1>4, <2>1
<1>6. IF Command(theirs) # {} THEN s["cmd"] \in Command(theirs)
      ELSE Command(ours) # {} => s["cmd"] \in Command(ours)
  BY <1>1, <1>2, <1>3, <1>4
<1>7. s["env"] = Over(Env(theirs), Env(ours))
  <2>1. CASE "env" \in DOMAIN ours /\ "env" \in DOMAIN theirs
    BY <1>1, <1>2, <1>3, <1>4, <2>1 DEF Env
  <2>2. CASE "env" \in DOMAIN ours /\ "env" \notin DOMAIN theirs
    <3>1. s["env"] = ours["env"] BY <1>1, <1>2, <1>3, <1>4, <2>2
    <3>2. Over(<<>>, ours["env"]) = ours["env"] BY <2>2, EmptyOver DEF Table
    <3>3. QED BY <2>2, <3>1, <3>2 DEF Env
  <2>3. CASE "env" \notin DOMAIN ours /\ "env" \in DOMAIN theirs
    <3>1. s["env"] = theirs["env"] BY <1>1, <1>2, <1>3, <1>4, <2>3
    <3>2. Over(theirs["env"], <<>>) = theirs["env"] BY <2>3, EmptyOver DEF Table
    <3>3. QED BY <2>3, <3>1, <3>2 DEF Env
  <2>4. CASE "env" \notin DOMAIN ours /\ "env" \notin DOMAIN theirs
    <3>1. s["env"] = <<>> BY <1>1, <1>2, <1>3, <1>4, <2>4
    <3>2. QED BY <2>4, <3>1, EmptyEmpty DEF Env
  <2>5. QED BY <2>1, <2>2, <2>3, <2>4
<1>8. Wins(s, theirs, ours) BY <1>5, <1>6, <1>7 DEF Wins
<1>9. QED BY <1>8 DEF s, merged, old, new

(* A service only one of the files names.                                  *)
LEMMA AloneWins ==
    ASSUME NEW entry, Table(entry)
    PROVE  /\ Wins(ServiceOf(Normalized(entry)), entry, <<>>)
           /\ Wins(ServiceOf(Normalized(entry)), <<>>, entry)
<1> DEFINE new == Normalized(entry)
           s == ServiceOf(new)
<1>1. /\ \A key : key \notin {"cmd", "command"} => (key \in DOMAIN new <=> key \in DOMAIN entry)
      /\ \A key \in DOMAIN entry : key \notin {"cmd", "command"} => new[key] = entry[key]
      /\ "cmd" \in DOMAIN new <=> Command(entry) # {}
      /\ "cmd" \in DOMAIN new => new["cmd"] \in Command(entry)
  BY NormalizedKeys
<1> HIDE DEF new
<1>2. /\ \A key \in DOMAIN new : s[key] = new[key]
      /\ "env" \notin DOMAIN new => s["env"] = <<>>
  BY ServiceKeys
<1> HIDE DEF s
<1>3. \A key : key \notin DOMAIN <<>> OBVIOUS
<1>4. Command(<<>>) = {} BY <1>3 DEF Command
<1>5. \A key \in {"target", "scope"} : key \in DOMAIN entry => s[key] = entry[key]
  BY <1>1, <1>2
<1>6. Command(entry) # {} => s["cmd"] \in Command(entry) BY <1>1, <1>2
<1>7. s["env"] = Over(Env(entry), <<>>) /\ s["env"] = Over(<<>>, Env(entry))
  <2>1. CASE "env" \in DOMAIN entry
    <3>1. s["env"] = entry["env"] BY <1>1, <1>2, <2>1
    <3>2. Over(entry["env"], <<>>) = entry["env"] /\ Over(<<>>, entry["env"]) = entry["env"]
      BY <2>1, EmptyOver DEF Table
    <3>3. QED BY <2>1, <3>1, <3>2 DEF Env
  <2>2. CASE "env" \notin DOMAIN entry
    <3>1. s["env"] = <<>> BY <1>1, <1>2, <2>2
    <3>2. QED BY <2>2, <3>1, EmptyEmpty DEF Env
  <2>3. QED BY <2>1, <2>2
<1>8. Env(<<>>) = <<>> BY <1>3 DEF Env
<1> DEFINE none == <<>>
<1> HIDE DEF none
<1>9. Wins(s, entry, none) /\ Wins(s, none, entry)
  <2>1. /\ \A key : key \notin DOMAIN none
        /\ Command(none) = {} /\ Env(none) = <<>>
    BY <1>3, <1>4, <1>8 DEF none
  <2>2. s["env"] = Over(Env(entry), Env(none)) /\ s["env"] = Over(Env(none), Env(entry))
    BY <1>7, <2>1
  <2>3. Wins(s, entry, none) BY <1>5, <1>6, <2>1, <2>2 DEF Wins
  <2>4. Wins(s, none, entry) BY <1>5, <1>6, <2>1, <2>2 DEF Wins
  <2>5. QED BY <2>3, <2>4
<1>10. QED BY <1>9 DEF s, new, none

-----------------------------------------------------------------------------
(* Where the merged entries stand.                                         *)

AllNamed(list) ==
    /\ \A i \in 1..Len(list) : "name" \in DOMAIN list[i]
    /\ \A i, j \in 1..Len(list) : list[i]["name"] = list[j]["name"] => i = j

(* list is a with the first k entries of b merged into it.                 *)
Placed(list, k, a, b) ==
    /\ IsList(list) /\ Len(a) <= Len(list)
    /\ \A i \in 1..Len(a) :
          \/ \E j \in 1..k : b[j]["name"] = a[i]["name"] /\ list[i] = MergeEntry(a[i], b[j])
          \/ list[i] = a[i] /\ \A j \in 1..k : b[j]["name"] # a[i]["name"]
    /\ \A i \in 1..Len(list) : i > Len(a) =>
          \E j \in 1..k : list[i] = b[j] /\ \A x \in 1..Len(a) : a[x]["name"] # b[j]["name"]
    /\ \A i, x \in 1..Len(list) : Len(a) < i /\ i < x =>
          \E j, y \in 1..k : j < y /\ list[i] = b[j] /\ list[x] = b[y]
    /\ \A j \in 1..k : \E i \in 1..Len(list) : list[i]["name"] = b[j]["name"]

LEMMA MergedName ==
    ASSUME NEW old, NEW new, "name" \in DOMAIN old, "name" \in DOMAIN new
    PROVE  "name" \in DOMAIN MergeEntry(old, new) /\ MergeEntry(old, new)["name"] = new["name"]
<1> DEFINE both == MergeEntry(old, new)
<1>1. /\ DOMAIN both = DOMAIN new \union DOMAIN old
      /\ \A key \in DOMAIN new \union DOMAIN old : key # "env" =>
            both[key] = IF key \in DOMAIN new THEN new[key] ELSE old[key]
  BY MergeEntryKeys
<1> HIDE DEF both
<1>2. "name" \in DOMAIN both /\ both["name"] = new["name"] BY <1>1
<1>3. QED BY <1>2 DEF both

LEMMA PlacedNames ==
    ASSUME NEW a, NEW b, NEW k \in Nat, NEW list, Placed(list, k, a, b), AllNamed(a), AllNamed(b),
           Len(a) \in Nat, Len(b) \in Nat, k <= Len(b)
    PROVE  /\ \A i \in 1..Len(list) : "name" \in DOMAIN list[i]
           /\ \A i \in 1..Len(a) : i \in 1..Len(list) /\ list[i]["name"] = a[i]["name"]
<1>1. Len(list) \in Nat /\ Len(a) <= Len(list) BY DEF Placed, IsList
<1>2. \A j \in 1..k : j \in 1..Len(b) OBVIOUS
<1>3. ASSUME NEW i \in 1..Len(a)
      PROVE  "name" \in DOMAIN list[i] /\ list[i]["name"] = a[i]["name"]
  <2>1. "name" \in DOMAIN a[i] BY DEF AllNamed
  <2>2. CASE list[i] = a[i] BY <2>1, <2>2
  <2>3. CASE \E j \in 1..k : b[j]["name"] = a[i]["name"] /\ list[i] = MergeEntry(a[i], b[j])
    <3>1. PICK j \in 1..k : b[j]["name"] = a[i]["name"] /\ list[i] = MergeEntry(a[i], b[j])
      BY <2>3
    <3>2. "name" \in DOMAIN b[j] BY <1>2 DEF AllNamed
    <3>3. QED BY <2>1, <3>1, <3>2, MergedName
  <2>4. QED BY <2>2, <2>3 DEF Placed
<1>4. ASSUME NEW i \in 1..Len(list), i > Len(a) PROVE "name" \in DOMAIN list[i]
  <2>1. PICK j \in 1..k : list[i] = b[j] BY <1>4 DEF Placed
  <2>2. QED BY <1>2, <2>1 DEF AllNamed
<1>5. \A i \in 1..Len(list) : i > Len(a) \/ i \in 1..Len(a) BY <1>1
<1>6. \A i \in 1..Len(a) : i \in 1..Len(list) BY <1>1
<1>7. QED BY <1>3, <1>4, <1>5, <1>6

(* An entry that overrides.                                                *)
LEMMA PlaceOverriding ==
    ASSUME NEW T, NEW U, NEW a \in Seq(T), NEW b \in Seq(U), AllNamed(a), AllNamed(b),
           NEW k \in Nat, k + 1 <= Len(b), NEW list, Placed(list, k, a, b),
           NEW spot \in 1..Len(a), a[spot]["name"] = b[k + 1]["name"]
    PROVE  Placed(MergeOne(list, b[k + 1]), k + 1, a, b)
<1> DEFINE entry == b[k + 1]
           m == Len(a)
           len == Len(list)
           same == {i \in 1..Len(list) : /\ "name" \in DOMAIN entry \cap DOMAIN list[i]
                                         /\ list[i]["name"] = entry["name"]}
           v == MergeEntry(a[spot], entry)
           new == [list EXCEPT ![spot] = v]
<1>1. /\ m \in Nat /\ len \in Nat /\ m <= len /\ spot \in 1..len /\ k + 1 \in 1..Len(b)
      /\ k \in Nat /\ k <= Len(b) /\ Len(b) \in Nat
      /\ \A j \in 1..k : j \in 1..Len(b) /\ j # k + 1 /\ j \in 1..(k + 1)
      /\ \A i \in 1..len : i > m \/ i \in 1..m
      /\ \A i \in 1..m : i \in 1..len
      /\ \A j \in 1..(k + 1) : j = k + 1 \/ j \in 1..k
  BY DEF Placed, IsList
<1>2. /\ \A i \in 1..len : "name" \in DOMAIN list[i]
      /\ \A i \in 1..m : list[i]["name"] = a[i]["name"]
  BY <1>1, PlacedNames
<1>3. "name" \in DOMAIN entry /\ "name" \in DOMAIN a[spot] BY <1>1 DEF AllNamed
<1>4. \A j \in 1..k : b[j]["name"] # entry["name"]
  BY <1>1 DEF AllNamed
<1>5. \A i \in 1..len : list[i]["name"] = entry["name"] => i = spot
  <2> SUFFICES ASSUME NEW i \in 1..len, list[i]["name"] = entry["name"] PROVE i = spot
    OBVIOUS
  <2>1. CASE i \in 1..m
    <3>1. a[i]["name"] = a[spot]["name"] BY <1>2, <2>1
    <3>2. QED BY <2>1, <3>1 DEF AllNamed
  <2>2. CASE i > m
    <3>1. PICK j \in 1..k : list[i] = b[j] BY <2>2 DEF Placed
    <3>2. QED BY <1>4, <3>1
  <2>3. QED BY <1>1, <2>1, <2>2
<1>6. same = {spot} BY <1>1, <1>2, <1>3, <1>5
<1>7. Max(same) = spot
  <2>1. spot \in Int OBVIOUS
  <2> HIDE DEF same
  <2>2. QED BY <1>6, <2>1 DEF Max
<1>8. list[spot] = a[spot]
  BY <1>4 DEF Placed
<1>9. MergeOne(list, entry) = new
  <2>1. MergeOne(list, entry) = IF same = {} THEN Append(list, entry)
                                ELSE [list EXCEPT ![Max(same)] = MergeEntry(list[Max(same)], entry)]
    BY DEF MergeOne
  <2> HIDE DEF same
  <2>2. QED BY <1>6, <1>7, <1>8, <2>1
<1>10. /\ Len(new) = len /\ new[spot] = v /\ \A i \in 1..len : i # spot => new[i] = list[i]
       /\ IsList(new)
  <2>1. PICK W : list \in Seq(W) BY DEF Placed, IsList
  <2>2. list \in [1..len -> W] /\ DOMAIN list = 1..len BY <2>1
  <2> HIDE DEF len, v
  <2>3. new \in [1..len -> W \union {v}] BY <2>2
  <2>4. new[spot] = v /\ \A i \in 1..len : i # spot => new[i] = list[i] BY <1>1, <2>2
  <2> HIDE DEF new
  <2>5. new \in Seq(W \union {v}) /\ Len(new) = len BY <1>1, <2>3
  <2>6. QED BY <2>4, <2>5 DEF IsList
<1>11. v["name"] = entry["name"] BY <1>3, MergedName
<1> HIDE DEF same, new, v, entry, len, m
<1>12. ASSUME NEW i \in 1..m
       PROVE  \/ \E j \in 1..(k + 1) : b[j]["name"] = a[i]["name"] /\ new[i] = MergeEntry(a[i], b[j])
              \/ new[i] = a[i] /\ \A j \in 1..(k + 1) : b[j]["name"] # a[i]["name"]
  <2>1. CASE i = spot BY <1>1, <1>10, <2>1 DEF v, entry
  <2>2. CASE i # spot
    <3>1. a[i]["name"] # b[k + 1]["name"]
      <4>1. a[i]["name"] # a[spot]["name"] BY <2>2 DEF AllNamed, m
      <4>2. QED BY <4>1
    <3>2. new[i] = list[i] BY <1>1, <1>10, <2>2
    <3>3. \/ \E j \in 1..k : b[j]["name"] = a[i]["name"] /\ list[i] = MergeEntry(a[i], b[j])
          \/ list[i] = a[i] /\ \A j \in 1..k : b[j]["name"] # a[i]["name"]
      BY DEF Placed, m
    <3>4. QED BY <1>1, <3>1, <3>2, <3>3
  <2>3. QED BY <2>1, <2>2
<1>13. \A i \in 1..len : i > m => i # spot /\ new[i] = list[i] BY <1>1, <1>10 DEF m
<1>14. ASSUME NEW i \in 1..len, i > m
       PROVE  \E j \in 1..(k + 1) : new[i] = b[j] /\ \A x \in 1..m : a[x]["name"] # b[j]["name"]
  <2>1. PICK j \in 1..k : list[i] = b[j] /\ \A x \in 1..m : a[x]["name"] # b[j]["name"]
    BY <1>14 DEF Placed, m, len
  <2>2. QED BY <1>1, <1>13, <1>14, <2>1
<1>15. ASSUME NEW i \in 1..len, NEW x \in 1..len, m < i, i < x
       PROVE  \E j, y \in 1..(k + 1) : j < y /\ new[i] = b[j] /\ new[x] = b[y]
  <2>1. PICK j \in 1..k, y \in 1..k : j < y /\ list[i] = b[j] /\ list[x] = b[y]
    BY <1>15 DEF Placed, m, len
  <2>2. x > m /\ i > m BY <1>1, <1>15
  <2>3. new[i] = b[j] /\ new[x] = b[y] BY <1>13, <2>1, <2>2
  <2>4. j \in 1..(k + 1) /\ y \in 1..(k + 1) BY <1>1
  <2>5. QED BY <2>1, <2>3, <2>4
<1>16. ASSUME NEW j \in 1..(k + 1) PROVE \E i \in 1..len : new[i]["name"] = b[j]["name"]
  <2>1. CASE j = k + 1 BY <1>1, <1>10, <1>11, <2>1 DEF entry
  <2>2. CASE j \in 1..k
    <3>1. PICK i \in 1..len : list[i]["name"] = b[j]["name"] BY <2>2 DEF Placed, len
    <3>2. i # spot BY <1>2, <1>4, <2>2, <3>1, <1>5 DEF entry, m
    <3>3. QED BY <1>10, <3>1, <3>2
  <2>3. QED BY <1>1, <2>1, <2>2
<1>17. Placed(new, k + 1, a, b)
  <2>1. Len(a) <= Len(new) BY <1>1, <1>10 DEF m
  <2>2. \A i \in 1..Len(a) :
          \/ \E j \in 1..(k + 1) : b[j]["name"] = a[i]["name"] /\ new[i] = MergeEntry(a[i], b[j])
          \/ new[i] = a[i] /\ \A j \in 1..(k + 1) : b[j]["name"] # a[i]["name"]
    BY <1>12 DEF m
  <2>3. \A i \in 1..Len(new) : i > Len(a) =>
          \E j \in 1..(k + 1) : new[i] = b[j] /\ \A x \in 1..Len(a) : a[x]["name"] # b[j]["name"]
    BY <1>10, <1>14 DEF m
  <2>4. \A i, x \in 1..Len(new) : Len(a) < i /\ i < x =>
          \E j, y \in 1..(k + 1) : j < y /\ new[i] = b[j] /\ new[x] = b[y]
    BY <1>10, <1>15 DEF m
  <2>5. \A j \in 1..(k + 1) : \E i \in 1..Len(new) : new[i]["name"] = b[j]["name"]
    BY <1>10, <1>16
  <2>6. QED BY <1>10, <2>1, <2>2, <2>3, <2>4, <2>5 DEF Placed
<1>18. QED BY <1>9, <1>17 DEF entry

(* An entry of a service the list does not have.                           *)
LEMMA PlaceNew ==
    ASSUME NEW T, NEW U, NEW a \in Seq(T), NEW b \in Seq(U), AllNamed(a), AllNamed(b),
           NEW k \in Nat, k + 1 <= Len(b), NEW list, Placed(list, k, a, b),
           \A spot \in 1..Len(a) : a[spot]["name"] # b[k + 1]["name"]
    PROVE  Placed(MergeOne(list, b[k + 1]), k + 1, a, b)
<1> DEFINE entry == b[k + 1]
           m == Len(a)
           len == Len(list)
           same == {i \in 1..Len(list) : /\ "name" \in DOMAIN entry \cap DOMAIN list[i]
                                         /\ list[i]["name"] = entry["name"]}
           new == Append(list, entry)
<1>1. /\ m \in Nat /\ len \in Nat /\ m <= len /\ k + 1 \in 1..Len(b)
      /\ k \in Nat /\ k <= Len(b) /\ Len(b) \in Nat
      /\ \A j \in 1..k : j \in 1..Len(b) /\ j # k + 1 /\ j \in 1..(k + 1) /\ j < k + 1
      /\ \A i \in 1..len : i > m \/ i \in 1..m
      /\ \A i \in 1..m : i \in 1..len
      /\ \A j \in 1..(k + 1) : j = k + 1 \/ j \in 1..k
  BY DEF Placed, IsList
<1>2. \A i \in 1..m : list[i]["name"] = a[i]["name"] BY <1>1, PlacedNames
<1>3. \A j \in 1..k : b[j]["name"] # entry["name"]
  BY <1>1 DEF AllNamed
<1>4. \A i \in 1..len : list[i]["name"] # entry["name"]
  <2> SUFFICES ASSUME NEW i \in 1..len PROVE list[i]["name"] # entry["name"]
    OBVIOUS
  <2>1. CASE i \in 1..m BY <1>2, <2>1
  <2>2. CASE i > m
    <3>1. PICK j \in 1..k : list[i] = b[j] BY <2>2 DEF Placed
    <3>2. QED BY <1>3, <3>1
  <2>3. QED BY <1>1, <2>1, <2>2
<1>5. MergeOne(list, entry) = new
  <2>1. same = {} BY <1>4
  <2>2. QED BY <2>1 DEF MergeOne
<1>6. /\ Len(new) = len + 1 /\ new[len + 1] = entry /\ \A i \in 1..len : new[i] = list[i]
      /\ IsList(new)
  <2>1. PICK W : list \in Seq(W) BY DEF Placed, IsList
  <2> HIDE DEF entry
  <2>2. new \in Seq(W \union {entry}) BY <2>1
  <2>3. Len(new) = len + 1 /\ new[len + 1] = entry /\ \A i \in 1..len : new[i] = list[i]
    BY <2>1
  <2>4. QED BY <2>2, <2>3 DEF IsList
<1> HIDE DEF same, new, len, m
<1>7. \A i \in 1..(len + 1) : i = len + 1 \/ i \in 1..len BY <1>1
<1>8. \A i \in 1..m : new[i] = list[i] BY <1>1, <1>6
<1>9. ASSUME NEW i \in 1..m
      PROVE  \/ \E j \in 1..(k + 1) : b[j]["name"] = a[i]["name"] /\ new[i] = MergeEntry(a[i], b[j])
             \/ new[i] = a[i] /\ \A j \in 1..(k + 1) : b[j]["name"] # a[i]["name"]
  <2>1. \/ \E j \in 1..k : b[j]["name"] = a[i]["name"] /\ list[i] = MergeEntry(a[i], b[j])
        \/ list[i] = a[i] /\ \A j \in 1..k : b[j]["name"] # a[i]["name"]
    BY DEF Placed, m
  <2>2. a[i]["name"] # b[k + 1]["name"] BY DEF m
  <2>3. QED BY <1>1, <1>8, <2>1, <2>2
<1>10. ASSUME NEW i \in 1..(len + 1), i > m
       PROVE  \E j \in 1..(k + 1) : new[i] = b[j] /\ \A x \in 1..m : a[x]["name"] # b[j]["name"]
  <2>1. CASE i = len + 1
    <3>1. new[i] = b[k + 1] /\ k + 1 \in 1..(k + 1) BY <1>1, <1>6, <2>1 DEF entry
    <3>2. \A x \in 1..m : a[x]["name"] # b[k + 1]["name"] BY DEF m
    <3>3. QED BY <3>1, <3>2
  <2>2. CASE i \in 1..len
    <3>1. PICK j \in 1..k : list[i] = b[j] /\ \A x \in 1..m : a[x]["name"] # b[j]["name"]
      BY <1>10, <2>2 DEF Placed, m, len
    <3>2. QED BY <1>1, <1>6, <2>2, <3>1
  <2>3. QED BY <1>7, <2>1, <2>2
<1>11. ASSUME NEW i \in 1..(len + 1), NEW x \in 1..(len + 1), m < i, i < x
       PROVE  \E j, y \in 1..(k + 1) : j < y /\ new[i] = b[j] /\ new[x] = b[y]
  <2>1. i \in 1..len BY <1>1, <1>7, <1>11
  <2>2. CASE x \in 1..len
    <3>1. PICK j \in 1..k, y \in 1..k : j < y /\ list[i] = b[j] /\ list[x] = b[y]
      BY <1>11, <2>1, <2>2 DEF Placed, m, len
    <3>2. new[i] = b[j] /\ new[x] = b[y] BY <1>6, <2>1, <2>2, <3>1
    <3>3. j \in 1..(k + 1) /\ y \in 1..(k + 1) BY <1>1
    <3>4. QED BY <3>1, <3>2, <3>3
  <2>3. CASE x = len + 1
    <3>1. PICK j \in 1..k : list[i] = b[j] BY <1>11, <2>1 DEF Placed, m, len
    <3>2. new[i] = b[j] /\ new[x] = b[k + 1] BY <1>6, <2>1, <2>3, <3>1 DEF entry
    <3>3. j \in 1..(k + 1) /\ k + 1 \in 1..(k + 1) /\ j < k + 1 BY <1>1
    <3>4. QED BY <3>2, <3>3
  <2>4. QED BY <1>7, <2>2, <2>3
<1>12. ASSUME NEW j \in 1..(k + 1) PROVE \E i \in 1..(len + 1) : new[i]["name"] = b[j]["name"]
  <2>1. \A i \in 1..len : i \in 1..(len + 1) BY <1>1
  <2>2. len + 1 \in 1..(len + 1) BY <1>1
  <2>3. CASE j = k + 1 BY <1>6, <2>2, <2>3 DEF entry
  <2>4. CASE j \in 1..k
    <3>1. PICK i \in 1..len : list[i]["name"] = b[j]["name"] BY <2>4 DEF Placed, len
    <3>2. QED BY <1>6, <2>1, <3>1
  <2>5. QED BY <1>1, <2>3, <2>4
<1>13. Placed(new, k + 1, a, b)
  <2>1. Len(a) <= Len(new) BY <1>1, <1>6 DEF m
  <2>2. \A i \in 1..Len(a) :
          \/ \E j \in 1..(k + 1) : b[j]["name"] = a[i]["name"] /\ new[i] = MergeEntry(a[i], b[j])
          \/ new[i] = a[i] /\ \A j \in 1..(k + 1) : b[j]["name"] # a[i]["name"]
    BY <1>9 DEF m
  <2>3. \A i \in 1..Len(new) : i > Len(a) =>
          \E j \in 1..(k + 1) : new[i] = b[j] /\ \A x \in 1..Len(a) : a[x]["name"] # b[j]["name"]
    BY <1>6, <1>10 DEF m
  <2>4. \A i, x \in 1..Len(new) : Len(a) < i /\ i < x =>
          \E j, y \in 1..(k + 1) : j < y /\ new[i] = b[j] /\ new[x] = b[y]
    BY <1>6, <1>11 DEF m
  <2>5. \A j \in 1..(k + 1) : \E i \in 1..Len(new) : new[i]["name"] = b[j]["name"]
    BY <1>6, <1>12
  <2>6. QED BY <1>6, <2>1, <2>2, <2>3, <2>4, <2>5 DEF Placed
<1>14. QED BY <1>5, <1>13 DEF entry

LEMMA MergePlaces ==
    ASSUME NEW T, NEW U, NEW a \in Seq(T), NEW b \in Seq(U), AllNamed(a), AllNamed(b)
    PROVE  Placed(MergeKeyed(a, b), Len(b), a, b)
<1>1. PICK h : /\ h[0] = a
               /\ \A i \in 1..Len(b) : h[i] = MergeOne(h[i - 1], b[i])
               /\ MergeKeyed(a, b) = h[Len(b)]
  BY MergeRuns
<1> DEFINE D == {k \in Nat : k <= Len(b) => Placed(h[k], k, a, b)}
<1>2. 0 \in D
  <2>1. Len(a) \in Nat /\ IsList(a) BY DEF IsList
  <2>2. Placed(a, 0, a, b) BY <2>1 DEF Placed
  <2>3. QED BY <1>1, <2>2
<1>3. ASSUME NEW k \in Nat, k \in D PROVE k + 1 \in D
  <2> SUFFICES ASSUME k + 1 <= Len(b) PROVE Placed(h[k + 1], k + 1, a, b)
    OBVIOUS
  <2>1. k + 1 \in 1..Len(b) /\ (k + 1) - 1 = k /\ k <= Len(b) OBVIOUS
  <2>2. h[k + 1] = MergeOne(h[k], b[k + 1]) BY <1>1, <2>1
  <2>3. Placed(h[k], k, a, b) BY <1>3, <2>1
  <2>4. Placed(MergeOne(h[k], b[k + 1]), k + 1, a, b)
    BY <2>3, PlaceOverriding, PlaceNew
  <2>5. QED BY <2>2, <2>4
<1> HIDE DEF D
<1>4. \A k \in Nat : k \in D BY <1>2, <1>3, SetInduction
<1>5. Len(b) \in Nat OBVIOUS
<1>6. Placed(h[Len(b)], Len(b), a, b) BY <1>4, <1>5 DEF D
<1>7. QED BY <1>1, <1>6

-----------------------------------------------------------------------------
(* What the files say of each service, and what was read.                  *)

Ours == sources.committed.service
Theirs == sources.overlay.service
Both == Ours \o Theirs
OnceEach == NamedOnce(Ours) /\ NamedOnce(Theirs)

LEMMA GivenLists ==
    ASSUME FilesGiven
    PROVE  /\ Ours \in Seq(Range(Ours)) /\ Theirs \in Seq(Range(Theirs))
           /\ Both \in Seq(Range(Ours) \union Range(Theirs))
           /\ \A i \in 1..Len(Ours) : Table(Ours[i]) /\ ("scope" \in DOMAIN Ours[i] =>
                                         Ours[i]["scope"] \in {"project", "workspace", Bad})
           /\ \A i \in 1..Len(Theirs) : Table(Theirs[i]) /\ ("scope" \in DOMAIN Theirs[i] =>
                                         Theirs[i]["scope"] \in {"project", "workspace", Bad})
<1>1. /\ sources.committed \in Committed \union Overlays
      /\ sources.overlay \in Committed \union Overlays
  BY DEF FilesGiven
<1>2. Ours \in Seq(Range(Ours)) /\ Theirs \in Seq(Range(Theirs))
  BY <1>1, FilesAssumption DEF Ours, Theirs
<1>3. ASSUME NEW doc \in Committed \union Overlays, NEW i \in 1..Len(doc.service)
      PROVE  /\ Table(doc.service[i])
             /\ "scope" \in DOMAIN doc.service[i] =>
                   doc.service[i]["scope"] \in {"project", "workspace", Bad}
  <2>1. doc.service \in Seq(Range(doc.service)) BY FilesAssumption
  <2>2. doc.service[i] \in Range(doc.service) BY <2>1
  <2>3. QED BY <2>2, FilesAssumption DEF Table
<1>4. QED BY <1>1, <1>2, <1>3 DEF Ours, Theirs, Both

LEMMA NamedApart ==
    ASSUME NEW T, NEW list \in Seq(T), NamedOnce(list)
    PROVE  /\ AllNamed(list) /\ AllNamed(Each(Normalized, list))
           /\ \A i \in 1..Len(list) : Each(Normalized, list)[i]["name"] = list[i]["name"]
<1>1. /\ Len(list) \in Nat /\ \A i \in 1..Len(list) : "name" \in DOMAIN list[i]
      /\ \A i, j \in 1..Len(list) : ~(i < j /\ list[i]["name"] = list[j]["name"])
  BY DEF NamedOnce, Twice
<1>2. \A i, j \in 1..Len(list) : list[i]["name"] = list[j]["name"] => i = j BY <1>1
<1>3. AllNamed(list) BY <1>1, <1>2 DEF AllNamed
<1> DEFINE all == Each(Normalized, list)
<1>4. Len(all) = Len(list) /\ \A i \in 1..Len(list) : all[i] = Normalized(list[i])
  BY EachIsList
<1> HIDE DEF all
<1>5. ASSUME NEW i \in 1..Len(list)
      PROVE  "name" \in DOMAIN all[i] /\ all[i]["name"] = list[i]["name"]
  <2>1. "name" \in DOMAIN list[i] BY <1>1
  <2>2. QED BY <1>4, <2>1, NormalizedKeys
<1>6. AllNamed(all) BY <1>2, <1>4, <1>5 DEF AllNamed
<1>7. QED BY <1>3, <1>5, <1>6 DEF all

LEMMA WrittenIs ==
    ASSUME NEW list, AllNamed(list), NEW name
    PROVE  /\ \A i \in 1..Len(list) : list[i]["name"] = name => Written(list, name) = list[i]
           /\ (\A i \in 1..Len(list) : list[i]["name"] # name) => Written(list, name) = <<>>
<1> DEFINE at == {i \in 1..Len(list) : "name" \in DOMAIN list[i] /\ list[i]["name"] = name}
<1>1. Written(list, name) = IF at = {} THEN <<>> ELSE list[CHOOSE i \in at : TRUE]
  BY DEF Written
<1>2. ASSUME NEW i \in 1..Len(list), list[i]["name"] = name PROVE Written(list, name) = list[i]
  <2>1. at = {i} BY <1>2 DEF AllNamed
  <2> HIDE DEF at
  <2>2. (CHOOSE x \in at : TRUE) = i BY <2>1
  <2>3. QED BY <1>1, <2>1, <2>2
<1>3. ASSUME \A i \in 1..Len(list) : list[i]["name"] # name PROVE Written(list, name) = <<>>
  <2>1. at = {} BY <1>3
  <2>2. QED BY <1>1, <2>1
<1>4. QED BY <1>2, <1>3

(* The first of Both with a name is the one Position gives.                *)
LEMMA PositionIs ==
    ASSUME NEW name, NEW p \in 1..Len(Both), Both[p]["name"] = name,
           \A j \in 1..(p - 1) : Both[j]["name"] # name
    PROVE  Position(name) = p
<1> DEFINE First(i) == Both[i]["name"] = name /\ \A j \in 1..(i - 1) : Both[j]["name"] # name
<1>1. Position(name) = CHOOSE i \in 1..Len(Both) : First(i)
  BY DEF Position, Both, Ours, Theirs
<1>2. ASSUME NEW i \in 1..Len(Both), First(i) PROVE i = p
  <2>1. i \in Int /\ p \in Int BY <1>2
  <2>2. CASE i < p
    <3>1. i \in 1..(p - 1) BY <2>1, <2>2
    <3>2. QED BY <1>2, <3>1
  <2>3. CASE p < i
    <3>1. p \in 1..(i - 1) BY <2>1, <2>3
    <3>2. QED BY <1>2, <3>1
  <2>4. QED BY <2>1, <2>2, <2>3
<1>3. First(p) OBVIOUS
<1> HIDE DEF First
<1>4. QED BY <1>1, <1>2, <1>3

LEMMA Positions ==
    ASSUME FilesGiven, OnceEach
    PROVE  /\ \A i \in 1..Len(Ours) : Position(Ours[i]["name"]) = i
           /\ \A j \in 1..Len(Theirs) :
                 (\A i \in 1..Len(Ours) : Ours[i]["name"] # Theirs[j]["name"]) =>
                    Position(Theirs[j]["name"]) = Len(Ours) + j
<1> DEFINE m == Len(Ours)
           n == Len(Theirs)
<1>1. Ours \in Seq(Range(Ours)) /\ Theirs \in Seq(Range(Theirs)) BY GivenLists
<1>2. AllNamed(Ours) /\ AllNamed(Theirs) BY <1>1, NamedApart DEF OnceEach
<1>3. /\ m \in Nat /\ n \in Nat /\ Len(Both) = m + n
      /\ \A i \in 1..m : Both[i] = Ours[i]
      /\ \A j \in 1..n : Both[m + j] = Theirs[j]
  BY <1>1 DEF Both
<1>4. ASSUME NEW i \in 1..m PROVE Position(Ours[i]["name"]) = i
  <2>1. i \in 1..Len(Both) /\ \A j \in 1..(i - 1) : j \in 1..m /\ j # i BY <1>3
  <2>2. \A j \in 1..(i - 1) : Both[j]["name"] # Ours[i]["name"]
    BY <1>2, <1>3, <2>1 DEF AllNamed
  <2>3. QED BY <1>3, <2>1, <2>2, PositionIs
<1>5. ASSUME NEW j \in 1..n, \A i \in 1..m : Ours[i]["name"] # Theirs[j]["name"]
      PROVE  Position(Theirs[j]["name"]) = m + j
  <2>1. m + j \in 1..Len(Both) BY <1>3
  <2>2. ASSUME NEW x \in 1..((m + j) - 1) PROVE Both[x]["name"] # Theirs[j]["name"]
    <3>1. CASE x \in 1..m BY <1>3, <1>5, <3>1
    <3>2. CASE x \notin 1..m
      <4>1. x - m \in 1..n /\ x - m # j /\ m + (x - m) = x BY <1>3, <3>2
      <4>2. Both[x] = Theirs[x - m] BY <1>3, <4>1
      <4>3. QED BY <1>2, <4>1, <4>2 DEF AllNamed
    <3>3. QED BY <3>1, <3>2
  <2>3. QED BY <1>3, <2>1, <2>2, PositionIs
<1>6. QED BY <1>4, <1>5

-----------------------------------------------------------------------------
(* The services read, before they are split by scope.                      *)

(* How one of them came about: from both files, or from one of them alone. *)
Comes(s, i) ==
    \/ \E x \in 1..Len(Ours), y \in 1..Len(Theirs) :
          /\ i = x /\ Theirs[y]["name"] = Ours[x]["name"]
          /\ s = ServiceOf(MergeEntry(Normalized(Ours[x]), Normalized(Theirs[y])))
    \/ \E x \in 1..Len(Ours) :
          /\ i = x /\ s = ServiceOf(Normalized(Ours[x]))
          /\ \A y \in 1..Len(Theirs) : Theirs[y]["name"] # Ours[x]["name"]
    \/ \E y \in 1..Len(Theirs) :
          /\ i > Len(Ours) /\ s = ServiceOf(Normalized(Theirs[y]))
          /\ \A x \in 1..Len(Ours) : Ours[x]["name"] # Theirs[y]["name"]

(* A table without `command` is what it is when it is normalized.          *)
LEMMA NormalizedTwice ==
    ASSUME NEW entry, "command" \notin DOMAIN entry PROVE Normalized(entry) = entry
BY DEF Normalized

LEMMA MergedPlaces ==
    ASSUME FilesGiven, OnceEach
    PROVE  LET a == Each(Normalized, Ours)
               b == Each(Normalized, Theirs)
           IN  /\ Placed(Merged.service, Len(Theirs), a, b)
               /\ Len(a) = Len(Ours) /\ Len(b) = Len(Theirs)
               /\ \A i \in 1..Len(Ours) : a[i] = Normalized(Ours[i]) /\ a[i]["name"] = Ours[i]["name"]
               /\ \A j \in 1..Len(Theirs) :
                     b[j] = Normalized(Theirs[j]) /\ b[j]["name"] = Theirs[j]["name"]
               /\ AllNamed(a) /\ AllNamed(b)
<1> DEFINE a == Each(Normalized, Ours)
           b == Each(Normalized, Theirs)
<1>1. Ours \in Seq(Range(Ours)) /\ Theirs \in Seq(Range(Theirs)) BY GivenLists
<1>2. /\ IsList(a) /\ Len(a) = Len(Ours)
      /\ \A i \in 1..Len(Ours) : a[i] = Normalized(Ours[i])
  BY <1>1, EachIsList
<1>3. /\ IsList(b) /\ Len(b) = Len(Theirs)
      /\ \A i \in 1..Len(Theirs) : b[i] = Normalized(Theirs[i])
  BY <1>1, EachIsList
<1>4. AllNamed(a) /\ \A i \in 1..Len(Ours) : a[i]["name"] = Ours[i]["name"]
  BY <1>1, NamedApart DEF OnceEach
<1>5. AllNamed(b) /\ \A i \in 1..Len(Theirs) : b[i]["name"] = Theirs[i]["name"]
  BY <1>1, NamedApart DEF OnceEach
<1>6. Merged.service = MergeKeyed(a, b) BY DEF Merged, MergeDocuments, Ours, Theirs
<1> HIDE DEF a, b
<1>7. PICK T, U : a \in Seq(T) /\ b \in Seq(U) BY <1>2, <1>3 DEF IsList
<1>8. Placed(MergeKeyed(a, b), Len(b), a, b) BY <1>4, <1>5, <1>7, MergePlaces
<1>9. QED BY <1>2, <1>3, <1>4, <1>5, <1>6, <1>8 DEF a, b

LEMMA WholeComes ==
    ASSUME FilesGiven, OnceEach
    PROVE  /\ Whole \in Seq(Range(Whole)) /\ Len(Whole) = Len(Merged.service)
           /\ Len(Ours) <= Len(Whole)
           /\ \A i \in 1..Len(Whole) : Comes(Whole[i], i)
           /\ \A i, x \in 1..Len(Whole) : Len(Ours) < i /\ i < x =>
                 \E j, y \in 1..Len(Theirs) : /\ j < y
                    /\ Whole[i] = ServiceOf(Normalized(Theirs[j]))
                    /\ Whole[x] = ServiceOf(Normalized(Theirs[y]))
           /\ \A j \in 1..Len(Theirs) :
                 \E i \in 1..Len(Whole) : Whole[i]["name"] = Theirs[j]["name"]
           /\ \A i \in 1..Len(Ours) : Whole[i]["name"] = Ours[i]["name"]
<1> DEFINE a == Each(Normalized, Ours)
           b == Each(Normalized, Theirs)
           list == Merged.service
           m == Len(Ours)
           n == Len(Theirs)
<1>1. /\ Placed(list, n, a, b)
      /\ Len(a) = m /\ Len(b) = n
      /\ \A i \in 1..m : a[i] = Normalized(Ours[i]) /\ a[i]["name"] = Ours[i]["name"]
      /\ \A j \in 1..n : b[j] = Normalized(Theirs[j]) /\ b[j]["name"] = Theirs[j]["name"]
      /\ AllNamed(a) /\ AllNamed(b)
  BY MergedPlaces
<1>2. m \in Nat /\ n \in Nat
  <2>1. Ours \in Seq(Range(Ours)) /\ Theirs \in Seq(Range(Theirs)) BY GivenLists
  <2>2. QED BY <2>1
<1> HIDE DEF a, b, list, m, n
<1>3. /\ IsList(list) /\ Len(list) \in Nat /\ m <= Len(list)
      /\ \A i \in 1..Len(list) : i > m \/ i \in 1..m
  BY <1>1, <1>2 DEF Placed, IsList
<1>4. /\ \A i \in 1..Len(list) : "name" \in DOMAIN list[i]
      /\ \A i \in 1..m : i \in 1..Len(list) /\ list[i]["name"] = a[i]["name"]
  <2>1. /\ Placed(list, n, a, b) /\ AllNamed(a) /\ AllNamed(b)
        /\ Len(a) \in Nat /\ Len(b) \in Nat /\ n <= Len(b) /\ n \in Nat
    BY <1>1, <1>2
  <2>2. /\ \A i \in 1..Len(list) : "name" \in DOMAIN list[i]
        /\ \A i \in 1..Len(a) : i \in 1..Len(list) /\ list[i]["name"] = a[i]["name"]
    BY <2>1, PlacedNames
  <2>3. QED BY <1>1, <2>2
<1>5. /\ \A i \in 1..m : "command" \notin DOMAIN a[i]
      /\ \A j \in 1..n : "command" \notin DOMAIN b[j]
  BY <1>1, NormalizedKeys
<1>6. \A i \in 1..m :
         \/ \E j \in 1..n : b[j]["name"] = a[i]["name"] /\ list[i] = MergeEntry(a[i], b[j])
         \/ list[i] = a[i] /\ \A j \in 1..n : b[j]["name"] # a[i]["name"]
  BY <1>1 DEF Placed
<1>7. \A i \in 1..Len(list) : i > m =>
         \E j \in 1..n : list[i] = b[j] /\ \A x \in 1..m : a[x]["name"] # b[j]["name"]
  BY <1>1 DEF Placed
<1>8. \A i \in 1..Len(list) : "command" \notin DOMAIN list[i]
  <2>1. \A i \in 1..m, j \in 1..n : "command" \notin DOMAIN MergeEntry(a[i], b[j])
    <3> SUFFICES ASSUME NEW i \in 1..m, NEW j \in 1..n
                 PROVE  "command" \notin DOMAIN MergeEntry(a[i], b[j])
      OBVIOUS
    <3>1. DOMAIN MergeEntry(a[i], b[j]) = DOMAIN b[j] \union DOMAIN a[i] BY MergeEntryKeys
    <3>2. QED BY <1>5, <3>1
  <2>2. QED BY <1>3, <1>5, <1>6, <1>7, <2>1
<1>9. /\ Whole \in Seq(Range(Whole)) /\ Len(Whole) = Len(list)
      /\ \A i \in 1..Len(list) : Whole[i] = ServiceOf(list[i])
  <2>1. Whole \in Seq(Range(Whole)) /\ Len(Whole) = Len(list)
    BY <1>3, ReadIsSplit DEF list
  <2>2. \A i \in 1..Len(list) : Whole[i] = ServiceOf(Normalized(list[i]))
    BY DEF Whole, list
  <2>3. \A i \in 1..Len(list) : Normalized(list[i]) = list[i] BY <1>8, NormalizedTwice
  <2>4. QED BY <2>1, <2>2, <2>3
<1>10. \A i \in 1..Len(list) : Whole[i]["name"] = list[i]["name"]
  <2> SUFFICES ASSUME NEW i \in 1..Len(list) PROVE Whole[i]["name"] = list[i]["name"]
    OBVIOUS
  <2>1. ServiceOf(list[i])["name"] = list[i]["name"] BY <1>4, ServiceKeys
  <2>2. QED BY <1>9, <2>1
<1>11. ASSUME NEW i \in 1..Len(list) PROVE Comes(Whole[i], i)
  <2>1. CASE i \in 1..m
    <3>1. CASE \E j \in 1..n : b[j]["name"] = a[i]["name"] /\ list[i] = MergeEntry(a[i], b[j])
      <4>1. PICK j \in 1..n : b[j]["name"] = a[i]["name"] /\ list[i] = MergeEntry(a[i], b[j])
        BY <3>1
      <4>2. /\ Theirs[j]["name"] = Ours[i]["name"]
            /\ Whole[i] = ServiceOf(MergeEntry(Normalized(Ours[i]), Normalized(Theirs[j])))
        BY <1>1, <1>9, <2>1, <4>1
      <4>3. QED BY <2>1, <4>2 DEF Comes, m, n
    <3>2. CASE list[i] = a[i] /\ \A j \in 1..n : b[j]["name"] # a[i]["name"]
      <4>1. /\ Whole[i] = ServiceOf(Normalized(Ours[i]))
            /\ \A j \in 1..n : Theirs[j]["name"] # Ours[i]["name"]
        BY <1>1, <1>9, <2>1, <3>2
      <4>2. QED BY <2>1, <4>1 DEF Comes, m, n
    <3>3. QED BY <1>6, <2>1, <3>1, <3>2
  <2>2. CASE i > m
    <3>1. PICK j \in 1..n : list[i] = b[j] /\ \A x \in 1..m : a[x]["name"] # b[j]["name"]
      BY <1>7, <2>2
    <3>2. /\ Whole[i] = ServiceOf(Normalized(Theirs[j]))
          /\ \A x \in 1..m : Ours[x]["name"] # Theirs[j]["name"]
      BY <1>1, <1>9, <3>1
    <3>3. QED BY <2>2, <3>2 DEF Comes, m, n
  <2>3. QED BY <1>3, <2>1, <2>2
<1>12. ASSUME NEW i \in 1..Len(list), NEW x \in 1..Len(list), m < i, i < x
       PROVE  \E j, y \in 1..n : /\ j < y /\ Whole[i] = ServiceOf(Normalized(Theirs[j]))
                                 /\ Whole[x] = ServiceOf(Normalized(Theirs[y]))
  <2>1. PICK j \in 1..n, y \in 1..n : j < y /\ list[i] = b[j] /\ list[x] = b[y]
    BY <1>1, <1>12 DEF Placed
  <2>2. QED BY <1>1, <1>9, <2>1
<1>13. ASSUME NEW j \in 1..n PROVE \E i \in 1..Len(list) : Whole[i]["name"] = Theirs[j]["name"]
  <2>1. PICK i \in 1..Len(list) : list[i]["name"] = b[j]["name"] BY <1>1 DEF Placed
  <2>2. QED BY <1>1, <1>10, <2>1
<1>14. \A i \in 1..m : Whole[i]["name"] = Ours[i]["name"] BY <1>1, <1>4, <1>10
<1>15. QED BY <1>3, <1>9, <1>11, <1>12, <1>13, <1>14 DEF list, m, n

-----------------------------------------------------------------------------
(* What each of them says, and where it stands.                            *)

LEMMA ServiceName ==
    ASSUME NEW entry, "name" \in DOMAIN entry
    PROVE  ServiceOf(Normalized(entry))["name"] = entry["name"]
<1>1. "name" \in DOMAIN Normalized(entry) /\ Normalized(entry)["name"] = entry["name"]
  BY NormalizedKeys
<1>2. QED BY <1>1, ServiceKeys

LEMMA MergedServiceName ==
    ASSUME NEW old, NEW new, "name" \in DOMAIN old, "name" \in DOMAIN new
    PROVE  ServiceOf(MergeEntry(Normalized(old), Normalized(new)))["name"] = new["name"]
<1> DEFINE a == Normalized(old)
           b == Normalized(new)
<1>1. "name" \in DOMAIN a /\ "name" \in DOMAIN b /\ b["name"] = new["name"] BY NormalizedKeys
<1> HIDE DEF a, b
<1>2. "name" \in DOMAIN MergeEntry(a, b) /\ MergeEntry(a, b)["name"] = b["name"]
  BY <1>1, MergedName
<1> DEFINE c == MergeEntry(a, b)
<1> HIDE DEF c
<1>3. ServiceOf(c)["name"] = c["name"] BY <1>2, ServiceKeys DEF c
<1>4. QED BY <1>1, <1>2, <1>3 DEF a, b, c

LEMMA ComesWins ==
    ASSUME FilesGiven, OnceEach, NEW s, NEW i, Comes(s, i)
    PROVE  /\ Wins(s, Written(Theirs, s["name"]), Written(Ours, s["name"]))
           /\ i \in 1..Len(Ours) => Position(s["name"]) = i
           /\ \/ \E x \in 1..Len(Ours) : s["name"] = Ours[x]["name"]
              \/ \E y \in 1..Len(Theirs) : s["name"] = Theirs[y]["name"]
<1> DEFINE m == Len(Ours)
           n == Len(Theirs)
           name == s["name"]
           theirs == Written(Theirs, name)
           ours == Written(Ours, name)
<1>1. Ours \in Seq(Range(Ours)) /\ Theirs \in Seq(Range(Theirs)) BY GivenLists
<1>2. AllNamed(Ours) /\ AllNamed(Theirs) BY <1>1, NamedApart DEF OnceEach
<1>3. /\ \A x \in 1..m : "name" \in DOMAIN Ours[x] /\ Table(Ours[x])
      /\ \A y \in 1..n : "name" \in DOMAIN Theirs[y] /\ Table(Theirs[y])
  BY <1>2, GivenLists DEF AllNamed
<1>4. /\ \A x \in 1..m : Ours[x]["name"] = name => ours = Ours[x]
      /\ (\A x \in 1..m : Ours[x]["name"] # name) => ours = <<>>
  BY <1>2, WrittenIs
<1>5. /\ \A y \in 1..n : Theirs[y]["name"] = name => theirs = Theirs[y]
      /\ (\A y \in 1..n : Theirs[y]["name"] # name) => theirs = <<>>
  BY <1>2, WrittenIs
<1>6. \A x \in 1..m : Position(Ours[x]["name"]) = x BY Positions
<1>7. m \in Nat BY <1>1
<1> HIDE DEF m, n, theirs, ours
<1>8. CASE \E x \in 1..m, y \in 1..n :
              /\ i = x /\ Theirs[y]["name"] = Ours[x]["name"]
              /\ s = ServiceOf(MergeEntry(Normalized(Ours[x]), Normalized(Theirs[y])))
  <2>1. PICK x \in 1..m, y \in 1..n :
              /\ i = x /\ Theirs[y]["name"] = Ours[x]["name"]
              /\ s = ServiceOf(MergeEntry(Normalized(Ours[x]), Normalized(Theirs[y])))
    BY <1>8
  <2>2. name = Theirs[y]["name"] /\ name = Ours[x]["name"]
    BY <1>3, <2>1, MergedServiceName
  <2>3. theirs = Theirs[y] /\ ours = Ours[x] BY <1>4, <1>5, <2>2
  <2>4. Wins(s, Theirs[y], Ours[x]) BY <1>3, <2>1, MergedWins
  <2>5. Position(name) = i BY <1>6, <2>1, <2>2
  <2>6. QED BY <2>2, <2>3, <2>4, <2>5 DEF m, theirs, ours
<1>9. CASE \E x \in 1..m :
              /\ i = x /\ s = ServiceOf(Normalized(Ours[x]))
              /\ \A y \in 1..n : Theirs[y]["name"] # Ours[x]["name"]
  <2>1. PICK x \in 1..m :
              /\ i = x /\ s = ServiceOf(Normalized(Ours[x]))
              /\ \A y \in 1..n : Theirs[y]["name"] # Ours[x]["name"]
    BY <1>9
  <2>2. name = Ours[x]["name"] BY <1>3, <2>1, ServiceName
  <2>3. theirs = <<>> /\ ours = Ours[x] BY <1>4, <1>5, <2>1, <2>2
  <2>4. Wins(s, <<>>, Ours[x]) BY <1>3, <2>1, AloneWins
  <2>5. Position(name) = i BY <1>6, <2>1, <2>2
  <2>6. QED BY <2>2, <2>3, <2>4, <2>5 DEF m, theirs, ours
<1>10. CASE \E y \in 1..n :
              /\ i > m /\ s = ServiceOf(Normalized(Theirs[y]))
              /\ \A x \in 1..m : Ours[x]["name"] # Theirs[y]["name"]
  <2>1. PICK y \in 1..n :
              /\ i > m /\ s = ServiceOf(Normalized(Theirs[y]))
              /\ \A x \in 1..m : Ours[x]["name"] # Theirs[y]["name"]
    BY <1>10
  <2>2. name = Theirs[y]["name"] BY <1>3, <2>1, ServiceName
  <2>3. theirs = Theirs[y] /\ ours = <<>> BY <1>4, <1>5, <2>1, <2>2
  <2>4. Wins(s, Theirs[y], <<>>) BY <1>3, <2>1, AloneWins
  <2>5. i \notin 1..m BY <1>7, <2>1
  <2>6. QED BY <2>2, <2>3, <2>4, <2>5 DEF m, n, theirs, ours
<1>11. QED BY <1>8, <1>9, <1>10 DEF Comes, m, n

(* The services stand as Position counts.                                  *)
LEMMA WholeAscends ==
    ASSUME FilesGiven, OnceEach
    PROVE  \A i, x \in 1..Len(Whole) : i < x =>
              Position(Whole[i]["name"]) < Position(Whole[x]["name"])
<1> DEFINE m == Len(Ours)
           n == Len(Theirs)
           At(i) == Position(Whole[i]["name"])
<1>1. /\ Len(Whole) \in Nat /\ m <= Len(Whole)
      /\ \A i \in 1..Len(Whole) : Comes(Whole[i], i)
      /\ \A i, x \in 1..Len(Whole) : m < i /\ i < x =>
            \E j, y \in 1..n : /\ j < y
                    /\ Whole[i] = ServiceOf(Normalized(Theirs[j]))
                    /\ Whole[x] = ServiceOf(Normalized(Theirs[y]))
  <2>1. Whole \in Seq(Range(Whole)) BY WholeComes
  <2>2. Len(Whole) \in Nat BY <2>1
  <2>3. m <= Len(Whole) BY WholeComes
  <2>4. \A i \in 1..Len(Whole) : Comes(Whole[i], i) BY WholeComes
  <2>5. \A i, x \in 1..Len(Whole) : m < i /\ i < x =>
            \E j, y \in 1..n : /\ j < y
                    /\ Whole[i] = ServiceOf(Normalized(Theirs[j]))
                    /\ Whole[x] = ServiceOf(Normalized(Theirs[y]))
    BY WholeComes
  <2>6. QED BY <2>2, <2>3, <2>4, <2>5
<1>2. Ours \in Seq(Range(Ours)) /\ Theirs \in Seq(Range(Theirs)) BY GivenLists
<1>3. m \in Nat /\ n \in Nat BY <1>2
<1>4. AllNamed(Theirs) /\ AllNamed(Ours) BY <1>2, NamedApart DEF OnceEach
<1>5. \A y \in 1..n : (\A x \in 1..m : Ours[x]["name"] # Theirs[y]["name"]) =>
         Position(Theirs[y]["name"]) = m + y
  BY Positions
<1> HIDE DEF m, n
<1>6. \A i \in 1..Len(Whole) : i \in 1..m => At(i) = i BY <1>1, ComesWins DEF m
<1>7. ASSUME NEW i \in 1..Len(Whole), m < i
      PROVE  /\ At(i) \in Nat /\ At(i) > m
             /\ \A y \in 1..n : Whole[i] = ServiceOf(Normalized(Theirs[y])) => At(i) = m + y
  <2>1. Comes(Whole[i], i) BY <1>1
  <2>2. PICK y \in 1..n : /\ Whole[i] = ServiceOf(Normalized(Theirs[y]))
                          /\ \A x \in 1..m : Ours[x]["name"] # Theirs[y]["name"]
    <3>1. i \notin 1..m BY <1>3, <1>7
    <3>2. QED BY <2>1, <3>1 DEF Comes, m, n
  <2>3. \A z \in 1..n : ServiceOf(Normalized(Theirs[z]))["name"] = Theirs[z]["name"]
    BY <1>4, ServiceName DEF AllNamed, n
  <2>4. At(i) = m + y BY <1>5, <2>2, <2>3
  <2>5. ASSUME NEW z \in 1..n, Whole[i] = ServiceOf(Normalized(Theirs[z])) PROVE z = y
    <3>1. Theirs[z]["name"] = Theirs[y]["name"] BY <2>2, <2>3, <2>5
    <3>2. QED BY <1>4, <3>1 DEF AllNamed, n
  <2>6. QED BY <1>3, <2>4, <2>5
<1> SUFFICES ASSUME NEW i \in 1..Len(Whole), NEW x \in 1..Len(Whole), i < x
             PROVE  At(i) < At(x)
  OBVIOUS
<1>8. CASE x \in 1..m
  <2>1. i \in 1..m BY <1>1, <1>3, <1>8
  <2>2. At(i) = i /\ At(x) = x BY <1>6, <1>8, <2>1
  <2>3. QED BY <2>2
<1>9. CASE i \in 1..m /\ m < x
  <2>1. At(i) = i /\ At(x) \in Nat /\ At(x) > m BY <1>6, <1>7, <1>9
  <2> HIDE DEF At
  <2>2. QED BY <1>3, <1>9, <2>1
<1>10. CASE m < i
  <2>1. PICK j \in 1..n, y \in 1..n : /\ j < y
                    /\ Whole[i] = ServiceOf(Normalized(Theirs[j]))
                    /\ Whole[x] = ServiceOf(Normalized(Theirs[y]))
    BY <1>1, <1>10
  <2>2. m < x BY <1>1, <1>3, <1>10
  <2>3. At(i) = m + j /\ At(x) = m + y BY <1>7, <1>10, <2>1, <2>2
  <2> HIDE DEF At
  <2>4. QED BY <1>3, <2>1, <2>3
<1>11. QED BY <1>1, <1>3, <1>8, <1>9, <1>10

(* A manifest that can be read has no other scope.                         *)
LEMMA ScopesRead ==
    ASSUME FilesGiven, OnceEach, ~Unreadable([Merged EXCEPT !.service = Each(Normalized, @)])
    PROVE  \A i \in 1..Len(Whole) : Whole[i]["scope"] \in {"project", "workspace"}
<1> DEFINE doc == [Merged EXCEPT !.service = Each(Normalized, @)]
           all == Each(Normalized, Merged.service)
<1>1. doc.service = all /\ Len(all) = Len(Merged.service)
      /\ \A i \in 1..Len(Merged.service) : all[i] = Normalized(Merged.service[i])
  <2>1. PICK T : Merged.service \in Seq(T) BY MergedLists DEF IsList
  <2>2. "service" \in DOMAIN Merged BY DEF Merged, MergeDocuments
  <2>3. doc.service = all BY <2>2
  <2>4. QED BY <2>1, <2>3, EachIsList
<1> HIDE DEF doc
<1>2. Len(Whole) = Len(Merged.service) BY WholeComes
<1>3. \A i \in 1..Len(Whole) : ~Malformed(all[i])
  <2>1. ~Unreadable(doc) BY DEF doc
  <2>2. QED BY <1>1, <1>2, <2>1 DEF Unreadable
<1>4. \A i \in 1..Len(Whole) : Whole[i] = ServiceOf(all[i])
  BY <1>1, <1>2 DEF Whole
<1> HIDE DEF all
<1> SUFFICES ASSUME NEW i \in 1..Len(Whole)
             PROVE  Whole[i]["scope"] \in {"project", "workspace"}
  OBVIOUS
<1>5. /\ "scope" \in DOMAIN all[i] => Whole[i]["scope"] = all[i]["scope"]
      /\ "scope" \notin DOMAIN all[i] => Whole[i]["scope"] = "project"
  <2>1. Whole[i] = ServiceOf(all[i]) BY <1>4
  <2>2. QED BY <2>1, ServiceKeys
<1>6. "scope" \in DOMAIN all[i] => all[i]["scope"] # Bad BY <1>3 DEF Malformed
<1>7. /\ Comes(Whole[i], i)
      /\ \A x \in 1..Len(Ours) : "scope" \in DOMAIN Ours[x] =>
            Ours[x]["scope"] \in {"project", "workspace", Bad}
      /\ \A y \in 1..Len(Theirs) : "scope" \in DOMAIN Theirs[y] =>
            Theirs[y]["scope"] \in {"project", "workspace", Bad}
  BY WholeComes, GivenLists
<1>8. ASSUME NEW entry, "scope" \in DOMAIN entry => entry["scope"] \in {"project", "workspace", Bad}
      PROVE  /\ "scope" \in DOMAIN Normalized(entry) <=> "scope" \in DOMAIN entry
             /\ "scope" \in DOMAIN entry => Normalized(entry)["scope"] = entry["scope"]
             /\ ServiceOf(Normalized(entry))["scope"] \in {"project", "workspace", Bad}
  <2>1. /\ "scope" \in DOMAIN Normalized(entry) <=> "scope" \in DOMAIN entry
        /\ "scope" \in DOMAIN entry => Normalized(entry)["scope"] = entry["scope"]
    BY NormalizedKeys
  <2>2. /\ "scope" \in DOMAIN Normalized(entry) =>
              ServiceOf(Normalized(entry))["scope"] = Normalized(entry)["scope"]
        /\ "scope" \notin DOMAIN Normalized(entry) =>
              ServiceOf(Normalized(entry))["scope"] = "project"
    BY ServiceKeys
  <2>3. QED BY <1>8, <2>1, <2>2
<1>9. ASSUME NEW x \in 1..Len(Ours), NEW y \in 1..Len(Theirs)
      PROVE  ServiceOf(MergeEntry(Normalized(Ours[x]), Normalized(Theirs[y])))["scope"]
                \in {"project", "workspace", Bad}
  <2> DEFINE old == Normalized(Ours[x])
             new == Normalized(Theirs[y])
             both == MergeEntry(old, new)
  <2>1. /\ "scope" \in DOMAIN old => old["scope"] \in {"project", "workspace", Bad}
        /\ "scope" \in DOMAIN new => new["scope"] \in {"project", "workspace", Bad}
    BY <1>7, <1>8
  <2> HIDE DEF old, new
  <2>2. /\ DOMAIN both = DOMAIN new \union DOMAIN old
        /\ "scope" \in DOMAIN both =>
              both["scope"] = IF "scope" \in DOMAIN new THEN new["scope"] ELSE old["scope"]
    <3>1. /\ DOMAIN both = DOMAIN new \union DOMAIN old
          /\ \A key \in DOMAIN new \union DOMAIN old : key # "env" =>
                both[key] = IF key \in DOMAIN new THEN new[key] ELSE old[key]
      BY MergeEntryKeys
    <3> HIDE DEF both
    <3>2. QED BY <3>1
  <2> HIDE DEF both
  <2>3. /\ "scope" \in DOMAIN both => ServiceOf(both)["scope"] = both["scope"]
        /\ "scope" \notin DOMAIN both => ServiceOf(both)["scope"] = "project"
    BY ServiceKeys
  <2>4. ServiceOf(both)["scope"] \in {"project", "workspace", Bad} BY <2>1, <2>2, <2>3
  <2>5. QED BY <2>4 DEF both, old, new
<1>10. Whole[i]["scope"] \in {"project", "workspace", Bad}
  BY <1>7, <1>8, <1>9 DEF Comes
<1>11. Bad \notin {"project", "workspace"} BY DEF Bad
<1>12. QED BY <1>5, <1>6, <1>10, <1>11

-----------------------------------------------------------------------------
(* The lists of the two scopes.                                            *)

LEMMA ScopeInOrder ==
    ASSUME FilesGiven, OnceEach, NEW scope
    PROVE  \A i, x \in 1..Len(InScope(scope)) : i < x =>
              Position(InScope(scope)[i]["name"]) < Position(InScope(scope)[x]["name"])
<1> DEFINE S == {s \in Range(Whole) : s.scope = scope}
           R == {pair \in Range(Whole) \X Range(Whole) :
                    Position(pair[1]["name"]) < Position(pair[2]["name"])}
           list == InScope(scope)
<1>1. Whole \in Seq(Range(Whole)) BY WholeComes
<1>2. ASSUME NEW i \in 1..Len(Whole), NEW x \in 1..Len(Whole), i < x
      PROVE  <<Whole[i], Whole[x]>> \in R
  <2>1. Whole[i] \in Range(Whole) /\ Whole[x] \in Range(Whole) BY <1>1
  <2>2. Position(Whole[i]["name"]) < Position(Whole[x]["name"]) BY <1>2, WholeAscends
  <2>3. QED BY <2>1, <2>2
<1>3. list = Filtered(Whole, S) BY DEF InScope
<1> HIDE DEF S, R, list
<1>4. Ascends(list, R)
  <2>1. Ascends(Whole, R) BY <1>2 DEF Ascends
  <2>2. QED BY <1>1, <1>3, <2>1, FilteredAscends
<1>5. \A i, x \in 1..Len(list) : i < x => Position(list[i]["name"]) < Position(list[x]["name"])
  BY <1>4 DEF R, Ascends
<1>6. QED BY <1>5 DEF list

LEMMA ScopesHold ==
    ASSUME FilesGiven, OnceEach, ~Unreadable([Merged EXCEPT !.service = Each(Normalized, @)])
    PROVE  \A s : Holds(InScope("project") \o InScope("workspace"), s)
                     <=> \E i \in 1..Len(Whole) : s = Whole[i]
<1>1. /\ Whole \in Seq(Range(Whole))
      /\ \A i \in 1..Len(Whole) : Whole[i] \in Range(Whole)
  BY WholeComes
<1>2. \A scope : /\ InScope(scope) \in Seq(Range(Whole))
                 /\ \A s : Holds(InScope(scope), s)
                       <=> Holds(Whole, s) /\ s \in {z \in Range(Whole) : z.scope = scope}
  BY <1>1, FilteredHolds DEF InScope
<1>3. \A s : Holds(InScope("project") \o InScope("workspace"), s)
               <=> Holds(InScope("project"), s) \/ Holds(InScope("workspace"), s)
  BY <1>2, ConcatHolds
<1>4. \A i \in 1..Len(Whole) : Whole[i].scope \in {"project", "workspace"}
  BY ScopesRead
<1>5. \A s : Holds(Whole, s) <=> \E i \in 1..Len(Whole) : s = Whole[i] BY DEF Holds
<1> SUFFICES ASSUME NEW s
             PROVE  Holds(InScope("project") \o InScope("workspace"), s)
                       <=> \E i \in 1..Len(Whole) : s = Whole[i]
  OBVIOUS
<1>6. ASSUME NEW i \in 1..Len(Whole), s = Whole[i]
      PROVE  Holds(InScope("project"), s) \/ Holds(InScope("workspace"), s)
  <2>1. Holds(Whole, s) /\ s \in Range(Whole) BY <1>1, <1>5, <1>6
  <2>2. s.scope \in {"project", "workspace"} BY <1>4, <1>6
  <2>3. CASE s.scope = "project" BY <1>2, <2>1, <2>3
  <2>4. CASE s.scope = "workspace" BY <1>2, <2>1, <2>4
  <2>5. QED BY <2>2, <2>3, <2>4
<1>7. ASSUME Holds(InScope("project"), s) \/ Holds(InScope("workspace"), s)
      PROVE  \E i \in 1..Len(Whole) : s = Whole[i]
  BY <1>2, <1>5, <1>7
<1>8. QED BY <1>3, <1>6, <1>7

LEMMA NamesRead ==
    ASSUME FilesGiven, OnceEach, ~Unreadable([Merged EXCEPT !.service = Each(Normalized, @)])
    PROVE  Names(InScope("project") \o InScope("workspace"))
              = {Both[i]["name"] : i \in 1..Len(Both)}
<1> DEFINE every == InScope("project") \o InScope("workspace")
           m == Len(Ours)
           n == Len(Theirs)
<1>1. /\ Len(Whole) \in Nat /\ m <= Len(Whole)
      /\ \A i \in 1..Len(Whole) : Comes(Whole[i], i)
      /\ \A j \in 1..n : \E i \in 1..Len(Whole) : Whole[i]["name"] = Theirs[j]["name"]
      /\ \A i \in 1..m : Whole[i]["name"] = Ours[i]["name"]
  BY WholeComes
<1>2. \A s : Holds(every, s) <=> \E i \in 1..Len(Whole) : s = Whole[i] BY ScopesHold
<1> HIDE DEF every
<1>3. \A name : name \in Names(every) <=> \E i \in 1..Len(Whole) : name = Whole[i]["name"]
  <2>1. \A name : name \in Names(every) <=> \E s : Holds(every, s) /\ s["name"] = name
    BY DEF Names, Holds
  <2>2. QED BY <1>2, <2>1
<1>4. Ours \in Seq(Range(Ours)) /\ Theirs \in Seq(Range(Theirs)) BY GivenLists
<1>5. /\ m \in Nat /\ n \in Nat /\ Len(Both) = m + n
      /\ \A i \in 1..m : i \in 1..(m + n) /\ Both[i] = Ours[i]
      /\ \A j \in 1..n : m + j \in 1..(m + n) /\ Both[m + j] = Theirs[j]
      /\ \A i \in 1..(m + n) : i \in 1..m \/ (i - m \in 1..n /\ m + (i - m) = i)
  BY <1>4 DEF Both
<1> HIDE DEF m, n
<1>6. \A i \in 1..m : i \in 1..Len(Whole) BY <1>1, <1>5
<1>7. \A name : (\E i \in 1..(m + n) : name = Both[i]["name"])
                   <=> \/ \E x \in 1..m : name = Ours[x]["name"]
                       \/ \E y \in 1..n : name = Theirs[y]["name"]
  <2>1. ASSUME NEW i \in 1..(m + n)
        PROVE  \/ \E x \in 1..m : Both[i] = Ours[x]
               \/ \E y \in 1..n : Both[i] = Theirs[y]
    <3>1. CASE i \in 1..m BY <1>5, <3>1
    <3>2. CASE i - m \in 1..n /\ m + (i - m) = i
      <4>1. Both[i] = Theirs[i - m] BY <1>5, <3>2
      <4>2. QED BY <3>2, <4>1
    <3>3. QED BY <1>5, <3>1, <3>2
  <2>2. \A x \in 1..m : \E i \in 1..(m + n) : Both[i] = Ours[x] BY <1>5
  <2>3. \A y \in 1..n : \E i \in 1..(m + n) : Both[i] = Theirs[y]
    <3>1. \A y \in 1..n : m + y \in 1..(m + n) /\ Both[m + y] = Theirs[y] BY <1>5
    <3>2. QED BY <3>1
  <2> SUFFICES ASSUME NEW name
               PROVE  (\E i \in 1..(m + n) : name = Both[i]["name"])
                         <=> \/ \E x \in 1..m : name = Ours[x]["name"]
                             \/ \E y \in 1..n : name = Theirs[y]["name"]
    OBVIOUS
  <2>4. ASSUME NEW i \in 1..(m + n), name = Both[i]["name"]
        PROVE  \/ \E x \in 1..m : name = Ours[x]["name"]
               \/ \E y \in 1..n : name = Theirs[y]["name"]
    BY <2>1, <2>4
  <2>5. ASSUME NEW x \in 1..m, name = Ours[x]["name"]
        PROVE  \E i \in 1..(m + n) : name = Both[i]["name"]
    BY <2>2, <2>5
  <2>6. ASSUME NEW y \in 1..n, name = Theirs[y]["name"]
        PROVE  \E i \in 1..(m + n) : name = Both[i]["name"]
    BY <2>3, <2>6
  <2>7. QED BY <2>4, <2>5, <2>6
<1>8. \A i \in 1..Len(Whole) : \/ \E x \in 1..m : Whole[i]["name"] = Ours[x]["name"]
                               \/ \E y \in 1..n : Whole[i]["name"] = Theirs[y]["name"]
  BY <1>1, ComesWins DEF m, n
<1>9. \A name : name \in Names(every)
                   <=> \/ \E x \in 1..m : name = Ours[x]["name"]
                       \/ \E y \in 1..n : name = Theirs[y]["name"]
  BY <1>1, <1>3, <1>6, <1>8
<1>10. \A name : name \in Names(every) <=> \E i \in 1..Len(Both) : name = Both[i]["name"]
  <2>1. Len(Both) = m + n BY <1>5
  <2>2. \A name : (\E i \in 1..Len(Both) : name = Both[i]["name"])
                     <=> \E i \in 1..(m + n) : name = Both[i]["name"]
    BY <2>1
  <2> SUFFICES ASSUME NEW name
               PROVE  name \in Names(every) <=> \E i \in 1..Len(Both) : name = Both[i]["name"]
    OBVIOUS
  <2>3. name \in Names(every) <=> \E i \in 1..(m + n) : name = Both[i]["name"]
    <3> DEFINE Said == \/ \E x \in 1..m : name = Ours[x]["name"]
                       \/ \E y \in 1..n : name = Theirs[y]["name"]
    <3>1. name \in Names(every) <=> Said BY <1>9
    <3>2. (\E i \in 1..(m + n) : name = Both[i]["name"]) <=> Said BY <1>7
    <3> HIDE DEF Said
    <3>3. QED BY <3>1, <3>2
  <2>4. QED BY <2>2, <2>3
<1>11. Names(every) = {Both[i]["name"] : i \in 1..Len(Both)} BY <1>10
<1>12. QED BY <1>11 DEF every

LEMMA OverlayHolds ==
    ASSUME FilesGiven, step = "read" => manifest = Read,
           step = "read" => ~Unreadable([Merged EXCEPT !.service = Each(Normalized, @)])
    PROVE  OverlayWins
<1> DEFINE every == manifest.services \o manifest.workspace
           Mine(s) == Written(sources.committed.service, s.name)
           Other(s) == Written(sources.overlay.service, s.name)
<1> SUFFICES ASSUME step = "read", OnceEach
             PROVE  /\ \A i, j \in 1..Len(manifest.services) :
                          i < j => Position(manifest.services[i].name) < Position(manifest.services[j].name)
                    /\ \A i, j \in 1..Len(manifest.workspace) :
                          i < j => Position(manifest.workspace[i].name) < Position(manifest.workspace[j].name)
                    /\ Names(every) = {Both[i]["name"] : i \in 1..Len(Both)}
                    /\ \A s \in Range(every) : Wins(s, Other(s), Mine(s))
  BY DEF OverlayWins, OnceEach, Ours, Theirs, Both, Wins, Env
<1>1. manifest.services = InScope("project") /\ manifest.workspace = InScope("workspace")
  BY MergedLists, ReadIsSplit
<1>2. Names(every) = {Both[i]["name"] : i \in 1..Len(Both)}
  BY <1>1, NamesRead
<1>3. ASSUME NEW s \in Range(every) PROVE Wins(s, Other(s), Mine(s))
  <2>1. \E i \in 1..Len(every) : s = every[i]
    <3>1. Whole \in Seq(Range(Whole)) BY WholeComes
    <3>2. \A scope : InScope(scope) \in Seq(Range(Whole)) BY <3>1, FilteredHolds DEF InScope
    <3>3. every \in Seq(Range(Whole)) BY <1>1, <3>2
    <3> HIDE DEF every
    <3>4. DOMAIN every = 1..Len(every) BY <3>3
    <3>5. QED BY <3>4 DEF Range
  <2>2. Holds(every, s) BY <2>1 DEF Holds
  <2>3. PICK i \in 1..Len(Whole) : s = Whole[i] BY <1>1, <2>2, ScopesHold
  <2>4. Comes(s, i) BY <2>3, WholeComes
  <2>5. Wins(s, Written(Theirs, s["name"]), Written(Ours, s["name"])) BY <2>4, ComesWins
  <2>6. QED BY <2>5 DEF Ours, Theirs
<1>4. QED BY <1>1, <1>2, <1>3, ScopeInOrder

(* An overlay that names each service once wins key by key, and what it    *)
(* overrides keeps its place, whatever the two files say of the rest: the  *)
(* reader's merge and its handling of the `cmd` alias.                     *)
THEOREM OverlayPrevails == ManifestSpec => []OverlayWins
<1>1. ManifestInit => ManifestInv BY ManifestStarts
<1>2. ManifestInv /\ [ManifestNext]_manifestVars => ManifestInv' BY ManifestStepKeeps
<1>3. ManifestInv => OverlayWins BY OverlayHolds DEF ManifestInv
<1>4. QED BY <1>1, <1>2, <1>3, PTL DEF ManifestSpec

===============================================================================
