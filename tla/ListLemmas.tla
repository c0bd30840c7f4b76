------------------------------ MODULE ListLemmas ------------------------------
(***************************************************************************)
(* Induction over the natural numbers, and recursion, with sets for        *)
(* predicates and functions for operators, in which form the provers can   *)
(* use them; lists without repetitions; walks in a finite set; what the    *)
(* operators of Lists return.                                              *)
(***************************************************************************)
EXTENDS Integers, Sequences, Functions, FiniteSets, Lists, WellFoundedInduction,
        FiniteSetTheorems, SequenceTheorems, TLAPS

Below == {pair \in Nat \X Nat : pair[1] < pair[2]}

LEMMA BelowWellFounded == IsWellFoundedOn(Below, Nat)
BY NatLessThanWellFounded DEF OpToRel, Below

(* A set of natural numbers that is not empty has a least member.          *)
LEMMA LeastNatural ==
    ASSUME NEW T, T \subseteq Nat, T # {}
    PROVE  \E least \in T : \A n \in T : least <= n
<1>1. PICK least \in T : \A n \in T : ~(<<n, least>> \in Below)
  BY BelowWellFounded, WFMin
<1>2. ASSUME NEW n \in T PROVE least <= n
  <2>1. least \in Nat /\ n \in Nat OBVIOUS
  <2>2. <<n, least>> \notin Below BY <1>1
  <2>3. ~(n < least) BY <2>1, <2>2 DEF Below
  <2>4. QED BY <2>1, <2>3
<1>3. QED BY <1>2

(* A set that holds 0 and each successor of a member holds every number.   *)
LEMMA SetInduction ==
    ASSUME NEW T, 0 \in T, \A n \in Nat : n \in T => n + 1 \in T
    PROVE  \A n \in Nat : n \in T
<1> SUFFICES ASSUME NEW n \in Nat, n \notin T PROVE FALSE
  OBVIOUS
<1>1. PICK least \in Nat \ T : \A m \in Nat \ T : least <= m
  BY LeastNatural
<1>2. least # 0 /\ least - 1 \in Nat OBVIOUS
<1>3. least - 1 \in T BY <1>1, <1>2
<1>4. QED BY <1>2, <1>3

-----------------------------------------------------------------------------
(* f holds the first n + 1 values of the recursion that begins with start  *)
(* and goes on with next.                                                  *)
Follows(f, start, next, S, n) ==
    /\ f \in [0..n -> S]
    /\ f[0] = start
    /\ \A i \in 1..n : f[i] = next[<<i, f[i - 1]>>]

LEMMA PrefixesExist ==
    ASSUME NEW S, NEW start \in S, NEW next \in [Nat \X S -> S]
    PROVE  \A n \in Nat : \E f : Follows(f, start, next, S, n)
<1> DEFINE T == {n \in Nat : \E f : Follows(f, start, next, S, n)}
<1>1. 0 \in T
  <2>1. Follows([i \in 0..0 |-> start], start, next, S, 0) BY DEF Follows
  <2>2. QED BY <2>1
<1>2. ASSUME NEW n \in Nat, n \in T PROVE n + 1 \in T
  <2>1. PICK f : Follows(f, start, next, S, n) BY <1>2
  <2> DEFINE last == next[<<n + 1, f[n]>>]
             g == [i \in 0..(n + 1) |-> IF i = n + 1 THEN last ELSE f[i]]
  <2>2. f \in [0..n -> S] /\ f[n] \in S BY <2>1 DEF Follows
  <2>3. last \in S BY <2>2
  <2> HIDE DEF last
  <2>4. g \in [0..(n + 1) -> S] /\ g[0] = start /\ g[n + 1] = last
    BY <2>1, <2>2, <2>3 DEF Follows
  <2>5. \A i \in 0..n : g[i] = f[i] OBVIOUS
  <2> HIDE DEF g
  <2>6. ASSUME NEW i \in 1..(n + 1) PROVE g[i] = next[<<i, g[i - 1]>>]
    <3>1. CASE i = n + 1
      <4>1. i - 1 = n /\ n \in 0..n BY <3>1
      <4>2. g[i - 1] = f[n] BY <4>1, <2>5
      <4>3. g[i] = last BY <3>1, <2>4
      <4>4. QED BY <3>1, <4>2, <4>3 DEF last
    <3>2. CASE i \in 1..n
      <4>1. g[i] = f[i] /\ g[i - 1] = f[i - 1] BY <3>2, <2>5
      <4>2. QED BY <4>1, <3>2, <2>1 DEF Follows
    <3>3. QED BY <3>1, <3>2
  <2>7. Follows(g, start, next, S, n + 1) BY <2>4, <2>6 DEF Follows
  <2>8. QED BY <2>7
<1> HIDE DEF T
<1>3. \A n \in Nat : n \in T BY <1>1, <1>2, SetInduction
<1>4. QED BY <1>3 DEF T

LEMMA PrefixesAgree ==
    ASSUME NEW S, NEW start, NEW next, NEW m \in Nat, NEW n \in Nat, NEW f, NEW g,
           Follows(f, start, next, S, m), Follows(g, start, next, S, n)
    PROVE  \A i \in Nat : i <= m /\ i <= n => f[i] = g[i]
<1> DEFINE T == {i \in Nat : i <= m /\ i <= n => f[i] = g[i]}
<1>1. 0 \in T BY DEF Follows
<1>2. ASSUME NEW i \in Nat, i \in T PROVE i + 1 \in T
  <2> SUFFICES ASSUME i + 1 <= m, i + 1 <= n PROVE f[i + 1] = g[i + 1]
    OBVIOUS
  <2>1. f[i] = g[i] BY <1>2
  <2>2. i + 1 \in 1..m /\ i + 1 \in 1..n /\ (i + 1) - 1 = i OBVIOUS
  <2>3. f[i + 1] = next[<<i + 1, f[i]>>] BY <2>2 DEF Follows
  <2>4. g[i + 1] = next[<<i + 1, g[i]>>] BY <2>2 DEF Follows
  <2>5. QED BY <2>1, <2>3, <2>4
<1> HIDE DEF T
<1>3. \A i \in Nat : i \in T BY <1>1, <1>2, SetInduction
<1>4. QED BY <1>3 DEF T

Endless(f, start, next, S) ==
    /\ f \in [Nat -> S]
    /\ f[0] = start
    /\ \A n \in Nat : f[n + 1] = next[<<n + 1, f[n]>>]

(* A recursion whose steps stay in S defines a function on all of Nat.     *)
LEMMA RecursionExists ==
    ASSUME NEW S, NEW start \in S, NEW next \in [Nat \X S -> S]
    PROVE  \E f : Endless(f, start, next, S)
<1> DEFINE prefix(n) == CHOOSE f : Follows(f, start, next, S, n)
           all == [n \in Nat |-> prefix(n)[n]]
<1>1. ASSUME NEW n \in Nat PROVE Follows(prefix(n), start, next, S, n)
  BY PrefixesExist
<1> HIDE DEF prefix
<1>2. ASSUME NEW n \in Nat PROVE prefix(n)[n] \in S /\ n \in 0..n
  <2>1. prefix(n) \in [0..n -> S] BY <1>1 DEF Follows
  <2>2. QED BY <2>1
<1>3. all \in [Nat -> S] BY <1>2
<1>4. all[0] = start BY <1>1 DEF Follows
<1>5. ASSUME NEW n \in Nat PROVE all[n + 1] = next[<<n + 1, all[n]>>]
  <2>1. Follows(prefix(n), start, next, S, n)
        /\ Follows(prefix(n + 1), start, next, S, n + 1)
    BY <1>1
  <2>2. prefix(n + 1)[n] = prefix(n)[n] BY <2>1, PrefixesAgree
  <2>3. n + 1 \in 1..(n + 1) /\ (n + 1) - 1 = n OBVIOUS
  <2>4. prefix(n + 1)[n + 1] = next[<<n + 1, prefix(n + 1)[n]>>]
    BY <2>1, <2>3 DEF Follows
  <2>5. QED BY <2>2, <2>4
<1>6. QED BY <1>3, <1>4, <1>5 DEF Endless

(* f is as a LET-recursive function on 0..n unfolds.                       *)
Unfolds(f, start, next, S, n) ==
    /\ f \in [0..n -> S]
    /\ f = [i \in 0..n |-> IF i = 0 THEN start ELSE next[<<i, f[i - 1]>>]]

LEMMA RecursionUnfolds ==
    ASSUME NEW S, NEW start \in S, NEW next \in [Nat \X S -> S], NEW n \in Nat
    PROVE  \E f : Unfolds(f, start, next, S, n)
<1>1. PICK f : Follows(f, start, next, S, n) BY PrefixesExist
<1>2. f \in [0..n -> S] BY <1>1 DEF Follows
<1>3. \A i \in 0..n : f[i] = IF i = 0 THEN start ELSE next[<<i, f[i - 1]>>]
  BY <1>1 DEF Follows
<1>4. QED BY <1>2, <1>3 DEF Unfolds

-----------------------------------------------------------------------------
(* s is a member of the list; no member is there twice.                     *)
Holds(list, s) == \E i \in 1..Len(list) : list[i] = s

NoRepeat(list) == \A i, j \in 1..Len(list) : list[i] = list[j] => i = j

(* A list without repetitions, lengthened by one whose members are new.    *)
LEMMA QueueGrows ==
    ASSUME NEW T, NEW queue \in Seq(T), NEW list \in Seq(T), NoRepeat(queue), NoRepeat(list),
           \A i \in 1..Len(queue), j \in 1..Len(list) : queue[i] # list[j]
    PROVE  /\ NoRepeat(queue \o list)
           /\ \A s : Holds(queue \o list, s) <=> Holds(queue, s) \/ Holds(list, s)
<1> DEFINE both == queue \o list
           m == Len(queue)
           n == Len(list)
<1>1. m \in Nat /\ n \in Nat /\ both \in Seq(T) /\ Len(both) = m + n OBVIOUS
<1>2. \A i \in 1..m : i \in 1..(m + n) /\ both[i] = queue[i] OBVIOUS
<1>3. \A i \in 1..n : m + i \in 1..(m + n) /\ both[m + i] = list[i] OBVIOUS
<1>4. ASSUME NEW i \in 1..(m + n), i \notin 1..m
      PROVE  i - m \in 1..n /\ both[i] = list[i - m]
  BY <1>4
<1> HIDE DEF both, m, n
<1>5. ASSUME NEW i \in 1..(m + n), NEW j \in 1..(m + n), both[i] = both[j]
      PROVE  i = j
  <2>1. CASE i \in 1..m /\ j \in 1..m BY <1>2, <1>5, <2>1 DEF NoRepeat, m
  <2>2. CASE i \notin 1..m /\ j \notin 1..m
    <3>1. list[i - m] = list[j - m] BY <1>4, <1>5, <2>2
    <3>2. i - m = j - m BY <1>4, <2>2, <3>1 DEF NoRepeat, n
    <3>3. QED BY <1>1, <3>2
  <2>3. CASE i \in 1..m /\ j \notin 1..m
    <3>1. queue[i] = list[j - m] BY <1>2, <1>4, <1>5, <2>3
    <3>2. QED BY <1>4, <2>3, <3>1 DEF m, n
  <2>4. CASE i \notin 1..m /\ j \in 1..m
    <3>1. queue[j] = list[i - m] BY <1>2, <1>4, <1>5, <2>4
    <3>2. QED BY <1>4, <2>4, <3>1 DEF m, n
  <2>5. QED BY <2>1, <2>2, <2>3, <2>4
<1>6. NoRepeat(both) BY <1>1, <1>5 DEF NoRepeat
<1>7. ASSUME NEW s
      PROVE  Holds(both, s) <=> Holds(queue, s) \/ Holds(list, s)
  <2>1. Holds(both, s) => Holds(queue, s) \/ Holds(list, s)
    BY <1>1, <1>2, <1>4 DEF Holds, m, n
  <2>2. Holds(queue, s) => Holds(both, s) BY <1>1, <1>2 DEF Holds, m
  <2>3. Holds(list, s) => Holds(both, s) BY <1>1, <1>3 DEF Holds, n
  <2>4. QED BY <2>1, <2>2, <2>3
<1>8. QED BY <1>6, <1>7 DEF both

(* A list without repetitions is no longer than the set it is taken from.  *)
LEMMA NoRepeatLen ==
    ASSUME NEW T, IsFiniteSet(T), NEW list \in Seq(T), NoRepeat(list)
    PROVE  /\ Len(list) <= Cardinality(T)
           /\ (\A s \in T : Holds(list, s)) => Len(list) = Cardinality(T)
<1>1. list \in [1..Len(list) -> T] /\ Len(list) \in Nat OBVIOUS
<1>2. list \in Injection(1..Len(list), T) BY <1>1 DEF NoRepeat, Injection, IsInjective
<1>3. /\ Cardinality(1..Len(list)) <= Cardinality(T)
      /\ Cardinality(1..Len(list)) = Cardinality(T) <=> list \in Surjection(1..Len(list), T)
  BY <1>2, FS_Injection
<1>4. Cardinality(1..Len(list)) = Len(list)
  <2>1. Cardinality(1..Len(list)) = IF 1 > Len(list) THEN 0 ELSE Len(list) - 1 + 1
    BY <1>1, FS_Interval, SMTT(30)
  <2>2. QED BY <1>1, <2>1
<1>5. ASSUME \A s \in T : Holds(list, s) PROVE list \in Surjection(1..Len(list), T)
  BY <1>1, <1>5 DEF Holds, Surjection
<1>6. QED BY <1>3, <1>4, <1>5

(* An endless walk passes some place twice within Cardinality(T) steps.    *)
LEMMA WalkCloses ==
    ASSUME NEW T, IsFiniteSet(T), NEW walk \in [Nat -> T]
    PROVE  \E x \in Nat, n \in 1..Cardinality(T) : walk[x] = walk[x + n]
<1> DEFINE C == Cardinality(T)
           P == 0..C
           f == [k \in P |-> walk[k]]
<1>1. C \in Nat BY FS_CardinalityType
<1> HIDE DEF C
<1>2. IsFiniteSet(P) /\ Cardinality(P) = C + 1
  <2>1. IsFiniteSet(0..C) /\ Cardinality(0..C) = IF 0 > C THEN 0 ELSE C - 0 + 1
    BY <1>1, FS_Interval
  <2>2. QED BY <1>1, <2>1
<1>3. f \in [P -> T] /\ \A k \in P : f[k] = walk[k] BY <1>1
<1>4. Cardinality(T) < Cardinality(P) BY <1>1, <1>2 DEF C
<1> HIDE DEF f, P
<1>5. PICK x \in P, y \in P : x # y /\ f[x] = f[y] BY <1>2, <1>3, <1>4, FS_PigeonHole
<1>6. walk[x] = walk[y] BY <1>3, <1>5
<1>7. x \in Nat /\ y \in Nat /\ x <= C /\ y <= C /\ x # y BY <1>1, <1>5 DEF P
<1>8. CASE x < y
  <2>1. y - x \in 1..C /\ x + (y - x) = y BY <1>1, <1>7, <1>8
  <2>2. QED BY <1>6, <1>7, <2>1 DEF C
<1>9. CASE y < x
  <2>1. x - y \in 1..C /\ y + (x - y) = x BY <1>1, <1>7, <1>9
  <2>2. QED BY <1>6, <1>7, <2>1 DEF C
<1>10. QED BY <1>7, <1>8, <1>9

-----------------------------------------------------------------------------
(* What the operators of Lists return.                                     *)

LEMMA AppendHolds ==
    ASSUME NEW T, NEW list \in Seq(T), NEW last \in T
    PROVE  \A x : Holds(Append(list, last), x) <=> Holds(list, x) \/ x = last
<1>1. /\ Len(list) \in Nat /\ Len(Append(list, last)) = Len(list) + 1
      /\ Append(list, last)[Len(list) + 1] = last
      /\ \A i \in 1..Len(list) : Append(list, last)[i] = list[i]
  OBVIOUS
<1>2. \A i \in 1..(Len(list) + 1) : i = Len(list) + 1 \/ i \in 1..Len(list) BY <1>1
<1>3. \A i \in 1..Len(list) : i \in 1..(Len(list) + 1) BY <1>1
<1>4. Len(list) + 1 \in 1..(Len(list) + 1) BY <1>1
<1>5. QED BY <1>1, <1>2, <1>3, <1>4 DEF Holds

LEMMA AppendNoRepeat ==
    ASSUME NEW T, NEW list \in Seq(T), NEW last \in T, NoRepeat(list), ~Holds(list, last)
    PROVE  NoRepeat(Append(list, last))
<1>1. /\ Len(list) \in Nat /\ Len(Append(list, last)) = Len(list) + 1
      /\ Append(list, last)[Len(list) + 1] = last
      /\ \A i \in 1..Len(list) : Append(list, last)[i] = list[i]
  OBVIOUS
<1>2. \A i \in 1..(Len(list) + 1) : i = Len(list) + 1 \/ i \in 1..Len(list) BY <1>1
<1>3. QED BY <1>1, <1>2 DEF Holds, NoRepeat

LEMMA ConcatHolds ==
    ASSUME NEW T, NEW front \in Seq(T), NEW back \in Seq(T)
    PROVE  \A x : Holds(front \o back, x) <=> Holds(front, x) \/ Holds(back, x)
<1> DEFINE both == front \o back
           m == Len(front)
           n == Len(back)
<1>1. m \in Nat /\ n \in Nat /\ Len(both) = m + n OBVIOUS
<1>2. \A i \in 1..m : i \in 1..(m + n) /\ both[i] = front[i] OBVIOUS
<1>3. \A i \in 1..n : m + i \in 1..(m + n) /\ both[m + i] = back[i] OBVIOUS
<1>4. ASSUME NEW i \in 1..(m + n), i \notin 1..m
      PROVE  i - m \in 1..n /\ both[i] = back[i - m]
  BY <1>4
<1> HIDE DEF both, m, n
<1>5. ASSUME NEW x
      PROVE  Holds(both, x) <=> Holds(front, x) \/ Holds(back, x)
  <2>1. Holds(both, x) => Holds(front, x) \/ Holds(back, x)
    BY <1>1, <1>2, <1>4 DEF Holds, m, n
  <2>2. Holds(front, x) => Holds(both, x) BY <1>1, <1>2 DEF Holds, m
  <2>3. Holds(back, x) => Holds(both, x) BY <1>1, <1>3 DEF Holds, n
  <2>4. QED BY <2>1, <2>2, <2>3
<1>6. QED BY <1>5 DEF both

LEMMA FilteredRuns ==
    ASSUME NEW T, NEW list \in Seq(T), NEW S
    PROVE  \E h : /\ h[0] = <<>>
                  /\ \A n \in 1..Len(list) :
                        h[n] = IF list[n] \in S THEN Append(h[n - 1], list[n]) ELSE h[n - 1]
                  /\ Filtered(list, S) = h[Len(list)]
<1> DEFINE N == Len(list)
           Turn(h) == [n \in 0..N |-> IF n = 0 THEN <<>>
                                      ELSE IF list[n] \in S THEN Append(h[n - 1], list[n])
                                      ELSE h[n - 1]]
           kept == CHOOSE h : h = Turn(h)
           Lists == Seq(T)
           next == [p \in Nat \X Lists |->
                      IF p[1] \in 1..N /\ list[p[1]] \in S THEN Append(p[2], list[p[1]]) ELSE p[2]]
<1>0. N \in Nat /\ \A n \in 1..N : list[n] \in T OBVIOUS
<1>1. Filtered(list, S) = kept[N] BY DEF Filtered
<1>2. \E h : h = Turn(h)
  <2>1. next \in [Nat \X Lists -> Lists] /\ <<>> \in Lists BY <1>0
  <2> HIDE DEF next
  <2>2. PICK f : Unfolds(f, <<>>, next, Lists, N)
    <3> HIDE DEF Lists, N
    <3>1. QED BY <1>0, <2>1, RecursionUnfolds
  <2>3. f \in [0..N -> Lists] BY <2>2 DEF Unfolds
  <2>4. ASSUME NEW i \in 1..N
        PROVE  next[<<i, f[i - 1]>>]
                  = IF list[i] \in S THEN Append(f[i - 1], list[i]) ELSE f[i - 1]
    <3>1. i - 1 \in 0..N /\ i \in Nat BY <1>0
    <3>2. f[i - 1] \in Lists BY <2>3, <3>1
    <3> HIDE DEF Lists, N
    <3>3. QED BY <3>1, <3>2 DEF next
  <2>5. f = Turn(f)
    <3>1. \A i \in 0..N : i # 0 => i \in 1..N BY <1>0
    <3>2. Turn(f) = [i \in 0..N |-> IF i = 0 THEN <<>> ELSE next[<<i, f[i - 1]>>]]
      BY <2>4, <3>1
    <3> HIDE DEF Turn, N
    <3>3. QED BY <2>2, <3>2 DEF Unfolds
  <2> HIDE DEF Turn
  <2>6. QED BY <2>5
<1> HIDE DEF Turn
<1>3. kept = Turn(kept) BY <1>2
<1> HIDE DEF kept
<1>4. \A n \in 0..N : kept[n] = IF n = 0 THEN <<>>
                                ELSE IF list[n] \in S THEN Append(kept[n - 1], list[n])
                                ELSE kept[n - 1]
  BY <1>3 DEF Turn
<1>5. 0 \in 0..N /\ \A n \in 1..N : n \in 0..N /\ n # 0 BY <1>0
<1>6. QED BY <1>1, <1>4, <1>5

LEMMA FilteredHolds ==
    ASSUME NEW T, NEW list \in Seq(T), NEW S
    PROVE  /\ Filtered(list, S) \in Seq(T)
           /\ \A x : Holds(Filtered(list, S), x) <=> Holds(list, x) /\ x \in S
<1> DEFINE N == Len(list)
<1>1. N \in Nat /\ \A n \in 1..N : list[n] \in T OBVIOUS
<1>2. PICK kept : /\ kept[0] = <<>>
                  /\ \A n \in 1..N : kept[n] = IF list[n] \in S THEN Append(kept[n - 1], list[n])
                                                ELSE kept[n - 1]
                  /\ Filtered(list, S) = kept[N]
  BY FilteredRuns
<1> DEFINE Right(n) ==
              /\ kept[n] \in Seq(T)
              /\ \A x : Holds(kept[n], x) <=> x \in S /\ \E i \in 1..n : list[i] = x
           D == {n \in Nat : n <= N => Right(n)}
<1> HIDE DEF N
<1>3. 0 \in D
  <2>1. Right(0) BY <1>2 DEF Holds
  <2>2. QED BY <2>1
<1>4. ASSUME NEW n \in Nat, n \in D PROVE n + 1 \in D
  <2> SUFFICES ASSUME n + 1 <= N PROVE Right(n + 1)
    OBVIOUS
  <2>1. Right(n) /\ n + 1 \in 1..N /\ (n + 1) - 1 = n BY <1>1, <1>4
  <2>2. \A i \in 1..(n + 1) : i = n + 1 \/ i \in 1..n BY <1>1
  <2>3. kept[n + 1] = IF list[n + 1] \in S THEN Append(kept[n], list[n + 1]) ELSE kept[n]
    BY <1>2, <2>1
  <2>4. CASE list[n + 1] \in S
    <3>1. kept[n + 1] = Append(kept[n], list[n + 1]) BY <2>3, <2>4
    <3>2. kept[n] \in Seq(T) /\ list[n + 1] \in T BY <1>1, <2>1
    <3>3. \A x : Holds(Append(kept[n], list[n + 1]), x) <=> Holds(kept[n], x) \/ x = list[n + 1]
      BY <3>2, AppendHolds
    <3>4. kept[n + 1] \in Seq(T) BY <3>1, <3>2
    <3>5. QED BY <2>1, <2>2, <2>4, <3>1, <3>3, <3>4
  <2>5. CASE list[n + 1] \notin S
    <3>1. kept[n + 1] = kept[n] BY <2>3, <2>5
    <3>2. QED BY <2>1, <2>2, <2>5, <3>1
  <2>6. QED BY <2>4, <2>5
<1> HIDE DEF D
<1>5. \A n \in Nat : n \in D BY <1>3, <1>4, SetInduction
<1>6. Right(N)
  <2> HIDE DEF Right
  <2>1. QED BY <1>1, <1>5 DEF D
<1>7. QED BY <1>2, <1>6 DEF Holds, N

(* Each earlier member is related to each later one.                       *)
Ascends(list, R) == \A i, j \in 1..Len(list) : i < j => <<list[i], list[j]>> \in R

LEMMA FilteredAscends ==
    ASSUME NEW T, NEW list \in Seq(T), NEW S, NEW R, Ascends(list, R)
    PROVE  Ascends(Filtered(list, S), R)
<1> DEFINE N == Len(list)
<1>1. N \in Nat /\ \A n \in 1..N : list[n] \in T OBVIOUS
<1>2. PICK kept : /\ kept[0] = <<>>
                  /\ \A n \in 1..N : kept[n] = IF list[n] \in S THEN Append(kept[n - 1], list[n])
                                                ELSE kept[n - 1]
                  /\ Filtered(list, S) = kept[N]
  BY FilteredRuns
<1> DEFINE Right(n) ==
              /\ kept[n] \in Seq(T)
              /\ \A k \in 1..Len(kept[n]) : \E i \in 1..n : kept[n][k] = list[i]
              /\ \A i, j \in 1..Len(kept[n]) : i < j => <<kept[n][i], kept[n][j]>> \in R
           D == {n \in Nat : n <= N => Right(n)}
<1> HIDE DEF N
<1>3. 0 \in D
  <2>1. Right(0) BY <1>2
  <2>2. QED BY <2>1
<1>4. ASSUME NEW n \in Nat, n \in D PROVE n + 1 \in D
  <2> SUFFICES ASSUME n + 1 <= N PROVE Right(n + 1)
    OBVIOUS
  <2>1. Right(n) /\ n + 1 \in 1..N /\ (n + 1) - 1 = n BY <1>1, <1>4
  <2>2. \A i \in 1..n : i \in 1..(n + 1) /\ i < n + 1 /\ i \in 1..N BY <1>1
  <2>3. kept[n + 1] = IF list[n + 1] \in S THEN Append(kept[n], list[n + 1]) ELSE kept[n]
    BY <1>2, <2>1
  <2>4. CASE list[n + 1] \in S
    <3> DEFINE m == Len(kept[n])
               last == list[n + 1]
               new == Append(kept[n], last)
    <3>1. kept[n + 1] = new BY <2>3, <2>4
    <3>2. kept[n] \in Seq(T) /\ last \in T BY <1>1, <2>1
    <3>3. /\ m \in Nat /\ new \in Seq(T) /\ Len(new) = m + 1 /\ new[m + 1] = last
          /\ \A k \in 1..m : new[k] = kept[n][k]
          /\ \A k \in 1..(m + 1) : k = m + 1 \/ k \in 1..m
      BY <3>2
    <3> HIDE DEF m, new
    <3>4. \A k \in 1..(m + 1) : \E i \in 1..(n + 1) : new[k] = list[i]
      <4>1. \A k \in 1..m : \E i \in 1..n : kept[n][k] = list[i] BY <2>1 DEF m
      <4>2. \A i \in 1..n : i \in 1..(n + 1) BY <2>2
      <4>3. \A k \in 1..m : \E i \in 1..(n + 1) : new[k] = list[i] BY <3>3, <4>1, <4>2
      <4>4. n + 1 \in 1..(n + 1) /\ new[m + 1] = list[n + 1] BY <3>3 DEF last
      <4>5. QED BY <3>3, <4>3, <4>4
    <3>5. \A k \in 1..m : <<new[k], last>> \in R
      <4>1. \A k \in 1..m : \E i \in 1..n : kept[n][k] = list[i] BY <2>1 DEF m
      <4>2. \A i \in 1..n : <<list[i], last>> \in R BY <2>1, <2>2 DEF N, last, Ascends
      <4>3. QED BY <3>3, <4>1, <4>2
    <3>6. \A i, j \in 1..m : i < j => <<new[i], new[j]>> \in R BY <2>1, <3>3 DEF m
    <3> HIDE DEF last
    <3>7. \A i, j \in 1..(m + 1) : i < j => <<new[i], new[j]>> \in R
      <4>1. \A i, j \in 1..(m + 1) : i < j => i \in 1..m BY <3>3
      <4>2. QED BY <3>3, <3>5, <3>6, <4>1
    <3> HIDE DEF D
    <3>8. QED BY <3>1, <3>3, <3>4, <3>7
  <2>5. CASE list[n + 1] \notin S
    <3>1. kept[n + 1] = kept[n] BY <2>3, <2>5
    <3>2. QED BY <2>1, <2>2, <3>1
  <2>6. QED BY <2>4, <2>5
<1> HIDE DEF D
<1>5. \A n \in Nat : n \in D BY <1>3, <1>4, SetInduction
<1>6. Right(N)
  <2> HIDE DEF Right
  <2>1. QED BY <1>1, <1>5 DEF D
<1>7. QED BY <1>2, <1>6 DEF Ascends

LEMMA JoinedRuns ==
    ASSUME NEW T, NEW lists \in Seq(Seq(T))
    PROVE  \E h : /\ h[0] = <<>>
                  /\ \A n \in 1..Len(lists) : h[n] = h[n - 1] \o lists[n]
                  /\ Joined(lists) = h[Len(lists)]
<1> DEFINE N == Len(lists)
           Turn(h) == [n \in 0..N |-> IF n = 0 THEN <<>> ELSE h[n - 1] \o lists[n]]
           joined == CHOOSE h : h = Turn(h)
           Lists == Seq(T)
           next == [p \in Nat \X Lists |->
                      IF p[1] \in 1..N THEN p[2] \o lists[p[1]] ELSE p[2]]
<1>0. N \in Nat /\ \A n \in 1..N : lists[n] \in Lists OBVIOUS
<1>1. Joined(lists) = joined[N] BY DEF Joined
<1>2. \E h : h = Turn(h)
  <2>1. next \in [Nat \X Lists -> Lists] /\ <<>> \in Lists BY <1>0
  <2> HIDE DEF next
  <2>2. PICK f : Unfolds(f, <<>>, next, Lists, N)
    <3> HIDE DEF Lists, N
    <3>1. QED BY <1>0, <2>1, RecursionUnfolds
  <2>3. f \in [0..N -> Lists] BY <2>2 DEF Unfolds
  <2>4. ASSUME NEW i \in 1..N
        PROVE  next[<<i, f[i - 1]>>] = f[i - 1] \o lists[i]
    <3>1. i - 1 \in 0..N /\ i \in Nat BY <1>0
    <3>2. f[i - 1] \in Lists BY <2>3, <3>1
    <3> HIDE DEF Lists, N
    <3>3. QED BY <3>1, <3>2 DEF next
  <2>5. f = Turn(f)
    <3>1. \A i \in 0..N : i # 0 => i \in 1..N BY <1>0
    <3>2. Turn(f) = [i \in 0..N |-> IF i = 0 THEN <<>> ELSE next[<<i, f[i - 1]>>]]
      BY <2>4, <3>1
    <3> HIDE DEF Turn, N
    <3>3. QED BY <2>2, <3>2 DEF Unfolds
  <2> HIDE DEF Turn
  <2>6. QED BY <2>5
<1> HIDE DEF Turn
<1>3. joined = Turn(joined) BY <1>2
<1> HIDE DEF joined
<1>4. \A n \in 0..N : joined[n] = IF n = 0 THEN <<>> ELSE joined[n - 1] \o lists[n]
  BY <1>3 DEF Turn
<1>5. 0 \in 0..N /\ \A n \in 1..N : n \in 0..N /\ n # 0 BY <1>0
<1>6. QED BY <1>1, <1>4, <1>5

LEMMA JoinedHolds ==
    ASSUME NEW T, NEW lists \in Seq(Seq(T))
    PROVE  /\ Joined(lists) \in Seq(T)
           /\ \A x : Holds(Joined(lists), x) <=> \E i \in 1..Len(lists) : Holds(lists[i], x)
<1> DEFINE N == Len(lists)
<1>1. N \in Nat /\ \A n \in 1..N : lists[n] \in Seq(T) OBVIOUS
<1>2. PICK joined : /\ joined[0] = <<>>
                    /\ \A n \in 1..N : joined[n] = joined[n - 1] \o lists[n]
                    /\ Joined(lists) = joined[N]
  BY JoinedRuns
<1> DEFINE Right(n) ==
              /\ joined[n] \in Seq(T)
              /\ \A x : Holds(joined[n], x) <=> \E i \in 1..n : Holds(lists[i], x)
           D == {n \in Nat : n <= N => Right(n)}
<1> HIDE DEF N
<1>3. 0 \in D
  <2>1. Right(0) BY <1>2 DEF Holds
  <2>2. QED BY <2>1
<1>4. ASSUME NEW n \in Nat, n \in D PROVE n + 1 \in D
  <2> SUFFICES ASSUME n + 1 <= N PROVE Right(n + 1)
    OBVIOUS
  <2>1. Right(n) /\ n + 1 \in 1..N /\ (n + 1) - 1 = n BY <1>1, <1>4
  <2>2. \A i \in 1..(n + 1) : i = n + 1 \/ i \in 1..n BY <1>1
  <2>3. joined[n + 1] = joined[n] \o lists[n + 1] BY <1>2, <2>1
  <2>4. joined[n] \in Seq(T) /\ lists[n + 1] \in Seq(T) BY <1>1, <2>1
  <2>5. \A x : Holds(joined[n] \o lists[n + 1], x) <=> Holds(joined[n], x) \/ Holds(lists[n + 1], x)
    BY <2>4, ConcatHolds
  <2>6. joined[n + 1] \in Seq(T) BY <2>3, <2>4
  <2>7. QED BY <2>1, <2>2, <2>3, <2>5, <2>6
<1> HIDE DEF D
<1>5. \A n \in Nat : n \in D BY <1>3, <1>4, SetInduction
<1>6. Right(N)
  <2> HIDE DEF Right
  <2>1. QED BY <1>1, <1>5 DEF D
<1>7. QED BY <1>2, <1>6 DEF Holds, N

LEMMA ConcatAscends ==
    ASSUME NEW T, NEW front \in Seq(T), NEW back \in Seq(T), NEW R,
           Ascends(front, R), Ascends(back, R),
           \A x, y : Holds(front, x) /\ Holds(back, y) => <<x, y>> \in R
    PROVE  Ascends(front \o back, R)
<1> DEFINE both == front \o back
           m == Len(front)
           n == Len(back)
<1>1. m \in Nat /\ n \in Nat /\ Len(both) = m + n OBVIOUS
<1>2. \A i \in 1..m : both[i] = front[i] OBVIOUS
<1>3. \A i \in 1..(m + n) : i \notin 1..m => i - m \in 1..n /\ both[i] = back[i - m] OBVIOUS
<1> HIDE DEF both
<1> SUFFICES ASSUME NEW i \in 1..(m + n), NEW j \in 1..(m + n), i < j
             PROVE  <<both[i], both[j]>> \in R
  BY <1>1 DEF Ascends, both
<1>4. CASE i \in 1..m /\ j \in 1..m BY <1>2, <1>4 DEF Ascends
<1>5. CASE i \in 1..m /\ j \notin 1..m
  <2>1. both[i] = front[i] /\ both[j] = back[j - m] /\ j - m \in 1..n BY <1>2, <1>3, <1>5
  <2>2. QED BY <1>5, <2>1 DEF Holds
<1>6. CASE i \notin 1..m /\ j \notin 1..m
  <2>1. both[i] = back[i - m] /\ both[j] = back[j - m] /\ i - m \in 1..n /\ j - m \in 1..n
    BY <1>3, <1>6
  <2>2. i - m < j - m BY <1>1
  <2>3. QED BY <2>1, <2>2 DEF Ascends
<1>7. CASE i \notin 1..m /\ j \in 1..m BY <1>1, <1>7
<1>8. QED BY <1>4, <1>5, <1>6, <1>7

LEMMA JoinedAscends ==
    ASSUME NEW T, NEW lists \in Seq(Seq(T)), NEW R,
           \A i \in 1..Len(lists) : Ascends(lists[i], R),
           \A i, j \in 1..Len(lists) : i < j =>
              \A x, y : Holds(lists[i], x) /\ Holds(lists[j], y) => <<x, y>> \in R
    PROVE  Ascends(Joined(lists), R)
<1> DEFINE N == Len(lists)
<1>1. N \in Nat /\ \A n \in 1..N : lists[n] \in Seq(T) OBVIOUS
<1>2. PICK joined : /\ joined[0] = <<>>
                    /\ \A n \in 1..N : joined[n] = joined[n - 1] \o lists[n]
                    /\ Joined(lists) = joined[N]
  BY JoinedRuns
<1> DEFINE Right(n) ==
              /\ joined[n] \in Seq(T) /\ Ascends(joined[n], R)
              /\ \A x : Holds(joined[n], x) => \E i \in 1..n : Holds(lists[i], x)
           D == {n \in Nat : n <= N => Right(n)}
<1>3. 0 \in D
  <2>1. Right(0) BY <1>2 DEF Holds, Ascends
  <2>2. QED BY <2>1
<1>4. ASSUME NEW n \in Nat, n \in D PROVE n + 1 \in D
  <2> SUFFICES ASSUME n + 1 <= N PROVE Right(n + 1)
    OBVIOUS
  <2>1. Right(n) /\ n + 1 \in 1..N /\ (n + 1) - 1 = n BY <1>1, <1>4
  <2>2. \A i \in 1..n : i \in 1..N /\ i \in 1..(n + 1) /\ i < n + 1 BY <1>1
  <2>3. joined[n + 1] = joined[n] \o lists[n + 1] BY <1>2, <2>1
  <2>4. joined[n] \in Seq(T) /\ lists[n + 1] \in Seq(T) BY <1>1, <2>1
  <2>5. \A x : Holds(joined[n] \o lists[n + 1], x) <=> Holds(joined[n], x) \/ Holds(lists[n + 1], x)
    BY <2>4, ConcatHolds
  <2>6. ASSUME NEW x, NEW y, Holds(joined[n], x), Holds(lists[n + 1], y) PROVE <<x, y>> \in R
    <3>1. PICK i \in 1..n : Holds(lists[i], x) BY <2>1, <2>6
    <3>2. i \in 1..N /\ n + 1 \in 1..N /\ i < n + 1 BY <2>1, <2>2
    <3>3. QED BY <2>6, <3>1, <3>2
  <2>7. Ascends(joined[n], R) /\ Ascends(lists[n + 1], R) BY <2>1
  <2>8. Ascends(joined[n + 1], R) BY <2>3, <2>4, <2>6, <2>7, ConcatAscends
  <2>9. joined[n + 1] \in Seq(T) BY <2>3, <2>4
  <2>10. \A x : Holds(joined[n + 1], x) => \E i \in 1..(n + 1) : Holds(lists[i], x)
    <3>1. n + 1 \in 1..(n + 1) BY <1>1
    <3>2. QED BY <2>1, <2>2, <2>3, <2>5, <3>1
  <2>11. QED BY <2>8, <2>9, <2>10
<1> HIDE DEF D
<1>5. \A n \in Nat : n \in D BY <1>3, <1>4, SetInduction
<1>6. Right(N)
  <2> HIDE DEF Right
  <2>1. QED BY <1>1, <1>5 DEF D
<1>7. QED BY <1>2, <1>6

(* The size of the set a list without repetitions goes through.            *)
LEMMA NoRepeatRange ==
    ASSUME NEW T, NEW list \in Seq(T), NoRepeat(list)
    PROVE  Cardinality(Range(list)) = Len(list)
<1>1. list \in [1..Len(list) -> T] /\ Len(list) \in Nat /\ DOMAIN list = 1..Len(list) OBVIOUS
<1>2. /\ IsFiniteSet(1..Len(list))
      /\ Cardinality(1..Len(list)) = IF 1 > Len(list) THEN 0 ELSE Len(list) - 1 + 1
  BY <1>1, FS_Interval, SMTT(30)
<1>3. list \in Injection(1..Len(list), Range(list))
  BY <1>1 DEF NoRepeat, Injection, IsInjective, Range
<1>4. list \in Surjection(1..Len(list), Range(list))
  BY <1>1 DEF Surjection, Range
<1>5. Cardinality(Range(list)) = Cardinality(1..Len(list))
  BY <1>2, <1>3, <1>4, FS_Surjection
<1>6. QED BY <1>1, <1>2, <1>5

LEMMA DistinctHolds ==
    ASSUME NEW T, NEW list \in Seq(T)
    PROVE  /\ Distinct(list) \in Seq(T) /\ NoRepeat(Distinct(list))
           /\ \A x : Holds(Distinct(list), x) <=> Holds(list, x)
<1> DEFINE N == Len(list)
           Turn(h) == [n \in 0..N |-> IF n = 0 THEN <<>>
                                      ELSE IF \E i \in 1..Len(h[n - 1]) : h[n - 1][i] = list[n]
                                           THEN h[n - 1]
                                      ELSE Append(h[n - 1], list[n])]
           first == CHOOSE h : h = Turn(h)
           Lists == Seq(T)
           next == [p \in Nat \X Lists |->
                      IF p[1] \in 1..N /\ ~(\E i \in 1..Len(p[2]) : p[2][i] = list[p[1]])
                      THEN Append(p[2], list[p[1]]) ELSE p[2]]
<1>0. N \in Nat /\ \A n \in 1..N : list[n] \in T OBVIOUS
<1>1. Distinct(list) = first[N] BY DEF Distinct
<1>2. \E h : h = Turn(h)
  <2>1. next \in [Nat \X Lists -> Lists] /\ <<>> \in Lists BY <1>0
  <2> HIDE DEF next
  <2>2. PICK f : Unfolds(f, <<>>, next, Lists, N)
    <3> HIDE DEF Lists, N
    <3>1. QED BY <1>0, <2>1, RecursionUnfolds
  <2>3. f \in [0..N -> Lists] BY <2>2 DEF Unfolds
  <2>4. ASSUME NEW i \in 1..N
        PROVE  next[<<i, f[i - 1]>>]
                  = IF \E k \in 1..Len(f[i - 1]) : f[i - 1][k] = list[i]
                    THEN f[i - 1] ELSE Append(f[i - 1], list[i])
    <3>1. i - 1 \in 0..N /\ i \in Nat BY <1>0
    <3>2. f[i - 1] \in Lists BY <2>3, <3>1
    <3> HIDE DEF Lists, N
    <3>3. QED BY <3>1, <3>2 DEF next
  <2>5. f = Turn(f)
    <3>1. \A i \in 0..N : i # 0 => i \in 1..N BY <1>0
    <3>2. Turn(f) = [i \in 0..N |-> IF i = 0 THEN <<>> ELSE next[<<i, f[i - 1]>>]]
      BY <2>4, <3>1
    <3> HIDE DEF Turn, N
    <3>3. QED BY <2>2, <3>2 DEF Unfolds
  <2> HIDE DEF Turn
  <2>6. QED BY <2>5
<1> HIDE DEF Turn
<1>3. first = Turn(first) BY <1>2
<1> HIDE DEF first
<1>4. \A n \in 0..N : first[n] = IF n = 0 THEN <<>>
                                ELSE IF \E i \in 1..Len(first[n - 1]) : first[n - 1][i] = list[n]
                                     THEN first[n - 1]
                                ELSE Append(first[n - 1], list[n])
  BY <1>3 DEF Turn
<1> DEFINE Right(n) ==
              /\ first[n] \in Seq(T) /\ NoRepeat(first[n])
              /\ \A x : Holds(first[n], x) <=> \E i \in 1..n : list[i] = x
           D == {n \in Nat : n <= N => Right(n)}
<1> HIDE DEF N
<1>5. 0 \in D
  <2>1. first[0] = <<>> BY <1>0, <1>4
  <2>2. Right(0) BY <2>1 DEF Holds, NoRepeat
  <2>3. QED BY <2>2
<1>6. ASSUME NEW n \in Nat, n \in D PROVE n + 1 \in D
  <2> SUFFICES ASSUME n + 1 <= N PROVE Right(n + 1)
    OBVIOUS
  <2>1. Right(n) /\ n + 1 \in 1..N /\ n + 1 \in 0..N /\ (n + 1) - 1 = n BY <1>0, <1>6
  <2>2. \A i \in 1..(n + 1) : i = n + 1 \/ i \in 1..n BY <1>0
  <2>0. n + 1 \in 0..N /\ n + 1 # 0 /\ (n + 1) - 1 = n BY <1>0
  <2>3. first[n + 1] = IF Holds(first[n], list[n + 1]) THEN first[n]
                      ELSE Append(first[n], list[n + 1])
    BY <1>4, <2>0 DEF Holds
  <2>4. CASE Holds(first[n], list[n + 1])
    <3>1. first[n + 1] = first[n] BY <2>3, <2>4
    <3>2. QED BY <2>1, <2>2, <2>4, <3>1
  <2>5. CASE ~Holds(first[n], list[n + 1])
    <3>1. first[n + 1] = Append(first[n], list[n + 1]) BY <2>3, <2>5
    <3>2. first[n] \in Seq(T) /\ list[n + 1] \in T BY <1>0, <2>1
    <3>3. \A x : Holds(Append(first[n], list[n + 1]), x) <=> Holds(first[n], x) \/ x = list[n + 1]
      BY <3>2, AppendHolds
    <3>4. NoRepeat(Append(first[n], list[n + 1])) BY <2>1, <2>5, <3>2, AppendNoRepeat
    <3>5. first[n + 1] \in Seq(T) BY <3>1, <3>2
    <3>6. QED BY <2>1, <2>2, <3>1, <3>3, <3>4, <3>5
  <2>6. QED BY <2>4, <2>5
<1> HIDE DEF D
<1>7. \A n \in Nat : n \in D BY <1>5, <1>6, SetInduction
<1>8. Right(N)
  <2> HIDE DEF Right
  <2>1. QED BY <1>0, <1>7 DEF D
<1>9. QED BY <1>1, <1>8 DEF Holds, N

===============================================================================
