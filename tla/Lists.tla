-------------------------------- MODULE Lists --------------------------------
(***************************************************************************)
(* Folding, filtering, joining and dropping repeats: what FoldLeft,        *)
(* SelectSeq and FlattenSeq compute, as recursive functions that a proof   *)
(* can unfold.                                                             *)
(***************************************************************************)
EXTENDS Integers, Sequences

(* start, changed by Op for each member of the list in turn.               *)
Folded(Op(_, _), start, list) ==
    LET folded[n \in 0..Len(list)] ==
            IF n = 0 THEN start ELSE Op(folded[n - 1], list[n])
    IN  folded[Len(list)]

(* The members of the list that are in S.                                  *)
Filtered(list, S) ==
    LET kept[n \in 0..Len(list)] ==
            IF n = 0 THEN <<>>
            ELSE IF list[n] \in S THEN Append(kept[n - 1], list[n])
            ELSE kept[n - 1]
    IN  kept[Len(list)]

(* The lists of a list, one after the other.                               *)
Joined(lists) ==
    LET joined[n \in 0..Len(lists)] ==
            IF n = 0 THEN <<>> ELSE joined[n - 1] \o lists[n]
    IN  joined[Len(lists)]

(* The members of the list, each where it first occurs.                    *)
Distinct(list) ==
    LET first[n \in 0..Len(list)] ==
            IF n = 0 THEN <<>>
            ELSE IF \E i \in 1..Len(first[n - 1]) : first[n - 1][i] = list[n]
                 THEN first[n - 1]
            ELSE Append(first[n - 1], list[n])
    IN  first[Len(list)]

===============================================================================
