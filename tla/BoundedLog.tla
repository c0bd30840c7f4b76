------------------------------ MODULE BoundedLog ------------------------------
(***************************************************************************)
(* What the capture writer promises about one service's log: lines are     *)
(* kept in the order they were printed, and only the oldest are ever       *)
(* forgotten.  A line is the number under which the service printed it; a  *)
(* line may be lost for good when the writer dies before writing it.       *)
(***************************************************************************)
EXTENDS Integers

VARIABLES
    last,   \* the last line kept so far (0: none)
    kept    \* the lines that can still be read

Init == last = 0 /\ kept = {}

(* A later line is kept.                                                   *)
Keep ==
    /\ last' \in Nat /\ last' > last
    /\ kept' = kept \union {last'}

(* Lines are forgotten, none of them later than one that stays.            *)
Forget ==
    /\ kept' \subseteq kept
    /\ \A gone \in kept \ kept', l \in kept' : gone < l
    /\ UNCHANGED last

Next == Keep \/ Forget

Spec == Init /\ [][Next]_<<last, kept>>

=============================================================================
