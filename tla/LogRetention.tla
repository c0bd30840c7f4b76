----------------------------- MODULE LogRetention -----------------------------
(***************************************************************************)
(* The log directory of one service with everything that uses it: the      *)
(* writer, a reader, and the prune pass that `up` runs before it creates   *)
(* the session.  The pass looks at all rotated segments first              *)
(* (rotated_segments, _segments_to_prune) and deletes by name afterwards.  *)
(***************************************************************************)
EXTENDS LogReader

CONSTANTS
    ConcurrentUps,  \* another up may start the service during the pass
    Retentions      \* retention_seconds, as the manifest may set it

ASSUME RetentionAssumption == Retentions \subseteq Nat

VARIABLE pruner

retentionVars == <<exists, text, printed, written, writer, reader, pruner>>

(* retention is the pass's retention_seconds; cutoff is a moment: every    *)
(* line numbered below it is older.  Only rotated segments may be listed   *)
(* for deletion.                                                           *)
RetentionTypeOK ==
    /\ LogTypeOK
    /\ reader \in ReaderType
    /\ pruner \in [pc : {"idle", "delete", "done"}, retention : Nat,
                   cutoff : Nat, doomed : SUBSET (Slots \ {0})]

RetentionInit ==
    /\ ReadInit
    /\ pruner = [pc |-> "idle", retention |-> 0, cutoff |-> 0, doomed |-> {}]

LastNo(s) == text[s][Len(text[s])].no

(* clock.now() - retention_seconds: some moment before now, or now itself, *)
(* which every line was printed before.                                    *)
Cutoffs(retention) == IF retention = 0 THEN {printed + 1} ELSE 1..printed + 1

(* Mutation of PruneScan: every file of the service is listed.             *)
PruneScanAll ==
    /\ pruner.pc = "idle" /\ Writes("off")
    /\ \E r \in Retentions : \E c \in Cutoffs(r) :
          pruner' = [pc |-> "delete", retention |-> r, cutoff |-> c, doomed |->
                       {s \in exists : text[s] # <<>> /\ LastNo(s) < c}]
    /\ UNCHANGED readVars

(* Mutation of PruneScan: a segment's age is that of its first line.       *)
PruneScanFirstLine ==
    /\ pruner.pc = "idle" /\ Writes("off")
    /\ \E r \in Retentions : \E c \in Cutoffs(r) :
          pruner' = [pc |-> "delete", retention |-> r, cutoff |-> c, doomed |->
                       {s \in exists \ {0} : text[s] # <<>> /\ text[s][1].no < c}]
    /\ UNCHANGED readVars

(* _prune: there is no session; list the segments whose mtime, the moment  *)
(* of their last line, lies before the cutoff.                             *)
PruneScan ==
    /\ pruner.pc = "idle" /\ Writes("off")
    /\ \E r \in Retentions : \E c \in Cutoffs(r) :
          pruner' = [pc |-> "delete", retention |-> r, cutoff |-> c, doomed |->
                       {s \in exists \ {0} : text[s] # <<>> /\ LastNo(s) < c}]
    /\ UNCHANGED readVars

(* Mutation of PruneDelete: the pass stops at the first deletion.          *)
PruneDeleteOne ==
    /\ pruner.pc = "delete" /\ pruner.doomed # {}
    /\ \E s \in pruner.doomed :
          /\ \A t \in pruner.doomed : s <= t
          /\ Unlink(s)
    /\ pruner' = [pruner EXCEPT !.doomed = {}]
    /\ UNCHANGED <<printed, written, writer, reader>>

(* _prune: delete one listed path, in the order of the listing.            *)
PruneDelete ==
    /\ pruner.pc = "delete" /\ pruner.doomed # {}
    /\ \E s \in pruner.doomed :
          /\ \A t \in pruner.doomed : s <= t
          /\ Unlink(s)
          /\ pruner' = [pruner EXCEPT !.doomed = @ \ {s}]
    /\ UNCHANGED <<printed, written, writer, reader>>

PruneDone ==
    /\ pruner.pc = "delete" /\ pruner.doomed = {}
    /\ pruner' = [pruner EXCEPT !.pc = "done"]
    /\ UNCHANGED readVars

RetentionNext ==
    \/ /\ ConcurrentUps \/ pruner.pc # "delete"
       /\ WriterBeside
       /\ UNCHANGED pruner
    \/ ReaderStep /\ UNCHANGED pruner
    \/ PruneScan \/ PruneDelete \/ PruneDone

RetentionSpec == RetentionInit /\ [][RetentionNext]_retentionVars

-----------------------------------------------------------------------------
(* "Deletes segments where mtime < clock.now() - retention_seconds": a     *)
(* prune pass deletes no line younger than its cutoff.                     *)
PrunesOnlyExpired ==
    [][pruner' # pruner =>
          \A l \in KeptNumbers \ KeptNumbers' : l < pruner.cutoff]_retentionVars

(* With a retention window, no rotated segment that had expired is left    *)
(* when the pass is over.                                                  *)
PrunesAllExpired ==
    [][pruner.pc = "delete" /\ pruner'.pc = "done" /\ pruner.retention > 0 =>
          \A s \in exists \ {0} : LastNo(s) >= pruner.cutoff]_retentionVars

(* "Zero disables time-based pruning": with retention_seconds = 0 a pass   *)
(* deletes no line.  The code takes 0 for a window of no length: all that  *)
(* was rotated away before this moment has expired.                        *)
ZeroRetentionKeeps ==
    [][pruner' # pruner /\ pruner.retention = 0 =>
          KeptNumbers \subseteq KeptNumbers']_retentionVars

=============================================================================
