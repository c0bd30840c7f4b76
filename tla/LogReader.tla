------------------------------ MODULE LogReader ------------------------------
(***************************************************************************)
(* `logs` of one FILE-mode service while its writer runs: the backlog is   *)
(* read segment by segment (segment_files, _gather_backlog), then          *)
(* follow_streams polls the active file from a byte offset.  A step is one *)
(* call on the file system; the writer never waits for the reader.         *)
(***************************************************************************)
EXTENDS LogWriter

VARIABLE reader

readVars == <<exists, text, printed, written, writer, reader>>

(* n is a segment number; listed: segment_files named the active file; got *)
(* what was emitted; quiet: no rotation ran since the reader started.      *)
ReaderType ==
    [ pc : {"idle", "probe", "active", "read", "tick", "fetch"}, n : Nat,
      listed : BOOLEAN, got : Seq([no : Nat, whole : BOOLEAN]),
      offset : Nat, quiet : BOOLEAN ]

ReadInit ==
    /\ LogInit
    /\ reader = [pc |-> "idle", n |-> 1, listed |-> FALSE, got |-> <<>>,
                 offset |-> 0, quiet |-> TRUE]

Reads(label) == reader.pc = label

-----------------------------------------------------------------------------
(* The lines after a byte offset.  An offset inside a line yields the rest *)
(* of that line as if it were one.                                         *)
After(lines, offset) ==
    LET Upto(i) == Bytes(SubSeq(lines, 1, i))
        passed == {i \in 0..Len(lines) : Upto(i) <= offset}
        k == CHOOSE i \in passed : \A j \in passed : j <= i
    IN  [i \in 1..(Len(lines) - k) |->
            [no |-> lines[k + i].no, whole |-> i > 1 \/ Upto(k) = offset]]

(* segment_files: the numbered segments, until one does not exist.         *)
ProbeSegment ==
    /\ Reads("idle") \/ Reads("probe")
    /\ reader' = IF reader.n \in exists
                 THEN [reader EXCEPT !.pc = "probe", !.n = @ + 1]
                 ELSE [reader EXCEPT !.pc = "active", !.n = @ - 1]
    /\ UNCHANGED logVars

(* segment_files: then the active file.                                    *)
ProbeActive ==
    /\ Reads("active")
    /\ reader' = [reader EXCEPT !.pc = "read", !.listed = 0 \in exists]
    /\ UNCHANGED logVars

(* Mutation of ReadSegment: the newest segment first.                      *)
ReadSegmentNewestFirst ==
    /\ Reads("read") /\ reader.n > 0
    /\ reader' = [reader EXCEPT !.n = @ - 1,
                    !.got = After(text[reader.n], 0) \o @]
    /\ UNCHANGED logVars

(* Mutation of ReadSegment: the listing ends before segment 1.             *)
ReadSegmentButFirst ==
    /\ Reads("read") /\ reader.n > 0
    /\ reader' = [reader EXCEPT !.n = @ - 1,
                    !.got = IF reader.n > 1 THEN @ \o After(text[reader.n], 0) ELSE @]
    /\ UNCHANGED logVars

(* read_lines of one segment, oldest first; nothing if it vanished.        *)
ReadSegment ==
    /\ Reads("read") /\ reader.n > 0
    /\ reader' = [reader EXCEPT !.n = @ - 1, !.got = @ \o After(text[reader.n], 0)]
    /\ UNCHANGED logVars

(* read_new_lines(active, 0), which seeds the offset to follow from.       *)
ReadActive ==
    /\ Reads("read") /\ reader.n = 0
    /\ reader' = IF reader.listed
                 THEN [reader EXCEPT !.pc = "tick", !.got = @ \o After(text[0], 0),
                                     !.offset = Bytes(text[0])]
                 ELSE [reader EXCEPT !.pc = "tick"]
    /\ UNCHANGED logVars

(* follow_streams: a file shorter than the offset is a fresh segment.      *)
TickSize ==
    /\ Reads("tick")
    /\ reader' = [reader EXCEPT !.pc = "fetch",
                    !.offset = IF Bytes(text[0]) < @ THEN 0 ELSE @]
    /\ UNCHANGED logVars

(* follow_streams: read_new_lines from the offset on.                      *)
TickRead ==
    /\ Reads("fetch")
    /\ reader' = [reader EXCEPT
                    !.pc = "tick",
                    !.got = @ \o After(text[0], reader.offset),
                    !.offset = IF Bytes(text[0]) > @ THEN Bytes(text[0]) ELSE @]
    /\ UNCHANGED logVars

ReaderStep ==
    \/ ProbeSegment \/ ProbeActive \/ ReadSegment \/ ReadActive
    \/ TickSize \/ TickRead

(* The writer beside a reader, which observes whether a rotation runs.     *)
WriterBeside ==
    /\ WriterStep
    /\ reader' = [reader EXCEPT !.quiet =
                    @ /\ (Reads("idle") \/ writer.pc \notin {"discard", "drop", "shift"})]

ReadNext == WriterBeside \/ ReaderStep

ReadSpec == ReadInit /\ [][ReadNext]_readVars

-----------------------------------------------------------------------------
Emitted == {reader.got[i].no : i \in 1..Len(reader.got)}

(* No line is emitted twice or after a later one, whatever the writer      *)
(* rotates away while the backlog is read and followed.                    *)
EmittedInOrder ==
    \A i, j \in 1..Len(reader.got) : i < j => reader.got[i].no < reader.got[j].no

(* While no rotation runs, everything on disk that is later than the first *)
(* line emitted is emitted, by the backlog if it listed the active file    *)
(* and by the next poll otherwise, and each line whole: nothing falls      *)
(* between the segments, the active file and the offset the follow loop is *)
(* seeded with and moves on from.  (After a rotation between two polls the *)
(* old offset may lie inside a line of the new file.)                      *)
QuietReadIsComplete ==
    [][/\ reader.quiet /\ reader'.pc = "tick"
       /\ Reads("fetch") \/ (Reads("read") /\ reader.listed)
       => /\ \A l \in KeptNumbers :
                (\E e \in Emitted' : e <= l) => l \in Emitted'
          /\ \A i \in 1..Len(reader'.got) : reader'.got[i].whole]_readVars

=============================================================================
