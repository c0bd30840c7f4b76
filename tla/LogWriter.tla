------------------------------ MODULE LogWriter ------------------------------
(***************************************************************************)
(* The capture writer (logwriter.py) of one service and the files it keeps *)
(* in the log directory: <service>.log, here file 0, and its rotated       *)
(* segments <service>.log.1, .2, ...  A step is one call on the file       *)
(* system.  The writer may die between any two of them (its pane is killed,*)
(* SIGTERM raises SystemExit, the machine stops) and is started anew with  *)
(* the service.  The manifest does not change meanwhile.                   *)
(***************************************************************************)
EXTENDS Integers, Sequences

CONSTANTS
    Ladders,        \* the values max_rotations may have in the manifest
    Top,            \* the largest of them
    RotateSize,     \* --rotate-size, in bytes
    Sizes,          \* the sizes a persisted line may have
    MaxLines        \* BOUND: lines the service prints

Slots == 0..Top

ASSUME LogConstants ==
    /\ Top \in Nat /\ Ladders \subseteq 0..Top
    /\ RotateSize \in Nat \ {0}
    /\ Sizes \subseteq Nat \ {0}
    /\ MaxLines \in Nat

VARIABLES
    exists,    \* the files that exist
    text,      \* file -> its lines; <<>> for a file that does not exist
    printed,   \* how many lines the writer has read from the service
    written,   \* the last of them that was written to disk, 0 if none
    writer     \* the writer process

files == <<exists, text>>
logVars == <<exists, text, printed, written, writer>>

Line == [no : Nat \ {0}, size : Nat \ {0}]
NoLine == [no |-> 0, size |-> 0]

WriterPC == {"off", "discard", "drop", "shift", "open", "loop", "write"}

(* max is max_rotations; size is current_size; line the entry being        *)
(* handled; n the ladder's index.                                          *)
WriterType == [pc : WriterPC, max : Ladders, n : Slots, size : Nat,
               line : Line \union {NoLine}]

LogTypeOK ==
    /\ exists \in SUBSET Slots
    /\ text \in [Slots -> Seq(Line)]
    /\ printed \in Nat
    /\ written \in Nat
    /\ writer \in WriterType

LogInit ==
    /\ exists = {}
    /\ text = [s \in Slots |-> <<>>]
    /\ printed = 0
    /\ written = 0
    /\ \E m \in Ladders :
          writer = [pc |-> "off", max |-> m, n |-> 0, size |-> 0, line |-> NoLine]

-----------------------------------------------------------------------------
Writes(label) == writer.pc = label

Unlink(s) ==
    /\ exists' = exists \ {s}
    /\ text' = [text EXCEPT ![s] = <<>>]

(* Path.rename replaces the destination.                                   *)
Rename(from, to) ==
    /\ exists' = (exists \ {from}) \union {to}
    /\ text' = [s \in Slots |-> IF s = to THEN text[from]
                                ELSE IF s = from THEN <<>> ELSE text[s]]

(* Where a call of rotate begins.                                          *)
RotateFrom == IF writer.max = 0 THEN "discard" ELSE "drop"

(* run: a non-empty active file is rotated away before the loop.           *)
StartWriter ==
    /\ Writes("off") /\ printed < MaxLines
    /\ writer' = [writer EXCEPT
                    !.pc = IF text[0] # <<>> THEN RotateFrom ELSE "open",
                    !.size = 0, !.line = NoLine]
    /\ UNCHANGED <<exists, text, printed, written>>

(* rotate with no segments to keep.                                        *)
RotateDiscard ==
    /\ Writes("discard")
    /\ Unlink(0)
    /\ writer' = [writer EXCEPT !.pc = "open"]
    /\ UNCHANGED <<printed, written>>

(* Mutation of RotateDrop: the shift begins one lower.                     *)
RotateDropShort ==
    /\ Writes("drop")
    /\ Unlink(writer.max)
    /\ writer' = [writer EXCEPT !.pc = "shift",
                                !.n = IF writer.max = 1 THEN 0 ELSE writer.max - 2]
    /\ UNCHANGED <<printed, written>>

(* rotate: drop the oldest segment the ladder has room for.                *)
RotateDrop ==
    /\ Writes("drop")
    /\ Unlink(writer.max)
    /\ writer' = [writer EXCEPT !.pc = "shift", !.n = writer.max - 1]
    /\ UNCHANGED <<printed, written>>

(* rotate: one turn of the loop, `if src.exists(): src.rename(dst)`.       *)
RotateShift ==
    /\ Writes("shift") /\ writer.n > 0
    /\ IF writer.n \in exists
       THEN Rename(writer.n, writer.n + 1)
       ELSE UNCHANGED files
    /\ writer' = [writer EXCEPT !.n = @ - 1]
    /\ UNCHANGED <<printed, written>>

(* Mutation of RotateMove: the active file is copied.                      *)
RotateMoveCopying ==
    /\ Writes("shift") /\ writer.n = 0
    /\ exists' = exists \union {1}
    /\ text' = [text EXCEPT ![1] = text[0]]
    /\ writer' = [writer EXCEPT !.pc = "open"]
    /\ UNCHANGED <<printed, written>>

(* rotate: the active file becomes the newest segment.                     *)
RotateMove ==
    /\ Writes("shift") /\ writer.n = 0
    /\ IF 0 \in exists THEN Rename(0, 1) ELSE UNCHANGED files
    /\ writer' = [writer EXCEPT !.pc = "open"]
    /\ UNCHANGED <<printed, written>>

(* _open_log, after which a pending entry is written.                      *)
OpenLog ==
    /\ Writes("open")
    /\ exists' = exists \union {0}
    /\ writer' = [writer EXCEPT !.size = 0,
                    !.pc = IF writer.line = NoLine THEN "loop" ELSE "write"]
    /\ UNCHANGED <<text, printed, written>>

(* Mutation of ReadLine: no check before the write.                        *)
ReadLineUnchecked ==
    /\ Writes("loop") /\ printed < MaxLines
    /\ printed' = printed + 1
    /\ \E z \in Sizes :
          writer' = [writer EXCEPT !.line = [no |-> printed + 1, size |-> z],
                                   !.pc = "write"]
    /\ UNCHANGED <<exists, text, written>>

(* One line of the service, echoed to the pane; the pre-write check.       *)
ReadLine ==
    /\ Writes("loop") /\ printed < MaxLines
    /\ printed' = printed + 1
    /\ \E z \in Sizes :
          writer' = [writer EXCEPT
                       !.line = [no |-> printed + 1, size |-> z],
                       !.pc = IF writer.size > 0 /\ writer.size + z > RotateSize
                              THEN RotateFrom ELSE "write"]
    /\ UNCHANGED <<exists, text, written>>

(* write and flush through the open handle, then the post-write check.     *)
WriteLine ==
    /\ Writes("write")
    /\ text' = [text EXCEPT ![0] = Append(@, writer.line)]
    /\ written' = writer.line.no
    /\ writer' = [writer EXCEPT
                    !.size = @ + writer.line.size, !.line = NoLine,
                    !.pc = IF writer.size + writer.line.size > RotateSize
                           THEN RotateFrom ELSE "loop"]
    /\ UNCHANGED <<exists, printed>>

(* Mutation of StopWriter: lines are not flushed one by one.               *)
StopWriterUnflushed ==
    /\ ~Writes("off")
    /\ writer' = [writer EXCEPT !.pc = "off"]
    /\ text' = [text EXCEPT ![0] = SubSeq(@, 1, Len(@) - 1)]
    /\ UNCHANGED <<exists, printed, written>>

(* End of input, a signal or a crash.                                      *)
StopWriter ==
    /\ ~Writes("off")
    /\ writer' = [writer EXCEPT !.pc = "off"]
    /\ UNCHANGED <<exists, text, printed, written>>

WriterStep ==
    \/ StartWriter \/ RotateDiscard \/ RotateDrop \/ RotateShift \/ RotateMove
    \/ OpenLog \/ ReadLine \/ WriteLine \/ StopWriter

LogSpec == LogInit /\ [][WriterStep]_logVars

-----------------------------------------------------------------------------
Bytes(lines) ==
    LET sum[i \in 0..Len(lines)] == IF i = 0 THEN 0 ELSE sum[i-1] + lines[i].size
    IN  sum[Len(lines)]

LinesOf(s) == {text[s][i] : i \in 1..Len(text[s])}
Kept == UNION {LinesOf(s) : s \in Slots}
KeptNumbers == {l.no : l \in Kept}

(* A higher-numbered file holds older lines, and every file holds its      *)
(* lines in the order they were printed, wherever the writer died.         *)
SegmentsOrdered ==
    /\ \A m, n \in Slots : m < n =>
          \A i \in 1..Len(text[m]), j \in 1..Len(text[n]) :
              text[n][j].no < text[m][i].no
    /\ \A n \in Slots : \A i, j \in 1..Len(text[n]) :
          i < j => text[n][i].no < text[n][j].no

(* No file outgrows the rotation size, unless one line alone does.         *)
SizesBounded ==
    \A n \in Slots : Len(text[n]) > 1 => Bytes(text[n]) <= RotateSize

(* A file that holds lines is appended to, removed or renamed away, never  *)
(* overwritten by another one.                                             *)
NeverOverwrites ==
    [][\A n \in Slots :
          text'[n] # <<>> => SubSeq(text'[n], 1, Len(text[n])) = text[n]]_logVars

(* "Zero disables rotation (unbounded growth)": with max_rotations 0, no   *)
(* line that was written is ever lost.                                     *)
ZeroKeepsEverything ==
    [][writer.max = 0 => KeptNumbers \subseteq KeptNumbers']_logVars

(* The promise of BoundedLog, with what is on disk as the kept lines.      *)
Promise == INSTANCE BoundedLog WITH last <- written, kept <- KeptNumbers
KeepsPromise == Promise!Spec

=============================================================================
