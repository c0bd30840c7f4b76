------------------------------ MODULE LogProofs ------------------------------
(***************************************************************************)
(* Proofs about the log files of one service, for every ladder, rotation   *)
(* size and set of line sizes: LogWriter first (the segments stay in order *)
(* and within their size, none overwrites another, what is on disk behaves *)
(* as a BoundedLog, whatever the moment the writer dies), then LogReader   *)
(* and LogRetention (what a reader emits comes in order and, unless a      *)
(* rotation runs, complete; a prune pass deletes what has expired), and    *)
(* LogBacklog (what is printed is the newest end of what was asked for).   *)
(***************************************************************************)
EXTENDS LogRetention, LogBacklog, ListLemmas

(* The ladder while a rotation climbs it: the slot above the one to be     *)
(* moved is empty, and so is everything beyond the cap.                    *)
Ladder ==
    /\ \A s \in Slots : s \notin exists \/ s > writer.max => text[s] = <<>>
    /\ writer.pc \in {"drop", "shift"} => writer.max > 0
    /\ writer.pc = "discard" => writer.max = 0
    /\ writer.pc = "shift" => writer.n < writer.max /\ text[writer.n + 1] = <<>>
    /\ writer.pc \in {"loop", "write"} => 0 \in exists

(* Lines are numbered as they are read and written in that order.          *)
Numbering ==
    /\ written <= printed
    /\ \A s \in Slots : \A i \in 1..Len(text[s]) : text[s][i].no <= written
    /\ writer.pc # "off" /\ writer.line # NoLine =>
          writer.line.no = printed /\ written < printed
    /\ writer.pc = "write" => writer.line # NoLine
    /\ writer.pc = "loop" => writer.line = NoLine

LogInv == LogTypeOK /\ SegmentsOrdered /\ Ladder /\ Numbering

(* The slots are natural numbers, and appending to and looking into the   *)
(* files behaves as expected.                                              *)
LEMMA SlotFacts ==
    /\ 0 \in Slots /\ \A s \in Slots : s \in Nat
    /\ \A s, t \in Slots : s < t => s + 1 \in Slots
    /\ \A s \in Slots : s > 0 => s - 1 \in Slots
    /\ \A m \in Ladders : m \in Slots
BY LogConstants DEF Slots

LEMMA LogInvInit == LogInit => LogInv
<1> SUFFICES ASSUME LogInit PROVE LogInv
  OBVIOUS
<1>0. \A s \in Slots : text[s] = <<>> /\ Len(text[s]) = 0
  BY DEF LogInit
<1>1. PICK m \in Ladders :
         writer = [pc |-> "off", max |-> m, n |-> 0, size |-> 0, line |-> NoLine]
  BY DEF LogInit
<1>2. LogTypeOK
  <2>1. 0 \in Slots /\ "off" \in WriterPC /\ NoLine \in Line \union {NoLine}
    BY LogConstants DEF Slots, WriterPC
  <2>2. writer \in WriterType
    BY <1>1, <2>1 DEF WriterType
  <2>3. text \in [Slots -> Seq(Line)]
    BY DEF LogInit
  <2>4. QED BY <2>2, <2>3 DEF LogInit, LogTypeOK
<1>3. SegmentsOrdered
  BY <1>0 DEF SegmentsOrdered
<1>4. Ladder
  BY <1>0, <1>1 DEF Ladder
<1>5. Numbering
  BY <1>0, <1>1 DEF Numbering, LogInit
<1>6. QED BY <1>2, <1>3, <1>4, <1>5 DEF LogInv

(* Taking a file away keeps the order of the rest.                         *)
LEMMA UnlinkOrdered ==
    ASSUME LogInv, NEW s \in Slots, Unlink(s)
    PROVE  /\ SegmentsOrdered' /\ exists' \in SUBSET Slots
           /\ text' \in [Slots -> Seq(Line)] /\ text'[s] = <<>>
           /\ \A t \in Slots \ {s} : text'[t] = text[t]
<1>1. /\ exists' \in SUBSET Slots /\ text' \in [Slots -> Seq(Line)]
      /\ text'[s] = <<>> /\ Len(text'[s]) = 0
      /\ \A t \in Slots \ {s} : text'[t] = text[t]
  <2>1. text \in [Slots -> Seq(Line)] /\ exists \in SUBSET Slots
    BY DEF LogInv, LogTypeOK
  <2>2. text' = [text EXCEPT ![s] = <<>>] /\ exists' = exists \ {s}
    BY DEF Unlink
  <2>3. text' \in [Slots -> Seq(Line)]
    BY <2>1, <2>2
  <2>4. text'[s] = <<>> /\ Len(text'[s]) = 0
    BY <2>1, <2>2
  <2>5. QED BY <2>1, <2>2, <2>3, <2>4
<1>2. SegmentsOrdered'
  <2>1. ASSUME NEW m \in Slots, NEW n \in Slots, m < n, NEW i \in 1..Len(text'[m]),
               NEW j \in 1..Len(text'[n])
        PROVE  text'[n][j].no < text'[m][i].no
    <3>1. m # s /\ n # s
      BY <1>1, <2>1
    <3>2. QED BY <1>1, <2>1, <3>1 DEF LogInv, SegmentsOrdered
  <2>2. ASSUME NEW n \in Slots, NEW i \in 1..Len(text'[n]), NEW j \in 1..Len(text'[n]), i < j
        PROVE  text'[n][i].no < text'[n][j].no
    <3>1. n # s
      BY <1>1, <2>2
    <3>2. QED BY <1>1, <2>2, <3>1 DEF LogInv, SegmentsOrdered
  <2>3. QED BY <2>1, <2>2 DEF SegmentsOrdered
<1>3. QED BY <1>1, <1>2

(* So does moving a file one slot up, to where no file holds a line.       *)
LEMMA RenameOrdered ==
    ASSUME LogInv, NEW s \in Slots, s + 1 \in Slots, text[s + 1] = <<>>,
           Rename(s, s + 1)
    PROVE  /\ SegmentsOrdered' /\ exists' \in SUBSET Slots
           /\ text' \in [Slots -> Seq(Line)]
           /\ text'[s] = <<>> /\ text'[s + 1] = text[s]
           /\ \A t \in Slots \ {s, s + 1} : text'[t] = text[t]
<1>0. s \in Int /\ s # s + 1
  BY DEF Slots
<1>1. /\ exists' \in SUBSET Slots /\ text' \in [Slots -> Seq(Line)]
      /\ text'[s] = <<>> /\ Len(text'[s]) = 0 /\ text'[s + 1] = text[s]
      /\ \A t \in Slots \ {s, s + 1} : text'[t] = text[t]
  BY <1>0 DEF Rename, LogInv, LogTypeOK
<1> DEFINE From(t) == IF t = s + 1 THEN s ELSE t
<1>2. ASSUME NEW t \in Slots, text'[t] # <<>>
      PROVE  From(t) \in Slots /\ text'[t] = text[From(t)] /\ t # s
  BY <1>1, <1>2
<1>3. ASSUME NEW m \in Slots, NEW n \in Slots, m < n, NEW i \in 1..Len(text'[m]),
             NEW j \in 1..Len(text'[n])
      PROVE  text'[n][j].no < text'[m][i].no
  <2>1. text'[m] # <<>> /\ text'[n] # <<>>
    BY <1>3
  <2>2. From(m) < From(n)
    BY <1>0, <1>1, <1>2, <1>3, <2>1 DEF Slots
  <2>3. QED BY <1>2, <1>3, <2>1, <2>2 DEF LogInv, SegmentsOrdered
<1>4. ASSUME NEW n \in Slots, NEW i \in 1..Len(text'[n]), NEW j \in 1..Len(text'[n]), i < j
      PROVE  text'[n][i].no < text'[n][j].no
  <2>1. text'[n] # <<>>
    BY <1>4
  <2>2. QED BY <1>2, <1>4, <2>1 DEF LogInv, SegmentsOrdered
<1>5. SegmentsOrdered'
  BY <1>3, <1>4 DEF SegmentsOrdered
<1>6. QED BY <1>1, <1>5

(* Every step of the writer keeps the invariant.                           *)
LEMMA LogInvStep ==
    ASSUME LogInv, WriterStep
    PROVE  LogInv'
<1>0. /\ exists \in SUBSET Slots /\ text \in [Slots -> Seq(Line)]
      /\ printed \in Nat /\ written \in Nat /\ writer \in WriterType
      /\ writer.max \in Slots /\ writer.n \in Slots /\ writer.size \in Nat
      /\ 0 \in Slots /\ \A s \in Slots : s \in Nat
      /\ writer.line \in Line \union {NoLine} /\ NoLine.no = 0
  <2>1. LogTypeOK
    BY DEF LogInv
  <2>2. /\ writer.max \in Ladders /\ writer.n \in Slots /\ writer.size \in Nat
        /\ writer.line \in Line \union {NoLine}
    BY <2>1 DEF LogTypeOK, WriterType
  <2>3. NoLine.no = 0
    BY DEF NoLine
  <2>4. QED BY <2>1, <2>2, <2>3, SlotFacts DEF LogTypeOK
<1>p. ASSUME NEW l \in {"off", "discard", "drop", "shift", "open", "loop", "write"}
      PROVE  l \in WriterPC
  BY <1>p DEF WriterPC
<1>r. /\ RotateFrom \in {"discard", "drop"}
      /\ RotateFrom = "discard" => writer.max = 0
      /\ RotateFrom = "drop" => writer.max > 0
  BY <1>0 DEF RotateFrom
<1> USE DEF Writes
<1>1. CASE StartWriter
  <2> DEFINE l == IF text[0] # <<>> THEN RotateFrom ELSE "open"
  <2>0. writer' = [writer EXCEPT !.pc = l, !.size = 0, !.line = NoLine]
        /\ UNCHANGED <<exists, text, printed, written>>
    BY <1>1 DEF StartWriter
  <2>1. l \in {"discard", "drop", "open"} /\ (l = "discard" => writer.max = 0)
        /\ (l = "drop" => writer.max > 0)
    BY <1>0, <1>r
  <2> HIDE DEF l
  <2>2. /\ writer' \in WriterType /\ writer'.pc = l /\ writer'.max = writer.max
        /\ writer'.line = NoLine /\ writer'.n = writer.n
    BY <1>0, <1>p, <2>0, <2>1 DEF WriterType
  <2>3. Ladder' /\ Numbering'
    BY <2>0, <2>1, <2>2 DEF LogInv, Ladder, Numbering
  <2>4. QED BY <2>0, <2>2, <2>3 DEF LogInv, LogTypeOK, SegmentsOrdered
<1>2. CASE RotateDiscard
  <2>0. Unlink(0) /\ writer' = [writer EXCEPT !.pc = "open"] /\ UNCHANGED <<printed, written>>
        /\ writer.pc = "discard"
    BY <1>2 DEF RotateDiscard
  <2>1. /\ writer' \in WriterType /\ writer'.pc = "open" /\ writer'.max = writer.max
        /\ writer'.line = writer.line
    BY <1>0, <1>p, <2>0 DEF WriterType
  <2>2. /\ SegmentsOrdered' /\ exists' \in SUBSET Slots /\ exists' = exists \ {0}
        /\ text' \in [Slots -> Seq(Line)] /\ text'[0] = <<>> /\ Len(text'[0]) = 0
        /\ \A t \in Slots \ {0} : text'[t] = text[t]
    BY <1>0, <2>0, UnlinkOrdered DEF Unlink
  <2>3. Ladder'
    BY <1>0, <2>0, <2>1, <2>2 DEF LogInv, Ladder
  <2>4. Numbering'
    <3>1. \A s \in Slots : \A i \in 1..Len(text'[s]) : text'[s][i].no <= written
      <4> SUFFICES ASSUME NEW s \in Slots, NEW i \in 1..Len(text'[s])
                   PROVE  text'[s][i].no <= written
        OBVIOUS
      <4>1. s # 0
        BY <2>2
      <4>2. QED BY <2>2, <4>1 DEF LogInv, Numbering
    <3>2. QED BY <2>0, <2>1, <3>1 DEF LogInv, Numbering
  <2>5. QED BY <1>0, <2>0, <2>1, <2>2, <2>3, <2>4 DEF LogInv, LogTypeOK
<1>3. CASE RotateDrop
  <2>0. /\ Unlink(writer.max) /\ UNCHANGED <<printed, written>> /\ writer.pc = "drop"
        /\ writer' = [writer EXCEPT !.pc = "shift", !.n = writer.max - 1]
        /\ writer.max > 0
    BY <1>3 DEF RotateDrop, LogInv, Ladder
  <2>1. writer.max - 1 \in Slots
    BY <1>0, <2>0, SlotFacts
  <2>2. /\ writer' \in WriterType /\ writer'.pc = "shift" /\ writer'.max = writer.max
        /\ writer'.line = writer.line /\ writer'.n = writer.max - 1
    BY <1>0, <1>p, <2>0, <2>1 DEF WriterType
  <2>3. /\ SegmentsOrdered' /\ exists' \in SUBSET Slots /\ exists' = exists \ {writer.max}
        /\ text' \in [Slots -> Seq(Line)]
        /\ text'[writer.max] = <<>> /\ Len(text'[writer.max]) = 0
        /\ \A t \in Slots \ {writer.max} : text'[t] = text[t]
    BY <1>0, <2>0, UnlinkOrdered DEF Unlink
  <2>4. Ladder'
    <3>1. writer'.n + 1 = writer.max
      BY <1>0, <2>2
    <3>2. QED BY <1>0, <2>0, <2>2, <2>3, <3>1, SMTT(30) DEF LogInv, Ladder
  <2>5. Numbering'
    <3>1. \A s \in Slots : \A i \in 1..Len(text'[s]) : text'[s][i].no <= written
      <4> SUFFICES ASSUME NEW s \in Slots, NEW i \in 1..Len(text'[s])
                   PROVE  text'[s][i].no <= written
        OBVIOUS
      <4>1. s # writer.max
        BY <2>3
      <4>2. QED BY <2>3, <4>1 DEF LogInv, Numbering
    <3>2. QED BY <2>0, <2>2, <3>1 DEF LogInv, Numbering
  <2>6. QED BY <1>0, <2>0, <2>2, <2>3, <2>4, <2>5 DEF LogInv, LogTypeOK
<1>u. ASSUME NEW s \in Slots, s = writer.n, writer.pc = "shift",
             IF s \in exists THEN Rename(s, s + 1) ELSE UNCHANGED files
      PROVE  /\ SegmentsOrdered' /\ exists' \in SUBSET Slots
             /\ text' \in [Slots -> Seq(Line)] /\ text'[s] = <<>>
             /\ \A t \in Slots : t \notin exists' \/ t > writer.max => text'[t] = <<>>
             /\ \A t \in Slots : \A i \in 1..Len(text'[t]) : text'[t][i].no <= written
  <2>0. s < writer.max /\ text[s + 1] = <<>> /\ s + 1 \in Slots
    <3>1. s < writer.max /\ text[s + 1] = <<>>
      BY <1>u DEF LogInv, Ladder
    <3>2. QED BY <1>0, <3>1, SlotFacts
  <2>1. CASE s \in exists
    <3>1. /\ SegmentsOrdered' /\ exists' \in SUBSET Slots
          /\ exists' = (exists \ {s}) \union {s + 1}
          /\ text' \in [Slots -> Seq(Line)]
          /\ text'[s] = <<>> /\ text'[s + 1] = text[s]
          /\ \A t \in Slots \ {s, s + 1} : text'[t] = text[t]
      BY <1>u, <2>0, <2>1, RenameOrdered DEF Rename
    <3>2. \A t \in Slots : t \notin exists' \/ t > writer.max => text'[t] = <<>>
      <4> SUFFICES ASSUME NEW t \in Slots, t \notin exists' \/ t > writer.max
                   PROVE  text'[t] = <<>>
        OBVIOUS
      <4>1. t # s + 1
        BY <1>0, <2>0, <3>1
      <4>2. CASE t = s
        BY <3>1, <4>2
      <4>3. CASE t # s
        BY <3>1, <4>1, <4>3 DEF LogInv, Ladder
      <4>4. QED BY <4>2, <4>3
    <3>3. \A t \in Slots : \A i \in 1..Len(text'[t]) : text'[t][i].no <= written
      <4> SUFFICES ASSUME NEW t \in Slots, NEW i \in 1..Len(text'[t])
                   PROVE  text'[t][i].no <= written
        OBVIOUS
      <4>1. t # s
        BY <3>1
      <4>2. QED BY <1>0, <1>u, <3>1, <4>1 DEF LogInv, Numbering
    <3>4. QED BY <3>1, <3>2, <3>3
  <2>2. CASE s \notin exists
    BY <1>0, <1>u, <2>2 DEF LogInv, Ladder, Numbering, SegmentsOrdered, files
  <2>3. QED BY <2>1, <2>2
<1>4. CASE RotateShift
  <2> DEFINE s == writer.n
  <2>0. /\ writer.pc = "shift" /\ s > 0 /\ s \in Slots
        /\ writer' = [writer EXCEPT !.n = @ - 1] /\ UNCHANGED <<printed, written>>
        /\ IF s \in exists THEN Rename(s, s + 1) ELSE UNCHANGED files
    BY <1>0, <1>4 DEF RotateShift
  <2>1. writer.n - 1 \in Slots
    BY <1>0, <2>0, SlotFacts
  <2>2. /\ writer' \in WriterType /\ writer'.pc = "shift" /\ writer'.max = writer.max
        /\ writer'.line = writer.line /\ writer'.n = writer.n - 1
    BY <1>0, <2>0, <2>1 DEF WriterType
  <2>3. /\ SegmentsOrdered' /\ exists' \in SUBSET Slots
        /\ text' \in [Slots -> Seq(Line)] /\ text'[s] = <<>>
        /\ \A t \in Slots : t \notin exists' \/ t > writer.max => text'[t] = <<>>
        /\ \A t \in Slots : \A i \in 1..Len(text'[t]) : text'[t][i].no <= written
    BY <1>u, <2>0
  <2>4. writer'.n + 1 = s
    BY <1>0, <2>2
  <2>5. Ladder' /\ Numbering'
    <3>1. writer.n - 1 < writer.max
      BY <1>0, <2>0 DEF LogInv, Ladder
    <3>2. Ladder'
      BY <1>0, <2>0, <2>2, <2>3, <2>4, <3>1 DEF LogInv, Ladder
    <3>3. Numbering'
      BY <2>0, <2>2, <2>3 DEF LogInv, Numbering
    <3>4. QED BY <3>2, <3>3
  <2>6. QED BY <1>0, <2>0, <2>2, <2>3, <2>5 DEF LogInv, LogTypeOK
<1>5. CASE RotateMove
  <2>0. /\ writer.pc = "shift" /\ writer.n = 0
        /\ writer' = [writer EXCEPT !.pc = "open"] /\ UNCHANGED <<printed, written>>
        /\ IF 0 \in exists THEN Rename(0, 0 + 1) ELSE UNCHANGED files
    BY <1>5 DEF RotateMove
  <2>1. /\ writer' \in WriterType /\ writer'.pc = "open" /\ writer'.max = writer.max
        /\ writer'.line = writer.line
    BY <1>0, <1>p, <2>0 DEF WriterType
  <2>2. /\ SegmentsOrdered' /\ exists' \in SUBSET Slots
        /\ text' \in [Slots -> Seq(Line)]
        /\ \A t \in Slots : t \notin exists' \/ t > writer.max => text'[t] = <<>>
        /\ \A t \in Slots : \A i \in 1..Len(text'[t]) : text'[t][i].no <= written
    BY <1>0, <1>u, <2>0
  <2>3. Ladder' /\ Numbering'
    BY <2>0, <2>1, <2>2 DEF LogInv, Ladder, Numbering
  <2>4. QED BY <1>0, <2>0, <2>1, <2>2, <2>3 DEF LogInv, LogTypeOK
<1>6. CASE OpenLog
  <2> DEFINE l == IF writer.line = NoLine THEN "loop" ELSE "write"
  <2>0. /\ writer.pc = "open" /\ exists' = exists \union {0}
        /\ writer' = [writer EXCEPT !.size = 0, !.pc = l]
        /\ UNCHANGED <<text, printed, written>>
    BY <1>6 DEF OpenLog
  <2>1. /\ l \in {"loop", "write"} /\ (l = "write" <=> writer.line # NoLine)
    OBVIOUS
  <2> HIDE DEF l
  <2>2. /\ writer' \in WriterType /\ writer'.pc = l /\ writer'.max = writer.max
        /\ writer'.line = writer.line
    BY <1>0, <1>p, <2>0, <2>1 DEF WriterType
  <2>3. Ladder' /\ Numbering'
    BY <2>0, <2>1, <2>2 DEF LogInv, Ladder, Numbering
  <2>4. QED BY <1>0, <2>0, <2>2, <2>3 DEF LogInv, LogTypeOK, SegmentsOrdered
<1>7. CASE ReadLine
  <2>0. PICK z \in Sizes :
           writer' = [writer EXCEPT
                       !.line = [no |-> printed + 1, size |-> z],
                       !.pc = IF writer.size > 0 /\ writer.size + z > RotateSize
                              THEN RotateFrom ELSE "write"]
    BY <1>7 DEF ReadLine
  <2> DEFINE l == IF writer.size > 0 /\ writer.size + z > RotateSize
                  THEN RotateFrom ELSE "write"
             new == [no |-> printed + 1, size |-> z]
  <2>1. /\ l \in {"discard", "drop", "write"} /\ (l = "discard" => writer.max = 0)
        /\ (l = "drop" => writer.max > 0)
    BY <1>0, <1>r
  <2>2. new \in Line /\ new # NoLine /\ new.no = printed + 1
    BY <1>0, LogConstants DEF Line, NoLine
  <2>3. writer' = [writer EXCEPT !.line = new, !.pc = l]
    BY <2>0
  <2> HIDE DEF l, new
  <2>4. /\ writer' \in WriterType /\ writer'.pc = l /\ writer'.max = writer.max
        /\ writer'.line = new
    BY <1>0, <1>p, <2>1, <2>2, <2>3 DEF WriterType
  <2>5. /\ printed' = printed + 1 /\ UNCHANGED <<exists, text, written>>
        /\ writer.pc = "loop"
    BY <1>7 DEF ReadLine
  <2>6. Ladder'
    BY <2>1, <2>4, <2>5 DEF LogInv, Ladder
  <2>7. Numbering'
    BY <1>0, <2>1, <2>2, <2>4, <2>5 DEF LogInv, Numbering
  <2>8. QED BY <1>0, <2>4, <2>5, <2>6, <2>7 DEF LogInv, LogTypeOK, SegmentsOrdered
<1>8. CASE WriteLine
  <2> DEFINE l == IF writer.size + writer.line.size > RotateSize
                  THEN RotateFrom ELSE "loop"
             size == writer.size + writer.line.size
  <2>0. /\ writer.pc = "write" /\ text' = [text EXCEPT ![0] = Append(text[0], writer.line)]
        /\ written' = writer.line.no /\ UNCHANGED <<exists, printed>>
        /\ writer' = [writer EXCEPT !.size = size, !.line = NoLine, !.pc = l]
    BY <1>8 DEF WriteLine
  <2>1. /\ l \in {"discard", "drop", "loop"} /\ (l = "discard" => writer.max = 0)
        /\ (l = "drop" => writer.max > 0)
    BY <1>0, <1>r, Zenon
  <2>2. /\ writer.line \in Line /\ writer.line.no = printed /\ written < printed
        /\ size \in Nat
    BY <1>0, <2>0 DEF LogInv, Numbering, Line
  <2> HIDE DEF l, size
  <2>3. /\ writer' \in WriterType /\ writer'.pc = l /\ writer'.max = writer.max
        /\ writer'.line = NoLine
    BY <1>0, <1>p, <2>0, <2>1, <2>2 DEF WriterType
  <2>4. /\ text' \in [Slots -> Seq(Line)] /\ Len(text'[0]) = Len(text[0]) + 1
        /\ text'[0][Len(text[0]) + 1] = writer.line
        /\ \A i \in 1..Len(text[0]) : text'[0][i] = text[0][i]
        /\ \A t \in Slots \ {0} : text'[t] = text[t]
    BY <1>0, <2>0, <2>2
  <2>n. ASSUME NEW t \in Slots, NEW i \in 1..Len(text'[t]),
               ~(t = 0 /\ i = Len(text[0]) + 1)
        PROVE  i \in 1..Len(text[t]) /\ text'[t][i] = text[t][i]
    <3>1. text[t] \in Seq(Line) /\ Len(text[t]) \in Nat
      BY <1>0
    <3>2. CASE t = 0
      BY <2>4, <2>n, <3>1, <3>2
    <3>3. CASE t # 0
      BY <2>4, <2>n, <3>3
    <3>4. QED BY <3>2, <3>3
  <2>5. \A t \in Slots : \A i \in 1..Len(text[t]) : text[t][i].no < printed /\ text[t][i].no \in Nat
    <3> SUFFICES ASSUME NEW t \in Slots, NEW i \in 1..Len(text[t])
                 PROVE  text[t][i].no < printed /\ text[t][i].no \in Nat
      OBVIOUS
    <3>1. text[t][i] \in Line
      BY <1>0
    <3>2. text[t][i].no \in Nat
      BY <3>1 DEF Line
    <3>3. text[t][i].no <= written
      BY DEF LogInv, Numbering
    <3>4. QED BY <1>0, <2>2, <3>2, <3>3
  <2>6. Ladder'
    BY <1>0, <2>0, <2>1, <2>3, <2>4 DEF LogInv, Ladder
  <2>7. Numbering'
    <3>1. \A t \in Slots : \A i \in 1..Len(text'[t]) : text'[t][i].no <= printed
      <4> SUFFICES ASSUME NEW t \in Slots, NEW i \in 1..Len(text'[t])
                   PROVE  text'[t][i].no <= printed
        OBVIOUS
      <4>1. CASE t = 0 /\ i = Len(text[0]) + 1
        BY <1>0, <2>2, <2>4, <4>1
      <4>2. CASE ~(t = 0 /\ i = Len(text[0]) + 1)
        <5>1. i \in 1..Len(text[t]) /\ text'[t][i] = text[t][i]
          BY <2>n, <4>2
        <5>2. QED BY <1>0, <2>5, <5>1
      <4>3. QED BY <4>1, <4>2
    <3>2. written' <= printed' /\ written' = printed /\ printed' = printed
      BY <1>0, <2>0, <2>2
    <3>3. \A t \in Slots : \A i \in 1..Len(text'[t]) : text'[t][i].no <= written'
      BY <3>1, <3>2
    <3>4. writer'.line = NoLine /\ writer'.pc # "write"
      BY <2>1, <2>3
    <3>5. QED BY <3>2, <3>3, <3>4 DEF Numbering
  <2>8. SegmentsOrdered'
    <3>1. ASSUME NEW m \in Slots, NEW n \in Slots, m < n, NEW i \in 1..Len(text'[m]),
                 NEW j \in 1..Len(text'[n])
          PROVE  text'[n][j].no < text'[m][i].no
      <4>1. n # 0 /\ text'[n] = text[n] /\ j \in 1..Len(text[n])
        BY <1>0, <2>4, <3>1, SMTT(30)
      <4>2. CASE m = 0 /\ i = Len(text[0]) + 1
        BY <2>2, <2>4, <2>5, <4>1, <4>2
      <4>3. CASE ~(m = 0 /\ i = Len(text[0]) + 1)
        <5>1. i \in 1..Len(text[m]) /\ text'[m][i] = text[m][i]
          BY <2>n, <4>3
        <5>2. QED BY <3>1, <4>1, <5>1 DEF LogInv, SegmentsOrdered
      <4>4. QED BY <4>2, <4>3
    <3>2. ASSUME NEW n \in Slots, NEW i \in 1..Len(text'[n]),
                 NEW j \in 1..Len(text'[n]), i < j
          PROVE  text'[n][i].no < text'[n][j].no
      <4>1. i \in 1..Len(text[n]) /\ text'[n][i] = text[n][i]
        <5>1. text[n] \in Seq(Line) /\ Len(text[n]) \in Nat
          BY <1>0
        <5>2. CASE n = 0
          BY <2>4, <3>2, <5>1, <5>2
        <5>3. CASE n # 0
          BY <2>4, <3>2, <5>3
        <5>4. QED BY <5>2, <5>3
      <4>2. CASE n = 0 /\ j = Len(text[0]) + 1
        BY <2>2, <2>4, <2>5, <4>1, <4>2
      <4>3. CASE ~(n = 0 /\ j = Len(text[0]) + 1)
        <5>1. j \in 1..Len(text[n]) /\ text'[n][j] = text[n][j]
          BY <2>n, <4>3
        <5>2. QED BY <3>2, <4>1, <5>1 DEF LogInv, SegmentsOrdered
      <4>4. QED BY <4>2, <4>3
    <3>3. QED BY <3>1, <3>2 DEF SegmentsOrdered
  <2>9. written' \in Nat
    BY <1>0, <2>0, <2>2
  <2>10. QED BY <1>0, <2>0, <2>3, <2>4, <2>6, <2>7, <2>8, <2>9 DEF LogInv, LogTypeOK
<1>9. CASE StopWriter
  <2>0. /\ writer' = [writer EXCEPT !.pc = "off"]
        /\ UNCHANGED <<exists, text, printed, written>>
    BY <1>9 DEF StopWriter
  <2>1. /\ writer' \in WriterType /\ writer'.pc = "off" /\ writer'.max = writer.max
    BY <1>0, <1>p, <2>0 DEF WriterType
  <2>2. Ladder' /\ Numbering'
    BY <2>0, <2>1 DEF LogInv, Ladder, Numbering
  <2>3. QED BY <2>0, <2>1, <2>2 DEF LogInv, LogTypeOK, SegmentsOrdered
<1>10. QED
  BY <1>1, <1>2, <1>3, <1>4, <1>5, <1>6, <1>7, <1>8, <1>9 DEF WriterStep

(* The invariant holds throughout.                                         *)
THEOREM LogInvariant == LogSpec => []LogInv
<1>1. LogInv /\ UNCHANGED logVars => LogInv'
  BY DEF LogInv, LogTypeOK, SegmentsOrdered, Ladder, Numbering, logVars
<1>2. LogInv /\ [WriterStep]_logVars => LogInv'
  BY <1>1, LogInvStep
<1>3. QED BY <1>2, LogInvInit, PTL DEF LogSpec

(* Higher-numbered segments hold older lines, wherever a writer died.      *)
THEOREM SegmentsStayOrdered == LogSpec => [](LogTypeOK /\ SegmentsOrdered)
<1>1. LogInv => LogTypeOK /\ SegmentsOrdered
  BY DEF LogInv
<1>2. QED BY <1>1, LogInvariant, PTL

-----------------------------------------------------------------------------
(* The refinement: what is on disk behaves as a BoundedLog.                *)

(* What KeptNumbers holds, before and after a step.                        *)
LEMMA KeptHas ==
    ASSUME NEW k
    PROVE  k \in KeptNumbers <=>
        \E s \in Slots : \E i \in 1..Len(text[s]) : k = text[s][i].no
BY DEF KeptNumbers, Kept, LinesOf

LEMMA KeptHasNext ==
    ASSUME NEW k
    PROVE  k \in KeptNumbers' <=>
        \E s \in Slots : \E i \in 1..Len(text'[s]) : k = text'[s][i].no
BY DEF KeptNumbers, Kept, LinesOf

(* Removing the oldest file there is only forgets the oldest lines.        *)
LEMMA UnlinkForgets ==
    ASSUME LogInv, NEW s \in Slots, Unlink(s), UNCHANGED written,
           \A t \in Slots : t > s => text[t] = <<>>
    PROVE  Promise!Forget
<1>0. /\ text'[s] = <<>> /\ Len(text'[s]) = 0
      /\ \A t \in Slots \ {s} : text'[t] = text[t]
      /\ \A t \in Slots : t \in Nat
  BY UnlinkOrdered, SlotFacts
<1>1. KeptNumbers' \subseteq KeptNumbers
  <2> SUFFICES ASSUME NEW k \in KeptNumbers' PROVE k \in KeptNumbers
    OBVIOUS
  <2>1a. PICK t \in Slots : \E i \in 1..Len(text'[t]) : k = text'[t][i].no
    BY KeptHasNext
  <2>1. PICK i \in 1..Len(text'[t]) : k = text'[t][i].no
    BY <2>1a
  <2>2. t # s
    BY <1>0, <2>1
  <2>3. QED BY <1>0, <2>1, <2>2, KeptHas
<1>2. ASSUME NEW gone \in KeptNumbers \ KeptNumbers', NEW l \in KeptNumbers'
      PROVE  gone < l
  <2>1a. PICK t \in Slots : \E i \in 1..Len(text[t]) : gone = text[t][i].no
    BY <1>2, KeptHas
  <2>1. PICK i \in 1..Len(text[t]) : gone = text[t][i].no
    BY <2>1a
  <2>2. t = s
    BY <1>0, <1>2, <2>1, KeptHasNext
  <2>3a. PICK u \in Slots : \E j \in 1..Len(text'[u]) : l = text'[u][j].no
    BY <1>2, KeptHasNext
  <2>3. PICK j \in 1..Len(text'[u]) : l = text'[u][j].no
    BY <2>3a
  <2>4. u # s /\ text'[u] = text[u]
    BY <1>0, <2>3
  <2>5. text[u] # <<>>
    BY <2>3, <2>4
  <2>6. u < s
    BY <1>0, <2>4, <2>5
  <2>7. QED BY <2>1, <2>2, <2>3, <2>4, <2>6 DEF LogInv, SegmentsOrdered
<1>3. QED BY <1>1, <1>2 DEF Promise!Forget

LEMMA RenameKeeps ==
    ASSUME LogInv, NEW s \in Slots, s + 1 \in Slots, text[s + 1] = <<>>,
           Rename(s, s + 1)
    PROVE  KeptNumbers' = KeptNumbers
<1>0. /\ text'[s] = <<>> /\ Len(text'[s]) = 0 /\ text'[s + 1] = text[s]
      /\ \A t \in Slots \ {s, s + 1} : text'[t] = text[t]
      /\ s # s + 1 /\ Len(text[s + 1]) = 0
  BY RenameOrdered, SlotFacts
<1>1. ASSUME NEW k \in KeptNumbers PROVE k \in KeptNumbers'
  <2>1a. PICK t \in Slots : \E i \in 1..Len(text[t]) : k = text[t][i].no
    BY KeptHas
  <2>1. PICK i \in 1..Len(text[t]) : k = text[t][i].no
    BY <2>1a
  <2>2. t # s + 1
    BY <1>0, <2>1
  <2>3. CASE t = s
    BY <1>0, <2>1, <2>3, KeptHasNext
  <2>4. CASE t # s
    BY <1>0, <2>1, <2>2, <2>4, KeptHasNext
  <2>5. QED BY <2>3, <2>4
<1>2. ASSUME NEW k \in KeptNumbers' PROVE k \in KeptNumbers
  <2>1a. PICK t \in Slots : \E i \in 1..Len(text'[t]) : k = text'[t][i].no
    BY KeptHasNext
  <2>1. PICK i \in 1..Len(text'[t]) : k = text'[t][i].no
    BY <2>1a
  <2>2. t # s
    BY <1>0, <2>1
  <2>3. CASE t = s + 1
    BY <1>0, <2>1, <2>3, KeptHas
  <2>4. CASE t # s + 1
    BY <1>0, <2>1, <2>2, <2>4, KeptHas
  <2>5. QED BY <2>3, <2>4
<1>3. QED BY <1>1, <1>2

LEMMA StepKeepsPromise ==
    ASSUME LogInv, WriterStep
    PROVE  Promise!Next \/ UNCHANGED <<written, KeptNumbers>>
<1>0. /\ text \in [Slots -> Seq(Line)] /\ writer.max \in Slots /\ writer.n \in Slots
      /\ printed \in Nat /\ written \in Nat
  BY SlotFacts DEF LogInv, LogTypeOK, WriterType
<1>s. ASSUME UNCHANGED <<text, written>> PROVE UNCHANGED <<written, KeptNumbers>>
  BY <1>s DEF KeptNumbers, Kept, LinesOf
<1>m. ASSUME NEW s \in Slots, s = writer.n, writer.pc = "shift", UNCHANGED written,
             IF s \in exists THEN Rename(s, s + 1) ELSE UNCHANGED files
      PROVE  UNCHANGED <<written, KeptNumbers>>
  <2>1. s < writer.max /\ text[s + 1] = <<>> /\ s + 1 \in Slots
    BY <1>0, <1>m, SlotFacts DEF LogInv, Ladder
  <2>2. QED BY <1>m, <1>s, <2>1, RenameKeeps DEF files
<1>1. CASE StartWriter \/ OpenLog \/ ReadLine \/ StopWriter
  BY <1>1, <1>s DEF StartWriter, OpenLog, ReadLine, StopWriter
<1>2. CASE RotateDiscard
  <2>1. \A t \in Slots : t > 0 => text[t] = <<>>
    BY <1>2, SlotFacts DEF RotateDiscard, Writes, LogInv, Ladder
  <2>2. Promise!Forget
    BY <1>2, <2>1, SlotFacts, UnlinkForgets DEF RotateDiscard
  <2>3. QED BY <2>2 DEF Promise!Next
<1>3. CASE RotateDrop
  <2>1. \A t \in Slots : t > writer.max => text[t] = <<>>
    BY DEF LogInv, Ladder
  <2>2. Promise!Forget
    BY <1>0, <1>3, <2>1, UnlinkForgets DEF RotateDrop
  <2>3. QED BY <2>2 DEF Promise!Next
<1>4. CASE RotateShift
  BY <1>0, <1>4, <1>m DEF RotateShift, Writes
<1>5. CASE RotateMove
  <2>1. IF 0 \in exists THEN Rename(0, 0 + 1) ELSE UNCHANGED files
    BY <1>5 DEF RotateMove
  <2>2. QED BY <1>0, <1>5, <1>m, <2>1 DEF RotateMove, Writes
<1>6. CASE WriteLine
  <2>1. /\ text' = [text EXCEPT ![0] = Append(text[0], writer.line)]
        /\ written' = writer.line.no /\ writer.pc = "write"
    BY <1>6 DEF WriteLine, Writes
  <2>2. /\ writer.line \in Line /\ writer.line.no = printed /\ written < printed
    BY <2>1 DEF LogInv, LogTypeOK, WriterType, Numbering
  <2>3. /\ Len(text'[0]) = Len(text[0]) + 1 /\ text'[0][Len(text[0]) + 1] = writer.line
        /\ \A i \in 1..Len(text[0]) : text'[0][i] = text[0][i]
        /\ \A t \in Slots \ {0} : text'[t] = text[t]
        /\ Len(text[0]) \in Nat
    BY <1>0, <2>1, <2>2, SlotFacts
  <2>4. ASSUME NEW k \in KeptNumbers PROVE k \in KeptNumbers'
    <3>1a. PICK t \in Slots : \E i \in 1..Len(text[t]) : k = text[t][i].no
      BY KeptHas
    <3>1. PICK i \in 1..Len(text[t]) : k = text[t][i].no
      BY <3>1a
    <3>2. i \in 1..Len(text'[t]) /\ text'[t][i] = text[t][i]
      BY <2>3, <3>1
    <3>3. QED BY <3>1, <3>2, KeptHasNext
  <2>5. writer.line.no \in KeptNumbers'
    <3>1. Len(text[0]) + 1 \in 1..Len(text'[0])
      BY <2>3
    <3>2. QED BY <2>3, <3>1, SlotFacts, KeptHasNext
  <2>6. ASSUME NEW k \in KeptNumbers', k # writer.line.no PROVE k \in KeptNumbers
    <3>1a. PICK t \in Slots : \E i \in 1..Len(text'[t]) : k = text'[t][i].no
      BY KeptHasNext
    <3>1. PICK i \in 1..Len(text'[t]) : k = text'[t][i].no
      BY <3>1a
    <3>2. CASE t = 0
      <4>1. i # Len(text[0]) + 1
        BY <2>3, <2>6, <3>1, <3>2
      <4>2. i \in 1..Len(text[0])
        BY <2>3, <3>1, <3>2, <4>1
      <4>3. QED BY <2>3, <3>1, <3>2, <4>2, KeptHas
    <3>3. CASE t # 0
      BY <2>3, <3>1, <3>3, KeptHas
    <3>4. QED BY <3>2, <3>3
  <2>7. KeptNumbers' = KeptNumbers \union {written'}
    BY <2>1, <2>4, <2>5, <2>6
  <2>8. written' \in Nat /\ written' > written
    BY <1>0, <2>1, <2>2
  <2>9. QED BY <2>7, <2>8 DEF Promise!Next, Promise!Keep
<1>7. QED
  BY <1>1, <1>2, <1>3, <1>4, <1>5, <1>6 DEF WriterStep

(* Lines come to the disk in the order they were printed, and only the     *)
(* oldest ever leave it, however often the writer dies in a rotation.      *)
THEOREM WriterKeepsPromise == LogSpec => KeepsPromise
<1>1. LogInit => Promise!Init
  <2> SUFFICES ASSUME LogInit PROVE Promise!Init
    OBVIOUS
  <2>1. \A s \in Slots : Len(text[s]) = 0
    BY DEF LogInit
  <2>2. KeptNumbers = {}
    BY <2>1, KeptHas
  <2>3. QED BY <2>2 DEF LogInit, Promise!Init
<1>2. LogInv /\ [WriterStep]_logVars => [Promise!Next]_<<written, KeptNumbers>>
  <2>1. UNCHANGED logVars => UNCHANGED <<written, KeptNumbers>>
    BY DEF logVars, KeptNumbers, Kept, LinesOf
  <2>2. QED BY <2>1, StepKeepsPromise
<1>3. QED BY <1>1, <1>2, LogInvariant, PTL DEF LogSpec, KeepsPromise, Promise!Spec

(* A rotation, complete or cut short, overwrites no file that holds lines. *)
THEOREM RotationOverwritesNothing == LogSpec => NeverOverwrites
<1> DEFINE Grows == \A n \in Slots :
              text'[n] # <<>> => SubSeq(text'[n], 1, Len(text[n])) = text[n]
<1>t. ASSUME LogInv PROVE text \in [Slots -> Seq(Line)]
  BY <1>t DEF LogInv, LogTypeOK
<1>s. ASSUME LogInv, NEW n \in Slots, text'[n] = text[n]
      PROVE  SubSeq(text'[n], 1, Len(text[n])) = text[n]
  BY <1>s, <1>t
<1>e. ASSUME LogInv, NEW n \in Slots, NEW x \in Seq(Line), text[n] = <<>>
      PROVE  SubSeq(x, 1, Len(text[n])) = text[n]
  BY <1>e
<1>m. ASSUME LogInv, NEW s \in Slots, s = writer.n, writer.pc = "shift",
             IF s \in exists THEN Rename(s, s + 1) ELSE UNCHANGED files
      PROVE  Grows
  <2>1. s < writer.max /\ text[s + 1] = <<>> /\ s + 1 \in Slots
    BY <1>m, SlotFacts DEF LogInv, Ladder, LogTypeOK, WriterType
  <2>2. CASE s \in exists
    <3>1. /\ text'[s] = <<>> /\ text'[s + 1] = text[s] /\ text[s] \in Seq(Line)
          /\ \A t \in Slots \ {s, s + 1} : text'[t] = text[t]
      BY <1>m, <1>t, <2>1, <2>2, RenameOrdered
    <3>2. QED BY <1>m, <1>s, <1>e, <2>1, <3>1
  <2>3. CASE s \notin exists
    BY <1>m, <1>s, <2>3 DEF files
  <2>4. QED BY <2>2, <2>3
<1>1. LogInv /\ WriterStep => Grows
  <2> SUFFICES ASSUME LogInv, WriterStep PROVE Grows
    OBVIOUS
  <2>0. writer.max \in Slots /\ writer.n \in Slots
    BY SlotFacts DEF LogInv, LogTypeOK, WriterType
  <2>1. CASE StartWriter \/ OpenLog \/ ReadLine \/ StopWriter
    BY <1>s, <2>1 DEF StartWriter, OpenLog, ReadLine, StopWriter
  <2>2. CASE RotateDiscard \/ RotateDrop
    <3>1. PICK s \in Slots : Unlink(s)
      BY <2>0, <2>2, SlotFacts DEF RotateDiscard, RotateDrop
    <3>2. text'[s] = <<>> /\ \A t \in Slots \ {s} : text'[t] = text[t]
      BY <3>1, UnlinkOrdered
    <3>3. QED BY <1>s, <3>2
  <2>3. CASE RotateShift
    BY <1>m, <2>0, <2>3 DEF RotateShift, Writes
  <2>4. CASE RotateMove
    <3>1. IF 0 \in exists THEN Rename(0, 0 + 1) ELSE UNCHANGED files
      BY <2>4 DEF RotateMove
    <3>2. QED BY <1>m, <2>0, <2>4, <3>1 DEF RotateMove, Writes
  <2>5. CASE WriteLine
    <3>1. text' = [text EXCEPT ![0] = Append(text[0], writer.line)]
      BY <2>5 DEF WriteLine
    <3>2. writer.line \in Line /\ text[0] \in Seq(Line)
      BY <1>t, <2>5, SlotFacts DEF WriteLine, Writes, LogInv, LogTypeOK, WriterType, Numbering
    <3>3. SubSeq(Append(text[0], writer.line), 1, Len(text[0])) = text[0]
      BY <3>2
    <3>4. ASSUME NEW n \in Slots
          PROVE  SubSeq(text'[n], 1, Len(text[n])) = text[n]
      <4>1. CASE n = 0
        BY <1>t, <3>1, <3>3, <4>1
      <4>2. CASE n # 0
        BY <1>s, <1>t, <3>1, <4>2
      <4>3. QED BY <4>1, <4>2
    <3>5. QED BY <3>4
  <2>6. QED
    BY <2>1, <2>2, <2>3, <2>4, <2>5 DEF WriterStep
<1>2. LogInv /\ [WriterStep]_logVars => [Grows]_logVars
  BY <1>1
<1>3. QED BY <1>2, LogInvariant, PTL DEF LogSpec, NeverOverwrites

-----------------------------------------------------------------------------
(* The bytes of a file: the sum of the sizes of its lines.                 *)

(* f is the table of the sums of the first i sizes, i up to n.             *)
IsSum(f, lines, n) ==
    /\ f \in [0..n -> Nat]
    /\ f[0] = 0
    /\ \A i \in 1..n : f[i] = f[i - 1] + lines[i].size

LEMMA SizeOf ==
    ASSUME NEW lines \in Seq(Line), NEW i \in 1..Len(lines)
    PROVE  lines[i] \in Line /\ lines[i].size \in Nat \ {0} /\ lines[i].no \in Nat \ {0}
<1>1. lines[i] \in Line OBVIOUS
<1>2. QED BY <1>1 DEF Line

LEMMA SumExists ==
    ASSUME NEW lines \in Seq(Line)
    PROVE  \A n \in Nat : n <= Len(lines) => \E f : IsSum(f, lines, n)
<1> DEFINE T == {n \in Nat : n <= Len(lines) => \E f : IsSum(f, lines, n)}
<1>1. 0 \in T
  <2>1. IsSum([i \in 0..0 |-> 0], lines, 0) BY DEF IsSum
  <2>2. QED BY <2>1
<1>2. ASSUME NEW n \in Nat, n \in T PROVE n + 1 \in T
  <2> SUFFICES ASSUME n + 1 <= Len(lines) PROVE \E f : IsSum(f, lines, n + 1)
    OBVIOUS
  <2>1. PICK f : IsSum(f, lines, n) BY <1>2
  <2> DEFINE g == [i \in 0..(n + 1) |-> IF i = n + 1 THEN f[n] + lines[n + 1].size ELSE f[i]]
  <2>2. n + 1 \in 1..Len(lines) OBVIOUS
  <2>3. lines[n + 1].size \in Nat BY <2>2, SizeOf
  <2>4. IsSum(g, lines, n + 1) BY <2>1, <2>3 DEF IsSum
  <2>5. QED BY <2>4
<1> HIDE DEF T
<1>3. \A n \in Nat : n \in T BY <1>1, <1>2, SetInduction
<1>4. QED BY <1>3 DEF T

LEMMA SumUnique ==
    ASSUME NEW lines \in Seq(Line), NEW f, NEW g, NEW n \in Nat, NEW m \in Nat, m <= n,
           IsSum(f, lines, n), IsSum(g, lines, m)
    PROVE  \A i \in 0..m : f[i] = g[i]
<1> DEFINE T == {i \in Nat : i <= m => f[i] = g[i]}
<1>1. 0 \in T BY DEF IsSum
<1>2. ASSUME NEW i \in Nat, i \in T PROVE i + 1 \in T
  BY <1>2 DEF IsSum
<1> HIDE DEF T
<1>3. \A i \in Nat : i \in T BY <1>1, <1>2, SetInduction
<1>4. QED BY <1>3 DEF T

(* Bytes is the last of the sums.                                          *)
LEMMA BytesIsSum ==
    ASSUME NEW lines \in Seq(Line), NEW f, IsSum(f, lines, Len(lines))
    PROVE  Bytes(lines) = f[Len(lines)]
<1> DEFINE Turn(h) == [i \in 0..Len(lines) |-> IF i = 0 THEN 0 ELSE h[i - 1] + lines[i].size]
           sum == CHOOSE h : h = Turn(h)
<1>1. Bytes(lines) = sum[Len(lines)] BY DEF Bytes
<1>2. f = Turn(f) BY DEF IsSum
<1> HIDE DEF Turn
<1>3. sum = Turn(sum) BY <1>2
<1> HIDE DEF sum
<1> DEFINE T == {i \in Nat : i <= Len(lines) => sum[i] = f[i]}
<1>4. \A i \in 0..Len(lines) : sum[i] = IF i = 0 THEN 0 ELSE sum[i - 1] + lines[i].size
  BY <1>3 DEF Turn
<1>5. 0 \in T BY <1>4 DEF IsSum
<1>6. ASSUME NEW i \in Nat, i \in T PROVE i + 1 \in T
  BY <1>4, <1>6 DEF IsSum
<1> HIDE DEF T
<1>7. \A i \in Nat : i \in T BY <1>5, <1>6, SetInduction
<1>8. QED BY <1>1, <1>7 DEF T

(* The bytes of the first i lines, which is where line i + 1 begins.       *)
Upto(lines, i) == Bytes(SubSeq(lines, 1, i))

LEMMA UptoSums ==
    ASSUME NEW lines \in Seq(Line)
    PROVE  /\ Upto(lines, 0) = 0
           /\ \A i \in 0..Len(lines) : Upto(lines, i) \in Nat
           /\ \A i \in 1..Len(lines) : Upto(lines, i) = Upto(lines, i - 1) + lines[i].size
           /\ Upto(lines, Len(lines)) = Bytes(lines)
<1>1. PICK f : IsSum(f, lines, Len(lines)) BY SumExists
<1>2. ASSUME NEW i \in 0..Len(lines) PROVE Upto(lines, i) = f[i]
  <2> DEFINE first == SubSeq(lines, 1, i)
             g == [j \in 0..i |-> f[j]]
  <2>1. first \in Seq(Line) /\ Len(first) = i /\ \A j \in 1..i : first[j] = lines[j]
    OBVIOUS
  <2> HIDE DEF first
  <2>2. f \in [0..Len(lines) -> Nat] BY <1>1 DEF IsSum
  <2>3. g \in [0..i -> Nat] /\ g[0] = f[0] /\ g[i] = f[i] BY <2>2
  <2>4. \A j \in 1..i : g[j] = f[j] /\ g[j - 1] = f[j - 1] /\ j \in 1..Len(lines) OBVIOUS
  <2> HIDE DEF g
  <2>5. IsSum(g, first, i) BY <1>1, <2>1, <2>3, <2>4 DEF IsSum
  <2>6. Bytes(first) = g[i] BY <2>1, <2>5, BytesIsSum
  <2>7. QED BY <2>3, <2>6 DEF first, Upto
<1>3. SubSeq(lines, 1, Len(lines)) = lines /\ Len(lines) \in Nat OBVIOUS
<1>4. Upto(lines, Len(lines)) = Bytes(lines) BY <1>3 DEF Upto
<1>5. Upto(lines, 0) = 0 BY <1>1, <1>2, <1>3 DEF IsSum
<1>6. \A i \in 0..Len(lines) : f[i] \in Nat BY <1>1 DEF IsSum
<1>7. ASSUME NEW i \in 1..Len(lines) PROVE Upto(lines, i) = Upto(lines, i - 1) + lines[i].size
  <2>1. i \in 0..Len(lines) /\ i - 1 \in 0..Len(lines) BY <1>3
  <2>2. QED BY <1>1, <1>2, <2>1 DEF IsSum
<1>8. QED BY <1>2, <1>4, <1>5, <1>6, <1>7

LEMMA BytesEmpty == Bytes(<<>>) = 0
<1>1. <<>> \in Seq(Line) /\ SubSeq(<<>>, 1, 0) = <<>> OBVIOUS
<1>2. QED BY <1>1, UptoSums DEF Upto

LEMMA BytesAppend ==
    ASSUME NEW lines \in Seq(Line), NEW line \in Line
    PROVE  Bytes(Append(lines, line)) = Bytes(lines) + line.size
<1> DEFINE longer == Append(lines, line)
<1>1. /\ longer \in Seq(Line) /\ Len(longer) = Len(lines) + 1 /\ Len(lines) \in Nat
      /\ longer[Len(longer)] = line /\ SubSeq(longer, 1, Len(lines)) = lines
  OBVIOUS
<1> HIDE DEF longer
<1>2. Bytes(longer) = Upto(longer, Len(longer) - 1) + longer[Len(longer)].size
  BY <1>1, UptoSums
<1>3. Len(longer) - 1 = Len(lines) BY <1>1
<1>4. QED BY <1>1, <1>2, <1>3 DEF longer, Upto

(* Longer prefixes have more bytes, as no line is empty.                   *)
LEMMA UptoIncreases ==
    ASSUME NEW lines \in Seq(Line), NEW i \in 0..Len(lines), NEW j \in 0..Len(lines), i < j
    PROVE  Upto(lines, i) < Upto(lines, j)
<1> DEFINE T == {k \in Nat : i < k /\ k <= Len(lines) => Upto(lines, i) < Upto(lines, k)}
<1>1. ASSUME NEW k \in 0..Len(lines), k + 1 <= Len(lines)
      PROVE  /\ Upto(lines, k) \in Nat /\ Upto(lines, k + 1) \in Nat
             /\ Upto(lines, k) < Upto(lines, k + 1)
  <2>1. k + 1 \in 1..Len(lines) /\ k + 1 \in 0..Len(lines) /\ (k + 1) - 1 = k BY <1>1
  <2>2. lines[k + 1].size \in Nat \ {0} BY <2>1, SizeOf
  <2>3. Upto(lines, k) \in Nat /\ Upto(lines, k + 1) \in Nat BY <2>1, UptoSums
  <2>4. Upto(lines, k + 1) = Upto(lines, (k + 1) - 1) + lines[k + 1].size BY <2>1, UptoSums
  <2>5. QED BY <2>1, <2>2, <2>3, <2>4
<1>2. Len(lines) \in Nat OBVIOUS
<1>3. 0 \in T BY <1>2
<1>4. ASSUME NEW k \in Nat, k \in T PROVE k + 1 \in T
  <2> SUFFICES ASSUME i < k + 1, k + 1 <= Len(lines) PROVE Upto(lines, i) < Upto(lines, k + 1)
    OBVIOUS
  <2>1. k \in 0..Len(lines) BY <1>2
  <2>2. Upto(lines, k) \in Nat /\ Upto(lines, k + 1) \in Nat /\ Upto(lines, k) < Upto(lines, k + 1)
    BY <1>1, <2>1
  <2>3. CASE i = k BY <2>2, <2>3
  <2>4. CASE i < k
    <3>1. Upto(lines, i) < Upto(lines, k) BY <1>4, <2>1, <2>4
    <3>2. Upto(lines, i) \in Nat BY UptoSums
    <3>3. QED BY <2>2, <3>1, <3>2
  <2>5. QED BY <2>3, <2>4
<1> HIDE DEF T
<1>5. \A k \in Nat : k \in T BY <1>3, <1>4, SetInduction
<1>6. QED BY <1>2, <1>5 DEF T

-----------------------------------------------------------------------------
(* What a step does to the files: one loses its lines, one moves up to     *)
(* where no lines are, or the active one grows by a line just read.        *)
Empties(s) == text'[s] = <<>> /\ \A t \in Slots \ {s} : text'[t] = text[t]

Raises(s) ==
    /\ s + 1 \in Slots /\ text[s + 1] = <<>>
    /\ text'[s] = <<>> /\ text'[s + 1] = text[s]
    /\ \A t \in Slots \ {s, s + 1} : text'[t] = text[t]

Grows(line) ==
    /\ line \in Line /\ line.no > written /\ written' = line.no
    /\ text'[0] = Append(text[0], line) /\ \A t \in Slots \ {0} : text'[t] = text[t]

Rotating == writer.pc \in {"discard", "drop", "shift"}

LEMMA WriterEffect ==
    ASSUME LogInv, WriterStep
    PROVE  \/ UNCHANGED <<text, written>>
           \/ Rotating /\ UNCHANGED written /\ \E s \in Slots : Empties(s) \/ Raises(s)
           \/ writer.pc = "write" /\ Grows(writer.line)
<1>0. /\ text \in [Slots -> Seq(Line)] /\ writer.max \in Slots /\ writer.n \in Slots
      /\ printed \in Nat /\ written \in Nat /\ 0 \in Slots
  BY SlotFacts DEF LogInv, LogTypeOK, WriterType
<1>m. ASSUME NEW s \in Slots, s = writer.n, writer.pc = "shift",
             IF s \in exists THEN Rename(s, s + 1) ELSE UNCHANGED files
      PROVE  UNCHANGED text \/ Raises(s)
  <2>1. s < writer.max /\ text[s + 1] = <<>> /\ s + 1 \in Slots
    BY <1>0, <1>m, SlotFacts DEF LogInv, Ladder
  <2>2. CASE s \in exists BY <1>m, <2>1, <2>2, RenameOrdered DEF Raises
  <2>3. CASE s \notin exists BY <1>m, <2>3 DEF files
  <2>4. QED BY <2>2, <2>3
<1>1. CASE StartWriter \/ OpenLog \/ ReadLine \/ StopWriter
  BY <1>1 DEF StartWriter, OpenLog, ReadLine, StopWriter
<1>2. CASE RotateDiscard
  BY <1>0, <1>2, UnlinkOrdered DEF RotateDiscard, Writes, Rotating, Empties
<1>3. CASE RotateDrop
  BY <1>0, <1>3, UnlinkOrdered DEF RotateDrop, Writes, Rotating, Empties
<1>4. CASE RotateShift
  BY <1>0, <1>4, <1>m DEF RotateShift, Writes, Rotating
<1>5. CASE RotateMove
  <2>1. IF 0 \in exists THEN Rename(0, 0 + 1) ELSE UNCHANGED files
    BY <1>5 DEF RotateMove
  <2>2. QED BY <1>0, <1>5, <1>m, <2>1 DEF RotateMove, Writes, Rotating
<1>6. CASE WriteLine
  <2>1. /\ text' = [text EXCEPT ![0] = Append(text[0], writer.line)]
        /\ written' = writer.line.no /\ writer.pc = "write"
    BY <1>6 DEF WriteLine, Writes
  <2>2. /\ writer.line \in Line /\ writer.line.no = printed /\ written < printed
    BY <2>1 DEF LogInv, LogTypeOK, WriterType, Numbering
  <2>3. QED BY <1>0, <2>1, <2>2 DEF Grows
<1>7. QED
  BY <1>1, <1>2, <1>3, <1>4, <1>5, <1>6 DEF WriterStep

-----------------------------------------------------------------------------
(* SizesBounded relies on the writer's count of the active file's bytes,   *)
(* which is right while a line is read or written, and on the two checks.  *)
Counting ==
    /\ writer.pc \in {"loop", "write"} => writer.size = Bytes(text[0])
    /\ writer.pc = "write" => writer.size = 0 \/ writer.size + writer.line.size <= RotateSize
    /\ writer.pc = "open" => text[0] = <<>>
    /\ Rotating => text[0] # <<>>

(* A segment is a file that held lines when it was rotated away.           *)
NoEmptySegment == \A s \in exists \ {0} : text[s] # <<>>

SizeInv == SizesBounded /\ Counting /\ NoEmptySegment

LEMMA BytesOfSome ==
    ASSUME NEW lines \in Seq(Line), lines # <<>>
    PROVE  Bytes(lines) \in Nat /\ Bytes(lines) > 0
<1>1. Len(lines) \in Nat /\ Len(lines) > 0 OBVIOUS
<1>2. Upto(lines, 0) < Upto(lines, Len(lines)) BY <1>1, UptoIncreases
<1>3. Upto(lines, Len(lines)) \in Nat BY <1>1, UptoSums
<1>4. QED BY <1>2, <1>3, UptoSums

(* Files that only move or go stay as small as they were.                  *)
LEMMA SmallerFiles ==
    ASSUME SizesBounded, \E s \in Slots : Empties(s) \/ Raises(s)
    PROVE  SizesBounded'
<1>1. PICK s \in Slots : Empties(s) \/ Raises(s) OBVIOUS
<1>2. ASSUME NEW n \in Slots, Len(text'[n]) > 1 PROVE Bytes(text'[n]) <= RotateSize
  <2>1. text'[n] # <<>> BY <1>2
  <2>2. \E t \in Slots : text'[n] = text[t]
    BY <1>1, <2>1 DEF Empties, Raises
  <2>3. QED BY <1>2, <2>2 DEF SizesBounded
<1>3. QED BY <1>2 DEF SizesBounded

LEMMA CountingStep ==
    ASSUME LogInv, SizeInv, WriterStep
    PROVE  SizeInv'
<1>0. /\ text \in [Slots -> Seq(Line)] /\ writer \in WriterType /\ 0 \in Slots
      /\ writer.max \in Slots /\ writer.n \in Slots /\ writer.size \in Nat
      /\ text[0] \in Seq(Line) /\ exists \subseteq Slots
      /\ DOMAIN writer = {"pc", "max", "n", "size", "line"}
  BY SlotFacts DEF LogInv, LogTypeOK, WriterType
<1>r. RotateFrom \in {"discard", "drop"} BY DEF RotateFrom
<1>s. ASSUME UNCHANGED <<exists, text>>, Counting'
      PROVE  SizeInv'
  BY <1>s DEF SizeInv, SizesBounded, NoEmptySegment
<1>1. CASE StartWriter
  <2>1. /\ UNCHANGED <<exists, text>>
        /\ writer'.pc \in {"discard", "drop", "open"}
        /\ writer'.pc = "open" <=> text[0] = <<>>
    BY <1>0, <1>1, <1>r DEF StartWriter
  <2>2. QED BY <1>s, <2>1 DEF Counting, Rotating
<1>2. CASE RotateDiscard
  <2>1. exists' = exists \ {0} /\ text'[0] = <<>> /\ (\A t \in Slots \ {0} : text'[t] = text[t])
        /\ writer'.pc = "open" /\ Empties(0)
    BY <1>0, <1>2, UnlinkOrdered DEF RotateDiscard, Unlink, Empties
  <2>2. SizesBounded' BY <1>0, <2>1, SmallerFiles DEF SizeInv
  <2>3. NoEmptySegment' BY <1>0, <2>1 DEF SizeInv, NoEmptySegment
  <2>4. Counting' BY <2>1 DEF Counting, Rotating
  <2>5. QED BY <2>2, <2>3, <2>4 DEF SizeInv
<1>3. CASE RotateDrop
  <2> DEFINE m == writer.max
  <2>1. /\ exists' = exists \ {m} /\ text'[m] = <<>> /\ (\A t \in Slots \ {m} : text'[t] = text[t])
        /\ writer'.pc = "shift" /\ Empties(m) /\ Rotating
    BY <1>0, <1>3, UnlinkOrdered DEF RotateDrop, Unlink, Empties, Rotating, Writes
  <2>2. SizesBounded' BY <1>0, <2>1, SmallerFiles DEF SizeInv
  <2>3. NoEmptySegment' BY <1>0, <2>1 DEF SizeInv, NoEmptySegment
  <2>4. m # 0 BY <1>0, <1>3 DEF RotateDrop, Writes, LogInv, Ladder
  <2>5. Counting' BY <1>0, <2>1, <2>4 DEF SizeInv, Counting, Rotating
  <2>6. QED BY <2>2, <2>3, <2>5 DEF SizeInv
<1>m. ASSUME NEW s \in Slots, s = writer.n, writer.pc = "shift",
             IF s \in exists THEN Rename(s, s + 1) ELSE UNCHANGED files
      PROVE  /\ SizesBounded' /\ NoEmptySegment' /\ s + 1 \in Slots /\ s + 1 # 0
             /\ (UNCHANGED text /\ text[s] = <<>>) \/ Raises(s)
  <2>1. s < writer.max /\ text[s + 1] = <<>> /\ s + 1 \in Slots /\ s + 1 # 0 /\ s # s + 1
    BY <1>0, <1>m, SlotFacts DEF LogInv, Ladder
  <2>2. CASE s \in exists
    <3>1. Raises(s) BY <1>m, <2>1, <2>2, RenameOrdered DEF Raises
    <3>2. exists' = (exists \ {s}) \union {s + 1} BY <1>m, <2>2 DEF Rename
    <3>3. SizesBounded' BY <3>1, SmallerFiles DEF SizeInv
    <3>4. text[s] # <<>>
      BY <1>m, <2>2 DEF SizeInv, NoEmptySegment, Counting, Rotating
    <3>5. NoEmptySegment' BY <1>0, <2>1, <3>1, <3>2, <3>4 DEF SizeInv, NoEmptySegment, Raises
    <3>6. QED BY <2>1, <3>1, <3>3, <3>5
  <2>3. CASE s \notin exists
    BY <1>m, <2>1, <2>3 DEF files, SizeInv, SizesBounded, NoEmptySegment, LogInv, Ladder
  <2>4. QED BY <2>2, <2>3
<1>4. CASE RotateShift
  <2>1. /\ writer.n # 0 /\ writer.pc = "shift" /\ writer'.pc = "shift"
        /\ IF writer.n \in exists THEN Rename(writer.n, writer.n + 1) ELSE UNCHANGED files
    BY <1>0, <1>4 DEF RotateShift, Writes
  <2>2. text'[0] = text[0] BY <1>0, <1>m, <2>1 DEF Raises
  <2>3. Counting' BY <2>1, <2>2 DEF SizeInv, Counting, Rotating
  <2>4. QED BY <1>0, <1>m, <2>1, <2>3 DEF SizeInv
<1>5. CASE RotateMove
  <2>1. /\ writer.n = 0 /\ writer.pc = "shift" /\ writer'.pc = "open"
        /\ IF 0 \in exists THEN Rename(0, 0 + 1) ELSE UNCHANGED files
    BY <1>0, <1>5 DEF RotateMove, Writes
  <2>2. text'[0] = <<>> BY <1>0, <1>m, <2>1 DEF Raises
  <2>3. Counting' BY <2>1, <2>2 DEF Counting, Rotating
  <2>4. QED BY <1>0, <1>m, <2>1, <2>3 DEF SizeInv
<1>6. CASE OpenLog
  <2>1. /\ writer.pc = "open" /\ writer'.pc \in {"loop", "write"} /\ writer'.size = 0
        /\ UNCHANGED text /\ exists' = exists \union {0}
    BY <1>0, <1>6 DEF OpenLog, Writes
  <2>2. text[0] = <<>> BY <2>1 DEF SizeInv, Counting
  <2>3. Counting' BY <2>1, <2>2, BytesEmpty DEF Counting, Rotating
  <2>4. QED BY <2>1, <2>3 DEF SizeInv, SizesBounded, NoEmptySegment
<1>7. CASE ReadLine
  <2>1. PICK z \in Sizes :
           writer' = [writer EXCEPT
                       !.line = [no |-> printed + 1, size |-> z],
                       !.pc = IF writer.size > 0 /\ writer.size + z > RotateSize
                              THEN RotateFrom ELSE "write"]
    BY <1>7 DEF ReadLine
  <2>2. UNCHANGED <<exists, text>> /\ writer.pc = "loop" BY <1>7 DEF ReadLine, Writes
  <2>3. writer.size = Bytes(text[0]) BY <2>2 DEF SizeInv, Counting
  <2>4. CASE writer.size > 0 /\ writer.size + z > RotateSize
    <3>1. writer'.pc \in {"discard", "drop"} BY <1>0, <1>r, <2>1, <2>4
    <3>2. text[0] # <<>> BY <2>3, <2>4, BytesEmpty
    <3>3. QED BY <1>s, <2>2, <3>1, <3>2 DEF Counting, Rotating
  <2>5. CASE ~(writer.size > 0 /\ writer.size + z > RotateSize)
    <3>1. writer'.pc = "write" /\ writer'.size = writer.size /\ writer'.line.size = z
      BY <1>0, <2>1, <2>5
    <3>2. z \in Nat /\ RotateSize \in Nat BY LogConstants
    <3>3. writer.size = 0 \/ writer.size + z <= RotateSize BY <1>0, <2>5, <3>2
    <3>4. QED BY <1>s, <2>2, <2>3, <3>1, <3>3 DEF Counting, Rotating
  <2>6. QED BY <2>4, <2>5
<1>8. CASE WriteLine
  <2> DEFINE line == writer.line
             size == writer.size + line.size
  <2>1. /\ text' = [text EXCEPT ![0] = Append(text[0], line)] /\ writer.pc = "write"
        /\ writer' = [writer EXCEPT
                        !.size = @ + writer.line.size, !.line = NoLine,
                        !.pc = IF writer.size + writer.line.size > RotateSize
                               THEN RotateFrom ELSE "loop"]
        /\ UNCHANGED exists
    BY <1>8 DEF WriteLine, Writes
  <2>2. line \in Line /\ line.size \in Nat
    <3>1. line \in Line BY <2>1 DEF LogInv, LogTypeOK, WriterType, Numbering
    <3>2. QED BY <3>1 DEF Line
  <2>3. /\ writer'.size = size /\ writer'.pc \in {"discard", "drop", "loop"}
    BY <1>0, <1>r, <2>1
  <2>4. text'[0] = Append(text[0], line) /\ text'[0] # <<>>
        /\ Len(text'[0]) = Len(text[0]) + 1 /\ \A t \in Slots \ {0} : text'[t] = text[t]
    BY <1>0, <2>1, <2>2
  <2>5. writer.size = Bytes(text[0]) /\ (writer.size = 0 \/ size <= RotateSize)
    BY <2>1 DEF SizeInv, Counting
  <2>6. Bytes(text'[0]) = size BY <1>0, <2>2, <2>4, <2>5, BytesAppend
  <2>7. Counting' BY <2>3, <2>4, <2>6 DEF Counting, Rotating
  <2>8. SizesBounded'
    <3>1. ASSUME Len(text'[0]) > 1 PROVE Bytes(text'[0]) <= RotateSize
      <4>1. text[0] # <<>> BY <1>0, <2>4, <3>1
      <4>2. writer.size > 0 BY <1>0, <2>5, <4>1, BytesOfSome
      <4>3. QED BY <2>5, <2>6, <4>2
    <3>2. QED BY <2>4, <3>1 DEF SizeInv, SizesBounded
  <2>9. NoEmptySegment' BY <1>0, <2>1, <2>4 DEF SizeInv, NoEmptySegment
  <2>10. QED BY <2>7, <2>8, <2>9 DEF SizeInv
<1>9. CASE StopWriter
  <2>1. UNCHANGED <<exists, text>> /\ writer'.pc = "off" BY <1>0, <1>9 DEF StopWriter
  <2>2. QED BY <1>s, <2>1 DEF Counting, Rotating
<1>10. QED
  BY <1>1, <1>2, <1>3, <1>4, <1>5, <1>6, <1>7, <1>8, <1>9 DEF WriterStep

LEMMA CountingInit == LogInit => SizeInv
<1> SUFFICES ASSUME LogInit PROVE SizeInv
  OBVIOUS
<1>1. exists = {} /\ writer.pc = "off" /\ \A s \in Slots : Len(text[s]) = 0
  BY DEF LogInit
<1>2. QED BY <1>1 DEF SizeInv, SizesBounded, Counting, NoEmptySegment, Rotating

(* SizesBounded: no file outgrows the rotation size unless one line alone  *)
(* does, whatever the sizes are and wherever the writer was cut short.     *)
THEOREM FilesStayBounded == LogSpec => []SizesBounded
<1>1. LogInv /\ SizeInv /\ UNCHANGED logVars => SizeInv'
  BY DEF SizeInv, SizesBounded, Counting, NoEmptySegment, Rotating, logVars
<1>2. LogInv /\ SizeInv /\ [WriterStep]_logVars => SizeInv'
  BY <1>1, CountingStep
<1>3. SizeInv => SizesBounded BY DEF SizeInv
<1>4. QED BY <1>2, <1>3, CountingInit, LogInvariant, PTL DEF LogSpec

-----------------------------------------------------------------------------
Entry == [no : Nat, whole : BOOLEAN]

(* The last of the positions whose bytes end at or before an offset.       *)
LEMMA LastPassed ==
    ASSUME NEW lines \in Seq(Line), NEW offset \in Nat
    PROVE  \E k \in 0..Len(lines) :
              /\ Upto(lines, k) <= offset
              /\ \A j \in 0..Len(lines) : Upto(lines, j) <= offset => j <= k
<1> DEFINE T == {d \in Nat : d <= Len(lines) /\ Upto(lines, Len(lines) - d) <= offset}
<1>1. Len(lines) \in Nat /\ Upto(lines, 0) = 0 BY UptoSums
<1>2. Len(lines) - Len(lines) = 0 BY <1>1
<1>3. Len(lines) \in T BY <1>1, <1>2
<1>4. PICK d \in T : \A e \in T : d <= e BY <1>3, LeastNatural
<1>5. Len(lines) - d \in 0..Len(lines) /\ Upto(lines, Len(lines) - d) <= offset BY <1>1
<1>6. ASSUME NEW j \in 0..Len(lines), Upto(lines, j) <= offset PROVE j <= Len(lines) - d
  <2>1. Len(lines) - j \in Nat /\ Len(lines) - (Len(lines) - j) = j BY <1>1
  <2>2. Len(lines) - j \in T BY <1>6, <2>1
  <2>3. d <= Len(lines) - j BY <1>4, <2>2
  <2>4. QED BY <1>1, <2>3
<1>7. QED BY <1>5, <1>6

(* The k lines that After leaves out.                                      *)
Passes(lines, offset, k) ==
    /\ k \in 0..Len(lines)
    /\ Len(After(lines, offset)) = Len(lines) - k
    /\ After(lines, offset) \in Seq(Entry)
    /\ \A i \in 1..(Len(lines) - k) : After(lines, offset)[i].no = lines[k + i].no
    /\ offset = Upto(lines, k) => \A i \in 1..(Len(lines) - k) : After(lines, offset)[i].whole

LEMMA AfterPasses ==
    ASSUME NEW lines \in Seq(Line), NEW offset \in Nat, NEW k \in 0..Len(lines),
           Upto(lines, k) <= offset,
           \A j \in 0..Len(lines) : Upto(lines, j) <= offset => j <= k
    PROVE  Passes(lines, offset, k)
<1> DEFINE passed == {i \in 0..Len(lines) : Bytes(SubSeq(lines, 1, i)) <= offset}
           last == CHOOSE i \in passed : \A j \in passed : j <= i
           tail == [i \in 1..(Len(lines) - last) |->
                      [no |-> lines[last + i].no,
                       whole |-> i > 1 \/ Bytes(SubSeq(lines, 1, last)) = offset]]
<1>1. After(lines, offset) = tail BY DEF After
<1>2. k \in passed /\ \A j \in passed : j <= k BY DEF Upto
<1>3. \A i \in passed : i \in Int BY <1>2
<1> HIDE DEF passed
<1>4. last \in passed /\ \A j \in passed : j <= last BY <1>2
<1>5. last = k
  <2>1. last \in Int /\ k \in Int /\ last <= k /\ k <= last BY <1>2, <1>3, <1>4
  <2> HIDE DEF last
  <2>2. QED BY <2>1
<1>6. \A i \in 1..(Len(lines) - k) : lines[k + i].no \in Nat
  <2> SUFFICES ASSUME NEW i \in 1..(Len(lines) - k) PROVE lines[k + i].no \in Nat
    OBVIOUS
  <2>1. k + i \in 1..Len(lines) OBVIOUS
  <2>2. QED BY <2>1, SizeOf
<1> HIDE DEF last
<1>7. tail = [i \in 1..(Len(lines) - k) |->
                [no |-> lines[k + i].no,
                 whole |-> i > 1 \/ Bytes(SubSeq(lines, 1, k)) = offset]]
  BY <1>5
<1>8. Len(lines) - k \in Nat OBVIOUS
<1> HIDE DEF tail
<1>9. tail \in Seq(Entry) /\ Len(tail) = Len(lines) - k
      /\ \A i \in 1..(Len(lines) - k) : tail[i].no = lines[k + i].no
  BY <1>6, <1>7, <1>8 DEF Entry
<1>10. offset = Upto(lines, k) => \A i \in 1..(Len(lines) - k) : tail[i].whole
  BY <1>7 DEF Upto
<1>11. QED BY <1>1, <1>9, <1>10 DEF Passes

LEMMA AfterSome ==
    ASSUME NEW lines \in Seq(Line), NEW offset \in Nat
    PROVE  \E k \in 0..Len(lines) : Passes(lines, offset, k)
BY LastPassed, AfterPasses

(* An offset where a line begins.                                          *)
LEMMA AfterExact ==
    ASSUME NEW lines \in Seq(Line), NEW k \in 0..Len(lines)
    PROVE  Passes(lines, Upto(lines, k), k)
<1>1. Upto(lines, k) \in Nat BY UptoSums
<1>2. ASSUME NEW j \in 0..Len(lines), Upto(lines, j) <= Upto(lines, k) PROVE j <= k
  <2>1. Upto(lines, j) \in Nat BY UptoSums
  <2>2. CASE k < j
    <3>1. Upto(lines, k) < Upto(lines, j) BY <2>2, UptoIncreases
    <3>2. QED BY <1>1, <1>2, <2>1, <3>1
  <2>3. QED BY <2>2
<1>3. QED BY <1>1, <1>2, AfterPasses

(* An offset at or beyond the end.                                         *)
LEMMA AfterEnd ==
    ASSUME NEW lines \in Seq(Line), NEW offset \in Nat, Bytes(lines) <= offset
    PROVE  Passes(lines, offset, Len(lines))
<1>1. Len(lines) \in 0..Len(lines) /\ \A j \in 0..Len(lines) : j <= Len(lines) OBVIOUS
<1>2. Upto(lines, Len(lines)) <= offset BY UptoSums
<1>3. QED BY <1>1, <1>2, AfterPasses

LEMMA UptoBounded ==
    ASSUME NEW lines \in Seq(Line), NEW k \in 0..Len(lines)
    PROVE  Upto(lines, k) <= Bytes(lines) /\ Upto(lines, k) \in Nat /\ Bytes(lines) \in Nat
<1>1. Len(lines) \in 0..Len(lines) OBVIOUS
<1>2. Upto(lines, k) \in Nat /\ Upto(lines, Len(lines)) \in Nat BY <1>1, UptoSums
<1>3. k = Len(lines) \/ Upto(lines, k) < Upto(lines, Len(lines)) BY <1>1, UptoIncreases
<1>4. QED BY <1>2, <1>3, UptoSums

LEMMA UptoOfAppend ==
    ASSUME NEW lines \in Seq(Line), NEW line \in Line, NEW k \in 0..Len(lines)
    PROVE  Upto(Append(lines, line), k) = Upto(lines, k)
<1>1. SubSeq(Append(lines, line), 1, k) = SubSeq(lines, 1, k) OBVIOUS
<1>2. QED BY <1>1 DEF Upto

-----------------------------------------------------------------------------
(* What the reader has still to emit is later than what it has emitted.    *)
Fresh(line) == \A e \in Emitted : e < line.no
FreshFrom(s, k) == \A i \in (k + 1)..Len(text[s]) : Fresh(text[s][i])

(* The follow loop's offset is where line k + 1 of the active file begins. *)
FollowsFrom(k) == reader.offset = Upto(text[0], k) /\ FreshFrom(0, k)

Following == reader.pc \in {"tick", "fetch"}

(* The segments still to be read, and once the backlog is read the active  *)
(* file from the offset on, or all of it when it is a fresh one.           *)
ReaderInv ==
    /\ reader \in ReaderType
    /\ EmittedInOrder
    /\ \A e \in Emitted : e <= written
    /\ reader.pc \in {"idle", "probe"} => reader.n \in Nat /\ reader.n - 1 \in Slots
    /\ reader.pc \in {"active", "read"} => reader.n \in Slots
    /\ ~Following => reader.offset = 0
    /\ ~Following /\ reader.pc # "read" => reader.got = <<>>
    /\ reader.pc = "read" => \A s \in Slots : s <= reader.n => FreshFrom(s, 0)
    /\ Following => FreshFrom(0, 0) \/ \E k \in 0..Len(text[0]) : FollowsFrom(k)

(* While no rotation runs: a line is emitted, or older than all emitted.   *)
Settled(line) == line.no \in Emitted \/ \A e \in Emitted : line.no < e
SettledUpto(k) ==
    /\ \A s \in Slots \ {0} : \A i \in 1..Len(text[s]) : Settled(text[s][i])
    /\ \A i \in 1..k : Settled(text[0][i])

QuietInv ==
    reader.quiet =>
        /\ reader.pc = "read" =>
              \A s \in Slots : s > reader.n => \A i \in 1..Len(text[s]) : Settled(text[s][i])
        /\ Following => \E k \in 0..Len(text[0]) : FollowsFrom(k) /\ SettledUpto(k)

LEMMA ReaderTypes ==
    ASSUME LogInv, ReaderInv
    PROVE  /\ text \in [Slots -> Seq(Line)] /\ written \in Nat /\ 0 \in Slots
           /\ \A s \in Slots : text[s] \in Seq(Line) /\ s \in Nat /\ Len(text[s]) \in Nat
           /\ reader.got \in Seq(Entry) /\ reader.offset \in Nat /\ reader.n \in Nat
           /\ reader.pc \in {"idle", "probe", "active", "read", "tick", "fetch"}
           /\ reader.listed \in BOOLEAN /\ reader.quiet \in BOOLEAN
           /\ DOMAIN reader = {"pc", "n", "listed", "got", "offset", "quiet"}
           /\ \A e \in Emitted : e \in Nat
<1>1. text \in [Slots -> Seq(Line)] /\ written \in Nat BY DEF LogInv, LogTypeOK
<1>2. reader \in ReaderType BY DEF ReaderInv
<1>3. /\ reader.got \in Seq(Entry) /\ reader.offset \in Nat /\ reader.n \in Nat
      /\ reader.pc \in {"idle", "probe", "active", "read", "tick", "fetch"}
      /\ reader.listed \in BOOLEAN /\ reader.quiet \in BOOLEAN
      /\ DOMAIN reader = {"pc", "n", "listed", "got", "offset", "quiet"}
  BY <1>2 DEF ReaderType, Entry
<1>4. \A i \in 1..Len(reader.got) : reader.got[i] \in Entry BY <1>3
<1>5. \A e \in Emitted : e \in Nat BY <1>4 DEF Emitted, Entry
<1>6. QED BY <1>1, <1>3, <1>5, SlotFacts

(* A sequence of entries continued by another one.                         *)
Nos(got) == {got[i].no : i \in 1..Len(got)}
InOrder(got) == \A i, j \in 1..Len(got) : i < j => got[i].no < got[j].no

LEMMA Continuing ==
    ASSUME NEW old \in Seq(Entry), NEW new \in Seq(Entry), InOrder(old), InOrder(new),
           \A e \in Nos(old), f \in Nos(new) : e < f
    PROVE  /\ old \o new \in Seq(Entry) /\ InOrder(old \o new)
           /\ Nos(old \o new) = Nos(old) \union Nos(new)
<1> DEFINE all == old \o new
           m == Len(old)
           n == Len(new)
<1>1. /\ all \in Seq(Entry) /\ Len(all) = m + n /\ m \in Nat /\ n \in Nat
      /\ \A i \in 1..m : all[i] = old[i]
      /\ \A i \in 1..n : all[m + i] = new[i]
  OBVIOUS
<1> HIDE DEF all, m, n
<1>2. ASSUME NEW i \in 1..(m + n)
      PROVE  (i \in 1..m /\ all[i] = old[i]) \/ (i > m /\ i - m \in 1..n /\ all[i] = new[i - m])
  <2>1. CASE i <= m BY <1>1, <2>1
  <2>2. CASE i > m
    <3>1. i - m \in 1..n /\ m + (i - m) = i BY <1>1, <2>2
    <3>2. all[m + (i - m)] = new[i - m] BY <1>1, <3>1
    <3>3. QED BY <2>2, <3>1, <3>2
  <2>3. QED BY <1>1, <2>1, <2>2
<1>3. \A e \in Nos(old) : e \in Nos(all)
  <2> SUFFICES ASSUME NEW i \in 1..m PROVE old[i].no \in Nos(all)
    BY DEF Nos, m
  <2>1. i \in 1..Len(all) /\ all[i] = old[i] BY <1>1
  <2>2. QED BY <2>1 DEF Nos
<1>4. \A e \in Nos(new) : e \in Nos(all)
  <2> SUFFICES ASSUME NEW i \in 1..n PROVE new[i].no \in Nos(all)
    BY DEF Nos, n
  <2>1. m + i \in 1..Len(all) /\ all[m + i] = new[i] BY <1>1
  <2>2. QED BY <2>1 DEF Nos
<1>5. \A e \in Nos(all) : e \in Nos(old) \union Nos(new)
  <2> SUFFICES ASSUME NEW i \in 1..(m + n) PROVE all[i].no \in Nos(old) \union Nos(new)
    BY <1>1 DEF Nos
  <2>1. QED BY <1>2 DEF Nos, m, n
<1>6. ASSUME NEW i \in 1..(m + n), NEW j \in 1..(m + n), i < j
      PROVE  all[i].no < all[j].no
  <2>1. CASE j \in 1..m
    <3>1. i \in 1..m BY <1>1, <1>6, <2>1
    <3>2. all[i] = old[i] /\ all[j] = old[j] BY <1>1, <2>1, <3>1
    <3>3. QED BY <1>6, <2>1, <3>1, <3>2 DEF InOrder, m
  <2>2. CASE i \in 1..m /\ j > m
    <3>1. all[i] = old[i] /\ j - m \in 1..n /\ all[j] = new[j - m]
      BY <1>1, <1>2, <2>2
    <3>2. old[i].no \in Nos(old) /\ new[j - m].no \in Nos(new)
      BY <2>2, <3>1 DEF Nos, m, n
    <3>3. QED BY <3>1, <3>2
  <2>3. CASE i > m /\ j > m
    <3>1. /\ i - m \in 1..n /\ all[i] = new[i - m] /\ j - m \in 1..n /\ all[j] = new[j - m]
      BY <1>1, <1>2, <2>3
    <3>2. i - m < j - m BY <1>1, <1>6
    <3>3. QED BY <3>1, <3>2 DEF InOrder, n
  <2>4. QED BY <1>1, <2>1, <2>2, <2>3
<1>7. QED BY <1>1, <1>3, <1>4, <1>5, <1>6 DEF InOrder, all

(* Emitting the lines of a file after the first k: they come in order, and *)
(* after all that was emitted before.                                      *)
Behind(s, k) == {text[s][i].no : i \in (k + 1)..Len(text[s])}

LEMMA Emitting ==
    ASSUME LogInv, ReaderInv, NEW s \in Slots, NEW offset, NEW k,
           Passes(text[s], offset, k), FreshFrom(s, k),
           reader'.got = reader.got \o After(text[s], offset)
    PROVE  /\ EmittedInOrder' /\ reader'.got \in Seq(Entry)
           /\ Emitted' = Emitted \union Behind(s, k)
           /\ \A e \in Emitted' : e <= written
<1> DEFINE new == After(text[s], offset)
           size == Len(text[s])
<1>1. /\ new \in Seq(Entry) /\ Len(new) = size - k /\ k \in 0..size /\ size \in Nat
      /\ \A i \in 1..(size - k) : new[i].no = text[s][k + i].no
  BY ReaderTypes DEF Passes
<1> HIDE DEF new, size
<1>2. Nos(new) = Behind(s, k)
  <2>1. ASSUME NEW i \in 1..(size - k) PROVE new[i].no \in Behind(s, k)
    <3>1. k + i \in (k + 1)..size BY <1>1
    <3>2. QED BY <1>1, <3>1 DEF Behind, size
  <2>2. ASSUME NEW i \in (k + 1)..size PROVE text[s][i].no \in Nos(new)
    <3>1. i - k \in 1..(size - k) /\ k + (i - k) = i BY <1>1
    <3>2. new[i - k].no = text[s][i].no /\ i - k \in 1..Len(new) BY <1>1, <3>1
    <3>3. QED BY <3>2 DEF Nos
  <2>3. \A e \in Nos(new) : e \in Behind(s, k) BY <1>1, <2>1 DEF Nos
  <2>4. \A e \in Behind(s, k) : e \in Nos(new) BY <2>2 DEF Behind, size
  <2>5. QED BY <2>3, <2>4
<1>3. InOrder(new)
  <2> SUFFICES ASSUME NEW i \in 1..(size - k), NEW j \in 1..(size - k), i < j
               PROVE  new[i].no < new[j].no
    BY <1>1 DEF InOrder
  <2>1. k + i \in 1..size /\ k + j \in 1..size /\ k + i < k + j BY <1>1
  <2>2. text[s][k + i].no < text[s][k + j].no BY <2>1 DEF LogInv, SegmentsOrdered, size
  <2>3. QED BY <1>1, <2>2
<1>4. Nos(reader.got) = Emitted /\ InOrder(reader.got) /\ reader.got \in Seq(Entry)
  BY ReaderTypes DEF Nos, Emitted, ReaderInv, EmittedInOrder, InOrder
<1>5. \A e \in Nos(reader.got), f \in Nos(new) : e < f
  BY <1>2, <1>4 DEF FreshFrom, Fresh, Behind
<1>6. reader'.got = reader.got \o new BY DEF new
<1>7. /\ reader'.got \in Seq(Entry) /\ InOrder(reader'.got)
      /\ Nos(reader'.got) = Emitted \union Behind(s, k)
  BY <1>1, <1>2, <1>3, <1>4, <1>5, <1>6, Continuing
<1>8. EmittedInOrder' /\ Emitted' = Nos(reader'.got)
  BY <1>7 DEF InOrder, EmittedInOrder, Nos, Emitted
<1>9. \A e \in Emitted' : e <= written
  <2>1. \A i \in (k + 1)..size : i \in 1..size BY <1>1
  <2>2. \A e \in Behind(s, k) : e <= written
    BY <2>1 DEF Behind, LogInv, Numbering, size
  <2>3. QED BY <1>7, <1>8, <2>2 DEF ReaderInv
<1>10. QED BY <1>7, <1>8, <1>9

-----------------------------------------------------------------------------
(* The reader while only its note of whether a rotation ran may change.    *)
Beside ==
    /\ reader' \in ReaderType /\ reader'.pc = reader.pc /\ reader'.n = reader.n
    /\ reader'.got = reader.got /\ reader'.offset = reader.offset
    /\ reader'.listed = reader.listed

LEMMA BesideSame ==
    ASSUME Beside
    PROVE  Emitted' = Emitted /\ (EmittedInOrder <=> EmittedInOrder') /\ (Following' <=> Following)
BY DEF Beside, Emitted, EmittedInOrder, Following

(* Files that move up or go leave the reader nothing new to read.          *)
LEMMA MovedBeside ==
    ASSUME LogInv, ReaderInv, Beside, UNCHANGED written,
           \E s \in Slots : Empties(s) \/ Raises(s)
    PROVE  ReaderInv'
<1>0. PICK u \in Slots : Empties(u) \/ Raises(u) OBVIOUS
<1>1. \A t \in Slots : Len(text'[t]) = 0 \/ \E s \in Slots : s <= t /\ text'[t] = text[s]
  <2> SUFFICES ASSUME NEW t \in Slots
               PROVE  Len(text'[t]) = 0 \/ \E s \in Slots : s <= t /\ text'[t] = text[s]
    OBVIOUS
  <2>1. t \in Int /\ u \in Int /\ t <= t BY SlotFacts
  <2>2. CASE Empties(u) BY <2>1, <2>2 DEF Empties
  <2>3. CASE Raises(u)
    <3>1. t = u => Len(text'[t]) = 0 BY <2>3 DEF Raises
    <3>2. t = u + 1 => text'[t] = text[u] /\ u <= t BY <2>1, <2>3 DEF Raises
    <3>3. t # u /\ t # u + 1 => text'[t] = text[t] BY <2>3 DEF Raises
    <3>4. QED BY <2>1, <3>1, <3>2, <3>3
  <2>4. QED BY <1>0, <2>2, <2>3
<1>2. Len(text'[0]) = 0 \/ text'[0] = text[0] BY <1>1, SlotFacts
<1>3. Emitted' = Emitted BY BesideSame
<1>4. reader.pc = "read" => \A t \in Slots : t <= reader.n => FreshFrom(t, 0)'
  <2> SUFFICES ASSUME reader.pc = "read", NEW t \in Slots, t <= reader.n PROVE FreshFrom(t, 0)'
    OBVIOUS
  <2>1. CASE Len(text'[t]) = 0 BY <2>1 DEF FreshFrom
  <2>2. ASSUME NEW s \in Slots, s <= t, text'[t] = text[s] PROVE FreshFrom(t, 0)'
    <3>1. s <= reader.n BY <2>2, ReaderTypes
    <3>2. QED BY <1>3, <2>2, <3>1 DEF ReaderInv, FreshFrom, Fresh
  <2>3. QED BY <1>1, <2>1, <2>2
<1>5. Following => (FreshFrom(0, 0) \/ \E k \in 0..Len(text[0]) : FollowsFrom(k))'
  <2> SUFFICES ASSUME Following
               PROVE  (FreshFrom(0, 0) \/ \E k \in 0..Len(text[0]) : FollowsFrom(k))'
    OBVIOUS
  <2>1. CASE Len(text'[0]) = 0 BY <2>1 DEF FreshFrom
  <2>2. CASE text'[0] = text[0]
    BY <1>3, <2>2 DEF Beside, ReaderInv, FollowsFrom, FreshFrom, Fresh
  <2>3. QED BY <1>2, <2>1, <2>2
<1>6. QED BY <1>3, <1>4, <1>5, BesideSame DEF Beside, ReaderInv, Following

(* A line just written is later than all that was emitted.                 *)
LEMMA GrownBeside ==
    ASSUME LogInv, ReaderInv, Beside, NEW line, Grows(line)
    PROVE  /\ ReaderInv'
           /\ \A k \in 0..Len(text[0]) : FollowsFrom(k) =>
                 k \in 0..Len(text'[0]) /\ FollowsFrom(k)'
                 /\ \A i \in 1..k : text'[0][i] = text[0][i]
<1>0. /\ text[0] \in Seq(Line) /\ line \in Line /\ line.no \in Nat /\ written \in Nat
      /\ text'[0] = Append(text[0], line) /\ \A t \in Slots \ {0} : text'[t] = text[t]
      /\ written' = line.no /\ written < line.no
  BY ReaderTypes DEF Grows, Line
<1> DEFINE size == Len(text[0])
<1>1. /\ size \in Nat /\ Len(text'[0]) = size + 1 /\ text'[0][size + 1] = line
      /\ \A i \in 1..size : text'[0][i] = text[0][i]
  BY <1>0
<1> HIDE DEF size
<1>2. Emitted' = Emitted BY BesideSame
<1>3. Fresh(line) BY <1>0, ReaderTypes DEF ReaderInv, Fresh
<1>4. ASSUME NEW k \in 0..size, FreshFrom(0, k) PROVE FreshFrom(0, k)'
  <2> SUFFICES ASSUME NEW i \in (k + 1)..(size + 1) PROVE Fresh(text'[0][i])
    BY <1>1, <1>2 DEF FreshFrom, Fresh
  <2>1. CASE i = size + 1 BY <1>1, <1>3, <2>1
  <2>2. CASE i # size + 1
    <3>1. i \in (k + 1)..size /\ i \in 1..size BY <1>1, <2>2
    <3>2. QED BY <1>1, <1>4, <3>1 DEF FreshFrom, size
  <2>3. QED BY <2>1, <2>2
<1>5. ASSUME NEW k \in 0..size, FollowsFrom(k) PROVE FollowsFrom(k)'
  <2>1. Upto(text'[0], k) = Upto(text[0], k) BY <1>0, UptoOfAppend DEF size
  <2>2. QED BY <1>4, <1>5, <2>1 DEF FollowsFrom, Beside
<1>6. \A k \in 0..size : k \in 0..Len(text'[0]) /\ \A i \in 1..k : i \in 1..size BY <1>1
<1>7. ASSUME NEW t \in Slots, FreshFrom(t, 0) PROVE FreshFrom(t, 0)'
  <2>1. CASE t = 0 BY <1>1, <1>4, <1>7, <2>1
  <2>2. CASE t # 0 BY <1>0, <1>2, <1>7, <2>2 DEF FreshFrom, Fresh
  <2>3. QED BY <2>1, <2>2
<1>8. \A e \in Emitted' : e <= written' BY <1>0, <1>2, ReaderTypes DEF ReaderInv
<1>9. reader.pc = "read" => \A t \in Slots : t <= reader.n => FreshFrom(t, 0)'
  BY <1>7 DEF ReaderInv
<1>10. Following => (FreshFrom(0, 0) \/ \E k \in 0..Len(text[0]) : FollowsFrom(k))'
  BY <1>5, <1>6, <1>7, SlotFacts DEF ReaderInv, size
<1>11. ReaderInv'
  BY <1>8, <1>9, <1>10, BesideSame DEF Beside, ReaderInv, Following
<1>12. QED BY <1>1, <1>5, <1>6, <1>11 DEF size

LEMMA UnchangedBeside ==
    ASSUME ReaderInv, Beside, UNCHANGED <<text, written>>
    PROVE  ReaderInv' /\ (QuietInv /\ (reader'.quiet => reader.quiet) => QuietInv')
<1>1. Emitted' = Emitted BY BesideSame
<1>2. ReaderInv'
  BY <1>1, BesideSame DEF Beside, ReaderInv, Following, FollowsFrom, FreshFrom, Fresh
<1>3. QuietInv /\ (reader'.quiet => reader.quiet) => QuietInv'
  BY <1>1, BesideSame
  DEF Beside, QuietInv, Following, FollowsFrom, FreshFrom, Fresh, SettledUpto, Settled
<1>4. QED BY <1>2, <1>3

(* A step of the writer while the reader looks on.                         *)
LEMMA WriterKeepsReader ==
    ASSUME LogInv, ReaderInv, QuietInv, WriterBeside
    PROVE  ReaderInv' /\ QuietInv'
<1>1. /\ WriterStep /\ Beside
      /\ reader'.quiet => reader.quiet /\ (reader.pc = "idle" \/ ~Rotating)
  <2>1. reader \in ReaderType BY DEF ReaderInv
  <2>2. QED BY <2>1 DEF WriterBeside, Beside, ReaderType, Rotating, Reads
<1>2. CASE UNCHANGED <<text, written>> BY <1>1, <1>2, UnchangedBeside
<1>3. CASE Rotating /\ UNCHANGED written /\ \E s \in Slots : Empties(s) \/ Raises(s)
  <2>1. ReaderInv' BY <1>1, <1>3, MovedBeside
  <2>2. QuietInv' BY <1>1, <1>3 DEF QuietInv, Beside, Following
  <2>3. QED BY <2>1, <2>2
<1>4. CASE writer.pc = "write" /\ Grows(writer.line)
  <2>1. /\ ReaderInv' /\ Emitted' = Emitted
        /\ \A k \in 0..Len(text[0]) : FollowsFrom(k) =>
              k \in 0..Len(text'[0]) /\ FollowsFrom(k)'
              /\ \A i \in 1..k : text'[0][i] = text[0][i]
    BY <1>1, <1>4, GrownBeside, BesideSame
  <2>2. \A s \in Slots \ {0} : text'[s] = text[s] BY <1>4 DEF Grows
  <2>3. ASSUME reader'.quiet, Following
        PROVE  (\E k \in 0..Len(text[0]) : FollowsFrom(k) /\ SettledUpto(k))'
    <3>1. PICK k \in 0..Len(text[0]) : FollowsFrom(k) /\ SettledUpto(k)
      BY <1>1, <2>3 DEF QuietInv
    <3>2. SettledUpto(k)' BY <2>1, <2>2, <3>1 DEF SettledUpto, Settled
    <3>3. QED BY <2>1, <3>1, <3>2
  <2>4. ASSUME reader'.quiet, reader.pc = "read", NEW s \in Slots, s > reader.n,
               NEW i \in 1..Len(text'[s])
        PROVE  Settled(text[s][i])'
    <3>1. s # 0 BY <2>4, ReaderTypes
    <3>2. QED BY <1>1, <2>1, <2>2, <2>4, <3>1 DEF QuietInv, Settled
  <2>5. QuietInv'
    <3>1. reader'.pc = reader.pc /\ reader'.n = reader.n BY <1>1 DEF Beside
    <3> HIDE DEF Settled
    <3>2. QED BY <2>3, <2>4, <3>1 DEF QuietInv, Following
  <2>6. QED BY <2>1, <2>5
<1>5. QED BY <1>1, <1>2, <1>3, <1>4, WriterEffect

(* Reading a file from line k + 1 on while all that is older and on disk   *)
(* is settled leaves it settled, together with that file.                  *)
LEMMA StillSettled ==
    ASSUME LogInv, NEW s \in Slots, NEW k \in 0..Len(text[s]), UNCHANGED text,
           Emitted' = Emitted \union Behind(s, k)
    PROVE  /\ \A t \in Slots : s < t =>
                 \A i \in 1..Len(text[t]) : Settled(text[t][i]) => Settled(text[t][i])'
           /\ \A i \in 1..k : Settled(text[s][i]) => Settled(text[s][i])'
           /\ \A i \in (k + 1)..Len(text[s]) : Settled(text[s][i])'
<1>0. Len(text[s]) \in Nat /\ k \in Nat BY DEF LogInv, LogTypeOK
<1>1. ASSUME NEW t \in Slots, s < t, NEW i \in 1..Len(text[t]), Settled(text[t][i])
      PROVE  Settled(text[t][i])'
  <2>1. ASSUME NEW j \in (k + 1)..Len(text[s]) PROVE text[t][i].no < text[s][j].no
    <3>1. j \in 1..Len(text[s]) BY <1>0
    <3>2. QED BY <1>1, <3>1 DEF LogInv, SegmentsOrdered
  <2>2. \A e \in Behind(s, k) : text[t][i].no < e BY <2>1 DEF Behind
  <2>3. QED BY <1>1, <2>2 DEF Settled
<1>2. ASSUME NEW i \in 1..k, Settled(text[s][i]) PROVE Settled(text[s][i])'
  <2>1. ASSUME NEW j \in (k + 1)..Len(text[s]) PROVE text[s][i].no < text[s][j].no
    <3>1. j \in 1..Len(text[s]) /\ i \in 1..Len(text[s]) /\ i < j BY <1>0
    <3>2. QED BY <3>1 DEF LogInv, SegmentsOrdered
  <2>2. \A e \in Behind(s, k) : text[s][i].no < e BY <2>1 DEF Behind
  <2>3. QED BY <1>2, <2>2 DEF Settled
<1>3. \A i \in (k + 1)..Len(text[s]) : Settled(text[s][i])' BY DEF Settled, Behind
<1>4. QED BY <1>1, <1>2, <1>3

(* Nothing is left that should have been emitted.                          *)
Complete == \A s \in Slots : \A i \in 1..Len(text[s]) : Settled(text[s][i])

(* A reader is a record of six fields.                                     *)
ReaderPC == {"idle", "probe", "active", "read", "tick", "fetch"}
Typed(r) ==
    /\ r = [pc |-> r.pc, n |-> r.n, listed |-> r.listed, got |-> r.got,
            offset |-> r.offset, quiet |-> r.quiet]
    /\ r.pc \in ReaderPC /\ r.n \in Nat /\ r.listed \in BOOLEAN /\ r.got \in Seq(Entry)
    /\ r.offset \in Nat /\ r.quiet \in BOOLEAN

LEMMA IsTyped == ASSUME NEW r PROVE r \in ReaderType <=> Typed(r)
<1> DEFINE Entries == Seq(Entry)
<1>1. ReaderType = [pc : ReaderPC, n : Nat, listed : BOOLEAN, got : Entries,
                    offset : Nat, quiet : BOOLEAN]
  BY DEF ReaderType, Entry, ReaderPC
<1> HIDE DEF Entries
<1>2. QED BY <1>1 DEF Typed, Entries

LEMMA ProbeKeepsReader ==
    ASSUME LogInv, ReaderInv, ProbeSegment \/ ProbeActive
    PROVE  ReaderInv' /\ QuietInv'
<1>0. /\ reader.got = <<>> /\ reader.offset = 0 /\ reader.n \in Nat /\ exists \subseteq Slots
      /\ Typed(reader) /\ UNCHANGED <<text, written>>
  BY ReaderTypes, IsTyped
  DEF ReaderInv, ProbeSegment, ProbeActive, Reads, Following, logVars, LogInv, LogTypeOK
<1>1. /\ Typed(reader') /\ reader'.got = <<>> /\ reader'.offset = 0
      /\ reader'.pc \in {"probe", "active", "read"}
      /\ reader'.pc = "probe" => reader'.n \in Nat /\ reader'.n - 1 \in Slots
      /\ reader'.pc \in {"active", "read"} => reader'.n \in Slots
  <2>1. CASE ProbeSegment
    <3>1. reader.n - 1 \in Slots /\ reader.n + 1 - 1 = reader.n /\ \A s \in Slots : s \in Nat
      BY <1>0, <2>1, SlotFacts DEF ProbeSegment, ReaderInv, Reads
    <3>2. CASE reader.n \in exists
      <4>1. reader' = [reader EXCEPT !.pc = "probe", !.n = @ + 1] BY <2>1, <3>2 DEF ProbeSegment
      <4>2. reader.n \in Slots BY <1>0, <3>2
      <4>3. Typed(reader) /\ reader.n + 1 \in Nat BY <1>0
      <4>4. /\ Typed(reader') /\ reader'.got = reader.got /\ reader'.offset = reader.offset
            /\ reader'.pc = "probe" /\ reader'.n = reader.n + 1
        BY <4>1, <4>3 DEF Typed, ReaderPC
      <4>5. QED BY <1>0, <3>1, <4>2, <4>3, <4>4
    <3>3. CASE reader.n \notin exists
      <4>1. reader' = [reader EXCEPT !.pc = "active", !.n = @ - 1] BY <2>1, <3>3 DEF ProbeSegment
      <4>2. QED BY <1>0, <3>1, <4>1 DEF Typed, ReaderPC
    <3>4. QED BY <3>2, <3>3
  <2>2. CASE ProbeActive
    <3> DEFINE listed == 0 \in exists
    <3>1. /\ reader' = [reader EXCEPT !.pc = "read", !.listed = listed]
          /\ listed \in BOOLEAN /\ reader.pc = "active" /\ reader.n \in Slots
      BY <2>2 DEF ProbeActive, Reads, ReaderInv
    <3> HIDE DEF listed
    <3>2. QED BY <1>0, <3>1 DEF Typed, ReaderPC
  <2>3. QED BY <2>1, <2>2
<1>2. Emitted' = {} /\ EmittedInOrder' BY <1>1 DEF Emitted, EmittedInOrder
<1>3. ReaderInv'
  BY <1>1, <1>2, IsTyped DEF ReaderInv, Following, FreshFrom, Fresh
<1>4. QuietInv'
  BY <1>1, <1>2 DEF QuietInv, Following, Settled
<1>5. QED BY <1>3, <1>4

LEMMA ReadSegmentKeepsReader ==
    ASSUME LogInv, ReaderInv, QuietInv, ReadSegment
    PROVE  ReaderInv' /\ QuietInv'
<1> DEFINE n == reader.n
<1>0. /\ n \in Slots /\ n \in Nat /\ n > 0 /\ n - 1 \in Slots /\ Typed(reader)
      /\ reader.pc = "read" /\ UNCHANGED <<text, written>>
      /\ reader' = [reader EXCEPT !.n = n - 1, !.got = @ \o After(text[n], 0)]
      /\ reader.offset = 0 /\ text[n] \in Seq(Line)
  BY ReaderTypes, SlotFacts, IsTyped DEF ReaderInv, ReadSegment, Reads, logVars, Following
<1>1. 0 \in 0..Len(text[n]) /\ Upto(text[n], 0) = 0 BY <1>0, UptoSums
<1>2. Passes(text[n], 0, 0) BY <1>0, <1>1, AfterExact
<1>3. FreshFrom(n, 0)
  <2>1. n <= n BY <1>0
  <2>2. QED BY <1>0, <2>1 DEF ReaderInv
<1>4. reader'.got = reader.got \o After(text[n], 0) BY <1>0 DEF Typed
<1>5. /\ EmittedInOrder' /\ reader'.got \in Seq(Entry)
      /\ Emitted' = Emitted \union Behind(n, 0) /\ \A e \in Emitted' : e <= written
  BY <1>0, <1>2, <1>3, <1>4, Emitting
<1>6. /\ reader' \in ReaderType /\ reader'.pc = "read" /\ reader'.n = n - 1
      /\ reader'.offset = 0 /\ reader'.quiet = reader.quiet
  <2>1. Typed(reader') /\ reader'.pc = reader.pc /\ reader'.n = n - 1
        /\ reader'.offset = reader.offset /\ reader'.quiet = reader.quiet
    <3>1. /\ Typed(reader) /\ n - 1 \in Nat
          /\ reader' = [reader EXCEPT !.n = n - 1, !.got = @ \o After(text[n], 0)]
          /\ reader'.got \in Seq(Entry)
      BY <1>0, <1>5
    <3> HIDE DEF n
    <3>2. QED BY <3>1 DEF Typed
  <2>2. QED BY <1>0, <2>1, IsTyped
<1> HIDE DEF n
<1>7. ASSUME NEW t \in Slots, t <= n - 1 PROVE FreshFrom(t, 0)'
  <2>1. t <= n /\ t < n BY <1>0, <1>7, SlotFacts
  <2>2. FreshFrom(t, 0) BY <1>0, <2>1 DEF ReaderInv, n
  <2>3. ASSUME NEW i \in 1..Len(text[t]), NEW e \in Behind(n, 0) PROVE e < text[t][i].no
    <3>1. PICK j \in 1..Len(text[n]) : e = text[n][j].no BY DEF Behind
    <3>2. QED BY <1>0, <2>1, <3>1 DEF LogInv, SegmentsOrdered
  <2>4. QED BY <1>0, <1>5, <2>2, <2>3 DEF FreshFrom, Fresh
<1>8. ReaderInv'
  BY <1>0, <1>5, <1>6, <1>7 DEF ReaderInv, Following
<1>9. ASSUME reader.quiet, NEW t \in Slots, t > n - 1, NEW i \in 1..Len(text[t])
      PROVE  Settled(text[t][i])'
  <2>1. t \in Nat BY SlotFacts
  <2>2. CASE t = n BY <1>0, <1>1, <1>5, <2>2, <1>9, StillSettled, SMTT(30)
  <2>3. CASE t > n
    <3>1. Settled(text[t][i]) BY <1>0, <1>9, <2>3 DEF QuietInv, n
    <3>2. n < t BY <1>0, <2>1, <2>3
    <3>3. QED BY <1>0, <1>1, <1>5, <1>9, <3>1, <3>2, StillSettled
  <2>4. QED BY <1>0, <1>9, <2>1, <2>2, <2>3
<1>10. QuietInv'
  <2> HIDE DEF Settled
  <2>1. QED BY <1>0, <1>6, <1>9 DEF QuietInv, Following
<1>11. QED BY <1>8, <1>10

(* The whole of the active file has been emitted from line k + 1 on, and   *)
(* the offset is where it ends.                                            *)
LEMMA CaughtUp ==
    ASSUME LogInv, ReaderInv, UNCHANGED <<text, written>>,
           NEW k \in 0..Len(text[0]), FreshFrom(0, k),
           reader'.got = reader.got \o After(text[0], reader.offset),
           Passes(text[0], reader.offset, k),
           Typed(reader'), reader'.pc = "tick", reader'.offset = Bytes(text[0])
    PROVE  /\ ReaderInv' /\ FollowsFrom(Len(text[0]))'
           /\ (\A i \in 1..k : Settled(text[0][i]))
              /\ (\A s \in Slots \ {0} : \A i \in 1..Len(text[s]) : Settled(text[s][i]))
              => Complete' /\ SettledUpto(Len(text[0]))'
<1>0. 0 \in Slots /\ text[0] \in Seq(Line) /\ Len(text[0]) \in Nat BY ReaderTypes
<1>1. /\ EmittedInOrder' /\ Emitted' = Emitted \union Behind(0, k)
      /\ \A e \in Emitted' : e <= written
  BY <1>0, Emitting
<1>2. FollowsFrom(Len(text[0]))'
  <2>1. Upto(text[0], Len(text[0])) = Bytes(text[0]) BY <1>0, UptoSums
  <2>2. FreshFrom(0, Len(text[0]))' BY <1>0 DEF FreshFrom
  <2>3. QED BY <2>1, <2>2 DEF FollowsFrom
<1>3. ReaderInv'
  <2>1. reader' \in ReaderType BY IsTyped
  <2>2. Len(text[0]) \in 0..Len(text[0]) BY <1>0
  <2>3. Following' BY DEF Following
  <2>4. QED BY <1>1, <1>2, <2>1, <2>2, <2>3 DEF ReaderInv
<1>4. ASSUME \A i \in 1..k : Settled(text[0][i]),
             \A s \in Slots \ {0} : \A i \in 1..Len(text[s]) : Settled(text[s][i])
      PROVE  Complete' /\ SettledUpto(Len(text[0]))'
  <2>1. ASSUME NEW s \in Slots, NEW i \in 1..Len(text[s]) PROVE Settled(text[s][i])'
    <3>1. CASE s = 0
      <4>1. i \in 1..k \/ i \in (k + 1)..Len(text[0]) BY <1>0, <3>1
      <4>2. QED BY <1>0, <1>1, <1>4, <3>1, <4>1, StillSettled
    <3>2. CASE s # 0
      <4>1. 0 < s BY <1>0, <3>2, SlotFacts
      <4>2. Settled(text[s][i]) BY <1>4, <3>2
      <4>3. QED BY <1>0, <1>1, <2>1, <4>1, <4>2, StillSettled
    <3>3. QED BY <3>1, <3>2
  <2> HIDE DEF Settled
  <2>2. QED BY <1>0, <2>1 DEF Complete, SettledUpto
<1>5. QED BY <1>2, <1>3, <1>4

(* What a completed read of the active file leaves, when it was quiet.     *)
LEMMA CaughtUpQuietly ==
    ASSUME FollowsFrom(Len(text[0]))', SettledUpto(Len(text[0]))', UNCHANGED text,
           reader'.pc = "tick", Len(text[0]) \in Nat
    PROVE  QuietInv'
<1>1. Len(text'[0]) \in 0..Len(text'[0]) OBVIOUS
<1> HIDE DEF FollowsFrom, SettledUpto
<1>2. QED BY <1>1 DEF QuietInv, Following

LEMMA ReadActiveKeepsReader ==
    ASSUME LogInv, ReaderInv, QuietInv, ReadActive
    PROVE  /\ ReaderInv' /\ QuietInv'
           /\ reader.quiet /\ reader.listed => Complete'
<1>0. /\ reader.n = 0 /\ Typed(reader) /\ reader.pc = "read" /\ UNCHANGED <<text, written>>
      /\ reader.offset = 0 /\ 0 \in Slots /\ text[0] \in Seq(Line) /\ Len(text[0]) \in Nat
      /\ FreshFrom(0, 0) /\ Bytes(text[0]) \in Nat
  <2>1. /\ reader.n = 0 /\ reader.pc = "read" /\ UNCHANGED <<text, written>>
        /\ reader.offset = 0 /\ 0 \in Slots /\ text[0] \in Seq(Line) /\ Len(text[0]) \in Nat
    BY ReaderTypes DEF ReadActive, ReaderInv, Following, Reads, logVars
  <2>2. 0 <= 0 OBVIOUS
  <2>3. FreshFrom(0, 0) BY <2>1, <2>2 DEF ReaderInv
  <2>4. Typed(reader) BY IsTyped DEF ReaderInv
  <2>5. QED BY <2>1, <2>3, <2>4, UptoBounded
<1>1. 0 \in 0..Len(text[0]) /\ Upto(text[0], 0) = 0 /\ Passes(text[0], 0, 0)
  BY <1>0, UptoSums, AfterExact
<1>2. reader.quiet =>
         \A s \in Slots \ {0} : \A i \in 1..Len(text[s]) : Settled(text[s][i])
  BY <1>0, SlotFacts DEF QuietInv
<1>3. CASE reader.listed
  <2>1. reader' = [reader EXCEPT !.pc = "tick", !.got = @ \o After(text[0], 0),
                                 !.offset = Bytes(text[0])]
    BY <1>3 DEF ReadActive
  <2>2. reader'.got = reader.got \o After(text[0], 0) BY <1>0, <2>1 DEF Typed
  <2>3. reader'.got \in Seq(Entry) BY <1>0, <1>1, <2>2, Emitting
  <2>4. /\ Typed(reader') /\ reader'.pc = "tick" /\ reader'.offset = Bytes(text[0])
        /\ reader'.quiet = reader.quiet
    BY <1>0, <2>1, <2>3 DEF Typed, ReaderPC
  <2>5. /\ ReaderInv' /\ FollowsFrom(Len(text[0]))'
        /\ reader.quiet => Complete' /\ SettledUpto(Len(text[0]))'
    BY <1>0, <1>1, <1>2, <2>2, <2>4, CaughtUp
  <2>6. QuietInv'
    <3>1. CASE reader.quiet BY <1>0, <2>4, <2>5, <3>1, CaughtUpQuietly
    <3>2. CASE ~reader.quiet BY <2>4, <3>2 DEF QuietInv
    <3>3. QED BY <3>1, <3>2
  <2>7. QED BY <2>5, <2>6
<1>4. CASE ~reader.listed
  <2>1. reader' = [reader EXCEPT !.pc = "tick"] BY <1>4 DEF ReadActive
  <2>2. /\ Typed(reader') /\ reader'.pc = "tick" /\ reader'.offset = 0
        /\ reader'.quiet = reader.quiet /\ reader'.got = reader.got
    BY <1>0, <2>1 DEF Typed, ReaderPC
  <2>3. Emitted' = Emitted /\ EmittedInOrder'
    BY <2>2 DEF Emitted, EmittedInOrder, ReaderInv
  <2>4. FollowsFrom(0)'
    BY <1>0, <1>1, <2>2, <2>3 DEF FollowsFrom, FreshFrom, Fresh
  <2>5. ReaderInv'
    BY <1>0, <1>1, <2>2, <2>3, <2>4, IsTyped DEF ReaderInv, Following
  <2>6. reader'.quiet => SettledUpto(0)'
    BY <1>0, <1>2, <2>2, <2>3 DEF SettledUpto, Settled
  <2>7. QuietInv'
    <3> HIDE DEF FollowsFrom, SettledUpto
    <3>1. QED BY <1>0, <1>1, <2>2, <2>4, <2>6 DEF QuietInv, Following
  <2>8. QED BY <1>4, <2>5, <2>7
<1>5. QED BY <1>3, <1>4

LEMMA TickSizeKeepsReader ==
    ASSUME LogInv, ReaderInv, QuietInv, TickSize
    PROVE  ReaderInv' /\ QuietInv'
<1>0. /\ Typed(reader) /\ reader.pc = "tick" /\ Following /\ UNCHANGED <<text, written>>
      /\ text[0] \in Seq(Line) /\ Bytes(text[0]) \in Nat /\ reader.offset \in Nat
      /\ \A k \in 0..Len(text[0]) : FollowsFrom(k) => reader.offset <= Bytes(text[0])
  <2>1. /\ reader.pc = "tick" /\ UNCHANGED <<text, written>> /\ text[0] \in Seq(Line)
        /\ reader.offset \in Nat
    BY ReaderTypes DEF TickSize, Reads, logVars
  <2>2. \A k \in 0..Len(text[0]) : FollowsFrom(k) => reader.offset <= Bytes(text[0])
    BY <2>1, UptoBounded DEF FollowsFrom
  <2>3. Typed(reader) BY IsTyped DEF ReaderInv
  <2>4. 0 \in 0..Len(text[0]) BY <2>1
  <2>5. QED BY <2>1, <2>2, <2>3, <2>4, UptoBounded DEF Following
<1> DEFINE offset == IF Bytes(text[0]) < reader.offset THEN 0 ELSE reader.offset
<1>1. reader' = [reader EXCEPT !.pc = "fetch", !.offset = offset] /\ offset \in Nat
  BY <1>0 DEF TickSize
<1>2. \A k \in 0..Len(text[0]) : FollowsFrom(k) => offset = reader.offset BY <1>0
<1> HIDE DEF offset
<1>3. /\ Typed(reader') /\ reader'.pc = "fetch" /\ reader'.offset = offset
      /\ reader'.quiet = reader.quiet /\ reader'.got = reader.got
  BY <1>0, <1>1 DEF Typed, ReaderPC
<1>4. Emitted' = Emitted /\ EmittedInOrder' /\ Following'
  BY <1>3 DEF Emitted, EmittedInOrder, ReaderInv, Following
<1>5. \A k \in 0..Len(text[0]) : FollowsFrom(k) => FollowsFrom(k)'
  BY <1>0, <1>2, <1>3, <1>4 DEF FollowsFrom, FreshFrom, Fresh
<1>6. FreshFrom(0, 0) => FreshFrom(0, 0)' BY <1>0, <1>4 DEF FreshFrom, Fresh
<1>7. ReaderInv'
  <2>1. reader' \in ReaderType BY <1>3, IsTyped
  <2>2. (FreshFrom(0, 0) \/ \E k \in 0..Len(text[0]) : FollowsFrom(k))'
    BY <1>0, <1>5, <1>6 DEF ReaderInv
  <2>3. QED BY <1>0, <1>3, <1>4, <2>1, <2>2 DEF ReaderInv
<1>8. \A k \in 0..Len(text[0]) : SettledUpto(k) => SettledUpto(k)'
  BY <1>0, <1>4 DEF SettledUpto, Settled
<1>9. QuietInv'
  <2> HIDE DEF FollowsFrom, SettledUpto
  <2>1. QED BY <1>0, <1>3, <1>4, <1>5, <1>8 DEF QuietInv
<1>10. QED BY <1>7, <1>9

LEMMA TickReadKeepsReader ==
    ASSUME LogInv, ReaderInv, QuietInv, TickRead
    PROVE  ReaderInv' /\ QuietInv' /\ (reader.quiet => Complete')
<1> DEFINE size == Bytes(text[0])
           offset == IF size > reader.offset THEN size ELSE reader.offset
<1>0. /\ Typed(reader) /\ reader.pc = "fetch" /\ Following /\ UNCHANGED <<text, written>>
      /\ 0 \in Slots /\ text[0] \in Seq(Line) /\ Len(text[0]) \in Nat
      /\ size \in Nat /\ reader.offset \in Nat /\ offset \in Nat
      /\ reader' = [reader EXCEPT !.pc = "tick", !.got = @ \o After(text[0], reader.offset),
                                  !.offset = offset]
  <2>1. /\ reader.pc = "fetch" /\ UNCHANGED <<text, written>> /\ text[0] \in Seq(Line)
        /\ reader.offset \in Nat /\ 0 \in Slots /\ Len(text[0]) \in Nat
        /\ reader' = [reader EXCEPT !.pc = "tick", !.got = @ \o After(text[0], reader.offset),
                                    !.offset = offset]
    BY ReaderTypes DEF TickRead, Reads, logVars
  <2>2. Typed(reader) BY IsTyped DEF ReaderInv
  <2>3. 0 \in 0..Len(text[0]) BY <2>1
  <2>4. size \in Nat BY <2>1, <2>3, UptoBounded
  <2>5. QED BY <2>1, <2>2, <2>4 DEF Following
<1> HIDE DEF offset
<1>1. reader'.got = reader.got \o After(text[0], reader.offset) BY <1>0 DEF Typed
<1>2. ASSUME NEW k \in 0..Len(text[0]), Passes(text[0], reader.offset, k), FreshFrom(0, k)
      PROVE  /\ Typed(reader') /\ reader'.pc = "tick" /\ reader'.offset = offset
             /\ reader'.quiet = reader.quiet /\ Emitted' = Emitted \union Behind(0, k)
             /\ EmittedInOrder' /\ \A e \in Emitted' : e <= written
  <2>1. /\ reader'.got \in Seq(Entry) /\ Emitted' = Emitted \union Behind(0, k)
        /\ EmittedInOrder' /\ \A e \in Emitted' : e <= written
    BY <1>0, <1>1, <1>2, Emitting
  <2>2. /\ Typed(reader') /\ reader'.pc = "tick" /\ reader'.offset = offset
        /\ reader'.quiet = reader.quiet
    <3>1. /\ Typed(reader) /\ offset \in Nat
          /\ reader' = [reader EXCEPT !.pc = "tick", !.got = @ \o After(text[0], reader.offset),
                                  !.offset = offset]
      BY <1>0
    <3>2. QED BY <2>1, <3>1 DEF Typed, ReaderPC
  <2>3. QED BY <2>1, <2>2
<1>3. ASSUME NEW k \in 0..Len(text[0]), FollowsFrom(k)
      PROVE  /\ ReaderInv' /\ FollowsFrom(Len(text[0]))' /\ reader'.pc = "tick"
             /\ reader'.quiet = reader.quiet
             /\ SettledUpto(k) => Complete' /\ SettledUpto(Len(text[0]))'
  <2>1. Passes(text[0], reader.offset, k) /\ FreshFrom(0, k) /\ reader.offset <= size
    BY <1>0, <1>3, AfterExact, UptoBounded DEF FollowsFrom
  <2>2. offset = size BY <1>0, <2>1 DEF offset
  <2>3. QED BY <1>0, <1>1, <1>2, <2>1, <2>2, CaughtUp DEF SettledUpto
<1>4. ASSUME FreshFrom(0, 0) PROVE ReaderInv'
  <2>1. PICK k \in 0..Len(text[0]) : Passes(text[0], reader.offset, k) BY <1>0, AfterSome
  <2>2. FreshFrom(0, k) BY <1>0, <1>4 DEF FreshFrom
  <2>3. CASE size >= reader.offset
    <3>1. offset = size BY <1>0, <2>3 DEF offset
    <3>2. QED BY <1>0, <1>1, <1>2, <2>1, <2>2, <3>1, CaughtUp
  <2>4. CASE size < reader.offset
    <3>1. Passes(text[0], reader.offset, Len(text[0])) BY <1>0, <2>4, AfterEnd
    <3>2. Len(text[0]) \in 0..Len(text[0]) /\ FreshFrom(0, Len(text[0]))
      BY <1>0 DEF FreshFrom
    <3>3. Behind(0, Len(text[0])) = {} BY <1>0 DEF Behind
    <3>4. /\ Typed(reader') /\ reader'.pc = "tick" /\ Emitted' = Emitted
          /\ EmittedInOrder' /\ \A e \in Emitted' : e <= written
      BY <1>2, <3>1, <3>2, <3>3
    <3>5. FreshFrom(0, 0)' BY <1>0, <1>4, <3>4 DEF FreshFrom, Fresh
    <3>6. QED BY <1>0, <3>4, <3>5, IsTyped DEF ReaderInv, Following
  <2>5. QED BY <1>0, <2>3, <2>4
<1>5. ReaderInv' BY <1>0, <1>3, <1>4 DEF ReaderInv
<1>6. CASE reader.quiet
  <2>1. PICK k \in 0..Len(text[0]) : FollowsFrom(k) /\ SettledUpto(k)
    BY <1>0, <1>6 DEF QuietInv
  <2>2. Complete' /\ QuietInv' BY <1>0, <1>3, <2>1, CaughtUpQuietly
  <2>3. QED BY <1>5, <2>2
<1>7. CASE ~reader.quiet
  <2>1. reader'.quiet = reader.quiet BY <1>0 DEF Typed
  <2>2. QED BY <1>5, <1>7, <2>1 DEF QuietInv
<1>8. QED BY <1>6, <1>7

LEMMA ReaderKeepsReader ==
    ASSUME LogInv, ReaderInv, QuietInv, ReaderStep
    PROVE  ReaderInv' /\ QuietInv' /\ UNCHANGED logVars
<1>1. UNCHANGED logVars
  BY DEF ReaderStep, ProbeSegment, ProbeActive, ReadSegment, ReadActive, TickSize, TickRead
<1>2. QED
  BY <1>1, ProbeKeepsReader, ReadSegmentKeepsReader, ReadActiveKeepsReader,
     TickSizeKeepsReader, TickReadKeepsReader DEF ReaderStep

LEMMA ReaderInvInit == ReadInit => ReaderInv /\ QuietInv
<1> SUFFICES ASSUME ReadInit PROVE ReaderInv /\ QuietInv
  OBVIOUS
<1>1. reader = [pc |-> "idle", n |-> 1, listed |-> FALSE, got |-> <<>>,
                offset |-> 0, quiet |-> TRUE]
  BY DEF ReadInit
<1>2. reader \in ReaderType
  <2>1. <<>> \in Seq(Entry) /\ 1 \in Nat /\ 0 \in Nat OBVIOUS
  <2>2. Typed(reader) BY <1>1, <2>1 DEF Typed, ReaderPC
  <2>3. QED BY <2>2, IsTyped
<1>3. Emitted = {} /\ EmittedInOrder BY <1>1 DEF Emitted, EmittedInOrder
<1>4. 1 - 1 \in Slots BY SlotFacts
<1>5. QED BY <1>1, <1>2, <1>3, <1>4 DEF ReaderInv, QuietInv, Following

-----------------------------------------------------------------------------
(* The prune pass deletes rotated segments only, and the writer's ladder   *)
(* and count are none the worse for it.                                    *)
LEMMA UnlinkKeeps ==
    ASSUME LogInv, SizeInv, NEW s \in Slots \ {0}, Unlink(s),
           UNCHANGED <<printed, written, writer>>
    PROVE  LogInv' /\ SizeInv' /\ Empties(s)
<1>1. /\ SegmentsOrdered' /\ exists' \in SUBSET Slots /\ exists' = exists \ {s}
      /\ text' \in [Slots -> Seq(Line)] /\ text'[s] = <<>> /\ Len(text'[s]) = 0
      /\ \A t \in Slots \ {s} : text'[t] = text[t]
  BY UnlinkOrdered DEF Unlink
<1>2. Empties(s) BY <1>1 DEF Empties
<1>3. Ladder'
  <2>1. writer.pc = "shift" => writer.n + 1 \in Slots
    BY SlotFacts DEF LogInv, Ladder, LogTypeOK, WriterType
  <2>2. QED BY <1>1, <2>1 DEF LogInv, Ladder
<1>4. Numbering'
  <2>1. \A t \in Slots : \A i \in 1..Len(text'[t]) : text'[t][i].no <= written
    <3> SUFFICES ASSUME NEW t \in Slots, NEW i \in 1..Len(text'[t])
                 PROVE  text'[t][i].no <= written
      OBVIOUS
    <3>1. t # s BY <1>1
    <3>2. QED BY <1>1, <3>1 DEF LogInv, Numbering
  <2>2. QED BY <2>1 DEF LogInv, Numbering
<1>5. LogInv' BY <1>1, <1>3, <1>4 DEF LogInv, LogTypeOK
<1>6. SizesBounded' BY <1>2, SmallerFiles DEF SizeInv
<1>7. text'[0] = text[0] BY <1>1, SlotFacts
<1>8. Counting' /\ NoEmptySegment'
  BY <1>1, <1>7 DEF SizeInv, Counting, Rotating, NoEmptySegment, LogInv, LogTypeOK
<1>9. QED BY <1>2, <1>5, <1>6, <1>8 DEF SizeInv

PrunerType == [pc : {"idle", "delete", "done"}, retention : Nat, cutoff : Nat,
               doomed : SUBSET (Slots \ {0})]

(* While no writer may start, what is left of the list is what is left of  *)
(* the expired segments.                                                   *)
PruneInv ==
    ~ConcurrentUps /\ pruner.pc = "delete" =>
        /\ Writes("off") /\ pruner.doomed \subseteq exists
        /\ \A s \in exists \ {0} : s \in pruner.doomed <=> LastNo(s) < pruner.cutoff

RetentionInv ==
    LogInv /\ SizeInv /\ ReaderInv /\ QuietInv /\ pruner \in PrunerType /\ PruneInv

LEMMA RetentionInvInit == RetentionInit => RetentionInv
<1> SUFFICES ASSUME RetentionInit PROVE RetentionInv
  OBVIOUS
<1>1. LogInit /\ ReadInit /\ pruner = [pc |-> "idle", retention |-> 0, cutoff |-> 0, doomed |-> {}]
  BY DEF RetentionInit, ReadInit
<1>2. pruner \in PrunerType /\ PruneInv BY <1>1 DEF PrunerType, PruneInv
<1>3. QED BY <1>1, <1>2, LogInvInit, CountingInit, ReaderInvInit DEF RetentionInv

LEMMA PruneDeletes ==
    ASSUME RetentionInv, PruneDelete
    PROVE  \E s \in pruner.doomed :
              /\ s \in Slots \ {0} /\ Unlink(s) /\ pruner.pc = "delete"
              /\ pruner'.doomed = pruner.doomed \ {s} /\ pruner'.cutoff = pruner.cutoff
              /\ pruner' \in PrunerType /\ pruner'.pc = "delete"
<1>1. pruner \in PrunerType BY DEF RetentionInv
<1>2. PICK s \in pruner.doomed : Unlink(s) /\ pruner' = [pruner EXCEPT !.doomed = @ \ {s}]
  BY DEF PruneDelete
<1>3. s \in Slots \ {0} BY <1>1 DEF PrunerType
<1>4. pruner.pc = "delete" BY DEF PruneDelete
<1>5. /\ pruner'.doomed = pruner.doomed \ {s} /\ pruner'.cutoff = pruner.cutoff
      /\ pruner' \in PrunerType /\ pruner'.pc = "delete"
  BY <1>1, <1>2, <1>4 DEF PrunerType
<1>6. QED BY <1>2, <1>3, <1>4, <1>5

LEMMA RetentionInvStep ==
    ASSUME RetentionInv, RetentionNext
    PROVE  RetentionInv'
<1>0. /\ LogInv /\ SizeInv /\ ReaderInv /\ QuietInv /\ pruner \in PrunerType /\ PruneInv
  BY DEF RetentionInv
<1>1. CASE (ConcurrentUps \/ pruner.pc # "delete") /\ WriterBeside /\ UNCHANGED pruner
  <2>1. WriterStep BY <1>1 DEF WriterBeside
  <2>2. PruneInv' BY <1>1 DEF PruneInv
  <2>3. QED
    BY <1>0, <1>1, <2>1, <2>2, LogInvStep, CountingStep, WriterKeepsReader DEF RetentionInv
<1>u. ASSUME UNCHANGED logVars PROVE LogInv' /\ SizeInv'
  BY <1>0, <1>u
  DEF logVars, LogInv, LogTypeOK, SegmentsOrdered, Ladder, Numbering, SizeInv, SizesBounded,
      Counting, NoEmptySegment, Rotating
<1>v. ASSUME UNCHANGED readVars PROVE LogInv' /\ SizeInv' /\ ReaderInv' /\ QuietInv'
  <2>1. UNCHANGED <<text, written, reader>> /\ UNCHANGED logVars
    BY <1>v DEF readVars, logVars
  <2>2. Beside BY <1>0, <2>1 DEF Beside, ReaderInv
  <2>3. QED BY <1>0, <1>u, <2>1, <2>2, UnchangedBeside
<1>2. CASE ReaderStep /\ UNCHANGED pruner
  <2>1. UNCHANGED logVars BY <1>0, <1>2, ReaderKeepsReader
  <2>2. PruneInv' BY <1>0, <1>2, <2>1 DEF PruneInv, logVars, Writes, LastNo
  <2>3. QED BY <1>0, <1>2, <1>u, <2>1, <2>2, ReaderKeepsReader DEF RetentionInv
<1>3. CASE PruneScan
  <2>0. PICK r \in Retentions : \E c \in Cutoffs(r) :
           pruner' = [pc |-> "delete", retention |-> r, cutoff |-> c, doomed |->
                       {s \in exists \ {0} : text[s] # <<>> /\ LastNo(s) < c}]
    BY <1>3 DEF PruneScan
  <2>1. PICK c \in Cutoffs(r) :
           pruner' = [pc |-> "delete", retention |-> r, cutoff |-> c, doomed |->
                       {s \in exists \ {0} : text[s] # <<>> /\ LastNo(s) < c}]
    BY <2>0
  <2>2. /\ UNCHANGED readVars /\ Writes("off") /\ exists \in SUBSET Slots /\ printed \in Nat
        /\ \A s \in exists \ {0} : text[s] # <<>>
    BY <1>0, <1>3 DEF PruneScan, SizeInv, NoEmptySegment, LogInv, LogTypeOK
  <2>3. c \in Nat /\ r \in Nat BY <2>2, RetentionAssumption DEF Cutoffs
  <2>4. pruner' \in PrunerType BY <2>1, <2>2, <2>3 DEF PrunerType
  <2>5. PruneInv' BY <2>1, <2>2 DEF PruneInv, readVars, Writes, LastNo
  <2>6. QED BY <1>v, <2>2, <2>4, <2>5 DEF RetentionInv
<1>4. CASE PruneDelete
  <2>1. PICK s \in pruner.doomed :
              /\ s \in Slots \ {0} /\ Unlink(s) /\ pruner.pc = "delete"
              /\ pruner'.doomed = pruner.doomed \ {s} /\ pruner'.cutoff = pruner.cutoff
              /\ pruner' \in PrunerType /\ pruner'.pc = "delete"
    BY <1>4, PruneDeletes
  <2>2. UNCHANGED <<printed, written, writer, reader>> BY <1>4 DEF PruneDelete
  <2>3. LogInv' /\ SizeInv' /\ Empties(s) BY <1>0, <2>1, <2>2, UnlinkKeeps
  <2>4. Beside BY <1>0, <2>2 DEF Beside, ReaderInv
  <2>5. ReaderInv' BY <1>0, <2>1, <2>2, <2>3, <2>4, MovedBeside
  <2>6. Emitted' = Emitted BY <2>4, BesideSame
  <2>7. text'[0] = text[0] BY <2>1, <2>3, SlotFacts DEF Empties
  <2>8. ASSUME NEW t \in Slots, \A i \in 1..Len(text[t]) : Settled(text[t][i])
        PROVE  \A i \in 1..Len(text'[t]) : Settled(text[t][i])'
    <3>1. t = s => Len(text'[t]) = 0 BY <2>1, <2>3 DEF Empties
    <3>2. t # s => text'[t] = text[t] BY <2>1, <2>3 DEF Empties
    <3>3. QED BY <2>6, <2>8, <3>1, <3>2 DEF Settled
  <2>9. ASSUME NEW k \in 0..Len(text[0]), FollowsFrom(k) /\ SettledUpto(k)
        PROVE  FollowsFrom(k)' /\ SettledUpto(k)' /\ k \in 0..Len(text'[0])
    <3>1. FollowsFrom(k)' BY <2>2, <2>6, <2>7, <2>9 DEF FollowsFrom, FreshFrom, Fresh
    <3>2. \A i \in 1..k : Settled(text[0][i])' BY <2>6, <2>7, <2>9 DEF SettledUpto, Settled
    <3>3. QED BY <2>7, <2>8, <2>9, <3>1, <3>2 DEF SettledUpto
  <2>10. QuietInv'
    <3> HIDE DEF FollowsFrom, SettledUpto, Settled
    <3>1. QED BY <1>0, <2>2, <2>8, <2>9 DEF QuietInv, Following
  <2>11. PruneInv'
    <3>1. /\ exists' = exists \ {s} /\ exists \subseteq Slots
          /\ \A t \in exists \ {s} : text'[t] = text[t]
      BY <1>0, <2>1, <2>3 DEF Unlink, Empties, LogInv, LogTypeOK
    <3>2. QED BY <1>0, <2>1, <2>2, <3>1 DEF PruneInv, Writes, LastNo
  <2>12. QED BY <2>1, <2>3, <2>5, <2>10, <2>11 DEF RetentionInv
<1>5. CASE PruneDone
  <2>1. UNCHANGED readVars /\ pruner' = [pruner EXCEPT !.pc = "done"] BY <1>5 DEF PruneDone
  <2>2. pruner' \in PrunerType /\ pruner'.pc = "done" BY <1>0, <2>1 DEF PrunerType
  <2>3. QED BY <1>v, <2>1, <2>2 DEF RetentionInv, PruneInv
<1>6. QED
  BY <1>1, <1>2, <1>3, <1>4, <1>5 DEF RetentionNext

LEMMA RetentionInvStutter == RetentionInv /\ UNCHANGED retentionVars => RetentionInv'
<1> SUFFICES ASSUME RetentionInv, UNCHANGED retentionVars PROVE RetentionInv'
  OBVIOUS
<1>0. /\ LogInv /\ SizeInv /\ ReaderInv /\ QuietInv /\ pruner \in PrunerType /\ PruneInv
      /\ UNCHANGED <<exists, text, printed, written, writer, reader, pruner>>
  BY DEF RetentionInv, retentionVars
<1>1. LogInv' /\ SizeInv'
  BY <1>0
  DEF LogInv, LogTypeOK, SegmentsOrdered, Ladder, Numbering, SizeInv, SizesBounded,
      Counting, NoEmptySegment, Rotating
<1>2. Beside BY <1>0 DEF Beside, ReaderInv
<1>3. ReaderInv' /\ QuietInv' BY <1>0, <1>2, UnchangedBeside
<1>4. PruneInv' BY <1>0 DEF PruneInv, Writes, LastNo
<1>5. QED BY <1>0, <1>1, <1>3, <1>4 DEF RetentionInv

THEOREM RetentionInvariant == RetentionSpec => []RetentionInv
BY RetentionInvInit, RetentionInvStep, RetentionInvStutter, PTL DEF RetentionSpec

(* RetentionTypeOK: the files, the writer, the reader and the pass keep    *)
(* their types, and only rotated segments are ever listed for deletion.    *)
THEOREM RetentionTypes == RetentionSpec => []RetentionTypeOK
<1>1. RetentionInv => RetentionTypeOK
  BY DEF RetentionInv, RetentionTypeOK, LogInv, ReaderInv, PrunerType
<1>2. QED BY <1>1, RetentionInvariant, PTL

(* EmittedInOrder: `logs --follow` emits no line twice and none after a    *)
(* later one, whatever is rotated away or pruned under the reader.         *)
THEOREM EmissionInOrder == RetentionSpec => []EmittedInOrder
<1>1. RetentionInv => EmittedInOrder BY DEF RetentionInv, ReaderInv
<1>2. QED BY <1>1, RetentionInvariant, PTL

(* The files stay in order and as small as they were promised to be, with  *)
(* a prune pass at work beside the writer.                                 *)
THEOREM PrunedFilesStayOrdered == RetentionSpec => [](SegmentsOrdered /\ SizesBounded)
<1>1. RetentionInv => SegmentsOrdered /\ SizesBounded
  BY DEF RetentionInv, LogInv, SizeInv
<1>2. QED BY <1>1, RetentionInvariant, PTL

(* While no rotation runs, every read starts where a line begins.          *)
WholeInv == reader.quiet => \A i \in 1..Len(reader.got) : reader.got[i].whole

LEMMA WholeAppends ==
    ASSUME NEW got \in Seq(Entry), NEW lines \in Seq(Line), NEW k \in 0..Len(lines),
           \A i \in 1..Len(got) : got[i].whole
    PROVE  LET all == got \o After(lines, Upto(lines, k))
           IN  \A i \in 1..Len(all) : all[i].whole
<1> DEFINE new == After(lines, Upto(lines, k))
<1>1. /\ new \in Seq(Entry) /\ Len(new) = Len(lines) - k
      /\ \A i \in 1..(Len(lines) - k) : new[i].whole
  BY AfterExact DEF Passes
<1> HIDE DEF new
<1>2. SUFFICES ASSUME NEW i \in 1..Len(got \o new) PROVE (got \o new)[i].whole
  BY DEF new
<1>3. CASE i <= Len(got) BY <1>1, <1>3
<1>4. CASE ~(i <= Len(got))
  <2>1. (got \o new)[i] = new[i - Len(got)] /\ i - Len(got) \in 1..Len(new)
    BY <1>1, <1>4
  <2>2. QED BY <1>1, <2>1
<1>5. QED BY <1>3, <1>4

LEMMA WholeStep ==
    ASSUME RetentionInv, WholeInv, [RetentionNext]_retentionVars PROVE WholeInv'
<1>1. SUFFICES ASSUME reader'.quiet PROVE \A i \in 1..Len(reader'.got) : reader'.got[i].whole
  BY DEF WholeInv
<1>2. LogInv /\ ReaderInv /\ QuietInv /\ reader \in ReaderType
  BY DEF RetentionInv, ReaderInv
<1>3. /\ text \in [Slots -> Seq(Line)] /\ 0 \in Slots /\ reader.got \in Seq(Entry)
      /\ reader.n \in Nat /\ \A s \in Slots : text[s] \in Seq(Line)
  BY <1>2, ReaderTypes
<1>4. CASE UNCHANGED reader BY <1>1, <1>4 DEF WholeInv
<1>5. CASE WriterBeside
  <2>1. reader'.got = reader.got /\ reader.quiet BY <1>1, <1>2, <1>5 DEF WriterBeside, ReaderType
  <2>2. QED BY <2>1 DEF WholeInv
<1>6. CASE ReaderStep
  <2>1. reader.quiet /\ \A i \in 1..Len(reader.got) : reader.got[i].whole
    BY <1>1, <1>2, <1>6
    DEF WholeInv, ReaderStep, ProbeSegment, ProbeActive, ReadSegment, ReadActive, TickSize,
        TickRead, ReaderType
  <2>2. CASE ProbeSegment \/ ProbeActive \/ TickSize
    <3>1. reader'.got = reader.got
      BY <1>2, <2>2 DEF ProbeSegment, ProbeActive, TickSize, ReaderType
    <3>2. QED BY <2>1, <3>1
  <2>3. ASSUME NEW s \in Slots, reader'.got = reader.got \o After(text[s], 0)
        PROVE  \A i \in 1..Len(reader'.got) : reader'.got[i].whole
    <3>1. Upto(text[s], 0) = 0 /\ 0 \in 0..Len(text[s]) BY <1>3, UptoSums
    <3>2. QED BY <1>3, <2>1, <2>3, <3>1, WholeAppends
  <2>4. CASE ReadSegment
    <3>1. reader.n \in Slots BY <1>2, <2>4 DEF ReadSegment, Reads, ReaderInv
    <3>2. reader'.got = reader.got \o After(text[reader.n], 0)
      BY <1>2, <2>4 DEF ReadSegment, ReaderType
    <3>3. QED BY <2>3, <3>1, <3>2
  <2>5. CASE ReadActive
    <3>1. \/ reader'.got = reader.got
          \/ reader'.got = reader.got \o After(text[0], 0)
      BY <1>2, <2>5 DEF ReadActive, ReaderType
    <3>2. QED BY <1>3, <2>1, <2>3, <3>1
  <2>6. CASE TickRead
    <3>1. reader'.got = reader.got \o After(text[0], reader.offset)
      BY <1>2, <2>6 DEF TickRead, ReaderType
    <3>2. PICK k \in 0..Len(text[0]) : reader.offset = Upto(text[0], k)
      BY <1>2, <2>1, <2>6 DEF QuietInv, Following, FollowsFrom, TickRead, Reads
    <3>3. QED BY <1>3, <2>1, <3>1, <3>2, WholeAppends
  <2>7. QED BY <1>6, <2>2, <2>4, <2>5, <2>6 DEF ReaderStep
<1>7. QED
  BY <1>4, <1>5, <1>6
  DEF RetentionNext, retentionVars, PruneScan, PruneDelete, PruneDone, readVars

(* QuietReadIsComplete: while no rotation runs, a poll (or the backlog, if *)
(* it lists the active file) leaves nothing on disk that is later than the *)
(* first line emitted and not emitted, and what it emits are whole lines.  *)
THEOREM QuietReads == RetentionSpec => QuietReadIsComplete
<1> DEFINE Entire == \A i \in 1..Len(reader'.got) : reader'.got[i].whole
    Quietly ==
      /\ reader.quiet /\ reader'.pc = "tick"
      /\ Reads("fetch") \/ (Reads("read") /\ reader.listed)
    Unbroken == \A l \in KeptNumbers : (\E e \in Emitted' : e <= l) => l \in Emitted'
<1>1. ASSUME RetentionInv, RetentionNext, Quietly PROVE Unbroken
  <2>0. LogInv /\ ReaderInv /\ QuietInv /\ RetentionInv' BY <1>1, RetentionInvStep DEF RetentionInv
  <2>1. reader.pc # "tick" BY <1>1 DEF Reads
  <2>2. ReaderStep
    <3>1. reader \in ReaderType BY <2>0 DEF ReaderInv
    <3>2. reader'.pc # reader.pc BY <1>1, <2>1
    <3>3. CASE WriterBeside BY <3>1, <3>2, <3>3 DEF WriterBeside, ReaderType
    <3>4. CASE PruneScan \/ PruneDelete \/ PruneDone
      BY <3>2, <3>4 DEF PruneScan, PruneDelete, PruneDone, readVars
    <3>5. QED BY <1>1, <3>3, <3>4 DEF RetentionNext
  <2>3. reader.quiet BY <1>1
  <2>4. Complete' /\ UNCHANGED text
    <3>1. CASE ProbeSegment \/ ProbeActive \/ TickSize
      BY <1>1, <2>1, <3>1 DEF ProbeSegment, ProbeActive, TickSize, Reads
    <3>2. CASE ReadSegment
      <4>1. reader'.pc = reader.pc
        BY <2>0, <3>2 DEF ReadSegment, ReaderInv, ReaderType
      <4>2. QED BY <1>1, <2>1, <4>1
    <3>3. CASE ReadActive
      <4>1. reader.listed /\ UNCHANGED text BY <1>1, <3>3 DEF ReadActive, Reads, logVars
      <4>2. QED BY <2>0, <2>3, <3>3, <4>1, ReadActiveKeepsReader
    <3>4. CASE TickRead BY <2>0, <2>3, <3>4, TickReadKeepsReader DEF TickRead, logVars
    <3>5. QED BY <2>2, <3>1, <3>2, <3>3, <3>4 DEF ReaderStep
  <2>5. ASSUME NEW l \in KeptNumbers, NEW e \in Emitted', e <= l PROVE l \in Emitted'
    <3>1. PICK s \in Slots : \E i \in 1..Len(text[s]) : l = text[s][i].no BY KeptHas
    <3>2. PICK i \in 1..Len(text[s]) : l = text[s][i].no BY <3>1
    <3>3. l \in Emitted' \/ l < e BY <2>4, <3>2 DEF Complete, Settled
    <3>4. text[s] \in Seq(Line) BY <2>0, ReaderTypes
    <3>5. l \in Nat
      <4>1. text[s][i] \in Line BY <3>2, <3>4
      <4>2. QED BY <3>2, <4>1 DEF Line
    <3>6. e \in Nat
      <4>1. reader' \in ReaderType BY <2>0 DEF RetentionInv, ReaderInv
      <4>2. reader'.got \in Seq(Entry) BY <4>1 DEF ReaderType, Entry
      <4>3. PICK j \in 1..Len(reader'.got) : e = reader'.got[j].no BY DEF Emitted
      <4>4. reader'.got[j] \in Entry BY <4>2, <4>3
      <4>5. QED BY <4>3, <4>4 DEF Entry
    <3>7. QED BY <2>5, <3>3, <3>5, <3>6
  <2>6. QED BY <2>5
<1>2. ASSUME RetentionInv, WholeInv, RetentionNext, Quietly PROVE Entire
  <2>1. WholeInv' BY <1>2, WholeStep
  <2>2. reader'.quiet
    <3>1. reader \in ReaderType /\ reader.quiet /\ reader.pc # reader'.pc
      BY <1>2 DEF RetentionInv, ReaderInv, Reads
    <3>2. CASE WriterBeside BY <3>1, <3>2 DEF WriterBeside, ReaderType
    <3>3. CASE ReaderStep
      BY <3>1, <3>3
      DEF ReaderStep, ProbeSegment, ProbeActive, ReadSegment, ReadActive, TickSize, TickRead,
          ReaderType
    <3>4. CASE PruneScan \/ PruneDelete \/ PruneDone
      BY <3>1, <3>4 DEF PruneScan, PruneDelete, PruneDone, readVars
    <3>5. QED BY <1>2, <3>2, <3>3, <3>4 DEF RetentionNext
  <2>3. QED BY <2>1, <2>2 DEF WholeInv
<1>3. /\ RetentionInv /\ WholeInv /\ [RetentionNext]_retentionVars
         => [Quietly => Unbroken /\ Entire]_readVars
  <2>1. UNCHANGED retentionVars => UNCHANGED readVars BY DEF retentionVars, readVars
  <2>2. QED BY <1>1, <1>2, <2>1
<1>4. RetentionInit => WholeInv BY DEF RetentionInit, ReadInit, WholeInv
<1>5. RetentionInv /\ WholeInv /\ [RetentionNext]_retentionVars => WholeInv' BY WholeStep
<1>6. QED
  BY <1>3, <1>4, <1>5, RetentionInvariant, PTL DEF RetentionSpec, QuietReadIsComplete

-----------------------------------------------------------------------------
(* PrunesOnlyExpired: when no other up starts the service meanwhile, every *)
(* line a pass deletes is older than its cutoff.                           *)
THEOREM PrunesSafely == ASSUME ~ConcurrentUps PROVE RetentionSpec => PrunesOnlyExpired
<1> DEFINE Only == pruner' # pruner => \A l \in KeptNumbers \ KeptNumbers' : l < pruner.cutoff
<1>1. ASSUME RetentionInv, RetentionNext PROVE Only
  <2> SUFFICES ASSUME pruner' # pruner, NEW l \in KeptNumbers \ KeptNumbers'
               PROVE  l < pruner.cutoff
    OBVIOUS
  <2>1. CASE UNCHANGED readVars
    BY <2>1 DEF readVars, KeptNumbers, Kept, LinesOf
  <2>2. CASE PruneDelete
    <3>1. PICK s \in pruner.doomed :
                /\ s \in Slots \ {0} /\ Unlink(s) /\ pruner.pc = "delete"
      BY <1>1, <2>2, PruneDeletes
    <3>2. /\ LogInv /\ \A t \in Slots \ {s} : text'[t] = text[t]
      BY <1>1, <3>1, UnlinkOrdered DEF RetentionInv
    <3>3. PICK t \in Slots : \E i \in 1..Len(text[t]) : l = text[t][i].no BY KeptHas
    <3>4. PICK i \in 1..Len(text[t]) : l = text[t][i].no BY <3>3
    <3>5. t = s BY <3>2, <3>4, KeptHasNext
    <3>6. LastNo(s) < pruner.cutoff BY <1>1, <3>1 DEF RetentionInv, PruneInv
    <3> DEFINE size == Len(text[s])
    <3>7. text[s] \in Seq(Line) /\ size \in Nat /\ i \in 1..size /\ size \in 1..size
      BY <3>1, <3>2, <3>4, <3>5 DEF LogInv, LogTypeOK
    <3>8. i = size \/ text[s][i].no < text[s][size].no
      BY <3>1, <3>2, <3>7 DEF LogInv, SegmentsOrdered
    <3>9. text[s][i].no \in Nat /\ text[s][size].no \in Nat
      <4>1. text[s][i] \in Line /\ text[s][size] \in Line BY <3>7
      <4>2. QED BY <4>1 DEF Line
    <3>10. pruner.cutoff \in Nat BY <1>1 DEF RetentionInv, PrunerType
    <3>11. LastNo(s) = text[s][size].no BY DEF LastNo
    <3> HIDE DEF size
    <3>12. QED BY <3>4, <3>5, <3>6, <3>8, <3>9, <3>10, <3>11
  <2>3. QED BY <1>1, <2>1, <2>2 DEF RetentionNext, PruneScan, PruneDone
<1>2. RetentionInv /\ [RetentionNext]_retentionVars => [Only]_retentionVars BY <1>1
<1>3. QED BY <1>2, RetentionInvariant, PTL DEF RetentionSpec, PrunesOnlyExpired

(* PrunesAllExpired: and when a pass with a retention window is over, no   *)
(* expired segment is left.                                                *)
THEOREM PrunesThoroughly == ASSUME ~ConcurrentUps PROVE RetentionSpec => PrunesAllExpired
<1> DEFINE Thorough == pruner.pc = "delete" /\ pruner'.pc = "done" /\ pruner.retention > 0 =>
              \A s \in exists \ {0} : LastNo(s) >= pruner.cutoff
<1>1. ASSUME RetentionInv, RetentionNext PROVE Thorough
  <2> SUFFICES ASSUME pruner.pc = "delete", pruner'.pc = "done", NEW s \in exists \ {0}
               PROVE  LastNo(s) >= pruner.cutoff
    OBVIOUS
  <2>1. pruner.doomed = {}
    <3>1. CASE PruneDelete BY <1>1, <3>1, PruneDeletes
    <3>2. CASE PruneDone BY <3>2 DEF PruneDone
    <3>3. QED BY <1>1, <3>1, <3>2 DEF RetentionNext, PruneScan
  <2>2. ~(LastNo(s) < pruner.cutoff) BY <1>1, <2>1 DEF RetentionInv, PruneInv
  <2>3. s \in Slots /\ text[s] \in Seq(Line) /\ text[s] # <<>>
    BY <1>1 DEF RetentionInv, LogInv, LogTypeOK, SizeInv, NoEmptySegment
  <2>4. LastNo(s) \in Nat
    <3>1. Len(text[s]) \in 1..Len(text[s]) BY <2>3
    <3>2. text[s][Len(text[s])] \in Line BY <2>3, <3>1
    <3>3. QED BY <3>2 DEF LastNo, Line
  <2>5. pruner.cutoff \in Nat BY <1>1 DEF RetentionInv, PrunerType
  <2>6. QED BY <2>2, <2>4, <2>5
<1>2. RetentionInv /\ [RetentionNext]_retentionVars => [Thorough]_retentionVars BY <1>1
<1>3. QED BY <1>2, RetentionInvariant, PTL DEF RetentionSpec, PrunesAllExpired

-----------------------------------------------------------------------------
(* The merged backlog of `logs`.  An event is told from others of its      *)
(* service and moment by where it stood in the log.                        *)

Stamps == Moment \union {Untimed}
Event == [ts : Stamps, env : Nat, svc : Nat, no : Nat]

LineOrder == {pair \in Event \X Event :
                 (pair[1].ts = pair[2].ts /\ pair[1].env = pair[2].env /\ pair[1].svc = pair[2].svc)
                    => pair[1].no < pair[2].no}
TimeOrder == {pair \in Event \X Event : ~Precedes(pair[2].ts, pair[1].ts)}

(* Positive tails, and no bound of a whole second, which as text lies after *)
(* every fraction of its second.                                           *)
PlainQueries ==
    \A query \in Queries :
       /\ query.tail = All \/ query.tail > 0
       /\ {query.since, query.until} \subseteq Stamps

LEMMA WholeType == Whole \in Nat BY SMT DEF Whole

LEMMA PrecedesOrders ==
    /\ \A a \in Stamps : ~Precedes(a, a)
    /\ \A a, b \in Stamps : Precedes(a, b) => ~Precedes(b, a)
    /\ \A a, b, c \in Stamps : Precedes(a, b) /\ Precedes(b, c) => Precedes(a, c)
    /\ \A a, b \in Stamps : a = b \/ Precedes(a, b) \/ Precedes(b, a)
<1>1. /\ \A a \in Moment : a # Untimed /\ a[1] \in Nat /\ a[2] \in Nat
      /\ \A a, b \in Moment : a[1] = b[1] /\ a[2] = b[2] => a = b
  <2>1. \A a \in Moment : a = <<a[1], a[2]>> /\ a[1] \in Nat /\ a[2] \in Nat
    BY WholeType DEF Moment
  <2>2. \A x, y : Len(<<x, y>>) = 2 /\ Len(<<>>) = 0 OBVIOUS
  <2>3. \A x, y : <<x, y>> # <<>> BY <2>2
  <2>4. QED BY <2>1, <2>3 DEF Untimed
<1>2. \A a, b : Precedes(a, b)
                  <=> b # Untimed /\ ((a = Untimed) \/ (a[1] < b[1])
                                       \/ (a[1] = b[1] /\ a[2] < b[2]))
  BY DEF Precedes
<1>3. \A a \in Stamps : a = Untimed \/ a \in Moment BY DEF Stamps
<1> HIDE DEF Untimed, Moment, Stamps
<1>4. ASSUME NEW a \in Stamps PROVE ~Precedes(a, a)
  BY <1>1, <1>2, <1>3
<1>5. ASSUME NEW a \in Stamps, NEW b \in Stamps, Precedes(a, b) PROVE ~Precedes(b, a)
  BY <1>1, <1>2, <1>3, <1>5
<1>6. ASSUME NEW a \in Stamps, NEW b \in Stamps, NEW c \in Stamps, Precedes(a, b), Precedes(b, c)
      PROVE  Precedes(a, c)
  <2>1. b # Untimed /\ c # Untimed /\ b \in Moment /\ c \in Moment BY <1>2, <1>3, <1>6
  <2>2. CASE a = Untimed BY <1>2, <2>1, <2>2
  <2>3. CASE a # Untimed
    <3>1. /\ a[1] \in Nat /\ a[2] \in Nat /\ b[1] \in Nat /\ b[2] \in Nat
          /\ c[1] \in Nat /\ c[2] \in Nat
      BY <1>1, <1>3, <2>1, <2>3
    <3>2. /\ a[1] < b[1] \/ (a[1] = b[1] /\ a[2] < b[2])
          /\ b[1] < c[1] \/ (b[1] = c[1] /\ b[2] < c[2])
      BY <1>2, <1>6, <2>1, <2>3
    <3>3. a[1] < c[1] \/ (a[1] = c[1] /\ a[2] < c[2]) BY <3>1, <3>2
    <3>4. QED BY <1>2, <2>1, <3>3
  <2>4. QED BY <2>2, <2>3
<1>7. ASSUME NEW a \in Stamps, NEW b \in Stamps, a # b, ~Precedes(a, b) PROVE Precedes(b, a)
  <2>1. a # Untimed BY <1>2, <1>7
  <2>2. CASE b = Untimed BY <1>2, <2>1, <2>2
  <2>3. CASE b # Untimed
    <3>1. a \in Moment /\ b \in Moment BY <1>3, <2>1, <2>3
    <3>2. /\ a[1] \in Nat /\ a[2] \in Nat /\ b[1] \in Nat /\ b[2] \in Nat
          /\ ~(a[1] = b[1] /\ a[2] = b[2])
      BY <1>1, <1>7, <3>1
    <3>3. ~(a[1] < b[1]) /\ ~(a[1] = b[1] /\ a[2] < b[2]) BY <1>2, <1>7, <2>3
    <3>4. b[1] < a[1] \/ (b[1] = a[1] /\ b[2] < a[2]) BY <3>2, <3>3
    <3>5. QED BY <1>2, <2>1, <3>4
  <2>4. QED BY <2>2, <2>3
<1>8. QED BY <1>4, <1>5, <1>6, <1>7

(* Lines of one service at one moment are told apart by their order.       *)
LEMMA LineOrderDistinct ==
    ASSUME NEW list \in Seq(Event), Ascends(list, LineOrder) PROVE NoRepeat(list)
<1>0. \A i \in 1..Len(list) : list[i] \in Event OBVIOUS
<1>1. \A i \in 1..Len(list) : list[i].no \in Nat BY <1>0 DEF Event
<1>2. \A i \in 1..Len(list) : <<list[i], list[i]>> \notin LineOrder BY <1>1 DEF LineOrder
<1>3. ASSUME NEW i \in 1..Len(list), NEW j \in 1..Len(list), i < j PROVE list[i] # list[j]
  <2>1. <<list[i], list[j]>> \in LineOrder BY <1>3 DEF Ascends
  <2>2. QED BY <1>2, <2>1
<1>4. \A i, j \in 1..Len(list) : i = j \/ i < j \/ j < i OBVIOUS
<1>5. QED BY <1>3, <1>4 DEF NoRepeat

-----------------------------------------------------------------------------
(* The stable sort.                                                        *)

(* Whether the i-th comes before the k-th in the sorted list.              *)
Leads(list, i, k) ==
    Precedes(list[i].ts, list[k].ts) \/ (list[i].ts = list[k].ts /\ i < k)

(* way leads from places of the sorted list to places of the list.         *)
Sorts(list, way) ==
    LET n == Len(list)
    IN  /\ way \in [1..n -> 1..n]
        /\ \A i \in 1..n : \E p \in 1..n : way[p] = i
        /\ \A p, q \in 1..n : p < q => Leads(list, way[p], way[q])
        /\ Sorted(list) = [p \in 1..n |-> list[way[p]]]

LEMMA SortedSorts ==
    ASSUME NEW list \in Seq(Event) PROVE \E way : Sorts(list, way)
<1> DEFINE n == Len(list)
           Ante(i) == {j \in 1..n : \/ Precedes(list[j].ts, list[i].ts)
                                    \/ list[j].ts = list[i].ts /\ j <= i}
           place == [i \in 1..n |-> Cardinality(Ante(i))]
           way == [p \in 1..n |-> CHOOSE i \in 1..n : place[i] = p]
<1>0. n \in Nat /\ \A i \in 1..n : list[i] \in Event OBVIOUS
<1>1. n \in Nat /\ \A i \in 1..n : list[i].ts \in Stamps BY <1>0 DEF Event
<1>2. Sorted(list) = [p \in 1..n |-> list[way[p]]]
  <2> DEFINE chosen(p) == CHOOSE i \in 1..n : Cardinality(Ante(i)) = p
  <2>1. Sorted(list) = [p \in 1..n |-> list[chosen(p)]] BY DEF Sorted
  <2>2. \A p \in 1..n : chosen(p) = way[p]
    <3>1. \A p : (CHOOSE i \in 1..n : Cardinality(Ante(i)) = p) = CHOOSE i \in 1..n : place[i] = p
      OBVIOUS
    <3>2. \A p \in 1..n : way[p] = CHOOSE i \in 1..n : Cardinality(Ante(i)) = p BY <3>1
    <3>3. QED BY <3>2
  <2> HIDE DEF chosen, way, place, Ante, n
  <2>3. \A p \in 1..n : list[chosen(p)] = list[way[p]] BY <2>2
  <2>4. QED BY <2>1, <2>3
<1>3. IsFiniteSet(1..n) /\ Cardinality(1..n) = n
  <2>1. IsFiniteSet(1..n) /\ Cardinality(1..n) = IF 1 > n THEN 0 ELSE n - 1 + 1
    BY <1>1, FS_Interval, SMTT(30)
  <2>2. QED BY <1>1, <2>1
<1> HIDE DEF n
<1>4. ASSUME NEW i \in 1..n, NEW k \in 1..n
      PROVE  i = k \/ Leads(list, i, k) \/ Leads(list, k, i)
  BY <1>1, PrecedesOrders DEF Leads
<1>5. ASSUME NEW i \in 1..n
      PROVE  Ante(i) \in SUBSET (1..n) /\ i \in Ante(i) /\ place[i] \in 1..n
  <2>1. Ante(i) \in SUBSET (1..n) /\ i \in Ante(i) BY <1>1
  <2> HIDE DEF Ante
  <2>2. IsFiniteSet(Ante(i)) /\ Cardinality(Ante(i)) <= n BY <1>3, <2>1, FS_Subset
  <2>3. Cardinality(Ante(i)) \in Nat BY <2>2, FS_CardinalityType
  <2>4. Cardinality(Ante(i)) # 0 BY <2>1, <2>2, FS_EmptySet
  <2>5. QED BY <1>1, <2>1, <2>2, <2>3, <2>4
<1>6. ASSUME NEW i \in 1..n, NEW k \in 1..n, Leads(list, i, k)
      PROVE  place[i] < place[k]
  <2>1. Ante(i) \in SUBSET Ante(k)
    <3> SUFFICES ASSUME NEW j \in Ante(i) PROVE j \in Ante(k)
      OBVIOUS
    <3>1. j \in 1..n /\ i \in Int /\ j \in Int /\ k \in Int OBVIOUS
    <3>2. QED BY <1>1, <1>6, <3>1, PrecedesOrders DEF Leads
  <2>2. k \notin Ante(i) BY <1>1, <1>6, PrecedesOrders DEF Leads
  <2>3. Ante(k) \in SUBSET (1..n) /\ k \in Ante(k) BY <1>5
  <2> HIDE DEF Ante
  <2>4. IsFiniteSet(Ante(k)) BY <1>3, <2>3, FS_Subset
  <2>5. /\ IsFiniteSet(Ante(i)) /\ Cardinality(Ante(i)) <= Cardinality(Ante(k))
        /\ Cardinality(Ante(k)) = Cardinality(Ante(i)) => Ante(k) = Ante(i)
    BY <2>1, <2>4, FS_Subset
  <2>6. Cardinality(Ante(i)) \in Nat /\ Cardinality(Ante(k)) \in Nat
    BY <2>4, <2>5, FS_CardinalityType
  <2>7. Cardinality(Ante(i)) < Cardinality(Ante(k)) BY <2>2, <2>3, <2>5, <2>6
  <2>8. QED BY <2>7
<1>7. place \in [1..n -> 1..n] BY <1>5
<1> HIDE DEF place
<1>8. \A i, k \in 1..n : place[i] = place[k] => i = k
  <2> SUFFICES ASSUME NEW i \in 1..n, NEW k \in 1..n, place[i] = place[k] PROVE i = k
    OBVIOUS
  <2>1. place[i] \in Int /\ place[k] \in Int BY <1>7
  <2>2. QED BY <1>4, <1>6, <2>1
<1>9. place \in Injection(1..n, 1..n) BY <1>7, <1>8 DEF Injection, IsInjective
<1>10. place \in Surjection(1..n, 1..n) BY <1>3, <1>9, FS_Injection
<1>11. \A p \in 1..n : \E i \in 1..n : place[i] = p BY <1>10 DEF Surjection
<1>12. \A p \in 1..n : way[p] \in 1..n /\ place[way[p]] = p BY <1>11
<1>13. way \in [1..n -> 1..n] BY <1>12
<1> HIDE DEF way
<1>14. \A i \in 1..n : \E p \in 1..n : way[p] = i
  <2> SUFFICES ASSUME NEW i \in 1..n PROVE way[place[i]] = i
    BY <1>7
  <2>1. place[i] \in 1..n BY <1>7
  <2>2. QED BY <1>8, <1>12, <2>1
<1>15. ASSUME NEW p \in 1..n, NEW q \in 1..n, p < q PROVE Leads(list, way[p], way[q])
  <2>1. way[p] # way[q] BY <1>12, <1>15
  <2>2. ~Leads(list, way[q], way[p])
    <3> SUFFICES ASSUME Leads(list, way[q], way[p]) PROVE FALSE
      OBVIOUS
    <3>1. place[way[q]] < place[way[p]] BY <1>6, <1>12
    <3>2. q < p BY <1>12, <3>1
    <3>3. QED BY <1>15, <3>2
  <2>3. QED BY <1>4, <1>12, <2>1, <2>2
<1>16. Sorts(list, way)
  BY <1>2, <1>13, <1>14, <1>15 DEF Sorts, n
<1>17. QED BY <1>16

LEMMA SortedOrders ==
    ASSUME NEW list \in Seq(Event), Ascends(list, LineOrder)
    PROVE  /\ Sorted(list) \in Seq(Event)
           /\ Ascends(Sorted(list), TimeOrder) /\ Ascends(Sorted(list), LineOrder)
           /\ \A x : Holds(Sorted(list), x) <=> Holds(list, x)
<1> DEFINE n == Len(list)
           new == Sorted(list)
<1>1. PICK way : Sorts(list, way) BY SortedSorts
<1>2. n \in Nat /\ \A i \in 1..n : list[i] \in Event OBVIOUS
<1>3. /\ way \in [1..n -> 1..n] /\ new = [p \in 1..n |-> list[way[p]]]
      /\ \A i \in 1..n : \E p \in 1..n : way[p] = i
      /\ \A p, q \in 1..n : p < q => Leads(list, way[p], way[q])
  BY <1>1 DEF Sorts
<1> HIDE DEF n, new
<1>4. new \in [1..n -> Event]
  BY <1>2, <1>3
<1>5. new \in Seq(Event) /\ Len(new) = n BY <1>2, <1>4
<1>6. \A p \in 1..n : new[p] = list[way[p]] /\ new[p] \in Event BY <1>3, <1>4
<1>7. \A x : Holds(new, x) <=> Holds(list, x)
  <2> SUFFICES ASSUME NEW x PROVE Holds(new, x) <=> Holds(list, x)
    OBVIOUS
  <2>1. ASSUME Holds(new, x) PROVE Holds(list, x)
    <3>1. PICK p \in 1..n : new[p] = x BY <1>5, <2>1 DEF Holds
    <3>2. way[p] \in 1..n /\ list[way[p]] = x BY <1>3, <1>6, <3>1
    <3>3. QED BY <3>2 DEF Holds, n
  <2>2. ASSUME Holds(list, x) PROVE Holds(new, x)
    <3>1. PICK i \in 1..n : list[i] = x BY <2>2 DEF Holds, n
    <3>2. PICK p \in 1..n : way[p] = i BY <1>3
    <3>3. new[p] = x BY <1>6, <3>1, <3>2
    <3>4. QED BY <1>5, <3>3 DEF Holds
  <2>3. QED BY <2>1, <2>2
<1>8. ASSUME NEW p \in 1..n, NEW q \in 1..n, p < q
      PROVE  <<new[p], new[q]>> \in TimeOrder /\ <<new[p], new[q]>> \in LineOrder
  <2>1. Leads(list, way[p], way[q]) BY <1>3, <1>8
  <2>2. new[p].ts \in Stamps /\ new[q].ts \in Stamps BY <1>6 DEF Event
  <2>3. ~Precedes(new[q].ts, new[p].ts) BY <1>6, <2>1, <2>2, PrecedesOrders DEF Leads
  <2>4. ASSUME new[p].ts = new[q].ts PROVE <<new[p], new[q]>> \in LineOrder
    <3>1. way[p] < way[q] BY <1>6, <2>1, <2>2, <2>4, PrecedesOrders DEF Leads
    <3>2. way[p] \in 1..n /\ way[q] \in 1..n BY <1>3
    <3>3. <<list[way[p]], list[way[q]]>> \in LineOrder BY <3>1, <3>2 DEF Ascends, n
    <3>4. QED BY <1>6, <3>3
  <2>5. <<new[p], new[q]>> \in LineOrder BY <1>6, <2>4 DEF LineOrder
  <2>6. QED BY <1>6, <2>3, <2>5 DEF TimeOrder
<1>9. QED BY <1>5, <1>7, <1>8 DEF Ascends, new

-----------------------------------------------------------------------------
(* What is gathered of an environment, and what the cuts leave.            *)

(* A positive tail, or none.                                               *)
Cuts(tail) == tail = All \/ (tail \in Int /\ tail > 0)

LEMMA LastOfIs ==
    ASSUME NEW T, NEW list \in Seq(T), NEW tail, Cuts(tail)
    PROVE  \E off \in 0..Len(list) :
              /\ off = IF tail # All /\ Len(list) > tail THEN Len(list) - tail ELSE 0
              /\ LastOf(list, tail) \in Seq(T)
              /\ Len(LastOf(list, tail)) = Len(list) - off
              /\ \A i \in 1..(Len(list) - off) : off + i \in 1..Len(list)
                                                 /\ LastOf(list, tail)[i] = list[off + i]
<1> DEFINE n == Len(list)
           off == IF tail # All /\ n > tail THEN n - tail ELSE 0
           cut == LastOf(list, tail)
<1>1. n \in Nat OBVIOUS
<1>2. off \in 0..n BY <1>1 DEF Cuts
<1>3. CASE tail = All
  <2>1. cut = list BY <1>3 DEF LastOf
  <2>2. off = 0 BY <1>3
  <2>3. QED BY <1>1, <2>1, <2>2
<1>4. CASE tail # All
  <2>1. tail \in Int /\ tail > 0 BY <1>4 DEF Cuts
  <2>2. cut = SubSeq(list, IF n > tail THEN n - tail + 1 ELSE 1, n) BY <1>4, <2>1 DEF LastOf
  <2>3. (IF n > tail THEN n - tail + 1 ELSE 1) = off + 1 BY <1>1, <1>4, <2>1
  <2>4. cut = SubSeq(list, off + 1, n) BY <2>2, <2>3
  <2> HIDE DEF off, cut
  <2>5. /\ SubSeq(list, off + 1, n) \in Seq(T)
        /\ Len(SubSeq(list, off + 1, n)) = n - off
        /\ \A i \in 1..(n - off) : /\ off + i \in 1..n
                                   /\ SubSeq(list, off + 1, n)[i] = list[off + i]
    <3>1. off + 1 \in 1..(n + 1) /\ off \in Int BY <1>1, <1>2
    <3>2. \A i \in 1..(n - off) : off + i \in 1..n /\ i \in Int BY <1>1, <1>2
    <3>3. \A x \in (off + 1)..n : list[x] \in T BY <1>1, <1>2
    <3>4. SubSeq(list, off + 1, n) \in Seq(T) /\ Len(SubSeq(list, off + 1, n)) = n - off
      BY <1>1, <3>1, <3>3
    <3>5. \A i \in 1..(n - off) : SubSeq(list, off + 1, n)[i] = list[off + i]
      <4> SUFFICES ASSUME NEW i \in 1..(n - off)
                   PROVE  SubSeq(list, off + 1, n)[i] = list[off + i]
        OBVIOUS
      <4>1. SubSeq(list, off + 1, n)[i] = list[(off + 1) + i - 1] BY <1>1, <3>1
      <4>2. (off + 1) + i - 1 = off + i BY <3>1, <3>2
      <4>3. QED BY <4>1, <4>2
    <3>6. QED BY <3>2, <3>4, <3>5
  <2>6. QED BY <1>2, <2>4, <2>5 DEF off, cut
<1>5. QED BY <1>3, <1>4

LEMMA LastOfAscends ==
    ASSUME NEW T, NEW list \in Seq(T), NEW tail, Cuts(tail), NEW R, Ascends(list, R)
    PROVE  /\ LastOf(list, tail) \in Seq(T) /\ Ascends(LastOf(list, tail), R)
           /\ \A x : Holds(LastOf(list, tail), x) => Holds(list, x)
<1> DEFINE n == Len(list)
           cut == LastOf(list, tail)
<1>1. PICK off \in 0..n : /\ cut \in Seq(T) /\ Len(cut) = n - off
                          /\ \A i \in 1..(n - off) : off + i \in 1..n /\ cut[i] = list[off + i]
  BY LastOfIs
<1>2. n \in Nat OBVIOUS
<1> HIDE DEF n, cut
<1>3. ASSUME NEW i \in 1..(n - off), NEW j \in 1..(n - off), i < j PROVE <<cut[i], cut[j]>> \in R
  <2>1. off + i \in 1..n /\ off + j \in 1..n /\ off + i < off + j BY <1>1, <1>2, <1>3
  <2>2. <<list[off + i], list[off + j]>> \in R BY <2>1 DEF Ascends, n
  <2>3. QED BY <1>1, <2>2
<1>4. Ascends(cut, R) BY <1>1, <1>3 DEF Ascends
<1>5. \A x : Holds(cut, x) => Holds(list, x) BY <1>1 DEF Holds, n
<1>6. QED BY <1>1, <1>4, <1>5 DEF cut

LEMMA LinesAscend ==
    ASSUME NEW service \in Service, NEW tail, Cuts(tail)
    PROVE  LET lines == ServiceLines(service, tail)
           IN  /\ lines \in Seq(Nat)
               /\ \A i \in 1..Len(lines) : /\ lines[i] \in 1..Len(service.lines)
                                           /\ service.lines[lines[i]] # Blank
               /\ \A i, j \in 1..Len(lines) : i < j => lines[i] < lines[j]
<1> DEFINE n == Len(service.lines)
           all == [i \in 1..n |-> i]
           S == {i \in 1..n : service.lines[i] # Blank}
           R == {pair \in Nat \X Nat : pair[1] < pair[2]}
           shown == Filtered(all, S)
           lines == ServiceLines(service, tail)
<1>1. n \in Nat
  <2>1. service.lines \in Seq(Moment \union {Untimed, Blank}) BY DEF Service
  <2>2. QED BY <2>1
<1>2. \/ lines = shown
      \/ lines = LastOf(shown, tail)
      \/ lines = <<>>
  BY DEF ServiceLines
<1> HIDE DEF n, lines
<1>3. all \in Seq(Nat) /\ Len(all) = n
  <2>1. all \in [1..n -> Nat] BY <1>1
  <2> HIDE DEF all
  <2>2. QED BY <1>1, <2>1
<1>4. Ascends(all, R) BY <1>1, <1>3 DEF Ascends
<1> HIDE DEF R, all
<1>5. /\ shown \in Seq(Nat) /\ Ascends(shown, R)
      /\ \A x : Holds(shown, x) => x \in S
  <2> HIDE DEF S
  <2>1. QED BY <1>3, <1>4, FilteredAscends, FilteredHolds
<1> HIDE DEF shown, S
<1>6. /\ LastOf(shown, tail) \in Seq(Nat) /\ Ascends(LastOf(shown, tail), R)
      /\ \A x : Holds(LastOf(shown, tail), x) => Holds(shown, x)
  BY <1>5, LastOfAscends
<1>7. <<>> \in Seq(Nat) /\ Ascends(<<>>, R) /\ \A x : ~Holds(<<>>, x)
  BY DEF Ascends, Holds
<1>8. lines \in Seq(Nat) /\ Ascends(lines, R) /\ \A x : Holds(lines, x) => x \in S
  BY <1>2, <1>5, <1>6, <1>7
<1>9. \A i \in 1..Len(lines) : lines[i] \in S BY <1>8 DEF Holds
<1>10. \A i, j \in 1..Len(lines) : i < j => lines[i] < lines[j] BY <1>8 DEF Ascends, R
<1>11. QED BY <1>8, <1>9, <1>10 DEF S, n, lines

(* The streams and the query of a run.                                     *)
Asked ==
    /\ asked.streams \in Seq(Seq(Service))
    /\ Cuts(asked.query.tail)

LEMMA GatheredIs ==
    ASSUME Asked, NEW e \in 1..Len(asked.streams)
    PROVE  /\ Gathered(e) \in Seq(Event) /\ Ascends(Gathered(e), LineOrder)
           /\ \A x : Holds(Gathered(e), x) => x.env = e
<1> DEFINE services == asked.streams[e]
           Lines(s) == ServiceLines(services[s], asked.query.tail)
           Made(s, k) == [ts |-> Stamp(services[s], k), env |-> e, svc |-> s, no |-> k]
           Of(s) == IF InScope(asked.query, s)
                    THEN [i \in 1..Len(Lines(s)) |-> Made(s, Lines(s)[i])] ELSE <<>>
           lists == [s \in 1..Len(services) |-> Of(s)]
<1>1. Gathered(e) = Joined(lists) BY DEF Gathered
<1>2. services \in Seq(Service) /\ e \in Nat BY DEF Asked
<1>3. ASSUME NEW s \in 1..Len(services)
      PROVE  /\ Of(s) \in Seq(Event) /\ Ascends(Of(s), LineOrder)
             /\ \A x : Holds(Of(s), x) => x.env = e /\ x.svc = s
  <2>0. Cuts(asked.query.tail) BY DEF Asked
  <2>1. services[s] \in Service /\ s \in Nat BY <1>2
  <2> HIDE DEF services
  <2>2. /\ Lines(s) \in Seq(Nat)
        /\ \A i \in 1..Len(Lines(s)) : /\ Lines(s)[i] \in 1..Len(services[s].lines)
                                       /\ services[s].lines[Lines(s)[i]] # Blank
        /\ \A i, j \in 1..Len(Lines(s)) : i < j => Lines(s)[i] < Lines(s)[j]
    BY <2>0, <2>1, LinesAscend, ZenonT(30)
  <2> DEFINE n == Len(Lines(s))
             all == [i \in 1..n |-> Made(s, Lines(s)[i])]
  <2>3. n \in Nat BY <2>2
  <2>4. ASSUME NEW i \in 1..n PROVE Made(s, Lines(s)[i]) \in Event
    <3> DEFINE k == Lines(s)[i]
    <3>1. k \in Nat /\ k \in 1..Len(services[s].lines) /\ services[s].lines[k] # Blank BY <2>2
    <3> HIDE DEF k
    <3>2. services[s].lines \in Seq(Moment \union {Untimed, Blank}) BY <2>1 DEF Service
    <3>3. services[s].lines[k] \in Stamps BY <3>1, <3>2 DEF Stamps
    <3>4. Stamp(services[s], k) \in Stamps BY <3>3 DEF Stamp, Stamps
    <3>5. Made(s, k) \in Event BY <1>2, <2>1, <3>1, <3>4 DEF Event
    <3>6. QED BY <3>5 DEF k
  <2>5. /\ \A i \in 1..n : all[i] = Made(s, Lines(s)[i])
        /\ all \in [1..n -> Event]
    BY <2>4
  <2>6. \A i \in 1..n : all[i].env = e /\ all[i].svc = s /\ all[i].no = Lines(s)[i]
    BY <2>5
  <2> HIDE DEF all
  <2>7. all \in Seq(Event) /\ Len(all) = n
    <3> HIDE DEF n
    <3>1. QED BY <2>3, <2>5
  <2>8. ASSUME NEW i \in 1..n, NEW j \in 1..n, i < j PROVE <<all[i], all[j]>> \in LineOrder
    <3>1. Lines(s)[i] < Lines(s)[j] BY <2>2, <2>8
    <3>2. all[i].no < all[j].no BY <2>6, <3>1
    <3>3. all[i] \in Event /\ all[j] \in Event BY <2>5
    <3>4. QED BY <3>2, <3>3 DEF LineOrder
  <2>9. Ascends(all, LineOrder) BY <2>7, <2>8 DEF Ascends
  <2>10. \A x : Holds(all, x) => x.env = e /\ x.svc = s BY <2>6, <2>7 DEF Holds
  <2>11. <<>> \in Seq(Event) /\ Ascends(<<>>, LineOrder) /\ \A x : ~Holds(<<>>, x)
    BY DEF Ascends, Holds
  <2>12. Of(s) = all \/ Of(s) = <<>> BY DEF all
  <2> HIDE DEF Of
  <2>13. QED BY <2>7, <2>9, <2>10, <2>11, <2>12
<1>4. Len(services) \in Nat BY <1>2
<1> HIDE DEF services, Of
<1>5. /\ lists \in Seq(Seq(Event)) /\ Len(lists) = Len(services)
      /\ \A s \in 1..Len(services) : lists[s] = Of(s)
  <2>1. lists \in [1..Len(services) -> Seq(Event)] BY <1>3
  <2>2. \A s \in 1..Len(services) : lists[s] = Of(s) OBVIOUS
  <2> HIDE DEF lists
  <2>3. QED BY <1>4, <2>1, <2>2
<1> HIDE DEF lists
<1>6. /\ Joined(lists) \in Seq(Event)
      /\ \A x : Holds(Joined(lists), x) <=> \E s \in 1..Len(lists) : Holds(lists[s], x)
  BY <1>5, JoinedHolds
<1>7. \A x : Holds(Joined(lists), x) => x.env = e BY <1>3, <1>5, <1>6
<1>8. ASSUME NEW s \in 1..Len(lists), NEW z \in 1..Len(lists), s < z,
             NEW x, NEW y, Holds(lists[s], x), Holds(lists[z], y)
      PROVE  <<x, y>> \in LineOrder
  <2>1. x.svc = s /\ y.svc = z BY <1>3, <1>5, <1>8
  <2>2. x \in Event /\ y \in Event BY <1>3, <1>5, <1>8 DEF Holds
  <2>3. x.svc # y.svc BY <1>4, <1>5, <1>8, <2>1
  <2>4. QED BY <2>2, <2>3 DEF LineOrder
<1>9. \A s \in 1..Len(lists) : Ascends(lists[s], LineOrder) BY <1>3, <1>5
<1>10. Ascends(Joined(lists), LineOrder) BY <1>5, <1>8, <1>9, JoinedAscends
<1>11. QED BY <1>1, <1>6, <1>7, <1>10

-----------------------------------------------------------------------------
(* The steps.                                                              *)

BacklogInv ==
    /\ asked \in [streams : Streams, query : Queries]
    /\ at \in 1..(Len(asked.streams) + 1)
    /\ stage \in {"gather", "filter", "cut", "printed"}
    /\ events \in Seq(Event) /\ Ascends(events, LineOrder)
    /\ stage = "gather" =>
          \A x : Holds(events, x) <=> \E e \in 1..(at - 1) : Holds(Gathered(e), x)
    /\ stage = "filter" =>
          \A x : Holds(events, x) <=> \E e \in 1..Len(asked.streams) : Holds(Gathered(e), x)
    /\ stage \in {"filter", "cut"} => Ascends(events, TimeOrder)
    /\ stage = "cut" => \A x : Holds(events, x) <=> x \in Requested
    /\ NewestPrinted

LEMMA AskedPlain ==
    ASSUME PlainQueries, asked \in [streams : Streams, query : Queries]
    PROVE  /\ Asked /\ Len(asked.streams) \in Nat
           /\ {asked.query.since, asked.query.until} \subseteq Stamps
<1>1. asked.streams \in Streams /\ asked.query \in Queries OBVIOUS
<1>2. asked.streams \in Seq(Seq(Service)) BY <1>1, BacklogAssumption
<1>3. Cuts(asked.query.tail) BY <1>1, BacklogAssumption DEF PlainQueries, Cuts
<1>4. QED BY <1>1, <1>2, <1>3 DEF Asked, PlainQueries

LEMMA StreamsStay ==
    ASSUME asked' = asked
    PROVE  (\A e : Gathered(e)' = Gathered(e)) /\ Requested' = Requested
<1>1. \A e : Gathered(e)' = Gathered(e)
  <2> SUFFICES ASSUME NEW e PROVE Gathered(e)' = Gathered(e)
    OBVIOUS
  <2>1. QED BY SMTT(30) DEF Gathered
<1>2. Requested' = Requested BY <1>1, SMTT(30) DEF Requested
<1>3. QED BY <1>1, <1>2

LEMMA BacklogStarts ==
    ASSUME PlainQueries, BacklogInit PROVE BacklogInv
<1>1. asked \in [streams : Streams, query : Queries] /\ at = 1 /\ events = <<>> /\ stage = "gather"
  BY DEF BacklogInit
<1>2. Len(asked.streams) \in Nat BY <1>1, AskedPlain
<1>3. events \in Seq(Event) /\ Ascends(events, LineOrder) /\ \A x : ~Holds(events, x)
  BY <1>1 DEF Ascends, Holds
<1>4. NewestPrinted BY <1>1 DEF NewestPrinted
<1>5. QED BY <1>1, <1>2, <1>3, <1>4 DEF BacklogInv

LEMMA GatherKeeps ==
    ASSUME PlainQueries, BacklogInv, GatherStream PROVE BacklogInv'
<1>1. /\ stage = "gather" /\ at <= Len(asked.streams)
      /\ events' = events \o Sorted(Gathered(at))
      /\ at' = at + 1 /\ asked' = asked /\ stage' = stage
  BY DEF GatherStream
<1>2. Asked /\ Len(asked.streams) \in Nat BY AskedPlain DEF BacklogInv
<1>3. at \in 1..Len(asked.streams) /\ at' \in 1..(Len(asked'.streams) + 1)
      /\ at \in 1..at /\ \A e \in 1..at : e = at \/ e \in 1..(at - 1)
  BY <1>1, <1>2 DEF BacklogInv
<1> DEFINE new == Gathered(at)
           back == Sorted(new)
<1>4. new \in Seq(Event) /\ Ascends(new, LineOrder) /\ \A x : Holds(new, x) => x.env = at
  BY <1>2, <1>3, GatheredIs
<1> HIDE DEF new
<1>5. /\ back \in Seq(Event) /\ Ascends(back, LineOrder)
      /\ \A x : Holds(back, x) <=> Holds(new, x)
  BY <1>4, SortedOrders
<1> HIDE DEF back
<1>6. events \in Seq(Event) /\ Ascends(events, LineOrder) BY DEF BacklogInv
<1>7. \A x : Holds(events, x) => \E e \in 1..(at - 1) : Holds(Gathered(e), x)
  BY <1>1 DEF BacklogInv
<1>8. ASSUME NEW x, NEW y, Holds(events, x), Holds(back, y) PROVE <<x, y>> \in LineOrder
  <2>1. PICK e \in 1..(at - 1) : Holds(Gathered(e), x) BY <1>7, <1>8
  <2>2. e \in 1..Len(asked.streams) /\ e # at BY <1>2, <1>3
  <2>3. x.env = e BY <1>2, <2>1, <2>2, GatheredIs
  <2>4. y.env = at BY <1>4, <1>5, <1>8
  <2>5. x \in Event /\ y \in Event BY <1>5, <1>6, <1>8 DEF Holds
  <2>6. QED BY <2>2, <2>3, <2>4, <2>5 DEF LineOrder
<1>9. Ascends(events \o back, LineOrder) BY <1>5, <1>6, <1>8, ConcatAscends
<1>10. events \o back \in Seq(Event) BY <1>5, <1>6
<1>11. \A x : Holds(events \o back, x) <=> Holds(events, x) \/ Holds(back, x)
  BY <1>5, <1>6, ConcatHolds
<1>12. events' = events \o back BY <1>1 DEF back, new
<1>13. \A x : Holds(events, x) <=> \E e \in 1..(at - 1) : Holds(Gathered(e), x)
  BY <1>1 DEF BacklogInv
<1>14. \A e \in 1..(at - 1) : e \in 1..at BY <1>3
<1>15. \A x : Holds(events', x) <=> \E e \in 1..at : Holds(Gathered(e), x)
  <2> SUFFICES ASSUME NEW x PROVE Holds(events', x) <=> \E e \in 1..at : Holds(Gathered(e), x)
    OBVIOUS
  <2>1. Holds(events', x) <=> Holds(events, x) \/ Holds(Gathered(at), x)
    BY <1>5, <1>11, <1>12 DEF new
  <2>2. Holds(events, x) <=> \E e \in 1..(at - 1) : Holds(Gathered(e), x) BY <1>13
  <2>3. QED BY <1>3, <1>14, <2>1, <2>2
<1>16. \A e : Gathered(e)' = Gathered(e) BY <1>1, StreamsStay
<1>17. at' - 1 = at BY <1>1, <1>3
<1>18. \A x : Holds(events', x) <=> \E e \in 1..(at' - 1) : Holds(Gathered(e)', x)
  BY <1>15, <1>16, <1>17
<1>19. NewestPrinted' BY <1>1 DEF NewestPrinted
<1>20. asked' \in [streams : Streams, query : Queries] BY <1>1 DEF BacklogInv
<1>21. QED BY <1>1, <1>3, <1>9, <1>10, <1>12, <1>18, <1>19, <1>20 DEF BacklogInv, Holds

LEMMA MergeKeeps ==
    ASSUME PlainQueries, BacklogInv, MergeStreams PROVE BacklogInv'
<1>1. /\ stage = "gather" /\ at > Len(asked.streams)
      /\ events' = Sorted(events)
      /\ at' = at /\ asked' = asked /\ stage' = "filter"
  BY DEF MergeStreams
<1>2. Asked /\ Len(asked.streams) \in Nat BY AskedPlain DEF BacklogInv
<1>3. at \in 1..(Len(asked.streams) + 1) BY DEF BacklogInv
<1>4. at - 1 = Len(asked.streams) BY <1>1, <1>2, <1>3
<1>5. events \in Seq(Event) /\ Ascends(events, LineOrder) BY DEF BacklogInv
<1>6. /\ events' \in Seq(Event) /\ Ascends(events', LineOrder) /\ Ascends(events', TimeOrder)
      /\ \A x : Holds(events', x) <=> Holds(events, x)
  BY <1>1, <1>5, SortedOrders
<1>7. \A x : Holds(events, x) <=> \E e \in 1..(at - 1) : Holds(Gathered(e), x)
  BY <1>1 DEF BacklogInv
<1>8. \A x : Holds(events', x) <=> \E e \in 1..Len(asked.streams) : Holds(Gathered(e), x)
  BY <1>4, <1>6, <1>7
<1>9. \A e : Gathered(e)' = Gathered(e) BY <1>1, StreamsStay
<1>10. \A x : Holds(events', x) <=> \E e \in 1..Len(asked'.streams) : Holds(Gathered(e)', x)
  BY <1>1, <1>8, <1>9
<1>11. NewestPrinted' BY <1>1 DEF NewestPrinted
<1>12. asked' \in [streams : Streams, query : Queries] /\ at' \in 1..(Len(asked'.streams) + 1)
  BY <1>1, <1>3 DEF BacklogInv
<1>13. QED BY <1>1, <1>6, <1>10, <1>11, <1>12 DEF BacklogInv, Holds

LEMMA FilterKeeps ==
    ASSUME PlainQueries, BacklogInv, FilterByTime PROVE BacklogInv'
<1> DEFINE query == asked.query
           Fits(event) ==
              \/ event.ts = Untimed
              \/ /\ query.since = NoBound \/ ~Precedes(event.ts, query.since)
                 /\ query.until = NoBound \/ ~Precedes(query.until, event.ts)
           S == {event \in Range(events) : Fits(event)}
<1>1. /\ stage = "filter" /\ events' = TimeFiltered(events, query)
      /\ at' = at /\ asked' = asked /\ stage' = "cut"
  BY DEF FilterByTime
<1>2. /\ Asked /\ Len(asked.streams) \in Nat
      /\ {query.since, query.until} \subseteq Stamps
  BY AskedPlain DEF BacklogInv
<1>3. /\ events \in Seq(Event) /\ Ascends(events, LineOrder) /\ Ascends(events, TimeOrder)
      /\ \A x : Holds(events, x) <=> \E e \in 1..Len(asked.streams) : Holds(Gathered(e), x)
  BY <1>1 DEF BacklogInv
<1>4. events' = Filtered(events, S) BY <1>1 DEF TimeFiltered
<1> HIDE DEF query
<1>5. \A t \in Stamps : t # Untimed => Instant(t) = t
  BY WholeType DEF Stamps, Moment, Instant
<1>6. \A t \in Stamps : t = NoBound \/ Instant(t) = t
  BY <1>5 DEF NoBound, Untimed
<1>7. \A event \in Event : Fits(event) <=> Within(event.ts, query)
  BY <1>2, <1>5, <1>6 DEF Within, Event
<1>8. \A x : Holds(events, x) => x \in Event /\ x \in Range(events)
  BY <1>3 DEF Holds, Range
<1>9. \A x : x \in Range(events) => Holds(events, x)
  BY <1>3 DEF Holds, Range
<1>10. \A x : Holds(events, x) => (x \in S <=> Within(x.ts, query)) BY <1>7, <1>8
<1> HIDE DEF S
<1>11. /\ events' \in Seq(Event) /\ Ascends(events', LineOrder) /\ Ascends(events', TimeOrder)
       /\ \A x : Holds(events', x) <=> Holds(events, x) /\ x \in S
  BY <1>3, <1>4, FilteredAscends, FilteredHolds
<1>12. \A x : x \in Requested
                <=> \E e \in 1..Len(asked.streams) : Holds(Gathered(e), x) /\ Within(x.ts, query)
  <2>1. \A x : x \in Requested
                <=> \E e \in 1..Len(asked.streams) : x \in Range(Gathered(e)) /\ Within(x.ts, query)
    BY DEF Requested, query
  <2>2. ASSUME NEW e \in 1..Len(asked.streams), NEW x
        PROVE  x \in Range(Gathered(e)) <=> Holds(Gathered(e), x)
    <3>1. Gathered(e) \in Seq(Event) BY <1>2, GatheredIs
    <3>2. DOMAIN Gathered(e) = 1..Len(Gathered(e)) BY <3>1
    <3>3. QED BY <3>2 DEF Range, Holds
  <2>3. QED BY <2>1, <2>2
<1>13. \A x : Holds(events', x) <=> x \in Requested BY <1>3, <1>10, <1>11, <1>12
<1>14. Requested' = Requested BY <1>1, StreamsStay
<1>15. NewestPrinted' BY <1>1 DEF NewestPrinted
<1>16. asked' \in [streams : Streams, query : Queries] /\ at' \in 1..(Len(asked'.streams) + 1)
  BY <1>1 DEF BacklogInv
<1>17. QED BY <1>1, <1>11, <1>13, <1>14, <1>15, <1>16 DEF BacklogInv, Holds

LEMMA CutKeeps ==
    ASSUME PlainQueries, BacklogInv, CutToTail PROVE BacklogInv'
<1> DEFINE tail == asked.query.tail
           n == Len(events)
           cut == LastOf(events, tail)
<1>1. /\ stage = "cut" /\ events' = cut
      /\ at' = at /\ asked' = asked /\ stage' = "printed"
  BY DEF CutToTail
<1>2. Cuts(tail) BY AskedPlain DEF BacklogInv, Asked
<1>3. /\ events \in Seq(Event) /\ Ascends(events, LineOrder) /\ Ascends(events, TimeOrder)
      /\ \A x : Holds(events, x) <=> x \in Requested
  BY <1>1 DEF BacklogInv
<1> HIDE DEF tail, cut
<1>4. PICK off \in 0..n :
          /\ off = IF tail # All /\ n > tail THEN n - tail ELSE 0
          /\ cut \in Seq(Event) /\ Len(cut) = n - off
          /\ \A i \in 1..(n - off) : off + i \in 1..n /\ cut[i] = events[off + i]
  BY <1>2, <1>3, LastOfIs DEF cut
<1>5. /\ Ascends(cut, LineOrder) /\ Ascends(cut, TimeOrder)
      /\ \A x : Holds(cut, x) => Holds(events, x)
  BY <1>2, <1>3, LastOfAscends DEF cut
<1>6. NoRepeat(events) /\ NoRepeat(cut) BY <1>3, <1>4, <1>5, LineOrderDistinct
<1>7. Cardinality(Range(events)) = n /\ Cardinality(Range(cut)) = Len(cut)
  BY <1>3, <1>4, <1>6, NoRepeatRange
<1>8. /\ \A x : x \in Range(events) <=> Holds(events, x)
      /\ \A x : x \in Range(cut) <=> Holds(cut, x)
  <2>1. DOMAIN events = 1..Len(events) /\ DOMAIN cut = 1..Len(cut) BY <1>3, <1>4
  <2>2. QED BY <2>1 DEF Range, Holds
<1>9. Range(events) = Requested BY <1>3, <1>8
<1>10. Cardinality(Requested) = n BY <1>7, <1>9
<1>11. n \in Nat BY <1>3
<1> HIDE DEF n
<1>12. Len(cut) = IF tail = All THEN n ELSE IF tail < n THEN tail ELSE n
  BY <1>2, <1>4, <1>11 DEF Cuts
<1>13. Range(cut) \subseteq Requested BY <1>5, <1>8, <1>9
<1>14. ASSUME NEW i \in 1..Len(cut), NEW j \in 1..Len(cut), i < j
       PROVE  /\ ~Precedes(cut[j].ts, cut[i].ts)
              /\ (cut[i].ts = cut[j].ts /\ cut[i].env = cut[j].env /\ cut[i].svc = cut[j].svc)
                    => cut[i].no < cut[j].no
  <2>1. <<cut[i], cut[j]>> \in LineOrder /\ <<cut[i], cut[j]>> \in TimeOrder
    BY <1>5, <1>14 DEF Ascends
  <2>2. QED BY <2>1 DEF LineOrder, TimeOrder
<1>15. ASSUME NEW left \in Requested \ Range(cut), NEW event \in Range(cut)
       PROVE  ~Precedes(event.ts, left.ts)
  <2>1. PICK a \in 1..n : left = events[a] BY <1>3 DEF Holds, n
  <2>2. PICK i \in 1..Len(cut) : event = cut[i] BY <1>8 DEF Holds
  <2>3. off + i \in 1..n /\ event = events[off + i] /\ i \in 1..(n - off) BY <1>4, <2>2
  <2>4. a <= off
    <3> SUFFICES ASSUME a > off PROVE FALSE
      BY <1>4, <1>11
    <3>1. a - off \in 1..(n - off) /\ off + (a - off) = a BY <1>4, <1>11
    <3>2. cut[a - off] = left BY <1>4, <2>1, <3>1
    <3>3. Holds(cut, left) BY <1>4, <3>1, <3>2 DEF Holds
    <3>4. QED BY <1>8, <3>3
  <2>5. a < off + i BY <1>4, <1>11, <2>3, <2>4
  <2>6. <<events[a], events[off + i]>> \in TimeOrder BY <1>3, <2>3, <2>5 DEF Ascends, n
  <2>7. QED BY <2>1, <2>3, <2>6 DEF TimeOrder
<1>16. Requested' = Requested BY <1>1, StreamsStay
<1>17. NewestPrinted'
  <2>1. /\ events' = cut /\ asked'.query.tail = tail /\ stage' = "printed" BY <1>1 DEF tail
  <2>2. QED BY <1>7, <1>10, <1>12, <1>13, <1>14, <1>15, <1>16, <2>1 DEF NewestPrinted
<1>18. asked' \in [streams : Streams, query : Queries] /\ at' \in 1..(Len(asked'.streams) + 1)
  BY <1>1 DEF BacklogInv
<1>19. QED BY <1>1, <1>4, <1>5, <1>17, <1>18 DEF BacklogInv

(* What `logs` prints of any services of any environments is the newest    *)
(* end of what was asked for, in time order: gathering, stable sorts, the  *)
(* time filter and the tail, for positive tails and bounds with fractions. *)
THEOREM NewestIsPrinted == ASSUME PlainQueries PROVE BacklogSpec => []NewestPrinted
<1>1. BacklogInit => BacklogInv BY BacklogStarts
<1>2. BacklogInv /\ [BacklogNext]_backlogVars => BacklogInv'
  <2> SUFFICES ASSUME BacklogInv, [BacklogNext]_backlogVars PROVE BacklogInv'
    OBVIOUS
  <2>1. CASE GatherStream BY <2>1, GatherKeeps
  <2>2. CASE MergeStreams BY <2>2, MergeKeeps
  <2>3. CASE FilterByTime BY <2>3, FilterKeeps
  <2>4. CASE CutToTail BY <2>4, CutKeeps
  <2>5. CASE UNCHANGED backlogVars
    <3>1. asked' = asked /\ at' = at /\ events' = events /\ stage' = stage
      BY <2>5 DEF backlogVars
    <3>2. (\A e : Gathered(e)' = Gathered(e)) /\ Requested' = Requested
      BY <3>1, StreamsStay
    <3>3. NewestPrinted' BY <3>1, <3>2 DEF BacklogInv, NewestPrinted
    <3>4. QED BY <3>1, <3>2, <3>3 DEF BacklogInv
  <2>6. QED BY <2>1, <2>2, <2>3, <2>4, <2>5 DEF BacklogNext
<1>3. BacklogInv => NewestPrinted BY DEF BacklogInv
<1>4. QED BY <1>1, <1>2, <1>3, PTL DEF BacklogSpec

=============================================================================
