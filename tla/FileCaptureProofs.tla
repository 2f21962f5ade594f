-------------------------- MODULE FileCaptureProofs --------------------------
(***************************************************************************)
(* What holds of FileCapture for every value of its constants.             *)
(*                                                                         *)
(* The capture is a client of the journal, so Journal's invariant carries  *)
(* over.  To it come the types, what the writer holds in memory between    *)
(* group commits (Quiet), that the published watermark is in the file      *)
(* (Readable), that both cursors stand for frames of the file (Covered),   *)
(* and that a line travels behind the earlier lines of its file from the   *)
(* acquisition task through queue and batch to the frames (Travels,        *)
(* Ordered), which needs to know how a file that was never cut short was   *)
(* read (Follows).                                                         *)
(*                                                                         *)
(* LossAlone is a hypothesis: a behaviour that loses power has no other    *)
(* trouble.  After a kill the frames of the page cache are taken for       *)
(* durable by the next start, so a loss of power behind it can leave a     *)
(* cursor beyond the file.                                                 *)
(*                                                                         *)
(* The second half is about captures without failures (NoTrouble): stops,  *)
(* aborts, restarts and a source that is rotated and truncated.  Frames,   *)
(* batch and queue are read as one sequence of events, the road, on which  *)
(* the journal's steps move nothing: events join at its end, an abort cuts *)
(* it short, a delivered checkpoint leaves it and becomes the cursor to    *)
(* be, the mark.  RoadOK says what holds along the road: its lines were    *)
(* written (Genuine), a checkpoint and the mark stand past every record    *)
(* before them (Trusted, MarkTrusted), behind the mark each record is the  *)
(* next line of the reader the checkpoints tell of (Tracks), and no line   *)
(* comes twice (Apart).  The task's FileState stands where the road ends   *)
(* (ReaderOK).                                                             *)
(***************************************************************************)
EXTENDS FileCapture, JournalProofs

\* A line that a record can be of, what a frame carries, and the events.
Entry == [acq : 1..MaxOpens, line : Lines]
RecordEvents == [kind : {"record"}, acq : 1..MaxOpens, line : Lines]
Checkpoints == [kind : {"checkpoint"}, acq : 1..MaxOpens,
                ino : 1..MaxChanges + 1, seen : Seq(Lines)]
Event == RecordEvents \cup Checkpoints
Places == {"down", "recover", "opening", "idle", "append", "commit", "finish",
           "store", "finstore", "failed"}
Following == {"running", "rotating", "truncating"}

\* The frames that a reader of the journal would be served.
Frames == file \o buffer
Carries(s) == \A i \in 1..Len(s) : s[i].body \in Entry

\* The types of the tasks' variables.
Sizes == [epoch : 0..MaxChanges, len : 0..MaxLines]
FileTypes ==
    /\ files \in Seq(Sizes)
    /\ Path \in 1..MaxChanges + 1
Tasks == [phase : Following \cup {"off", "stopped"}, id : 0..MaxOpens,
          ino : 0..MaxChanges + 1, seen : Seq(Lines), ckpt : Nat]
AcqTypes ==
    /\ acq \in Tasks /\ opens \in 0..MaxOpens
    /\ acq.phase # "off" => acq.id \in 1..MaxOpens /\ acq.ino \in 1..Path
WriterTypes ==
    /\ queue \in Seq(Event)
    /\ wpc \in Places
    /\ batch \in Seq(Entry)
    /\ sinceSync \in Nat
    /\ pending \in CursorSet /\ cursor \in CursorSet
    /\ published \in Nat \cup {NoSeq}
    /\ faults \in FaultPlans
FrameTypes == file \in Seq(Record) /\ buffer \in Seq(Record) /\ Carries(Frames)
Types == FileTypes /\ AcqTypes /\ WriterTypes /\ FrameTypes

-----------------------------------------------------------------------------
(* The invariant                                                           *)

\* What the writer holds in memory, place by place.
Quiet ==
    /\ wpc \notin {"append", "failed"} => buffer = <<>> /\ batch = <<>>
    /\ wpc \in {"down", "recover", "opening", "store", "finstore"}
          => sinceSync = 0
    /\ wpc = "down" <=> status = "closed"

\* A line in the first n frames of s, and what a cursor stands for.
Bears(s, n, l) == \E j \in 1..n : s[j].body.line = l
Covers(s, c) ==
    /\ c.joff <= Len(s)
    /\ \A i \in 1..Len(c.seen) : Bears(s, c.joff, c.seen[i])
Covered == Covers(file, cursor) /\ Covers(file, pending)

\* Where only power is lost, the cursor lies within what is durable.
Lossy == "powerloss" \in faults
Synced ==
    Lossy => /\ wpc # "failed"
             /\ cursor.joff <= durable
             /\ sinceSync = 0 => durable = Len(file) /\ buffer = <<>>

Readable == published # NoSeq /\ "limit" \notin faults =>
                \E i \in 1..Len(file) : file[i].seq = published

\* The lines of its file that come before a line.
Before(l) == {<<l[1], 0, k>> : k \in 1..(IF l[2] = 0 THEN l[3] - 1 ELSE 0)}
Ordered(s) == \A i \in 1..Len(s) :
                 \A l \in Before(s[i].body.line) : Bears(s, i - 1, l)

\* Where a line is on its way to the journal: in a frame, in the batch, or
\* in the first n events of the queue.
Batched(b, n, l) == \E j \in 1..n : b[j].line = l
Queued(q, n, l) == \E j \in 1..n : IsRecord(q[j]) /\ q[j].line = l
Taken(s, b, l) == Bears(s, Len(s), l) \/ Batched(b, Len(b), l)
Held(s, b, q, n, l) == Taken(s, b, l) \/ Queued(q, n, l)

\* The lines that have to be ahead of an event.
Needs(e) == IF IsRecord(e) THEN Before(e.line)
                           ELSE {e.seen[i] : i \in 1..Len(e.seen)}

BatchBehind(s, b) ==
    \A k \in 1..Len(b) : \A l \in Before(b[k].line) :
       Bears(s, Len(s), l) \/ Batched(b, k - 1, l)
QueueBehind(s, b, q) ==
    \A k \in 1..Len(q) : \A l \in Needs(q[k]) : Held(s, b, q, k - 1, l)
SeenHeld(s, b, q, seen) ==
    \A i \in 1..Len(seen) : Held(s, b, q, Len(q), seen[i])
Travels ==
    wpc # "failed" =>
       /\ BatchBehind(Frames, batch)
       /\ QueueBehind(Frames, batch, queue)
       /\ acq.phase \in Following => SeenHeld(Frames, batch, queue, acq.seen)

\* What was read of a file that was never cut short is how it begins.
Follows ==
    acq.phase \in Following /\ files[acq.ino].epoch = 0 =>
       \A i \in 1..Len(acq.seen) : acq.seen[i] = <<acq.ino, 0, i>>

LossAlone ==
    \A plan \in FaultPlans : "powerloss" \in plan => plan = {"powerloss"}

Acknowledged == acq.ckpt \in 0..Len(acq.seen)

WriterInv == JournalInv /\ Types /\ Quiet /\ Readable /\ Acknowledged
CaptureInv == WriterInv /\ Covered /\ Synced /\ Ordered(Frames) /\ Travels
/\ Follows

-----------------------------------------------------------------------------
(* What a step does to the frames                                          *)

\* t begins with s.
Starts(s, t) == Len(s) <= Len(t) /\ \A i \in 1..Len(s) : t[i] = s[i]
New(b) == [seq |-> nextSeq, body |-> b]

\* Where Append puts its element.
LEMMA AppendIndex ==
  ASSUME NEW S, NEW s \in Seq(S), NEW x \in S
  PROVE  /\ Len(Append(s, x)) = Len(s) + 1 /\ Len(s) \in Nat
         /\ Append(s, x) \in Seq(S)
         /\ \A i \in 1..Len(s) + 1 :
                Append(s, x)[i] = IF i <= Len(s) THEN s[i] ELSE x
  OBVIOUS

\* Where concatenation puts the elements of its parts.
LEMMA ConcatIndex ==
  ASSUME NEW S, NEW s \in Seq(S), NEW t \in Seq(S)
  PROVE  /\ s \o t \in Seq(S) /\ Len(s \o t) = Len(s) + Len(t)
         /\ \A i \in 1..Len(s) + Len(t) :
               (s \o t)[i] = IF i <= Len(s) THEN s[i] ELSE t[i - Len(s)]
  OBVIOUS

\* Where the rest of a sequence has its elements.
LEMMA RestIndex ==
  ASSUME NEW S, NEW s \in Seq(S), NEW n \in 0..Len(s)
  PROVE  /\ SubSeq(s, n + 1, Len(s)) \in Seq(S)
         /\ Len(SubSeq(s, n + 1, Len(s))) = Len(s) - n
         /\ \A i \in 1..Len(s) - n : SubSeq(s, n + 1, Len(s))[i] = s[n + i]
  OBVIOUS

\* The types of the journal that the proofs below use.
LEMMA JournalTyped ==
  ASSUME JournalInv
  PROVE  /\ file \in Seq(Record) /\ buffer \in Seq(Record)
         /\ durable \in 0..Len(file) /\ nextSeq \in Nat
         /\ status # "open" => buffer = <<>>
  BY DEF JournalInv, JournalTypeOK

\* The frames of the file come first among the frames.
LEMMA FrameFacts ==
  ASSUME file \in Seq(Record), buffer \in Seq(Record)
  PROVE  /\ Frames \in Seq(Record) /\ Len(file) \in Nat /\ Len(buffer) \in Nat
         /\ Len(Frames) = Len(file) + Len(buffer)
         /\ Starts(file, Frames)
         /\ buffer = <<>> => Frames = file
  BY DEF Frames, Starts

\* Opening and writing out keep every frame.
LEMMA Kept ==
  ASSUME JournalInv, Open \/ Flush \/ SyncData \/ ReserveFails
                     \/ UNCHANGED journalVars
  PROVE  Frames' = Frames /\ Starts(file, file')
         /\ durable' \in {durable, Len(file')}
<1>1. file \in Seq(Record) /\ buffer \in Seq(Record) /\ durable \in 0..Len(file)
      /\ (status # "open" => buffer = <<>>)
  BY JournalTyped
<1>2. CASE Open
  BY <1>1, <1>2 DEF Open, Frames, Starts
<1>3. CASE Flush \/ SyncData
  <2>1. file' = Frames /\ buffer' = <<>> /\ durable' \in {durable, Len(file')}
    BY <1>3 DEF Flush, SyncData, Frames
  <2>2. Frames \in Seq(Record) /\ Starts(file, Frames)
    BY <1>1, FrameFacts
  <2>3. Frames' = file' \o <<>>
    BY <2>1 DEF Frames
  <2> QED
    BY <2>1, <2>2, <2>3
<1>4. CASE ReserveFails \/ UNCHANGED journalVars
  BY <1>1, <1>4 DEF ReserveFails, journalVars, Frames, Starts
<1> QED
  BY <1>2, <1>3, <1>4

\* Journal::append adds one.
LEMMA Added ==
  ASSUME JournalInv, NEW b \in Body, AppendRecord(b)
  PROVE  /\ Frames' = Append(Frames, New(b)) /\ New(b) \in Record
         /\ Starts(file, file') /\ durable' = durable
<1>1. /\ file \in Seq(Record) /\ buffer \in Seq(Record) /\ nextSeq \in Nat
      /\ status = "open" /\ TakeSequence /\ durable' = durable
  BY JournalTyped DEF AppendRecord
<1>2. Frames' = Append(Frames, New(b))
  BY <1>1, AppendFrames, FramedOK DEF Frames, New
<1>3. Starts(file, file')
  BY <1>1, FramedOK DEF AppendRecord, Starts
<1>4. New(b) \in Record
  BY <1>1 DEF New, Record
<1> QED
  BY <1>1, <1>2, <1>3, <1>4

\* A failed write and a process that ends keep the file and, of the buffer, a
\* part that was being handed over.
LEMMA Dropped ==
  ASSUME JournalInv, Close \/ WriteFails \/ Kill
  PROVE  /\ buffer' = <<>> /\ Frames' = file' /\ Starts(file', Frames)
         /\ Starts(file, file') /\ durable' = durable
<1>1. /\ file \in Seq(Record) /\ buffer \in Seq(Record) /\ JournalTypeOK
      /\ FramesOK(file \o buffer, issued)
  BY JournalTyped, InvFrames DEF JournalInv
<1>2. CASE Close
  BY <1>1, <1>2, FrameFacts DEF Close, Frames, Starts
<1>3. CASE WriteFails \/ Kill
  <2>1. PartialWrite(buffer) /\ durable' = durable
    BY <1>3 DEF WriteFails, Kill
  <2>2. /\ buffer' = <<>> /\ Frames' = file'
        /\ \E n \in Len(file)..Len(Frames) : file' = SubSeq(Frames, 1, n)
    BY <1>1, <2>1, PartialWriteIsPrefix DEF Frames
  <2>3. PICK n \in Len(file)..Len(Frames) : file' = SubSeq(Frames, 1, n)
    BY <2>2
  <2>4. Frames \in Seq(Record) /\ Starts(file, Frames)
    BY <1>1, FrameFacts
  <2> HIDE DEF Frames
  <2>5. Starts(file', Frames) /\ Starts(file, file')
    BY <1>1, <2>3, <2>4 DEF Starts
  <2> QED
    BY <2>1, <2>2, <2>5
<1> QED
  BY <1>2, <1>3

\* An append whose write fails may have written its frame too.
LEMMA AddedOrDropped ==
  ASSUME JournalInv, NEW b \in Body, AppendWriteFails(b)
  PROVE  /\ buffer' = <<>> /\ Frames' = file' /\ New(b) \in Record
         /\ Starts(file', Append(Frames, New(b)))
         /\ Starts(file, file') /\ durable' = durable
<1>1. /\ file \in Seq(Record) /\ buffer \in Seq(Record) /\ JournalTypeOK
      /\ nextSeq \in Nat /\ status = "open" /\ TakeSequence
      /\ PartialWrite(Framed(b)) /\ durable' = durable
  BY JournalTyped DEF JournalInv, AppendWriteFails
<1>2. /\ Framed(b) \in Seq(Record) /\ FramesOK(file \o Framed(b), issued')
      /\ file \o Framed(b) = Append(Frames, New(b))
  BY <1>1, FramedOK DEF Frames, New
<1>3. New(b) \in Record
  BY <1>1 DEF New, Record
<1>4. /\ buffer' = <<>> /\ Frames' = file'
      /\ \E n \in Len(file)..Len(file \o Framed(b)) :
            file' = SubSeq(file \o Framed(b), 1, n)
  BY <1>1, <1>2, PartialWriteIsPrefix DEF Frames
<1>5. PICK n \in Len(file)..Len(Append(Frames, New(b))) :
         file' = SubSeq(Append(Frames, New(b)), 1, n)
  BY <1>2, <1>4
<1>6. Frames \in Seq(Record) /\ Starts(file, Frames)
  BY <1>1, FrameFacts
<1> HIDE DEF Frames, New
<1>7. Starts(file', Append(Frames, New(b))) /\ Starts(file, file')
  BY <1>1, <1>3, <1>5, <1>6 DEF Starts
<1> QED
  BY <1>1, <1>3, <1>4, <1>7

\* A loss of power keeps what is durable and perhaps more of the file.
LEMMA Lost ==
  ASSUME JournalInv, PowerLoss
  PROVE  /\ buffer' = <<>> /\ Frames' = file' /\ Starts(file', file)
         /\ durable <= durable' /\ durable' = Len(file')
<1>1. file \in Seq(Record) /\ durable \in 0..Len(file)
  BY JournalTyped
<1> QED
  BY <1>1 DEF PowerLoss, Frames, Starts

-----------------------------------------------------------------------------
(* Types                                                                   *)

\* The constants, in the form the provers need.
LEMMA Bounds ==
  /\ MaxChanges \in Nat /\ MaxLines \in Nat \ {0} /\ MaxOpens \in Nat \ {0}
  /\ Entry \subseteq Body
  BY CaptureConstants DEF Entry

\* The types of the source file.
LEMMA FileFacts ==
  ASSUME FileTypes
  PROVE  /\ Path \in Nat /\ Path \in 1..Path /\ Path \in 1..MaxChanges + 1
         /\ files \in Seq(Sizes) /\ Path = Len(files)
         /\ \A i \in 1..Path : /\ files[i] \in Sizes /\ i \in 1..MaxChanges + 1
                               /\ files[i].epoch \in 0..MaxChanges
                               /\ files[i].len \in 0..MaxLines
<1>1. Path \in 1..MaxChanges + 1 /\ files \in Seq(Sizes) /\ Path = Len(files)
  BY DEF FileTypes, Path
<1>2. \A i \in 1..Path : files[i] \in Sizes
  BY <1>1
<1>3. \A x \in Sizes : x.epoch \in 0..MaxChanges /\ x.len \in 0..MaxLines
  BY DEF Sizes
<1> QED
  BY <1>1, <1>2, <1>3, Bounds

\* The lines of a file, one by one.
LEMMA ContentTyped ==
  ASSUME FileTypes, NEW ino \in 1..Path
  PROVE  /\ Content(ino) \in Seq(Lines) /\ Len(Content(ino)) = files[ino].len
         /\ files[ino].len \in Nat
         /\ \A i \in 1..files[ino].len :
                /\ Content(ino)[i] = <<ino, files[ino].epoch, i>>
                /\ Content(ino)[i] \in Lines
<1>1. /\ files[ino].epoch \in 0..MaxChanges /\ files[ino].len \in 0..MaxLines
      /\ ino \in 1..MaxChanges + 1
  BY FileFacts
<1>2. \A i \in 1..files[ino].len : <<ino, files[ino].epoch, i>> \in Lines
  BY <1>1, Bounds DEF Lines
<1> QED
  BY <1>1, <1>2, Bounds DEF Content

\* An event is a record or a checkpoint.
LEMMA EventTypes ==
  ASSUME NEW e \in Event
  PROVE  /\ IsRecord(e) => /\ e \in RecordEvents
                           /\ e.acq \in 1..MaxOpens /\ e.line \in Lines
         /\ ~IsRecord(e) => /\ e \in Checkpoints /\ e.kind = "checkpoint"
                            /\ e.acq \in 0..MaxOpens /\ e.seen \in Seq(Lines)
                            /\ e.ino \in 0..MaxChanges + 1
<1>1. CASE e \in RecordEvents
  BY <1>1 DEF RecordEvents, IsRecord
<1>2. CASE e \in Checkpoints
  <2>1. /\ e.kind = "checkpoint" /\ e.acq \in 1..MaxOpens
        /\ e.ino \in 1..MaxChanges + 1 /\ e.seen \in Seq(Lines)
    BY <1>2 DEF Checkpoints
  <2> QED
    BY <1>2, <2>1, Bounds DEF IsRecord
<1> QED
  BY <1>1, <1>2 DEF Event

\* Writing, rotating and truncating the source keep its types; the epoch of
\* a file never falls.
LEMMA FilesTyped ==
  ASSUME FileTypes, SourceStep
  PROVE  /\ FileTypes' /\ Path' \in Nat /\ Path' >= Path
         /\ \A i \in 1..Path : files'[i].epoch >= files[i].epoch
<1>1. /\ files \in Seq(Sizes) /\ Path = Len(files) /\ Path' = Len(files')
      /\ Path \in 1..MaxChanges + 1 /\ Path \in Nat
      /\ \A i \in 1..Path : /\ files[i] \in Sizes
                            /\ files[i].epoch \in 0..MaxChanges
                            /\ files[i].len \in 0..MaxLines
  BY FileFacts DEF Path
<1>2. \A e \in 0..MaxChanges,
n \in 0..MaxLines : [epoch |-> e, len |-> n] \in Sizes
  BY DEF Sizes
<1>3. CASE SourceGrows
  <2>1. PICK ino \in 1..Path : files[ino].len < MaxLines /\
                               files' = [files EXCEPT ![ino].len = @ + 1]
    BY <1>3 DEF SourceGrows
  <2>2. files[ino].len + 1 \in 0..MaxLines
    BY <1>1, <2>1, Bounds
  <2>3. [files[ino] EXCEPT !.len = @ + 1] \in Sizes
        /\ [files[ino] EXCEPT !.len = @ + 1].epoch = files[ino].epoch
    BY <1>1, <2>2 DEF Sizes
  <2>4. files' = [files EXCEPT ![ino] = [files[ino] EXCEPT !.len = @ + 1]]
    BY <1>1, <2>1
  <2> QED
    BY <1>1, <2>3, <2>4 DEF FileTypes
<1>4. CASE SourceRotates
  <2>1. files' = Append(files, [epoch |-> 0, len |-> 0])
        /\ Path - 1 + files[Path].epoch < MaxChanges
    BY <1>4 DEF SourceRotates, Changes
  <2>2. Path + 1 \in 1..MaxChanges + 1 /\ [epoch |-> 0, len |-> 0] \in Sizes
    BY <1>1, <1>2, <2>1, Bounds
  <2> QED
    BY <1>1, <2>1, <2>2 DEF FileTypes
<1>5. CASE SourceTruncated
  <2>1. files' = [files EXCEPT ![Path] =
                              [epoch |-> files[Path].epoch + 1, len |-> 0]]
        /\ Path - 1 + files[Path].epoch < MaxChanges
    BY <1>1, <1>5 DEF SourceTruncated, Changes
  <2>2. [epoch |-> files[Path].epoch + 1, len |-> 0] \in Sizes
    BY <1>1, <1>2, <2>1, Bounds
  <2> QED
    BY <1>1, <2>1, <2>2 DEF FileTypes
<1> QED
  BY <1>3, <1>4, <1>5 DEF SourceStep

\* The types of the acquisition task.
LEMMA TaskFacts ==
  ASSUME AcqTypes
  PROVE  /\ acq \in Tasks /\ opens \in 0..MaxOpens /\ acq.seen \in Seq(Lines)
         /\ Len(acq.seen) \in Nat /\ acq.ino \in 0..MaxChanges + 1
         /\ acq.phase # "off" => acq.id \in 1..MaxOpens /\ acq.ino \in 1..Path
  BY DEF AcqTypes, Tasks

\* A new FileState.
LEMMA BeginTyped ==
  ASSUME FileTypes, AcqTypes, queue \in Seq(Event), NEW ino \in 1..Path,
         NEW seen \in Seq(Lines), BeginAt(ino, seen)
  PROVE  /\ acq' \in Tasks /\ opens' \in 0..MaxOpens
         /\ acq'.id \in 1..MaxOpens /\ acq'.ino = ino /\ acq'.seen = seen
         /\ acq'.phase = "running"
         /\ CheckpointEvent(acq') \in Checkpoints
         /\ CheckpointEvent(acq').seen = seen
         /\ queue' = Append(queue, CheckpointEvent(acq'))
         /\ queue' \in Seq(Event)
<1>1. /\ acq' = [phase |-> "running", id |-> opens + 1, ino |-> ino,
                 seen |-> seen, ckpt |-> Len(seen)]
      /\ opens' = opens + 1 /\ opens < MaxOpens
      /\ queue' = Append(queue, CheckpointEvent(acq'))
  BY DEF BeginAt, Send
<1>2. opens + 1 \in 1..MaxOpens /\ Len(seen) \in Nat
      /\ ino \in 1..MaxChanges + 1
  <2>1. opens \in 0..MaxOpens /\ MaxOpens \in Nat
    BY Bounds DEF AcqTypes
  <2>2. opens + 1 \in 1..MaxOpens
    BY <1>1, <2>1
  <2>3. ino \in 1..MaxChanges + 1
    BY FileFacts
  <2> QED
    BY <2>2, <2>3
<1>3. /\ acq' \in Tasks /\ acq'.id \in 1..MaxOpens /\ acq'.ino = ino
      /\ acq'.seen = seen /\ acq'.phase = "running"
  BY <1>1, <1>2, Bounds DEF Tasks, Following
<1>4. CheckpointEvent(acq') \in Checkpoints /\ CheckpointEvent(acq').seen = seen
  BY <1>2, <1>3 DEF CheckpointEvent, Checkpoints
<1>5. queue' \in Seq(Event)
  BY <1>1, <1>4 DEF Event
<1> QED
  BY <1>1, <1>2, <1>3, <1>4, <1>5

\* The next line of the file.
LEMMA ReadLine ==
  ASSUME FileTypes, AcqTypes, queue \in Seq(Event), Read
  PROVE  LET n    == Len(acq.seen) + 1
             line == <<acq.ino, files[acq.ino].epoch, n>>
         IN  /\ line \in Lines /\ n \in Nat
             /\ acq' = [acq EXCEPT !.seen = Append(@, line)]
             /\ acq' \in Tasks /\ acq'.seen = Append(acq.seen, line)
             /\ RecordEvent(line) \in RecordEvents
             /\ RecordEvent(line).line = line
             /\ queue' = Append(queue, RecordEvent(line))
             /\ queue' \in Seq(Event)
<1> DEFINE n    == Len(acq.seen) + 1
           line == <<acq.ino, files[acq.ino].epoch, n>>
           next == Content(acq.ino)[n]
<1>1. /\ acq.ino \in 1..Path /\ acq.id \in 1..MaxOpens /\ n \in Nat
      /\ n <= files[acq.ino].len /\ n > 0
      /\ acq' = [acq EXCEPT !.seen = Append(@, next)]
      /\ queue' = Append(queue, RecordEvent(next))
  <2>1. acq.phase = "running" /\ Len(acq.seen) < files[acq.ino].len
        /\ acq' = [acq EXCEPT !.seen = Append(@, next)]
        /\ queue' = Append(queue, RecordEvent(next))
    BY DEF Read, Send
  <2>2. Len(acq.seen) \in Nat /\ acq.ino \in 1..Path /\ acq.id \in 1..MaxOpens
    BY <2>1, TaskFacts
  <2>3. files[acq.ino].len \in Nat
    BY <2>2, ContentTyped
  <2> QED
    BY <2>1, <2>2, <2>3
<1>2. next = line /\ line \in Lines
  <2>1. n \in 1..files[acq.ino].len
    BY <1>1, ContentTyped
  <2> QED
    BY <1>1, <2>1, ContentTyped
<1> HIDE DEF next, n, line
<1>3. acq' \in Tasks /\ acq'.seen = Append(acq.seen, line)
  <2>1. Append(acq.seen, line) \in Seq(Lines) /\ acq \in Tasks
    BY <1>2, TaskFacts
  <2>2. acq' = [acq EXCEPT !.seen = Append(acq.seen, line)]
    BY <1>1, <1>2
  <2> QED
    BY <2>1, <2>2 DEF Tasks
<1>4. RecordEvent(line) \in RecordEvents /\ RecordEvent(line).line = line
  BY <1>1, <1>2 DEF RecordEvent, RecordEvents
<1>5. queue' \in Seq(Event)
  BY <1>1, <1>2, <1>4 DEF Event
<1> QED
  BY <1>1, <1>2, <1>3, <1>4, <1>5 DEF line, n

\* A checkpoint of where the task is.
LEMMA CheckpointTyped ==
  ASSUME AcqTypes, FileTypes, acq.phase # "off"
  PROVE  /\ CheckpointEvent(acq) \in Checkpoints
         /\ CheckpointEvent(acq).seen = acq.seen
<1>1. acq.id \in 1..MaxOpens /\ acq.ino \in 1..MaxChanges + 1
      /\ acq.seen \in Seq(Lines)
  BY TaskFacts, FileFacts
<1> QED
  BY <1>1 DEF CheckpointEvent, Checkpoints

\* What the acquisition task and its callers do keeps the types.
LEMMA TasksTyped ==
  ASSUME FileTypes, AcqTypes, queue \in Seq(Event),
         TaskStep \/ StopCapture \/ AbortCapture
  PROVE  AcqTypes' /\ queue' \in Seq(Event)
<1> USE DEF AcqTypes
<1>1. CASE Read
  BY <1>1, ReadLine, TaskFacts DEF Read, Path, Tasks
<1>2. CASE Acknowledge
  <2>1. acq.phase # "off" /\ UNCHANGED <<files, opens>>
        /\ acq' = [acq EXCEPT !.ckpt = Len(acq.seen)]
        /\ queue' = Append(queue, CheckpointEvent(acq))
    BY <1>2 DEF Acknowledge, Send
  <2>2. CheckpointEvent(acq) \in Event
    BY <2>1, CheckpointTyped DEF Event
  <2>3. acq' \in Tasks /\ acq'.phase = acq.phase /\ acq'.id = acq.id
        /\ acq'.ino = acq.ino
    BY <2>1, TaskFacts DEF Tasks
  <2> QED
    BY <2>1, <2>2, <2>3, TaskFacts DEF Path
<1>3. CASE FollowChanged
  BY <1>3, TaskFacts DEF FollowChanged, Tasks, Following, Path
<1>4. CASE FollowAnew
  <2>1. PICK ino \in 1..Path : BeginAt(ino, <<>>) /\ UNCHANGED files
    BY <1>4, TaskFacts, FileFacts DEF FollowAnew
  <2>2. <<>> \in Seq(Lines)
    OBVIOUS
  <2> QED
    BY <2>1, <2>2, BeginTyped DEF Path
<1>5. CASE StopCapture \/ AbortCapture
  <2>1. acq' = [acq EXCEPT !.phase = "stopped"] /\ UNCHANGED <<files, opens>>
        /\ acq.phase # "off"
    BY <1>5 DEF StopCapture, AbortCapture, Following
  <2>2. queue' \in Seq(Event)
    <3>1. CASE AbortCapture
      <4>1. PICK n \in 0..Len(queue) : queue' = SubSeq(queue, 1, n)
        BY <3>1 DEF AbortCapture
      <4> QED
        BY <4>1
    <3> QED
      BY <1>5, <3>1 DEF StopCapture
  <2> QED
    BY <2>1, <2>2, TaskFacts DEF Tasks, Path
<1> QED
  BY <1>1, <1>2, <1>3, <1>4, <1>5 DEF TaskStep

\* A batch is of records that the journal may hold.
LEMMA BatchFacts ==
  ASSUME batch \in Seq(Entry), batch # <<>>
  PROVE  /\ Head(batch) \in Entry /\ Head(batch) \in Body
         /\ Head(batch) = batch[1] /\ Len(batch) \in Nat /\ Len(batch) > 0
         /\ Tail(batch) \in Seq(Entry) /\ Len(Tail(batch)) = Len(batch) - 1
         /\ \A k \in 1..Len(batch) - 1 : Tail(batch)[k] = batch[k + 1]
  BY Bounds

\* Every step of the capture is a step of its journal, or none.
LEMMA JournalSteps ==
  ASSUME batch \in Seq(Entry), [Next]_vars
  PROVE  [JournalNext]_journalVars
<1>1. CASE SourceStep \/ TaskStep
  BY <1>1 DEF SourceStep, SourceGrows, SourceRotates, SourceTruncated, TaskStep,
     Read, Acknowledge, FollowChanged, FollowAnew
<1>2. CASE WriterStep
  <2>1. CASE AppendOne
    BY <2>1, BatchFacts DEF AppendOne, JournalNext
  <2>2. CASE RefuseStart \/ StoreLastCursor \/ DropWriter
    BY <2>2 DEF RefuseStart, StoreLastCursor, DropWriter, JournalNext
  <2>3. CASE FlushBatch \/ CommitJournal
    BY <2>3 DEF FlushBatch, CommitJournal, JournalNext
  <2>4. CASE RecoverCursor \/ BeginCapture \/ TakeRecords \/ StorageBlocked
             \/ TakeCheckpoint \/ TakeFinish \/ StoreCursor
    BY <2>4 DEF RecoverCursor, BeginCapture, TakeRecords, StorageBlocked,
       TakeCheckpoint, TakeFinish, StoreCursor
  <2> QED
    BY <1>2, <2>1, <2>2, <2>3, <2>4 DEF WriterStep
<1>3. CASE CommitDeadline
  BY <1>3 DEF CommitDeadline
<1>4. CASE UserStep
  BY <1>4 DEF UserStep, StartWriter, StopCapture, AbortCapture, JournalNext
<1>5. CASE FailureStep
  <2>1. CASE WriterIoError
    BY <2>1, BatchFacts DEF WriterIoError, JournalNext
  <2>2. CASE CursorIoError
    BY <2>2 DEF CursorIoError
  <2>3. CASE KillProcess \/ LosePower
    BY <2>3 DEF KillProcess, LosePower, JournalNext
  <2> QED
    BY <1>5, <2>1, <2>2, <2>3 DEF FailureStep
<1>6. CASE UNCHANGED vars
  BY <1>6 DEF vars
<1> QED
  BY <1>1, <1>2, <1>3, <1>4, <1>5, <1>6 DEF Next

\* The steps that drop frames, and those that keep them all.
Drops == RefuseStart \/ StoreLastCursor \/ DropWriter \/ WriterIoError
         \/ KillProcess \/ LosePower

\* A step that neither appends nor drops keeps every frame.
LEMMA FramesKept ==
  ASSUME JournalInv, [Next]_vars, ~AppendOne, ~Drops
  PROVE  /\ Frames' = Frames /\ Starts(file, file')
         /\ durable' \in {durable, Len(file')}
<1>1. Open \/ Flush \/ SyncData \/ UNCHANGED journalVars
  <2>1. CASE SourceStep \/ TaskStep
    BY <2>1 DEF SourceStep, SourceGrows, SourceRotates, SourceTruncated,
                TaskStep,
       Read, Acknowledge, FollowChanged, FollowAnew
  <2>2. CASE WriterStep
    BY <2>2 DEF WriterStep, Drops, RecoverCursor, BeginCapture, TakeRecords,
       StorageBlocked, FlushBatch, TakeCheckpoint, TakeFinish, CommitJournal,
       StoreCursor
  <2>3. CASE CommitDeadline
    BY <2>3 DEF CommitDeadline
  <2>4. CASE UserStep
    BY <2>4 DEF UserStep, StartWriter, StopCapture, AbortCapture
  <2>5. CASE FailureStep
    BY <2>5 DEF FailureStep, Drops, CursorIoError
  <2>6. CASE UNCHANGED vars
    BY <2>6 DEF vars
  <2> QED
    BY <2>1, <2>2, <2>3, <2>4, <2>5, <2>6 DEF Next
<1> QED
  BY <1>1, Kept

\* What the steps that drop frames leave.
LEMMA FramesDropped ==
  ASSUME JournalInv, batch \in Seq(Entry), Drops, ~LosePower
  PROVE  /\ buffer' = <<>> \/ UNCHANGED <<file, buffer>>
         /\ Starts(file, file') /\ durable' = durable
         /\ \/ Starts(Frames', Frames)
            \/ /\ batch # <<>> /\ WriterIoError /\ New(Head(batch)) \in Record
               /\ Starts(Frames', Append(Frames, New(Head(batch))))
<1>1. Frames \in Seq(Record) /\ Starts(file, file) /\ Starts(Frames, Frames)
  BY JournalTyped, FrameFacts DEF Starts
<1>2. CASE Close \/ Kill \/ WriteFails
  BY <1>2, Dropped
<1>3. CASE ReserveFails
  BY <1>1, <1>3 DEF ReserveFails, Frames
<1>4. CASE batch # <<>> /\ WriterIoError /\ AppendWriteFails(Head(batch))
  BY <1>4, BatchFacts, AddedOrDropped
<1> QED
  BY <1>2, <1>3, <1>4 DEF Drops, RefuseStart, StoreLastCursor, DropWriter,
     WriterIoError, KillProcess

\* Frames carry what the capture put in them.
LEMMA FramesTyped ==
  ASSUME JournalInv, JournalInv', FrameTypes, batch \in Seq(Entry), [Next]_vars
  PROVE  FrameTypes'
<1>1. /\ file' \in Seq(Record) /\ buffer' \in Seq(Record)
         /\ Frames' \in Seq(Record)
      /\ Frames \in Seq(Record) /\ Starts(file, Frames)
      /\ Len(Frames) \in Nat /\ Len(file) \in Nat
  <2>1. file' \in Seq(Record) /\ buffer' \in Seq(Record)
    BY DEF JournalInv, JournalTypeOK
  <2> QED
    BY <2>1, JournalTyped, FrameFacts DEF Frames
<1>2. Carries(Frames)
  BY DEF FrameTypes
<1> HIDE DEF Frames
<1>b. Len(Frames') \in Nat
  BY <1>1
<1>3. ASSUME Starts(Frames', Frames) PROVE Carries(Frames')
  <2> SUFFICES ASSUME NEW i \in 1..Len(Frames')
               PROVE  Frames'[i].body \in Entry
    BY DEF Carries
  <2>1. i \in 1..Len(Frames) /\ Frames'[i] = Frames[i]
    BY <1>1, <1>b, <1>3 DEF Starts
  <2> QED
    BY <1>2, <2>1 DEF Carries
<1>4. ASSUME NEW b \in Entry, New(b) \in Record,
             Starts(Frames', Append(Frames, New(b)))
      PROVE  Carries(Frames')
  <2> SUFFICES ASSUME NEW i \in 1..Len(Frames')
               PROVE  Frames'[i].body \in Entry
    BY DEF Carries
  <2>1. i <= Len(Append(Frames, New(b)))
        /\ Frames'[i] = Append(Frames, New(b))[i]
    BY <1>4, <1>b DEF Starts
  <2>2. Frames'[i] = IF i <= Len(Frames) THEN Frames[i] ELSE New(b)
    BY <1>1, <1>b, <2>1, AppendIndex
  <2> QED
    BY <1>1, <1>2, <2>2 DEF Carries, New
<1>5. CASE AppendOne
  <2>1. Head(batch) \in Entry /\ Head(batch) \in Body
        /\ AppendRecord(Head(batch))
    BY <1>5, BatchFacts DEF AppendOne
  <2>2. Starts(Frames', Append(Frames, New(Head(batch))))
        /\ New(Head(batch)) \in Record
    BY <1>1, <2>1, Added DEF Starts
  <2> QED
    BY <1>1, <1>4, <2>1, <2>2 DEF FrameTypes
<1>6. CASE LosePower
  <2>1. Starts(Frames', Frames)
    BY <1>1, <1>6, Lost DEF LosePower, Starts
  <2> QED
    BY <1>1, <1>3, <2>1 DEF FrameTypes
<1>7. CASE Drops /\ ~LosePower
  BY <1>1, <1>3, <1>4, <1>7, FramesDropped, BatchFacts DEF FrameTypes
<1>8. CASE ~AppendOne /\ ~Drops
  BY <1>1, <1>2, <1>8, FramesKept DEF FrameTypes
<1> QED
  BY <1>5, <1>6, <1>7, <1>8

\* The last sequence of a non-empty file is the sequence of one of its frames.
LEMMA LastTyped ==
  ASSUME NEW s \in Seq(Record)
  PROVE  /\ LastSeq(s) \in Nat \cup {NoSeq}
         /\ LastSeq(s) # NoSeq => Len(s) \in 1..Len(s)
            /\ s[Len(s)].seq = LastSeq(s)
<1>1. CASE s = <<>>
  BY <1>1 DEF LastSeq
<1>2. CASE s # <<>>
  <2>1. Len(s) \in 1..Len(s) /\ s[Len(s)] \in Record
        /\ LastSeq(s) = s[Len(s)].seq
    BY <1>2 DEF LastSeq
  <2> QED
    BY <2>1 DEF Record
<1> QED
  BY <1>1, <1>2

\* The types of a cursor.
LEMMA CursorFacts ==
  ASSUME NEW c \in CursorSet
  PROVE  /\ c.acq \in 0..MaxOpens /\ c.ino \in 0..MaxChanges + 1
         /\ c.seen \in Seq(Lines) /\ Len(c.seen) \in Nat /\ c.joff \in Nat
  BY DEF CursorSet

\* NoCursor is a cursor that stands for nothing.
LEMMA NoCursorTyped ==
  /\ NoCursor \in CursorSet /\ NoCursor.joff = 0 /\ Len(NoCursor.seen) = 0
  /\ NoCursor.acq = 0 /\ NoCursor.ino = 0
<1>1. 0 \in 0..MaxOpens /\ 0 \in 0..MaxChanges + 1
  BY Bounds
<1>2. <<>> \in Seq(Lines) /\ Len(<<>>) = 0
  OBVIOUS
<1> QED
  BY <1>1, <1>2 DEF NoCursor, CursorSet

\* The frames behind the cursor, and their lines.
LEMMA TailTyped ==
  ASSUME FrameTypes, cursor \in CursorSet, cursor.joff <= Len(file)
  PROVE  LET n == Len(file) - cursor.joff
         IN  /\ n \in Nat /\ Len(JournalTail) = n
             /\ TailLines \in Seq(Lines) /\ Len(TailLines) = n
             /\ \A i \in 1..n :
                   /\ cursor.joff + i \in cursor.joff + 1..Len(file)
                   /\ JournalTail[i] = file[cursor.joff + i]
                   /\ TailLines[i] = file[cursor.joff + i].body.line
<1> DEFINE n == Len(file) - cursor.joff
<1>1. /\ file \in Seq(Record) /\ Len(file) \in Nat /\ n \in Nat
      /\ cursor.joff \in Nat /\ cursor.joff \in 0..Len(file)
  BY CursorFacts DEF FrameTypes
<1>2. Len(JournalTail) = n
      /\ \A i \in 1..n : JournalTail[i] = file[cursor.joff + i]
  BY <1>1, RestIndex DEF JournalTail
<1>3. \A j \in 1..Len(file) : file[j].body.line \in Lines
  <2>1. \A j \in 1..Len(file) : file[j].body \in Entry
    BY FrameFacts DEF FrameTypes, Carries, Starts
  <2>2. \A e \in Entry : e.line \in Lines
    BY DEF Entry
  <2> QED
    BY <2>1, <2>2
<1> HIDE DEF n
<1>4. \A i \in 1..n : /\ cursor.joff + i \in 1..Len(file)
                      /\ cursor.joff + i \in cursor.joff + 1..Len(file)
  BY <1>1 DEF n
<1>5. TailLines = [i \in 1..n |-> file[cursor.joff + i].body.line]
  BY <1>2 DEF TailLines
<1>6. TailLines \in Seq(Lines) /\ Len(TailLines) = n
      /\ \A i \in 1..n : TailLines[i] = file[cursor.joff + i].body.line
  BY <1>1, <1>3, <1>4, <1>5
<1> QED
  BY <1>1, <1>2, <1>4, <1>6 DEF n

\* What a replay makes of the cursor.
LEMMA ReplayFacts ==
  ASSUME FrameTypes, cursor \in CursorSet, cursor.joff <= Len(file)
  PROVE  LET n == Len(file) - cursor.joff
         IN  /\ Replayed \in CursorSet /\ Replayed.joff = Len(file)
             /\ Replayed.ino = cursor.ino
             /\ Replayed.seen = cursor.seen \o TailLines
             /\ Replayed.seen \in Seq(Lines)
             /\ Len(Replayed.seen) = Len(cursor.seen) + n
             /\ \A i \in 1..Len(cursor.seen) : Replayed.seen[i] = cursor.seen[i]
             /\ \A i \in 1..n : Replayed.seen[Len(cursor.seen) + i] =
                                   file[cursor.joff + i].body.line
<1> DEFINE n == Len(file) - cursor.joff
<1>1. /\ n \in Nat /\ TailLines \in Seq(Lines) /\ Len(TailLines) = n
      /\ \A i \in 1..n : TailLines[i] = file[cursor.joff + i].body.line
  BY TailTyped
<1>2. cursor.seen \in Seq(Lines) /\ Len(cursor.seen) \in Nat
      /\ cursor.joff \in Nat /\ Len(file) \in Nat
  BY CursorFacts DEF FrameTypes
<1> HIDE DEF n
<1>3. PICK t \in Seq(Lines) : t = TailLines
  BY <1>1
<1>4. PICK s \in Seq(Lines) : s = cursor.seen
  BY <1>2
<1>5. PICK u \in Seq(Lines) : u = s \o t
  BY ConcatIndex
<1>6. /\ Len(u) = Len(s) + n /\ \A i \in 1..Len(s) : u[i] = s[i]
      /\ \A i \in 1..n : u[Len(s) + i] = t[i]
  <2>1. /\ Len(s) \in Nat /\ n \in Nat /\ Len(t) = n
        /\ Len(u) = Len(s) + Len(t)
        /\ \A i \in 1..Len(s) + Len(t) :
              u[i] = IF i <= Len(s) THEN s[i] ELSE t[i - Len(s)]
    BY <1>1, <1>3, <1>5, ConcatIndex
  <2>2. \A i \in 1..n : /\ Len(s) + i \in 1..Len(s) + Len(t)
                        /\ ~(Len(s) + i <= Len(s)) /\ (Len(s) + i) - Len(s) = i
    BY <2>1
  <2>3. \A i \in 1..Len(s) : i \in 1..Len(s) + Len(t) /\ i <= Len(s)
    BY <2>1
  <2> QED
    BY <2>1, <2>2, <2>3
<1>7. Replayed = [cursor EXCEPT !.seen = u, !.joff = Len(file)]
  BY <1>3, <1>4, <1>5 DEF Replayed
<1>8. /\ Replayed \in CursorSet /\ Replayed.joff = Len(file)
      /\ Replayed.ino = cursor.ino /\ Replayed.seen = u
  BY <1>2, <1>7 DEF CursorSet
<1>9. \A i \in 1..n : u[Len(s) + i] = file[cursor.joff + i].body.line
  BY <1>1, <1>3, <1>6
<1> QED
  BY <1>3, <1>4, <1>5, <1>6, <1>8, <1>9 DEF n

\* What a replay adds to the cursor.
LEMMA ReplayTyped ==
  ASSUME FrameTypes, cursor \in CursorSet, NeedsReplay
  PROVE  /\ Replayed \in CursorSet /\ Replayed.joff = Len(file)
         /\ Len(file) \in Nat
         /\ Replayed.seen \in Seq(Lines)
         /\ \A i \in 1..Len(Replayed.seen) :
               IF i <= Len(cursor.seen)
                 THEN Replayed.seen[i] = cursor.seen[i]
                 ELSE \E j \in 1..Len(file) :
                         Replayed.seen[i] = file[j].body.line
<1> DEFINE n == Len(file) - cursor.joff
<1>1. /\ Len(file) \in Nat /\ cursor.joff \in Nat
      /\ cursor.joff <= Len(file) /\ n \in Nat /\ Len(cursor.seen) \in Nat
  BY CursorFacts DEF FrameTypes, NeedsReplay
<1>2. /\ Replayed \in CursorSet /\ Replayed.joff = Len(file)
      /\ Replayed.seen \in Seq(Lines)
      /\ Len(Replayed.seen) = Len(cursor.seen) + n
      /\ \A i \in 1..Len(cursor.seen) : Replayed.seen[i] = cursor.seen[i]
      /\ \A i \in 1..n : Replayed.seen[Len(cursor.seen) + i] =
                            file[cursor.joff + i].body.line
  BY <1>1, ReplayFacts
<1>3. ASSUME NEW i \in 1..Len(Replayed.seen), i <= Len(cursor.seen)
      PROVE  Replayed.seen[i] = cursor.seen[i]
  BY <1>1, <1>2, <1>3
<1>4. ASSUME NEW i \in 1..Len(Replayed.seen), ~(i <= Len(cursor.seen))
      PROVE  \E j \in 1..Len(file) : Replayed.seen[i] = file[j].body.line
  <2>1. PICK k \in 1..n : i = Len(cursor.seen) + k
    <3>1. i - Len(cursor.seen) \in 1..n
          /\ i = Len(cursor.seen) + (i - Len(cursor.seen))
      BY <1>1, <1>2, <1>4
    <3> QED
      BY <3>1
  <2>2. cursor.joff + k \in 1..Len(file)
    BY <1>1
  <2> QED
    BY <1>2, <2>1, <2>2
<1> QED
  BY <1>1, <1>2, <1>3, <1>4

\* What a checkpoint becomes, and what a batch takes from the queue.
Delivered(e) == [acq |-> e.acq, ino |-> e.ino, seen |-> e.seen,
                 joff |-> Len(file) + Len(buffer)]

\* handle_non_record: the cursor that a checkpoint becomes.
LEMMA CheckpointTaken ==
  ASSUME FrameTypes, queue \in Seq(Event), TakeCheckpoint
  PROVE  /\ queue # <<>> /\ ~IsRecord(queue[1]) /\ Head(queue) = queue[1]
         /\ pending' = Delivered(queue[1])
         /\ pending' \in CursorSet /\ pending'.seen = queue[1].seen
         /\ pending'.joff = Len(file) + Len(buffer)
         /\ queue' = Tail(queue) /\ queue' \in Seq(Event)
<1>1. queue # <<>> /\ ~IsRecord(queue[1]) /\ Head(queue) = queue[1]
      /\ queue[1] \in Event /\ queue' = Tail(queue) /\ queue' \in Seq(Event)
      /\ pending' = Delivered(queue[1])
  BY DEF TakeCheckpoint, Delivered
<1>2. Len(file) + Len(buffer) \in Nat
  BY DEF FrameTypes
<1>3. Delivered(queue[1]) \in CursorSet
  BY <1>1, <1>2, EventTypes DEF Delivered, CursorSet
<1> QED
  BY <1>1, <1>2, <1>3 DEF Delivered

\* append_records: the record that an event becomes, and the batch that the
\* first events of the queue become.
Recorded(e) == [acq |-> e.acq, line |-> e.line]
LEMMA RecordsTaken ==
  ASSUME queue \in Seq(Event), NEW n \in 1..Len(queue),
         \A i \in 1..n : IsRecord(queue[i]),
         batch' = [i \in 1..n |-> Recorded(queue[i])],
         queue' = SubSeq(queue, n + 1, Len(queue))
  PROVE  /\ batch' \in Seq(Entry) /\ Len(batch') = n
         /\ \A i \in 1..n : batch'[i].line = queue[i].line
         /\ queue' \in Seq(Event) /\ Len(queue') = Len(queue) - n
         /\ \A k \in 1..Len(queue) - n : queue'[k] = queue[n + k]
<1>1. \A i \in 1..n : queue[i] \in Event
      /\ Recorded(queue[i]) \in Entry
  <2> SUFFICES ASSUME NEW i \in 1..n
               PROVE  queue[i] \in Event
                      /\ Recorded(queue[i]) \in Entry
    OBVIOUS
  <2>1. queue[i] \in Event /\ IsRecord(queue[i])
    OBVIOUS
  <2> QED
    BY <2>1, EventTypes DEF Entry, Recorded
<1>2. batch' \in Seq(Entry) /\ Len(batch') = n
  BY <1>1
<1>3. queue' \in Seq(Event) /\ Len(queue') = Len(queue) - n
      /\ \A k \in 1..Len(queue) - n : queue'[k] = queue[n + k]
  OBVIOUS
<1>4. \A i \in 1..n : batch'[i].line = queue[i].line
  BY DEF Recorded
<1> QED
  BY <1>2, <1>3, <1>4

\* What happens to the writer's variables keeps their types.
LEMMA WriterTyped ==
  ASSUME JournalInv, JournalInv', Types, [Next]_vars
  PROVE  FileTypes' /\ AcqTypes' /\ WriterTypes'
<1>1. /\ FileTypes /\ AcqTypes /\ WriterTypes /\ FrameTypes
      /\ queue \in Seq(Event) /\ wpc \in Places /\ batch \in Seq(Entry)
      /\ sinceSync \in Nat /\ pending \in CursorSet /\ cursor \in CursorSet
      /\ published \in Nat \cup {NoSeq} /\ faults \in FaultPlans
      /\ Frames \in Seq(Record) /\ file' \in Seq(Record)
      /\ Len(file) + Len(buffer) \in Nat
  BY FrameFacts DEF Types, WriterTypes, FrameTypes, JournalInv, JournalTypeOK
<1>2. LastSeq(Frames) \in Nat \cup {NoSeq} /\ LastSeq(file) \in Nat \cup {NoSeq}
      /\ LastSeq(file') \in Nat \cup {NoSeq}
  BY <1>1, LastTyped DEF FrameTypes
<1>3. NoCursor \in CursorSet /\ <<>> \in Seq(Event) /\ <<>> \in Seq(Entry)
  BY NoCursorTyped
<1> DEFINE Keeps == FileTypes' /\ AcqTypes' /\ WriterTypes'
           TaskVars == <<files, acq, opens>>
<1>4. ASSUME UNCHANGED TaskVars PROVE FileTypes' /\ AcqTypes'
  BY <1>1, <1>4 DEF FileTypes, AcqTypes, Path
<1>5. ASSUME UNCHANGED files, acq' = Idle,
             UNCHANGED opens PROVE FileTypes' /\ AcqTypes'
  <2>1. Idle \in Tasks /\ Idle.phase = "off"
    <3>1. 0 \in 0..MaxOpens /\ 0 \in 0..MaxChanges + 1 /\ <<>> \in Seq(Lines)
      BY Bounds
    <3> QED
      BY <3>1 DEF Idle, Tasks
  <2> QED
    BY <1>1, <1>5, <2>1 DEF FileTypes, AcqTypes, Path
<1>6. CASE SourceStep
  <2>1. UNCHANGED <<acq, opens, queue, writerVars, faults>>
    BY <1>6 DEF SourceStep, SourceGrows, SourceRotates, SourceTruncated
  <2>2. FileTypes' /\ WriterTypes'
    BY <1>1, <1>6, <2>1, FilesTyped DEF WriterTypes, writerVars
  <2>3. AcqTypes'
    <3>1. Path' \in Nat /\ Path' >= Path /\ Path \in Nat
      BY <1>1, <1>6, FilesTyped, FileFacts
    <3> QED
      BY <1>1, <2>1, <3>1 DEF AcqTypes
  <2> QED
    BY <2>2, <2>3
<1>7. CASE TaskStep \/ StopCapture \/ AbortCapture
  <2>1. UNCHANGED <<files, writerVars, faults>>
    BY <1>7 DEF TaskStep, StopCapture, AbortCapture, Read, Acknowledge,
       FollowChanged, FollowAnew
  <2>2. AcqTypes' /\ queue' \in Seq(Event)
    BY <1>1, <1>7, TasksTyped
  <2> QED
    BY <1>1, <2>1, <2>2 DEF FileTypes, WriterTypes, writerVars, Path
<1>8. CASE RecoverCursor
  <2>1. cursor' \in CursorSet
    BY <1>1, <1>8, ReplayTyped DEF RecoverCursor
  <2> QED
    BY <1>1, <1>2, <1>4, <1>8, <2>1 DEF RecoverCursor, WriterTypes, Places,
                                        taskVars
<1>9. CASE RefuseStart \/ TakeFinish \/ CommitDeadline \/ StartWriter
           \/ WriterIoError
  <2>1. UNCHANGED <<files, acq, opens, queue, faults, published, cursor>>
        /\ wpc' \in Places
    BY <1>9 DEF RefuseStart, TakeFinish, CommitDeadline, StartWriter,
                WriterIoError,
       taskVars, Places
  <2>2. batch' \in {batch, <<>>} /\ sinceSync' \in {sinceSync, 0}
        /\ pending' \in {pending, NoCursor}
    BY <1>9 DEF RefuseStart, TakeFinish, CommitDeadline, StartWriter,
                WriterIoError
  <2>3. FileTypes' /\ AcqTypes'
    BY <1>4, <2>1
  <2>4. batch' \in Seq(Entry) /\ sinceSync' \in Nat /\ pending' \in CursorSet
    <3>1. batch' \in Seq(Entry)
      BY <1>1, <1>3, <2>2
    <3>2. sinceSync' \in Nat
      BY <1>1, <2>2
    <3>3. pending' \in CursorSet
      BY <1>1, <1>3, <2>2
    <3> QED
      BY <3>1, <3>2, <3>3
  <2> QED
    BY <1>1, <2>1, <2>3, <2>4 DEF WriterTypes
<1>10. CASE BeginCapture
  <2>1. Path \in 1..Path /\ cursor.seen \in Seq(Lines) /\ <<>> \in Seq(Lines)
    BY <1>1, FileFacts, CursorFacts
  <2>2. PICK seen \in Seq(Lines) : BeginAt(Path, seen)
    BY <1>10, <2>1 DEF BeginCapture
  <2>3. acq' \in Tasks /\ opens' \in 0..MaxOpens /\ acq'.id \in 1..MaxOpens
        /\ acq'.ino = Path /\ queue' \in Seq(Event)
    BY <1>1, <2>1, <2>2, BeginTyped
  <2> QED
    BY <1>1, <1>10, <2>1, <2>3 DEF BeginCapture, WriterTypes, AcqTypes,
                                   FileTypes, Places, Path
<1>11. CASE TakeRecords
  <2>1. batch' \in Seq(Entry) /\ queue' \in Seq(Event)
    BY <1>1, <1>11, RecordsTaken DEF TakeRecords, Recorded
  <2> QED
    BY <1>1, <1>4, <1>11, <2>1 DEF TakeRecords, WriterTypes, Places
<1>12. CASE AppendOne
  BY <1>1, <1>4, <1>12, BatchFacts DEF AppendOne, WriterTypes, taskVars
<1>13. CASE StorageBlocked \/ FlushBatch \/ StoreCursor
  BY <1>1, <1>2, <1>3, <1>4, <1>13 DEF StorageBlocked, FlushBatch, StoreCursor,
     WriterTypes, Places, taskVars, Frames
<1>14. CASE TakeCheckpoint
  <2>1. pending' \in CursorSet /\ queue' \in Seq(Event)
    BY <1>1, <1>14, CheckpointTaken
  <2> QED
    BY <1>1, <1>2, <1>4, <1>14, <2>1 DEF TakeCheckpoint, WriterTypes, Frames
<1>15. CASE CommitJournal
  BY <1>1, <1>4, <1>15 DEF CommitJournal, WriterTypes, Places, taskVars
<1>16. CASE StoreLastCursor \/ DropWriter
  <2>1. UNCHANGED <<files, opens>> /\ acq' = Idle /\ UNCHANGED faults
        /\ wpc' = "down"
    BY <1>16 DEF StoreLastCursor, DropWriter
  <2>2. queue' \in Seq(Event) /\ batch' \in Seq(Entry) /\ sinceSync' \in Nat
        /\ cursor' \in CursorSet /\ pending' \in CursorSet
        /\ published' \in Nat \cup {NoSeq}
    <3>1. CASE StoreLastCursor
      BY <1>1, <1>2, <1>3, <3>1 DEF StoreLastCursor, Frames
    <3>2. CASE DropWriter
      BY <1>1, <1>3, <3>2 DEF DropWriter
    <3> QED
      BY <1>16, <3>1, <3>2
  <2> QED
    BY <1>1, <1>5, <2>1, <2>2 DEF WriterTypes, Places
<1>17. CASE CursorIoError
  <2>1. cursor' \in CursorSet
    BY <1>1, <1>17, ReplayTyped DEF CursorIoError
  <2> QED
    BY <1>1, <1>3, <1>4, <1>17, <2>1 DEF CursorIoError, WriterTypes, Places,
                                         taskVars
<1>18. CASE KillProcess \/ LosePower
  <2>1. ProcessGone
    BY <1>18 DEF KillProcess, LosePower
  <2> QED
    BY <1>1, <1>3, <1>5, <2>1 DEF ProcessGone, WriterTypes, Places
<1>19. CASE UNCHANGED vars
  BY <1>1, <1>4, <1>19 DEF vars, taskVars, writerVars, WriterTypes
<1> QED
  BY <1>6, <1>7, <1>8, <1>9, <1>10, <1>11, <1>12, <1>13, <1>14, <1>15, <1>16,
     <1>17, <1>18, <1>19 DEF Next, WriterStep, UserStep, FailureStep

\* The invariant of the journal and the types, together: Init and every step.
LEMMA TypesKept ==
  ASSUME JournalInv, Types, [Next]_vars
  PROVE  JournalInv' /\ Types'
<1>1. batch \in Seq(Entry) /\ FrameTypes
  BY DEF Types, WriterTypes
<1>2. JournalInv'
  BY <1>1, JournalSteps, StepInv
<1> QED
  BY <1>1, <1>2, WriterTyped, FramesTyped DEF Types

\* The same in the initial state.
LEMMA TypesInit == ASSUME Init PROVE JournalInv /\ Types
<1>1. JournalInv /\ file = <<>> /\ buffer = <<>>
  BY InitInv DEF Init, JournalInit
<1>2. FrameTypes
  BY <1>1 DEF FrameTypes, Frames, Carries
<1>3. FileTypes
  <2>1. [epoch |-> 0, len |-> 0] \in Sizes /\ 1 \in 1..MaxChanges + 1
    BY Bounds DEF Sizes
  <2>2. files = <<[epoch |-> 0, len |-> 0]>>
    BY DEF Init
  <2> QED
    BY <2>1, <2>2 DEF FileTypes, Path
<1>4. AcqTypes
  <2>1. 0 \in 0..MaxOpens /\ 0 \in 0..MaxChanges + 1 /\ <<>> \in Seq(Lines)
    BY Bounds
  <2> QED
    BY <2>1 DEF Init, Idle, AcqTypes, Tasks
<1>5. WriterTypes
  BY NoCursorTyped DEF Init, WriterTypes, Places
<1> QED
  BY <1>1, <1>2, <1>3, <1>4, <1>5 DEF Types

-----------------------------------------------------------------------------
(* The writer                                                              *)

\* The steps of the tasks around the writer leave the writer and its journal
\* alone.
Around == SourceStep \/ TaskStep \/ StopCapture \/ AbortCapture
\/ UNCHANGED vars
\* The tasks around the writer touch neither it nor its journal.
LEMMA AroundFacts ==
  ASSUME Around
  PROVE  UNCHANGED <<journalVars, writerVars, faults>>
  BY DEF Around, SourceStep, SourceGrows, SourceRotates, SourceTruncated,
         TaskStep,
     Read, Acknowledge, FollowChanged, FollowAnew, StopCapture, AbortCapture,
     vars,
     taskVars

\* Between batches the writer buffers nothing.
LEMMA QuietKept ==
  ASSUME JournalInv, batch \in Seq(Entry), Quiet, [Next]_vars
  PROVE  Quiet'
<1> USE DEF Quiet
<1>1. status # "open" => buffer = <<>>
  BY JournalTyped
<1>2. CASE Around
  BY <1>2, AroundFacts DEF journalVars, writerVars
<1>3. CASE StartWriter
  BY <1>3 DEF StartWriter, Open
<1>4. CASE RecoverCursor \/ BeginCapture \/ TakeRecords \/ StorageBlocked
           \/ TakeCheckpoint \/ TakeFinish \/ CommitDeadline \/ StoreCursor
           \/ CursorIoError
  BY <1>4 DEF RecoverCursor, BeginCapture, TakeRecords, StorageBlocked,
              TakeCheckpoint,
     TakeFinish, CommitDeadline, StoreCursor, CursorIoError, journalVars
<1>5. CASE AppendOne
  BY <1>5 DEF AppendOne, AppendRecord
<1>6. CASE FlushBatch \/ CommitJournal
  BY <1>6 DEF FlushBatch, CommitJournal, Flush, SyncData
<1>7. CASE RefuseStart \/ StoreLastCursor \/ DropWriter
  BY <1>7 DEF RefuseStart, StoreLastCursor, DropWriter, Close
<1>8. CASE WriterIoError
  BY <1>8 DEF WriterIoError, ReserveFails, AppendWriteFails, WriteFails
<1>9. CASE KillProcess \/ LosePower
  BY <1>9 DEF KillProcess, LosePower, Kill, PowerLoss, PartialWrite, ProcessGone
<1> QED
  BY <1>2, <1>3, <1>4, <1>5, <1>6, <1>7, <1>8, <1>9 DEF Next, WriterStep,
                                                        UserStep,
     FailureStep, Around

\* The file only grows, but for a loss of power.
LEMMA FileGrows ==
  ASSUME JournalInv, batch \in Seq(Entry), [Next]_vars, ~LosePower
  PROVE  Starts(file, file')
<1>1. CASE AppendOne
  BY <1>1, BatchFacts, Added DEF AppendOne
<1>2. CASE Drops
  BY <1>2, FramesDropped
<1>3. CASE ~AppendOne /\ ~Drops
  BY <1>3, FramesKept
<1> QED
  BY <1>1, <1>2, <1>3

\* The writer publishes the sequence of a frame of the file.
LEMMA ReadableKept ==
  ASSUME JournalInv, Types, Quiet, Types', Readable, [Next]_vars
  PROVE  Readable'
<1>1. /\ file \in Seq(Record) /\ file' \in Seq(Record) /\ batch \in Seq(Entry)
      /\ Len(file) \in Nat /\ Len(file') \in Nat
  BY DEF Types, WriterTypes, FrameTypes
<1> DEFINE In(s, p) == \E i \in 1..Len(s) : s[i].seq = p
<1>2. \A s \in Seq(Record) : LastSeq(s) # NoSeq => In(s, LastSeq(s))
  BY LastTyped
<1>3. ASSUME Starts(file, file'), NEW p, In(file, p) PROVE In(file', p)
  BY <1>1, <1>3 DEF Starts
<1>4. faults' = faults
  BY DEF Next, SourceStep, SourceGrows, SourceRotates, SourceTruncated,
         TaskStep,
     Read, Acknowledge, FollowChanged, FollowAnew, WriterStep, RecoverCursor,
     RefuseStart, BeginCapture, TakeRecords, AppendOne, StorageBlocked,
     FlushBatch,
     TakeCheckpoint, TakeFinish, CommitJournal, StoreCursor, StoreLastCursor,
     DropWriter, CommitDeadline, UserStep, StartWriter, StopCapture,
     AbortCapture,
     FailureStep, WriterIoError, CursorIoError, KillProcess, LosePower,
     ProcessGone,
     vars, taskVars
<1>5. CASE KillProcess \/ LosePower
  BY <1>5 DEF KillProcess, LosePower, ProcessGone, Readable
<1>6. CASE StorageBlocked
  BY <1>4, <1>6 DEF StorageBlocked, OverLimit, Readable
<1>7. CASE ~KillProcess /\ ~LosePower /\ ~StorageBlocked
  <2>1. Starts(file, file')
    BY <1>1, <1>7, FileGrows
  <2>2. published' \in {published, LastSeq(file), LastSeq(file')}
    <3>1. wpc \notin {"append", "failed"} => file \o buffer = file
      BY <1>1 DEF Quiet
    <3>2. CASE RecoverCursor \/ FlushBatch \/ TakeCheckpoint \/ StoreCursor
               \/ StoreLastCursor
      BY <3>1, <3>2 DEF RecoverCursor, FlushBatch, TakeCheckpoint, StoreCursor,
         StoreLastCursor
    <3>3. CASE UNCHANGED published
      BY <3>3
    <3> QED
      BY <1>7, <3>2, <3>3 DEF Next, SourceStep, SourceGrows, SourceRotates,
         SourceTruncated, TaskStep, Read, Acknowledge, FollowChanged,
         FollowAnew,
         WriterStep, RefuseStart, BeginCapture, TakeRecords, AppendOne,
         TakeFinish,
         CommitJournal, DropWriter, CommitDeadline, UserStep, StartWriter,
         StopCapture, AbortCapture, FailureStep, WriterIoError, CursorIoError,
         vars, writerVars
  <2>3. CASE published' = published
    BY <1>3, <1>4, <2>1, <2>3 DEF Readable
  <2>4. CASE published' = LastSeq(file)
    BY <1>1, <1>2, <1>3, <2>1, <2>4 DEF Readable
  <2>5. CASE published' = LastSeq(file')
    BY <1>1, <1>2, <2>5 DEF Readable
  <2> QED
    BY <2>2, <2>3, <2>4, <2>5
<1> QED
  BY <1>5, <1>6, <1>7

\* More frames cover what fewer do.
LEMMA CoversMore ==
  ASSUME NEW S, NEW s \in Seq(S), NEW t \in Seq(S), Starts(s, t),
         NEW c \in CursorSet, Covers(s, c)
  PROVE  Covers(t, c)
<1>1. Len(s) \in Nat /\ Len(t) \in Nat /\ c.joff \in Nat
  BY CursorFacts
<1>2. \A j \in 1..c.joff : t[j] = s[j]
  BY <1>1 DEF Covers, Starts
<1>3. ASSUME NEW l, Bears(s, c.joff, l) PROVE Bears(t, c.joff, l)
  BY <1>2, <1>3 DEF Bears
<1>4. c.joff <= Len(t)
  BY <1>1 DEF Covers, Starts
<1> QED
  BY <1>3, <1>4 DEF Covers

\* NoCursor is covered by any file.
LEMMA NothingCovered ==
  ASSUME NEW S, NEW s \in Seq(S)
  PROVE  Covers(s, NoCursor)
<1>1. Len(s) \in Nat /\ 0 <= Len(s)
  OBVIOUS
<1> QED
  BY <1>1, NoCursorTyped DEF Covers

\* A replay accounts for frames that the file holds.
LEMMA ReplayCovered ==
  ASSUME FrameTypes, cursor \in CursorSet, Covers(file, cursor), NeedsReplay
  PROVE  Covers(file, Replayed)
<1>1. /\ Len(file) \in Nat /\ Replayed.joff = Len(file) /\ cursor.joff \in Nat
      /\ cursor.joff <= Len(file)
  BY ReplayTyped, CursorFacts DEF Covers
<1>2. ASSUME NEW i \in 1..Len(Replayed.seen)
      PROVE  Bears(file, Len(file), Replayed.seen[i])
  <2>1. CASE i <= Len(cursor.seen)
    <3>1. i \in 1..Len(cursor.seen) /\ Replayed.seen[i] = cursor.seen[i]
      BY <2>1, ReplayTyped, CursorFacts
    <3>2. Bears(file, cursor.joff, cursor.seen[i])
      BY <3>1 DEF Covers
    <3> QED
      BY <1>1, <3>1, <3>2 DEF Bears
  <2>2. CASE ~(i <= Len(cursor.seen))
    BY <2>2, ReplayTyped DEF Bears
  <2> QED
    BY <2>1, <2>2
<1> QED
  BY <1>1, <1>2 DEF Covers

\* A checkpoint arrives behind the lines it accounts for.
LEMMA CheckpointCovered ==
  ASSUME JournalInv, Types, Quiet, Travels, TakeCheckpoint
  PROVE  Covers(file, pending')
<1>1. /\ FrameTypes /\ queue \in Seq(Event) /\ queue # <<>>
         /\ ~IsRecord(queue[1])
      /\ pending'.seen = queue[1].seen
         /\ pending'.joff = Len(file) + Len(buffer)
  BY CheckpointTaken DEF Types, WriterTypes
<1>2. wpc = "idle" /\ buffer = <<>> /\ batch = <<>>
  BY DEF TakeCheckpoint, Quiet
<1>3. pending'.joff = Len(file) /\ Len(file) \in Nat /\ Frames = file
  BY <1>1, <1>2, FrameFacts DEF FrameTypes
<1>4. ASSUME NEW i \in 1..Len(queue[1].seen)
      PROVE  Bears(file, Len(file), queue[1].seen[i])
  <2>1. queue[1].seen[i] \in Needs(queue[1]) /\ 1 \in 1..Len(queue)
    BY <1>1 DEF Needs
  <2>2. Held(file, <<>>, queue, 0, queue[1].seen[i])
    BY <1>2, <1>3, <2>1 DEF Travels, QueueBehind
  <2> QED
    BY <2>2 DEF Held, Taken, Batched, Queued
<1> QED
  BY <1>1, <1>3, <1>4 DEF Covers

\* What the two cursors may become.
LEMMA CursorsBecome ==
  ASSUME [Next]_vars
  PROVE  /\ \/ cursor' = cursor
            \/ cursor' = pending /\ wpc \in {"store", "finstore"}
            \/ cursor' = Replayed /\ NeedsReplay /\ wpc = "recover"
         /\ pending' = pending \/ pending' = NoCursor \/ TakeCheckpoint
  BY DEF Next, SourceStep, SourceGrows, SourceRotates, SourceTruncated,
         TaskStep,
     Read, Acknowledge, FollowChanged, FollowAnew, WriterStep, RecoverCursor,
     RefuseStart, BeginCapture, TakeRecords, AppendOne, StorageBlocked,
     FlushBatch,
     TakeCheckpoint, TakeFinish, CommitJournal, StoreCursor, StoreLastCursor,
     DropWriter, CommitDeadline, UserStep, StartWriter, StopCapture,
     AbortCapture,
     FailureStep, WriterIoError, CursorIoError, KillProcess, LosePower,
     ProcessGone,
     vars, writerVars

\* Both cursors stay covered: a loss of power takes nothing below the durable
\* cursor, and every other step keeps the file.
LEMMA CoveredKept ==
  ASSUME WriterInv, WriterInv', Covered, Synced, Travels, [Next]_vars
  PROVE  Covered'
<1>1. /\ JournalInv /\ Types /\ FrameTypes /\ batch \in Seq(Entry)
      /\ cursor \in CursorSet /\ pending \in CursorSet
      /\ file \in Seq(Record) /\ file' \in Seq(Record)
      /\ cursor' \in CursorSet /\ pending' \in CursorSet
      /\ Len(file) \in Nat /\ Len(file') \in Nat
  BY DEF WriterInv, Types, WriterTypes, FrameTypes
<1>2. CASE LosePower
  <2>1. cursor' = cursor /\ pending' = NoCursor /\ Lossy
    BY <1>2 DEF LosePower, ProcessGone, Lossy
  <2>2. cursor.joff <= durable /\ durable \in Nat /\ cursor.joff \in Nat
    BY <1>1, <2>1, JournalTyped, CursorFacts DEF Synced
  <2>3. durable <= Len(file') /\ Starts(file', file)
    BY <1>1, <1>2, Lost DEF LosePower
  <2>4. cursor.joff <= Len(file')
        /\ \A j \in 1..cursor.joff : file'[j] = file[j]
    BY <1>1, <2>2, <2>3 DEF Starts
  <2>5. ASSUME NEW l,
               Bears(file, cursor.joff, l) PROVE Bears(file', cursor.joff, l)
    BY <2>4, <2>5 DEF Bears
  <2>6. Covers(file', cursor)
    BY <2>4, <2>5 DEF Covered, Covers
  <2> QED
    BY <1>1, <2>1, <2>6, NothingCovered DEF Covered
<1>3. CASE ~LosePower
  <2>1. Starts(file, file')
    BY <1>1, <1>3, FileGrows
  <2>2. Covers(file, cursor')
    BY <1>1, CursorsBecome, ReplayCovered DEF Covered
  <2>3. Covers(file, pending')
    BY <1>1, CursorsBecome, NothingCovered, CheckpointCovered DEF Covered,
                                                                  WriterInv
  <2> QED
    BY <1>1, <2>1, <2>2, <2>3, CoversMore DEF Covered
<1> QED
  BY <1>2, <1>3

\* Where only power is lost, a commit makes durable what its cursor covers.
LEMMA SyncedKept ==
  ASSUME LossAlone, WriterInv, WriterInv', Covered, Synced, [Next]_vars
  PROVE  Synced'
<1>1. /\ JournalInv /\ Types /\ Quiet /\ FrameTypes /\ batch \in Seq(Entry)
      /\ cursor \in CursorSet /\ pending \in CursorSet
      /\ cursor.joff \in Nat /\ pending.joff \in Nat /\ sinceSync \in Nat
      /\ file \in Seq(Record) /\ file' \in Seq(Record)
      /\ Len(file) \in Nat /\ Len(file') \in Nat /\ durable \in 0..Len(file)
  BY JournalTyped, CursorFacts DEF WriterInv, Types, WriterTypes, FrameTypes
<1>2. SUFFICES ASSUME Lossy' PROVE Synced'
  BY DEF Synced
<1>3. faults' = faults
  BY DEF Next, SourceStep, SourceGrows, SourceRotates, SourceTruncated,
         TaskStep,
     Read, Acknowledge, FollowChanged, FollowAnew, WriterStep, RecoverCursor,
     RefuseStart, BeginCapture, TakeRecords, AppendOne, StorageBlocked,
     FlushBatch,
     TakeCheckpoint, TakeFinish, CommitJournal, StoreCursor, StoreLastCursor,
     DropWriter, CommitDeadline, UserStep, StartWriter, StopCapture,
     AbortCapture,
     FailureStep, WriterIoError, CursorIoError, KillProcess, LosePower,
     ProcessGone,
     vars, taskVars
<1>4. /\ faults = {"powerloss"} /\ wpc # "failed" /\ cursor.joff <= durable
      /\ sinceSync = 0 => durable = Len(file) /\ buffer = <<>>
  BY <1>2, <1>3 DEF LossAlone, Lossy, Synced, WriterInv, Types, WriterTypes
<1>5. ~WriterIoError /\ ~CursorIoError /\ ~KillProcess /\ ~DropWriter
      /\ ~StorageBlocked
  BY <1>4 DEF WriterIoError, CursorIoError, KillProcess, DropWriter,
              StorageBlocked,
     OverLimit
<1> DEFINE Safe == wpc' # "failed" /\ cursor'.joff <= durable'
                   /\ (sinceSync' = 0 => /\ durable' = Len(file')
                                         /\ buffer' = <<>>)
<1>6. SUFFICES Safe
  BY DEF Synced
<1>7. CASE LosePower
  BY <1>1, <1>4, <1>7, Lost DEF LosePower, ProcessGone
<1>8. CASE RecoverCursor
  BY <1>1, <1>4, <1>8, ReplayTyped DEF RecoverCursor, Quiet, journalVars
<1>9. CASE StoreCursor \/ StoreLastCursor
  BY <1>1, <1>4, <1>9 DEF StoreCursor, StoreLastCursor, Quiet, Covered, Covers,
                          Close,
     journalVars
<1>10. CASE Around
  BY <1>1, <1>4, <1>10, AroundFacts DEF journalVars, writerVars
<1>11. CASE RefuseStart \/ BeginCapture \/ TakeRecords \/ TakeCheckpoint
            \/ TakeFinish \/ CommitDeadline
  BY <1>1, <1>4, <1>11 DEF RefuseStart, BeginCapture, TakeRecords,
                           TakeCheckpoint,
     TakeFinish, CommitDeadline, Close, journalVars
<1>12. CASE StartWriter
  BY <1>1, <1>4, <1>12 DEF StartWriter, Open, Quiet
<1>13. CASE AppendOne
  BY <1>1, <1>4, <1>13 DEF AppendOne, AppendRecord
<1>14. CASE FlushBatch
  <2>1. buffer = <<>> => file \o buffer = file
    BY <1>1
  <2> QED
    BY <1>1, <1>4, <1>14, <2>1 DEF FlushBatch, Flush
<1>15. CASE CommitJournal
  BY <1>1, <1>4, <1>15 DEF CommitJournal, Flush, SyncData, Quiet
<1> QED
  BY <1>5, <1>7, <1>8, <1>9, <1>10, <1>11, <1>12, <1>13, <1>14, <1>15
     DEF Next, WriterStep, UserStep, FailureStep, Around

-----------------------------------------------------------------------------
(* The road of a line to the journal                                       *)

\* A prefix of frames in order is in order.
LEMMA OrderedPrefix ==
  ASSUME NEW S, NEW s \in Seq(S), NEW t \in Seq(S), Starts(s, t), Ordered(t)
  PROVE  Ordered(s)
<1> SUFFICES ASSUME NEW i \in 1..Len(s), NEW l \in Before(s[i].body.line)
             PROVE  Bears(s, i - 1, l)
  BY DEF Ordered
<1>1. i \in 1..Len(t) /\ s[i] = t[i] /\ \A j \in 1..i - 1 : s[j] = t[j]
  BY DEF Starts
<1>2. Bears(t, i - 1, l)
  BY <1>1 DEF Ordered
<1> QED
  BY <1>1, <1>2 DEF Bears

\* An appended frame bears its own line and hides no other.
LEMMA BearsAppend ==
  ASSUME NEW S, NEW s \in Seq(S), NEW x \in S
  PROVE  /\ \A n \in 0..Len(s) : \A l :
               Bears(s, n, l) => Bears(Append(s, x), n, l)
         /\ \A l : Bears(s, Len(s), l)
                      => Bears(Append(s, x), Len(Append(s, x)), l)
         /\ Bears(Append(s, x), Len(Append(s, x)), x.body.line)
<1>1. /\ Len(Append(s, x)) = Len(s) + 1 /\ Len(s) \in Nat
      /\ \A j \in 1..Len(s) : Append(s, x)[j] = s[j]
      /\ Append(s, x)[Len(s) + 1] = x
  BY AppendIndex
<1> QED
  BY <1>1 DEF Bears

\* A frame whose earlier lines are there may be appended.
LEMMA OrderedAppend ==
  ASSUME NEW S, NEW s \in Seq(S), NEW x \in S, Ordered(s),
         \A l \in Before(x.body.line) : Bears(s, Len(s), l)
  PROVE  Ordered(Append(s, x))
<1> SUFFICES ASSUME NEW i \in 1..Len(Append(s, x)),
                    NEW l \in Before(Append(s, x)[i].body.line)
             PROVE  Bears(Append(s, x), i - 1, l)
  BY DEF Ordered
<1>1. /\ Len(Append(s, x)) = Len(s) + 1 /\ Len(s) \in Nat
      /\ \A j \in 1..Len(s) + 1 :
            Append(s, x)[j] = IF j <= Len(s) THEN s[j] ELSE x
  BY AppendIndex
<1>2. i - 1 \in 0..Len(s)
  BY <1>1
<1>3. Bears(s, i - 1, l)
  <2>1. CASE i <= Len(s)
    BY <1>1, <2>1 DEF Ordered
  <2>2. CASE ~(i <= Len(s))
    <3>1. i - 1 = Len(s) /\ Append(s, x)[i] = x
      BY <1>1, <2>2
    <3> QED
      BY <3>1
  <2> QED
    BY <2>1, <2>2
<1> QED
  BY <1>2, <1>3, BearsAppend

\* What is ahead of the first record of the batch is in frames.
LEMMA HeadBehind ==
  ASSUME NEW s, batch \in Seq(Entry), batch # <<>>, BatchBehind(s, batch)
  PROVE  \A l \in Before(New(Head(batch)).body.line) : Bears(s, Len(s), l)
<1>1. 1 \in 1..Len(batch) /\ Head(batch) = batch[1]
  BY BatchFacts
<1>2. \A l : ~Batched(batch, 0, l)
  BY DEF Batched
<1> QED
  BY <1>1, <1>2 DEF BatchBehind, New

\* No step puts a line before an earlier one of its file: append takes the
\* first record of the batch, and what fails only shortens the frames.
LEMMA OrderedKept ==
  ASSUME WriterInv, WriterInv', Ordered(Frames), Travels, [Next]_vars
  PROVE  Ordered(Frames)'
<1>1. /\ JournalInv /\ batch \in Seq(Entry)
      /\ Frames \in Seq(Record) /\ Frames' \in Seq(Record)
  <2>1. /\ file \in Seq(Record) /\ buffer \in Seq(Record)
        /\ file' \in Seq(Record) /\ buffer' \in Seq(Record)
    BY DEF WriterInv, Types, FrameTypes
  <2> QED
    BY <2>1 DEF WriterInv, Types, WriterTypes, Frames
<1> SUFFICES Ordered(Frames')
  BY DEF Ordered, Bears
<1>2. ASSUME batch # <<>>, wpc # "failed", New(Head(batch)) \in Record
      PROVE  Ordered(Append(Frames, New(Head(batch))))
  BY <1>1, <1>2, HeadBehind, OrderedAppend DEF Travels
<1>3. CASE AppendOne
  <2>1. Frames' = Append(Frames, New(Head(batch)))
        /\ New(Head(batch)) \in Record
    BY <1>1, <1>3, BatchFacts, Added DEF AppendOne
  <2> QED
    BY <1>2, <1>3, <2>1 DEF AppendOne
<1>4. CASE LosePower
  <2>1. Starts(Frames', Frames)
    <3>1. buffer' = <<>> /\ Frames' = file' /\ Starts(file', file)
          /\ Starts(file, Frames)
          /\ Len(file') \in Nat /\ Len(file) \in Nat /\ Len(Frames) \in Nat
      BY <1>1, <1>4, Lost, FrameFacts DEF LosePower, WriterInv, Types,
                                          FrameTypes
    <3> HIDE DEF Frames
    <3> QED
      BY <3>1 DEF Starts
  <2> QED
    BY <1>1, <2>1, OrderedPrefix
<1>5. CASE Drops /\ ~LosePower
  <2>1. CASE Starts(Frames', Frames)
    BY <1>1, <2>1, OrderedPrefix
  <2>2. CASE ~Starts(Frames', Frames)
    <3>1. batch # <<>> /\ WriterIoError /\ New(Head(batch)) \in Record
          /\ Starts(Frames', Append(Frames, New(Head(batch))))
      BY <1>1, <1>5, <2>2, FramesDropped
    <3>2. Ordered(Append(Frames, New(Head(batch))))
      BY <1>2, <3>1 DEF WriterIoError
    <3>3. Append(Frames, New(Head(batch))) \in Seq(Record)
      BY <1>1, <3>1
    <3> QED
      BY <1>1, <3>1, <3>2, <3>3, OrderedPrefix
  <2> QED
    BY <2>1, <2>2
<1>6. CASE ~AppendOne /\ ~Drops
  BY <1>1, <1>6, FramesKept
<1> QED
  BY <1>3, <1>4, <1>5, <1>6

\* Events leave the queue at its head, and their lines are taken.
LEMMA Shifted ==
  ASSUME NEW q, NEW r, NEW n \in Nat, Len(q) \in Nat, n <= Len(q),
         Len(r) = Len(q) - n, \A k \in 1..Len(r) : r[k] = q[n + k],
         NEW s, NEW b, NEW t, NEW d,
         \A l : Taken(s, b, l) => Taken(t, d, l),
         \A j \in 1..n : IsRecord(q[j]) => Taken(t, d, q[j].line)
  PROVE  /\ QueueBehind(s, b, q) => QueueBehind(t, d, r)
         /\ \A seen : SeenHeld(s, b, q, seen) => SeenHeld(t, d, r, seen)
<1>1. ASSUME NEW m \in 0..Len(r), NEW l, Held(s, b, q, n + m, l)
      PROVE  Held(t, d, r, m, l)
  <2>1. CASE Taken(s, b, l)
    BY <2>1 DEF Held
  <2>2. CASE Queued(q, n + m, l)
    <3>1. PICK j \in 1..n + m : IsRecord(q[j]) /\ q[j].line = l
      BY <2>2 DEF Queued
    <3>2. CASE j <= n
      BY <3>1, <3>2 DEF Held
    <3>3. CASE ~(j <= n)
      <4>1. j - n \in 1..m /\ r[j - n] = q[j]
        BY <3>3
      <4> QED
        BY <3>1, <4>1 DEF Held, Queued
    <3> QED
      BY <3>2, <3>3
  <2> QED
    BY <1>1, <2>1, <2>2 DEF Held
<1>2. ASSUME QueueBehind(s, b, q) PROVE QueueBehind(t, d, r)
  <2> SUFFICES ASSUME NEW k \in 1..Len(r), NEW l \in Needs(r[k])
               PROVE  Held(t, d, r, k - 1, l)
    BY DEF QueueBehind
  <2>1. PICK i \in 1..Len(q) : i = n + k /\ r[k] = q[i]
    OBVIOUS
  <2>2. i - 1 = n + (k - 1) /\ k - 1 \in 0..Len(r)
    BY <2>1
  <2>3. Held(s, b, q, i - 1, l)
    BY <1>2, <2>1 DEF QueueBehind
  <2>4. Held(s, b, q, n + (k - 1), l)
    BY <2>2, <2>3
  <2> QED
    BY <1>1, <2>2, <2>4
<1>3. ASSUME NEW seen, SeenHeld(s, b, q, seen) PROVE SeenHeld(t, d, r, seen)
  <2>1. Len(r) \in 0..Len(r) /\ n + Len(r) = Len(q)
    OBVIOUS
  <2> QED
    BY <1>1, <1>3, <2>1 DEF SeenHeld
<1> QED
  BY <1>2, <1>3

\* The queue itself is left alone while what was ahead of it moves on.
LEMMA TakenMore ==
  ASSUME NEW s, NEW b, NEW t, NEW d, NEW q,
         \A l : Taken(s, b, l) => Taken(t, d, l)
  PROVE  /\ QueueBehind(s, b, q) => QueueBehind(t, d, q)
         /\ \A seen : SeenHeld(s, b, q, seen) => SeenHeld(t, d, q, seen)
<1>1. \A n, l : Held(s, b, q, n, l) => Held(t, d, q, n, l)
  BY DEF Held
<1> QED
  BY <1>1 DEF QueueBehind, SeenHeld

\* An event joins the queue behind the lines it needs.
LEMMA Sent ==
  ASSUME NEW q \in Seq(Event), NEW e \in Event, NEW s, NEW b,
         QueueBehind(s, b, q),
         \A l \in Needs(e) : Held(s, b, q, Len(q), l)
  PROVE  /\ QueueBehind(s, b, Append(q, e))
         /\ \A l : Held(s, b, q, Len(q), l)
                      => Held(s, b, Append(q, e), Len(Append(q, e)), l)
         /\ IsRecord(e) => Held(s, b, Append(q, e), Len(Append(q, e)), e.line)
<1> DEFINE r == Append(q, e)
<1>1. /\ Len(r) = Len(q) + 1 /\ Len(q) \in Nat
      /\ \A k \in 1..Len(q) : r[k] = q[k]
      /\ r[Len(q) + 1] = e
  BY AppendIndex
<1> HIDE DEF r
<1>2. ASSUME NEW n \in 0..Len(q), NEW l,
             Held(s, b, q, n, l) PROVE Held(s, b, r, n, l)
  BY <1>1, <1>2 DEF Held, Queued
<1>3. QueueBehind(s, b, r)
  <2> SUFFICES ASSUME NEW k \in 1..Len(r), NEW l \in Needs(r[k])
               PROVE  Held(s, b, r, k - 1, l)
    BY DEF QueueBehind
  <2>1. k - 1 \in 0..Len(q)
    BY <1>1
  <2>2. CASE k <= Len(q)
    BY <1>1, <1>2, <2>1, <2>2 DEF QueueBehind
  <2>3. CASE ~(k <= Len(q))
    <3>1. k - 1 = Len(q) /\ r[k] = e
      BY <1>1, <2>3
    <3> QED
      BY <1>2, <2>1, <3>1
  <2> QED
    BY <2>2, <2>3
<1>4. ASSUME NEW l, Held(s, b, q, Len(q), l) PROVE Held(s, b, r, Len(r), l)
  BY <1>1, <1>4 DEF Held, Queued
<1>5. ASSUME IsRecord(e) PROVE Held(s, b, r, Len(r), e.line)
  BY <1>1, <1>5 DEF Held, Queued
<1> QED
  BY <1>3, <1>4, <1>5 DEF r

\* An abort cuts the queue off behind its first events.
LEMMA CutOff ==
  ASSUME NEW q \in Seq(Event), NEW n \in 0..Len(q), NEW s, NEW b,
         QueueBehind(s, b, q)
  PROVE  QueueBehind(s, b, SubSeq(q, 1, n))
<1> DEFINE r == SubSeq(q, 1, n)
<1>1. Len(r) = n /\ \A k \in 1..n : r[k] = q[k]
  OBVIOUS
<1> HIDE DEF r
<1> SUFFICES ASSUME NEW k \in 1..Len(r), NEW l \in Needs(r[k])
             PROVE  Held(s, b, r, k - 1, l)
  BY DEF QueueBehind, r
<1>2. k \in 1..Len(q) /\ r[k] = q[k] /\ \A j \in 1..k - 1 : r[j] = q[j]
  BY <1>1
<1>3. Held(s, b, q, k - 1, l)
  BY <1>2 DEF QueueBehind
<1> QED
  BY <1>2, <1>3 DEF Held, Queued

\* A new FileState begins behind lines that are held.
LEMMA BeginTravels ==
  ASSUME FileTypes, AcqTypes, queue \in Seq(Event), NEW ino \in 1..Path,
         NEW seen \in Seq(Lines), BeginAt(ino, seen), NEW s, NEW b,
         QueueBehind(s, b, queue), SeenHeld(s, b, queue, seen)
  PROVE  QueueBehind(s, b, queue') /\ SeenHeld(s, b, queue', acq'.seen)
<1> DEFINE e == CheckpointEvent(acq')
<1>1. /\ acq'.seen = seen /\ e \in Checkpoints /\ e.seen = seen
      /\ queue' = Append(queue, e)
  BY BeginTyped
<1>2. e \in Event /\ ~IsRecord(e)
  BY <1>1 DEF Event, Checkpoints, IsRecord
<1> HIDE DEF e
<1>3. \A l \in Needs(e) : Held(s, b, queue, Len(queue), l)
  BY <1>1, <1>2 DEF Needs, SeenHeld
<1>4. QueueBehind(s, b, queue')
  BY <1>1, <1>2, <1>3, Sent
<1>5. SeenHeld(s, b, queue', seen)
  BY <1>1, <1>2, <1>3, Sent DEF SeenHeld
<1> QED
  BY <1>1, <1>4, <1>5

\* A FileState that has read nothing.
LEMMA NothingSeen == ASSUME NEW s, NEW b, NEW q PROVE SeenHeld(s, b, q, <<>>)
  BY DEF SeenHeld

\* What the acquisition task does to its queue and to what it has seen.
LEMMA TaskTravels ==
  ASSUME FileTypes, AcqTypes, queue \in Seq(Event), NEW s, NEW b, Follows,
         QueueBehind(s, b, queue),
         acq.phase \in Following => SeenHeld(s, b, queue, acq.seen),
         TaskStep \/ StopCapture \/ AbortCapture
  PROVE  /\ QueueBehind(s, b, queue')
         /\ acq'.phase \in Following => SeenHeld(s, b, queue', acq'.seen)
<1>1. CASE Read
  <2> DEFINE n    == Len(acq.seen) + 1
             line == <<acq.ino, files[acq.ino].epoch, n>>
             e    == RecordEvent(line)
  <2>1. /\ n \in Nat /\ acq'.seen = Append(acq.seen, line)
        /\ e \in RecordEvents /\ e.line = line /\ line \in Lines
        /\ queue' = Append(queue, e)
    BY <1>1, ReadLine
  <2>2. acq.phase \in Following /\ acq.seen \in Seq(Lines)
        /\ Len(acq.seen) \in Nat
    BY <1>1, TaskFacts DEF Read, Following
  <2>3. e \in Event /\ IsRecord(e)
    BY <2>1 DEF Event, RecordEvents, IsRecord
  <2>4. line[1] = acq.ino /\ line[2] = files[acq.ino].epoch /\ line[3] = n
    OBVIOUS
  <2> HIDE DEF e, line
  <2>5. \A l \in Needs(e) : Held(s, b, queue, Len(queue), l)
    <3> SUFFICES ASSUME NEW l \in Before(line)
                 PROVE  Held(s, b, queue, Len(queue), l)
      BY <2>1, <2>3 DEF Needs
    <3>1. PICK k \in 1..(IF line[2] = 0 THEN line[3] - 1 ELSE 0) :
             l = <<line[1], 0, k>>
      BY DEF Before
    <3>2. line[2] = 0 /\ k \in 1..Len(acq.seen)
      BY <2>1, <2>2, <2>4, <3>1
    <3>3. acq.seen[k] = l
      BY <2>2, <2>4, <3>1, <3>2 DEF Follows
    <3> QED
      BY <2>2, <3>2, <3>3 DEF SeenHeld
  <2>6. QueueBehind(s, b, queue')
    BY <2>1, <2>3, <2>5, Sent
  <2>7. \A i \in 1..Len(acq'.seen) :
           acq'.seen[i] = IF i <= Len(acq.seen) THEN acq.seen[i] ELSE line
    BY <2>1, <2>2, AppendIndex
  <2>8. ASSUME NEW i \in 1..Len(acq'.seen)
        PROVE  Held(s, b, queue', Len(queue'), acq'.seen[i])
    <3>1. CASE i <= Len(acq.seen)
      <4>1. i \in 1..Len(acq.seen) /\ acq'.seen[i] = acq.seen[i]
        BY <2>1, <2>2, <2>7, <3>1, AppendIndex
      <4>2. Held(s, b, queue, Len(queue), acq.seen[i])
        BY <2>2, <4>1 DEF SeenHeld
      <4> QED
        BY <2>1, <2>3, <2>5, <4>1, <4>2, Sent
    <3>2. CASE ~(i <= Len(acq.seen))
      BY <2>1, <2>3, <2>5, <2>7, <3>2, Sent
    <3> QED
      BY <3>1, <3>2
  <2> QED
    BY <2>6, <2>8 DEF SeenHeld
<1>2. CASE Acknowledge
  <2>1. /\ acq.phase \in Following /\ acq'.seen = acq.seen
        /\ queue' = Append(queue, CheckpointEvent(acq))
    <3>1. acq' = [acq EXCEPT !.ckpt = Len(acq.seen)] /\ acq \in Tasks
      BY <1>2, TaskFacts DEF Acknowledge
    <3> QED
      BY <1>2, <3>1 DEF Acknowledge, Send, Following, Tasks
  <2>2. /\ CheckpointEvent(acq) \in Event /\ ~IsRecord(CheckpointEvent(acq))
        /\ CheckpointEvent(acq).seen = acq.seen
    BY <2>1, CheckpointTyped DEF Event, Checkpoints, IsRecord, Following
  <2>3. \A l \in Needs(CheckpointEvent(acq)) : Held(s, b, queue, Len(queue), l)
    BY <2>1, <2>2 DEF Needs, SeenHeld
  <2> HIDE DEF CheckpointEvent
  <2>4. QueueBehind(s, b, queue')
    BY <2>1, <2>2, <2>3, Sent
  <2>5. SeenHeld(s, b, queue', acq'.seen)
    BY <2>1, <2>2, <2>3, Sent DEF SeenHeld
  <2> QED
    BY <2>4, <2>5
<1>3. CASE FollowChanged
  <2>1. acq.phase \in Following /\ acq'.seen = acq.seen /\ queue' = queue
    BY <1>3, TaskFacts DEF FollowChanged, Following, Tasks
  <2> QED
    BY <2>1
<1>4. CASE FollowAnew
  <2>1. PICK ino \in 1..Path : BeginAt(ino, <<>>)
    BY <1>4, TaskFacts, FileFacts DEF FollowAnew
  <2>2. <<>> \in Seq(Lines) /\ SeenHeld(s, b, queue, <<>>)
    BY NothingSeen
  <2> QED
    BY <2>1, <2>2, BeginTravels
<1>5. CASE StopCapture \/ AbortCapture
  <2>1. acq'.phase \notin Following
    <3>1. acq' = [acq EXCEPT !.phase = "stopped"] /\ acq \in Tasks
      BY <1>5, TaskFacts DEF StopCapture, AbortCapture
    <3> QED
      BY <3>1 DEF Tasks, Following
  <2>2. CASE AbortCapture
    <3>1. PICK n \in 0..Len(queue) : queue' = SubSeq(queue, 1, n)
      BY <2>2 DEF AbortCapture
    <3> QED
      BY <2>1, <3>1, CutOff
  <2> QED
    BY <1>5, <2>1, <2>2 DEF StopCapture
<1> QED
  BY <1>1, <1>2, <1>3, <1>4, <1>5 DEF TaskStep

\* append takes the first record of the batch.
LEMMA BatchAppended ==
  ASSUME NEW s \in Seq(Record), NEW x \in Record, batch \in Seq(Entry),
         batch # <<>>,
         x.body = Head(batch), BatchBehind(s, batch)
  PROVE  /\ BatchBehind(Append(s, x), Tail(batch))
         /\ \A l : Taken(s, batch, l) => Taken(Append(s, x), Tail(batch), l)
<1> DEFINE t == Append(s, x)
           d == Tail(batch)
<1>1. /\ Len(d) = Len(batch) - 1 /\ Len(batch) \in Nat /\ Len(batch) > 0
      /\ Head(batch) = batch[1]
         /\ \A k \in 1..Len(batch) - 1 : d[k] = batch[k + 1]
  BY BatchFacts
<1>2. /\ \A l : Bears(s, Len(s), l) => Bears(t, Len(t), l)
      /\ Bears(t, Len(t), batch[1].line)
  BY <1>1, BearsAppend
<1> HIDE DEF t, d
<1>3. ASSUME NEW n \in 1..Len(batch), NEW l, Batched(batch, n, l)
      PROVE  Bears(t, Len(t), l) \/ Batched(d, n - 1, l)
  <2>1. PICK j \in 1..n : batch[j].line = l
    BY <1>3 DEF Batched
  <2>2. CASE j = 1
    BY <1>2, <2>1, <2>2
  <2>3. CASE j # 1
    <3>1. PICK i \in 1..Len(batch) - 1 : j = i + 1
      BY <1>1, <2>3
    <3>2. i \in 1..n - 1 /\ d[i] = batch[j]
      BY <1>1, <3>1
    <3> QED
      BY <2>1, <3>2 DEF Batched
  <2> QED
    BY <2>2, <2>3
<1>4. ASSUME NEW k \in 1..Len(d), NEW l \in Before(d[k].line)
      PROVE  Bears(t, Len(t), l) \/ Batched(d, k - 1, l)
  <2>1. PICK i \in 1..Len(batch) : i = k + 1 /\ d[k] = batch[i]
    BY <1>1
  <2>2. i - 1 = k /\ k \in 1..Len(batch)
    BY <1>1, <2>1
  <2>3. Bears(s, Len(s), l) \/ Batched(batch, i - 1, l)
    BY <2>1 DEF BatchBehind
  <2> QED
    BY <1>2, <1>3, <2>2, <2>3
<1>5. ASSUME NEW l, Taken(s, batch, l) PROVE Taken(t, d, l)
  <2>1. Len(batch) \in 1..Len(batch) /\ Len(batch) - 1 = Len(d)
    BY <1>1
  <2> QED
    BY <1>2, <1>3, <1>5, <2>1 DEF Taken
<1> QED
  BY <1>4, <1>5 DEF BatchBehind, t, d

\* Every line stays behind the earlier ones of its file, and every checkpoint
\* behind its lines, on the whole road from the task to the frames.
LEMMA TravelsKept ==
  ASSUME WriterInv, WriterInv', Covered, Ordered(Frames), Travels, Follows,
         [Next]_vars
  PROVE  Travels'
<1>1. /\ JournalInv /\ Quiet /\ FileTypes /\ AcqTypes
      /\ queue \in Seq(Event) /\ queue' \in Seq(Event)
      /\ Len(queue) \in Nat /\ Len(queue') \in Nat
      /\ batch \in Seq(Entry) /\ cursor \in CursorSet
      /\ file \in Seq(Record) /\ buffer \in Seq(Record)
         /\ Frames \in Seq(Record)
      /\ Len(Frames) \in Nat /\ Len(file) \in Nat
      /\ Starts(file, Frames) /\ (buffer = <<>> => Frames = file)
  BY FrameFacts DEF WriterInv, Types, WriterTypes, FrameTypes
<1> DEFINE Carried(s, b, q) ==
              /\ BatchBehind(s, b)
              /\ QueueBehind(s, b, q)
              /\ acq'.phase \in Following => SeenHeld(s, b, q, acq'.seen)
<1>2. SUFFICES ASSUME wpc' # "failed" PROVE Carried(Frames', batch', queue')
  BY DEF Travels, Frames, BatchBehind, QueueBehind, SeenHeld, Held, Taken,
         Bears,
     Batched, Queued
<1>3. CASE KillProcess \/ LosePower \/ DropWriter
  <2>1. queue' = <<>> /\ batch' = <<>> /\ acq'.phase = "off"
    BY <1>3 DEF KillProcess, LosePower, DropWriter, ProcessGone, Idle
  <2>2. BatchBehind(Frames', <<>>) /\ QueueBehind(Frames', <<>>, <<>>)
    BY DEF BatchBehind, QueueBehind
  <2> QED
    BY <2>1, <2>2 DEF Following
<1>4. CASE ~KillProcess /\ ~LosePower /\ ~DropWriter
  <2>1. wpc # "failed"
    BY <1>2, <1>4 DEF Next, SourceStep, SourceGrows, SourceRotates,
                      SourceTruncated,
       TaskStep, Read, Acknowledge, FollowChanged, FollowAnew, WriterStep,
       RecoverCursor, RefuseStart, BeginCapture, TakeRecords, AppendOne,
       StorageBlocked, FlushBatch, TakeCheckpoint, TakeFinish, CommitJournal,
       StoreCursor, StoreLastCursor, CommitDeadline, UserStep, StartWriter,
       StopCapture, AbortCapture, FailureStep, WriterIoError, CursorIoError,
       vars,
       writerVars
  <2>2. /\ BatchBehind(Frames, batch) /\ QueueBehind(Frames, batch, queue)
        /\ acq.phase \in Following => SeenHeld(Frames, batch, queue, acq.seen)
    BY <2>1 DEF Travels
  <2>3. ~WriterIoError /\ ~CursorIoError /\ ~StorageBlocked
    BY <1>2 DEF WriterIoError, CursorIoError, StorageBlocked
  <2>4. CASE RefuseStart \/ StoreLastCursor
    <3>1. buffer = <<>> /\ Frames' = file
      BY <1>1, <2>4, Dropped DEF RefuseStart, StoreLastCursor, Quiet, Close
    <3>2. batch' = batch /\ queue' = queue /\ (acq' = acq \/ acq' = Idle)
      BY <2>4 DEF RefuseStart, StoreLastCursor, taskVars
    <3> QED
      BY <1>1, <2>2, <3>1, <3>2 DEF Idle, Following
  <2>5. CASE AppendOne
    <3>1. /\ batch # <<>> /\ batch' = Tail(batch) /\ queue' = queue
             /\ acq' = acq
          /\ Frames' = Append(Frames, New(Head(batch)))
             /\ New(Head(batch)) \in Record
      BY <1>1, <2>5, BatchFacts, Added DEF AppendOne, taskVars
    <3>2. /\ BatchBehind(Frames', batch')
          /\ \A l : Taken(Frames, batch, l) => Taken(Frames', batch', l)
      BY <1>1, <2>2, <3>1, BatchAppended DEF New
    <3>3. /\ QueueBehind(Frames', batch', queue)
          /\ \A seen : SeenHeld(Frames, batch, queue, seen)
                          => SeenHeld(Frames', batch', queue, seen)
      <4>1. \A l : Taken(Frames, batch, l) => Taken(Frames', batch', l)
        BY <3>2
      <4>2. QueueBehind(Frames, batch, queue)
        BY <2>2
      <4> QED
        BY <4>1, <4>2, TakenMore
    <3> QED
      BY <2>2, <3>1, <3>2, <3>3
  <2>6. CASE ~AppendOne /\ ~RefuseStart /\ ~StoreLastCursor
    <3>1. Frames' = Frames
      BY <1>1, <1>4, <2>3, <2>6, FramesKept DEF Drops
    <3>2. CASE TaskStep \/ StopCapture \/ AbortCapture
      <4>1. batch' = batch
        BY <3>2, AroundFacts DEF Around, writerVars
      <4> QED
        BY <1>1, <2>2, <3>1, <3>2, <4>1, TaskTravels
    <3>3. CASE BeginCapture
      <4>1. batch' = batch /\ Path \in 1..Path /\ cursor.seen \in Seq(Lines)
            /\ <<>> \in Seq(Lines)
        BY <1>1, <3>3, FileFacts, CursorFacts DEF BeginCapture
      <4>2. SeenHeld(Frames, batch, queue, cursor.seen)
        <5> SUFFICES ASSUME NEW i \in 1..Len(cursor.seen)
                     PROVE  Bears(Frames, Len(Frames), cursor.seen[i])
          BY DEF SeenHeld, Held, Taken
        <5>1. Bears(file, cursor.joff, cursor.seen[i])
              /\ cursor.joff <= Len(file)
              /\ cursor.joff \in Nat
          BY <1>1, CursorFacts DEF Covered, Covers
        <5> QED
          <6>1. /\ Len(file) \in Nat /\ Len(Frames) \in Nat
                /\ Starts(file, Frames)
            BY <1>1
          <6> HIDE DEF Frames
          <6> QED
            BY <5>1, <6>1 DEF Bears, Starts
      <4>3. PICK seen \in Seq(Lines) : /\ BeginAt(Path, seen)
                                       /\ SeenHeld(Frames, batch, queue, seen)
        BY <3>3, <4>1, <4>2, NothingSeen DEF BeginCapture
      <4> QED
        BY <1>1, <2>2, <3>1, <4>1, <4>3, BeginTravels
    <3>4. CASE TakeRecords
      <4>1. PICK n \in 1..Len(queue) :
               /\ \A i \in 1..n : IsRecord(queue[i])
               /\ batch' = [i \in 1..n |-> Recorded(queue[i])]
               /\ queue' = SubSeq(queue, n + 1, Len(queue))
        BY <3>4 DEF TakeRecords, Recorded
      <4>2. /\ Len(batch') = n /\ \A i \in 1..n : batch'[i].line = queue[i].line
            /\ Len(queue') = Len(queue) - n
            /\ \A k \in 1..Len(queue') : queue'[k] = queue[n + k]
        BY <1>1, <4>1, RecordsTaken
      <4>3. batch = <<>> /\ acq' = acq
        BY <1>1, <3>4 DEF TakeRecords, Quiet
      <4>4. \A l : ~Batched(<<>>, Len(<<>>), l)
        BY DEF Batched
      <4>5. ASSUME NEW k \in 1..n, NEW l \in Before(batch'[k].line)
            PROVE  Bears(Frames, Len(Frames), l) \/ Batched(batch', k - 1, l)
        <5>1. l \in Needs(queue[k]) /\ k \in 1..Len(queue)
          BY <1>1, <4>1, <4>2 DEF Needs
        <5>2. Bears(Frames, Len(Frames), l) \/ Queued(queue, k - 1, l)
          BY <2>2, <4>3, <4>4, <5>1 DEF QueueBehind, Held, Taken
        <5> QED
          <6>1. ASSUME Queued(queue, k - 1, l) PROVE Batched(batch', k - 1, l)
            <7>1. PICK j \in 1..k - 1 : queue[j].line = l
              BY <6>1 DEF Queued
            <7>2. j \in 1..n
              OBVIOUS
            <7> QED
              BY <4>2, <7>1, <7>2 DEF Batched
          <6> QED
            BY <5>2, <6>1
      <4>6. /\ \A l : Taken(Frames, batch, l) => Taken(Frames, batch', l)
            /\ \A j \in 1..n : IsRecord(queue[j])
                  => Taken(Frames, batch', queue[j].line)
            /\ n \in Nat /\ n <= Len(queue)
        BY <1>1, <4>2, <4>3, <4>4 DEF Taken, Batched
      <4>7. /\ QueueBehind(Frames, batch', queue')
            /\ \A seen : SeenHeld(Frames, batch, queue, seen)
                            => SeenHeld(Frames, batch', queue', seen)
        <5>1. Len(queue) \in Nat /\ QueueBehind(Frames, batch, queue)
          BY <1>1, <2>2
        <5>2. /\ Len(queue') = Len(queue) - n
              /\ \A k \in 1..Len(queue') : queue'[k] = queue[n + k]
          BY <4>2
        <5> QED
          BY <4>6, <5>1, <5>2, Shifted
      <4> QED
        BY <2>2, <3>1, <4>2, <4>3, <4>5, <4>7 DEF BatchBehind
    <3>5. CASE TakeCheckpoint
      <4>1. /\ queue # <<>> /\ ~IsRecord(queue[1]) /\ queue' = Tail(queue)
            /\ batch' = batch /\ acq' = acq
        BY <1>1, <3>5, CheckpointTaken DEF TakeCheckpoint, WriterInv, Types
      <4>2. /\ 1 \in Nat /\ 1 <= Len(queue) /\ Len(queue') = Len(queue) - 1
            /\ \A k \in 1..Len(queue') : queue'[k] = queue[1 + k]
        BY <1>1, <4>1
      <4>3. \A j \in 1..1 : IsRecord(queue[j])
                  => Taken(Frames, batch, queue[j].line)
        BY <4>1
      <4>4. /\ QueueBehind(Frames, batch, queue')
            /\ \A seen : SeenHeld(Frames, batch, queue, seen)
                            => SeenHeld(Frames, batch, queue', seen)
        <5>1. Len(queue) \in Nat /\ QueueBehind(Frames, batch, queue)
          BY <1>1, <2>2
        <5> QED
          BY <4>2, <4>3, <5>1, Shifted
      <4> QED
        BY <2>2, <3>1, <4>1, <4>4
    <3>6. CASE SourceStep \/ RecoverCursor \/ TakeFinish \/ CommitDeadline
               \/ FlushBatch
               \/ CommitJournal \/ StoreCursor \/ StartWriter \/ UNCHANGED vars
      <4>1. acq' = acq /\ queue' = queue
        BY <3>6 DEF SourceStep, SourceGrows, SourceRotates, SourceTruncated,
           RecoverCursor, TakeFinish, CommitDeadline, FlushBatch, CommitJournal,
           StoreCursor, StartWriter, vars, taskVars
      <4>2. batch' = batch
        BY <1>1, <3>6 DEF SourceStep, SourceGrows, SourceRotates,
                          SourceTruncated,
           RecoverCursor, TakeFinish, CommitDeadline, FlushBatch, CommitJournal,
           StoreCursor, StartWriter, vars, writerVars, Quiet
      <4> QED
        BY <2>2, <3>1, <4>1, <4>2
    <3> QED
      BY <1>4, <2>3, <2>6, <3>2, <3>3, <3>4, <3>5, <3>6 DEF Next, WriterStep,
                                                            UserStep,
         FailureStep
  <2> QED
    BY <2>4, <2>5, <2>6
<1> QED
  BY <1>3, <1>4

\* What a step leaves of the FileState: the same, a new one, none, or the same
\* with the next line.
LEMMA TaskBecomes ==
  ASSUME FileTypes, AcqTypes, queue \in Seq(Event), cursor \in CursorSet,
         [Next]_vars
  PROVE  \/ UNCHANGED acq /\ (UNCHANGED files \/ SourceStep)
         \/ /\ acq'.phase \notin Following
            /\ acq'.seen = acq.seen /\ acq'.ckpt = acq.ckpt
         \/ acq' = Idle
         \/ Read
         \/ /\ UNCHANGED files /\ acq'.seen = acq.seen /\ acq'.ino = acq.ino
            /\ acq.phase \in Following
               /\ acq'.ckpt \in {acq.ckpt, Len(acq.seen)}
         \/ /\ UNCHANGED files
            /\ \E ino \in 1..Path, seen \in Seq(Lines) :
                  /\ acq' = [phase |-> "running", id |-> opens + 1, ino |-> ino,
                             seen |-> seen, ckpt |-> Len(seen)]
                  /\ seen # <<>> => ino = Path /\ SourceMatches(cursor)
                                    /\ seen = cursor.seen
<1>1. acq \in Tasks /\ <<>> \in Seq(Lines) /\ cursor.seen \in Seq(Lines)
      /\ Path \in 1..Path
  BY TaskFacts, FileFacts, CursorFacts
<1>2. CASE SourceStep
  BY <1>2 DEF SourceStep, SourceGrows, SourceRotates, SourceTruncated
<1>3. CASE Read
  BY <1>3
<1>4. CASE Acknowledge \/ FollowChanged
  BY <1>1, <1>4 DEF Acknowledge, FollowChanged, Tasks, Following
<1>5. CASE FollowAnew
  <2>1. PICK ino \in 1..Path : BeginAt(ino, <<>>) /\ UNCHANGED files
    BY <1>5, TaskFacts, FileFacts DEF FollowAnew
  <2> QED
    BY <1>1, <2>1 DEF BeginAt
<1>6. CASE StopCapture \/ AbortCapture
  BY <1>1, <1>6 DEF StopCapture, AbortCapture, Tasks, Following
<1>7. CASE BeginCapture
  <2>1. CASE cursor # NoCursor /\ SourceMatches(cursor)
    BY <1>1, <1>7, <2>1 DEF BeginCapture, BeginAt
  <2>2. CASE ~(cursor # NoCursor /\ SourceMatches(cursor))
    BY <1>1, <1>7, <2>2 DEF BeginCapture, BeginAt
  <2> QED
    BY <2>1, <2>2
<1>8. CASE StoreLastCursor \/ DropWriter \/ KillProcess \/ LosePower
  BY <1>8 DEF StoreLastCursor, DropWriter, KillProcess, LosePower, ProcessGone
<1>9. CASE UNCHANGED <<acq, files>>
  BY <1>9
<1> QED
  BY <1>2, <1>3, <1>4, <1>5, <1>6, <1>7, <1>8, <1>9 DEF Next, TaskStep,
                                                        WriterStep,
     RecoverCursor, RefuseStart, TakeRecords, AppendOne, StorageBlocked,
     FlushBatch,
     TakeCheckpoint, TakeFinish, CommitJournal, StoreCursor, CommitDeadline,
     UserStep,
     StartWriter, FailureStep, WriterIoError, CursorIoError, vars, taskVars

\* The task never acknowledges more than it has read.
LEMMA AcknowledgedKept ==
  ASSUME FileTypes, AcqTypes, queue \in Seq(Event), cursor \in CursorSet,
         Acknowledged, [Next]_vars
  PROVE  Acknowledged'
<1>1. Len(acq.seen) \in Nat /\ acq.seen \in Seq(Lines)
  BY TaskFacts
<1>2. CASE Read
  <2>1. acq'.ckpt = acq.ckpt /\ Len(acq'.seen) = Len(acq.seen) + 1
    <3> DEFINE line == <<acq.ino, files[acq.ino].epoch, Len(acq.seen) + 1>>
    <3>1. acq'.seen = Append(acq.seen, line) /\ line \in Lines
      BY <1>2, ReadLine
    <3>2. acq'.ckpt = acq.ckpt
      BY <1>2, TaskFacts DEF Read, Tasks
    <3> QED
      BY <1>1, <3>1, <3>2, AppendIndex
  <2> QED
    BY <1>1, <2>1 DEF Acknowledged
<1>3. CASE ~Read
  <2>1. CASE acq'.seen = acq.seen /\ acq'.ckpt \in {acq.ckpt, Len(acq.seen)}
    BY <1>1, <2>1 DEF Acknowledged
  <2>2. CASE acq' = Idle
    BY <2>2 DEF Idle, Acknowledged
  <2>3. ASSUME NEW seen \in Seq(Lines), acq'.seen = seen, acq'.ckpt = Len(seen)
        PROVE  Acknowledged'
    <3>1. Len(seen) \in 0..Len(seen)
      OBVIOUS
    <3> QED
      BY <2>3, <3>1 DEF Acknowledged
  <2> QED
    BY <1>3, <2>1, <2>2, <2>3, TaskBecomes
<1> QED
  BY <1>2, <1>3

\* What was read of a file that was never cut short stays how it begins.
LEMMA FollowsKept ==
  ASSUME FileTypes, AcqTypes, queue \in Seq(Event), cursor \in CursorSet,
         Follows, [Next]_vars
  PROVE  Follows'
<1>1. Len(acq.seen) \in Nat /\ acq.seen \in Seq(Lines)
      /\ (acq.phase # "off" => acq.ino \in 1..Path)
  BY TaskFacts
<1> SUFFICES ASSUME acq'.phase \in Following, files'[acq'.ino].epoch = 0,
                    NEW i \in 1..Len(acq'.seen)
             PROVE  acq'.seen[i] = <<acq'.ino, 0, i>>
  BY DEF Follows
<1>2. CASE UNCHANGED acq /\ SourceStep
  <2>1. acq.ino \in 1..Path
    BY <1>1, <1>2 DEF Following
  <2>2. files'[acq.ino].epoch >= files[acq.ino].epoch
        /\ files[acq.ino].epoch \in Nat
    BY <1>2, <2>1, FilesTyped, FileFacts
  <2>3. files[acq.ino].epoch = 0
    BY <1>2, <2>2
  <2> QED
    BY <1>2, <2>3 DEF Follows
<1>3. CASE Read
  <2> DEFINE line == <<acq.ino, files[acq.ino].epoch, Len(acq.seen) + 1>>
  <2>1. acq'.seen = Append(acq.seen, line) /\ line \in Lines
    BY <1>3, ReadLine
  <2>2. files' = files /\ acq.phase \in Following /\ acq'.ino = acq.ino
    BY <1>3, TaskFacts DEF Read, Following, Tasks
  <2>3. /\ i \in 1..Len(acq.seen) + 1
        /\ acq'.seen[i] = IF i <= Len(acq.seen) THEN acq.seen[i] ELSE line
    <3> HIDE DEF line
    <3>1. Len(acq'.seen) = Len(acq.seen) + 1
      BY <1>1, <2>1, AppendIndex
    <3>2. i \in 1..Len(acq.seen) + 1
      BY <1>1, <3>1
    <3> QED
      BY <1>1, <2>1, <3>2, AppendIndex
  <2>4. CASE i <= Len(acq.seen)
    <3>1. i \in 1..Len(acq.seen)
      BY <1>1, <2>3, <2>4
    <3> QED
      BY <2>2, <2>3, <2>4, <3>1 DEF Follows
  <2>5. CASE ~(i <= Len(acq.seen))
    <3>1. i = Len(acq.seen) + 1
      BY <1>1, <2>3, <2>5
    <3> QED
      BY <2>2, <2>3, <2>5, <3>1
  <2> QED
    BY <2>4, <2>5
<1>4. CASE UNCHANGED files /\ acq'.seen = acq.seen /\ acq'.ino = acq.ino
           /\ acq.phase \in Following
  BY <1>4 DEF Follows
<1>5. ASSUME UNCHANGED files, NEW ino \in 1..Path, NEW seen \in Seq(Lines),
             acq'.ino = ino, acq'.seen = seen,
             seen # <<>> => ino = Path /\ SourceMatches(cursor)
             /\ seen = cursor.seen
      PROVE  acq'.seen[i] = <<acq'.ino, 0, i>>
  <2>1. seen # <<>> /\ Len(seen) \in Nat
    BY <1>5
  <2>2. IsPrefix(seen, Content(Path)) /\ ino = Path
    BY <1>5, <2>1 DEF SourceMatches
  <2>3. Content(Path) \in Seq(Lines)
    BY <1>5, <2>2, ContentTyped
  <2>4. i \in 1..Len(Content(Path)) /\ seen[i] = Content(Path)[i]
    BY <1>5, <2>1, <2>2, <2>3 DEF IsPrefix
  <2>5. Content(Path)[i] = <<Path, files[Path].epoch, i>>
    BY <1>5, <2>2, <2>4, ContentTyped
  <2> QED
    BY <1>5, <2>2, <2>4, <2>5
<1>6. CASE UNCHANGED <<acq, files>>
  BY <1>6 DEF Follows
<1>7. acq' # Idle
  BY DEF Idle, Following
<1> QED
  BY <1>2, <1>3, <1>4, <1>5, <1>6, <1>7, TaskBecomes

-----------------------------------------------------------------------------
(* The theorems                                                            *)

\* The part of the invariant that needs no hypothesis: Init.
LEMMA WriterInvInit == ASSUME Init PROVE WriterInv
<1>1. JournalInv /\ Types
  BY TypesInit
<1>2. buffer = <<>> /\ status = "closed"
  BY DEF Init, JournalInit
<1> QED
  BY <1>1, <1>2 DEF Init, WriterInv, Quiet, Readable, Acknowledged, Idle

\* The same part: every step.
LEMMA WriterInvKept == ASSUME WriterInv, [Next]_vars PROVE WriterInv'
<1>1. /\ JournalInv /\ Types /\ Quiet /\ Readable /\ Acknowledged
      /\ FileTypes /\ AcqTypes
      /\ queue \in Seq(Event) /\ cursor \in CursorSet /\ batch \in Seq(Entry)
  BY DEF WriterInv, Types, WriterTypes
<1>2. JournalInv' /\ Types'
  BY <1>1, TypesKept
<1>3. Quiet' /\ Readable' /\ Acknowledged'
  BY <1>1, <1>2, QuietKept, ReadableKept, AcknowledgedKept
<1> QED
  BY <1>2, <1>3 DEF WriterInv

\* The whole invariant: Init.
LEMMA CaptureInvInit == ASSUME Init PROVE CaptureInv
<1>1. WriterInv
  BY WriterInvInit
<1>2. /\ file = <<>> /\ buffer = <<>> /\ durable = 0 /\ batch = <<>>
         /\ queue = <<>>
      /\ cursor = NoCursor /\ pending = NoCursor /\ wpc = "down"
         /\ acq.phase = "off"
  BY DEF Init, JournalInit, Idle
<1>3. Covered
  <2>1. <<>> \in Seq(Record)
    OBVIOUS
  <2> QED
    BY <1>2, <2>1, NothingCovered DEF Covered
<1>4. Synced
  BY <1>2, NoCursorTyped DEF Synced
<1>5. Frames = <<>>
  BY <1>2 DEF Frames
<1>6. Ordered(Frames)
  BY <1>5 DEF Ordered
<1>7. Travels
  BY <1>2 DEF Travels, BatchBehind, QueueBehind, Following
<1>8. Follows
  BY <1>2 DEF Follows, Following
<1> QED
  BY <1>1, <1>3, <1>4, <1>6, <1>7, <1>8 DEF CaptureInv

\* The whole invariant: every step.
LEMMA CaptureInvKept ==
  ASSUME LossAlone, CaptureInv, [Next]_vars
  PROVE  CaptureInv'
<1>1. /\ WriterInv /\ Covered /\ Synced /\ Ordered(Frames) /\ Travels /\ Follows
      /\ FileTypes /\ AcqTypes /\ queue \in Seq(Event) /\ cursor \in CursorSet
  BY DEF CaptureInv, WriterInv, Types, WriterTypes
<1>2. WriterInv'
  BY <1>1, WriterInvKept
<1>3. Covered' /\ Synced'
  BY <1>1, <1>2, CoveredKept, SyncedKept
<1>4. Ordered(Frames)' /\ Travels'
  BY <1>1, <1>2, OrderedKept, TravelsKept
<1>5. Follows'
  BY <1>1, FollowsKept
<1> QED
  BY <1>2, <1>3, <1>4, <1>5 DEF CaptureInv

(* Under any troubles together: types, an empty buffer and batch between   *)
(* group commits, and a published watermark that is a frame of the file.   *)
THEOREM WriterInvariant == Spec => []WriterInv
<1> QED
  BY WriterInvInit, WriterInvKept, PTL DEF Spec

(* Type correctness of the capture, and a journal that is open exactly     *)
(* while the writer thread works (FileCapture, TypeOK).                    *)
THEOREM CaptureTypes == Spec => []TypeOK
<1>1. ASSUME WriterInv PROVE TypeOK
  <2>1. /\ JournalTypeOK /\ FileTypes /\ AcqTypes /\ WriterTypes /\ Quiet
           /\ Acknowledged
    BY <1>1 DEF WriterInv, JournalInv, Types
  <2>2. acq.phase \in {"off", "running", "rotating", "truncating", "stopped"}
        /\ acq.id \in 0..MaxOpens
    BY <2>1 DEF AcqTypes, Tasks, Following
  <2> QED
    BY <2>1, <2>2, TaskFacts DEF TypeOK, FileTypes, Sizes, AcqTypes,
                                 WriterTypes, Event,
       EventSet, RecordEvents, Checkpoints, Entry, Places, Quiet, Acknowledged
<1> QED
  BY <1>1, WriterInvariant, PTL

(* Every step of the capture, its failures and its recovery is one         *)
(* operation or failure of the journal, or leaves the journal alone: the   *)
(* writer never does to journal.rs what the journal's own proofs exclude.  *)
THEOREM CaptureIsJournal == Spec => JournalSpec
<1>1. ASSUME WriterInv, [Next]_vars PROVE [JournalNext]_journalVars
  BY <1>1, JournalSteps DEF WriterInv, Types, WriterTypes
<1>2. ASSUME Init PROVE JournalInit
  BY <1>2 DEF Init
<1> QED
  BY <1>1, <1>2, WriterInvariant, PTL DEF Spec, JournalSpec

(* So what is proved of the journal alone holds under the capture:         *)
(* identities are never reused, what was fsynced stays, and the journal    *)
(* refines the abstract record log.                                        *)
THEOREM CaptureKeepsJournal ==
  Spec => []IdentityNeverReused /\ DurablePrefixKept /\ ImplementsRecordLog
<1> QED
  BY CaptureIsJournal, JournalIdentity, JournalDurability, JournalRefinement

(* The watermark that windows see is a record the journal still has        *)
(* (writer.rs, publication after flush), whatever fails, except past the   *)
(* storage limit.                                                          *)
THEOREM PublishedIsReadable == Spec => []PublishedReadable
<1>1. ASSUME WriterInv PROVE PublishedReadable
  <2>1. /\ Readable /\ Starts(file, Frames) /\ Len(file) \in Nat
           /\ Len(Frames) \in Nat
    BY <1>1, FrameFacts DEF WriterInv, Types, FrameTypes
  <2>2. ASSUME published # NoSeq, "limit" \notin faults
        PROVE  \E i \in 1..Len(Frames) : Frames[i].seq = published
    BY <2>1, <2>2 DEF Readable, Starts
  <2> QED
    BY <2>2 DEF PublishedReadable, Frames
<1> QED
  BY <1>1, WriterInvariant, PTL

\* The inductive invariant holds of every behaviour.
LEMMA CaptureInvariant == ASSUME LossAlone PROVE Spec => []CaptureInv
<1>1. Init => CaptureInv
  BY CaptureInvInit
<1>2. CaptureInv /\ [Next]_vars => CaptureInv'
  BY CaptureInvKept
<1> QED
  BY <1>1, <1>2, PTL DEF Spec

(* No loss: every line the durable cursor accounts for is in the journal   *)
(* before the offset it names (writer.rs, struct Commit), through kills,   *)
(* failed writes and the storage limit in any combination, or through      *)
(* losses of power.  Both together are excluded by LossAlone.              *)
THEOREM CursorIsCovered == ASSUME LossAlone PROVE Spec => []CursorCovered
<1>1. CaptureInv => CursorCovered
  <2> SUFFICES ASSUME CaptureInv PROVE CursorCovered
    OBVIOUS
  <2>1. /\ Covers(file, cursor)
    BY DEF CaptureInv, Covered
  <2> QED
    BY <2>1 DEF Covers, Bears, CursorCovered
<1> QED
  BY <1>1, CaptureInvariant, PTL

(* No gap: a line is in the journal only behind every earlier line of its  *)
(* file, through rotations, stops, aborts, failures and restarts, under    *)
(* the same hypothesis.                                                    *)
THEOREM NoLineSkipped == ASSUME LossAlone PROVE Spec => []NoGap
<1>1. CaptureInv => NoGap
  <2> SUFFICES ASSUME CaptureInv PROVE NoGap
    OBVIOUS
  <2>1. /\ file \in Seq(Record) /\ Frames \in Seq(Record)
           /\ Starts(file, Frames)
        /\ Ordered(Frames)
    BY FrameFacts DEF CaptureInv, WriterInv, Types, FrameTypes
  <2>2. Ordered(file)
    BY <2>1, OrderedPrefix
  <2> SUFFICES ASSUME NEW i \in 1..Len(file), file[i].body.line[2] = 0,
                      NEW k \in 1..(file[i].body.line[3] - 1)
               PROVE  \E j \in 1..(i - 1) :
                         file[j].body.line = <<file[i].body.line[1], 0, k>>
    BY DEF NoGap
  <2>3. <<file[i].body.line[1], 0, k>> \in Before(file[i].body.line)
    BY DEF Before
  <2> QED
    BY <2>2, <2>3 DEF Ordered, Bears
<1> QED
  BY <1>1, CaptureInvariant, PTL

-----------------------------------------------------------------------------
(* Without failures: the road from the journal to the acquisition          *)

\* No behaviour meets a failure or the storage limit.
NoTrouble == \A plan \in FaultPlans : plan = {}

\* What the durable cursor will be after the next commit.
Mark == IF pending # NoCursor THEN pending ELSE cursor

\* The road: frames, batch and queue as one sequence of events, from the first
\* frame to the last event sent.
AsEvent(b) == [kind |-> "record", acq |-> b.acq, line |-> b.line]
FrameEvents(s) == [i \in 1..Len(s) |-> AsEvent(s[i].body)]
BatchEvents(b) == [i \in 1..Len(b) |-> AsEvent(b[i])]
RoadOf(s, b, q) == (FrameEvents(s) \o BatchEvents(b)) \o q
Road == RoadOf(Frames, batch, queue)

\* u is r without its event c.
Without(u, r, c) ==
    /\ c \in 1..Len(r) /\ Len(u) = Len(r) - 1
    /\ \A i \in 1..Len(r) - 1 : u[i] = IF i < c THEN r[i] ELSE r[i + 1]

\* In the file sizes f: a line that was written; what a reader got of a file
\* that was never cut short; a line that a reader of n lines of `ino` is past.
Real(f, l) ==
    /\ l[1] \in 1..Len(f) /\ l[2] <= f[l[1]].epoch
    /\ l[2] = f[l[1]].epoch => l[3] <= f[l[1]].len
Faithful(f, ino, seen) ==
    /\ ino \in 0..Len(f)
    /\ ino > 0 /\ f[ino].epoch = 0 =>
          /\ Len(seen) <= f[ino].len
          /\ \A k \in 1..Len(seen) : seen[k] = <<ino, 0, k>>
Past(f, l, ino, n) ==
    l[2] = 0 => \/ l[1] < ino
                \/ l[1] = ino /\ (f[ino].epoch = 0 => l[3] <= n)

\* A reader of n lines of `ino` is past the records among the first k events.
PastRoad(f, r, k, ino, n) ==
    \A j \in 1..k : IsRecord(r[j]) => Past(f, r[j].line, ino, n)

\* Where a reader stands behind the first n events of r, when it stood at the
\* cursor m at its offset: behind the last checkpoint, and one line on with
\* each record.
Place(a, i, n) == [acq |-> a, ino |-> i, len |-> n]
RecordsOnly(r, i, n) == \A j \in i + 1..n : IsRecord(r[j])
Stands(r, m, n, p) ==
    /\ \A c \in m.joff + 1..n : ~IsRecord(r[c]) /\ RecordsOnly(r, c, n) =>
          p = Place(r[c].acq, r[c].ino, Len(r[c].seen) + (n - c))
    /\ RecordsOnly(r, m.joff, n) =>
          p = Place(m.acq, m.ino, Len(m.seen) + (n - m.joff))
Start(e) == Place(e.acq, e.line[1], e.line[3] - 1)

\* The parts of RoadOK, and what holds of the reader at the end of the road.
Genuine(f, r) == \A i \in 1..Len(r) : IsRecord(r[i]) => Real(f, r[i].line)
Trusted(f, r) == \A i \in 1..Len(r) : ~IsRecord(r[i]) =>
                    /\ Faithful(f, r[i].ino, r[i].seen)
                    /\ PastRoad(f, r, i - 1, r[i].ino, Len(r[i].seen))
MarkTrusted(f, r, m) == /\ Faithful(f, m.ino, m.seen)
                        /\ PastRoad(f, r, m.joff, m.ino, Len(m.seen))
Tracks(r, m) == \A k \in m.joff + 1..Len(r) : IsRecord(r[k]) =>
                   Stands(r, m, k - 1, Start(r[k]))
Apart(r) == \A i, j \in 1..Len(r) :
               i < j /\ IsRecord(r[i]) /\ IsRecord(r[j]) /\ r[j].line[2] = 0
                  => r[i].line # r[j].line
RoadOK(f, r, m) == /\ m.joff <= Len(r)
                   /\ Genuine(f, r) /\ Trusted(f, r) /\ MarkTrusted(f, r, m)
                   /\ Tracks(r, m) /\ Apart(r)

ReaderOK(f, r, m, a) ==
    /\ Faithful(f, a.ino, a.seen)
    /\ PastRoad(f, r, Len(r), a.ino, Len(a.seen))
    /\ Stands(r, m, Len(r), Place(a.id, a.ino, Len(a.seen)))

\* Places that exclude a running acquisition, and phases that tell what
\* happened to the file.
Placed ==
    /\ faults = {} /\ wpc # "failed"
    /\ wpc \in {"down", "recover", "opening"} =>
          acq.phase = "off" /\ queue = <<>> /\ pending = NoCursor
    /\ wpc \in {"finish", "finstore"} => acq.phase = "stopped" /\ queue = <<>>
    /\ acq.phase = "rotating" => acq.ino < Path
    /\ acq.phase = "truncating" => files[acq.ino].epoch > 0

\* A start that resumes has accounted for the whole file.
Resumes == wpc = "opening" /\ cursor.ino = Path /\ files[Path].epoch = 0 =>
               cursor.joff = Len(file)

-----------------------------------------------------------------------------
(* The road as a sequence                                                  *)

\* Sequences with the same elements.
LEMMA Alike ==
  ASSUME NEW S, NEW r \in Seq(S), NEW t \in Seq(S), Len(r) = Len(t),
         \A i \in 1..Len(r) : r[i] = t[i]
  PROVE  r = t
  OBVIOUS

\* What is on its way as a record is a record event.
LEMMA Entered ==
  ASSUME NEW b \in Entry
  PROVE  /\ AsEvent(b) \in Event /\ IsRecord(AsEvent(b))
         /\ AsEvent(b).acq = b.acq /\ AsEvent(b).line = b.line
  BY DEF Entry, AsEvent, IsRecord, Event, RecordEvents

\* Where three concatenated sequences have their elements.
LEMMA Concat3 ==
  ASSUME NEW S, NEW x \in Seq(S), NEW y \in Seq(S), NEW z \in Seq(S)
  PROVE  /\ (x \o y) \o z \in Seq(S)
         /\ Len((x \o y) \o z) = Len(x) + Len(y) + Len(z)
         /\ \A i \in 1..Len(x) : ((x \o y) \o z)[i] = x[i]
         /\ \A i \in 1..Len(y) : ((x \o y) \o z)[Len(x) + i] = y[i]
         /\ \A i \in 1..Len(z) : ((x \o y) \o z)[Len(x) + Len(y) + i] = z[i]
  OBVIOUS

\* Concatenation is associative.
LEMMA Assoc ==
  ASSUME NEW S, NEW x \in Seq(S), NEW y \in Seq(S), NEW z \in Seq(S)
  PROVE  (x \o y) \o z = x \o (y \o z)
  OBVIOUS

\* Concatenation and Append.
LEMMA ConcatAppend ==
  ASSUME NEW S, NEW x \in Seq(S), NEW z \in Seq(S), NEW e \in S
  PROVE  /\ x \o Append(z, e) = Append(x \o z, e)
         /\ Append(x, e) \o z = x \o (<<e>> \o z)
  OBVIOUS

\* Nothing concatenated.
LEMMA Nil ==
  ASSUME NEW S, NEW x \in Seq(S)
  PROVE  x \o <<>> = x
  OBVIOUS

\* A sequence made of two parts.
LEMMA Joined ==
  ASSUME NEW S, NEW y \in Seq(S), NEW p \in Seq(S), NEW q \in Seq(S),
         Len(q) = Len(y) + Len(p), \A i \in 1..Len(y) : q[i] = y[i],
         \A k \in 1..Len(p) : q[Len(y) + k] = p[k]
  PROVE  y \o p = q
<1>1. /\ y \o p \in Seq(S) /\ Len(y \o p) = Len(y) + Len(p)
      /\ \A i \in 1..Len(y) + Len(p) :
            (y \o p)[i] = IF i <= Len(y) THEN y[i] ELSE p[i - Len(y)]
  OBVIOUS
<1>2. Len(y) \in Nat /\ Len(p) \in Nat
  OBVIOUS
<1>3. ASSUME NEW i \in 1..Len(y) + Len(p) PROVE (y \o p)[i] = q[i]
  <2>1. CASE i <= Len(y)
    BY <1>1, <1>2, <2>1
  <2>2. CASE ~(i <= Len(y))
    <3>1. i - Len(y) \in 1..Len(p) /\ Len(y) + (i - Len(y)) = i
      BY <1>2, <2>2
    <3>2. q[Len(y) + (i - Len(y))] = p[i - Len(y)]
      BY <3>1
    <3> QED
      BY <1>1, <2>2, <3>1, <3>2
  <2> QED
    BY <2>1, <2>2
<1> QED
  BY <1>1, <1>3

\* A sequence made of its first element and the rest.
LEMMA HeadTail ==
  ASSUME NEW S, NEW e \in S, NEW u \in Seq(S), NEW v \in Seq(S),
         Len(v) = Len(u) + 1, v[1] = e, \A i \in 1..Len(u) : v[i + 1] = u[i]
  PROVE  v = <<e>> \o u
<1>1. <<e>> \in Seq(S) /\ Len(<<e>>) = 1 /\ <<e>>[1] = e
  OBVIOUS
<1>2. Len(u) \in Nat /\ \A i \in 1..1 : i = 1
  OBVIOUS
<1>3. Len(v) = Len(<<e>>) + Len(u) /\ \A i \in 1..Len(<<e>>) : v[i] = <<e>>[i]
  BY <1>1, <1>2
<1>4. \A k \in 1..Len(u) : v[Len(<<e>>) + k] = u[k]
  BY <1>1, <1>2
<1> QED
  BY <1>1, <1>3, <1>4, Joined

\* A sequence made of all but the last element, and the last.
LEMMA Appended ==
  ASSUME NEW S, NEW e \in S, NEW u \in Seq(S), NEW v \in Seq(S),
         Len(v) = Len(u) + 1, v[Len(u) + 1] = e,
         \A i \in 1..Len(u) : v[i] = u[i]
  PROVE  v = Append(u, e)
  OBVIOUS

\* A sequence whose second part is cut short.
LEMMA CutFacts ==
  ASSUME NEW S, NEW w \in Seq(S), NEW q \in Seq(S), NEW n \in 0..Len(q)
  PROVE  /\ w \o SubSeq(q, 1, n) \in Seq(S)
         /\ Len(w \o SubSeq(q, 1, n)) = Len(w) + n
         /\ Starts(w \o SubSeq(q, 1, n), w \o q)
  BY DEF Starts

\* A sequence whose second part loses its first element.
LEMMA TailFacts ==
  ASSUME NEW S, NEW x \in Seq(S), NEW q \in Seq(S), q # <<>>
  PROVE  /\ x \o q \in Seq(S) /\ x \o Tail(q) \in Seq(S)
         /\ Without(x \o Tail(q), x \o q, Len(x) + 1)
         /\ (x \o q)[Len(x) + 1] = q[1]
         /\ Starts(x, x \o q)
<1> SUFFICES ASSUME NEW r, r = x \o q, NEW u, u = x \o Tail(q)
             PROVE  /\ r \in Seq(S) /\ u \in Seq(S) /\ Len(u) = Len(r) - 1
                    /\ Len(r) = Len(x) + Len(q) /\ Len(x) \in Nat
                    /\ Len(x) + 1 \in 1..Len(r) /\ r[Len(x) + 1] = q[1]
                    /\ \A i \in 1..Len(x) : r[i] = x[i]
                    /\ \A i \in 1..Len(r) - 1 :
                         u[i] = IF i < Len(x) + 1 THEN r[i] ELSE r[i + 1]
  BY DEF Without, Starts
<1> QED
  OBVIOUS

\* The events of frames.
LEMMA FrameEventsTyped ==
  ASSUME NEW s \in Seq(Record), Carries(s)
  PROVE  /\ FrameEvents(s) \in Seq(Event) /\ Len(FrameEvents(s)) = Len(s)
         /\ Len(s) \in Nat
         /\ \A i \in 1..Len(s) : FrameEvents(s)[i] = AsEvent(s[i].body)
  BY Entered DEF FrameEvents, Carries

\* The events of a batch.
LEMMA BatchEventsTyped ==
  ASSUME NEW b \in Seq(Entry)
  PROVE  /\ BatchEvents(b) \in Seq(Event) /\ Len(BatchEvents(b)) = Len(b)
         /\ Len(b) \in Nat
         /\ \A i \in 1..Len(b) : BatchEvents(b)[i] = AsEvent(b[i])
  BY Entered DEF BatchEvents

\* Where the road has frames, batch and queue.
LEMMA RoadIndex ==
  ASSUME NEW s \in Seq(Record), Carries(s), NEW b \in Seq(Entry),
         NEW q \in Seq(Event), NEW r, r = RoadOf(s, b, q)
  PROVE  /\ r \in Seq(Event) /\ Len(r) = Len(s) + Len(b) + Len(q)
         /\ Len(r) \in Nat /\ Len(s) \in Nat /\ Len(b) \in Nat /\ Len(q) \in Nat
         /\ \A i \in 1..Len(s) : r[i] = AsEvent(s[i].body)
         /\ \A i \in 1..Len(b) : r[Len(s) + i] = AsEvent(b[i])
         /\ \A i \in 1..Len(q) : r[Len(s) + Len(b) + i] = q[i]
<1>1. PICK x \in Seq(Event) : x = FrameEvents(s)
  BY FrameEventsTyped
<1>2. PICK y \in Seq(Event) : y = BatchEvents(b)
  BY BatchEventsTyped
<1>3. r = (x \o y) \o q
  BY <1>1, <1>2 DEF RoadOf
<1>4. /\ Len(x) = Len(s) /\ \A i \in 1..Len(s) : x[i] = AsEvent(s[i].body)
  BY <1>1, FrameEventsTyped
<1>5. /\ Len(y) = Len(b) /\ \A i \in 1..Len(b) : y[i] = AsEvent(b[i])
  BY <1>2, BatchEventsTyped
<1>6. /\ r \in Seq(Event) /\ Len(r) = Len(x) + Len(y) + Len(q)
      /\ \A i \in 1..Len(x) : r[i] = x[i]
      /\ \A i \in 1..Len(y) : r[Len(x) + i] = y[i]
      /\ \A i \in 1..Len(q) : r[Len(x) + Len(y) + i] = q[i]
  BY <1>3, Concat3
<1>7. Len(s) \in Nat /\ Len(b) \in Nat /\ Len(q) \in Nat
  OBVIOUS
<1>8. \A i \in 1..Len(s) : r[i] = AsEvent(s[i].body)
  BY <1>4, <1>6
<1>9. \A i \in 1..Len(b) : r[Len(s) + i] = AsEvent(b[i])
  BY <1>4, <1>5, <1>6
<1> QED
  BY <1>4, <1>5, <1>6, <1>7, <1>8, <1>9

\* A sent event is the last of the road.
LEMMA RoadSent ==
  ASSUME NEW s \in Seq(Record), Carries(s), NEW b \in Seq(Entry),
         NEW q \in Seq(Event), NEW e \in Event
  PROVE  RoadOf(s, b, Append(q, e)) = Append(RoadOf(s, b, q), e)
<1>1. FrameEvents(s) \o BatchEvents(b) \in Seq(Event)
  BY FrameEventsTyped, BatchEventsTyped, ConcatIndex
<1> QED
  BY <1>1, ConcatAppend DEF RoadOf

\* An appended frame is the last of its events.
LEMMA FrameAppended ==
  ASSUME NEW s \in Seq(Record), Carries(s), NEW x \in Record, x.body \in Entry
  PROVE  /\ Append(s, x) \in Seq(Record) /\ Carries(Append(s, x))
         /\ FrameEvents(Append(s, x)) =
                Append(FrameEvents(s), AsEvent(x.body))
<1>a. Append(s, x) \in Seq(Record)
  OBVIOUS
<1>1. PICK t \in Seq(Record) : t = Append(s, x)
  BY <1>a
<1>2. /\ Len(t) = Len(s) + 1 /\ Len(s) \in Nat /\ t[Len(s) + 1] = x
      /\ \A i \in 1..Len(s) : t[i] = s[i]
  BY <1>1, AppendIndex
<1>3. Carries(t)
  <2> SUFFICES ASSUME NEW i \in 1..Len(t) PROVE t[i].body \in Entry
    BY DEF Carries
  <2>1. i \in 1..Len(s) \/ i = Len(s) + 1
    BY <1>2
  <2> QED
    BY <1>2, <2>1 DEF Carries
<1>4. PICK u \in Seq(Event) : u = FrameEvents(s)
  BY FrameEventsTyped
<1>5. PICK v \in Seq(Event) : v = FrameEvents(t)
  BY <1>3, FrameEventsTyped
<1>6. Len(u) = Len(s) /\ \A i \in 1..Len(s) : u[i] = AsEvent(s[i].body)
  BY <1>4, FrameEventsTyped
<1>7. Len(v) = Len(t) /\ \A i \in 1..Len(t) : v[i] = AsEvent(t[i].body)
  BY <1>3, <1>5, FrameEventsTyped
<1>8. PICK e \in Event : e = AsEvent(x.body)
  BY Entered
<1>9. Len(v) = Len(u) + 1 /\ v[Len(u) + 1] = e
  BY <1>2, <1>6, <1>7, <1>8
<1>10. ASSUME NEW i \in 1..Len(u) PROVE v[i] = u[i]
  <2>1. i \in 1..Len(s) /\ i \in 1..Len(t)
    BY <1>2, <1>6
  <2> QED
    BY <1>2, <1>6, <1>7, <2>1
<1>11. v = Append(u, e)
  BY <1>9, <1>10, Appended
<1> QED
  BY <1>1, <1>3, <1>4, <1>5, <1>8, <1>11

\* The first record of a batch is the first of its events.
LEMMA BatchHead ==
  ASSUME NEW b \in Seq(Entry), b # <<>>
  PROVE  /\ Head(b) \in Entry /\ Tail(b) \in Seq(Entry)
         /\ BatchEvents(b) = <<AsEvent(Head(b))>> \o BatchEvents(Tail(b))
<1>a. Tail(b) \in Seq(Entry)
  OBVIOUS
<1>1. PICK d \in Seq(Entry) : d = Tail(b)
  BY <1>a
<1>2. /\ Head(b) \in Entry /\ Head(b) = b[1] /\ Len(d) + 1 = Len(b)
      /\ Len(d) \in Nat /\ \A i \in 1..Len(d) : d[i] = b[i + 1]
  BY <1>1
<1>3. PICK u \in Seq(Event) : u = BatchEvents(d)
  BY BatchEventsTyped
<1>4. PICK v \in Seq(Event) : v = BatchEvents(b)
  BY BatchEventsTyped
<1>5. Len(u) = Len(d) /\ \A i \in 1..Len(d) : u[i] = AsEvent(d[i])
  BY <1>3, BatchEventsTyped
<1>6. Len(v) = Len(b) /\ \A i \in 1..Len(b) : v[i] = AsEvent(b[i])
  BY <1>4, BatchEventsTyped
<1>7. PICK e \in Event : e = AsEvent(Head(b))
  BY <1>2, Entered
<1>8. Len(v) = Len(u) + 1 /\ v[1] = e
  BY <1>2, <1>5, <1>6, <1>7
<1>9. ASSUME NEW i \in 1..Len(u) PROVE v[i + 1] = u[i]
  <2>1. i \in 1..Len(d) /\ i + 1 \in 1..Len(b)
    BY <1>2, <1>5
  <2> QED
    BY <1>2, <1>5, <1>6, <2>1
<1>10. v = <<e>> \o u
  BY <1>8, <1>9, HeadTail
<1> QED
  BY <1>1, <1>2, <1>3, <1>4, <1>7, <1>10

\* append moves the head of the batch on the road, which stays the same.
LEMMA RoadAppended ==
  ASSUME NEW s \in Seq(Record), Carries(s), NEW b \in Seq(Entry), b # <<>>,
         NEW q \in Seq(Event), NEW x \in Record, x.body = Head(b)
  PROVE  RoadOf(Append(s, x), Tail(b), q) = RoadOf(s, b, q)
<1>1. /\ Head(b) \in Entry /\ Tail(b) \in Seq(Entry)
      /\ BatchEvents(b) = <<AsEvent(Head(b))>> \o BatchEvents(Tail(b))
  BY BatchHead
<1>2. FrameEvents(Append(s, x)) = Append(FrameEvents(s), AsEvent(Head(b)))
  BY <1>1, FrameAppended
<1>3. PICK e \in Event : e = AsEvent(Head(b))
  BY <1>1, Entered
<1>4. PICK u \in Seq(Event) : u = FrameEvents(s)
  BY FrameEventsTyped
<1>5. PICK v \in Seq(Event) : v = BatchEvents(Tail(b))
  BY <1>1, BatchEventsTyped
<1>6. Append(u, e) \o v = u \o (<<e>> \o v)
  BY ConcatAppend
<1> QED
  BY <1>1, <1>2, <1>3, <1>4, <1>5, <1>6 DEF RoadOf

\* append_records moves the first events of the queue into the batch.
LEMMA RoadTaken ==
  ASSUME NEW s \in Seq(Record), Carries(s), NEW d \in Seq(Entry),
         NEW p \in Seq(Event)
  PROVE  RoadOf(s, d, p) = RoadOf(s, <<>>, BatchEvents(d) \o p)
<1>1. PICK x \in Seq(Event) : x = FrameEvents(s)
  BY FrameEventsTyped
<1>2. PICK y \in Seq(Event) : y = BatchEvents(d)
  BY BatchEventsTyped
<1>3. BatchEvents(<<>>) = <<>>
  BY DEF BatchEvents
<1>4. (x \o y) \o p = x \o (y \o p)
  BY Assoc, SMTT(30)
<1>5. x \o <<>> = x
  BY Nil
<1> QED
  BY <1>1, <1>2, <1>3, <1>4, <1>5 DEF RoadOf

\* What an abort leaves of the road.
LEMMA RoadCut ==
  ASSUME NEW s \in Seq(Record), Carries(s), NEW b \in Seq(Entry),
         NEW q \in Seq(Event), NEW n \in 0..Len(q),
         NEW r, r = RoadOf(s, b, q), NEW u, u = RoadOf(s, b, SubSeq(q, 1, n))
  PROVE  u \in Seq(Event) /\ Len(u) >= Len(s) /\ Starts(u, r)
<1>1. PICK w \in Seq(Event) : w = FrameEvents(s) \o BatchEvents(b)
  BY FrameEventsTyped, BatchEventsTyped, ConcatIndex
<1>2. Len(w) >= Len(s) /\ Len(w) \in Nat /\ Len(s) \in Nat
  BY <1>1, FrameEventsTyped, BatchEventsTyped, ConcatIndex
<1>3. r = w \o q /\ u = w \o SubSeq(q, 1, n)
  BY <1>1 DEF RoadOf
<1>4. u \in Seq(Event) /\ Len(u) = Len(w) + n /\ Starts(u, r)
  BY <1>3, CutFacts
<1> QED
  BY <1>2, <1>4

\* What a delivered checkpoint leaves of the road.
LEMMA RoadDelivered ==
  ASSUME NEW s \in Seq(Record), Carries(s), NEW q \in Seq(Event), q # <<>>
  PROVE  LET r == RoadOf(s, <<>>, q)
             u == RoadOf(s, <<>>, Tail(q))
         IN  /\ u \in Seq(Event) /\ Without(u, r, Len(s) + 1)
             /\ r[Len(s) + 1] = q[1]
             /\ \A i \in 1..Len(s) : IsRecord(r[i])
<1>1. PICK x \in Seq(Event) : x = FrameEvents(s)
  BY FrameEventsTyped
<1>2. BatchEvents(<<>>) = <<>> /\ x \o <<>> = x
  BY Nil DEF BatchEvents
<1>3. RoadOf(s, <<>>, q) = x \o q /\ RoadOf(s, <<>>, Tail(q)) = x \o Tail(q)
  BY <1>1, <1>2 DEF RoadOf
<1>4. Len(x) = Len(s)
      /\ \A i \in 1..Len(s) : x[i] = AsEvent(s[i].body)
  BY <1>1, FrameEventsTyped
<1>5. \A i \in 1..Len(x) : IsRecord(x[i])
  BY <1>4, Entered DEF Carries
<1>6. /\ x \o Tail(q) \in Seq(Event)
      /\ Without(x \o Tail(q), x \o q, Len(x) + 1)
      /\ (x \o q)[Len(x) + 1] = q[1]
      /\ Starts(x, x \o q)
  BY TailFacts
<1>7. \A i \in 1..Len(x) : IsRecord((x \o q)[i])
  BY <1>5, <1>6 DEF Starts
<1> QED
  BY <1>3, <1>4, <1>6, <1>7

-----------------------------------------------------------------------------
(* The source, and where a reader stands                                   *)

\* The numbers of a line.
LEMMA LineFacts ==
  ASSUME NEW l \in Lines
  PROVE  /\ l[1] \in 1..MaxChanges + 1 /\ l[2] \in 0..MaxChanges
         /\ l[3] \in 1..MaxLines
         /\ l[1] \in Nat /\ l[2] \in Nat /\ l[3] \in Nat /\ l[1] > 0
         /\ l = <<l[1], l[2], l[3]>>
  BY Bounds DEF Lines

\* The sizes of the files.
LEMMA SizeFacts ==
  ASSUME NEW f \in Seq(Sizes)
  PROVE  /\ Len(f) \in Nat
         /\ \A i \in 1..Len(f) : f[i].epoch \in Nat /\ f[i].len \in Nat
<1>1. \A x \in Sizes : x.epoch \in Nat /\ x.len \in Nat
  BY Bounds DEF Sizes
<1> QED
  BY <1>1

\* What the source does to its files: one is cut short, or grows.
Grew(f, g) ==
    /\ Len(f) <= Len(g)
    /\ \A i \in 1..Len(f) :
          \/ g[i].epoch > f[i].epoch
          \/ g[i].epoch = f[i].epoch /\ g[i].len >= f[i].len

\* The steps of the source do that.
LEMMA SourceGrew ==
  ASSUME FileTypes, SourceStep
  PROVE  Grew(files, files')
<1>1. /\ files \in Seq(Sizes) /\ Path = Len(files) /\ Path \in 1..Path
      /\ Path \in Nat
      /\ \A i \in 1..Path : files[i].epoch \in Nat /\ files[i].len \in Nat
  BY FileFacts, SizeFacts
<1>2. CASE SourceGrows
  <2>1. PICK ino \in 1..Path : files' = [files EXCEPT ![ino].len = @ + 1]
    BY <1>2 DEF SourceGrows
  <2>2. /\ Len(files') = Path
        /\ \A i \in 1..Path : /\ files'[i].epoch = files[i].epoch
                              /\ files'[i].len >= files[i].len
    <3> SUFFICES ASSUME NEW i \in 1..Path
                 PROVE  /\ files'[i].epoch = files[i].epoch
                        /\ files'[i].len >= files[i].len
      BY <1>1, <2>1
    <3>1. files[i] \in Sizes
      BY <1>1
    <3>2. files'[i] = IF i = ino THEN [files[i] EXCEPT !.len = @ + 1]
                                 ELSE files[i]
      BY <1>1, <2>1
    <3> QED
      BY <1>1, <3>1, <3>2 DEF Sizes
  <2> QED
    BY <1>1, <2>2 DEF Grew
<1>3. CASE SourceRotates
  BY <1>1, <1>3 DEF SourceRotates, Grew
<1>4. CASE SourceTruncated
  <2>1. files' = [files EXCEPT ![Path] =
                              [epoch |-> files[Path].epoch + 1, len |-> 0]]
    BY <1>1, <1>4 DEF SourceTruncated
  <2> QED
    BY <1>1, <2>1 DEF Grew
<1> QED
  BY <1>2, <1>3, <1>4 DEF SourceStep

\* What was true of a line and a reader stays true of the files as they change.
LEMMA GrewFacts ==
  ASSUME NEW f \in Seq(Sizes), NEW g \in Seq(Sizes), Grew(f, g)
  PROVE  /\ \A l \in Lines : Real(f, l) => Real(g, l)
         /\ \A ino, seen : Len(seen) \in Nat /\ Faithful(f, ino, seen)
               => Faithful(g, ino, seen)
         /\ \A n : \A l \in Lines, ino \in 0..Len(f) :
               Past(f, l, ino, n) => Past(g, l, ino, n)
<1>1. /\ Len(f) \in Nat /\ Len(g) \in Nat /\ Len(f) <= Len(g)
      /\ \A i \in 1..Len(f) : /\ i \in 1..Len(g)
                              /\ f[i].epoch \in Nat /\ f[i].len \in Nat
                              /\ g[i].epoch \in Nat /\ g[i].len \in Nat
                              /\ \/ g[i].epoch > f[i].epoch
                                 \/ /\ g[i].epoch = f[i].epoch
                                    /\ g[i].len >= f[i].len
  BY SizeFacts DEF Grew
<1>2. ASSUME NEW l \in Lines, Real(f, l) PROVE Real(g, l)
  <2>1. /\ l[1] \in 1..Len(f) /\ l[2] \in Nat /\ l[3] \in Nat
        /\ l[2] <= f[l[1]].epoch
        /\ l[2] = f[l[1]].epoch => l[3] <= f[l[1]].len
    BY <1>2, LineFacts DEF Real
  <2>2. PICK i \in 1..Len(f) : i = l[1]
    BY <2>1
  <2>3. /\ f[i].epoch \in Nat /\ f[i].len \in Nat /\ i \in 1..Len(g)
        /\ g[i].epoch \in Nat /\ g[i].len \in Nat
        /\ \/ g[i].epoch > f[i].epoch
           \/ g[i].epoch = f[i].epoch /\ g[i].len >= f[i].len
    BY <1>1
  <2>4. l[2] <= g[i].epoch /\ (l[2] = g[i].epoch => l[3] <= g[i].len)
    BY <2>1, <2>2, <2>3
  <2> QED
    BY <2>2, <2>3, <2>4 DEF Real
<1>3. ASSUME NEW ino, NEW seen, Len(seen) \in Nat, Faithful(f, ino, seen)
      PROVE  Faithful(g, ino, seen)
  <2>1. ino \in 0..Len(f) /\ ino \in 0..Len(g)
    BY <1>1, <1>3 DEF Faithful
  <2>2. ASSUME ino > 0, g[ino].epoch = 0
        PROVE  /\ Len(seen) <= g[ino].len
               /\ \A k \in 1..Len(seen) : seen[k] = <<ino, 0, k>>
    <3>1. PICK i \in 1..Len(f) : i = ino /\ i \in 1..Len(g)
      BY <1>1, <2>1, <2>2
    <3>2. /\ f[i].epoch \in Nat /\ f[i].len \in Nat /\ g[i].len \in Nat
          /\ \/ g[i].epoch > f[i].epoch
             \/ g[i].epoch = f[i].epoch /\ g[i].len >= f[i].len
      BY <1>1, <3>1
    <3>3. f[i].epoch = 0 /\ g[i].len >= f[i].len
      BY <2>2, <3>1, <3>2
    <3>4. /\ Len(seen) <= f[i].len
          /\ \A k \in 1..Len(seen) : seen[k] = <<ino, 0, k>>
      BY <1>3, <2>2, <3>1, <3>3 DEF Faithful
    <3>5. Len(seen) <= g[i].len
      BY <1>3, <3>2, <3>3, <3>4
    <3> QED
      BY <3>1, <3>4, <3>5
  <2> QED
    BY <2>1, <2>2 DEF Faithful
<1>4. ASSUME NEW l \in Lines, NEW ino \in 0..Len(f), NEW n, Past(f, l, ino, n)
      PROVE  Past(g, l, ino, n)
  <2>1. CASE ino = 0
    BY <1>4, <2>1, LineFacts DEF Past
  <2>2. CASE ino # 0
    BY <1>1, <1>4, <2>2 DEF Past
  <2> QED
    BY <2>1, <2>2
<1> QED
  BY <1>2, <1>3, <1>4

\* Places that are the same.
LEMMA PlaceFacts ==
  ASSUME NEW a, NEW i, NEW n, NEW b, NEW j, NEW k,
         Place(a, i, n) = Place(b, j, k)
  PROVE  a = b /\ i = j /\ n = k
  BY DEF Place

\* Where a reader stands is about the events before it.
LEMMA StandsSame ==
  ASSUME NEW r, NEW t, NEW m, m.joff \in Nat, NEW n \in Nat, NEW p,
         \A j \in 1..n : r[j] = t[j], Stands(r, m, n, p)
  PROVE  Stands(t, m, n, p)
<1>1. \A c \in m.joff..n : RecordsOnly(t, c, n) => RecordsOnly(r, c, n)
  BY DEF RecordsOnly
<1>2. ASSUME NEW c \in m.joff + 1..n, ~IsRecord(t[c]), RecordsOnly(t, c, n)
      PROVE  p = Place(t[c].acq, t[c].ino, Len(t[c].seen) + (n - c))
  <2>1. r[c] = t[c] /\ c \in m.joff..n
    OBVIOUS
  <2> QED
    BY <1>1, <1>2, <2>1 DEF Stands
<1>3. RecordsOnly(t, m.joff, n) => RecordsOnly(r, m.joff, n)
  BY DEF RecordsOnly
<1> QED
  BY <1>2, <1>3 DEF Stands

\* Behind a checkpoint a reader stands where it says.
LEMMA StandsAt ==
  ASSUME NEW r, NEW m, m.joff \in Nat, NEW n \in Nat, n > m.joff,
         ~IsRecord(r[n]), Len(r[n].seen) \in Nat
  PROVE  Stands(r, m, n, Place(r[n].acq, r[n].ino, Len(r[n].seen)))
<1>1. ASSUME NEW c \in m.joff + 1..n, RecordsOnly(r, c, n) PROVE c = n
  <2>1. CASE c < n
    <3>1. n \in c + 1..n
      BY <2>1
    <3> QED
      BY <1>1, <3>1 DEF RecordsOnly
  <2> QED
    BY <2>1
<1>2. ~RecordsOnly(r, m.joff, n)
  BY DEF RecordsOnly
<1>3. Len(r[n].seen) + (n - n) = Len(r[n].seen)
  OBVIOUS
<1> QED
  BY <1>1, <1>2, <1>3 DEF Stands

\* A record takes a reader one line on.
LEMMA StandsOn ==
  ASSUME NEW r, NEW m, m.joff \in Nat, Len(m.seen) \in Nat, NEW n \in Nat,
         n >= m.joff, IsRecord(r[n + 1]),
         \A c \in 1..n : ~IsRecord(r[c]) => Len(r[c].seen) \in Nat,
         NEW a, NEW i, NEW k \in Int, Stands(r, m, n, Place(a, i, k))
  PROVE  Stands(r, m, n + 1, Place(a, i, k + 1))
<1>1. \A c \in m.joff..n : RecordsOnly(r, c, n + 1) => RecordsOnly(r, c, n)
  BY DEF RecordsOnly
<1>2. ASSUME NEW c \in m.joff + 1..n + 1, ~IsRecord(r[c]),
             RecordsOnly(r, c, n + 1)
      PROVE  Place(a, i, k + 1) =
                Place(r[c].acq, r[c].ino, Len(r[c].seen) + ((n + 1) - c))
  <2>1. c \in m.joff + 1..n /\ c \in m.joff..n /\ c \in 1..n
    BY <1>2
  <2>2. Place(a, i, k) = Place(r[c].acq, r[c].ino, Len(r[c].seen) + (n - c))
    BY <1>1, <1>2, <2>1 DEF Stands
  <2>3. a = r[c].acq /\ i = r[c].ino /\ k = Len(r[c].seen) + (n - c)
    BY <2>2 DEF Place
  <2>4. k + 1 = Len(r[c].seen) + ((n + 1) - c)
    <3>1. Len(r[c].seen) \in Nat
      BY <1>2, <2>1
    <3>2. PICK y \in Nat : y = Len(r[c].seen)
      BY <3>1
    <3>3. k = y + (n - c)
      BY <2>3, <3>2
    <3>4. k + 1 = y + ((n + 1) - c)
      BY <2>1, <3>3
    <3> QED
      BY <3>2, <3>4
  <2> QED
    BY <2>3, <2>4
<1>3. ASSUME RecordsOnly(r, m.joff, n + 1)
      PROVE  Place(a, i, k + 1) =
                Place(m.acq, m.ino, Len(m.seen) + ((n + 1) - m.joff))
  <2>1. RecordsOnly(r, m.joff, n)
    BY <1>3 DEF RecordsOnly
  <2>2. Place(a, i, k) = Place(m.acq, m.ino, Len(m.seen) + (n - m.joff))
    BY <2>1 DEF Stands
  <2>3. a = m.acq /\ i = m.ino /\ k = Len(m.seen) + (n - m.joff)
    BY <2>2 DEF Place
  <2>4. k + 1 = Len(m.seen) + ((n + 1) - m.joff)
    <3>1. PICK y \in Nat : y = Len(m.seen)
      OBVIOUS
    <3>2. PICK z \in Nat : z = m.joff
      OBVIOUS
    <3>3. k = y + (n - z)
      BY <2>3, <3>1, <3>2
    <3>4. k + 1 = y + ((n + 1) - z)
      BY <3>3
    <3> QED
      BY <3>1, <3>2, <3>4
  <2> QED
    BY <2>3, <2>4
<1> QED
  BY <1>2, <1>3 DEF Stands

-----------------------------------------------------------------------------
(* What is sent, cut off and delivered                                     *)

\* A reader's past is about the events before it.
LEMMA PastSame ==
  ASSUME NEW f, NEW r, NEW t, NEW k \in Nat, NEW ino, NEW n,
         \A i \in 1..k : r[i] = t[i], PastRoad(f, r, k, ino, n)
  PROVE  PastRoad(f, t, k, ino, n)
  BY DEF PastRoad

\* The events of a road.
LEMMA RoadEvents ==
  ASSUME NEW r \in Seq(Event)
  PROVE  /\ Len(r) \in Nat
         /\ \A i \in 1..Len(r) :
               /\ r[i] \in Event
               /\ IsRecord(r[i]) => /\ r[i].line \in Lines
                                    /\ r[i].acq \in 1..MaxOpens
               /\ ~IsRecord(r[i]) =>
                     /\ r[i].seen \in Seq(Lines) /\ Len(r[i].seen) \in Nat
                     /\ r[i].ino \in 0..MaxChanges + 1
<1>1. \A e \in Event :
         /\ IsRecord(e) => e.line \in Lines /\ e.acq \in 1..MaxOpens
         /\ ~IsRecord(e) => /\ e.seen \in Seq(Lines) /\ Len(e.seen) \in Nat
                            /\ e.ino \in 0..MaxChanges + 1
  BY EventTypes
<1>2. Len(r) \in Nat /\ \A i \in 1..Len(r) : r[i] \in Event
  OBVIOUS
<1> QED
  BY <1>1, <1>2

\* Writing, rotating and truncating leave the road in order.
LEMMA RoadGrew ==
  ASSUME NEW f \in Seq(Sizes), NEW g \in Seq(Sizes), Grew(f, g),
         NEW r \in Seq(Event), NEW m \in CursorSet
  PROVE  /\ RoadOK(f, r, m) => RoadOK(g, r, m)
         /\ \A a : Len(a.seen) \in Nat /\ ReaderOK(f, r, m, a)
                      => ReaderOK(g, r, m, a)
<1>1. /\ \A l \in Lines : Real(f, l) => Real(g, l)
      /\ \A ino, seen : Len(seen) \in Nat /\ Faithful(f, ino, seen)
            => Faithful(g, ino, seen)
  BY GrewFacts
<1>2. ASSUME NEW k \in 0..Len(r), NEW ino \in 0..Len(f), NEW n,
             PastRoad(f, r, k, ino, n)
      PROVE  PastRoad(g, r, k, ino, n)
  <2> SUFFICES ASSUME NEW j \in 1..k, IsRecord(r[j])
               PROVE  Past(g, r[j].line, ino, n)
    BY DEF PastRoad
  <2>1. j \in 1..Len(r) /\ r[j].line \in Lines
    BY RoadEvents
  <2>2. Past(f, r[j].line, ino, n)
    BY <1>2 DEF PastRoad
  <2> QED
    BY <2>1, <2>2, GrewFacts
<1>3. ASSUME NEW ino, NEW seen, Faithful(f, ino, seen) PROVE ino \in 0..Len(f)
  BY <1>3 DEF Faithful
<1>4. Len(r) \in Nat
  OBVIOUS
<1>5. ASSUME Genuine(f, r) PROVE Genuine(g, r)
  BY <1>1, <1>5, RoadEvents DEF Genuine
<1>6. ASSUME Trusted(f, r) PROVE Trusted(g, r)
  <2> SUFFICES ASSUME NEW i \in 1..Len(r), ~IsRecord(r[i])
               PROVE  /\ Faithful(g, r[i].ino, r[i].seen)
                      /\ PastRoad(g, r, i - 1, r[i].ino, Len(r[i].seen))
    BY DEF Trusted
  <2>1. /\ Faithful(f, r[i].ino, r[i].seen)
        /\ PastRoad(f, r, i - 1, r[i].ino, Len(r[i].seen))
    BY <1>6 DEF Trusted
  <2>2. i - 1 \in 0..Len(r) /\ Len(r[i].seen) \in Nat
    BY RoadEvents
  <2> QED
    BY <1>1, <1>2, <1>3, <2>1, <2>2
<1>7. ASSUME m.joff <= Len(r), MarkTrusted(f, r, m) PROVE MarkTrusted(g, r, m)
  <2>1. m.joff \in 0..Len(r) /\ Len(m.seen) \in Nat
    BY <1>4, <1>7, CursorFacts
  <2> QED
    BY <1>1, <1>2, <1>3, <1>7, <2>1 DEF MarkTrusted
<1>8. ASSUME NEW a, Len(a.seen) \in Nat, ReaderOK(f, r, m, a)
      PROVE  ReaderOK(g, r, m, a)
  <2>1. Len(r) \in 0..Len(r)
    BY <1>4
  <2> QED
    BY <1>1, <1>2, <1>3, <1>8, <2>1 DEF ReaderOK
<1> QED
  BY <1>5, <1>6, <1>7, <1>8 DEF RoadOK

\* t is r and one more event.
Longer(t, r, e) ==
    /\ Len(t) = Len(r) + 1 /\ t[Len(r) + 1] = e
    /\ \A i \in 1..Len(r) : t[i] = r[i]

\* An event that is all right where the road ends may be sent.
LEMMA RoadLonger ==
  ASSUME NEW f \in Seq(Sizes), NEW r \in Seq(Event), NEW m \in CursorSet,
         NEW t \in Seq(Event), NEW e \in Event, Longer(t, r, e),
         RoadOK(f, r, m),
         IsRecord(e) => /\ Real(f, e.line)
                        /\ Stands(r, m, Len(r), Start(e))
                        /\ \A i \in 1..Len(r) :
                              IsRecord(r[i]) /\ e.line[2] = 0
                                 => r[i].line # e.line,
         ~IsRecord(e) => /\ Faithful(f, e.ino, e.seen)
                         /\ PastRoad(f, r, Len(r), e.ino, Len(e.seen))
  PROVE  RoadOK(f, t, m)
<1>1. /\ Len(r) \in Nat /\ Len(t) = Len(r) + 1 /\ t[Len(r) + 1] = e
      /\ \A i \in 1..Len(r) : t[i] = r[i]
  BY DEF Longer
<1>2. m.joff \in Nat /\ m.joff <= Len(r)
  BY CursorFacts DEF RoadOK
<1>3. ASSUME NEW i \in 1..Len(t)
      PROVE  \/ i \in 1..Len(r) /\ t[i] = r[i]
             \/ i = Len(r) + 1 /\ t[i] = e
  BY <1>1
<1>4. ASSUME NEW k \in 0..Len(r) PROVE \A j \in 1..k : r[j] = t[j]
  BY <1>1
<1>5. Genuine(f, t)
  BY <1>3 DEF RoadOK, Genuine
<1>6. Trusted(f, t)
  <2> SUFFICES ASSUME NEW i \in 1..Len(t), ~IsRecord(t[i])
               PROVE  /\ Faithful(f, t[i].ino, t[i].seen)
                      /\ PastRoad(f, t, i - 1, t[i].ino, Len(t[i].seen))
    BY DEF Trusted
  <2>1. /\ Faithful(f, t[i].ino, t[i].seen)
        /\ PastRoad(f, r, i - 1, t[i].ino, Len(t[i].seen))
    <3>1. CASE i \in 1..Len(r) /\ t[i] = r[i]
      BY <3>1 DEF RoadOK, Trusted
    <3>2. CASE i = Len(r) + 1 /\ t[i] = e
      <4>1. i - 1 = Len(r)
        BY <1>1, <3>2
      <4> QED
        BY <3>2, <4>1
    <3> QED
      BY <1>3, <3>1, <3>2
  <2>2. i - 1 \in 0..Len(r) /\ i - 1 \in Nat
    BY <1>1
  <2> QED
    BY <1>4, <2>1, <2>2, PastSame
<1>7. MarkTrusted(f, t, m)
  <2>1. Faithful(f, m.ino, m.seen) /\ PastRoad(f, r, m.joff, m.ino, Len(m.seen))
    BY DEF RoadOK, MarkTrusted
  <2>2. m.joff \in 0..Len(r)
    BY <1>1, <1>2
  <2> QED
    BY <1>2, <1>4, <2>1, <2>2, PastSame DEF MarkTrusted
<1>8. Tracks(t, m)
  <2> SUFFICES ASSUME NEW k \in m.joff + 1..Len(t), IsRecord(t[k])
               PROVE  Stands(t, m, k - 1, Start(t[k]))
    BY DEF Tracks
  <2>1. k \in 1..Len(t) /\ k - 1 \in 0..Len(r) /\ k - 1 \in Nat
    BY <1>1, <1>2
  <2>2. Stands(r, m, k - 1, Start(t[k]))
    <3>1. CASE k \in 1..Len(r) /\ t[k] = r[k]
      <4>1. k \in m.joff + 1..Len(r)
        BY <3>1
      <4> QED
        BY <3>1, <4>1 DEF RoadOK, Tracks
    <3>2. CASE k = Len(r) + 1 /\ t[k] = e
      <4>1. k - 1 = Len(r)
        BY <1>1, <3>2
      <4> QED
        BY <3>2, <4>1
    <3> QED
      BY <1>3, <2>1, <3>1, <3>2
  <2> QED
    BY <1>2, <1>4, <2>1, <2>2, StandsSame
<1>9. Apart(t)
  <2> SUFFICES ASSUME NEW i \in 1..Len(t), NEW j \in 1..Len(t), i < j,
                      IsRecord(t[i]), IsRecord(t[j]), t[j].line[2] = 0
               PROVE  t[i].line # t[j].line
    BY DEF Apart
  <2>1. i \in 1..Len(r) /\ t[i] = r[i]
    BY <1>1
  <2> QED
    BY <1>3, <2>1 DEF RoadOK, Apart
<1> QED
  BY <1>2, <1>5, <1>6, <1>7, <1>8, <1>9, <1>1 DEF RoadOK

\* run_file sends the line that follows those it has read.
LEMMA RecordSent ==
  ASSUME NEW f \in Seq(Sizes), NEW r \in Seq(Event), NEW m \in CursorSet,
         NEW t \in Seq(Event), NEW e \in Event, Longer(t, r, e), IsRecord(e),
         RoadOK(f, r, m), NEW a, NEW b, ReaderOK(f, r, m, a),
         e.acq = a.id, a.seen \in Seq(Lines), a.ino \in 1..Len(f),
         Len(a.seen) < f[a.ino].len, e.line \in Lines,
         e.line = <<a.ino, f[a.ino].epoch, Len(a.seen) + 1>>,
         b.id = a.id, b.ino = a.ino, b.seen = Append(a.seen, e.line)
  PROVE  RoadOK(f, t, m) /\ ReaderOK(f, t, m, b)
<1> DEFINE n == Len(a.seen)
<1>1. /\ n \in Nat /\ f[a.ino].len \in Nat /\ f[a.ino].epoch \in Nat
      /\ Len(r) \in Nat /\ Len(t) = Len(r) + 1 /\ t[Len(r) + 1] = e
      /\ n + 1 <= f[a.ino].len
      /\ m.joff \in Nat /\ m.joff <= Len(r) /\ Len(m.seen) \in Nat
  <2>1. f[a.ino].len \in Nat /\ f[a.ino].epoch \in Nat
    BY SizeFacts
  <2>2. n \in Nat /\ Len(r) \in Nat
    OBVIOUS
  <2>3. Len(t) = Len(r) + 1 /\ t[Len(r) + 1] = e
    BY DEF Longer
  <2>4. n + 1 <= f[a.ino].len
    <3>1. PICK y \in Nat : y = f[a.ino].len
      BY <2>1
    <3>2. PICK z \in Nat : z = n /\ z < y
      BY <2>2, <3>1
    <3> QED
      BY <3>1, <3>2
  <2>5. m.joff \in Nat /\ Len(m.seen) \in Nat
    BY CursorFacts
  <2>6. m.joff <= Len(r)
    BY DEF RoadOK
  <2> QED
    BY <2>1, <2>2, <2>3, <2>4, <2>5, <2>6
<1>2. /\ e.line[1] = a.ino /\ e.line[2] = f[a.ino].epoch /\ e.line[3] = n + 1
  OBVIOUS
<1>3. Real(f, e.line)
  <2>1. /\ e.line[1] \in 1..Len(f) /\ e.line[2] <= f[e.line[1]].epoch
        /\ e.line[3] <= f[e.line[1]].len
    BY <1>1, <1>2
  <2> QED
    BY <2>1 DEF Real
<1>4. Start(e) = Place(a.id, a.ino, n)
  BY <1>1, <1>2 DEF Start
<1>5. Stands(r, m, Len(r), Start(e))
  BY <1>4 DEF ReaderOK
<1>6. ASSUME NEW i \in 1..Len(r), IsRecord(r[i]), e.line[2] = 0
      PROVE  r[i].line # e.line
  <2>1. Past(f, r[i].line, a.ino, n)
    BY <1>6 DEF ReaderOK, PastRoad
  <2> QED
    BY <1>1, <1>2, <1>6, <2>1 DEF Past
<1>7. RoadOK(f, t, m)
  BY <1>3, <1>5, <1>6, RoadLonger
<1>8. /\ Len(b.seen) = n + 1
      /\ \A k \in 1..n + 1 : b.seen[k] = IF k <= n THEN a.seen[k] ELSE e.line
  BY AppendIndex
<1>9. Faithful(f, b.ino, b.seen)
  <2>1. Faithful(f, a.ino, a.seen)
    BY DEF ReaderOK
  <2>2. ASSUME f[a.ino].epoch = 0, NEW k \in 1..n + 1
        PROVE  b.seen[k] = <<a.ino, 0, k>>
    <3>1. CASE k <= n
      BY <1>1, <1>8, <2>1, <2>2, <3>1 DEF Faithful
    <3>2. CASE ~(k <= n)
      <4>1. k = n + 1
        BY <1>1, <3>2
      <4> QED
        BY <1>8, <2>2, <3>2, <4>1
    <3> QED
      BY <3>1, <3>2
  <2>4. a.ino \in 0..Len(f)
    BY SizeFacts
  <2> HIDE DEF n
  <2> QED
    BY <1>1, <1>8, <2>2, <2>4 DEF Faithful
<1>10. PastRoad(f, t, Len(t), b.ino, Len(b.seen))
  <2> SUFFICES ASSUME NEW j \in 1..Len(t), IsRecord(t[j])
               PROVE  Past(f, t[j].line, a.ino, n + 1)
    BY <1>8 DEF PastRoad
  <2>1. CASE j \in 1..Len(r)
    <3>1. t[j] = r[j] /\ r[j].line \in Lines
      BY <2>1, RoadEvents DEF Longer
    <3>2. Past(f, r[j].line, a.ino, n)
      BY <2>1, <3>1 DEF ReaderOK, PastRoad
    <3>3. r[j].line[3] \in Nat
      BY <3>1, LineFacts
    <3>4. r[j].line[3] <= n => r[j].line[3] <= n + 1
      BY <1>1, <3>3
    <3> QED
      BY <3>1, <3>2, <3>4 DEF Past
  <2>2. CASE j \notin 1..Len(r)
    <3>1. j = Len(r) + 1
      BY <1>1, <2>2
    <3> QED
      BY <1>1, <1>2, <3>1 DEF Past
  <2> QED
    BY <2>1, <2>2
<1>11. Stands(t, m, Len(t), Place(b.id, b.ino, Len(b.seen)))
  <2>1. Stands(t, m, Len(r), Place(a.id, a.ino, n))
    <3>1. \A j \in 1..Len(r) : r[j] = t[j]
      BY DEF Longer
    <3>2. Stands(r, m, Len(r), Place(a.id, a.ino, n))
      BY DEF ReaderOK
    <3> QED
      BY <1>1, <3>1, <3>2, StandsSame
  <2>2. \A c \in 1..Len(r) : ~IsRecord(t[c]) => Len(t[c].seen) \in Nat
    BY <1>1, RoadEvents
  <2>3. IsRecord(t[Len(r) + 1]) /\ n \in Int /\ Len(r) >= m.joff
    BY <1>1
  <2>4. Stands(t, m, Len(r) + 1, Place(a.id, a.ino, n + 1))
    BY <1>1, <2>1, <2>2, <2>3, StandsOn
  <2> QED
    BY <1>1, <1>8, <2>4
<1> QED
  BY <1>7, <1>9, <1>10, <1>11 DEF ReaderOK

\* A checkpoint of a reader that is past the road, and the reader behind it.
LEMMA CheckpointSent ==
  ASSUME NEW f \in Seq(Sizes), NEW r \in Seq(Event), NEW m \in CursorSet,
         NEW t \in Seq(Event), NEW e \in Event, Longer(t, r, e), ~IsRecord(e),
         RoadOK(f, r, m), Faithful(f, e.ino, e.seen),
         PastRoad(f, r, Len(r), e.ino, Len(e.seen)),
         NEW b, b.id = e.acq, b.ino = e.ino, b.seen = e.seen
  PROVE  RoadOK(f, t, m) /\ ReaderOK(f, t, m, b)
<1>1. /\ Len(r) \in Nat /\ Len(t) = Len(r) + 1 /\ t[Len(r) + 1] = e
      /\ \A i \in 1..Len(r) : t[i] = r[i]
      /\ m.joff \in Nat /\ m.joff <= Len(r) /\ Len(e.seen) \in Nat
  BY CursorFacts, EventTypes DEF Longer, RoadOK
<1>2. RoadOK(f, t, m)
  BY RoadLonger
<1>3. PastRoad(f, t, Len(t), e.ino, Len(e.seen))
  <2> SUFFICES ASSUME NEW j \in 1..Len(t), IsRecord(t[j])
               PROVE  Past(f, t[j].line, e.ino, Len(e.seen))
    BY DEF PastRoad
  <2>1. j \in 1..Len(r)
    BY <1>1
  <2> QED
    BY <1>1, <2>1 DEF PastRoad
<1>4. Stands(t, m, Len(t), Place(e.acq, e.ino, Len(e.seen)))
  <2>1. Len(t) \in Nat /\ Len(t) > m.joff /\ t[Len(t)] = e
    BY <1>1
  <2> QED
    BY <1>1, <2>1, StandsAt
<1> QED
  BY <1>2, <1>3, <1>4 DEF ReaderOK

\* The first events of a road in order.
LEMMA RoadShorter ==
  ASSUME NEW f, NEW r \in Seq(Event), NEW m \in CursorSet, NEW t \in Seq(Event),
         Starts(t, r), m.joff <= Len(t), RoadOK(f, r, m)
  PROVE  RoadOK(f, t, m)
<1>1. /\ Len(r) \in Nat /\ Len(t) \in Nat /\ Len(t) <= Len(r) /\ m.joff \in Nat
      /\ \A i \in 1..Len(t) : r[i] = t[i] /\ i \in 1..Len(r)
  BY CursorFacts DEF Starts
<1>2. ASSUME NEW k \in 0..Len(t) PROVE \A j \in 1..k : r[j] = t[j]
  BY <1>1
<1>3. Genuine(f, t)
  BY <1>1 DEF RoadOK, Genuine
<1>4. Trusted(f, t)
  <2> SUFFICES ASSUME NEW i \in 1..Len(t), ~IsRecord(t[i])
               PROVE  /\ Faithful(f, t[i].ino, t[i].seen)
                      /\ PastRoad(f, t, i - 1, t[i].ino, Len(t[i].seen))
    BY DEF Trusted
  <2>1. /\ Faithful(f, t[i].ino, t[i].seen)
        /\ PastRoad(f, r, i - 1, t[i].ino, Len(t[i].seen))
    BY <1>1 DEF RoadOK, Trusted
  <2>2. i - 1 \in 0..Len(t) /\ i - 1 \in Nat
    BY <1>1
  <2> QED
    BY <1>2, <2>1, <2>2, PastSame
<1>5. MarkTrusted(f, t, m)
  <2>1. Faithful(f, m.ino, m.seen) /\ PastRoad(f, r, m.joff, m.ino, Len(m.seen))
    BY DEF RoadOK, MarkTrusted
  <2>2. m.joff \in 0..Len(t)
    BY <1>1
  <2> QED
    BY <1>1, <1>2, <2>1, <2>2, PastSame DEF MarkTrusted
<1>6. Tracks(t, m)
  <2> SUFFICES ASSUME NEW k \in m.joff + 1..Len(t), IsRecord(t[k])
               PROVE  Stands(t, m, k - 1, Start(t[k]))
    BY DEF Tracks
  <2>1. k \in 1..Len(t) /\ k - 1 \in 0..Len(t) /\ k - 1 \in Nat
        /\ k \in m.joff + 1..Len(r)
    BY <1>1
  <2>2. Stands(r, m, k - 1, Start(t[k]))
    BY <1>1, <2>1 DEF RoadOK, Tracks
  <2> QED
    BY <1>1, <1>2, <2>1, <2>2, StandsSame
<1>7. Apart(t)
  BY <1>1 DEF RoadOK, Apart
<1> QED
  BY <1>3, <1>4, <1>5, <1>6, <1>7 DEF RoadOK

\* The events of a road without one of them.
LEMMA WithoutFacts ==
  ASSUME NEW r \in Seq(Event), NEW t \in Seq(Event), NEW c, Without(t, r, c)
  PROVE  /\ c \in 1..Len(r) /\ Len(r) \in Nat /\ Len(t) = Len(r) - 1
         /\ Len(t) \in Nat /\ c \in Nat
         /\ \A i \in 1..Len(t) : i < c => t[i] = r[i] /\ i \in 1..Len(r)
         /\ \A i \in 1..Len(t) : ~(i < c) => t[i] = r[i + 1]
                                            /\ i + 1 \in 1..Len(r)
<1>1. c \in 1..Len(r) /\ Len(r) \in Nat /\ Len(t) = Len(r) - 1
  BY DEF Without
<1> QED
  BY <1>1 DEF Without

\* Behind a checkpoint a reader stands by the checkpoint, delivered or not.
LEMMA StandsShift ==
  ASSUME NEW r \in Seq(Event), NEW t \in Seq(Event), NEW c, Without(t, r, c),
         NEW m \in CursorSet, NEW d \in CursorSet, m.joff < c,
         ~IsRecord(r[c]), d.acq = r[c].acq, d.ino = r[c].ino,
         d.seen = r[c].seen, d.joff = c - 1,
         NEW n \in c..Len(r), NEW p, Stands(r, m, n, p)
  PROVE  Stands(t, d, n - 1, p)
<1>1. /\ c \in Nat /\ c > 0 /\ n \in Nat /\ n <= Len(r) /\ c <= n
      /\ Len(r) \in Nat /\ Len(t) = Len(r) - 1 /\ m.joff \in Nat
  BY WithoutFacts, CursorFacts
<1>2. ASSUME NEW x \in c..n - 1 PROVE t[x] = r[x + 1]
  <2>1. x \in 1..Len(t) /\ ~(x < c)
    BY <1>1
  <2> QED
    BY <2>1, WithoutFacts
<1>3. ASSUME NEW x \in c - 1..n - 1, RecordsOnly(t, x, n - 1)
      PROVE  RecordsOnly(r, x + 1, n)
  <2> SUFFICES ASSUME NEW j \in (x + 1) + 1..n PROVE IsRecord(r[j])
    BY DEF RecordsOnly
  <2>1. PICK y \in x + 1..n - 1 : j = y + 1
    <3>1. j - 1 \in x + 1..n - 1 /\ j = (j - 1) + 1
      BY <1>1
    <3> QED
      BY <3>1
  <2>2. y \in c..n - 1
    BY <1>1
  <2> QED
    BY <1>2, <1>3, <2>1, <2>2 DEF RecordsOnly
<1>4. ASSUME NEW x \in c..n - 1, ~IsRecord(t[x]), RecordsOnly(t, x, n - 1)
      PROVE  p = Place(t[x].acq, t[x].ino, Len(t[x].seen) + ((n - 1) - x))
  <2>1. x \in c - 1..n - 1 /\ x + 1 \in m.joff + 1..n /\ x \in Nat
    BY <1>1
  <2>2. p = Place(r[x + 1].acq, r[x + 1].ino,
                  Len(r[x + 1].seen) + (n - (x + 1)))
    BY <1>2, <1>3, <1>4, <2>1 DEF Stands
  <2>3. n - (x + 1) = (n - 1) - x
    BY <1>1, <2>1
  <2> QED
    BY <1>2, <2>2, <2>3
<1>5. ASSUME RecordsOnly(t, c - 1, n - 1)
      PROVE  p = Place(d.acq, d.ino, Len(d.seen) + ((n - 1) - d.joff))
  <2>1. c - 1 \in c - 1..n - 1 /\ (c - 1) + 1 = c /\ c \in m.joff + 1..n
    BY <1>1
  <2>2. p = Place(r[c].acq, r[c].ino, Len(r[c].seen) + (n - c))
    BY <1>3, <1>5, <2>1 DEF Stands
  <2>3. (n - 1) - d.joff = n - c
    BY <1>1
  <2> QED
    BY <2>2, <2>3
<1>6. d.joff + 1 = c /\ d.joff = c - 1
  BY <1>1
<1> QED
  BY <1>4, <1>5, <1>6 DEF Stands

\* handle_non_record: a delivered checkpoint becomes the mark.
LEMMA MarkDelivered ==
  ASSUME NEW f, NEW r \in Seq(Event), NEW t \in Seq(Event), NEW c,
         Without(t, r, c), NEW m \in CursorSet, NEW d \in CursorSet,
         m.joff < c, \A i \in 1..c - 1 : IsRecord(r[i]),
         ~IsRecord(r[c]), d.acq = r[c].acq, d.ino = r[c].ino,
         d.seen = r[c].seen, d.joff = c - 1, RoadOK(f, r, m)
  PROVE  /\ RoadOK(f, t, d)
         /\ \A a : ReaderOK(f, r, m, a) => ReaderOK(f, t, d, a)
<1>1. /\ c \in 1..Len(r) /\ Len(r) \in Nat /\ Len(t) = Len(r) - 1
      /\ Len(t) \in Nat /\ c \in Nat /\ c > 0 /\ m.joff \in Nat
      /\ \A i \in 1..Len(t) : i < c => t[i] = r[i] /\ i \in 1..Len(r)
      /\ \A i \in 1..Len(t) : ~(i < c) => t[i] = r[i + 1]
                                         /\ i + 1 \in 1..Len(r)
  BY WithoutFacts, CursorFacts
<1>2. ASSUME NEW k \in c..Len(r), NEW ino, NEW n, PastRoad(f, r, k, ino, n)
      PROVE  PastRoad(f, t, k - 1, ino, n)
  <2> SUFFICES ASSUME NEW j \in 1..k - 1, IsRecord(t[j])
               PROVE  Past(f, t[j].line, ino, n)
    BY DEF PastRoad
  <2>1. j \in 1..Len(t) /\ j \in 1..k /\ j + 1 \in 1..k
    BY <1>1
  <2> QED
    BY <1>1, <1>2, <2>1 DEF PastRoad
<1>3. ASSUME NEW n \in c..Len(r), NEW p, Stands(r, m, n, p)
      PROVE  Stands(t, d, n - 1, p)
  BY <1>3, StandsShift
<1>4. Genuine(f, t)
  BY <1>1 DEF RoadOK, Genuine
<1>5. Trusted(f, t)
  <2> SUFFICES ASSUME NEW i \in 1..Len(t), ~IsRecord(t[i])
               PROVE  /\ Faithful(f, t[i].ino, t[i].seen)
                      /\ PastRoad(f, t, i - 1, t[i].ino, Len(t[i].seen))
    BY DEF Trusted
  <2>1. ~(i < c) /\ t[i] = r[i + 1] /\ i + 1 \in 1..Len(r)
    BY <1>1
  <2>2. (i + 1) - 1 = i /\ i \in c..Len(r)
    BY <1>1, <2>1
  <2>3. /\ Faithful(f, t[i].ino, t[i].seen)
        /\ PastRoad(f, r, i, t[i].ino, Len(t[i].seen))
    BY <2>1, <2>2 DEF RoadOK, Trusted
  <2> QED
    BY <1>2, <2>2, <2>3
<1>6. MarkTrusted(f, t, d)
  <2>1. /\ Faithful(f, d.ino, d.seen)
        /\ PastRoad(f, r, c - 1, d.ino, Len(d.seen))
    BY <1>1 DEF RoadOK, Trusted
  <2>2. c - 1 \in Nat /\ \A i \in 1..c - 1 : r[i] = t[i]
    BY <1>1
  <2> QED
    BY <2>1, <2>2, PastSame DEF MarkTrusted
<1>7. Tracks(t, d)
  <2> SUFFICES ASSUME NEW k \in c..Len(t), IsRecord(t[k])
               PROVE  Stands(t, d, k - 1, Start(t[k]))
    BY <1>1 DEF Tracks
  <2>1. /\ k \in 1..Len(t) /\ ~(k < c) /\ k + 1 \in m.joff + 1..Len(r)
        /\ (k + 1) - 1 = k /\ k \in c..Len(r)
    BY <1>1
  <2>2. t[k] = r[k + 1]
    BY <1>1, <2>1
  <2>3. Stands(r, m, k, Start(t[k]))
    BY <2>1, <2>2 DEF RoadOK, Tracks
  <2> QED
    BY <1>3, <2>1, <2>3
<1>8. Apart(t)
  <2> SUFFICES ASSUME NEW i \in 1..Len(t), NEW j \in 1..Len(t), i < j,
                      IsRecord(t[i]), IsRecord(t[j]), t[j].line[2] = 0
               PROVE  t[i].line # t[j].line
    BY DEF Apart
  <2>1. PICK x \in 1..Len(r) : t[i] = r[x] /\ x = IF i < c THEN i ELSE i + 1
    BY <1>1
  <2>2. PICK y \in 1..Len(r) : t[j] = r[y] /\ y = IF j < c THEN j ELSE j + 1
    BY <1>1
  <2>3. x < y
    BY <1>1, <2>1, <2>2
  <2> QED
    BY <2>1, <2>2, <2>3 DEF RoadOK, Apart
<1>9. RoadOK(f, t, d)
  <2>1. d.joff <= Len(t)
    BY <1>1
  <2> QED
    BY <2>1, <1>4, <1>5, <1>6, <1>7, <1>8 DEF RoadOK
<1>10. ASSUME NEW a, ReaderOK(f, r, m, a) PROVE ReaderOK(f, t, d, a)
  <2>1. Len(r) \in c..Len(r) /\ Len(r) - 1 = Len(t)
    BY <1>1
  <2> QED
    BY <1>2, <1>3, <1>10, <2>1 DEF ReaderOK
<1> QED
  BY <1>9, <1>10

\* recover_file_cursor: the cursor with the rest of the road added is a mark.
LEMMA MarkRecovered ==
  ASSUME NEW f, NEW r \in Seq(Event), NEW m \in CursorSet, NEW d \in CursorSet,
         RoadOK(f, r, m), d.joff = Len(r), d.ino = m.ino,
         Faithful(f, d.ino, d.seen), Len(m.seen) <= Len(d.seen),
         \A j \in m.joff + 1..Len(r) : IsRecord(r[j]) =>
            Past(f, r[j].line, d.ino, Len(d.seen))
  PROVE  RoadOK(f, r, d)
<1>1. /\ Len(r) \in Nat /\ m.joff \in Nat /\ m.joff <= Len(r)
      /\ Len(m.seen) \in Nat /\ Len(d.seen) \in Nat
  BY CursorFacts DEF RoadOK
<1>2. PastRoad(f, r, d.joff, d.ino, Len(d.seen))
  <2> SUFFICES ASSUME NEW j \in 1..Len(r), IsRecord(r[j])
               PROVE  Past(f, r[j].line, d.ino, Len(d.seen))
    BY DEF PastRoad
  <2>1. CASE j <= m.joff
    <3>1. Past(f, r[j].line, m.ino, Len(m.seen))
      BY <1>1, <2>1 DEF RoadOK, MarkTrusted, PastRoad
    <3>2. r[j].line[3] \in Nat
      BY RoadEvents, LineFacts
    <3> QED
      BY <1>1, <3>1, <3>2 DEF Past
  <2>2. CASE ~(j <= m.joff)
    BY <1>1, <2>2
  <2> QED
    BY <2>1, <2>2
<1>3. Tracks(r, d)
  BY <1>1 DEF Tracks
<1> QED
  BY <1>1, <1>2, <1>3 DEF RoadOK, MarkTrusted

-----------------------------------------------------------------------------
(* The steps of the capture on the road                                    *)

\* The road, and the reader at its end while there is one.
Good(f, r, m, a) ==
    RoadOK(f, r, m) /\ (a.phase \in Following => ReaderOK(f, r, m, a))

\* The types of the road and of what it is made of.
LEMMA RoadTypes ==
  ASSUME WriterInv, Covered
  PROVE  /\ JournalInv /\ Types /\ Quiet /\ FileTypes /\ AcqTypes /\ FrameTypes
         /\ files \in Seq(Sizes) /\ Path = Len(files) /\ Path \in Nat
         /\ queue \in Seq(Event) /\ batch \in Seq(Entry)
         /\ cursor \in CursorSet /\ pending \in CursorSet /\ Mark \in CursorSet
         /\ Frames \in Seq(Record) /\ Carries(Frames)
         /\ Road \in Seq(Event) /\ Len(Road) \in Nat
         /\ file \in Seq(Record) /\ buffer \in Seq(Record)
         /\ Len(file) \in Nat /\ Len(Frames) \in Nat /\ Len(file) <= Len(Frames)
         /\ Mark.joff \in Nat /\ Mark.joff <= Len(Frames)
         /\ cursor.joff \in Nat /\ cursor.joff <= Len(file)
<1>1. /\ JournalInv /\ Types /\ Quiet /\ FileTypes /\ AcqTypes /\ FrameTypes
      /\ WriterTypes
  BY DEF WriterInv, Types
<1>2. /\ queue \in Seq(Event) /\ batch \in Seq(Entry)
      /\ cursor \in CursorSet /\ pending \in CursorSet /\ Mark \in CursorSet
      /\ file \in Seq(Record) /\ buffer \in Seq(Record) /\ Carries(Frames)
      /\ files \in Seq(Sizes) /\ Path = Len(files) /\ Path \in Nat
  BY <1>1 DEF WriterTypes, FrameTypes, FileTypes, Mark, Path
<1>3. /\ Frames \in Seq(Record) /\ Len(file) \in Nat /\ Len(Frames) \in Nat
      /\ Len(file) <= Len(Frames)
  BY <1>2, FrameFacts
<1>4. Road \in Seq(Event) /\ Len(Road) \in Nat
  BY <1>2, <1>3, RoadIndex DEF Road
<1>5. /\ cursor.joff \in Nat /\ pending.joff \in Nat
      /\ cursor.joff <= Len(file) /\ pending.joff <= Len(file)
  BY <1>2, CursorFacts DEF Covered, Covers
<1>6. Mark.joff \in Nat /\ Mark.joff <= Len(Frames)
  BY <1>3, <1>5 DEF Mark
<1> QED
  BY <1>1, <1>2, <1>3, <1>4, <1>5, <1>6

\* The steps that a behaviour without troubles can take.
LEMMA NoFailures ==
  ASSUME Placed, [Next]_vars
  PROVE  ~FailureStep /\ ~StorageBlocked /\ ~DropWriter
  BY DEF Placed, FailureStep, WriterIoError, CursorIoError, KillProcess,
         LosePower, StorageBlocked, OverLimit, DropWriter

\* The steps at the end of the road, and at its mark.
AtEnd == TaskStep \/ StopCapture \/ AbortCapture \/ BeginCapture
AtMark == RecoverCursor \/ TakeCheckpoint

\* append_records and append leave the road as it is.
LEMMA RoadStays ==
  ASSUME WriterInv, Covered, Placed, [Next]_vars, ~AtEnd, ~TakeCheckpoint
  PROVE  Road' = Road
<1>1. /\ JournalInv /\ Quiet /\ queue \in Seq(Event) /\ batch \in Seq(Entry)
      /\ Frames \in Seq(Record) /\ Carries(Frames)
      /\ file \in Seq(Record) /\ buffer \in Seq(Record)
  BY RoadTypes
<1>2. ~FailureStep /\ ~StorageBlocked /\ ~DropWriter
  BY NoFailures
<1>3. ASSUME Frames' = Frames, UNCHANGED <<batch, queue>> PROVE Road' = Road
  BY <1>3 DEF Road
<1>4. CASE RefuseStart \/ StoreLastCursor
  <2>1. buffer = <<>> /\ Frames' = file /\ Frames = file
    BY <1>1, <1>4, Dropped, FrameFacts
       DEF RefuseStart, StoreLastCursor, Quiet, Close
  <2> QED
    BY <1>3, <1>4, <2>1 DEF RefuseStart, StoreLastCursor, taskVars
<1>5. CASE AppendOne
  <2>1. /\ batch # <<>> /\ batch' = Tail(batch) /\ queue' = queue
        /\ Frames' = Append(Frames, New(Head(batch)))
        /\ New(Head(batch)) \in Record
    BY <1>1, <1>5, BatchFacts, Added DEF AppendOne, taskVars
  <2>2. New(Head(batch)).body = Head(batch)
    BY DEF New
  <2> QED
    BY <1>1, <2>1, <2>2, RoadAppended DEF Road
<1>6. CASE TakeRecords
  <2>1. PICK n \in 1..Len(queue) :
           /\ \A i \in 1..n : IsRecord(queue[i])
           /\ batch' = [i \in 1..n |-> Recorded(queue[i])]
           /\ queue' = SubSeq(queue, n + 1, Len(queue))
    BY <1>6 DEF TakeRecords, Recorded
  <2>2. /\ batch' \in Seq(Entry) /\ Len(batch') = n
        /\ queue' \in Seq(Event) /\ Len(queue') = Len(queue) - n
        /\ \A k \in 1..Len(queue) - n : queue'[k] = queue[n + k]
    BY <1>1, <2>1, RecordsTaken
  <2>3. batch = <<>> /\ Frames' = Frames
    BY <1>1, <1>6 DEF TakeRecords, Quiet, Frames, journalVars
  <2>4. PICK y \in Seq(Event) : y = BatchEvents(batch')
    BY <2>2, BatchEventsTyped
  <2>5. ASSUME NEW i \in 1..n PROVE y[i] = queue[i]
    <3>1. queue[i] \in RecordEvents
      BY <1>1, <2>1, EventTypes
    <3>2. AsEvent(Recorded(queue[i])) = queue[i]
      BY <3>1 DEF RecordEvents, AsEvent, Recorded
    <3>3. y[i] = AsEvent(batch'[i]) /\ batch'[i] = Recorded(queue[i])
      BY <2>1, <2>2, <2>4, BatchEventsTyped
    <3> QED
      BY <3>2, <3>3
  <2>6. queue = y \o queue'
    <3>1. Len(y) = n
      BY <2>2, <2>4, BatchEventsTyped
    <3>2. /\ Len(queue) = Len(y) + Len(queue')
          /\ \A i \in 1..Len(y) : queue[i] = y[i]
          /\ \A k \in 1..Len(queue') : queue[Len(y) + k] = queue'[k]
      BY <1>1, <2>2, <2>5, <3>1
    <3> QED
      BY <1>1, <2>2, <3>2, Joined
  <2>7. RoadOf(Frames, batch', queue') = RoadOf(Frames, <<>>, queue)
    <3>1. PICK d \in Seq(Entry) : d = batch'
      BY <2>2
    <3>2. PICK p \in Seq(Event) : p = queue'
      BY <2>2
    <3>3. queue = BatchEvents(d) \o p
      BY <2>4, <2>6, <3>1, <3>2
    <3>4. Frames \in Seq(Record) /\ Carries(Frames)
      BY <1>1
    <3>5. RoadOf(Frames, d, p) = RoadOf(Frames, <<>>, BatchEvents(d) \o p)
      BY <3>4, RoadTaken
    <3> QED
      BY <3>1, <3>2, <3>3, <3>5
  <2> QED
    BY <2>3, <2>7 DEF Road
<1>7. CASE ~AppendOne /\ ~RefuseStart /\ ~StoreLastCursor /\ ~TakeRecords
  <2>1. Frames' = Frames
    BY <1>1, <1>2, <1>7, FramesKept DEF Drops, FailureStep
  <2>2. queue' = queue
    BY <1>2, <1>7 DEF AtEnd, Next, SourceStep, SourceGrows, SourceRotates,
       SourceTruncated, WriterStep, RecoverCursor, TakeFinish, CommitDeadline,
       FlushBatch, CommitJournal, StoreCursor, UserStep, StartWriter, vars,
       taskVars
  <2>3. batch' = batch
    BY <1>1, <1>2, <1>7 DEF AtEnd, Next, SourceStep, SourceGrows,
       SourceRotates, SourceTruncated, WriterStep, RecoverCursor, TakeFinish,
       CommitDeadline, FlushBatch, CommitJournal, StoreCursor, UserStep,
       StartWriter, vars, writerVars, Quiet
  <2> QED
    BY <1>3, <2>1, <2>2, <2>3
<1> QED
  BY <1>4, <1>5, <1>6, <1>7

\* A commit stores the mark; it is changed by recovery and by a checkpoint.
LEMMA MarkStays ==
  ASSUME Placed, [Next]_vars, ~AtMark
  PROVE  Mark' = Mark
<1>1. ~FailureStep /\ ~StorageBlocked /\ ~DropWriter
  BY NoFailures
<1>2. CASE StoreCursor \/ StoreLastCursor
  BY <1>2 DEF StoreCursor, StoreLastCursor, Mark
<1>3. CASE StartWriter
  BY <1>3 DEF StartWriter, Placed, Mark
<1>4. CASE ~StoreCursor /\ ~StoreLastCursor /\ ~StartWriter
  <2>1. UNCHANGED <<cursor, pending>>
    BY <1>1, <1>4 DEF AtMark, Next, SourceStep, SourceGrows, SourceRotates,
       SourceTruncated, TaskStep, Read, Acknowledge, FollowChanged, FollowAnew,
       WriterStep, RefuseStart, BeginCapture, TakeRecords, AppendOne,
       FlushBatch, TakeFinish, CommitJournal, CommitDeadline, UserStep,
       StopCapture, AbortCapture, vars, writerVars
  <2> QED
    BY <2>1 DEF Mark
<1> QED
  BY <1>2, <1>3, <1>4

\* A sent event joins the road.
LEMMA RoadJoined ==
  ASSUME WriterInv, Covered, NEW e \in Event, queue' = Append(queue, e),
         UNCHANGED <<file, buffer, batch>>
  PROVE  Road' \in Seq(Event) /\ Longer(Road', Road, e)
<1>1. /\ queue \in Seq(Event) /\ batch \in Seq(Entry)
      /\ Frames \in Seq(Record) /\ Carries(Frames) /\ Road \in Seq(Event)
  BY RoadTypes
<1>2. Road' = Append(Road, e)
  <2>1. Frames' = Frames
    BY DEF Frames
  <2> QED
    BY <1>1, <2>1, RoadSent DEF Road
<1> QED
  BY <1>1, <1>2, AppendIndex DEF Longer

\* A FileState that begins past the road.
LEMMA BeginGood ==
  ASSUME WriterInv, Covered, RoadOK(files, Road, Mark),
         NEW ino \in 1..Path, NEW seen \in Seq(Lines), BeginAt(ino, seen),
         UNCHANGED <<file, buffer, batch>>, Faithful(files, ino, seen),
         PastRoad(files, Road, Len(Road), ino, Len(seen))
  PROVE  Good(files, Road', Mark, acq')
<1>1. /\ FileTypes /\ AcqTypes /\ queue \in Seq(Event) /\ files \in Seq(Sizes)
      /\ Mark \in CursorSet /\ Road \in Seq(Event)
  BY RoadTypes
<1>2. PICK e : e = CheckpointEvent(acq')
  OBVIOUS
<1>3. /\ e \in Checkpoints /\ queue' = Append(queue, e)
      /\ acq'.ino = ino /\ acq'.seen = seen
  BY <1>1, <1>2, BeginTyped
<1>4. /\ e \in Event /\ ~IsRecord(e)
      /\ acq'.id = e.acq /\ acq'.ino = e.ino /\ acq'.seen = e.seen
      /\ e.ino = ino /\ e.seen = seen
  BY <1>2, <1>3 DEF Event, Checkpoints, IsRecord, CheckpointEvent
<1>5. Road' \in Seq(Event) /\ Longer(Road', Road, e)
  BY <1>3, <1>4, RoadJoined
<1>6. RoadOK(files, Road', Mark) /\ ReaderOK(files, Road', Mark, acq')
  BY <1>1, <1>4, <1>5, CheckpointSent
<1> QED
  BY <1>6 DEF Good

\* A FileState that has read nothing is faithful.
LEMMA NothingRead ==
  ASSUME FileTypes, NEW ino \in 1..Path
  PROVE  Faithful(files, ino, <<>>) /\ <<>> \in Seq(Lines) /\ Len(<<>>) = 0
<1>1. files[ino].len \in Nat /\ Path = Len(files) /\ Path \in Nat
  BY FileFacts, SizeFacts
<1> QED
  BY <1>1 DEF Faithful

\* The acquisition task: what it sends is all right where the road ends.
LEMMA TaskGood ==
  ASSUME WriterInv, Covered, Placed, Good(files, Road, Mark, acq), TaskStep
  PROVE  Good(files, Road', Mark, acq')
<1>1. /\ FileTypes /\ AcqTypes /\ queue \in Seq(Event) /\ files \in Seq(Sizes)
      /\ Mark \in CursorSet /\ Road \in Seq(Event) /\ Path = Len(files)
      /\ Path \in Nat
  BY RoadTypes
<1>2. /\ acq.phase \in Following /\ RoadOK(files, Road, Mark)
      /\ ReaderOK(files, Road, Mark, acq)
      /\ acq.ino \in 1..Path /\ acq.seen \in Seq(Lines) /\ Len(acq.seen) \in Nat
      /\ acq \in Tasks
  <2>1. acq.phase \in Following
    BY DEF TaskStep, Read, Acknowledge, FollowChanged, FollowAnew, Following
  <2> QED
    BY <1>1, <2>1, TaskFacts DEF Good, Following
<1>3. UNCHANGED <<file, buffer, batch>>
  BY DEF TaskStep, Read, Acknowledge, FollowChanged, FollowAnew, journalVars,
         writerVars
<1>4. CASE Read
  <2> DEFINE line == <<acq.ino, files[acq.ino].epoch, Len(acq.seen) + 1>>
  <2>1. /\ line \in Lines /\ acq'.seen = Append(acq.seen, line)
        /\ RecordEvent(line) \in RecordEvents /\ RecordEvent(line).line = line
        /\ queue' = Append(queue, RecordEvent(line))
        /\ acq' = [acq EXCEPT !.seen = Append(@, line)]
    BY <1>1, <1>4, ReadLine
  <2>2. acq'.id = acq.id /\ acq'.ino = acq.ino
    BY <1>2, <2>1 DEF Tasks
  <2>3. Len(acq.seen) < files[acq.ino].len
    BY <1>4 DEF Read
  <2>4. PICK e \in RecordEvents : e = RecordEvent(line)
    BY <2>1
  <2>5. e \in Event /\ IsRecord(e) /\ e.acq = acq.id /\ e.line = line
    BY <2>1, <2>4 DEF Event, RecordEvents, IsRecord, RecordEvent
  <2>6. Road' \in Seq(Event) /\ Longer(Road', Road, e)
    BY <1>3, <2>1, <2>4, <2>5, RoadJoined
  <2>7. /\ e.line = <<acq.ino, files[acq.ino].epoch, Len(acq.seen) + 1>>
        /\ e.line \in Lines /\ acq'.seen = Append(acq.seen, e.line)
        /\ acq.ino \in 1..Len(files)
    BY <1>1, <1>2, <2>1, <2>5
  <2> HIDE DEF line
  <2>8. RoadOK(files, Road', Mark) /\ ReaderOK(files, Road', Mark, acq')
    BY <1>1, <1>2, <2>2, <2>3, <2>5, <2>6, <2>7, RecordSent
  <2> QED
    BY <2>8 DEF Good
<1>5. CASE Acknowledge
  <2>1. /\ acq'.id = acq.id /\ acq'.ino = acq.ino /\ acq'.seen = acq.seen
        /\ queue' = Append(queue, CheckpointEvent(acq))
    <3>1. acq' = [acq EXCEPT !.ckpt = Len(acq.seen)]
      BY <1>5 DEF Acknowledge
    <3> QED
      BY <1>2, <1>5, <3>1 DEF Acknowledge, Send, Tasks
  <2>2. PICK e \in Checkpoints : e = CheckpointEvent(acq)
    BY <1>1, <1>2, CheckpointTyped DEF Following
  <2>3. /\ e \in Event /\ ~IsRecord(e)
        /\ e.acq = acq.id /\ e.ino = acq.ino /\ e.seen = acq.seen
    BY <2>2 DEF Event, Checkpoints, IsRecord, CheckpointEvent
  <2>4. Road' \in Seq(Event) /\ Longer(Road', Road, e)
    BY <1>3, <2>1, <2>2, <2>3, RoadJoined
  <2>5. /\ Faithful(files, e.ino, e.seen)
        /\ PastRoad(files, Road, Len(Road), e.ino, Len(e.seen))
    BY <1>2, <2>3 DEF ReaderOK
  <2>6. acq'.id = e.acq /\ acq'.ino = e.ino /\ acq'.seen = e.seen
    BY <2>1, <2>3
  <2>7. RoadOK(files, Road', Mark) /\ ReaderOK(files, Road', Mark, acq')
    BY <1>1, <1>2, <2>3, <2>4, <2>5, <2>6, CheckpointSent
  <2> QED
    BY <2>7 DEF Good
<1>6. CASE FollowChanged
  <2>1. /\ acq'.id = acq.id /\ acq'.ino = acq.ino /\ acq'.seen = acq.seen
        /\ queue' = queue
    BY <1>2, <1>6 DEF FollowChanged, Tasks
  <2>2. Road' = Road
    BY <1>3, <2>1 DEF Road, Frames
  <2> QED
    BY <1>2, <2>1, <2>2 DEF Good, ReaderOK
<1>7. CASE FollowAnew
  <2>1. PICK ino \in 1..Path :
           /\ BeginAt(ino, <<>>)
           /\ \/ acq.ino < ino
              \/ acq.ino = ino /\ files[ino].epoch > 0
    <3>1. CASE acq.phase = "rotating"
      BY <1>1, <1>7, <3>1, FileFacts DEF FollowAnew, Placed
    <3>2. CASE acq.phase = "truncating"
      BY <1>2, <1>7, <3>2 DEF FollowAnew, Placed
    <3> QED
      BY <1>7, <3>1, <3>2 DEF FollowAnew
  <2>2. Faithful(files, ino, <<>>) /\ <<>> \in Seq(Lines) /\ Len(<<>>) = 0
    BY <1>1, NothingRead
  <2>3. PastRoad(files, Road, Len(Road), ino, 0)
    <3> SUFFICES ASSUME NEW j \in 1..Len(Road), IsRecord(Road[j])
                 PROVE  Past(files, Road[j].line, ino, 0)
      BY DEF PastRoad
    <3>1. Past(files, Road[j].line, acq.ino, Len(acq.seen))
      BY <1>2 DEF ReaderOK, PastRoad
    <3>2. Road[j].line[1] \in Nat /\ acq.ino \in Nat /\ ino \in Nat
          /\ files[ino].epoch \in Nat
      BY <1>1, <1>2, RoadEvents, LineFacts, SizeFacts
    <3> QED
      BY <2>1, <3>1, <3>2 DEF Past
  <2> QED
    BY <1>2, <1>3, <2>1, <2>2, <2>3, BeginGood
<1> QED
  BY <1>4, <1>5, <1>6, <1>7 DEF TaskStep

\* A stop keeps the road, an abort cuts it off behind the frames.
LEMMA StopGood ==
  ASSUME WriterInv, Covered, Good(files, Road, Mark, acq),
         StopCapture \/ AbortCapture
  PROVE  Good(files, Road', Mark, acq')
<1>1. /\ AcqTypes /\ queue \in Seq(Event) /\ batch \in Seq(Entry)
      /\ Mark \in CursorSet /\ Road \in Seq(Event) /\ Frames \in Seq(Record)
      /\ Carries(Frames) /\ Len(Frames) \in Nat
      /\ Mark.joff \in Nat /\ Mark.joff <= Len(Frames)
  BY RoadTypes
<1>2. acq'.phase \notin Following
  <2>1. acq' = [acq EXCEPT !.phase = "stopped"] /\ acq \in Tasks
    BY <1>1, TaskFacts DEF StopCapture, AbortCapture
  <2> QED
    BY <2>1 DEF Tasks, Following
<1>3. Frames' = Frames /\ batch' = batch
  BY DEF StopCapture, AbortCapture, Frames, journalVars, writerVars
<1>4. CASE StopCapture
  <2>1. Road' = Road
    BY <1>3, <1>4 DEF StopCapture, Road
  <2> QED
    BY <1>2, <2>1 DEF Good
<1>5. CASE AbortCapture
  <2>1. PICK n \in 0..Len(queue) : queue' = SubSeq(queue, 1, n)
    BY <1>5 DEF AbortCapture
  <2>2. /\ Road' = RoadOf(Frames, batch, SubSeq(queue, 1, n))
        /\ Road = RoadOf(Frames, batch, queue)
    BY <1>3, <2>1 DEF Road
  <2>3. /\ Road' \in Seq(Event) /\ Len(Road') >= Len(Frames)
        /\ Starts(Road', Road)
    BY <1>1, <2>2, RoadCut
  <2>4. Mark.joff <= Len(Road')
    BY <1>1, <2>3
  <2>5. RoadOK(files, Road', Mark)
    BY <1>1, <2>3, <2>4, RoadShorter DEF Good
  <2> QED
    BY <1>2, <2>5 DEF Good
<1> QED
  BY <1>4, <1>5

\* handle_non_record: the checkpoint becomes the mark.
LEMMA DeliveredGood ==
  ASSUME WriterInv, Covered, Good(files, Road, Mark, acq), TakeCheckpoint
  PROVE  Good(files, Road', Mark', acq')
<1>1. /\ Quiet /\ FrameTypes /\ queue \in Seq(Event)
      /\ Mark \in CursorSet /\ Road \in Seq(Event) /\ Frames \in Seq(Record)
      /\ Carries(Frames) /\ Len(Frames) \in Nat
      /\ file \in Seq(Record) /\ buffer \in Seq(Record)
      /\ Mark.joff \in Nat /\ Mark.joff <= Len(Frames)
  BY RoadTypes
<1>2. /\ queue # <<>> /\ ~IsRecord(queue[1]) /\ queue' = Tail(queue)
      /\ pending' = Delivered(queue[1]) /\ pending' \in CursorSet
      /\ pending'.joff = Len(file) + Len(buffer)
      /\ queue[1] \in Event
  BY <1>1, CheckpointTaken
<1>3. /\ batch = <<>> /\ batch' = <<>> /\ Frames' = Frames /\ acq' = acq
      /\ Len(Frames) = Len(file) + Len(buffer)
  BY <1>1, FrameFacts DEF TakeCheckpoint, Quiet, Frames, journalVars
<1>4. /\ Road = RoadOf(Frames, <<>>, queue)
      /\ Road' = RoadOf(Frames, <<>>, Tail(queue))
  BY <1>2, <1>3 DEF Road
<1> DEFINE c == Len(Frames) + 1
<1>5. /\ Road' \in Seq(Event) /\ Without(Road', Road, c)
      /\ Road[c] = queue[1]
      /\ \A i \in 1..Len(Frames) : IsRecord(Road[i])
  BY <1>1, <1>2, <1>4, RoadDelivered
<1>6. pending'.acq = queue[1].acq /\ pending'.ino = queue[1].ino
      /\ pending'.seen = queue[1].seen
  BY <1>2 DEF Delivered
<1>7. pending' # NoCursor
  <2>1. queue[1] \in Checkpoints
    BY <1>2 DEF Event, RecordEvents, IsRecord
  <2>2. queue[1].acq \in 1..MaxOpens
    BY <2>1 DEF Checkpoints
  <2> QED
    BY <1>6, <2>2, NoCursorTyped
<1>8. Mark' = pending'
  BY <1>7 DEF Mark
<1>9. PICK m \in CursorSet : m = Mark
  BY <1>1
<1>10. PICK d \in CursorSet : d = pending'
  BY <1>2
<1>11. /\ m.joff < c /\ d.joff = c - 1 /\ c - 1 = Len(Frames)
       /\ ~IsRecord(Road[c]) /\ d.acq = Road[c].acq /\ d.ino = Road[c].ino
       /\ d.seen = Road[c].seen
  BY <1>1, <1>2, <1>3, <1>5, <1>6, <1>9, <1>10
<1>12. RoadOK(files, Road, m)
  BY <1>9 DEF Good
<1>13. /\ RoadOK(files, Road', d)
       /\ \A a : ReaderOK(files, Road, m, a) => ReaderOK(files, Road', d, a)
  <2>1. \A i \in 1..c - 1 : IsRecord(Road[i])
    BY <1>5, <1>11
  <2> HIDE DEF c
  <2> QED
    BY <1>1, <1>5, <1>11, <1>12, <2>1, MarkDelivered
<1> QED
  BY <1>3, <1>8, <1>9, <1>10, <1>13 DEF Good

-----------------------------------------------------------------------------
(* Starting: recovery, and where capture begins                            *)

\* A prefix, element by element.
LEMMA PrefixIndex ==
  ASSUME NEW S, NEW s \in Seq(S), NEW t \in Seq(S)
  PROVE  IsPrefix(s, t) <=>
            Len(s) <= Len(t) /\ \A i \in 1..Len(s) : s[i] = t[i]
<1>1. /\ Len(s) \in Nat /\ Len(t) \in Nat /\ SubSeq(s, 1, Len(s)) \in Seq(S)
      /\ Len(SubSeq(s, 1, Len(s))) = Len(s)
      /\ \A i \in 1..Len(s) : SubSeq(s, 1, Len(s))[i] = s[i]
  OBVIOUS
<1>2. ASSUME Len(s) <= Len(t)
      PROVE  /\ SubSeq(t, 1, Len(s)) \in Seq(S)
             /\ Len(SubSeq(t, 1, Len(s))) = Len(s)
             /\ \A i \in 1..Len(s) : SubSeq(t, 1, Len(s))[i] = t[i]
  BY <1>1, <1>2
<1>3. ASSUME Len(s) <= Len(t), \A i \in 1..Len(s) : s[i] = t[i]
      PROVE  SubSeq(s, 1, Len(s)) = SubSeq(t, 1, Len(s))
  BY <1>1, <1>2, <1>3, Alike
<1>4. ASSUME Len(s) <= Len(t), SubSeq(s, 1, Len(s)) = SubSeq(t, 1, Len(s)),
             NEW i \in 1..Len(s)
      PROVE  s[i] = t[i]
  <2>1. SubSeq(s, 1, Len(s))[i] = SubSeq(t, 1, Len(s))[i]
    BY <1>4
  <2> QED
    BY <1>1, <1>2, <1>4, <2>1
<1> QED
  BY <1>3, <1>4 DEF IsPrefix

\* What the file at the path begins with.
LEMMA PathBegins ==
  ASSUME FileTypes, NEW seen \in Seq(Lines)
  PROVE  /\ Path \in 1..Path /\ Path \in Nat /\ files[Path].len \in Nat
         /\ IsPrefix(seen, Content(Path)) <=>
              /\ Len(seen) <= files[Path].len
              /\ \A k \in 1..Len(seen) :
                    seen[k] = <<Path, files[Path].epoch, k>>
<1>1. Path \in 1..Path /\ Path \in Nat
  BY FileFacts
<1>2. /\ Content(Path) \in Seq(Lines)
      /\ Len(Content(Path)) = files[Path].len /\ files[Path].len \in Nat
      /\ \A i \in 1..files[Path].len :
            Content(Path)[i] = <<Path, files[Path].epoch, i>>
  BY <1>1, ContentTyped
<1>3. IsPrefix(seen, Content(Path)) <=>
        /\ Len(seen) <= files[Path].len
        /\ \A i \in 1..Len(seen) : seen[i] = Content(Path)[i]
  BY <1>2, PrefixIndex
<1>4. ASSUME Len(seen) <= files[Path].len, NEW k \in 1..Len(seen)
      PROVE  Content(Path)[k] = <<Path, files[Path].epoch, k>>
  BY <1>2, <1>4
<1> QED
  BY <1>1, <1>2, <1>3, <1>4

\* Of a file that was never cut short, what was got is still what it begins
\* with.
LEMMA FaithfulMatches ==
  ASSUME FileTypes, NEW seen \in Seq(Lines)
  PROVE  /\ Faithful(files, Path, seen) /\ files[Path].epoch = 0
               => IsPrefix(seen, Content(Path))
         /\ IsPrefix(seen, Content(Path)) => Faithful(files, Path, seen)
<1>1. /\ Path \in 1..Path /\ Path \in Nat /\ Path = Len(files)
      /\ IsPrefix(seen, Content(Path)) <=>
              /\ Len(seen) <= files[Path].len
              /\ \A k \in 1..Len(seen) :
                    seen[k] = <<Path, files[Path].epoch, k>>
  BY PathBegins, FileFacts
<1> QED
  BY <1>1 DEF Faithful

\* Between two captures the road is the file, and its mark the cursor.
LEMMA StillRoad ==
  ASSUME WriterInv, Covered, Placed, wpc \in {"down", "recover", "opening"}
  PROVE  /\ Mark = cursor /\ Frames = file /\ Len(Road) = Len(file)
         /\ \A i \in 1..Len(file) : /\ IsRecord(Road[i])
                                    /\ Road[i].line = file[i].body.line
                                    /\ Road[i].acq = file[i].body.acq
<1>1. /\ pending = NoCursor /\ queue = <<>> /\ buffer = <<>> /\ batch = <<>>
      /\ file \in Seq(Record) /\ buffer \in Seq(Record)
      /\ Frames \in Seq(Record) /\ Carries(Frames)
      /\ batch \in Seq(Entry) /\ queue \in Seq(Event)
  BY RoadTypes DEF Placed, Quiet
<1>2. Mark = cursor /\ Frames = file /\ Len(batch) = 0 /\ Len(queue) = 0
  BY <1>1, FrameFacts DEF Mark
<1>4. /\ Len(Road) = Len(Frames) + Len(batch) + Len(queue)
      /\ Len(Frames) \in Nat
      /\ \A i \in 1..Len(Frames) : Road[i] = AsEvent(Frames[i].body)
  <2>1. /\ Frames \in Seq(Record) /\ Carries(Frames)
        /\ batch \in Seq(Entry) /\ queue \in Seq(Event)
    BY <1>1
  <2> QED
    BY <2>1, RoadIndex DEF Road
<1>5. \A i \in 1..Len(Frames) : Frames[i].body \in Entry
  BY <1>1 DEF Carries
<1> QED
  BY <1>2, <1>4, <1>5, Entered

\* The frames behind the cursor go on where it stands.
LEMMA TailStands ==
  ASSUME WriterInv, Covered, Placed, wpc \in {"down", "recover", "opening"},
         Tracks(Road, Mark), NEW k \in cursor.joff + 1..Len(file)
  PROVE  /\ file[k].body.acq = cursor.acq /\ file[k].body.line \in Lines
         /\ file[k].body.line[1] = cursor.ino
         /\ file[k].body.line[3] = Len(cursor.seen) + (k - cursor.joff)
<1>1. /\ Mark = cursor /\ Len(Road) = Len(file)
      /\ \A i \in 1..Len(file) : /\ IsRecord(Road[i])
                                 /\ Road[i].line = file[i].body.line
                                 /\ Road[i].acq = file[i].body.acq
  BY StillRoad
<1>2. /\ Road \in Seq(Event) /\ Len(file) \in Nat /\ cursor.joff \in Nat
      /\ cursor \in CursorSet
  BY RoadTypes
<1>3. Len(cursor.seen) \in Nat
  BY <1>2, CursorFacts
<1>4. k \in 1..Len(file) /\ k \in Nat
  BY <1>2
<1>5. Stands(Road, cursor, k - 1, Start(Road[k]))
  BY <1>1, <1>4 DEF Tracks
<1>6. RecordsOnly(Road, cursor.joff, k - 1)
  BY <1>1, <1>2, <1>4 DEF RecordsOnly
<1>7. Start(Road[k]) = Place(cursor.acq, cursor.ino,
                             Len(cursor.seen) + ((k - 1) - cursor.joff))
  BY <1>5, <1>6 DEF Stands
<1>8. /\ Road[k].acq = cursor.acq /\ Road[k].line[1] = cursor.ino
      /\ Road[k].line[3] - 1 = Len(cursor.seen) + ((k - 1) - cursor.joff)
  BY <1>7, PlaceFacts DEF Start
<1>9. Road[k].line \in Lines /\ Road[k].line[3] \in Nat
  BY <1>1, <1>2, <1>4, RoadEvents, LineFacts
<1>10. /\ Road[k].line = file[k].body.line
       /\ Road[k].acq = file[k].body.acq
  BY <1>1, <1>4
<1>11. Road[k].line[3] = Len(cursor.seen) + (k - cursor.joff)
  <2>1. PICK x \in Nat : x = Road[k].line[3]
    BY <1>9
  <2>2. PICK a \in Nat : a = Len(cursor.seen)
    BY <1>3
  <2>3. PICK b \in Nat : b = cursor.joff
    BY <1>2
  <2>4. x - 1 = a + ((k - 1) - b)
    BY <1>8, <2>1, <2>2, <2>3
  <2>5. x = a + (k - b)
    BY <1>4, <2>4
  <2> QED
    BY <2>1, <2>2, <2>3, <2>5
<1> QED
  BY <1>8, <1>9, <1>10, <1>11

\* A record of a file at the path that was never cut short: the cursor stands
\* in that file, and the file still begins with what the cursor vouches for.
LEMMA PathMatches ==
  ASSUME WriterInv, Covered, Placed, wpc \in {"down", "recover", "opening"},
         RoadOK(files, Road, Mark), files[Path].epoch = 0,
         NEW j \in 1..Len(file), file[j].body.line[1] = Path,
         file[j].body.line[2] = 0
  PROVE  cursor.ino = Path /\ cursor # NoCursor /\ SourceMatches(cursor)
<1>1. /\ Mark = cursor /\ Len(Road) = Len(file)
      /\ IsRecord(Road[j]) /\ Road[j].line = file[j].body.line
  BY StillRoad
<1>2. /\ FileTypes /\ Len(file) \in Nat /\ cursor.joff \in Nat
      /\ cursor \in CursorSet /\ Path = Len(files)
  BY RoadTypes
<1>3. /\ Faithful(files, cursor.ino, cursor.seen)
      /\ PastRoad(files, Road, cursor.joff, cursor.ino, Len(cursor.seen))
      /\ Tracks(Road, Mark)
  BY <1>1 DEF RoadOK, MarkTrusted
<1>4. cursor.ino \in 0..Path /\ Path \in Nat /\ Path > 0
  BY <1>2, <1>3, FileFacts DEF Faithful
<1>5. cursor.ino = Path
  <2>1. CASE j <= cursor.joff
    <3>1. j \in 1..cursor.joff
      BY <1>2, <2>1
    <3>2. Past(files, Road[j].line, cursor.ino, Len(cursor.seen))
      BY <1>1, <1>3, <3>1 DEF PastRoad
    <3> QED
      BY <1>1, <1>4, <3>2 DEF Past
  <2>2. CASE ~(j <= cursor.joff)
    <3>1. j \in cursor.joff + 1..Len(file)
      BY <1>2, <2>2
    <3> QED
      BY <1>3, <3>1, TailStands
  <2> QED
    BY <2>1, <2>2
<1>6. cursor.seen \in Seq(Lines)
  BY <1>2, CursorFacts
<1>7. IsPrefix(cursor.seen, Content(Path))
  BY <1>2, <1>3, <1>5, <1>6, FaithfulMatches
<1> QED
  BY <1>4, <1>5, <1>7, NoCursorTyped DEF SourceMatches

\* open_file_state: capture begins past everything in the journal.
LEMMA ResumeGood ==
  ASSUME WriterInv, Covered, Placed, Resumes, RoadOK(files, Road, Mark),
         BeginCapture
  PROVE  Good(files, Road', Mark, acq')
<1>1. /\ FileTypes /\ Len(file) \in Nat /\ cursor.joff \in Nat
      /\ cursor \in CursorSet /\ Path = Len(files) /\ Path \in Nat
      /\ Road \in Seq(Event) /\ files \in Seq(Sizes)
  BY RoadTypes
<1>2. /\ wpc = "opening" /\ Mark = cursor /\ Len(Road) = Len(file)
      /\ \A i \in 1..Len(file) : /\ IsRecord(Road[i])
                                 /\ Road[i].line = file[i].body.line
  BY StillRoad DEF BeginCapture
<1>3. /\ Genuine(files, Road)
      /\ PastRoad(files, Road, cursor.joff, cursor.ino, Len(cursor.seen))
  BY <1>2 DEF RoadOK, MarkTrusted
<1>4. UNCHANGED <<file, buffer, batch>> /\ Path \in 1..Path
  BY <1>1, FileFacts DEF BeginCapture, journalVars
<1>6. ASSUME NEW j \in 1..Len(file)
      PROVE  /\ file[j].body.line[1] \in 1..Path
             /\ file[j].body.line[1] = Path /\ files[Path].epoch = 0
                  => file[j].body.line[2] = 0
  <2>1. Real(files, file[j].body.line) /\ file[j].body.line \in Lines
    BY <1>1, <1>2, <1>3, RoadEvents DEF Genuine
  <2>2. PICK l \in Lines : l = file[j].body.line
    BY <2>1
  <2>3. l[2] \in Nat /\ l[1] \in 1..Path /\ l[2] <= files[l[1]].epoch
    BY <1>1, <2>1, <2>2, LineFacts DEF Real
  <2>4. l[1] = Path /\ files[Path].epoch = 0 => l[2] = 0
    BY <2>3
  <2> QED
    BY <2>2, <2>3, <2>4
<1>7. ASSUME NEW n, NEW j \in 1..Len(file),
             file[j].body.line[1] = Path /\ files[Path].epoch = 0
                  => file[j].body.line[3] <= n
      PROVE  Past(files, file[j].body.line, Path, n)
  BY <1>1, <1>6, <1>7 DEF Past
<1>8. CASE cursor # NoCursor /\ SourceMatches(cursor)
  <2>1. BeginAt(Path, cursor.seen) /\ cursor.seen \in Seq(Lines)
    BY <1>1, <1>8, CursorFacts DEF BeginCapture
  <2>2. Faithful(files, Path, cursor.seen) /\ cursor.ino = Path
    BY <1>1, <1>8, <2>1, FaithfulMatches DEF SourceMatches
  <2>3. ASSUME NEW j \in 1..Len(file), file[j].body.line[1] = Path,
               files[Path].epoch = 0
        PROVE  file[j].body.line[3] <= Len(cursor.seen)
    <3>1. cursor.joff = Len(file)
      BY <1>2, <2>2, <2>3 DEF Resumes
    <3>2. Past(files, Road[j].line, cursor.ino, Len(cursor.seen))
      BY <1>2, <1>3, <3>1 DEF PastRoad
    <3> QED
      BY <1>1, <1>2, <1>6, <2>2, <2>3, <3>2 DEF Past
  <2>4. PastRoad(files, Road, Len(Road), Path, Len(cursor.seen))
    BY <1>2, <1>7, <2>3 DEF PastRoad
  <2> QED
    BY <1>4, <2>1, <2>2, <2>4, BeginGood
<1>9. CASE ~(cursor # NoCursor /\ SourceMatches(cursor))
  <2>1. BeginAt(Path, <<>>)
    BY <1>9 DEF BeginCapture
  <2>2. Faithful(files, Path, <<>>) /\ <<>> \in Seq(Lines) /\ Len(<<>>) = 0
    BY <1>1, <1>4, NothingRead
  <2>3. ASSUME NEW j \in 1..Len(file), file[j].body.line[1] = Path,
               files[Path].epoch = 0
        PROVE  FALSE
    BY <1>2, <1>6, <1>9, <2>3, PathMatches
  <2>4. PastRoad(files, Road, Len(Road), Path, 0)
    BY <1>2, <1>7, <2>3 DEF PastRoad
  <2> QED
    BY <1>4, <2>1, <2>2, <2>4, BeginGood
<1> QED
  BY <1>8, <1>9

\* recover_file_cursor: the mark moves to the end of the file, and what it
\* stands for is what the source begins with.
LEMMA RecoveredGood ==
  ASSUME WriterInv, Covered, Placed, RoadOK(files, Road, Mark), RecoverCursor
  PROVE  /\ RoadOK(files, Road, Mark')
         /\ cursor'.ino = Path /\ files[Path].epoch = 0 =>
               cursor'.joff = Len(file)
<1>1. /\ FileTypes /\ FrameTypes /\ Len(file) \in Nat /\ cursor.joff \in Nat
      /\ cursor \in CursorSet /\ Path = Len(files) /\ Path \in Nat
      /\ Road \in Seq(Event) /\ files \in Seq(Sizes)
      /\ cursor.joff <= Len(file)
  BY RoadTypes
<1>2. /\ wpc = "recover" /\ RecoveryError = "none" /\ pending' = pending
      /\ Mark = cursor /\ Len(Road) = Len(file)
      /\ \A i \in 1..Len(file) : /\ IsRecord(Road[i])
                                 /\ Road[i].line = file[i].body.line
  BY StillRoad DEF RecoverCursor
<1>3. Mark' = cursor'
  BY <1>2 DEF Mark, Placed
<1>4. /\ cursor.seen \in Seq(Lines) /\ Len(cursor.seen) \in Nat
      /\ Faithful(files, cursor.ino, cursor.seen)
  BY <1>1, <1>2, CursorFacts DEF RoadOK, MarkTrusted
<1>5. CASE ~NeedsReplay
  <2>1. cursor' = cursor
    BY <1>5 DEF RecoverCursor
  <2>2. ASSUME cursor.ino = Path, files[Path].epoch = 0,
               cursor.joff # Len(file)
        PROVE  FALSE
    <3>1. IsPrefix(cursor.seen, Content(Path)) /\ Path # 0
      BY <1>1, <1>4, <2>2, FaithfulMatches, FileFacts
    <3>2. cursor # NoCursor /\ cursor.joff < Len(file)
      BY <1>1, <2>2, <3>1, NoCursorTyped
    <3> QED
      BY <1>5, <2>2, <3>1, <3>2 DEF NeedsReplay, SourceMatches
  <2> QED
    BY <1>2, <1>3, <2>1, <2>2
<1>6. CASE NeedsReplay
  <2> DEFINE n == Len(file) - cursor.joff
  <2>1. /\ Replayed \in CursorSet /\ Replayed.joff = Len(file)
        /\ Replayed.ino = cursor.ino /\ n \in Nat
        /\ Replayed.seen = cursor.seen \o TailLines
        /\ Replayed.seen \in Seq(Lines)
        /\ Len(Replayed.seen) = Len(cursor.seen) + n
        /\ \A i \in 1..n : Replayed.seen[Len(cursor.seen) + i] =
                              file[cursor.joff + i].body.line
    BY <1>1, ReplayFacts
  <2>2. cursor' = Replayed /\ cursor.ino = Path
    BY <1>6 DEF RecoverCursor, NeedsReplay, SourceMatches
  <2>3. IsPrefix(Replayed.seen, Content(Path))
    BY <1>1, <1>2, <1>6, <2>1 DEF RecoveryError
  <2>4. \A k \in 1..Len(Replayed.seen) :
           Replayed.seen[k] = <<Path, files[Path].epoch, k>>
    BY <1>1, <2>1, <2>3, PathBegins
  <2>5. Faithful(files, Path, Replayed.seen)
    BY <1>1, <2>1, <2>3, FaithfulMatches
  <2>6. ASSUME NEW j \in cursor.joff + 1..Len(file)
        PROVE  Past(files, Road[j].line, Path, Len(Replayed.seen))
    <3>1. PICK i \in 1..n : j = cursor.joff + i
      <4>1. j - cursor.joff \in 1..n /\ j = cursor.joff + (j - cursor.joff)
        BY <1>1
      <4> QED
        BY <4>1
    <3>2. PICK k \in 1..Len(Replayed.seen) : k = Len(cursor.seen) + i
      BY <1>4, <2>1
    <3>3. j \in 1..Len(file)
      BY <1>1
    <3>4. Road[j].line = <<Path, files[Path].epoch, k>>
      BY <1>2, <2>1, <2>4, <3>1, <3>2, <3>3
    <3> QED
      BY <3>4 DEF Past
  <2> HIDE DEF n
  <2>7. PICK d \in CursorSet : d = Replayed
    BY <2>1
  <2>8. PICK m \in CursorSet : m = Mark
    BY <1>1, <1>2
  <2>9. /\ d.joff = Len(Road) /\ d.ino = m.ino /\ d.ino = Path
        /\ m.joff = cursor.joff /\ m.seen = cursor.seen
        /\ Len(m.seen) <= Len(d.seen)
    BY <1>2, <1>4, <2>1, <2>2, <2>7, <2>8
  <2>10. RoadOK(files, Road, d)
    <3>1. RoadOK(files, Road, m) /\ Faithful(files, d.ino, d.seen)
      BY <2>5, <2>7, <2>8, <2>9
    <3>2. \A j \in m.joff + 1..Len(Road) : IsRecord(Road[j]) =>
             Past(files, Road[j].line, d.ino, Len(d.seen))
      BY <1>2, <2>6, <2>7, <2>9
    <3> QED
      BY <1>1, <2>9, <3>1, <3>2, MarkRecovered
  <2> QED
    BY <1>3, <2>1, <2>2, <2>7, <2>10
<1> QED
  BY <1>5, <1>6

-----------------------------------------------------------------------------
(* The invariant without failures                                          *)

\* Every step leaves the road good.
LEMMA GoodKept ==
  ASSUME WriterInv, Covered, Placed, Resumes, Good(files, Road, Mark, acq),
         [Next]_vars
  PROVE  Good(files', Road', Mark', acq')
<1>1. /\ FileTypes /\ AcqTypes /\ files \in Seq(Sizes)
      /\ Mark \in CursorSet /\ Road \in Seq(Event)
      /\ acq.seen \in Seq(Lines) /\ Len(acq.seen) \in Nat
  BY RoadTypes, TaskFacts
<1>2. ~FailureStep /\ ~StorageBlocked /\ ~DropWriter
  BY NoFailures
<1>3. RoadOK(files, Road, Mark)
  BY DEF Good
<1>4. CASE AtEnd \/ TakeCheckpoint
  <2>1. files' = files
    BY <1>4 DEF AtEnd, TaskStep, Read, Acknowledge, FollowChanged, FollowAnew,
       StopCapture, AbortCapture, BeginCapture, TakeCheckpoint
  <2>2. CASE TakeCheckpoint
    BY <2>1, <2>2, DeliveredGood
  <2>3. CASE AtEnd /\ ~TakeCheckpoint
    <3>1. Mark' = Mark
      <4>1. UNCHANGED <<cursor, pending>>
        BY <2>3 DEF AtEnd, TaskStep, Read, Acknowledge, FollowChanged,
           FollowAnew, StopCapture, AbortCapture, BeginCapture, writerVars
      <4> QED
        BY <4>1 DEF Mark
    <3>2. Good(files, Road', Mark, acq')
      BY <1>3, <2>3, TaskGood, StopGood, ResumeGood DEF AtEnd
    <3> QED
      BY <2>1, <3>1, <3>2
  <2> QED
    BY <1>4, <2>2, <2>3
<1>5. CASE ~AtEnd /\ ~TakeCheckpoint
  <2>1. Road' = Road
    BY <1>5, RoadStays
  <2>2. CASE RecoverCursor
    <3>1. files' = files /\ acq' = acq /\ acq.phase = "off"
      BY <2>2 DEF RecoverCursor, taskVars, Placed
    <3>2. RoadOK(files, Road, Mark')
      BY <1>3, <2>2, RecoveredGood
    <3> QED
      BY <2>1, <3>1, <3>2 DEF Good, Following
  <2>3. CASE ~RecoverCursor
    <3>1. Mark' = Mark
      BY <1>5, <2>3, MarkStays DEF AtMark
    <3>2. CASE SourceStep
      <4>1. acq' = acq
        BY <3>2 DEF SourceStep, SourceGrows, SourceRotates, SourceTruncated
      <4>2. Grew(files, files') /\ files' \in Seq(Sizes)
        BY <1>1, <3>2, SourceGrew, FilesTyped DEF FileTypes
      <4>3. /\ RoadOK(files', Road, Mark)
            /\ ReaderOK(files, Road, Mark, acq)
                 => ReaderOK(files', Road, Mark, acq)
        BY <1>1, <1>3, <4>2, RoadGrew
      <4> QED
        BY <2>1, <3>1, <4>1, <4>3 DEF Good
    <3>3. CASE ~SourceStep
      <4>1. files' = files /\ acq' \in {acq, Idle}
        BY <1>2, <1>5, <2>3, <3>3 DEF AtEnd, Next, WriterStep, RefuseStart,
           TakeRecords, AppendOne, FlushBatch, TakeFinish, CommitJournal,
           StoreCursor, StoreLastCursor, CommitDeadline, UserStep, StartWriter,
           vars, taskVars
      <4> QED
        BY <2>1, <3>1, <4>1 DEF Good, Idle, Following
    <3> QED
      BY <3>2, <3>3
  <2> QED
    BY <2>2, <2>3
<1> QED
  BY <1>4, <1>5

\* Where no acquisition runs, and what a follower's phase tells of its file.
LEMMA PlacedKept ==
  ASSUME WriterInv, Placed, Good(files, Road, Mark, acq), [Next]_vars
  PROVE  Placed'
<1>1. /\ FileTypes /\ AcqTypes
      /\ acq.phase # "off" => acq.ino \in 1..Path
      /\ acq \in Tasks /\ acq.seen \in Seq(Lines) /\ Path \in Nat
  BY TaskFacts, FileFacts DEF WriterInv, Types
<1>2. ~FailureStep /\ ~StorageBlocked /\ ~DropWriter
  BY NoFailures
<1>3. CASE SourceStep
  <2>1. UNCHANGED <<acq, queue, faults, wpc, pending>>
    BY <1>3 DEF SourceStep, SourceGrows, SourceRotates, SourceTruncated,
       writerVars
  <2>2. /\ Path' \in Nat /\ Path' >= Path
        /\ \A i \in 1..Path : /\ files'[i].epoch >= files[i].epoch
                              /\ files[i].epoch \in Nat
                              /\ files'[i].epoch \in Nat
    <3>1. FileTypes' /\ Path' \in Nat /\ Path' >= Path
          /\ \A i \in 1..Path : files'[i].epoch >= files[i].epoch
      BY <1>1, <1>3, FilesTyped
    <3>2. \A i \in 1..Len(files) : files[i].epoch \in Nat
      BY <1>1, SizeFacts DEF FileTypes
    <3>3. \A i \in 1..Len(files') : files'[i].epoch \in Nat
      BY <3>1, SizeFacts DEF FileTypes
    <3> QED
      BY <1>1, <3>1, <3>2, <3>3 DEF Path
  <2>3. acq.phase = "truncating" => files'[acq.ino].epoch > 0
    BY <1>1, <2>2 DEF Placed
  <2>4. acq.phase = "rotating" => acq.ino < Path'
    BY <1>1, <2>2 DEF Placed, Tasks
  <2> QED
    BY <2>1, <2>3, <2>4 DEF Placed
<1>4. CASE TaskStep \/ StopCapture \/ AbortCapture
  <2>1. /\ acq.phase \in Following /\ UNCHANGED <<files, faults, wpc, pending>>
    BY <1>4 DEF TaskStep, Read, Acknowledge, FollowChanged, FollowAnew,
       StopCapture, AbortCapture, Following, writerVars
  <2>2. /\ faults = {} /\ wpc \notin {"failed", "down", "recover", "opening",
                                      "finish", "finstore"}
    BY <2>1 DEF Placed, Following
  <2>3. /\ acq'.phase = "rotating" => acq'.ino < Path
        /\ acq'.phase = "truncating" => files[acq'.ino].epoch > 0
    <3>1. CASE FollowChanged
      <4>1. /\ acq.ino \in 1..Path /\ files[acq.ino].len <= Len(acq.seen)
            /\ \/ acq.ino # Path /\ acq' = [acq EXCEPT !.phase = "rotating"]
               \/ /\ acq.ino = Path
                  /\ files[Path].len < Len(acq.seen)
                  /\ acq' = [acq EXCEPT !.phase = "truncating"]
        BY <1>1, <2>1, <3>1 DEF FollowChanged, Following
      <4>2. acq.ino = Path /\ files[Path].len < Len(acq.seen)
               => files[acq.ino].epoch # 0
        <5>1. Faithful(files, acq.ino, acq.seen)
          BY <2>1 DEF Good, ReaderOK
        <5>2. files[acq.ino].len \in Nat /\ Len(acq.seen) \in Nat
          BY <1>1, <4>1, ContentTyped
        <5> QED
          BY <4>1, <5>1, <5>2 DEF Faithful
      <4>3. files[acq.ino].epoch \in Nat
        BY <1>1, <4>1, SizeFacts, FileFacts
      <4>4. acq.ino # Path => acq.ino < Path
        BY <1>1, <4>1
      <4> QED
        BY <1>1, <4>1, <4>2, <4>3, <4>4 DEF Tasks
    <3>2. CASE Read \/ Acknowledge
      <4>1. acq'.phase = acq.phase /\ acq'.ino = acq.ino
        BY <1>1, <3>2 DEF Read, Acknowledge, Tasks
      <4> QED
        BY <4>1 DEF Placed
    <3>3. CASE FollowAnew
      <4>1. acq'.phase = "running"
        BY <3>3 DEF FollowAnew, BeginAt
      <4> QED
        BY <4>1
    <3>4. CASE StopCapture \/ AbortCapture
      <4>1. acq'.phase = "stopped"
        BY <1>1, <3>4 DEF StopCapture, AbortCapture, Tasks
      <4> QED
        BY <4>1
    <3> QED
      BY <1>4, <3>1, <3>2, <3>3, <3>4 DEF TaskStep
  <2>4. Path' = Path
    BY <2>1 DEF Path
  <2> QED
    BY <2>1, <2>2, <2>3, <2>4 DEF Placed
<1>5. CASE ~SourceStep /\ ~TaskStep /\ ~StopCapture /\ ~AbortCapture
  <2>1. files' = files /\ faults' = faults /\ Path' = Path
    BY <1>2, <1>5 DEF Next, WriterStep, RecoverCursor, RefuseStart,
       BeginCapture, TakeRecords, AppendOne, FlushBatch, TakeCheckpoint,
       TakeFinish, CommitJournal, StoreCursor, StoreLastCursor,
       CommitDeadline, UserStep, StartWriter, vars, taskVars, Path
  <2>2. CASE UNCHANGED vars
    BY <2>1, <2>2 DEF vars, taskVars, writerVars, Placed
  <2>3. CASE StartWriter \/ RecoverCursor \/ RefuseStart
    BY <2>1, <2>3 DEF StartWriter, RecoverCursor, RefuseStart, taskVars, Placed
  <2>4. CASE BeginCapture
    BY <2>1, <2>4 DEF BeginCapture, BeginAt, Placed
  <2>5. CASE TakeRecords \/ AppendOne \/ FlushBatch \/ TakeCheckpoint
             \/ CommitDeadline
    BY <2>1, <2>5 DEF TakeRecords, AppendOne, FlushBatch, TakeCheckpoint,
       CommitDeadline, taskVars, Placed
  <2>6. CASE TakeFinish \/ CommitJournal \/ StoreCursor \/ StoreLastCursor
    BY <2>1, <2>6 DEF TakeFinish, CommitJournal, StoreCursor, StoreLastCursor,
       taskVars, Idle, Placed
  <2> QED
    BY <1>2, <1>5, <2>2, <2>3, <2>4, <2>5, <2>6
       DEF Next, WriterStep, UserStep
<1> QED
  BY <1>3, <1>4, <1>5

\* A start that resumes has accounted for the whole file, to its first record.
LEMMA ResumesKept ==
  ASSUME WriterInv, Covered, Placed, Resumes, Good(files, Road, Mark, acq),
         [Next]_vars
  PROVE  Resumes'
<1> SUFFICES ASSUME wpc' = "opening", cursor'.ino = Path',
                    files'[Path'].epoch = 0
             PROVE  cursor'.joff = Len(file')
  BY DEF Resumes
<1>1. /\ FileTypes /\ Path = Len(files) /\ Path \in Nat /\ Path \in 1..Path
      /\ files \in Seq(Sizes)
  BY RoadTypes, FileFacts
<1>2. ~FailureStep /\ ~StorageBlocked /\ ~DropWriter
  BY NoFailures
<1>3. CASE RecoverCursor
  <2>1. UNCHANGED <<files, file, Path>>
    BY <1>3 DEF RecoverCursor, journalVars, taskVars, Path
  <2>2. cursor'.ino = Path /\ files[Path].epoch = 0 => cursor'.joff = Len(file)
    BY <1>3, RecoveredGood DEF Good
  <2> QED
    BY <2>1, <2>2
<1>4. CASE ~RecoverCursor
  <2>1. wpc = "opening" /\ (SourceStep \/ UNCHANGED vars)
    <3>1. CASE TaskStep \/ StopCapture \/ AbortCapture
      <4>1. wpc' = wpc /\ acq.phase # "off"
        BY <3>1 DEF TaskStep, Read, Acknowledge, FollowChanged, FollowAnew,
           StopCapture, AbortCapture, writerVars
      <4> QED
        BY <4>1 DEF Placed
    <3>2. CASE SourceStep
      <4>1. wpc' = wpc
        BY <3>2 DEF SourceStep, SourceGrows, SourceRotates, SourceTruncated,
           writerVars
      <4> QED
        BY <3>2, <4>1
    <3>3. CASE UNCHANGED vars
      BY <3>3 DEF vars, writerVars
    <3>4. CASE StartWriter \/ CommitDeadline
      BY <3>4 DEF StartWriter, CommitDeadline
    <3>5. CASE WriterStep
      BY <1>2, <1>4, <3>5 DEF WriterStep, RefuseStart, BeginCapture,
         TakeRecords, AppendOne, FlushBatch, TakeCheckpoint, TakeFinish,
         CommitJournal, StoreCursor, StoreLastCursor
    <3> QED
      BY <1>2, <3>1, <3>2, <3>3, <3>4, <3>5 DEF Next, UserStep
  <2>2. CASE UNCHANGED vars
    BY <2>1, <2>2 DEF Resumes, vars, writerVars, taskVars, journalVars, Path
  <2>3. CASE SourceStep
    <3>1. UNCHANGED <<cursor, file>>
      BY <2>3 DEF SourceStep, SourceGrows, SourceRotates, SourceTruncated,
         writerVars, journalVars
    <3>2. /\ Path' \in Nat /\ Path' >= Path
          /\ files'[Path].epoch >= files[Path].epoch
          /\ files[Path].epoch \in Nat
      BY <1>1, <2>3, FilesTyped, SizeFacts
    <3>3. cursor.ino <= Path
      <4>1. Mark = cursor
        BY <2>1 DEF Placed, Mark
      <4>2. Faithful(files, cursor.ino, cursor.seen)
        BY <4>1 DEF Good, RoadOK, MarkTrusted
      <4> QED
        BY <1>1, <4>2 DEF Faithful
    <3>4. Path' = Path
      BY <1>1, <3>1, <3>2, <3>3
    <3>5. files[Path].epoch = 0
      BY <3>2, <3>4
    <3> QED
      BY <2>1, <3>1, <3>4, <3>5 DEF Resumes
  <2> QED
    BY <2>1, <2>2, <2>3
<1> QED
  BY <1>3, <1>4

\* The invariant of a capture without failures.
CleanInv == CaptureInv /\ Placed /\ Resumes /\ Good(files, Road, Mark, acq)

\* Nothing is on the road at first.
LEMMA CleanInvInit == ASSUME NoTrouble, Init PROVE CleanInv
<1>1. CaptureInv
  BY CaptureInvInit
<1>2. WriterInv /\ Covered /\ file = <<>>
  BY <1>1 DEF CaptureInv, Init, JournalInit
<1>3. Placed
  BY DEF Init, NoTrouble, Idle, Placed
<1>4. Resumes
  BY DEF Init, Resumes
<1>5. Mark = NoCursor /\ Len(Road) = 0
  <2>1. Mark = cursor /\ Len(Road) = Len(file)
    BY <1>2, <1>3, StillRoad DEF Init
  <2> QED
    BY <1>2, <2>1 DEF Init
<1>6. Len(files) \in Nat /\ files \in Seq(Sizes)
  BY <1>2, RoadTypes
<1>7. MarkTrusted(files, Road, Mark)
  BY <1>5, <1>6, NoCursorTyped DEF MarkTrusted, Faithful, PastRoad
<1>8. RoadOK(files, Road, Mark)
  BY <1>5, <1>7, NoCursorTyped DEF RoadOK, Genuine, Trusted, Tracks, Apart
<1>9. acq.phase \notin Following
  BY DEF Init, Idle, Following
<1> QED
  BY <1>1, <1>3, <1>4, <1>8, <1>9 DEF CleanInv, Good

\* It stays in order.
LEMMA CleanInvKept ==
  ASSUME NoTrouble, CleanInv, [Next]_vars
  PROVE  CleanInv'
<1>1. /\ CaptureInv /\ WriterInv /\ Covered /\ Placed /\ Resumes
      /\ Good(files, Road, Mark, acq)
  BY DEF CleanInv, CaptureInv
<1>2. LossAlone
  BY DEF NoTrouble, LossAlone
<1>3. CaptureInv'
  BY <1>1, <1>2, CaptureInvKept
<1>4. Placed' /\ Resumes'
  BY <1>1, PlacedKept, ResumesKept
<1>5. Good(files', Road', Mark', acq')
  BY <1>1, GoodKept
<1> QED
  BY <1>3, <1>4, <1>5 DEF CleanInv

\* The inductive invariant of the untroubled capture.
LEMMA CleanInvariant == ASSUME NoTrouble PROVE Spec => []CleanInv
<1>1. Init => CleanInv
  BY CleanInvInit
<1>2. CleanInv /\ [Next]_vars => CleanInv'
  BY CleanInvKept
<1> QED
  BY <1>1, <1>2, PTL DEF Spec

-----------------------------------------------------------------------------
(* The theorems about captures without failures                            *)

\* recover_file_cursor: between the cursor and the end of the journal are
\* the next lines of its file, of its acquisition.
LEMMA RefusedForContent ==
  ASSUME CleanInv, RefuseStart
  PROVE  /\ OwnTail
         /\ \/ refusal' = "content" /\ files[Path].epoch > 0
            \/ refusal' = "bounds" /\ Len(JournalTail) > MaxRecovery
<1>1. WriterInv /\ Covered /\ Placed /\ RoadOK(files, Road, Mark)
  BY DEF CleanInv, CaptureInv, Good
<1>2. /\ FileTypes /\ FrameTypes /\ Len(file) \in Nat /\ cursor.joff \in Nat
      /\ cursor \in CursorSet /\ Path = Len(files) /\ files \in Seq(Sizes)
      /\ cursor.joff <= Len(file) /\ Road \in Seq(Event)
  BY <1>1, RoadTypes
<1>3. /\ wpc = "recover" /\ RecoveryError # "none"
      /\ refusal' = RecoveryError
  BY DEF RefuseStart
<1>4. /\ Mark = cursor /\ Len(Road) = Len(file)
      /\ \A i \in 1..Len(file) : /\ IsRecord(Road[i])
                                 /\ Road[i].line = file[i].body.line
  BY <1>1, <1>3, StillRoad
<1>5. cursor.seen \in Seq(Lines) /\ Len(cursor.seen) \in Nat
  BY <1>2, CursorFacts
<1> DEFINE n == Len(file) - cursor.joff
<1>6. /\ n \in Nat /\ Len(JournalTail) = n /\ TailLines \in Seq(Lines)
      /\ Len(TailLines) = n
      /\ \A i \in 1..n : /\ cursor.joff + i \in cursor.joff + 1..Len(file)
                         /\ cursor.joff + i \in 1..Len(file)
                         /\ JournalTail[i] = file[cursor.joff + i]
                         /\ TailLines[i] = file[cursor.joff + i].body.line
  BY <1>2, TailTyped
<1>7. ASSUME NEW i \in 1..n
      PROVE  /\ JournalTail[i].body.acq = cursor.acq
             /\ TailLines[i] \in Lines /\ TailLines[i][1] = cursor.ino
             /\ TailLines[i][3] = Len(cursor.seen) + i
             /\ Real(files, TailLines[i])
  <2>1. PICK k \in cursor.joff + 1..Len(file) :
           k = cursor.joff + i /\ k \in 1..Len(file)
    BY <1>6
  <2>2. /\ file[k].body.acq = cursor.acq /\ file[k].body.line \in Lines
        /\ file[k].body.line[1] = cursor.ino
        /\ file[k].body.line[3] = Len(cursor.seen) + (k - cursor.joff)
    BY <1>1, <1>3, TailStands DEF RoadOK
  <2>3. k - cursor.joff = i
    BY <1>2, <1>6, <2>1
  <2>4. Real(files, Road[k].line) /\ Road[k].line = file[k].body.line
    BY <1>1, <1>4, <2>1 DEF RoadOK, Genuine
  <2>5. JournalTail[i] = file[k] /\ TailLines[i] = file[k].body.line
    BY <1>6, <2>1
  <2> QED
    BY <2>2, <2>3, <2>4, <2>5
<1> HIDE DEF n
<1>8. RecoveryError # "beyond" /\ NeedsReplay
  BY <1>2, <1>3 DEF RecoveryError
<1>9. OwnTail
  BY <1>6, <1>7 DEF OwnTail
<1>10. CASE Len(JournalTail) > MaxRecovery
  <2>1. RecoveryError = "bounds"
    BY <1>3, <1>8, <1>10 DEF RecoveryError
  <2> QED
    BY <1>3, <1>9, <1>10, <2>1
<1> SUFFICES ASSUME ~(Len(JournalTail) > MaxRecovery)
             PROVE  refusal' = "content" /\ files[Path].epoch > 0
  BY <1>9, <1>10
<1>11. ~\E i \in 1..Len(JournalTail) : JournalTail[i].body.acq # cursor.acq
  BY <1>6, <1>7
<1>12. /\ ~IsPrefix(cursor.seen \o TailLines, Content(Path))
       /\ RecoveryError = "content"
  BY <1>2, <1>3, <1>8, <1>11 DEF RecoveryError
<1>13. files[Path].epoch # 0
  <2> SUFFICES ASSUME files[Path].epoch = 0 PROVE FALSE
    OBVIOUS
  <2>1. /\ cursor.ino = Path /\ Path \in Nat /\ files[Path].len \in Nat
        /\ Len(cursor.seen) <= files[Path].len
        /\ \A k \in 1..Len(cursor.seen) : cursor.seen[k] = <<Path, 0, k>>
    BY <1>2, <1>5, <1>8, PathBegins DEF NeedsReplay, SourceMatches
  <2>2. ASSUME NEW i \in 1..n
        PROVE  /\ TailLines[i] = <<Path, 0, Len(cursor.seen) + i>>
               /\ Len(cursor.seen) + i <= files[Path].len
    <3>1. TailLines[i][2] = 0
      BY <1>7, <2>1, LineFacts DEF Real
    <3> QED
      BY <1>7, <2>1, <3>1, LineFacts DEF Real
  <2>3. PICK u \in Seq(Lines) : u = Replayed.seen
    BY <1>2, ReplayFacts
  <2>4. /\ u = cursor.seen \o TailLines /\ Len(u) = Len(cursor.seen) + n
        /\ \A i \in 1..Len(cursor.seen) : u[i] = cursor.seen[i]
        /\ \A i \in 1..n : u[Len(cursor.seen) + i] =
                              file[cursor.joff + i].body.line
    BY <1>2, <2>3, ReplayFacts DEF n
  <2>5. ASSUME NEW k \in 1..Len(u) PROVE u[k] = <<Path, 0, k>>
    <3>1. CASE k \in 1..Len(cursor.seen)
      BY <2>1, <2>4, <3>1
    <3>2. CASE k \notin 1..Len(cursor.seen)
      <4>1. PICK i \in 1..n : k = Len(cursor.seen) + i
        <5>1. k - Len(cursor.seen) \in 1..n
              /\ k = Len(cursor.seen) + (k - Len(cursor.seen))
          BY <1>5, <1>6, <2>4, <3>2
        <5> QED
          BY <5>1
      <4> QED
        BY <1>6, <2>2, <2>4, <4>1
    <3> QED
      BY <3>1, <3>2
  <2>6. Len(u) <= files[Path].len
    <3>1. CASE n = 0
      BY <1>5, <2>1, <2>4, <3>1
    <3>2. CASE n # 0
      <4>1. n \in 1..n
        BY <1>6, <3>2
      <4> QED
        BY <2>2, <2>4, <4>1
    <3> QED
      BY <3>1, <3>2
  <2>7. IsPrefix(u, Content(Path))
    BY <1>2, <2>5, <2>6, PathBegins
  <2> QED
    BY <1>12, <2>4, <2>7
<1>14. files[Path].epoch \in Nat
  BY <1>2, FileFacts, SizeFacts
<1> QED
  BY <1>3, <1>12, <1>13, <1>14

(* recover_file_cursor refuses a start after stops and aborts only where   *)
(* the file at the path was truncated, or where more lines were appended   *)
(* since the last checkpoint than it will read: the journal ends with the  *)
(* lines of the source that follow what the cursor accounts for, of its    *)
(* acquisition.  The limit can be met: a checkpoint is sent every 256 KiB, *)
(* in which more than MAX_RECOVERY_RECORDS very short lines fit.           *)
THEOREM RestartIsNotRefused ==
  ASSUME NoTrouble
  PROVE  Spec => NeverRefused
<1>1. CleanInv /\ [Next]_vars
         => [RefuseStart =>
                /\ OwnTail
                /\ \/ refusal' = "content" /\ files[Path].epoch > 0
                   \/ refusal' = "bounds" /\ Len(JournalTail) > MaxRecovery]_vars
  BY RefusedForContent
<1> QED
  BY <1>1, CleanInvariant, PTL DEF Spec, NeverRefused

(* A restart repeats nothing (README): no line of a file that was not cut  *)
(* short is in the journal twice, however captures were stopped, aborted   *)
(* and resumed.                                                            *)
THEOREM RestartRepeatsNothing ==
  ASSUME NoTrouble PROVE Spec => []NothingRepeated
<1>1. ASSUME CleanInv PROVE NothingRepeated
  <2>1. WriterInv /\ Covered /\ Apart(Road)
    BY <1>1 DEF CleanInv, CaptureInv, Good, RoadOK
  <2>2. /\ Frames \in Seq(Record) /\ Carries(Frames) /\ batch \in Seq(Entry)
        /\ queue \in Seq(Event) /\ Len(file) \in Nat
        /\ Len(file) <= Len(Frames) /\ Len(Frames) \in Nat
        /\ file \in Seq(Record) /\ buffer \in Seq(Record)
    BY <2>1, RoadTypes
  <2>3. /\ Len(Road) \in Nat /\ Len(Road) >= Len(Frames)
        /\ \A i \in 1..Len(Frames) : Road[i] = AsEvent(Frames[i].body)
    <3>1. /\ Frames \in Seq(Record) /\ Carries(Frames)
          /\ batch \in Seq(Entry) /\ queue \in Seq(Event)
      BY <2>2
    <3>2. /\ Len(Road) = Len(Frames) + Len(batch) + Len(queue)
          /\ Len(batch) \in Nat /\ Len(queue) \in Nat
          /\ \A i \in 1..Len(Frames) : Road[i] = AsEvent(Frames[i].body)
      BY <3>1, RoadIndex DEF Road
    <3> QED
      BY <2>2, <3>2
  <2>4. ASSUME NEW i \in 1..Len(file)
        PROVE  i \in 1..Len(Road) /\ IsRecord(Road[i])
               /\ Road[i].line = file[i].body.line
    <3>1. i \in 1..Len(Frames) /\ i \in 1..Len(Road) /\ Frames[i] = file[i]
      BY <2>2, <2>3, FrameFacts DEF Starts
    <3>2. Frames[i].body \in Entry
      BY <2>2, <3>1 DEF Carries
    <3> QED
      BY <2>3, <3>1, <3>2, Entered
  <2>5. SUFFICES ASSUME NEW i \in 1..Len(file), NEW j \in 1..Len(file), i # j,
                        file[i].body.line[2] = 0,
                        file[i].body.line = file[j].body.line
                 PROVE  FALSE
    BY DEF NothingRepeated
  <2>6. i < j \/ j < i
    BY <2>2, <2>5
  <2> QED
    BY <2>1, <2>4, <2>5, <2>6 DEF Apart
<1> QED
  BY <1>1, CleanInvariant, PTL

=============================================================================
