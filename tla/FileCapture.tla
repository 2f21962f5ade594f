----------------------------- MODULE FileCapture -----------------------------
(***************************************************************************)
(* Capture of one followed file into its journal: the file acquisition     *)
(* task (crates/lvu-core/src/acquisition.rs, run_file), the writer thread  *)
(* with its group commit (crates/lvu-ingest/src/writer.rs), the durable    *)
(* file cursor (cursor.rs) and the recovery that reconciles the cursor     *)
(* with the journal at the next start.                                     *)
(*                                                                         *)
(* A line of the source stands for a record, an offset for a number of     *)
(* lines.  Every line is unique: <<ino, epoch, i>> is the i-th line of     *)
(* file `ino` after its `epoch`-th truncation, so comparing lines is what  *)
(* comparing bytes, checksum and evidence is in the code.  Boundary events *)
(* only write the catalog, which recovery never reads, and are left out.   *)
(***************************************************************************)
EXTENDS Journal, SequencesExt

CONSTANTS
    MaxLines,       \* bound: lines of one file
    MaxChanges,     \* bound: rotations, with truncations of the file at the path
    MaxOpens,       \* bound: acquisition ids handed out
    ChannelCapacity,\* events between the acquisition and the writer
    BatchRecords,   \* RuntimeConfig::batch_records
    SyncEvery,      \* RuntimeConfig::sync_every_records
    StorageLimit,   \* RuntimeConfig::storage_limit_bytes, in frames
    MaxRecovery,    \* MAX_RECOVERY_RECORDS / MAX_RECOVERY_BYTES
    FaultPlans      \* the sets of troubles one behaviour may meet

Lines == (1..MaxChanges + 1) \X (0..MaxChanges) \X (1..MaxLines)

ASSUME CaptureConstants ==
    /\ {MaxLines, MaxOpens, ChannelCapacity, BatchRecords,
        SyncEvery} \subseteq Nat \ {0}
    /\ {MaxChanges, StorageLimit, MaxRecovery} \subseteq Nat
    /\ FaultPlans \subseteq SUBSET (Failures \cup {"limit"})
    /\ [acq : 1..MaxOpens, line : Lines] \subseteq Body

NoSeq == -1
NoCursor == [acq |-> 0, ino |-> 0, seen |-> <<>>, joff |-> 0]

VARIABLES
    files,      \* the source: files[ino] = [epoch, len]; the path has the last
    acq,        \* FileState of the acquisition task
    opens,      \* acquisition ids handed out so far
    queue,      \* capture events on their way to the writer
    wpc,        \* where the writer thread is
    batch,      \* records taken from the queue and not yet appended
    sinceSync,  \* Commit::since_sync
    pending,    \* Commit::pending_cursor, or NoCursor
    cursor,     \* the durable cursor file, or NoCursor
    published,  \* SourceProgress::high_watermark as windows see it
    refusal,    \* why recover_file_cursor last refused a start, or "none"
    faults      \* the troubles of this behaviour; "limit": the storage limit

taskVars == <<files, acq, opens, queue, faults>>
writerVars == <<wpc, batch, sinceSync, pending, cursor, published, refusal>>
vars == <<journalVars, taskVars, writerVars>>

-----------------------------------------------------------------------------
(* The source file.                                                        *)
Path == Len(files)
Content(ino) ==
    [i \in 1..files[ino].len |-> <<ino, files[ino].epoch, i>>]

LastSeq(s) == IF s = <<>> THEN NoSeq ELSE s[Len(s)].seq

(* What a cursor vouches for is still what the file at the path begins     *)
(* with: identity, length and content of the acknowledged prefix.          *)
SourceMatches(c) ==
    /\ c.ino = Path
    /\ IsPrefix(c.seen, Content(Path))

Idle == [phase |-> "off", id |-> 0, ino |-> 0, seen |-> <<>>, ckpt |-> 0]
RecordEvent(line) == [kind |-> "record", acq |-> acq.id, line |-> line]
CheckpointEvent(a) ==
    [kind |-> "checkpoint", acq |-> a.id, ino |-> a.ino, seen |-> a.seen]

Init ==
    /\ JournalInit
    /\ files = <<[epoch |-> 0, len |-> 0]>>
    /\ acq = Idle /\ opens = 0 /\ queue = <<>>
    /\ wpc = "down" /\ batch = <<>> /\ sinceSync = 0
    /\ pending = NoCursor /\ cursor = NoCursor
    /\ published = NoSeq /\ refusal = "none"
    /\ faults \in FaultPlans

-----------------------------------------------------------------------------
(* The world outside: the program that writes the log, which may still     *)
(* hold a file that was rotated away.                                      *)
SourceGrows ==
    /\ \E ino \in 1..Path :
          /\ files[ino].len < MaxLines
          /\ files' = [files EXCEPT ![ino].len = @ + 1]
    /\ UNCHANGED <<journalVars, acq, opens, queue, writerVars, faults>>

Changes == Path - 1 + files[Path].epoch

SourceRotates ==
    /\ Changes < MaxChanges
    /\ files[Path].len > 0
    /\ files' = Append(files, [epoch |-> 0, len |-> 0])
    /\ UNCHANGED <<journalVars, acq, opens, queue, writerVars, faults>>

SourceTruncated ==
    /\ Changes < MaxChanges
    /\ files[Path].len > 0
    /\ files' = [files EXCEPT ![Path] = [epoch |-> @.epoch + 1, len |-> 0]]
    /\ UNCHANGED <<journalVars, acq, opens, queue, writerVars, faults>>

-----------------------------------------------------------------------------
(* The acquisition task.                                                   *)
Room == Len(queue) < ChannelCapacity
Send(e) == queue' = Append(queue, e)

(* Mutant of BeginAt: the first checkpoint waits for the byte interval.    *)
BeginAtWithoutCheckpoint(ino, seen) ==
    /\ opens < MaxOpens
    /\ opens' = opens + 1
    /\ acq' = [phase |-> "running", id |-> opens + 1, ino |-> ino,
               seen |-> seen, ckpt |-> Len(seen)]
    /\ UNCHANGED queue

(* A new FileState starts with a fresh acquisition id and sends its        *)
(* boundary and its first checkpoint before any record.                    *)
BeginAt(ino, seen) ==
    /\ opens < MaxOpens
    /\ opens' = opens + 1
    /\ acq' = [phase |-> "running", id |-> opens + 1, ino |-> ino,
               seen |-> seen, ckpt |-> Len(seen)]
    /\ Send(CheckpointEvent(acq'))

(* run_file: a read yields the next line as a record event.                *)
Read ==
    /\ acq.phase = "running" /\ Room
    /\ Len(acq.seen) < files[acq.ino].len
    /\ LET line == Content(acq.ino)[Len(acq.seen) + 1]
       IN  /\ acq' = [acq EXCEPT !.seen = Append(@, line)]
           /\ Send(RecordEvent(line))
    /\ UNCHANGED <<journalVars, files, opens, writerVars, faults>>

(* acknowledge_file: a checkpoint, on its byte interval or forced by a     *)
(* partial tick, a rotation, a truncation or a stop.                       *)
Acknowledge ==
    /\ acq.phase \in {"running", "rotating", "truncating"} /\ Room
    /\ acq.ckpt # Len(acq.seen)
    /\ acq' = [acq EXCEPT !.ckpt = Len(acq.seen)]
    /\ Send(CheckpointEvent(acq))
    /\ UNCHANGED <<journalVars, files, opens, writerVars, faults>>

(* update_follow_state at the end of the file: another file is at the      *)
(* path and this one is read to its end; or the file at the path is        *)
(* shorter than what was read.                                             *)
FollowChanged ==
    /\ acq.phase = "running"
    /\ files[acq.ino].len <= Len(acq.seen)
    /\ \/ acq.ino # Path /\ acq' = [acq EXCEPT !.phase = "rotating"]
       \/ /\ acq.ino = Path
          /\ files[Path].len < Len(acq.seen)
          /\ acq' = [acq EXCEPT !.phase = "truncating"]
    /\ UNCHANGED <<journalVars, files, opens, queue, writerVars, faults>>

(* The rest of update_follow_state, after the forced checkpoint has been   *)
(* sent: the file at the path by then is opened, or the same one rewound.  *)
FollowAnew ==
    /\ acq.phase \in {"rotating", "truncating"} /\ Room
    /\ acq.ckpt = Len(acq.seen)
    /\ BeginAt(IF acq.phase = "rotating" THEN Path ELSE acq.ino, <<>>)
    /\ UNCHANGED <<journalVars, files, writerVars, faults>>

(* graceful_stop: finish_file forces its last checkpoint out and every     *)
(* event is handed on before Finish.                                       *)
StopCapture ==
    /\ acq.phase = "running"
    /\ acq.ckpt = Len(acq.seen)
    /\ acq' = [acq EXCEPT !.phase = "stopped"]
    /\ UNCHANGED <<journalVars, files, opens, queue, writerVars, faults>>

(* abort_source, or a graceful stop whose deadline passed: the events the  *)
(* supervisor has not handed on, a suffix, are discarded.                  *)
AbortCapture ==
    /\ acq.phase \in {"running", "rotating", "truncating"}
    /\ \E n \in 0..Len(queue) : queue' = SubSeq(queue, 1, n)
    /\ acq' = [acq EXCEPT !.phase = "stopped"]
    /\ UNCHANGED <<journalVars, files, opens, writerVars, faults>>

-----------------------------------------------------------------------------
(* Starting: Journal::open, recover_file_cursor, then the acquisition.     *)
StartWriter ==
    /\ wpc = "down" /\ acq.phase = "off" /\ opens < MaxOpens
    /\ Open
    /\ wpc' = "recover"
    /\ batch' = <<>> /\ sinceSync' = 0 /\ pending' = NoCursor
    /\ UNCHANGED <<taskVars, cursor, published, refusal>>

(* The frames the cursor does not account for, and their lines.            *)
JournalTail == SubSeq(file, cursor.joff + 1, Len(file))
TailLines == [i \in 1..Len(JournalTail) |-> JournalTail[i].body.line]

NeedsReplay ==
    /\ cursor # NoCursor
    /\ cursor.joff < Len(file)
    /\ SourceMatches(cursor)

(* The error of recover_file_cursor, "none" when it succeeds.              *)
RecoveryError ==
    IF cursor.joff > Len(file) THEN "beyond"
    ELSE IF ~NeedsReplay THEN "none"
    ELSE IF Len(JournalTail) > MaxRecovery THEN "bounds"
    ELSE IF \E i \in 1..Len(JournalTail) :
               JournalTail[i].body.acq # cursor.acq THEN "boundary"
    ELSE IF ~IsPrefix(cursor.seen \o TailLines, Content(Path)) THEN "content"
    ELSE "none"

(* The cursor with the lines of the tail added.                            *)
Replayed == [cursor EXCEPT !.seen = @ \o TailLines, !.joff = Len(file)]

(* Mutant of RecoverCursor: the journal tail is not replayed.              *)
RecoverWithoutReplay ==
    /\ wpc = "recover"
    /\ RecoveryError = "none"
    /\ wpc' = "opening"
    /\ published' = LastSeq(file)
    /\ refusal' = "none"
    /\ UNCHANGED <<journalVars, taskVars, batch, sinceSync, pending, cursor>>

(* recover_file_cursor succeeds: lines the journal already holds are added *)
(* to the cursor, which is stored before capture resumes from it.          *)
RecoverCursor ==
    /\ wpc = "recover"
    /\ RecoveryError = "none"
    /\ cursor' = IF NeedsReplay THEN Replayed ELSE cursor
    /\ wpc' = "opening"
    /\ published' = LastSeq(file)
    /\ refusal' = "none"
    /\ UNCHANGED <<journalVars, taskVars, batch, sinceSync, pending>>

(* recover_file_cursor fails: the start fails and the journal is dropped.  *)
RefuseStart ==
    /\ wpc = "recover"
    /\ RecoveryError # "none"
    /\ refusal' = RecoveryError
    /\ Close
    /\ wpc' = "down"
    /\ UNCHANGED <<taskVars, batch, sinceSync, pending, cursor, published>>

(* Mutant of BeginCapture: the cursor's offset is resumed in whatever file *)
(* is at the path.                                                         *)
BeginCaptureUnvalidated ==
    /\ wpc = "opening" /\ Room
    /\ BeginAt(Path, IF cursor # NoCursor THEN cursor.seen ELSE <<>>)
    /\ wpc' = "idle"
    /\ UNCHANGED <<journalVars, files, batch, sinceSync, pending, cursor,
                   published, refusal, faults>>

(* open_file_state with validate_resume: from the cursor when the file     *)
(* still begins with what it accounts for, else from the beginning.        *)
BeginCapture ==
    /\ wpc = "opening" /\ Room
    /\ BeginAt(Path, IF cursor # NoCursor /\ SourceMatches(cursor)
                       THEN cursor.seen ELSE <<>>)
    /\ wpc' = "idle"
    /\ UNCHANGED <<journalVars, files, batch, sinceSync, pending, cursor,
                   published, refusal, faults>>

-----------------------------------------------------------------------------
(* The writer thread (run_writer).                                         *)
IsRecord(e) == e.kind = "record"

(* append_records: the queued record events up to the next other event.    *)
TakeRecords ==
    /\ wpc = "idle" /\ queue # <<>> /\ IsRecord(Head(queue))
    /\ \E n \in 1..Len(queue) :
          /\ n <= BatchRecords
          /\ \A i \in 1..n : IsRecord(queue[i])
          /\ n < Len(queue) /\ n < BatchRecords => ~IsRecord(queue[n + 1])
          /\ batch' = [i \in 1..n |->
                         [acq |-> queue[i].acq, line |-> queue[i].line]]
          /\ queue' = SubSeq(queue, n + 1, Len(queue))
    /\ wpc' = "append"
    /\ UNCHANGED <<journalVars, files, acq, opens, sinceSync, pending, cursor,
                   published, refusal, faults>>

(* append_batch, one record.                                               *)
OverLimit ==
    "limit" \in faults /\ Len(file) + Len(buffer) + 1 > StorageLimit

AppendOne ==
    /\ wpc = "append" /\ batch # <<>>
    /\ ~OverLimit
    /\ AppendRecord(Head(batch))
    /\ batch' = Tail(batch)
    /\ sinceSync' = sinceSync + 1
    /\ UNCHANGED <<taskVars, wpc, pending, cursor, published, refusal>>

(* append_batch past the storage limit: progress is published, the rest of *)
(* the batch is rejected and the writer returns its error.                 *)
StorageBlocked ==
    /\ wpc = "append" /\ batch # <<>>
    /\ OverLimit
    /\ published' = LastSeq(file \o buffer)
    /\ wpc' = "failed"
    /\ UNCHANGED <<journalVars, taskVars, batch, sinceSync, pending, cursor,
                   refusal>>

Outstanding == sinceSync > 0 \/ pending # NoCursor

(* Mutant of FlushBatch: the published watermark is the next sequence.     *)
FlushBatchPublishesNext ==
    /\ wpc = "append" /\ batch = <<>>
    /\ Flush
    /\ \/ wpc' = "commit" /\ UNCHANGED published
       \/ /\ sinceSync < SyncEvery
          /\ wpc' = "idle" /\ published' = nextSeq
    /\ UNCHANGED <<taskVars, batch, sinceSync, pending, cursor, refusal>>

(* The end of append_batch: flush, then commit_if_due (the record bound    *)
(* obliges it, the time bound may), then publish.                          *)
FlushBatch ==
    /\ wpc = "append" /\ batch = <<>>
    /\ Flush
    /\ \/ wpc' = "commit" /\ UNCHANGED published
       \/ /\ sinceSync < SyncEvery
          /\ wpc' = "idle" /\ published' = LastSeq(file')
    /\ UNCHANGED <<taskVars, batch, sinceSync, pending, cursor, refusal>>

(* handle_non_record, FileCheckpoint: the cursor waits for the commit that *)
(* covers the journal as it is now.                                        *)
TakeCheckpoint ==
    /\ wpc = "idle" /\ queue # <<>> /\ ~IsRecord(Head(queue))
    /\ LET e == Head(queue)
       IN  pending' = [acq |-> e.acq, ino |-> e.ino, seen |-> e.seen,
                       joff |-> Len(file) + Len(buffer)]
    /\ queue' = Tail(queue)
    /\ published' = LastSeq(file \o buffer)
    /\ UNCHANGED <<journalVars, files, acq, opens, wpc, batch, sinceSync,
                   cursor, refusal, faults>>

(* Mutant of CommitDeadline: a held cursor alone sets no deadline.         *)
CommitDeadlineForRecords ==
    /\ wpc = "idle" /\ sinceSync > 0
    /\ wpc' = "commit"
    /\ UNCHANGED <<journalVars, taskVars, batch, sinceSync, pending, cursor,
                   published, refusal>>

(* The time bound of group commit: overdue between two messages, or the    *)
(* bounded wait timed out.                                                 *)
CommitDeadline ==
    /\ wpc = "idle" /\ Outstanding
    /\ wpc' = "commit"
    /\ UNCHANGED <<journalVars, taskVars, batch, sinceSync, pending, cursor,
                   published, refusal>>

(* Finish is behind every event in the same channel: finish_writer commits *)
(* unconditionally.                                                        *)
TakeFinish ==
    /\ wpc = "idle" /\ acq.phase = "stopped" /\ queue = <<>>
    /\ wpc' = "finish"
    /\ UNCHANGED <<journalVars, taskVars, batch, sinceSync, pending, cursor,
                   published, refusal>>

(* Mutant of CommitJournal: handed to the filesystem, never fsynced.       *)
CommitWithoutSync ==
    /\ wpc \in {"commit", "finish"}
    /\ Flush
    /\ sinceSync' = 0
    /\ wpc' = IF wpc = "commit" THEN "store" ELSE "finstore"
    /\ UNCHANGED <<taskVars, batch, pending, cursor, published, refusal>>

(* WriterState::commit, the journal half.                                  *)
CommitJournal ==
    /\ wpc \in {"commit", "finish"}
    /\ IF sinceSync > 0 THEN SyncData ELSE Flush
    /\ sinceSync' = 0
    /\ wpc' = IF wpc = "commit" THEN "store" ELSE "finstore"
    /\ UNCHANGED <<taskVars, batch, pending, cursor, published, refusal>>

(* WriterState::commit, the cursor half, and the publication after it.     *)
StoreCursor ==
    /\ wpc = "store"
    /\ cursor' = IF pending = NoCursor THEN cursor ELSE pending
    /\ pending' = NoCursor
    /\ published' = LastSeq(file \o buffer)
    /\ wpc' = "idle"
    /\ UNCHANGED <<journalVars, taskVars, batch, sinceSync, refusal>>

(* The same after Finish: the writer returns and its journal is dropped.   *)
StoreLastCursor ==
    /\ wpc = "finstore"
    /\ cursor' = IF pending = NoCursor THEN cursor ELSE pending
    /\ pending' = NoCursor
    /\ published' = LastSeq(file \o buffer)
    /\ Close
    /\ wpc' = "down"
    /\ acq' = Idle
    /\ UNCHANGED <<files, opens, queue, batch, sinceSync, refusal, faults>>

-----------------------------------------------------------------------------
(* Failures.                                                               *)

(* A write, an fsync or a watermark of the journal fails under the writer. *)
WriterIoError ==
    /\ "io" \in faults
    /\ \/ wpc = "append" /\ batch # <<>> /\ ~OverLimit
         /\ (ReserveFails \/ AppendWriteFails(Head(batch)))
       \/ wpc = "append" /\ batch = <<>> /\ WriteFails
       \/ wpc \in {"commit", "finish"} /\ WriteFails
    /\ wpc' = "failed"
    /\ UNCHANGED <<taskVars, batch, sinceSync, pending, cursor, published,
                   refusal>>

(* cursor::store fails, before its rename or after it: in a commit, or in  *)
(* recover_file_cursor, whose start fails with it.                         *)
CursorIoError ==
    /\ "io" \in faults
    /\ \/ /\ wpc \in {"store", "finstore"} /\ pending # NoCursor
          /\ cursor' \in {cursor, pending}
       \/ /\ wpc = "recover" /\ NeedsReplay /\ RecoveryError = "none"
          /\ cursor' \in {cursor, Replayed}
    /\ pending' = NoCursor
    /\ wpc' = "failed"
    /\ UNCHANGED <<journalVars, taskVars, batch, sinceSync, published,
                   refusal>>

(* run_writer returned an error: its journal is dropped, its channel is    *)
(* closed, and the supervisor winds the acquisition down.                  *)
DropWriter ==
    /\ wpc = "failed"
    /\ Close
    /\ wpc' = "down"
    /\ acq' = Idle /\ queue' = <<>>
    /\ batch' = <<>> /\ sinceSync' = 0 /\ pending' = NoCursor
    /\ UNCHANGED <<files, opens, cursor, published, refusal, faults>>

ProcessGone ==
    /\ acq' = Idle /\ queue' = <<>>
    /\ wpc' = "down" /\ batch' = <<>> /\ sinceSync' = 0
    /\ pending' = NoCursor /\ published' = NoSeq
    /\ UNCHANGED <<files, opens, cursor, refusal, faults>>

KillProcess == "kill" \in faults /\ Kill /\ ProcessGone
LosePower == "powerloss" \in faults /\ PowerLoss /\ ProcessGone

-----------------------------------------------------------------------------
SourceStep == SourceGrows \/ SourceRotates \/ SourceTruncated

TaskStep ==
    \/ Read \/ Acknowledge \/ FollowChanged \/ FollowAnew

WriterStep ==
    \/ RecoverCursor \/ RefuseStart \/ BeginCapture
    \/ TakeRecords \/ AppendOne \/ StorageBlocked \/ FlushBatch
    \/ TakeCheckpoint \/ TakeFinish \/ CommitJournal \/ StoreCursor
    \/ StoreLastCursor \/ DropWriter

UserStep == StartWriter \/ StopCapture \/ AbortCapture

FailureStep == WriterIoError \/ CursorIoError \/ KillProcess \/ LosePower

Next ==
    \/ SourceStep \/ TaskStep \/ WriterStep \/ CommitDeadline \/ UserStep
    \/ FailureStep

Spec == Init /\ [][Next]_vars

(* The writer is a thread of its own and its wait is bounded by the commit *)
(* deadline, so neither it nor the deadline is put off for ever.           *)
FairSpec == Spec /\ WF_vars(WriterStep) /\ WF_vars(CommitDeadline)

-----------------------------------------------------------------------------
EventSet ==
    [kind : {"record"}, acq : 1..MaxOpens, line : Lines]
        \cup [kind : {"checkpoint"}, acq : 1..MaxOpens, ino : 1..MaxChanges + 1,
              seen : Seq(Lines)]
CursorSet ==
    [acq : 0..MaxOpens, ino : 0..MaxChanges + 1, seen : Seq(Lines), joff : Nat]

(* Types, and that a writer has its journal open exactly while it works.   *)
TypeOK ==
    /\ JournalTypeOK
    /\ files \in Seq([epoch : 0..MaxChanges, len : 0..MaxLines])
    /\ acq.phase \in {"off", "running", "rotating", "truncating", "stopped"}
    /\ acq.id \in 0..MaxOpens /\ acq.ino \in 0..MaxChanges + 1
    /\ acq.seen \in Seq(Lines) /\ acq.ckpt \in 0..Len(acq.seen)
    /\ opens \in 0..MaxOpens
    /\ queue \in Seq(EventSet)
    /\ wpc \in {"down", "recover", "opening", "idle", "append", "commit",
                "finish", "store", "finstore", "failed"}
    /\ batch \in Seq([acq : 1..MaxOpens, line : Lines])
    /\ sinceSync \in Nat
    /\ pending \in CursorSet /\ cursor \in CursorSet
    /\ published \in Nat \cup {NoSeq}
    /\ faults \in FaultPlans
    /\ wpc = "down" <=> status = "closed"

(* No loss: every line the durable cursor accounts for is in the journal,  *)
(* before the offset the cursor names, so resuming from the cursor skips   *)
(* nothing (writer.rs, struct Commit).                                     *)
CursorCovered ==
    /\ cursor.joff <= Len(file)
    /\ \A i \in 1..Len(cursor.seen) :
          \E j \in 1..cursor.joff : file[j].body.line = cursor.seen[i]

(* No gap: a line is in the journal only behind every earlier line of its  *)
(* file, through rotations, stops, aborts and restarts (lines written      *)
(* after a truncation are exempt: one may be missed between two polls).    *)
NoGap ==
    \A i \in 1..Len(file) :
       LET l == file[i].body.line
       IN  l[2] = 0 => \A k \in 1..(l[3] - 1) :
                          \E j \in 1..(i - 1) :
                             file[j].body.line = <<l[1], 0, k>>

(* README: "files resume from a durable cursor, so a restart repeats       *)
(* nothing" - when nothing but stops and aborts came between (lines        *)
(* written after a truncation are exempt: capture may meet them in the     *)
(* middle and again from the beginning).                                   *)
NothingRepeated ==
    \A i, j \in 1..Len(file) :
       i # j /\ file[i].body.line[2] = 0 =>
           file[i].body.line # file[j].body.line

(* A start is never refused by recover_file_cursor, unless the file was    *)
(* truncated under lines that only the journal accounts for ("file content *)
(* no longer matches the uncheckpointed journal tail"), or more lines than *)
(* it will read were appended since the last checkpoint.  Those behind the *)
(* cursor are lines of the cursor's own acquisition either way.            *)
OwnTail ==
    \A i \in 1..Len(JournalTail) : JournalTail[i].body.acq = cursor.acq

NeverRefused ==
    [][RefuseStart =>
         /\ OwnTail
         /\ \/ refusal' = "content" /\ files[Path].epoch > 0
            \/ refusal' = "bounds" /\ Len(JournalTail) > MaxRecovery]_vars

(* A window may read what progress promises it: the published high         *)
(* watermark is a record the journal still has.  Past the storage limit    *)
(* append_batch publishes what it has only buffered.                       *)
PublishedReadable ==
    published # NoSeq /\ "limit" \notin faults =>
       \E i \in 1..Len(file \o buffer) : (file \o buffer)[i].seq = published

(* run_writer: "a tail that goes quiet must still become durable, and the  *)
(* cursor it is holding must still be written": time and again all that    *)
(* was appended is synced and no cursor is held back.                      *)
QuietTailCommitted == []<>~Outstanding

=============================================================================
