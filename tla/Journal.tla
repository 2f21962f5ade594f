------------------------------- MODULE Journal -------------------------------
(***************************************************************************)
(* The append-only record journal of one source                            *)
(* (crates/lvu-core/src/journal.rs).                                       *)
(*                                                                         *)
(* A journal has three layers: frames buffered in the process, frames the  *)
(* filesystem has accepted, and the prefix of those that an fsync has made *)
(* durable.  Beside it lies the sequence watermark `<journal>.seq`, which  *)
(* reserves record identities in blocks and is durable before the first    *)
(* identity of a block is used.  The model keeps one frame as one element  *)
(* of a sequence, so a byte offset of the code is a number of frames here. *)
(***************************************************************************)
EXTENDS Integers, Sequences

CONSTANTS
    Body,          \* what a record carries besides its sequence
    Block,         \* SEQUENCE_BLOCK: identities reserved by one watermark
    MaxSequence,   \* u64::MAX: the last sequence there is
    WriteBuffer,   \* frames that fill WRITE_BUFFER_BYTES
    Failures       \* which failures happen: a subset of FailureKinds

FailureKinds == {"kill", "powerloss", "io"}

ASSUME JournalConstants ==
    /\ Block \in Nat \ {0}
    /\ MaxSequence \in Nat
    /\ WriteBuffer \in Nat \ {0}
    /\ Failures \subseteq FailureKinds

VARIABLES
    file,       \* frames the filesystem holds (page cache and disk)
    tail,       \* "torn" when an incomplete frame follows the last one
    durable,    \* frames of `file` that survive a power loss
    watermark,  \* content of the .seq file; 0 when there is none
    status,     \* "closed", "open" or "poisoned"
    buffer,     \* Journal::buffer
    nextSeq,    \* Journal::next_sequence
    reserved,   \* Journal::reserved_until
    issued      \* history: every sequence ever given to a record

journalVars == <<file, tail, durable, watermark, status, buffer, nextSeq,
                 reserved, issued>>

Record == [seq : Nat, body : Body]
MaxOf(a, b) == IF a >= b THEN a ELSE b

(* Frames written in order carry strictly growing sequences; the scan of   *)
(* Journal::open refuses a file where they do not.                         *)
Monotonic(s) == \A i, j \in 1..Len(s) : i < j => s[i].seq < s[j].seq

JournalInit ==
    /\ file = <<>> /\ tail = "clean" /\ durable = 0
    /\ watermark = 0
    /\ status = "closed"
    /\ buffer = <<>> /\ nextSeq = 0 /\ reserved = 0
    /\ issued = {}

-----------------------------------------------------------------------------
(* Mutant of Open: the next sequence follows the frames found, and the     *)
(* watermark of the crashed writer is forgotten.                           *)
OpenIgnoresWatermark ==
    /\ status = "closed"
    /\ Monotonic(file)
    /\ tail' = "clean"
    /\ durable' = IF tail = "torn" THEN Len(file) ELSE durable
    /\ nextSeq' = IF file = <<>> THEN 0 ELSE file[Len(file)].seq + 1
    /\ reserved' = MaxOf(watermark, nextSeq')
    /\ buffer' = <<>>
    /\ status' = "open"
    /\ UNCHANGED <<file, watermark, issued>>

(* Mutant of Open: truncation at the start of the last complete frame.     *)
OpenCutsLastFrame ==
    /\ status = "closed"
    /\ Monotonic(file)
    /\ tail' = "clean"
    /\ file' = IF tail = "torn" /\ file # <<>>
                 THEN SubSeq(file, 1, Len(file) - 1) ELSE file
    /\ durable' = IF tail = "torn" THEN Len(file') ELSE durable
    /\ nextSeq' = watermark
    /\ reserved' = nextSeq'
    /\ buffer' = <<>>
    /\ status' = "open"
    /\ UNCHANGED <<watermark, issued>>

(* Journal::open: a torn tail is cut off and the cut is fsynced, and the   *)
(* next sequence is past both the watermark and every frame found.         *)
Open ==
    /\ status = "closed"
    /\ Monotonic(file)
    /\ tail' = "clean"
    /\ durable' = IF tail = "torn" THEN Len(file) ELSE durable
    /\ nextSeq' = MaxOf(watermark,
                        IF file = <<>> THEN 0 ELSE file[Len(file)].seq + 1)
    /\ reserved' = nextSeq'
    /\ buffer' = <<>>
    /\ status' = "open"
    /\ UNCHANGED <<file, watermark, issued>>

(* append refuses when the sequence, or the reservation, would overflow.   *)
CanNumber ==
    /\ nextSeq + 1 <= MaxSequence
    /\ nextSeq + 1 > reserved => nextSeq + Block <= MaxSequence

(* The next sequence is used up; the watermark of a new block is durable   *)
(* before any frame carries a sequence of that block.                      *)
TakeSequence ==
    /\ CanNumber
    /\ IF nextSeq + 1 > reserved
         THEN watermark' = nextSeq + Block /\ reserved' = nextSeq + Block
         ELSE UNCHANGED <<watermark, reserved>>
    /\ nextSeq' = nextSeq + 1
    /\ issued' = issued \cup {nextSeq}

Framed(b) == Append(buffer, [seq |-> nextSeq, body |-> b])

(* Journal::append: a full buffer is handed to the filesystem at once.     *)
AppendRecord(b) ==
    /\ status = "open"
    /\ TakeSequence
    /\ IF Len(Framed(b)) >= WriteBuffer
         THEN file' = file \o Framed(b) /\ buffer' = <<>>
         ELSE buffer' = Framed(b) /\ UNCHANGED file
    /\ UNCHANGED <<tail, durable, status>>

(* write_all stopped somewhere in `frames`, perhaps inside a frame.        *)
PartialWrite(frames) ==
    /\ \E n \in 0..Len(frames) :
          /\ file' = file \o SubSeq(frames, 1, n)
          /\ tail' \in IF n < Len(frames) THEN {"clean", "torn"} ELSE {tail}
    /\ buffer' = <<>>

(* append whose own write_buffer fails: the record was numbered, the call  *)
(* fails, and the journal is poisoned until it is opened again.            *)
AppendWriteFails(b) ==
    /\ "io" \in Failures
    /\ status = "open"
    /\ TakeSequence
    /\ Len(Framed(b)) >= WriteBuffer
    /\ PartialWrite(Framed(b))
    /\ status' = "poisoned"
    /\ UNCHANGED durable

(* write_watermark fails before, or after, its rename took effect; append  *)
(* returns the error with the journal itself as it was.                    *)
ReserveFails ==
    /\ "io" \in Failures
    /\ status = "open"
    /\ CanNumber
    /\ nextSeq + 1 > reserved
    /\ watermark' \in {watermark, nextSeq + Block}
    /\ UNCHANGED <<file, tail, durable, status, buffer, nextSeq, reserved,
                   issued>>

(* Mutant of Flush: the buffer is cleared before its write.                *)
FlushClearsFirst ==
    /\ status = "open"
    /\ buffer' = <<>>
    /\ UNCHANGED <<file, tail, durable, watermark, status, nextSeq, reserved,
                   issued>>

(* Journal::flush, and the write_buffer call of read_page.                 *)
Flush ==
    /\ status = "open"
    /\ file' = file \o buffer
    /\ buffer' = <<>>
    /\ UNCHANGED <<tail, durable, watermark, status, nextSeq, reserved, issued>>

(* Journal::sync_data.                                                     *)
SyncData ==
    /\ status = "open"
    /\ file' = file \o buffer
    /\ buffer' = <<>>
    /\ durable' = Len(file')
    /\ UNCHANGED <<tail, watermark, status, nextSeq, reserved, issued>>

(* flush or sync_data fails, in its write or (everything written) in the   *)
(* fsync after it; either poisons the journal.                             *)
WriteFails ==
    /\ "io" \in Failures
    /\ status = "open"
    /\ PartialWrite(buffer)
    /\ status' = "poisoned"
    /\ UNCHANGED <<durable, watermark, nextSeq, reserved, issued>>

(* Drop for Journal: the descriptor closes; nothing is written.            *)
Close ==
    /\ status # "closed"
    /\ status' = "closed"
    /\ buffer' = <<>>
    /\ UNCHANGED <<file, tail, durable, watermark, nextSeq, reserved, issued>>

(* The process is killed; what the filesystem accepted stays.              *)
Kill ==
    /\ "kill" \in Failures
    /\ status # "closed"
    /\ PartialWrite(buffer)
    /\ status' = "closed"
    /\ UNCHANGED <<durable, watermark, nextSeq, reserved, issued>>

(* Power is lost: any suffix that no fsync covered may be gone.            *)
PowerLoss ==
    /\ "powerloss" \in Failures
    /\ \E n \in durable..Len(file) :
          /\ file' = SubSeq(file, 1, n)
          /\ durable' = n
          /\ tail' \in IF n < Len(file) THEN {"clean", "torn"} ELSE {tail}
    /\ buffer' = <<>>
    /\ status' = "closed"
    /\ UNCHANGED <<watermark, nextSeq, reserved, issued>>

JournalNext ==
    \/ Open
    \/ \E b \in Body : AppendRecord(b) \/ AppendWriteFails(b)
    \/ ReserveFails
    \/ Flush
    \/ SyncData
    \/ WriteFails
    \/ Close
    \/ Kill
    \/ PowerLoss

JournalSpec == JournalInit /\ [][JournalNext]_journalVars

-----------------------------------------------------------------------------
(* Types: durable counts frames of the file, and a closed journal buffers  *)
(* nothing (journal.rs, struct Journal and its .seq file).                 *)
JournalTypeOK ==
    /\ file \in Seq(Record) /\ buffer \in Seq(Record)
    /\ tail \in {"clean", "torn"}
    /\ durable \in 0..Len(file)
    /\ watermark \in Nat /\ nextSeq \in Nat /\ reserved \in Nat
    /\ status \in {"closed", "open", "poisoned"}
    /\ status # "open" => buffer = <<>>
    /\ issued \subseteq Nat

(* Identity: the sequence append gives next was never given before, not    *)
(* even to a record that a crash has since taken away, and the file never  *)
(* reaches the state Journal::open refuses as "non-monotonic sequence".    *)
IdentityNeverReused ==
    /\ status = "open" => \A s \in issued : s < nextSeq
    /\ Monotonic(file \o buffer)

(* Durability: once sync_data has returned, no step, failure or recovery   *)
(* shortens or rewrites the frames it covered.                             *)
DurablePrefixKept ==
    [][/\ durable' >= durable
       /\ SubSeq(file', 1, durable) = SubSeq(file, 1, durable)]_journalVars

(* The journal seen as the log it promises to be.                          *)
Promise == INSTANCE RecordLog WITH
    Content <- Body, Identity <- 0..MaxSequence,
    up <- (status = "open"), log <- file \o buffer, hard <- durable,
    used <- issued

(* Refinement: every operation, failure and recovery of the journal is an  *)
(* operation or a failure of the abstract log (journal.rs as a whole).     *)
ImplementsRecordLog == Promise!LogSpec

-----------------------------------------------------------------------------
(* Every identity given out is below the durable watermark, which is why   *)
(* an open after any crash starts above all of them (journal.rs, append).  *)
IssuedBelowWatermark == \A s \in issued : s < watermark

(* What carries IdentityNeverReused from one step to the next.             *)
JournalInv ==
    /\ JournalTypeOK
    /\ IdentityNeverReused
    /\ IssuedBelowWatermark
    /\ \A i \in 1..Len(file \o buffer) : (file \o buffer)[i].seq \in issued
    /\ status = "open" => nextSeq <= reserved /\ reserved <= watermark

=============================================================================
