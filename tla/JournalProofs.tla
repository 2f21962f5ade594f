---------------------------- MODULE JournalProofs ----------------------------
(***************************************************************************)
(* Proofs about the journal, for every block size, buffer size, sequence   *)
(* width and set of failures.                                              *)
(***************************************************************************)
EXTENDS Journal, TLAPS

-----------------------------------------------------------------------------
(* Facts about sequences of frames.                                        *)

(* A prefix of a journal that append produced is one append could have     *)
(* produced: what a torn write or a power loss leaves is still ordered.    *)
LEMMA PrefixMonotonic ==
    ASSUME NEW s \in Seq(Record), NEW n \in 0..Len(s), Monotonic(s)
    PROVE  /\ SubSeq(s, 1, n) \in Seq(Record)
           /\ Len(SubSeq(s, 1, n)) = n
           /\ \A i \in 1..n : SubSeq(s, 1, n)[i] = s[i]
           /\ Monotonic(SubSeq(s, 1, n))
  BY DEF Monotonic

(* The part of the buffer that was written before a failure joins the file *)
(* as a prefix of everything append had accepted.                          *)
LEMMA PartialIsPrefix ==
    ASSUME NEW s \in Seq(Record), NEW t \in Seq(Record), NEW n \in 0..Len(t)
    PROVE  /\ s \o SubSeq(t, 1, n) = SubSeq(s \o t, 1, Len(s) + n)
           /\ s \o SubSeq(t, 1, n) \in Seq(Record)
           /\ Len(s \o SubSeq(t, 1, n)) = Len(s) + n
           /\ Len(s \o t) = Len(s) + Len(t)
           /\ Len(s) \in Nat /\ Len(t) \in Nat
  OBVIOUS

(* A frame whose sequence is above all others keeps the order.             *)
LEMMA AppendMonotonic ==
    ASSUME NEW s \in Seq(Record), NEW r \in Record, Monotonic(s),
           \A i \in 1..Len(s) : s[i].seq < r.seq
    PROVE  /\ Append(s, r) \in Seq(Record)
           /\ Monotonic(Append(s, r))
  BY DEF Monotonic

(* A frame appended to the buffer is appended to the whole journal.        *)
LEMMA AppendAtEnd ==
    ASSUME NEW s \in Seq(Record), NEW t \in Seq(Record), NEW r \in Record
    PROVE  s \o Append(t, r) = Append(s \o t, r)
  OBVIOUS

-----------------------------------------------------------------------------
(* The order of the whole journal and where its sequences come from: the   *)
(* part of JournalInv that depends on the frames alone.                    *)
FramesOK(frames, given) ==
    /\ frames \in Seq(Record)
    /\ Monotonic(frames)
    /\ \A i \in 1..Len(frames) : frames[i].seq \in given

LEMMA FramesPrefix ==
    ASSUME NEW s, NEW given, FramesOK(s, given), NEW n \in 0..Len(s)
    PROVE  FramesOK(SubSeq(s, 1, n), given)
  BY PrefixMonotonic DEF FramesOK

LEMMA FramesAppend ==
    ASSUME NEW s, NEW given, FramesOK(s, given), NEW r \in Record,
           \A g \in given : g < r.seq
    PROVE  FramesOK(Append(s, r), given \cup {r.seq})
  <1>1. \A i \in 1..Len(s) : s[i].seq < r.seq
    BY DEF FramesOK
  <1>2. Append(s, r) \in Seq(Record) /\ Monotonic(Append(s, r))
    BY <1>1, AppendMonotonic DEF FramesOK
  <1>3. \A i \in 1..Len(Append(s, r)) :
           Append(s, r)[i].seq \in given \cup {r.seq}
    BY DEF FramesOK
  <1> QED  BY <1>2, <1>3 DEF FramesOK

LEMMA InvFrames == JournalInv => FramesOK(file \o buffer, issued)
  BY DEF JournalInv, JournalTypeOK, IdentityNeverReused, FramesOK

-----------------------------------------------------------------------------
LEMMA InitInv == JournalInit => JournalInv
  BY JournalConstants DEF JournalInit, JournalInv, JournalTypeOK,
     IdentityNeverReused, IssuedBelowWatermark, Monotonic

(* Open starts above the watermark, hence above every identity.            *)
LEMMA OpenInv == JournalInv /\ Open => JournalInv'
  <1> SUFFICES ASSUME JournalInv, Open PROVE JournalInv'
    OBVIOUS
  <1> USE DEF JournalInv, JournalTypeOK
  <1>1. buffer = <<>> /\ file \o buffer = file /\ (file \o buffer)' = file
    BY DEF Open
  <1>2. FramesOK(file, issued)
    BY <1>1, InvFrames
  <1>3. file # <<>> => file[Len(file)].seq \in Nat /\ file[Len(file)].seq < watermark
    <2> SUFFICES ASSUME file # <<>>
                 PROVE file[Len(file)].seq \in Nat /\ file[Len(file)].seq < watermark
      OBVIOUS
    <2>1. Len(file) \in 1..Len(file)
      OBVIOUS
    <2>2. file[Len(file)] \in Record
      BY <2>1
    <2> QED  BY <2>1, <2>2, <1>2 DEF FramesOK, IssuedBelowWatermark, Record
  <1>4. nextSeq' = watermark /\ reserved' = watermark
    BY <1>3 DEF Open, MaxOf
  <1>5. JournalTypeOK'
    BY <1>4 DEF Open
  <1>6. IdentityNeverReused'
    BY <1>1, <1>2, <1>4 DEF Open, IdentityNeverReused, IssuedBelowWatermark, FramesOK
  <1> QED  BY <1>1, <1>2, <1>4, <1>5, <1>6 DEF Open, IssuedBelowWatermark, FramesOK

(* The new identity is above all others and below the new watermark.       *)
LEMMA TakeSequenceBounds ==
    ASSUME JournalInv, status = "open", TakeSequence
    PROVE  /\ nextSeq \in 0..MaxSequence
           /\ nextSeq' = nextSeq + 1
           /\ watermark' \in Nat /\ reserved' \in Nat
           /\ issued' = issued \cup {nextSeq}
           /\ \A s \in issued : s < nextSeq
           /\ IssuedBelowWatermark'
           /\ nextSeq' <= reserved' /\ reserved' <= watermark'
  BY JournalConstants DEF TakeSequence, CanNumber, JournalInv, JournalTypeOK,
     IdentityNeverReused, IssuedBelowWatermark

LEMMA FramedOK ==
    ASSUME JournalInv, status = "open", TakeSequence, NEW b \in Body
    PROVE  /\ Framed(b) \in Seq(Record)
           /\ file \o Framed(b) =
                 Append(file \o buffer, [seq |-> nextSeq, body |-> b])
           /\ FramesOK(file \o Framed(b), issued')
           /\ Len(file \o Framed(b)) = Len(file \o buffer) + 1
           /\ Len(file \o Framed(b)) = Len(file) + Len(Framed(b))
  <1> DEFINE r == [seq |-> nextSeq, body |-> b]
  <1>1. file \in Seq(Record) /\ buffer \in Seq(Record) /\ r \in Record
    BY DEF JournalInv, JournalTypeOK, Record
  <1>2. FramesOK(file \o buffer, issued)
    BY InvFrames
  <1>3. FramesOK(Append(file \o buffer, r), issued \cup {r.seq})
    <2>1. \A g \in issued : g < r.seq
      BY TakeSequenceBounds
    <2> QED  BY <1>1, <1>2, <2>1, FramesAppend
  <1>4. file \o Framed(b) = Append(file \o buffer, r)
    BY <1>1, AppendAtEnd DEF Framed
  <1>5. issued' = issued \cup {r.seq}
    BY TakeSequenceBounds
  <1>6. Framed(b) \in Seq(Record) /\ Len(Framed(b)) = Len(buffer) + 1
    BY <1>1 DEF Framed
  <1>7. /\ Len(file \o Framed(b)) = Len(file) + Len(Framed(b))
        /\ Len(file \o buffer) = Len(file) + Len(buffer)
        /\ Len(file) \in Nat /\ Len(buffer) \in Nat
    BY <1>1, <1>6
  <1> HIDE DEF r
  <1>8. /\ FramesOK(file \o Framed(b), issued')
        /\ Len(file \o Framed(b)) = Len(file \o buffer) + 1
    BY <1>3, <1>4, <1>5, <1>6, <1>7
  <1> QED  BY <1>4, <1>6, <1>7, <1>8 DEF r

(* The frame joins the journal at its end, written out or still buffered.  *)
LEMMA AppendFrames ==
    ASSUME NEW b \in Body, JournalInv, AppendRecord(b)
    PROVE  /\ file' \in Seq(Record) /\ buffer' \in Seq(Record)
           /\ (file \o buffer)' = file \o Framed(b)
           /\ durable \in 0..Len(file')
           /\ FramesOK(file \o Framed(b), issued')
           /\ \A n \in 0..Len(file) : SubSeq(file', 1, n) = SubSeq(file, 1, n)
  <1>1. status = "open" /\ TakeSequence
    BY DEF AppendRecord
  <1>2. /\ Framed(b) \in Seq(Record)
        /\ FramesOK(file \o Framed(b), issued')
        /\ Len(file \o Framed(b)) = Len(file) + Len(Framed(b))
    BY <1>1, FramedOK
  <1>3. file \in Seq(Record) /\ durable \in 0..Len(file) /\ Len(file) \in Nat
    BY DEF JournalInv, JournalTypeOK
  <1>4. CASE Len(Framed(b)) >= WriteBuffer
    <2>1. file' = file \o Framed(b) /\ buffer' = <<>>
      BY <1>4 DEF AppendRecord
    <2> QED  BY <2>1, <1>2, <1>3 DEF FramesOK
  <1>5. CASE ~(Len(Framed(b)) >= WriteBuffer)
    <2>1. file' = file /\ buffer' = Framed(b)
      BY <1>5 DEF AppendRecord
    <2> QED  BY <2>1, <1>2, <1>3
  <1> QED  BY <1>4, <1>5

LEMMA AppendInv ==
    ASSUME NEW b \in Body, JournalInv, AppendRecord(b)
    PROVE  JournalInv'
  <1>1. status = "open" /\ TakeSequence
    BY DEF AppendRecord
  <1>2. status' = "open" /\ durable' = durable /\ tail' = tail
    BY DEF AppendRecord
  <1>3. issued \subseteq Nat /\ nextSeq \in Nat /\ tail \in {"clean", "torn"}
    BY DEF JournalInv, JournalTypeOK
  <1>8. /\ nextSeq' = nextSeq + 1 /\ issued' = issued \cup {nextSeq}
        /\ watermark' \in Nat /\ reserved' \in Nat
        /\ \A s \in issued : s < nextSeq
    BY <1>1, TakeSequenceBounds
  <1>9. /\ file' \in Seq(Record) /\ buffer' \in Seq(Record)
        /\ durable \in 0..Len(file')
    BY AppendFrames
  <1>4. JournalTypeOK'
    BY <1>2, <1>3, <1>8, <1>9 DEF JournalTypeOK
  <1>5. \A s \in issued' : s < nextSeq'
    BY <1>3, <1>8
  <1>6. IdentityNeverReused'
    BY <1>5, AppendFrames DEF IdentityNeverReused, FramesOK
  <1>7. \A i \in 1..Len((file \o buffer)') : (file \o buffer)'[i].seq \in issued'
    BY AppendFrames DEF FramesOK
  <1> QED  BY <1>1, <1>4, <1>6, <1>7, TakeSequenceBounds DEF JournalInv

(* What a write that stopped half way leaves is a prefix of what it had.   *)
LEMMA PartialWriteIsPrefix ==
    ASSUME JournalTypeOK, NEW frames \in Seq(Record), PartialWrite(frames),
           NEW given, FramesOK(file \o frames, given)
    PROVE  /\ file' \in Seq(Record) /\ buffer' = <<>>
           /\ (file \o buffer)' = file'
           /\ durable \in 0..Len(file')
           /\ tail' \in {"clean", "torn"}
           /\ FramesOK(file', given)
           /\ \E n \in Len(file)..Len(file \o frames) :
                 file' = SubSeq(file \o frames, 1, n)
           /\ \A n \in 0..Len(file) : SubSeq(file', 1, n) = SubSeq(file, 1, n)
  <1>1. PICK n \in 0..Len(frames) : /\ file' = file \o SubSeq(frames, 1, n)
                                   /\ tail' \in {"clean", "torn", tail}
    BY DEF PartialWrite
  <1>2. file \in Seq(Record) /\ durable \in 0..Len(file) /\ tail \in {"clean", "torn"}
    BY DEF JournalTypeOK
  <1>3. /\ file' = SubSeq(file \o frames, 1, Len(file) + n)
        /\ file' \in Seq(Record)
        /\ Len(file') = Len(file) + n
        /\ Len(file \o frames) = Len(file) + Len(frames)
        /\ Len(file) \in Nat /\ Len(frames) \in Nat
    BY <1>1, <1>2, PartialIsPrefix
  <1>4. /\ Len(file) + n \in Len(file)..Len(file \o frames)
        /\ Len(file) + n \in 0..Len(file \o frames)
        /\ durable \in 0..Len(file')
    BY <1>1, <1>2, <1>3
  <1>5. FramesOK(file', given)
    BY <1>3, <1>4, FramesPrefix
  <1>6. buffer' = <<>> /\ (file \o buffer)' = file'
    BY <1>3 DEF PartialWrite
  <1>7. \A k \in 0..Len(file) : SubSeq(file', 1, k) = SubSeq(file, 1, k)
    BY <1>1, <1>2
  <1> QED  BY <1>1, <1>2, <1>3, <1>4, <1>5, <1>6, <1>7

(* A step that goes down keeps, of the frames, a prefix; identities are    *)
(* never taken back.                                                       *)
LEMMA DownInv ==
    ASSUME JournalInv, status' # "open", status' \in {"closed", "poisoned"},
           file' \in Seq(Record), buffer' = <<>>, (file \o buffer)' = file',
           tail' \in {"clean", "torn"}, durable' \in 0..Len(file'),
           FramesOK(file', issued'), IssuedBelowWatermark',
           issued' \subseteq Nat, watermark' \in Nat, nextSeq' \in Nat,
           reserved' \in Nat
    PROVE  JournalInv'
  BY DEF JournalInv, JournalTypeOK, IdentityNeverReused, FramesOK

LEMMA AppendWriteFailsInv ==
    ASSUME NEW b \in Body, JournalInv, AppendWriteFails(b)
    PROVE  JournalInv'
  <1>1. status = "open" /\ TakeSequence /\ PartialWrite(Framed(b))
        /\ status' = "poisoned" /\ durable' = durable
    BY DEF AppendWriteFails
  <1>2. JournalTypeOK
    BY DEF JournalInv
  <1>3. Framed(b) \in Seq(Record) /\ FramesOK(file \o Framed(b), issued')
    BY <1>1, FramedOK
  <1>4. /\ file' \in Seq(Record) /\ buffer' = <<>> /\ (file \o buffer)' = file'
        /\ durable \in 0..Len(file') /\ tail' \in {"clean", "torn"}
        /\ FramesOK(file', issued')
    BY <1>1, <1>2, <1>3, PartialWriteIsPrefix
  <1>5. /\ nextSeq \in Nat /\ nextSeq' = nextSeq + 1
        /\ issued' = issued \cup {nextSeq} /\ issued \subseteq Nat
        /\ watermark' \in Nat /\ reserved' \in Nat /\ IssuedBelowWatermark'
    BY <1>1, <1>2, TakeSequenceBounds DEF JournalTypeOK
  <1>6. issued' \subseteq Nat /\ nextSeq' \in Nat
    BY <1>5
  <1> QED  BY <1>1, <1>4, <1>5, <1>6, DownInv

LEMMA PartialBufferInv ==
    ASSUME JournalInv, PartialWrite(buffer), status' \in {"closed", "poisoned"},
           UNCHANGED <<durable, watermark, nextSeq, reserved, issued>>
    PROVE  JournalInv'
  <1>1. JournalTypeOK /\ buffer \in Seq(Record) /\ FramesOK(file \o buffer, issued)
    BY InvFrames DEF JournalInv, JournalTypeOK
  <1>2. /\ file' \in Seq(Record) /\ buffer' = <<>> /\ (file \o buffer)' = file'
        /\ durable \in 0..Len(file') /\ tail' \in {"clean", "torn"}
        /\ FramesOK(file', issued)
    BY <1>1, PartialWriteIsPrefix
  <1>3. /\ IssuedBelowWatermark' /\ issued' = issued /\ issued' \subseteq Nat
        /\ watermark' \in Nat /\ nextSeq' \in Nat /\ reserved' \in Nat
    BY <1>1 DEF JournalInv, JournalTypeOK, IssuedBelowWatermark
  <1> QED  BY <1>2, <1>3, DownInv

LEMMA PowerLossInv == JournalInv /\ PowerLoss => JournalInv'
  <1> SUFFICES ASSUME JournalInv, PowerLoss PROVE JournalInv'
    OBVIOUS
  <1>1. JournalTypeOK /\ file \in Seq(Record) /\ durable \in 0..Len(file)
    BY DEF JournalInv, JournalTypeOK
  <1>2. PICK n \in durable..Len(file) :
             /\ file' = SubSeq(file, 1, n) /\ durable' = n
             /\ tail' \in {"clean", "torn", tail}
    BY DEF PowerLoss
  <1>3. FramesOK(file, issued)
    <2>1. FramesOK(file \o buffer, issued)
      BY InvFrames
    <2>2. file = SubSeq(file \o buffer, 1, Len(file))
          /\ Len(file) \in 0..Len(file \o buffer)
      BY DEF JournalInv, JournalTypeOK
    <2> QED  BY <2>1, <2>2, FramesPrefix
  <1>4. FramesOK(file', issued) /\ file' \in Seq(Record) /\ Len(file') = n
    <2>1. n \in 0..Len(file)
      BY <1>1
    <2> QED  BY <1>1, <1>2, <1>3, <2>1, FramesPrefix
  <1>5. buffer' = <<>> /\ status' = "closed" /\ (file \o buffer)' = file'
    BY <1>4 DEF PowerLoss
  <1>6. /\ IssuedBelowWatermark' /\ issued' = issued /\ issued' \subseteq Nat
        /\ watermark' \in Nat /\ nextSeq' \in Nat /\ reserved' \in Nat
    BY DEF JournalInv, JournalTypeOK, IssuedBelowWatermark, PowerLoss
  <1>7. durable' \in 0..Len(file') /\ tail' \in {"clean", "torn"}
    BY <1>1, <1>2, <1>4 DEF JournalTypeOK
  <1> QED  BY <1>4, <1>5, <1>6, <1>7, DownInv

LEMMA CloseInv == JournalInv /\ Close => JournalInv'
  <1> SUFFICES ASSUME JournalInv, Close PROVE JournalInv'
    OBVIOUS
  <1>1. file \in Seq(Record) /\ buffer \in Seq(Record)
    BY DEF JournalInv, JournalTypeOK
  <1>2. file' = file /\ buffer' = <<>> /\ (file \o buffer)' = file
    BY <1>1 DEF Close
  <1>3. FramesOK(file, issued)
    <2>1. FramesOK(file \o buffer, issued)
      BY InvFrames
    <2>2. file = SubSeq(file \o buffer, 1, Len(file))
          /\ Len(file) \in 0..Len(file \o buffer)
      BY <1>1
    <2> QED  BY <2>1, <2>2, FramesPrefix
  <1> QED  BY <1>1, <1>2, <1>3, DownInv
           DEF Close, JournalInv, JournalTypeOK, IssuedBelowWatermark

(* Handing the buffer over changes neither the frames nor their numbers.   *)
LEMMA HandOverInv ==
    ASSUME JournalInv, file' = file \o buffer, buffer' = <<>>,
           durable' \in {durable, Len(file')}, status = "open",
           UNCHANGED <<tail, watermark, status, nextSeq, reserved, issued>>
    PROVE  JournalInv'
  <1>1. file \in Seq(Record) /\ buffer \in Seq(Record) /\ durable \in 0..Len(file)
    BY DEF JournalInv, JournalTypeOK
  <1>2. /\ file' \in Seq(Record) /\ (file \o buffer)' = file \o buffer
        /\ durable' \in 0..Len(file')
    BY <1>1
  <1>3. JournalTypeOK'
    BY <1>2 DEF JournalInv, JournalTypeOK
  <1>4. IdentityNeverReused'
    BY <1>2 DEF JournalInv, IdentityNeverReused
  <1> QED  BY <1>2, <1>3, <1>4 DEF JournalInv, IssuedBelowWatermark

LEMMA StepInv == JournalInv /\ [JournalNext]_journalVars => JournalInv'
  <1> SUFFICES ASSUME JournalInv, [JournalNext]_journalVars PROVE JournalInv'
    OBVIOUS
  <1>1. CASE Open
    BY <1>1, OpenInv
  <1>2. ASSUME NEW b \in Body, AppendRecord(b) PROVE JournalInv'
    BY <1>2, AppendInv
  <1>3. ASSUME NEW b \in Body, AppendWriteFails(b) PROVE JournalInv'
    BY <1>3, AppendWriteFailsInv
  <1>4. CASE ReserveFails
    BY <1>4, JournalConstants DEF ReserveFails, CanNumber, JournalInv,
       JournalTypeOK, IdentityNeverReused, IssuedBelowWatermark
  <1>5. CASE Flush
    BY <1>5, HandOverInv DEF Flush
  <1>6. CASE SyncData
    BY <1>6, HandOverInv DEF SyncData
  <1>7. CASE WriteFails
    BY <1>7, PartialBufferInv DEF WriteFails
  <1>8. CASE Close
    BY <1>8, CloseInv
  <1>9. CASE Kill
    BY <1>9, PartialBufferInv DEF Kill
  <1>10. CASE PowerLoss
    BY <1>10, PowerLossInv
  <1>11. CASE UNCHANGED journalVars
    BY <1>11 DEF journalVars, JournalInv, JournalTypeOK, IdentityNeverReused,
       IssuedBelowWatermark
  <1> QED  BY <1>1, <1>2, <1>3, <1>4, <1>5, <1>6, <1>7, <1>8, <1>9, <1>10,
              <1>11 DEF JournalNext

(* The inductive invariant of the journal, under every combination of      *)
(* failures (journal.rs as a whole).                                       *)
THEOREM JournalInvariant == JournalSpec => []JournalInv
  BY InitInv, StepInv, PTL DEF JournalSpec

(* Types of the journal's state hold in every reachable state.             *)
THEOREM JournalTypes == JournalSpec => []JournalTypeOK
  <1>1. JournalInv => JournalTypeOK
    BY DEF JournalInv
  <1> QED  BY <1>1, JournalInvariant, PTL

(* No sequence is ever given to two records, whatever crashes and I/O      *)
(* errors intervene, and Journal::open never meets a file it refuses as    *)
(* non-monotonic.                                                          *)
THEOREM JournalIdentity == JournalSpec => []IdentityNeverReused
  <1>1. JournalInv => IdentityNeverReused
    BY DEF JournalInv
  <1> QED  BY <1>1, JournalInvariant, PTL

-----------------------------------------------------------------------------
(* One step keeps the durable frames.                                      *)
LEMMA StepDurable ==
    ASSUME JournalInv, [JournalNext]_journalVars
    PROVE  /\ durable' >= durable
           /\ SubSeq(file', 1, durable) = SubSeq(file, 1, durable)
  <1>1. /\ JournalTypeOK /\ file \in Seq(Record) /\ buffer \in Seq(Record)
        /\ durable \in 0..Len(file) /\ durable \in Nat /\ Len(file) \in Nat
    BY DEF JournalInv, JournalTypeOK
  <1>2. CASE UNCHANGED <<file, durable>>
    BY <1>1, <1>2
  <1>3. CASE Open
    BY <1>1, <1>3 DEF Open
  <1>4. ASSUME NEW b \in Body, AppendRecord(b)
        PROVE  /\ durable' >= durable
               /\ SubSeq(file', 1, durable) = SubSeq(file, 1, durable)
    BY <1>1, <1>4, AppendFrames DEF AppendRecord
  <1>5. ASSUME NEW frames \in Seq(Record), PartialWrite(frames), durable' = durable
        PROVE  /\ durable' >= durable
               /\ SubSeq(file', 1, durable) = SubSeq(file, 1, durable)
    BY <1>1, <1>5 DEF PartialWrite
  <1>6. ASSUME NEW b \in Body, AppendWriteFails(b)
        PROVE  /\ durable' >= durable
               /\ SubSeq(file', 1, durable) = SubSeq(file, 1, durable)
    BY <1>1, <1>5, <1>6, FramedOK DEF AppendWriteFails
  <1>7. CASE Flush \/ SyncData
    <2>1. file' = file \o buffer /\ durable' \in {durable, Len(file \o buffer)}
      BY <1>7 DEF Flush, SyncData
    <2> QED  BY <1>1, <2>1
  <1>8. CASE WriteFails \/ Kill
    BY <1>1, <1>5, <1>8 DEF WriteFails, Kill
  <1>9. CASE PowerLoss
    <2>1. PICK n \in durable..Len(file) : file' = SubSeq(file, 1, n) /\ durable' = n
      BY <1>9 DEF PowerLoss
    <2> QED  BY <1>1, <2>1
  <1> QED  BY <1>2, <1>3, <1>4, <1>6, <1>7, <1>8, <1>9
           DEF JournalNext, ReserveFails, Close, journalVars

(* What sync_data has covered is never shortened or rewritten.             *)
THEOREM JournalDurability == JournalSpec => DurablePrefixKept
  <1>1. JournalInv /\ [JournalNext]_journalVars =>
          [/\ durable' >= durable
           /\ SubSeq(file', 1, durable) = SubSeq(file, 1, durable)]_journalVars
    BY StepDurable
  <1> QED  BY <1>1, JournalInvariant, PTL DEF JournalSpec, DurablePrefixKept

-----------------------------------------------------------------------------
(* The refinement: a step of the journal is a step of the log it promises. *)
LEMMA PartialIsGoDown ==
    ASSUME JournalInv, PartialWrite(buffer), status' \in {"closed", "poisoned"},
           UNCHANGED <<durable, issued>>
    PROVE  Promise!GoDown
  <1>1. JournalTypeOK /\ buffer \in Seq(Record) /\ FramesOK(file \o buffer, issued)
    BY InvFrames DEF JournalInv, JournalTypeOK
  <1>2. (file \o buffer)' = file'
    BY <1>1, PartialWriteIsPrefix
  <1>3. PICK n \in Len(file)..Len(file \o buffer) :
             file' = SubSeq(file \o buffer, 1, n)
    BY <1>1, PartialWriteIsPrefix
  <1>4. n \in durable..Len(file \o buffer)
    BY <1>1 DEF JournalTypeOK
  <1> QED  BY <1>2, <1>3, <1>4 DEF Promise!GoDown

LEMMA StepRefines ==
    ASSUME JournalInv, [JournalNext]_journalVars
    PROVE  [Promise!LogNext]_(Promise!logVars)
  <1> DEFINE log == file \o buffer
  <1>1. /\ JournalTypeOK /\ file \in Seq(Record) /\ buffer \in Seq(Record)
        /\ durable \in 0..Len(file) /\ durable \in Nat /\ Len(file) \in Nat
    BY DEF JournalInv, JournalTypeOK
  <1>2. log \in Seq(Record) /\ Len(log) = Len(file) + Len(buffer) /\ Len(buffer) \in Nat
    BY <1>1
  <1>3. CASE Open
    <2>1. log = file /\ log' = file /\ status = "closed" /\ status' = "open"
          /\ issued' = issued /\ durable' \in {durable, Len(file)}
      BY <1>1, <1>3 DEF Open, JournalTypeOK
    <2>2. durable' \in durable..Len(log)
      BY <1>1, <2>1
    <2> QED  BY <2>1, <2>2 DEF Promise!LogNext, Promise!Recover
  <1>4. ASSUME NEW b \in Body, AppendRecord(b) PROVE Promise!Accept
    <2>1. status = "open" /\ status' = "open" /\ TakeSequence /\ durable' = durable
      BY <1>4 DEF AppendRecord
    <2>2. log' = Append(log, [seq |-> nextSeq, body |-> b])
      BY <1>4, <2>1, AppendFrames, FramedOK
    <2>3. nextSeq \in 0..MaxSequence /\ issued' = issued \cup {nextSeq}
          /\ \A u \in issued : u < nextSeq
      BY <2>1, TakeSequenceBounds
    <2> QED  BY <2>1, <2>2, <2>3
             DEF Promise!Accept, Promise!Fresh, Promise!Entry
  <1>5. ASSUME NEW b \in Body, AppendWriteFails(b) PROVE Promise!AcceptFails
    <2>1. status = "open" /\ status' = "poisoned" /\ TakeSequence
          /\ durable' = durable /\ PartialWrite(Framed(b))
      BY <1>5 DEF AppendWriteFails
    <2>2. /\ file \o Framed(b) = Append(log, [seq |-> nextSeq, body |-> b])
          /\ Framed(b) \in Seq(Record) /\ FramesOK(file \o Framed(b), issued')
          /\ Len(file \o Framed(b)) = Len(log) + 1
      BY <2>1, FramedOK
    <2>3. log' = file'
      BY <1>1, <2>1, <2>2, PartialWriteIsPrefix
    <2>4. PICK n \in Len(file)..Len(log) + 1 : file' = SubSeq(file \o Framed(b), 1, n)
      BY <1>1, <2>1, <2>2, PartialWriteIsPrefix
    <2>5. n \in durable..Len(log) + 1
      BY <1>1
    <2>6. nextSeq \in 0..MaxSequence /\ issued' = issued \cup {nextSeq}
          /\ \A u \in issued : u < nextSeq
      BY <2>1, TakeSequenceBounds
    <2> QED  BY <2>1, <2>2, <2>3, <2>4, <2>5, <2>6
             DEF Promise!AcceptFails, Promise!Fresh, Promise!Entry
  <1>6. CASE ReserveFails
    BY <1>6 DEF ReserveFails, Promise!logVars
  <1>7. CASE Flush
    <2>1. log' = log
      BY <1>1, <1>7 DEF Flush
    <2> QED  BY <1>7, <2>1 DEF Flush, Promise!logVars
  <1>8. CASE SyncData
    <2>1. log' = log /\ durable' = Len(log)
      BY <1>1, <1>8 DEF SyncData
    <2>2. durable' \in durable..Len(log)
      BY <1>1, <1>2, <2>1
    <2> QED  BY <1>8, <2>1, <2>2 DEF SyncData, Promise!LogNext, Promise!Harden
  <1>9. CASE WriteFails \/ Kill
    BY <1>9, PartialIsGoDown DEF WriteFails, Kill, Promise!LogNext
  <1>10. CASE Close
    <2>1. log' = SubSeq(log, 1, Len(file)) /\ Len(file) \in durable..Len(log)
      BY <1>1, <1>2, <1>10 DEF Close
    <2> QED  BY <1>10, <2>1 DEF Close, Promise!LogNext, Promise!GoDown
  <1>11. CASE PowerLoss
    <2>1. PICK n \in durable..Len(file) :
             file' = SubSeq(file, 1, n) /\ durable' = n
      BY <1>11 DEF PowerLoss
    <2>2. n \in 0..Len(file) /\ n \in durable..Len(log)
      BY <1>1, <1>2
    <2>3. log' = SubSeq(log, 1, n)
      <3>1. log' = SubSeq(file, 1, n)
        BY <1>1, <1>11, <2>1, <2>2 DEF PowerLoss
      <3>2. SubSeq(log, 1, n) = SubSeq(file, 1, n)
        BY <1>1, <2>2
      <3> QED  BY <3>1, <3>2
    <2> QED  BY <1>11, <2>1, <2>2, <2>3 DEF PowerLoss, Promise!LogNext, Promise!GoDown
  <1>12. CASE UNCHANGED journalVars
    BY <1>12 DEF journalVars, Promise!logVars
  <1> QED  BY <1>3, <1>4, <1>5, <1>6, <1>7, <1>8, <1>9, <1>10, <1>11, <1>12
           DEF JournalNext, Promise!LogNext

(* The journal implements the abstract log, so the promises of RecordLog   *)
(* hold of it whatever fails and however often it is reopened.             *)
THEOREM JournalRefinement == JournalSpec => ImplementsRecordLog
  <1>1. JournalInit => Promise!LogInit
    BY DEF JournalInit, Promise!LogInit
  <1>2. JournalInv /\ [JournalNext]_journalVars => [Promise!LogNext]_(Promise!logVars)
    BY StepRefines
  <1> QED  BY <1>1, <1>2, JournalInvariant, PTL
           DEF JournalSpec, ImplementsRecordLog, Promise!LogSpec

=============================================================================
