-------------------------- MODULE RemoteReadProofs --------------------------
(***************************************************************************)
(* What a window reads of a capture that the shared worker owns: within    *)
(* one generation rows of one journal file only, and a distrust that the   *)
(* next generation ends, for any number of feeders, readers, restarts,     *)
(* inodes and records.                                                     *)
(***************************************************************************)
EXTENDS Source, SourceLifecycleProofs

-----------------------------------------------------------------------------
(* Types *)

Snapshot == [generation : Nat, records : Nat]
Look == [inode : Inode \cup {0}, length : Nat]
Memory == [inode : Inode \cup {0}, length : Nat, anchor : Nat]
FeedState == [stage : {"idle", "polled", "stat"}, snapshot : Snapshot, stat : Look]
ReadState ==
    [stage : {"idle", "pre", "compare", "waiting", "reading", "page", "post", "fenced"},
     observed : Nat, generation : Nat, stat : Look, pre : Memory, page : Nat,
     telling : BOOLEAN]

DiskTypes ==
    /\ journal \in [number : Nat, inode : Inode \cup {0}, records : Nat, torn : BOOLEAN]
    /\ starts \in Nat /\ metadata \in Nat
    /\ running \in BOOLEAN /\ removed \in BOOLEAN
    /\ worker \in Snapshot
    /\ plan \in ReadPlans

ReadTypes ==
    /\ DiskTypes
    /\ progress \in Snapshot /\ memory \in Memory
    /\ distrust \in Nat /\ authority \in Nat
    /\ feed \in [Feeder -> FeedState]
    /\ read \in [Reader -> ReadState]
    /\ served \subseteq [generation : Nat, number : Nat]

-----------------------------------------------------------------------------
(* The disk and the worker *)

\* Generations count from 1, a file is numbered by a start there has been, and
\* the tail of a journal under capture is whole.
DiskOK ==
    /\ worker.generation >= 1 /\ progress.generation >= 1
    /\ journal.number <= starts
    /\ journal.number # 0 => journal.inode \in Inode
    /\ running => ~journal.torn
    \* Before anything is removed there is one file, and one count.
    /\ ~removed => /\ journal.number = 1 /\ worker.generation = metadata
                   /\ progress.generation <= metadata

-----------------------------------------------------------------------------
(* The feeders *)

\* Who publishes has the mutex since it looked at the snapshot.
FeederOK(f) ==
    /\ feed[f].stage # "idle" =>
          /\ feed[f].snapshot.generation >= 1
          /\ ~removed => feed[f].snapshot.generation <= metadata
    /\ feed[f].stage = "stat" =>
          holder = f /\ ~Remote!Stale(feed[f].snapshot)

-----------------------------------------------------------------------------
(* What was seen of a file that nothing has removed *)

\* A look at a file longer than it is now was taken before a restart cut its
\* tail, so the generation that goes with the look is an old one.
Behind(length, generation) ==
    length > Remote!Stat.length => generation < worker.generation

OfTheFile(status) ==
    /\ status.inode = journal.inode
    /\ status.anchor # 0 => status.anchor = 1 /\ journal.records > 0

MemoryLooks ==
    memory # Remote!Unseen =>
        /\ OfTheFile(memory)
        /\ Behind(memory.length, progress.generation)

FeederLooks(f) ==
    feed[f].stage = "stat" =>
        /\ feed[f].stat.inode = journal.inode
        /\ Behind(feed[f].stat.length, feed[f].snapshot.generation)
        /\ memory # Remote!Unseen /\ feed[f].stat.length < memory.length =>
              progress.generation < worker.generation

ReaderLooks(r) ==
    /\ read[r].stage = "pre" =>
          /\ read[r].stat.inode = journal.inode
          /\ memory = Remote!Unseen =>
                Behind(read[r].stat.length, progress.generation)
    /\ read[r].stage = "compare" =>
          /\ OfTheFile(read[r].pre)
          /\ memory = Remote!Unseen =>
                Behind(read[r].pre.length, progress.generation)

LooksOK ==
    ~removed =>
        /\ MemoryLooks
        /\ \A f \in Feeder : FeederLooks(f)
        /\ \A r \in Reader : ReaderLooks(r)

-----------------------------------------------------------------------------
(* What was served *)

\* The memory tells files apart, and it is of file n.
Tells(n) == Remote!Telling(memory) /\ memory.anchor = n

\* What was served under the present generation is of the file that the handle
\* remembers, unless it distrusts it.
ServedOK ==
    \A p \in served :
        /\ p.generation <= progress.generation
        /\ distrust = 0 /\ p.generation = progress.generation => Tells(p.number)

Compared == {"waiting", "reading", "page", "post", "fenced"}

\* While the authority that a reader sampled has not moved, what was served
\* since its generation is of the remembered file, and so is what it compared;
\* the page it has is of that file too, or the fence after it will tell.
ReaderOK(r) ==
    LET me == read[r] IN
    me.stage # "idle" =>
        /\ me.observed <= authority
        /\ me.generation <= progress.generation
        /\ me.observed = authority =>
              /\ distrust = 0
              /\ \A p \in served : p.generation >= me.generation => Tells(p.number)
        /\ me.stage # "pre" => me.pre.anchor <= starts
        /\ me.stage \in Compared /\ me.telling =>
              /\ Remote!Telling(me.pre)
              /\ me.observed = authority => Tells(me.pre.anchor)
        /\ me.stage \in {"page", "post"} /\ me.telling =>
              (journal.number = me.pre.anchor => me.page \in {0, me.pre.anchor})
        /\ me.stage = "fenced" /\ me.telling => me.page \in {0, me.pre.anchor}

ReadInv ==
    /\ ReadTypes /\ DiskOK
    /\ \A f \in Feeder : FeederOK(f)
    /\ LooksOK
    /\ ServedOK
    /\ \A r \in Reader : ReaderOK(r)
    /\ DistrustEnds
    /\ OneJournalPerGeneration

-----------------------------------------------------------------------------
(* Lemmas about single looks at the file *)

\* What tells a file apart and was not replaced is still of that file.
LEMMA NotReplaced ==
  ASSUME NEW m \in Memory, NEW c \in Memory,
         Remote!Telling(m), ~Remote!Replaced(m, c)
  PROVE  Remote!Telling(c) /\ c.anchor = m.anchor
  BY DEF Remote!Telling, Remote!Replaced, Memory

\* A look, and what a poll makes of it.
LEMMA LookTypes ==
  ASSUME DiskTypes
  PROVE  /\ Remote!Stat \in Look /\ Remote!Anchor \in Nat
         /\ Remote!Anchor \in {0, journal.number}
         /\ \A s \in Look : /\ Remote!Status(s) \in Memory
                            /\ Remote!Status(s).inode = s.inode
                            /\ Remote!Status(s).length = s.length
                            /\ Remote!Status(s).anchor = Remote!Anchor
<1>1. 2 * journal.records + (IF journal.torn THEN 1 ELSE 0) \in Nat
  BY DEF DiskTypes
<1> QED
  BY <1>1 DEF DiskTypes, Look, Memory, Remote!Stat, Remote!Anchor, Remote!Status

\* Nothing that tells files apart is the memory of a handle that saw none.
LEMMA UnseenTellsNothing == ~Remote!Telling(Remote!Unseen)
  BY DEF Remote!Telling, Remote!Unseen

-----------------------------------------------------------------------------
(* The window registers *)

LEMMA ReadInitially == Remote!RemoteInit => ReadInv
<1> SUFFICES ASSUME Remote!RemoteInit PROVE ReadInv
  OBVIOUS
<1> USE DEF Remote!RemoteInit
<1>1. ReadTypes
  <2>1. DiskTypes /\ progress \in Snapshot
    <3>1. PICK i \in Inode :
            journal = [number |-> 1, inode |-> i, records |-> 0, torn |-> FALSE]
      OBVIOUS
    <3>2. journal \in [number : Nat, inode : Inode \cup {0}, records : Nat, torn : BOOLEAN]
      BY <3>1
    <3>3. worker \in Snapshot /\ progress \in Snapshot
      BY DEF Snapshot
    <3> QED
      BY <3>2, <3>3 DEF DiskTypes
  <2>2. memory \in Memory
    BY DEF Memory, Remote!Unseen
  <2>3. Remote!NoStat \in Look
    BY DEF Remote!NoStat, Look
  <2>4. Remote!NoFeed \in FeedState
    BY <2>3 DEF FeedState, Snapshot, Remote!NoFeed
  <2>5. Remote!NoRead \in ReadState
    BY <2>3 DEF ReadState, Memory, Remote!NoRead, Remote!Unseen
  <2> QED
    BY <2>1, <2>2, <2>4, <2>5 DEF ReadTypes
<1>2. \A f \in Feeder : feed[f].stage = "idle"
  BY DEF Remote!NoFeed
<1>3. \A r \in Reader : read[r].stage = "idle"
  BY DEF Remote!NoRead
<1>4. DiskOK
  BY DEF DiskOK
<1>5. LooksOK
  BY <1>2, <1>3 DEF LooksOK, MemoryLooks, FeederLooks, ReaderLooks
<1>6. ServedOK /\ DistrustEnds /\ OneJournalPerGeneration
  BY DEF ServedOK, DistrustEnds, Remote!DistrustEnds, OneJournalPerGeneration,
         Remote!OneJournalPerGeneration
<1> QED
  BY <1>1, <1>2, <1>3, <1>4, <1>5, <1>6 DEF ReadInv, FeederOK, ReaderOK

-----------------------------------------------------------------------------
(* The worker and the storage management *)

\* A step on the disk: what readers hold is of a file that is there still, or
\* of one that never comes back.
LEMMA DiskKeepsReaders ==
  ASSUME ReadInv, UNCHANGED <<Remote!handleVars, read, served>>,
         journal'.number \in {journal.number, 0, starts + 1},
         starts' \in {starts, starts + 1}, starts' \in Nat
  PROVE  ServedOK' /\ (\A r \in Reader : ReaderOK(r)') /\ OneJournalPerGeneration'
<1> USE DEF ReadInv, Remote!handleVars
<1>1. ServedOK' /\ OneJournalPerGeneration'
  BY DEF ServedOK, Tells, OneJournalPerGeneration, Remote!OneJournalPerGeneration
<1>2. ASSUME NEW r \in Reader PROVE ReaderOK(r)'
  <2>1. ReaderOK(r) /\ read[r] \in ReadState /\ starts \in Nat
    BY DEF ReadTypes, DiskTypes
  <2>2. read[r].pre.anchor \in Nat
    BY <2>1 DEF ReadState, Memory
  <2>3. \A n : Tells(n)' <=> Tells(n)
    BY DEF Tells, Remote!Telling
  <2>4. read[r].pre.anchor <= starts => read[r].pre.anchor <= starts'
    BY <2>1, <2>2
  <2>5. read[r].stage \in {"page", "post"} /\ read[r].telling
        /\ journal'.number = read[r].pre.anchor
        => journal.number = read[r].pre.anchor
    BY <2>1, <2>2 DEF ReaderOK, Compared, Remote!Telling
  <2> QED
    BY <2>1, <2>3, <2>4, <2>5 DEF ReaderOK
<1> QED
  BY <1>1, <1>2

\* A step on the disk leaves what feeders hold.
LEMMA DiskKeepsFeeders ==
  ASSUME ReadInv, UNCHANGED <<Remote!handleVars, feed, holder>>,
         removed' = removed \/ removed',
         removed' \/ metadata' \in {metadata, metadata + 1}
  PROVE  \A f \in Feeder : FeederOK(f)'
<1> TAKE f \in Feeder
<1>1. FeederOK(f) /\ feed[f].snapshot.generation \in Nat /\ metadata \in Nat
  BY DEF ReadInv, ReadTypes, DiskTypes, FeedState, Snapshot
<1> QED
  BY <1>1 DEF FeederOK, Remote!Stale, Remote!handleVars

LEMMA CaptureKeeps == ReadInv /\ Remote!Capture => ReadInv'
<1> SUFFICES ASSUME ReadInv, Remote!Capture PROVE ReadInv'
  OBVIOUS
<1> USE DEF ReadInv, Remote!Capture, Remote!handleVars
<1>1. ReadTypes'
  BY DEF ReadTypes, DiskTypes, Snapshot
<1>2. /\ journal'.number = journal.number /\ journal'.inode = journal.inode
      /\ journal'.torn = journal.torn /\ journal'.records = journal.records + 1
      /\ worker'.generation = worker.generation
  BY DEF ReadTypes, DiskTypes, Snapshot
<1>3. DiskOK'
  BY <1>2 DEF DiskOK
<1>4. Remote!Stat'.length >= Remote!Stat.length /\ Remote!Stat'.length \in Nat
      /\ Remote!Stat.length \in Nat
  BY <1>2 DEF Remote!Stat, ReadTypes, DiskTypes
<1>5. LooksOK'
  <2> SUFFICES ASSUME ~removed
               PROVE  MemoryLooks' /\ (\A f \in Feeder : FeederLooks(f)')
                      /\ (\A r \in Reader : ReaderLooks(r)')
    BY DEF LooksOK
  <2>1. \A s : OfTheFile(s) => OfTheFile(s)'
    BY <1>2 DEF OfTheFile, ReadTypes, DiskTypes
  <2>2. \A l \in Nat : \A g : Behind(l, g) => Behind(l, g)'
    BY <1>2, <1>4 DEF Behind
  <2> QED
    BY <1>2, <2>1, <2>2 DEF LooksOK, MemoryLooks, FeederLooks, ReaderLooks, ReadTypes,
       Memory, FeedState, Look, ReadState
<1>6. \A f \in Feeder : FeederOK(f)'
  BY DiskKeepsFeeders
<1>7. ServedOK' /\ (\A r \in Reader : ReaderOK(r)') /\ OneJournalPerGeneration'
  BY <1>2, DiskKeepsReaders DEF ReadTypes, DiskTypes
<1>8. DistrustEnds'
  BY <1>2 DEF DistrustEnds, Remote!DistrustEnds
<1> QED
  BY <1>1, <1>3, <1>5, <1>6, <1>7, <1>8

LEMMA StopKeeps == ReadInv /\ Remote!Stop => ReadInv'
<1> SUFFICES ASSUME ReadInv, Remote!Stop PROVE ReadInv'
  OBVIOUS
<1> USE DEF ReadInv, Remote!Stop, Remote!handleVars
<1>1. ReadTypes'
  BY DEF ReadTypes, DiskTypes, Snapshot
<1>2. /\ journal'.number = journal.number /\ journal'.inode = journal.inode
      /\ ~journal.torn /\ journal'.records = journal.records
  BY DEF ReadTypes, DiskTypes, DiskOK
<1>3. DiskOK'
  BY <1>2 DEF DiskOK
<1>4. Remote!Stat'.length >= Remote!Stat.length /\ Remote!Stat'.length \in Nat
      /\ Remote!Stat.length \in Nat
  BY <1>1, <1>2 DEF Remote!Stat, ReadTypes, DiskTypes
<1>5. LooksOK'
  <2> SUFFICES ASSUME ~removed
               PROVE  MemoryLooks' /\ (\A f \in Feeder : FeederLooks(f)')
                      /\ (\A r \in Reader : ReaderLooks(r)')
    BY DEF LooksOK
  <2>1. \A s : OfTheFile(s) => OfTheFile(s)'
    BY <1>2 DEF OfTheFile
  <2>2. \A l \in Nat : \A g : Behind(l, g) => Behind(l, g)'
    BY <1>4 DEF Behind
  <2> QED
    BY <1>2, <2>1, <2>2 DEF LooksOK, MemoryLooks, FeederLooks, ReaderLooks, ReadTypes,
       Memory, FeedState, Look, ReadState
<1>6. \A f \in Feeder : FeederOK(f)'
  BY DiskKeepsFeeders
<1>7. ServedOK' /\ (\A r \in Reader : ReaderOK(r)') /\ OneJournalPerGeneration'
  BY <1>2, DiskKeepsReaders DEF ReadTypes, DiskTypes
<1>8. DistrustEnds'
  BY DEF DistrustEnds, Remote!DistrustEnds
<1> QED
  BY <1>1, <1>3, <1>5, <1>6, <1>7, <1>8

LEMMA RemoveKeeps == ReadInv /\ Remote!Remove => ReadInv'
<1> SUFFICES ASSUME ReadInv, Remote!Remove PROVE ReadInv'
  OBVIOUS
<1> USE DEF ReadInv, Remote!Remove, Remote!handleVars
<1>1. journal' \in {journal, Remote!Missing} /\ metadata' \in {metadata, 0} /\ removed'
  OBVIOUS
<1>2. ReadTypes'
  BY <1>1 DEF ReadTypes, DiskTypes, Remote!Missing
<1>3. journal'.number \in {journal.number, 0}
  BY <1>1 DEF Remote!Missing
<1>4. DiskOK'
  <2>1. CASE journal' = journal
    BY <1>1, <2>1 DEF DiskOK
  <2>2. CASE journal' = Remote!Missing
    BY <1>1, <2>2 DEF DiskOK, ReadTypes, DiskTypes, Remote!Missing
  <2> QED
    BY <1>1, <2>1, <2>2
<1>5. LooksOK'
  BY <1>1 DEF LooksOK
<1>6. \A f \in Feeder : FeederOK(f)'
  BY <1>1, DiskKeepsFeeders
<1>7. ServedOK' /\ (\A r \in Reader : ReaderOK(r)') /\ OneJournalPerGeneration'
  BY <1>3, DiskKeepsReaders DEF ReadTypes, DiskTypes
<1>8. DistrustEnds'
  BY <1>1 DEF DistrustEnds, Remote!DistrustEnds
<1> QED
  BY <1>2, <1>4, <1>5, <1>6, <1>7, <1>8

\* A restart counts a generation, so that every one seen so far is an old one.
LEMMA StartKeeps == ReadInv /\ Remote!Start => ReadInv'
<1> SUFFICES ASSUME ReadInv, Remote!Start PROVE ReadInv'
  OBVIOUS
<1> USE DEF ReadInv, Remote!Start, Remote!handleVars
<1>1. /\ starts' = starts + 1 /\ metadata' = metadata + 1 /\ running'
      /\ worker' = [generation |-> metadata', records |-> journal'.records]
      /\ worker'.generation = metadata + 1
  OBVIOUS
<1>2. /\ journal' \in [number : Nat, inode : Inode \cup {0}, records : Nat, torn : BOOLEAN]
      /\ journal'.number \in {journal.number, starts + 1} /\ ~journal'.torn
      /\ journal.number # 0 => /\ journal'.number = journal.number
                               /\ journal'.inode = journal.inode
                               /\ journal'.records = journal.records
  <2>1. CASE journal.number # 0
    BY <2>1 DEF ReadTypes, DiskTypes
  <2>2. CASE journal.number = 0
    <3>1. PICK i \in Inode : journal' = [number |-> starts', inode |-> i,
                                        records |-> 0, torn |-> FALSE]
      BY <2>2
    <3> QED
      BY <2>2, <3>1, <1>1 DEF ReadTypes, DiskTypes
  <2> QED
    BY <2>1, <2>2
<1>3. ReadTypes'
  BY <1>1, <1>2 DEF ReadTypes, DiskTypes, Snapshot
<1>4. DiskOK'
  BY <1>1, <1>2 DEF DiskOK, ReadTypes, DiskTypes, Snapshot
<1>5. LooksOK'
  <2> SUFFICES ASSUME ~removed
               PROVE  MemoryLooks' /\ (\A f \in Feeder : FeederLooks(f)')
                      /\ (\A r \in Reader : ReaderLooks(r)')
    BY DEF LooksOK
  <2>1. \A s : OfTheFile(s) => OfTheFile(s)'
    BY <1>2 DEF OfTheFile, DiskOK
  <2>2. /\ progress'.generation < worker'.generation
        /\ \A f \in Feeder : feed[f].stage # "idle" =>
              feed[f].snapshot.generation < worker'.generation
    BY <1>1 DEF DiskOK, FeederOK, ReadTypes, DiskTypes, Snapshot, FeedState
  <2>3. \A l, g : g < worker'.generation => Behind(l, g)'
    BY DEF Behind
  <2>4. journal'.inode = journal.inode
    BY <1>2 DEF DiskOK
  <2>5. MemoryLooks'
    BY <2>1, <2>2, <2>3 DEF LooksOK, MemoryLooks
  <2>6. \A f \in Feeder : FeederLooks(f)'
    BY <2>2, <2>3, <2>4 DEF LooksOK, FeederLooks
  <2>7. \A r \in Reader : ReaderLooks(r)'
    BY <2>1, <2>2, <2>3, <2>4 DEF LooksOK, ReaderLooks
  <2> QED
    BY <2>5, <2>6, <2>7
<1>6. \A f \in Feeder : FeederOK(f)'
  BY <1>1, DiskKeepsFeeders
<1>7. ServedOK' /\ (\A r \in Reader : ReaderOK(r)') /\ OneJournalPerGeneration'
  BY <1>1, <1>2, DiskKeepsReaders DEF ReadTypes, DiskTypes
<1>8. DistrustEnds'
  BY <1>1 DEF DistrustEnds, Remote!DistrustEnds, DiskOK, ReadTypes, DiskTypes, Snapshot
<1> QED
  BY <1>3, <1>4, <1>5, <1>6, <1>7, <1>8

-----------------------------------------------------------------------------
(* The feeders *)

\* A step of a feeder that leaves the handle as it is.
LEMMA FeederMoves ==
  ASSUME ReadInv, NEW f \in Feeder, NEW to \in FeedState,
         UNCHANGED <<Remote!diskVars, Remote!handleVars, gate, read, served>>,
         feed' = [feed EXCEPT ![f] = to],
         FeederOK(f)', ~removed => FeederLooks(f)',
         \A g \in Feeder : g # f => (feed[g].stage = "stat" => holder' = holder)
  PROVE  ReadInv'
<1> USE DEF ReadInv, Remote!handleVars, Remote!diskVars
<1>1. ReadTypes'
  BY DEF ReadTypes, DiskTypes
<1>2. \A g \in Feeder : g # f => feed'[g] = feed[g]
  BY DEF ReadTypes
<1>3. \A g \in Feeder : FeederOK(g)'
  BY <1>2 DEF FeederOK, Remote!Stale
<1>4. DiskOK' /\ ServedOK' /\ DistrustEnds' /\ OneJournalPerGeneration'
  BY DEF DiskOK, ServedOK, Tells, DistrustEnds, Remote!DistrustEnds,
         OneJournalPerGeneration, Remote!OneJournalPerGeneration, Remote!Telling
<1>5. \A r \in Reader : ReaderOK(r)'
  BY DEF ReaderOK, Tells, Remote!Telling, Compared
<1>6. LooksOK'
  <2> SUFFICES ASSUME ~removed
               PROVE  MemoryLooks' /\ (\A g \in Feeder : FeederLooks(g)')
                      /\ (\A r \in Reader : ReaderLooks(r)')
    BY DEF LooksOK
  <2>1. \A s : OfTheFile(s)' <=> OfTheFile(s)
    BY DEF OfTheFile
  <2>2. \A l, g : Behind(l, g)' <=> Behind(l, g)
    BY DEF Behind, Remote!Stat
  <2>3. \A g \in Feeder : FeederLooks(g)'
    BY <1>2, <2>2 DEF LooksOK, FeederLooks
  <2> QED
    BY <2>1, <2>2, <2>3 DEF LooksOK, MemoryLooks, ReaderLooks
<1> QED
  BY <1>1, <1>3, <1>4, <1>5, <1>6

LEMMA PollKeeps ==
  ASSUME ReadInv, NEW f \in Feeder, Remote!PollProgress(f)
  PROVE  ReadInv'
<1> USE DEF ReadInv, Remote!PollProgress
<1> DEFINE to == [feed[f] EXCEPT !.stage = "polled", !.snapshot = worker]
<1>1. feed[f] \in FeedState /\ worker \in Snapshot
  BY DEF ReadTypes, DiskTypes
<1>2. to \in FeedState /\ to.stage = "polled" /\ to.snapshot = worker
  BY <1>1 DEF FeedState
<1>3. feed' = [feed EXCEPT ![f] = to] /\ feed'[f] = to
  BY DEF ReadTypes
<1>4. FeederOK(f)'
  BY <1>2, <1>3 DEF FeederOK, DiskOK, Remote!diskVars, Remote!handleVars, ReadTypes,
     DiskTypes, Snapshot
<1>5. FeederLooks(f)'
  BY <1>2, <1>3 DEF FeederLooks
<1> HIDE DEF to
<1> QED
  BY <1>2, <1>3, <1>4, <1>5, FeederMoves

LEMMA UpdateBeginsKeeps ==
  ASSUME ReadInv, NEW f \in Feeder, Remote!UpdateBegins(f)
  PROVE  ReadInv'
<1> USE DEF ReadInv, Remote!UpdateBegins
<1>1. feed[f] \in FeedState
  BY DEF ReadTypes
<1>2. \A g \in Feeder : feed[g].stage # "stat"
  BY ReadAssumption DEF FeederOK
<1>3. CASE feed' = [feed EXCEPT ![f] = Remote!NoFeed]
  <2>1. Remote!NoFeed \in FeedState /\ Remote!NoFeed.stage = "idle"
    BY DEF Remote!NoFeed, Remote!NoStat, FeedState, Snapshot, Look
  <2>2. feed'[f] = Remote!NoFeed
    BY <1>3 DEF ReadTypes
  <2>3. FeederOK(f)' /\ FeederLooks(f)'
    BY <2>1, <2>2 DEF FeederOK, FeederLooks
  <2> QED
    BY <1>2, <1>3, <2>1, <2>3, FeederMoves
<1>4. CASE /\ ~Remote!Stale(feed[f].snapshot)
           /\ feed' = [feed EXCEPT ![f] = [@ EXCEPT !.stage = "stat", !.stat = Remote!Stat]]
           /\ holder' = f
  <2> DEFINE to == [feed[f] EXCEPT !.stage = "stat", !.stat = Remote!Stat]
  <2>1. /\ to \in FeedState /\ to.stage = "stat" /\ to.stat = Remote!Stat
        /\ to.snapshot = feed[f].snapshot
    BY <1>1, LookTypes DEF FeedState, ReadTypes
  <2>2. feed' = [feed EXCEPT ![f] = to] /\ feed'[f] = to
    BY <1>4 DEF ReadTypes
  <2> HIDE DEF to
  <2>3. FeederOK(f)'
    BY <1>4, <2>1, <2>2 DEF FeederOK, Remote!Stale, Remote!diskVars, Remote!handleVars
  <2>4. ASSUME ~removed PROVE FeederLooks(f)'
    <3>1. Remote!Stat' = Remote!Stat /\ Remote!Stat.inode = journal.inode
          /\ Remote!Stat.length \in Nat
      BY LookTypes DEF Remote!Stat, Remote!diskVars, Look, ReadTypes
    <3>2. memory # Remote!Unseen /\ Remote!Stat.length < memory.length
          => progress.generation < worker.generation
      BY <2>4, <3>1 DEF LooksOK, MemoryLooks, Behind, ReadTypes, Memory
    <3> QED
      BY <2>1, <2>2, <3>1, <3>2 DEF FeederLooks, Behind, Remote!diskVars, Remote!handleVars
  <2> QED
    BY <1>2, <2>1, <2>2, <2>3, <2>4, FeederMoves
<1> QED
  BY <1>3, <1>4

\* What an update makes of the handle.
LEMMA UpdatePublishesKeeps ==
  ASSUME ReadInv, NEW f \in Feeder, Remote!UpdatePublishes(f)
  PROVE  ReadInv'
<1> DEFINE snapshot == feed[f].snapshot
           stat == feed[f].stat
           fresh == Remote!Status(stat)
           moved == memory # Remote!Unseen /\ Remote!Replaced(memory, fresh)
           kept == Remote!Distrusted(snapshot, moved)
           ends == kept # 0 /\ snapshot.generation > kept
<1>1. /\ feed[f].stage = "stat"
      /\ memory' = fresh /\ progress' = snapshot
      /\ distrust' = IF ends THEN 0 ELSE kept
      /\ authority' = IF moved \/ ends THEN authority + 1 ELSE authority
      /\ feed' = [feed EXCEPT ![f] = Remote!NoFeed]
      /\ UNCHANGED <<Remote!diskVars, gate, read, served>>
      /\ kept = IF moved /\ snapshot.generation = progress.generation
                THEN snapshot.generation ELSE distrust
  BY DEF Remote!UpdatePublishes, Remote!Distrusted
<1> USE DEF ReadInv
<1>2. ReadTypes /\ feed[f] \in FeedState
  BY DEF ReadTypes
<1>3. snapshot \in Snapshot /\ stat \in Look
  BY <1>2 DEF FeedState
<1>4. /\ fresh \in Memory /\ fresh.inode = stat.inode
      /\ fresh.length = stat.length /\ fresh.anchor = Remote!Anchor
  BY <1>2, <1>3, LookTypes DEF ReadTypes
<1>5. /\ snapshot.generation \in Nat /\ progress.generation \in Nat
      /\ snapshot.generation >= progress.generation /\ snapshot.generation >= 1
      /\ distrust \in Nat /\ authority \in Nat
  BY <1>1, <1>2, <1>3 DEF FeederOK, Remote!Stale, ReadTypes, Snapshot
<1>6. kept \in Nat
  BY <1>1, <1>5
<1> HIDE DEF fresh, moved, kept, ends, snapshot, stat
<1>7. /\ ends <=> kept # 0 /\ snapshot.generation > kept
      /\ moved <=> memory # Remote!Unseen /\ Remote!Replaced(memory, fresh)
      /\ snapshot = feed[f].snapshot /\ stat = feed[f].stat
  BY DEF ends, moved, snapshot, stat
<1>8. ReadTypes'
  <2>1. Remote!NoFeed \in FeedState
    BY DEF Remote!NoFeed, Remote!NoStat, FeedState, Snapshot, Look
  <2>2. distrust' \in Nat /\ authority' \in Nat
    BY <1>1, <1>5, <1>6
  <2> QED
    BY <1>1, <1>2, <1>3, <1>4, <2>1, <2>2 DEF ReadTypes, DiskTypes, Remote!diskVars
<1>9. /\ \A g \in Feeder : g # f => feed[g].stage # "stat" /\ feed'[g] = feed[g]
      /\ feed'[f].stage = "idle"
  BY <1>1, <1>2 DEF FeederOK, ReadTypes, Remote!NoFeed
<1>10. \A g \in Feeder : FeederOK(g)'
  BY <1>1, <1>9 DEF FeederOK, Remote!diskVars
<1>11. DiskOK'
  BY <1>1, <1>5, <1>7 DEF DiskOK, FeederOK, Remote!diskVars
\* The distrust of a generation ends with a newer one only.
<1>12. distrust # 0 => distrust = progress.generation
  BY DEF DistrustEnds, Remote!DistrustEnds
<1>13. distrust' # 0 => distrust' = kept /\ kept = snapshot.generation
                       /\ snapshot.generation = progress.generation
  BY <1>1, <1>5, <1>6, <1>7, <1>12
<1>14. /\ distrust' = 0 /\ snapshot.generation = progress.generation
          => distrust = 0 /\ ~moved /\ ~ends
       /\ moved \/ ends => authority' > authority
       /\ ~moved /\ ~ends => authority' = authority /\ distrust' = distrust
  BY <1>1, <1>5, <1>6, <1>7, <1>12
<1>15. ASSUME ~removed
       PROVE  /\ moved /\ snapshot.generation = progress.generation
                 => progress.generation < worker.generation
              /\ OfTheFile(fresh) /\ Behind(fresh.length, snapshot.generation)
  <2>1. FeederLooks(f) /\ MemoryLooks /\ DiskOK
    BY <1>15 DEF LooksOK
  <2>2. OfTheFile(fresh)
    BY <1>1, <1>2, <1>4, <1>7, <1>15, <2>1 DEF OfTheFile, FeederLooks, DiskOK,
       Remote!Anchor, ReadTypes, DiskTypes
  <2>3. ASSUME moved PROVE fresh.length < memory.length
    <3>1. memory.inode = fresh.inode
      BY <1>1, <1>4, <1>7, <2>1, <2>3 DEF MemoryLooks, OfTheFile, FeederLooks
    <3>2. memory.anchor # 0 => fresh.anchor = memory.anchor
      BY <1>4, <1>7, <1>15, <2>1, <2>3 DEF MemoryLooks, OfTheFile, DiskOK, Remote!Anchor
    <3> QED
      BY <1>7, <2>3, <3>1, <3>2 DEF Remote!Replaced
  <2>4. moved => progress.generation < worker.generation
    BY <1>1, <1>4, <1>7, <2>1, <2>3 DEF FeederLooks
  <2> QED
    BY <1>1, <1>4, <1>7, <2>1, <2>2, <2>4 DEF FeederLooks
<1>16. DistrustEnds'
  <2> SUFFICES ASSUME distrust' # 0
               PROVE  distrust' = progress'.generation
                      /\ (removed' \/ distrust' < worker'.generation)
    BY DEF DistrustEnds, Remote!DistrustEnds
  <2>1. ASSUME ~removed PROVE distrust' < worker.generation
    BY <1>1, <1>13, <1>15, <2>1 DEF DistrustEnds, Remote!DistrustEnds
  <2> QED
    BY <1>1, <1>13, <2>1 DEF Remote!diskVars
<1>17. LooksOK'
  <2> SUFFICES ASSUME ~removed
               PROVE  MemoryLooks' /\ (\A g \in Feeder : FeederLooks(g)')
                      /\ (\A r \in Reader : ReaderLooks(r)')
    BY <1>1 DEF LooksOK, Remote!diskVars
  <2>1. \A s : OfTheFile(s)' <=> OfTheFile(s)
    BY <1>1 DEF OfTheFile, Remote!diskVars
  <2>2. \A l, g : Behind(l, g)' <=> Behind(l, g)
    BY <1>1 DEF Behind, Remote!Stat, Remote!diskVars
  <2>3. MemoryLooks'
    BY <1>1, <1>15, <2>1, <2>2 DEF MemoryLooks
  <2>4. \A g \in Feeder : FeederLooks(g)'
    BY <1>9 DEF FeederLooks
  <2>5. memory' # Remote!Unseen
    <3>1. fresh.inode # 0
      BY <1>1, <1>4, <1>7, ReadAssumption DEF LooksOK, FeederLooks, DiskOK
    <3> QED
      BY <1>1, <3>1 DEF Remote!Unseen
  <2>6. ASSUME NEW r \in Reader PROVE ReaderLooks(r)'
    <3>1. ReaderLooks(r) /\ read'[r] = read[r]
      BY <1>1 DEF LooksOK
    <3> QED
      BY <2>1, <2>5, <3>1, <1>1 DEF ReaderLooks, Remote!diskVars
  <2> QED
    BY <2>3, <2>4, <2>6
\* What a memory tells it goes on telling, unless the file was replaced.
<1>18. ASSUME ~moved, NEW n, Tells(n) PROVE Tells(n)'
  BY <1>1, <1>2, <1>4, <1>7, <1>18, NotReplaced, UnseenTellsNothing
  DEF Tells, ReadTypes
<1>19. ServedOK'
  <2> SUFFICES ASSUME NEW p \in served
               PROVE  /\ p.generation <= progress'.generation
                      /\ distrust' = 0 /\ p.generation = progress'.generation
                         => Tells(p.number)'
    BY <1>1 DEF ServedOK
  <2>1. p.generation \in Nat /\ p.generation <= progress.generation
    BY <1>2 DEF ServedOK, ReadTypes
  <2> QED
    BY <1>1, <1>5, <1>14, <1>18, <2>1 DEF ServedOK
<1>20. \A r \in Reader : ReaderOK(r)'
  <2> SUFFICES ASSUME NEW r \in Reader PROVE ReaderOK(r)'
    OBVIOUS
  <2>1. ReaderOK(r) /\ read'[r] = read[r] /\ starts' = starts /\ served' = served
        /\ journal' = journal /\ read[r] \in ReadState
    BY <1>1, <1>2 DEF Remote!diskVars, ReadTypes
  <2>2. read[r].observed \in Nat /\ read[r].generation \in Nat
    BY <2>1 DEF ReadState
  <2>3. read[r].stage # "idle" => /\ read[r].observed <= authority'
                                  /\ read[r].generation <= progress'.generation
    BY <1>1, <1>5, <1>14, <2>1, <2>2, <1>8 DEF ReaderOK, ReadTypes
  <2>4. read[r].stage # "idle" /\ read[r].observed = authority'
        => read[r].observed = authority /\ ~moved /\ distrust' = distrust
    BY <1>5, <1>14, <2>1, <2>2, <1>8 DEF ReaderOK, ReadTypes
  <2> QED
    BY <1>18, <2>1, <2>3, <2>4 DEF ReaderOK
<1>21. OneJournalPerGeneration'
  BY <1>1 DEF OneJournalPerGeneration, Remote!OneJournalPerGeneration
<1> QED
  BY <1>8, <1>10, <1>11, <1>16, <1>17, <1>19, <1>20, <1>21

-----------------------------------------------------------------------------
(* The readers *)

\* A step of a reader that leaves the handle, and what was served, as it is.
LEMMA ReaderMoves ==
  ASSUME ReadInv, NEW r \in Reader, NEW to \in ReadState,
         UNCHANGED <<Remote!diskVars, Remote!handleVars, holder, feed, served>>,
         read' = [read EXCEPT ![r] = to],
         ReaderOK(r)', ~removed => ReaderLooks(r)'
  PROVE  ReadInv'
<1> USE DEF ReadInv, Remote!handleVars, Remote!diskVars
<1>1. ReadTypes'
  BY DEF ReadTypes, DiskTypes
<1>2. \A q \in Reader : q # r => read'[q] = read[q]
  BY DEF ReadTypes
<1>3. \A q \in Reader : ReaderOK(q)'
  <2> SUFFICES ASSUME NEW q \in Reader, q # r PROVE ReaderOK(q)'
    OBVIOUS
  <2> QED
    BY <1>2 DEF ReaderOK, Tells, Remote!Telling, Compared
<1>4. /\ DiskOK' /\ ServedOK' /\ DistrustEnds' /\ OneJournalPerGeneration'
      /\ \A f \in Feeder : FeederOK(f)'
  BY DEF DiskOK, ServedOK, Tells, DistrustEnds, Remote!DistrustEnds, FeederOK,
         OneJournalPerGeneration, Remote!OneJournalPerGeneration, Remote!Telling,
         Remote!Stale
<1>5. LooksOK'
  <2> SUFFICES ASSUME ~removed
               PROVE  MemoryLooks' /\ (\A f \in Feeder : FeederLooks(f)')
                      /\ (\A q \in Reader : ReaderLooks(q)')
    BY DEF LooksOK
  <2>1. \A s : OfTheFile(s)' <=> OfTheFile(s)
    BY DEF OfTheFile
  <2>2. \A l, g : Behind(l, g)' <=> Behind(l, g)
    BY DEF Behind, Remote!Stat
  <2>3. \A q \in Reader : ReaderLooks(q)'
    BY <1>2, <2>1, <2>2 DEF LooksOK, ReaderLooks
  <2> QED
    BY <2>1, <2>2, <2>3 DEF LooksOK, MemoryLooks, FeederLooks
<1> QED
  BY <1>1, <1>3, <1>4, <1>5

\* A read that failed, or was dropped, holds nothing.
LEMMA ReaderRests ==
  ASSUME ReadInv, NEW r \in Reader, Remote!ReadFails(r),
         UNCHANGED <<Remote!diskVars, Remote!handleVars, holder, feed, served>>
  PROVE  ReadInv'
<1>1. Remote!NoRead \in ReadState /\ Remote!NoRead.stage = "idle"
  BY DEF Remote!NoRead, Remote!NoStat, Remote!Unseen, ReadState, Look, Memory
<1>2. read'[r] = Remote!NoRead /\ read' = [read EXCEPT ![r] = Remote!NoRead]
  BY DEF Remote!ReadFails, ReadInv, ReadTypes
<1>3. ReaderOK(r)' /\ ReaderLooks(r)'
  BY <1>1, <1>2 DEF ReaderOK, ReaderLooks
<1> QED
  BY <1>1, <1>2, <1>3, ReaderMoves

LEMMA ReadBeginsKeeps ==
  ASSUME ReadInv, NEW r \in Reader, Remote!ReadBegins(r)
  PROVE  ReadInv'
<1> DEFINE to == [read[r] EXCEPT !.stage = "pre", !.observed = authority,
                                 !.generation = progress.generation, !.stat = Remote!Stat]
<1> USE DEF Remote!ReadBegins, Remote!readOthers, Remote!handleVars
<1>1. /\ read[r] \in ReadState /\ authority \in Nat /\ progress.generation \in Nat
      /\ DiskTypes
  BY DEF ReadInv, ReadTypes, Snapshot
<1>2. /\ to \in ReadState /\ to.stage = "pre" /\ to.observed = authority
      /\ to.generation = progress.generation /\ to.stat = Remote!Stat
  BY <1>1, LookTypes DEF ReadState
<1>3. read' = [read EXCEPT ![r] = to] /\ read'[r] = to
  BY DEF ReadInv, ReadTypes
<1> HIDE DEF to
<1>4. ReaderOK(r)'
  <2>1. \A p \in served : p.generation >= progress.generation => Tells(p.number)
    BY <1>1 DEF ReadInv, ServedOK, ReadTypes
  <2> QED
    BY <1>1, <1>2, <1>3, <2>1 DEF ReaderOK, Tells, Remote!Telling, Compared
<1>5. ReaderLooks(r)'
  BY <1>1, <1>2, <1>3, LookTypes DEF ReaderLooks, Behind, Remote!Stat, Look, Remote!diskVars
<1> QED
  BY <1>2, <1>3, <1>4, <1>5, ReaderMoves

LEMMA ReadAnchorsKeeps ==
  ASSUME ReadInv, NEW r \in Reader, Remote!ReadAnchors(r)
  PROVE  ReadInv'
<1> DEFINE pre == Remote!Status(read[r].stat)
           to == [read[r] EXCEPT !.stage = "compare", !.pre = pre, !.stat = Remote!NoStat]
<1> USE DEF Remote!ReadAnchors, Remote!readOthers, Remote!handleVars, Remote!diskVars
<1>1. read[r] \in ReadState /\ DiskTypes /\ read[r].stage = "pre"
  BY DEF ReadInv, ReadTypes
<1>2. /\ pre \in Memory /\ pre.inode = read[r].stat.inode
      /\ pre.length = read[r].stat.length /\ pre.anchor = Remote!Anchor
  BY <1>1, LookTypes DEF ReadState
<1> HIDE DEF pre
<1>3. /\ to \in ReadState /\ to.stage = "compare" /\ to.pre = pre
      /\ to.observed = read[r].observed /\ to.generation = read[r].generation
  BY <1>1, <1>2 DEF ReadState, Remote!NoStat, Look
<1>4. read' = [read EXCEPT ![r] = to] /\ read'[r] = to
  BY DEF ReadInv, ReadTypes, pre
<1> HIDE DEF to
<1>5. ReaderOK(r)'
  <2>1. pre.anchor <= starts
    BY <1>1, <1>2 DEF ReadInv, DiskOK, DiskTypes, Remote!Anchor
  <2> QED
    BY <1>1, <1>3, <1>4, <2>1 DEF ReadInv, ReaderOK, Tells, Remote!Telling, Compared
<1>6. ASSUME ~removed PROVE ReaderLooks(r)'
  <2>1. ReaderLooks(r)
    BY <1>6 DEF ReadInv, LooksOK
  <2> QED
    BY <1>1, <1>2, <1>3, <1>4, <1>6, <2>1 DEF ReaderLooks, ReadInv, DiskOK, OfTheFile,
       Behind, Remote!Stat, Remote!Anchor, DiskTypes
<1> QED
  BY <1>3, <1>4, <1>5, <1>6, ReaderMoves

\* The reader's file is the remembered one, or it is the first to be seen.
LEMMA ReadComparesKeeps ==
  ASSUME ReadInv, NEW r \in Reader, Remote!ReadCompares(r)
  PROVE  ReadInv'
<1> USE DEF Remote!readOthers
<1>1. CASE Remote!ReadFails(r) /\ memory' = memory
  BY <1>1, ReaderRests DEF Remote!ReadCompares, Remote!handleVars
<1>2. CASE /\ ~(memory # Remote!Unseen /\ Remote!Replaced(memory, read[r].pre))
           /\ memory' = IF memory = Remote!Unseen THEN read[r].pre ELSE memory
           /\ read' = [read EXCEPT ![r] = [@ EXCEPT !.stage = "waiting",
                                                    !.telling = Remote!Telling(memory')]]
  <2> DEFINE pre == read[r].pre
             to == [read[r] EXCEPT !.stage = "waiting", !.telling = Remote!Telling(memory')]
  <2>1. /\ read[r].stage = "compare" /\ holder = Nobody
        /\ UNCHANGED <<Remote!diskVars, progress, distrust, authority, holder, feed, served>>
    BY DEF Remote!ReadCompares
  <2>2. read[r] \in ReadState /\ memory \in Memory /\ pre \in Memory
    BY DEF ReadInv, ReadTypes, ReadState
  <2>3. /\ to \in ReadState /\ to.stage = "waiting" /\ to.pre = pre
        /\ to.telling = Remote!Telling(memory')
        /\ to.observed = read[r].observed /\ to.generation = read[r].generation
    BY <2>2 DEF ReadState, Remote!Telling
  <2>4. read' = [read EXCEPT ![r] = to] /\ read'[r] = to
    BY <1>2 DEF ReadInv, ReadTypes
  <2> HIDE DEF to
  <2>5. ReadTypes'
    BY <1>2, <2>1, <2>2, <2>3, <2>4 DEF ReadInv, ReadTypes, DiskTypes, Remote!diskVars
  <2>6. \A q \in Reader : q # r => read'[q] = read[q]
    BY <2>4 DEF ReadInv, ReadTypes
  <2>7. \A f \in Feeder : feed[f].stage # "stat"
    BY <2>1, ReadAssumption DEF ReadInv, FeederOK
  <2>8. \A f \in Feeder : FeederOK(f)'
    BY <2>1, <2>7 DEF ReadInv, FeederOK, Remote!diskVars
  <2>9. \A n : Tells(n) => Tells(n)'
    BY <1>2, UnseenTellsNothing DEF Tells
  <2>10. ServedOK' /\ OneJournalPerGeneration' /\ DistrustEnds' /\ DiskOK'
    BY <2>1, <2>9 DEF ReadInv, ServedOK, OneJournalPerGeneration, DiskOK, DistrustEnds,
       Remote!OneJournalPerGeneration, Remote!DistrustEnds, Remote!diskVars
  <2>11. ASSUME NEW q \in Reader PROVE ReaderOK(q)'
    <3>1. UNCHANGED <<journal, starts, authority, distrust, progress, served>>
      BY <2>1 DEF Remote!diskVars
    <3>2. CASE q # r
      BY <2>6, <2>9, <3>1, <3>2 DEF ReadInv, ReaderOK
    <3>3. CASE q = r
      <4>1. Remote!Telling(memory') => Remote!Telling(pre) /\ memory'.anchor = pre.anchor
        BY <1>2, <2>2, NotReplaced
      <4>2. \A n : n = pre.anchor /\ Remote!Telling(memory') => Tells(n)'
        BY <4>1 DEF Tells, Remote!Telling
      <4>3. ReaderOK(r)
        BY DEF ReadInv
      <4> QED
        BY <2>1, <2>3, <2>4, <2>9, <3>1, <3>3, <4>1, <4>2, <4>3 DEF ReaderOK, Compared,
           Remote!Telling
    <3> QED
      BY <3>2, <3>3
  <2>12. LooksOK'
    <3> SUFFICES ASSUME ~removed
                 PROVE  MemoryLooks' /\ (\A f \in Feeder : FeederLooks(f)')
                        /\ (\A q \in Reader : ReaderLooks(q)')
      BY <2>1 DEF LooksOK, Remote!diskVars
    <3>1. \A s : OfTheFile(s)' <=> OfTheFile(s)
      BY <2>1 DEF OfTheFile, Remote!diskVars
    <3>2. \A l, g : Behind(l, g)' <=> Behind(l, g)
      BY <2>1 DEF Behind, Remote!Stat, Remote!diskVars
    <3>3. ReaderLooks(r) /\ MemoryLooks
      BY DEF ReadInv, LooksOK
    <3>4. MemoryLooks'
      BY <1>2, <2>1, <3>1, <3>2, <3>3 DEF MemoryLooks, ReaderLooks
    <3>5. \A f \in Feeder : FeederLooks(f)'
      BY <2>1, <2>7 DEF FeederLooks
    <3>6. ASSUME NEW q \in Reader PROVE ReaderLooks(q)'
      <4>1. CASE q = r
        BY <2>3, <2>4, <4>1 DEF ReaderLooks
      <4>2. CASE q # r
        <5>1. ReaderLooks(q) /\ read'[q] = read[q]
          BY <2>6, <4>2 DEF ReadInv, LooksOK
        <5>2. memory' = Remote!Unseen => memory = Remote!Unseen
          BY <1>2
        <5> QED
          BY <2>1, <3>1, <3>2, <5>1, <5>2 DEF ReaderLooks, Remote!diskVars
      <4> QED
        BY <4>1, <4>2
    <3> QED
      BY <3>4, <3>5, <3>6
  <2> QED
    BY <2>5, <2>8, <2>10, <2>11, <2>12 DEF ReadInv
<1> QED
  BY <1>1, <1>2 DEF Remote!ReadCompares

LEMMA ReadEntersKeeps ==
  ASSUME ReadInv, NEW r \in Reader, Remote!ReadEnters(r)
  PROVE  ReadInv'
<1> USE DEF Remote!ReadEnters, Remote!readOthers, Remote!handleVars, Remote!diskVars
<1>1. CASE Remote!ReadFails(r)
  BY <1>1, ReaderRests
<1>2. CASE read' = [read EXCEPT ![r].stage = "reading"]
  <2> DEFINE to == [read[r] EXCEPT !.stage = "reading"]
  <2>1. read[r] \in ReadState /\ read[r].stage = "waiting"
    BY DEF ReadInv, ReadTypes
  <2>2. /\ to \in ReadState /\ to.stage = "reading" /\ to.pre = read[r].pre
        /\ to.observed = read[r].observed /\ to.generation = read[r].generation
        /\ to.telling = read[r].telling
    BY <2>1 DEF ReadState
  <2>3. read' = [read EXCEPT ![r] = to] /\ read'[r] = to
    BY <1>2 DEF ReadInv, ReadTypes
  <2> HIDE DEF to
  <2>4. ReaderOK(r)' /\ ReaderLooks(r)'
    BY <2>1, <2>2, <2>3 DEF ReadInv, ReaderOK, Tells, Remote!Telling, Compared, ReaderLooks
  <2> QED
    BY <2>2, <2>3, <2>4, ReaderMoves
<1> QED
  BY <1>1, <1>2

LEMMA ReadServesKeeps ==
  ASSUME ReadInv, NEW r \in Reader, Remote!ReadServes(r)
  PROVE  ReadInv'
<1> USE DEF Remote!ReadServes, Remote!readOthers, Remote!handleVars, Remote!diskVars
<1>1. CASE Remote!ReadFails(r)
  BY <1>1, ReaderRests
<1>2. CASE read' = [read EXCEPT ![r] = [@ EXCEPT !.stage = "page", !.page = Remote!Anchor]]
  <2> DEFINE to == [read[r] EXCEPT !.stage = "page", !.page = Remote!Anchor]
  <2>1. read[r] \in ReadState /\ read[r].stage = "reading" /\ DiskTypes
    BY DEF ReadInv, ReadTypes
  <2>2. /\ to \in ReadState /\ to.stage = "page" /\ to.pre = read[r].pre
        /\ to.observed = read[r].observed /\ to.generation = read[r].generation
        /\ to.telling = read[r].telling /\ to.page \in {0, journal.number}
    BY <2>1, LookTypes DEF ReadState
  <2>3. read' = [read EXCEPT ![r] = to] /\ read'[r] = to
    BY <1>2 DEF ReadInv, ReadTypes
  <2> HIDE DEF to
  <2>4. ReaderOK(r)' /\ ReaderLooks(r)'
    BY <2>1, <2>2, <2>3 DEF ReadInv, ReaderOK, Tells, Remote!Telling, Compared, ReaderLooks
  <2> QED
    BY <2>2, <2>3, <2>4, ReaderMoves
<1> QED
  BY <1>1, <1>2

LEMMA ReadStatsKeeps ==
  ASSUME ReadInv, NEW r \in Reader, Remote!ReadStats(r)
  PROVE  ReadInv'
<1> USE DEF Remote!ReadStats, Remote!readOthers, Remote!handleVars, Remote!diskVars
<1>1. CASE Remote!ReadFails(r)
  BY <1>1, ReaderRests
<1>2. CASE read' = [read EXCEPT ![r] = [@ EXCEPT !.stage = "post", !.stat = Remote!Stat]]
  <2> DEFINE to == [read[r] EXCEPT !.stage = "post", !.stat = Remote!Stat]
  <2>1. read[r] \in ReadState /\ read[r].stage = "page" /\ DiskTypes
    BY DEF ReadInv, ReadTypes
  <2>2. /\ to \in ReadState /\ to.stage = "post" /\ to.pre = read[r].pre
        /\ to.observed = read[r].observed /\ to.generation = read[r].generation
        /\ to.telling = read[r].telling /\ to.page = read[r].page
    BY <2>1, LookTypes DEF ReadState
  <2>3. read' = [read EXCEPT ![r] = to] /\ read'[r] = to
    BY <1>2 DEF ReadInv, ReadTypes
  <2> HIDE DEF to
  <2>4. ReaderOK(r)' /\ ReaderLooks(r)'
    BY <2>1, <2>2, <2>3 DEF ReadInv, ReaderOK, Tells, Remote!Telling, Compared, ReaderLooks
  <2> QED
    BY <2>2, <2>3, <2>4, ReaderMoves
<1> QED
  BY <1>1, <1>2

\* The fence behind the page: the file that the page was of is there still.
LEMMA ReadFencesKeeps ==
  ASSUME ReadInv, NEW r \in Reader, Remote!ReadFences(r)
  PROVE  ReadInv'
<1> USE DEF Remote!ReadFences, Remote!readOthers, Remote!handleVars, Remote!diskVars
<1>1. CASE Remote!ReadFails(r)
  BY <1>1, ReaderRests
<1>2. CASE /\ ~Remote!Replaced(read[r].pre, Remote!Status(read[r].stat))
           /\ read' = [read EXCEPT ![r] = [@ EXCEPT !.stage = "fenced",
                                                    !.stat = Remote!NoStat]]
  <2> DEFINE post == Remote!Status(read[r].stat)
             to == [read[r] EXCEPT !.stage = "fenced", !.stat = Remote!NoStat]
  <2>1. read[r] \in ReadState /\ read[r].stage = "post" /\ DiskTypes
        /\ read[r].pre \in Memory
    BY DEF ReadInv, ReadTypes, ReadState
  <2>2. post \in Memory /\ post.anchor \in {0, journal.number}
    BY <2>1, LookTypes DEF ReadState
  <2>3. /\ to \in ReadState /\ to.stage = "fenced" /\ to.pre = read[r].pre
        /\ to.observed = read[r].observed /\ to.generation = read[r].generation
        /\ to.telling = read[r].telling /\ to.page = read[r].page
    BY <2>1 DEF ReadState, Remote!NoStat, Look
  <2>4. read' = [read EXCEPT ![r] = to] /\ read'[r] = to
    BY <1>2 DEF ReadInv, ReadTypes
  <2> HIDE DEF to, post
  <2>5. read[r].telling => read[r].page \in {0, read[r].pre.anchor}
    <3> SUFFICES ASSUME read[r].telling PROVE read[r].page \in {0, read[r].pre.anchor}
      OBVIOUS
    <3>1. Remote!Telling(read[r].pre)
          /\ (journal.number = read[r].pre.anchor
                => read[r].page \in {0, read[r].pre.anchor})
      BY <2>1 DEF ReadInv, ReaderOK, Compared
    <3>2. Remote!Telling(post) /\ post.anchor = read[r].pre.anchor
      BY <1>2, <2>1, <2>2, <3>1, NotReplaced DEF post
    <3> QED
      BY <2>2, <3>1, <3>2 DEF Remote!Telling
  <2>6. ReaderOK(r)' /\ ReaderLooks(r)'
    BY <2>1, <2>3, <2>4, <2>5 DEF ReadInv, ReaderOK, Tells, Remote!Telling, Compared,
       ReaderLooks
  <2> QED
    BY <2>3, <2>4, <2>6, ReaderMoves
<1> QED
  BY <1>1, <1>2

\* A page that is delivered joins what was served; the authority has not moved,
\* so it is of the file that the handle remembers.
LEMMA ReadDeliversKeeps ==
  ASSUME ReadInv, NEW r \in Reader, Remote!ReadDelivers(r)
  PROVE  ReadInv'
<1> USE DEF Remote!ReadDelivers, Remote!readOthers
<1>1. CASE served' = served
  BY <1>1, ReaderRests DEF Remote!handleVars
<1>2. CASE /\ authority = read[r].observed /\ read[r].page # 0 /\ read[r].telling
           /\ served' = served \cup {[generation |-> read[r].generation,
                                      number |-> read[r].page]}
  <2> DEFINE new == [generation |-> read[r].generation, number |-> read[r].page]
  <2>1. read[r].stage = "fenced" /\ read[r] \in ReadState /\ ReaderOK(r)
    BY DEF ReadInv, ReadTypes
  <2>2. /\ read[r].page = read[r].pre.anchor /\ Tells(read[r].page)
        /\ read[r].generation <= progress.generation /\ distrust = 0
        /\ \A p \in served : p.generation >= read[r].generation => Tells(p.number)
    BY <1>2, <2>1 DEF ReaderOK, Compared
  <2>3. new \in [generation : Nat, number : Nat] /\ new.generation = read[r].generation
        /\ new.number = read[r].page /\ served' = served \cup {new}
    BY <1>2, <2>1 DEF ReadState
  <2> HIDE DEF new
  <2>4. UNCHANGED <<Remote!diskVars, Remote!handleVars, holder, feed>>
    BY DEF Remote!handleVars
  <2>5. Remote!NoRead \in ReadState /\ Remote!NoRead.stage = "idle"
    BY DEF Remote!NoRead, Remote!NoStat, Remote!Unseen, ReadState, Look, Memory
  <2>6. read' = [read EXCEPT ![r] = Remote!NoRead] /\ read'[r] = Remote!NoRead
        /\ \A q \in Reader : q # r => read'[q] = read[q]
    BY DEF Remote!ReadFails, ReadInv, ReadTypes
  <2> USE DEF ReadInv
  <2>7. ReadTypes'
    BY <2>3, <2>4, <2>5, <2>6 DEF ReadTypes, DiskTypes, Remote!diskVars, Remote!handleVars
  <2>8. \A n : Tells(n)' <=> Tells(n)
    BY <2>4 DEF Tells, Remote!Telling, Remote!handleVars
  <2>9. DiskOK' /\ DistrustEnds' /\ \A f \in Feeder : FeederOK(f)'
    BY <2>4 DEF DiskOK, DistrustEnds, Remote!DistrustEnds, FeederOK, Remote!Stale,
       Remote!diskVars, Remote!handleVars
  <2>10. ServedOK'
    BY <2>2, <2>3, <2>4, <2>8 DEF ServedOK, Remote!handleVars
  <2>11. OneJournalPerGeneration'
    <3> SUFFICES ASSUME NEW p \in served, p.generation = new.generation
                 PROVE  p.number = new.number
      BY <2>3 DEF OneJournalPerGeneration, Remote!OneJournalPerGeneration
    <3>1. p.generation \in Nat
      BY DEF ReadTypes
    <3> QED
      BY <2>2, <2>3, <3>1 DEF Tells
  <2>12. ASSUME NEW q \in Reader PROVE ReaderOK(q)'
    <3>1. CASE q = r
      BY <2>5, <2>6, <3>1 DEF ReaderOK
    <3>2. CASE q # r
      BY <2>2, <2>3, <2>4, <2>6, <2>8, <3>2 DEF ReaderOK, Remote!diskVars, Remote!handleVars
    <3> QED
      BY <3>1, <3>2
  <2>13. LooksOK'
    <3> SUFFICES ASSUME ~removed
                 PROVE  MemoryLooks' /\ (\A f \in Feeder : FeederLooks(f)')
                        /\ (\A q \in Reader : ReaderLooks(q)')
      BY <2>4 DEF LooksOK, Remote!diskVars
    <3>1. \A s : OfTheFile(s)' <=> OfTheFile(s)
      BY <2>4 DEF OfTheFile, Remote!diskVars
    <3>2. \A l, g : Behind(l, g)' <=> Behind(l, g)
      BY <2>4 DEF Behind, Remote!Stat, Remote!diskVars
    <3>3. \A q \in Reader : ReaderLooks(q)'
      BY <2>4, <2>5, <2>6, <3>1, <3>2 DEF LooksOK, ReaderLooks, Remote!diskVars,
         Remote!handleVars
    <3> QED
      BY <2>4, <3>1, <3>2, <3>3 DEF LooksOK, MemoryLooks, FeederLooks, Remote!diskVars,
         Remote!handleVars
  <2> QED
    BY <2>7, <2>9, <2>10, <2>11, <2>12, <2>13
<1> QED
  BY <1>1, <1>2

-----------------------------------------------------------------------------
(* The theorems *)

LEMMA ReadStepKeeps ==
  ASSUME ReadInv, NEW r \in Reader, Remote!ReadStep(r)
  PROVE  ReadInv'
<1>1. CASE Remote!ReadCancelled(r)
  BY <1>1, ReaderRests DEF Remote!ReadCancelled, Remote!readOthers, Remote!handleVars
<1> QED
  BY <1>1, ReadBeginsKeeps, ReadAnchorsKeeps, ReadComparesKeeps, ReadEntersKeeps,
     ReadServesKeeps, ReadStatsKeeps, ReadFencesKeeps, ReadDeliversKeeps
  DEF Remote!ReadStep

LEMMA ReadKeeps == ReadInv /\ Remote!RemoteNext => ReadInv'
<1> SUFFICES ASSUME ReadInv, Remote!RemoteNext PROVE ReadInv'
  OBVIOUS
<1>1. plan.feeders \subseteq Feeder /\ plan.readers \subseteq Reader
  BY ReadAssumption DEF ReadInv, ReadTypes, DiskTypes
<1>2. CASE \E f \in plan.feeders : Remote!FeedStep(f)
  BY <1>1, <1>2, PollKeeps, UpdateBeginsKeeps, UpdatePublishesKeeps DEF Remote!FeedStep
<1>3. CASE \E r \in plan.readers : Remote!ReadStep(r)
  BY <1>1, <1>3, ReadStepKeeps
<1> QED
  BY <1>2, <1>3, CaptureKeeps, StopKeeps, RemoveKeeps, StartKeeps DEF Remote!RemoteNext

LEMMA ReadRests == ReadInv /\ UNCHANGED readVars => ReadInv'
<1> SUFFICES ASSUME ReadInv, UNCHANGED readVars PROVE ReadInv'
  OBVIOUS
<1> USE DEF readVars
<1>1. ReadTypes' /\ DiskOK' /\ ServedOK' /\ DistrustEnds' /\ OneJournalPerGeneration'
  BY DEF ReadInv, ReadTypes, DiskTypes, DiskOK, ServedOK, Tells, DistrustEnds,
         OneJournalPerGeneration, Remote!DistrustEnds, Remote!OneJournalPerGeneration,
         Remote!Telling
<1>2. (\A f \in Feeder : FeederOK(f)') /\ (\A r \in Reader : ReaderOK(r)')
  BY DEF ReadInv, FeederOK, Remote!Stale, ReaderOK, Tells, Remote!Telling, Compared
<1>3. LooksOK'
  BY DEF ReadInv, LooksOK, MemoryLooks, FeederLooks, ReaderLooks, OfTheFile, Behind,
         Remote!Stat
<1> QED
  BY <1>1, <1>2, <1>3 DEF ReadInv

\* The invariant of how a window reads a capture (remote.rs, tail.rs, feed.rs):
\* what feeders hold, readers hold, and was served, against the handle's memory.
THEOREM ReadInvariant == SourceSpec => []ReadInv
<1>1. SourceInit => ReadInv
  BY ReadInitially DEF SourceInit
<1>2. ReadInv /\ [SourceNext]_<<part, vars, readVars>> => ReadInv'
  BY ReadKeeps, ReadRests DEF SourceNext
<1> QED
  BY <1>1, <1>2, PTL DEF SourceSpec

\* Rows delivered under one generation are of one journal file, whatever the
\* order of restarts, removals, ticks and reads (read_page).
THEOREM ReadOneJournal == SourceSpec => []OneJournalPerGeneration
<1>1. ReadInv => OneJournalPerGeneration
  BY DEF ReadInv
<1> QED
  BY <1>1, ReadInvariant, PTL

\* A distrust is of the handle's generation, and unless a capture was removed
\* the worker is past it: the next snapshot ends it (update_progress).
THEOREM ReadDistrustEnds == SourceSpec => []DistrustEnds
<1>1. ReadInv => DistrustEnds
  BY DEF ReadInv
<1> QED
  BY <1>1, ReadInvariant, PTL

-----------------------------------------------------------------------------
(* The manager of the same source *)

\* Every behaviour of a source is, for its manager, a behaviour of the manager
\* with steps in between that leave it alone.
THEOREM SourceIsManager == SourceSpec => Spec
<1>1. SourceInit => Init
  BY DEF SourceInit
<1>2. [SourceNext]_<<part, vars, readVars>> => [Next]_vars
  BY DEF SourceNext
<1> QED
  BY <1>1, <1>2, PTL DEF SourceSpec, Spec

\* While windows read it, too, a source is captured by one attempt at a time,
\* a stopped one is released, an ended one has its state, and nothing of it
\* goes on behind a shutdown.
THEOREM SourceKeepsManager ==
    SourceSpec => /\ []OneCapture
                  /\ []StoppedIsReleased
                  /\ []EndedIsTerminalOrFailed
                  /\ []NothingAfterShutdown
  BY SourceIsManager, SourceOneCapture, SourceStoppedIsReleased,
     SourceEndedIsTerminalOrFailed, SourceNothingAfterShutdown
=============================================================================
