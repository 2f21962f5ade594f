----------------------------- MODULE RemoteRead -----------------------------
(***************************************************************************)
(* How a window reads a capture that the shared worker owns                *)
(* (crates/lvu-shared/src/remote.rs, tail.rs, feed.rs).  The bytes come    *)
(* from the journal file itself; what the worker says of it arrives as     *)
(* progress snapshots, which feeders poll and publish into the window's    *)
(* RemoteSourceHandle.  Between the two the file may be replaced.  The     *)
(* handle remembers what it last saw of the file, distrusts a file that    *)
(* was replaced under one generation, and discards a page when file or     *)
(* authority moved while it was read.                                      *)
(*                                                                         *)
(* A file is told by its inode and by its first record, whose acquisition  *)
(* id no other journal has: the number of the file stands for it.  A       *)
(* snapshot's records stand for its high watermark as well, which moves    *)
(* with them.  The worker session is one: another worker means another     *)
(* handle.                                                                 *)
(***************************************************************************)
EXTENDS Naturals

CONSTANTS
    Feeder,         \* tasks that publish: a feeder, one it replaces, a stop's last poll
    Reader,         \* tasks that read pages
    Inode,
    Plans,          \* who takes part: records of the feeders, the readers, and of
                    \* how often the worker starts the source
    MaxLength,      \* bound: records of a journal
    Nobody

VARIABLES
    journal,    \* the file at the journal path: [number, inode, records, torn],
                \* numbered by the start that made it
    starts,     \* starts so far
    metadata,   \* the generation in source.json, 0 without the file
    running,    \* the worker captures the source
    worker,     \* what the worker answers: [generation, records]
    progress,   \* the handle's snapshot, and what it publishes
    memory,     \* file_state, and last_status: they differ only before the first
                \* tick, when the code falls back to file_state
    distrust,   \* invalid_generation, or 0
    authority,  \* how often authority has moved
    holder,     \* the feeder that has the state mutex over its poll, or Nobody
    gate,       \* the reader that has the page permit, or Nobody
    feed,       \* [stage, snapshot, stat] of each feeder
    read,       \* [stage, observed, generation, pre, page, telling] of each reader
    plan,       \* the plan of this behaviour
    removed,    \* history: storage management removed part of the capture
    served      \* history: the pages with rows delivered on a telling memory,
                \* [generation, number]

remoteVars == <<journal, starts, metadata, running, worker, progress, memory,
    distrust, authority, holder, gate, feed, read, plan, removed, served>>
diskVars == <<journal, starts, metadata, running, worker, plan, removed>>
handleVars == <<progress, memory, distrust, authority>>

Missing == [number |-> 0, inode |-> 0, records |-> 0, torn |-> FALSE]
Unseen == [inode |-> 0, length |-> 0, anchor |-> 0]

-----------------------------------------------------------------------------
\* The tail's view of the file.

\* What FileIdentity::of sees.  A torn frame is shorter than a whole one.
Stat == [inode |-> journal.inode,
         length |-> 2 * journal.records + IF journal.torn THEN 1 ELSE 0]

\* read_anchor: the first record, if there is one.
Anchor == IF journal.records > 0 THEN journal.number ELSE 0

\* poll_status puts the two together; the file may change in between.
Status(stat) == [inode |-> stat.inode, length |-> stat.length, anchor |-> Anchor]

\* Mutant: no look at the first record.
ReplacedByLength(previous, current) ==
    previous.inode # current.inode \/ current.length < previous.length

\* classify: another inode, a shorter file, or another first record.
Replaced(previous, current) ==
    \/ previous.inode # current.inode
    \/ current.length < previous.length
    \/ /\ previous.anchor # 0 /\ current.anchor # previous.anchor
       /\ current.anchor # 0 \/ current.length > 0

-----------------------------------------------------------------------------
\* The worker and the storage management.

Capture ==
    /\ running /\ journal.number # 0 /\ journal.records < MaxLength
    /\ journal' = [journal EXCEPT !.records = @ + 1]
    /\ worker' = [worker EXCEPT !.records = @ + 1]
    /\ UNCHANGED <<starts, metadata, running, plan, removed, handleVars, holder, gate,
                   feed, read, served>>

\* The capture ends, or its writer fails in the middle of a frame.
Stop ==
    /\ running
    /\ running' = FALSE
    /\ \E torn \in BOOLEAN : journal' = [journal EXCEPT !.torn = torn]
    /\ UNCHANGED <<starts, metadata, worker, plan, removed, handleVars, holder, gate,
                   feed, read, served>>

\* A capture that nobody writes is deleted.  remove_tree unlinks one entry
\* after the other, and a cancellation or an error leaves the rest.
Remove ==
    /\ ~running /\ ~removed
    /\ \E parts \in SUBSET {"journal", "metadata"} \ {{}} :
          /\ "journal" \in parts => journal.number # 0
          /\ "metadata" \in parts => metadata # 0
          /\ journal' = IF "journal" \in parts THEN Missing ELSE journal
          /\ metadata' = IF "metadata" \in parts THEN 0 ELSE metadata
    /\ removed' = TRUE
    /\ UNCHANGED <<starts, running, worker, handleVars, holder, gate, feed, read,
                   plan, served>>

\* start_inner: the next generation is counted in source.json, the journal is
\* opened, which cuts a torn tail, and only then can progress be asked for.
Start ==
    /\ ~running /\ starts < plan.starts
    /\ starts' = starts + 1
    /\ metadata' = metadata + 1
    /\ running' = TRUE
    /\ \/ /\ journal.number # 0
          /\ journal' = [journal EXCEPT !.torn = FALSE]
       \/ /\ journal.number = 0
          /\ \E i \in Inode :
                journal' = [number |-> starts', inode |-> i, records |-> 0, torn |-> FALSE]
    /\ worker' = [generation |-> metadata', records |-> journal'.records]
    /\ UNCHANGED <<plan, removed, handleVars, holder, gate, feed, read, served>>

-----------------------------------------------------------------------------
\* feed_once: a poll of the worker, then update_progress on a blocking thread.

NoStat == [inode |-> 0, length |-> 0]
NoFeed == [stage |-> "idle", snapshot |-> [generation |-> 0, records |-> 0],
           stat |-> NoStat]

PollProgress(f) ==
    /\ feed[f].stage = "idle"
    /\ feed' = [feed EXCEPT ![f] = [@ EXCEPT !.stage = "polled", !.snapshot = worker]]
    /\ UNCHANGED <<diskVars, handleVars, holder, gate, read, served>>

\* A snapshot is stale if its generation is, or if it goes back within one.
Stale(snapshot) ==
    \/ snapshot.generation < progress.generation
    \/ /\ snapshot.generation = progress.generation
       /\ snapshot.records < progress.records

\* update_progress refuses, or begins its poll with the state mutex held.
UpdateBegins(f) ==
    /\ feed[f].stage = "polled" /\ holder = Nobody
    /\ \/ /\ Stale(feed[f].snapshot) \/ journal.number = 0
          /\ feed' = [feed EXCEPT ![f] = NoFeed]
          /\ UNCHANGED holder
       \/ /\ ~Stale(feed[f].snapshot) /\ journal.number # 0
          /\ feed' = [feed EXCEPT ![f] = [@ EXCEPT !.stage = "stat", !.stat = Stat]]
          /\ holder' = f
    /\ UNCHANGED <<diskVars, handleVars, gate, read, served>>

\* Mutant: a replacement that a newer generation explains is distrusted too.
DistrustedAnyway(snapshot, moved) == IF moved THEN snapshot.generation ELSE distrust

\* The distrust with which an update leaves its look at the file: only a
\* replacement under the handle's own generation adds to it.
Distrusted(snapshot, moved) ==
    IF moved /\ snapshot.generation = progress.generation
    THEN snapshot.generation ELSE distrust

\* The anchor is read, and the snapshot accepted.  A newer generation ends the
\* distrust; authority moves at most once.
UpdatePublishes(f) ==
    /\ feed[f].stage = "stat"
    /\ LET snapshot == feed[f].snapshot
           fresh == Status(feed[f].stat)
           moved == memory # Unseen /\ Replaced(memory, fresh)
           held == Distrusted(snapshot, moved)
           ends == held # 0 /\ snapshot.generation > held
       IN /\ memory' = fresh
          /\ distrust' = IF ends THEN 0 ELSE held
          /\ authority' = IF moved \/ ends THEN authority + 1 ELSE authority
          /\ progress' = snapshot
    /\ holder' = Nobody
    /\ feed' = [feed EXCEPT ![f] = NoFeed]
    /\ UNCHANGED <<diskVars, gate, read, served>>

-----------------------------------------------------------------------------
\* read_page.  Every failure is the same to the caller, who tries again later.

NoRead == [stage |-> "idle", observed |-> 0, generation |-> 0, stat |-> NoStat,
           pre |-> Unseen, page |-> 0, telling |-> FALSE]

ReadFails(r) == read' = [read EXCEPT ![r] = NoRead]
readOthers == <<diskVars, progress, distrust, authority, holder, feed>>

\* The authority is sampled, the distrust looked at, and the poll before the
\* read begun.  An update that falls in between and matters moves authority, and
\* the page is discarded in the end: these are one step.
ReadBegins(r) ==
    /\ read[r].stage = "idle" /\ holder = Nobody
    /\ distrust = 0 /\ journal.number # 0
    /\ read' = [read EXCEPT ![r] = [@ EXCEPT !.stage = "pre", !.observed = authority,
                                   !.generation = progress.generation, !.stat = Stat]]
    /\ UNCHANGED <<readOthers, memory, gate, served>>

ReadAnchors(r) ==
    /\ read[r].stage = "pre"
    /\ read' = [read EXCEPT ![r] = [@ EXCEPT !.stage = "compare",
                                             !.pre = Status(read[r].stat), !.stat = NoStat]]
    /\ UNCHANGED <<readOthers, memory, gate, served>>

\* A memory of an empty file, or of one whose first record came during the
\* poll, is of no use.
Telling(status) == status.length > 0 /\ status.anchor # 0

\* The file is the remembered one; the first to see it remembers it.
ReadCompares(r) ==
    /\ read[r].stage = "compare" /\ holder = Nobody
    /\ IF memory # Unseen /\ Replaced(memory, read[r].pre)
       THEN ReadFails(r) /\ UNCHANGED memory
       ELSE /\ memory' = IF memory = Unseen THEN read[r].pre ELSE memory
            /\ read' = [read EXCEPT ![r] = [@ EXCEPT !.stage = "waiting",
                                                     !.telling = Telling(memory')]]
    /\ UNCHANGED <<readOthers, gate, served>>

\* One page at a time; the distrust may have come while waiting for the permit.
ReadEnters(r) ==
    /\ read[r].stage = "waiting" /\ gate = Nobody /\ holder = Nobody
    /\ IF distrust # 0
       THEN ReadFails(r) /\ UNCHANGED gate
       ELSE read' = [read EXCEPT ![r].stage = "reading"] /\ gate' = r
    /\ UNCHANGED <<readOthers, memory, served>>

\* The page, of whatever file is there now and 0 if that is empty, on a blocking thread that has the
\* permit with it.
ReadServes(r) ==
    /\ read[r].stage = "reading"
    /\ gate' = Nobody
    /\ IF journal.number = 0
       THEN ReadFails(r)
       ELSE read' = [read EXCEPT ![r] = [@ EXCEPT !.stage = "page", !.page = Anchor]]
    /\ UNCHANGED <<readOthers, memory, served>>

\* The poll after it, which takes two steps as well.
ReadStats(r) ==
    /\ read[r].stage = "page"
    /\ IF journal.number = 0
       THEN ReadFails(r)
       ELSE read' = [read EXCEPT ![r] = [@ EXCEPT !.stage = "post", !.stat = Stat]]
    /\ UNCHANGED <<readOthers, memory, gate, served>>

ReadFences(r) ==
    /\ read[r].stage = "post"
    /\ IF Replaced(read[r].pre, Status(read[r].stat))
       THEN ReadFails(r)
       ELSE read' = [read EXCEPT ![r] = [@ EXCEPT !.stage = "fenced", !.stat = NoStat]]
    /\ UNCHANGED <<readOthers, memory, gate, served>>

\* The page is delivered if authority has not moved.
ReadDelivers(r) ==
    /\ read[r].stage = "fenced"
    /\ ReadFails(r)
    /\ served' = IF authority # read[r].observed \/ read[r].page = 0 \/ ~read[r].telling
                 THEN served
                 ELSE served \cup {[generation |-> read[r].generation, number |-> read[r].page]}
    /\ UNCHANGED <<readOthers, memory, gate>>

\* The caller is dropped: a page that is being read keeps its permit to the end.
ReadCancelled(r) ==
    /\ read[r].stage \notin {"idle", "reading"}
    /\ ReadFails(r)
    /\ UNCHANGED <<readOthers, memory, gate, served>>

-----------------------------------------------------------------------------
\* The window registers a capture that runs, from the worker's first answer.
RemoteInit ==
    /\ plan \in Plans
    /\ \E i \in Inode :
          journal = [number |-> 1, inode |-> i, records |-> 0, torn |-> FALSE]
    /\ starts = 1 /\ metadata = 1 /\ running = TRUE
    /\ worker = [generation |-> 1, records |-> 0]
    /\ progress = worker /\ memory = Unseen /\ distrust = 0 /\ authority = 0
    /\ holder = Nobody /\ gate = Nobody
    /\ feed = [f \in Feeder |-> NoFeed]
    /\ read = [r \in Reader |-> NoRead]
    /\ removed = FALSE /\ served = {}

FeedStep(f) == PollProgress(f) \/ UpdateBegins(f) \/ UpdatePublishes(f)

ReadStep(r) ==
    \/ ReadBegins(r) \/ ReadAnchors(r) \/ ReadCompares(r) \/ ReadEnters(r)
    \/ ReadServes(r) \/ ReadStats(r) \/ ReadFences(r)
    \/ ReadDelivers(r) \/ ReadCancelled(r)

RemoteNext ==
    \/ Capture \/ Stop \/ Remove \/ Start
    \/ \E f \in plan.feeders : FeedStep(f)
    \/ \E r \in plan.readers : ReadStep(r)

-----------------------------------------------------------------------------
\* Within one generation a window is served from one journal file only: rows
\* at old offsets never come out of a file that took its place, whatever the
\* order of replacement, ticks and reads.  Pages served on the memory of a file
\* that was still empty are left out: such a memory tells no two files apart.
OneJournalPerGeneration ==
    \A p, q \in served :
        p.generation = q.generation => p.number = q.number

\* Distrust is of the generation the handle is at: newer authority ends it at
\* once.  And unless a capture was deleted, a distrusted handle is behind the
\* worker: a restart, torn tail or not, never locks the window out.
DistrustEnds ==
    distrust # 0 => /\ distrust = progress.generation
                    /\ removed \/ distrust < worker.generation
=============================================================================
