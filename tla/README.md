# lvu: TLA+ models, checks and proofs

lvu is a terminal log viewer. It captures files, commands, HTTP streams and
stdin into one append-only journal per source. Several viewer windows share one
worker process, which owns the capture of a capture root. This directory models
the parts of lvu whose correctness depends on crashes, on the order of durable
writes, or on what several processes do at the same time: the journal, the
capture of a followed file, the life of a source from start to terminal state,
the locks, the election of the worker and its lifetime, the worker's start and
stop requests and its session manifest, and what windows do through their
connections: the exchange of requests, the reading of a capture, the commit of
unions and the saving of views.

`PROJECT.json` is the machine-readable index: components, runs, mutants, the map
from definitions to source lines, findings, hazards and theorems. Paths below
are under `src/`; `ingest/`, `core/` and `shared/` abbreviate
`crates/lvu-ingest/src/`, `crates/lvu-core/src/` and `crates/lvu-shared/src/`,
`view/`, `memory/` and `app/` the same directories of `crates/lvu-view`,
`crates/lvu-memory` and `crates/lvu-app`.

## 1. Inventory

| Component | State it keeps | Operations | What is hard |
|---|---|---|---|
| Record journal, `core/journal.rs` | frames in a buffer, in the file and behind the last fsync; the `.seq` watermark; next sequence | `open`, `append`, `flush`, `sync_data`, `read_page`, drop | torn tails, partial writes, an identity used twice after a crash |
| Journal ownership, `core/journal.rs` | a registry of claimed paths per process, the POSIX lock on `<journal>.lock` | `PathClaim::take`, `take_record_lock`, drop, `writer_present` | closing *any* descriptor of the file drops the lock of the whole process |
| File acquisition, `core/acquisition.rs` | `FileState`: identity, offset, evidence, last checkpoint | `run_file`, `update_follow_state`, `acknowledge_file`, `validate_resume` | rotation and truncation between two polls |
| Writer thread, `ingest/writer.rs` | current batch, `since_sync`, `pending_cursor`, published progress | `append_batch`, `commit`, `handle_non_record`, `finish_writer`, `recover_file_cursor` | the cursor must never be ahead of the durable journal; a quiet tail must still be committed |
| File cursor, `ingest/cursor.rs` | the durable cursor file | `load`, `store` (write, fsync, rename) | lags the journal after a crash |
| Source manager, `ingest/manager.rs` | supervisors, runtime leases, `SourceProgress` | start, stop, abort, supervise, shutdown | a stop racing a failure; terminal states |
| Election lock, `shared/election.rs` | a registry of held paths per process, the POSIX lock on `owner.lock` | `try_take_owner`, `owner_is_live`, guard drop | the same POSIX rule, another release order |
| Election and attachment, `shared/client.rs`, `shared/child.rs` | `control.sock`, the child's stage, the window's spawn budget | `ensure_worker`, `spawn_child`, `connect`, `run_child` | two windows start at once; a successor starts while a worker stops |
| Worker lifetime, `shared/lifetime.rs`, `shared/worker.rs` | `ViewerSet`: pids and the drain deadline | `hello`, `goodbye`, `should_stop`, `serve`, `shutdown` | hellos and ends of connections in any order |
| Worker lifecycle, `shared/worker.rs` | settlement permits, single-flight start keys, lifecycle gate, known definitions, session set and its manifest | start, stop, restart, note, shutdown | leaders and joiners of one key; requests that time out while their settlement goes on; manifest writes outside the lock |
| Union commit, `shared/union_commit.rs`, `view/union_worker.rs`, `app/shared_capture.rs` | receipts per window and view; the candidate of each union; the fences of its sources | commit, status, settle, register, install, refresh | sources that move between the freeze and the commit; lost answers; candidates that were replaced |
| Protocol and client exchange, `shared/protocol.rs`, `shared/client.rs` | request ids, what is on the wire, stale ids, the live connection | `roundtrip`, `store_with_timeout`, `store_recoverable`, `retire` | a reply after its timeout; a caller that is dropped in mid-exchange |
| Remote handle, feed and tail, `shared/remote.rs`, `shared/feed.rs`, `shared/tail.rs` | the last snapshot, the last observation of the file, the distrusted generation | `feed_once`, `update_progress`, `read_page`, `classify` | the file is replaced on the same inode, between any two looks at it |
| Process, stdin and HTTP acquisition, `core/acquisition.rs`, `core/http.rs`, `core/restart.rs` | restart window, backoff | run, restart, reconnect | restart limits |
| Catalog and history, `ingest/catalog.rs`, `ingest/history.rs` | append-only side files | append | bounded retention |
| Live provider and index, `crates/lvu-live` | index of a journal prefix | index, page | a prefix that grows while it is read |
| View engine, query engine, discovery | caches over immutable rows | filter, merge, query | mostly pure |
| Workspace store and save bases, `memory/store.rs`, `shared/session.rs`, `app/memory.rs`, `app/main.rs` | versioned views; each window's bases, drafts and saves in flight | load, autosave, fork, flush, leave | two windows on one view; edits before the load is answered; a save whose answer is lost |
| Command enrichment, storage management, terminal interface, agent bridge | ledger; deletion plans; screen state; agent sessions | | deletion against live owners |

How they interact: a window calls `ensure_worker`; the elected worker opens a
`SourceManager`; each started source has an acquisition task, a supervisor that
hands its events on, and a writer thread, with bounded channels in between; the
writer publishes `SourceProgress`, which windows poll over the control socket and
use to read the journal file themselves. The journal's lock keeps two writers
apart even when the election fails to. A window's other requests (starting and
stopping sources, committing a union, loading and saving views) go to the worker
over the same connection, one exchange at a time.

What makes each modelled component correct:

* journal: no identity is given twice; what was synced stays; it behaves as an
  append-only log with a durable prefix;
* capture: no line of a followed file is skipped; the durable cursor never
  accounts for a line the journal lacks; published progress can be read; without
  a crash nothing is repeated, and a start is refused only over a tail of its own
  acquisition that was truncated or is too long; a quiet tail is committed;
* source manager: one capture of a source at a time; a complete stop lost nothing;
  a stopped source is free to start; what ended has a terminal state; every call
  and every start is answered; nothing is launched behind a shutdown;
* locks: one holder over all processes and threads, always backed by the kernel,
  and nothing left behind by an early return;
* election: the lock is with the process that acts on it, the winner removes no
  live socket, no two windows are attached to two workers that capture;
* lifetime: the audience is exactly the windows with an attached connection that no
  older one's goodbye has overtaken; an abandoned worker ends;
* worker requests: one capture for an admission key; every capture is known to the
  session; with no overlapping stores the manifest agrees with the session; what a
  shutdown could not settle it reports; every request is answered;
* exchange: a reply answers only the request it was sent for; replies that are
  still to come after a recoverable timeout are remembered;
* reading: rows delivered under one generation are of one journal file; a newer
  generation ends the distrust that a replaced file caused;
* unions: what is attested is true of all sources at one moment, but for a source
  whose state is updated under the commit's guard; a union never goes back to an
  older candidate; what is installed was attested; once the sources rest it catches
  up with them, or failed in a way that only another definition mends;
* saves: a save never replaces a state its window has not adopted (once the view was
  restored); an exit that is reported clean has saved everything; edits settle.

## 2. Modules and their correspondence to the code

### RecordLog, Journal, JournalProofs

`RecordLog` is the abstract promise: a log that is up or down, of which a prefix
is hard; appending takes a fresh identity; going down loses a suffix of what is
not hard.

`Journal` has the code's three layers. `buffer` is `Journal::buffer`, `file` what
the filesystem accepted, `durable` the length of the fsynced prefix; `tail` says
whether an incomplete frame follows. One element of `file` is one frame, so a byte
offset becomes a frame count; the CRC and length checks of `scan_metadata` become
"torn or clean". `Open` is `Journal::open` after the lock: torn tail cut and
synced, next sequence above both the frames found and the watermark.
`AppendRecord` reserves a block of identities through the watermark file first
(`TakeSequence`), then frames the record, writing the buffer out when it is full.
`Flush`, `SyncData`, `Close` are the calls of those names (dropping a `Journal`
writes nothing). `AppendWriteFails`, `ReserveFails`, `WriteFails` are the error
paths, with poisoning. `Kill` and `PowerLoss` are the environment: a kill leaves
any part of the buffer that a write in progress handed over; a power loss may take
any suffix that no fsync covered. `issued` is a history variable.

### FileCapture, MCFileCapture, FileCaptureProofs

`FileCapture` EXTENDS `Journal` and adds the two tasks that use it and the
followed source. Variables: `files` (external), `acq` (`FileState`: phase,
acquisition id, file, lines seen, last checkpoint), `queue` (the channels from
acquisition to writer as one bounded queue), `wpc`, `batch`, `sinceSync`, `pending` (the writer and its
`Commit`), `cursor` (the durable cursor file), `published`
(`SourceProgress::high_watermark`), `refusal` (why `recover_file_cursor` last
refused), `faults` (which troubles this behaviour meets).

A line stands for a record. Every line is unique, `<<file, epoch, index>>`, so
that comparing lines is what comparing bytes, CRC and evidence is in the code. A
checkpoint or cursor carries the sequence of lines it accounts for.

| Code | Actions |
|---|---|
| `run_file`, `acknowledge_file`, `update_follow_state`, `finish_file` | `Read`, `Acknowledge`, `FollowChanged`, `FollowAnew`, `StopCapture` |
| `graceful_stop` past its deadline, `abort_source` | `AbortCapture` |
| `spawn_writer`, `recover_file_cursor`, `open_file_state` | `StartWriter`, `RecoverCursor`, `RefuseStart`, `BeginCapture` |
| `append_records`, `append_batch` | `TakeRecords`, `AppendOne`, `StorageBlocked`, `FlushBatch` |
| `handle_non_record`, the bounded wait of `run_writer` | `TakeCheckpoint`, `TakeFinish`, `CommitDeadline` |
| `WriterState::commit`, `finish_writer` | `CommitJournal`, `StoreCursor`, `StoreLastCursor` |
| error returns of `run_writer`, supervisor cleanup | `WriterIoError`, `CursorIoError`, `DropWriter` |

The two halves of `commit` (journal, cursor) are separate steps because a crash
can fall between them. `append_batch` is one step per record for the same reason.

### SourceLifecycle, MCSourceLifecycle, SourceLifecycleProofs

One source in its manager. An *attempt* is one call of `start` with the progress
channel, writer, acquisition and supervisor that come of it; attempts share the
`starting` set, the `active` map, `runtime.lock` and the journal. What is captured
is `FileCapture`'s subject: here an event is only counted, and of the progress
only the state is kept.

| Code | Actions |
|---|---|
| `start_impl` | `StartAsk` (the active map), `StartAdmit` (the starting set), `StartSettle`, `StartPublish`, `StartEnds` |
| `start_inner` | `StartLease`, `StartWriter`, `StartAcquire` (the admission barrier and the launch), `StartJoinsWriter` |
| the dropped future of a caller | `CallerGone` |
| `shutdown`, `stop_for_shutdown` | `ShutdownBegins`, `ShutdownStops`, `ShutdownEnds` |
| `SourceHandle::stop`, `abort` | `CallSource` |
| the loop of `supervise`, `next_acquired` | `SupHandsOver`, `SupLosesWriter`, `SupNatural`, `SupTakesStop`, `SupTakesAbort` |
| `graceful_stop`, `abort_source`, `finish` | `SupDrains`, `SupDrained`, `SupStopDeadline`, `SupAbortFinish`, `SupAbortLate`, `SupFinished` |
| the tail of `supervise` | `SupJoins`, `SupReleases`, `SupPublishes` |
| `run_writer`, `append_batch`, `handle_non_record`, `spawn_writer`'s task | `WriterTakesEvent`, `WriterCommits`, `WriterFinishes`, `WriterCloses`, `WriterFails`, `WriterReports` |
| `emit`, `CaptureHandle` | `AcqEmits`, `AcqEnds`, `AbortAcq` |

The writer's failure takes two steps, because its channel closes before its error
is published, and the end of a supervisor three, because the lease is released
before the terminal state. An aborted acquisition ends at once here; in the code
it does at its next await. `SupJoins` covers both kinds of source: a command or
HTTP source waits for its acquisition through its history, a file or stdin does
not; the step is allowed without that wait and only fair with it.

### RecordLock, JournalLock, OwnerLock

`RecordLock` is the kernel's side: `F_SETLK` by process, and `close` of any
descriptor dropping the process's lock. `JournalLock` and `OwnerLock` extend it
with the two protocols built on it, one action per point where another thread or
process can run. They differ where the sources differ: a `Journal` closes its
descriptor and then gives up its claim (`_lock` is declared before `_claim`), an
`OwnerGuard` leaves the registry first and closes afterwards; `writer_present`
asks with `F_GETLK`, `owner_is_live` takes the lock to see whether it can.

### Election, MCElection

A take of `owner.lock` is one step here. Windows go through `ensure_worker`
(take, spawn within the budget of one, wait for the socket, give up), children
through `run_child` (elect, or probe the incumbent and exit; clear the stale
socket; bind; serve; stop; release the lock; unlink the socket). Workers may
stop at any time while they serve, and both may die anywhere.

An attachment takes three steps, between which the worker goes on. `Connect` is
`UnixStream::connect`: it fails on a stale path, and on an open listener leaves a
connection that waits to be accepted (`peer`). `Accept` is `serve`'s loop
(`accepted`), `Welcome` the answer to the Hello, and `HelloFails` its timeout,
refusal or loss. A worker that stops serving drops the connections it has not
accepted; those it has stay up, and are still welcomed, until its process exits.

### ViewerLifetime, MCViewers

The `ViewerSet`, the accept loop, and any number of connections with their two
ends apart: what a window does to its end reaches the worker later and in no
order with its other connections. Time is only the drain deadline. A window dials
again as soon as its own end is closed, without waiting for the worker to see that.
`overtaken` is a history variable: the connections that were attached when the
goodbye of another one of the same window was served. `MCViewers` is the instance
with one window that shows finding 6.

### Host, Source, WorkerProcess, Windows, their MC modules and proofs

Four modules compose what shares a place. `Host` is what the processes of one
host share: the journal, the two locks (in the same processes, which lose both when
they die), the election, and the viewers. `Source` is one source, in its manager and
as a window reads it; `WorkerProcess` what goes on inside a worker: the requests of
its windows, the manager of one source with its callers, and the capture of one file;
`Windows` what windows do over their connections: the exchange, unions and saves. A behaviour picks one part, and the others rest in
their initial states, so that a run is the sum of the parts and not their product.
Each takes the constants of its parts as its own, under the part's name where two
parts have the same (`Viewer`, `ReadPlans`, `UnionPlans`); `MCHost`, `MCSource`,
`MCWorkerProcess` and `MCWindows` only give TLC their values. `HostProofs`,
`RemoteReadProofs` and `WindowsProofs` have the theorems about the compositions and about the parts that
have no proof module of their own.

### WorkerLifecycle, MCWorkerLifecycle, WorkerLifecycleProofs

Each request is two things: the *waiter*, the connection's task that answers the
window, and the detached *settlement*, which goes on when the waiter times out. The
`SourceManager` behind it is `SourceLifecycle`'s subject; here a capture is
stopped, live or being stopped. `resume_session` is `Init`: the root is opened with
one of `Manifests`, and those sources are started.

| Code | Actions |
|---|---|
| `request_start`, `enter_start_key` | `Asks`, `Lead`, `Join` |
| `try_enter`, `closed` | `TryEnter`, `Refuse` |
| `request_stop`, `request_restart`, `spawn_keyless_start` | `Spawn` |
| the dispatch deadline | `Timeout` |
| `wait_start_settlement`, the loop of `request_start` | `Wake`, `Again` |
| `settle_start_leader`, `publish_settlement` | `Settle`, `Unreserve` |
| `admit_known`, `present_or_restart` | `Known`, `KnownById`, `Proceed` |
| the `lifecycle` mutex of every settlement | `TakeGate` |
| `start_admitted`, `finish_stop` | `ManagerStarts`, `ManagerStops` |
| `publish_started`, `note_session_member`, `note_session_stopped` | `Publish`, `NoteMember`, `Snapped` |
| `store_session_set` | `WriteTemporary`, `Rename`, `StoreFails`, `Stored` |
| `shutdown`, `StartGuard::drop` | `Close`, `Overdue`, `ShutDown`, `IdsOf`, `Dropped` |
| a source that ends by itself (the manager's) | `SourceEnds` |

A store of the session set takes two steps, the write of the temporary file and the
rename, because every store uses the same temporary file.

### RemoteRead

One handle of a window on one capture, with the feeders that poll the worker and
the readers that take pages from the file. A journal file has a number (which start
made it), an inode that a later file may have again, and a count of records; the
window can see the inode, the length and an anchor (the identity of the first
record). `file_state` and `last_status` are one variable, `memory`: they differ
only before the first tick, when the code falls back to the former.

| Code | Actions |
|---|---|
| the worker and the storage management (`ingest/`, `app/storage/`) | `Capture`, `Stop`, `Remove`, `Start` |
| `feed_once` | `PollProgress` |
| `update_progress`, `poll` of the tail | `UpdateBegins`, `UpdatePublishes` |
| `classify` | `Replaced` |
| `read_page` | `ReadBegins`, `ReadAnchors`, `ReadCompares`, `ReadEnters`, `ReadServes`, `ReadStats`, `ReadFences`, `ReadDelivers`, `ReadCancelled` |

`holder` is the state mutex, which an update keeps over its poll of the file; a
poll takes two looks (status, then anchor), with other steps in between. A read
compares the file before and after it reads, outside the mutex.

### ClientExchange

The connection of a window: `queue` holds the requests the worker has not served,
`wire` its replies, in order. The window has one exchange at a time.

| Code | Actions |
|---|---|
| `begin_exchange`, the dropped future of a caller | `Begin`, `Cancel` |
| `roundtrip`, `check_batch` | `Collect`, `Conclude`, `CheckBatch`, `IsFault` |
| `store_with_timeout` | `StoreRead`, `Match` |
| `store_recoverable` | `RecoverableRead`, `Timeout`, `RememberStale` |
| `retire`, the end of the stream | `Retire`, `EndOfStream` |
| `serve_connection` | `Serve`, `CloseConnection` |

### UnionCommit, MCUnionCommit

The `CommitTable` of the worker, the mediation that holds the publication guards of
all sources of a candidate, the sources' writers, and the candidates of each union
in their windows. A source is its fence, a number that a publication moves, and one
capture: a restart makes a new handle with a publication lock of its own
(`ingest/manager.rs:501`), which a commit that has looked up the old one never sees.
The writer publishes with the write guard (`Await`, `Move`). The manager's updates of
a state do not: they copy the progress, and later send the copy back over whatever
was published in between (`CloneProgress`, `UpdateState`). `overrun` is a history
variable: the sources whose fence such an update changed under a read guard of the
connection's commit. `MCUnionCommit` is the instance that shows finding 7.

`failed` is what a union keeps of its last failure. A terminal one (`rejected`: the
union is registered over another source set than its inputs have) is not submitted
again while its dependencies are the same; any other waits for `retry_not_before`
(`delayed`) and is then submitted again (`retry`). The candidate's thread only notes
what became of it (`Report`); the application takes the completions later
(`TakeCompletions`) and clears the unions' mark of what is in flight by view,
whatever was submitted since.

| Code | Actions |
|---|---|
| `CommitTable::commit`, `status`, `settle` | `Admission`, `Admit`, `Status`, `Settle` |
| `mediated_union_commit`, `lock_progress` | `Admit`, `LockProgress`, `TakeGuard`, `Outcome`, `Settle` |
| the writer's publication | `Await`, `Move` |
| `update_state`, `update_completion_state` | `CloneProgress`, `UpdateState` |
| `recover_union_commit`, `recover_union_status` | `Send`, `Reply`, `AttemptTimeout`, `Deadline` |
| the feeds, `register_union_view` | `Poll`, `Redefine` |
| `submit`, `union_needs_refresh`, `handle_union` | `Submit`, `UserSubmit`, `NeedsRefresh`, `Dependencies`, `Refresh`, `TakeCompletions` |
| `run_union_job`, `install_union_locked` | `Freeze`, `Register`, `Install`, `Mark`, `Fail`, `End`, `Superseded`, `SourceSetMoved` |
| `union_job_loop`, the retry delay | `Report`, `Failure`, `RetryDelayEnds` |

### WorkspaceSaves, WorkspaceSavesProofs

The views of one source: the rows of the store, and per window its tabs, save
bases, saves in flight, the command channel to its memory thread and the events
back. Windows meet only in the store. A save looks at a view (`LooksAt`) only when
the source's load is answered, the view's restored constraints are not still being
queried (`restoring`, `memory_restoring` in the code), and no command's result waits
to be saved with it (`publishing`, `suppresses_autosave`), on a forced flush as
well. Saving that result is the enrichment's own path and is not modelled: here the
wait ends when the view is left to the autosave again.

| Code | Actions |
|---|---|
| `request_restore`, the user | `OpenWindow`, `Edit`, `Fork`, `Publish`, `Quit` |
| the end of a restore's query, a result that fails to be saved | `RestoreEnds`, `FailPersistence` |
| `queue_memory_saves` | `Tick`, `QueueSaves`, `Due` |
| `poll_memory`, `handle_memory_event` | `Poll`, `Restored` |
| `flush_memory` | `SubmitFinal`, `Flush`, `Drained`, `Unanswered`, `Flushed`, `Deadline`, `Leave` |
| the shared memory thread | `Take`, `Load`, `Store`, `Refused`, `Lapse`, `Tell`, `AnswerFlush` |
| a request that the worker serves after its caller gave up | `LateCommit` |
| `save_sources_and_views` | `Accepts`, `Commit`, `NextVersion` |

## 3. Runs

| Run | Shows |
|---|---|
| `host` (`Host.cfg`) | journal: `IdentityNeverReused`, `DurablePrefixKept`, the refinement `ImplementsRecordLog`, under all failures; locks: `OneWriter`, `LockBacksWriter`, `OneGuard`; election: `OwnerAccounted`, `WinnerClearsStale`, `WindowsShareOneWorker`; viewers: `AudienceExact` and the liveness property `EndsWhenAbandoned` |
| `capture_faults` (`CaptureFaults.cfg`) | `CursorCovered`, `NoGap`, `PublishedReadable`, with kills and I/O errors, or at the storage limit, or with power losses, for a source rotated or truncated once |
| `source` (`Source.cfg`) | manager: `OneCapture`, `StoppedIsReleased`, `EndedIsTerminalOrFailed`, `CompleteStopIsWhole`, `NothingAfterShutdown`, over two starts; reading: `OneJournalPerGeneration`, `DistrustEnds`, over restarts, a torn tail and a deletion |
| `worker` (`WorkerProcess.cfg`) | requests: `OneCapturePerKey`, `CaptureIsRecorded`, `ManifestAgreesAlone`, `ShutdownAccounts`, and the liveness property `CallsSettle`; manager: the liveness properties `CallsAnswered`, `StartsSettle`; capture: `NothingRepeated`, `NeverRefused`, and the liveness property `QuietTailCommitted`, over stops, aborts and restarts |
| `windows` (`Windows.cfg`) | exchange: `AnswersOwnRequest`, `LateRepliesRemembered`; unions: `AttestsPublications`, `NeverGoesBack`, `InstalledIsAttested` and the liveness property `CatchesUp`; saves: `NoLostUpdateOnceRestored`, `CleanExitIsSavedOnceLoaded` and the liveness property `EditsSettle` |
| `source_wedge` (violated) | `EndedIsTerminal` fails: finding 3 |
| `capture_refused` (violated) | `NeverRefused` fails under kills: finding 1 |
| `election_unlink` (violated) | `ListenerReachable` fails: finding 2 |
| `worker_manifest` (violated) | `ManifestAgrees` fails: finding 4 |
| `viewers_stop` (violated) | `StaysWhileWatched` fails: finding 6 |
| `union_moment` (violated) | `AttestsOneMoment` fails: finding 7 |
| `saves_lost_update` (violated) | `NoLostUpdate` fails: finding 5 |

Deadlock is checked in `host` and `election_unlink`. It is off where a behaviour
really ends: a stopped source that nobody restarts, a worker that was shut down,
windows whose bounded plan of edits or requests is used up.

### Bounds

* `host`, journal: `MaxSequence = 7`, blocks of 2 and a buffer of 3: several
  reservations, the exhaustion of sequences, buffers full and not full. One body
  is enough: no guard looks at it. Locks: two processes with an opener each, one of
  them with a second thread, and a third that only probes; three electing
  processes. Election: two windows and three child slots, so that a third child
  starts while one stops and one loses. Viewers: three windows for two slots, four
  connections, so that one window has an old connection while two others contend.
* capture: 2 lines per file, 3 acquisition ids (a start, a restart and a rotation
  or second restart), a channel of 2, batches of 2, and one change of the source.
  That is enough for a checkpoint behind and ahead of records, a cursor of an old
  acquisition followed by records of a new one, and recovery after recovery.
  `MaxRecovery` stands for the recovery bounds: 2 in `capture_faults`, where every
  tail is read; 1 in the capture part of `worker`, where a tail of 2 exceeds it and
  the start is refused. `capture_faults` reserves identities in blocks of 4, the
  interplay of blocks being the subject of `host`.
* `source`, manager: two attempts, so that one starts while the other ends; one
  caller besides shutdown and the aborts of cancelled starts; one event in channels
  of one; two faults. The manager part of `worker` has one attempt, two callers and
  two events, so that the acquisition blocks on its channel and the writer's slots run
  out. A `fault` is an I/O error, or the storage limit, anywhere from the lease to its
  release.
* `source`, reading: one feeder and one reader across one restart, or two feeders
  across two; one record per journal, one removal. A new file always gets the inode
  of the old one, which is the hard case: a new inode is told apart at once.
* `worker`, requests: two requests (start, stop, restart, a window's note), numbered as
  they come in, over three ids, two of which are one file and the third a window's
  standard input; an empty manifest or one with both ids of the file; any number of
  timeouts; one shutdown. The limit of settlements is 2 and two requests never meet
  it, so the refusals are those of a closed worker.
* `windows`, exchange: five requests of the three kinds, two stale ids at a time, so
  that the limit of stale ids is met. Unions: two sources, and one of five plans: two
  candidates with a redefinition and a timeout; one candidate with a move and a
  timeout; two candidates with a move, whose inputs have another source set until a
  redefinition; one candidate with a move and a state update; one candidate each of
  two windows, with a move. One receipt per window. Saves: one window with two edits,
  a fork and a quit, or with a lost answer, or with a command's result, or two
  windows on one view, over two values; a command channel of one, so that it is met
  full.

### Fairness

`FileCapture!FairSpec` has weak fairness of the writer thread and of the commit
deadline: the writer is a thread of its own and waits with `recv_timeout`, so
neither is put off for ever. Nothing is assumed of the source, the user or the
acquisition. `SourceLifecycle!FairSpec` has weak fairness of the start task, the
supervisor and the writer (tokio tasks and a thread) and of the deadlines of stop
and abort, which are timeouts; the wait for the history is fair only once the
acquisition has ended, and no acquisition is assumed to end, or the callers to
call. `ViewerLifetime!Fairness` has weak fairness of each connection's
task, of the drain clock, of the accept loop's poll of `should_stop` and of the
end of `shutdown`, which is bounded by timeouts. `WorkerLifecycle!Fairness` only says that
the waiters, the settlements and the stores do not all rest while one of them can go
on: tasks of the worker's runtime and blocking calls, with a manager that answers
(what the manager part of the same run checks).
`UnionCommit!Fairness` only says that the worker's handlers, the transports, the
candidates' threads, the feeds, the application's loop and its retry delays do not
all rest while one of them can go on, a publication gets its lock once nobody holds
it, and a copied progress is sent; none of them goes round for ever, so that is
enough.
`WorkspaceSaves!Fairness` says of each window that its loop, its debounce and its
memory thread go on while they have something to do. Nothing is assumed of users,
of sources, or of windows that may die. `WorkerProcess` and `Windows` assume for each
of their parts the fairness that the part's own module states, guarded by the part
being under way.

What must happen again and again is stated as `[]<>`, not as leads-to:
`QuietTailCommitted` says that time and again nothing is outstanding, which is the
same as that whatever is outstanding is committed; `CallsAnswered` and `StartsSettle`
that time and again no call waits and no start is half-way, or a stop met a failed
writer, which is more than that each of them comes to an end.

## 4. Findings and conditions

Findings, each with a run that shows it:

1. *A kill can leave a source that refuses every later start* (`capture_refused`,
   `ingest/writer.rs`). A restarted source captures records under its new
   acquisition id and is killed before the commit that stores the new cursor. The
   old cursor is now followed by records of another acquisition, and
   `recover_file_cursor` refuses that as an "uncheckpointed boundary", each time.
2. *A stopping worker removes its successor's socket* (`election_unlink`,
   `shared/child.rs`). The lock is dropped before the socket file is removed,
   while the comment says the socket goes "while still holding the election".
3. *A source that stays in Stopping for ever* (`source_wedge`,
   `ingest/manager.rs`). A stop takes effect just after the writer has failed:
   `graceful_stop` writes `Stopping` over the published `Error`, finds the writer
   gone, and `supervise` publishes nothing for a stop that failed. The supervisor
   has ended and the lease is free, but `start` goes by the state and answers
   `AlreadyRunning` until the manager is dropped.
4. *An older session set stays on disk* (`worker_manifest`, `shared/worker.rs`).
   `note_session_stopped` and `note_session_member` store their snapshot after they
   have released the session lock, and every store uses one temporary file. When two
   overlap, the older set can be renamed last: a worker that restarts resumes a
   source that was stopped, or forgets one. The comment says the set is stored
   "atomically".
5. *An edit made before the load is answered replaces the stored view*
   (`saves_lost_update`, `shared/session.rs`, `app/main.rs`). The answer seeds the
   window's save base even for a view whose restore is skipped because the user has
   acted on it, so the next autosave replaces a state that this window never showed,
   which the module calls "a silent lost update".
6. *A worker that stops under a window that watches* (`viewers_stop`,
   `shared/lifetime.rs`). A window whose request failed redials at once, with the
   same pid. When the worker serves the new hello before the end of the old
   connection, that connection's goodbye, which goes by pid, takes the window out of
   the audience. The drain clock runs, and the worker stops its captures although
   the new connection is up at both ends. The comment says "Shutdown fires only when
   no viewers remain past the grace deadline".
7. *A union attested over fences that did not hold together* (`union_moment`,
   `ingest/manager.rs`). `update_state` and `update_completion_state` clone the
   published progress and send the copy back without the publication lock. When the
   writer published in between and a commit has sampled the source under its read
   guard, the copy puts the older watermark back before the verdict.
   `lock_progress` says that "only the watch publication itself takes the write
   side", and `mediated_union_commit` that "the attested set coexisted under the
   guards". The same send takes the watermark back for every reader until the next
   publication.

Conditions the passing runs and the theorems carry, because the models show the
property to fail without them:

* `CursorCovered` is checked under kills and under power losses, not under a power
  loss that follows a kill: frames that a killed writer left in the page cache are
  added to the cursor by the next start without an fsync of the journal.
* `PublishedReadable` exempts the storage limit: `append_batch` publishes records
  that are still in the buffer, and then drops the buffer with the writer.
* the probes of `JournalLock` come from processes that do not open the journal
  (`ProbersApart`): `writer_present` in an opening process may close the lock file
  between the other thread's claim and its use.
* one thread of each process takes part in the election (`OneThreadEach`): with
  two, a guard being dropped can take away the lock of one just taken.
* `AudienceExact` is finding 6 turned round: the audience misses only windows whose
  connection a goodbye of an older one has overtaken, and holds nobody else.
* `CallsAnswered` and `StartsSettle` exempt a stop that met a failed writer: on
  that path `graceful_stop` does not abort the acquisition, and a command or HTTP
  acquisition blocked on its full channel then keeps the supervisor waiting for its
  history, the stop unanswered, and `shutdown`, whose stops have no deadline of
  their own, with it.
* `EndedIsTerminalOrFailed` is finding 3 turned round: only such a stop ends a
  source without a terminal state.
* `StoppedIsReleased` is about Stopped and Aborted. The comment in `supervise`
  also names Incomplete, which the writer itself publishes when its channel closes,
  before the lease is free: the next start may be refused for a moment. An Error or
  StorageBlocked is likewise published while the supervisor still has the lease.
* `NothingAfterShutdown` exempts an acquisition whose writer has failed: its state
  is terminal, so shutdown does not wait for its supervisor. It claims nothing
  when the wait for starts under way ran into its deadline.
* `NothingRepeated` and `NoGap` speak of lines written before a truncation: a file
  truncated and refilled between two polls is read on from the old offset, as
  following by length and identity must.
* `OneCapturePerKey` exempts two ids that one manifest resumed: `resume_session`
  starts every member without looking at admission keys.
* `ManifestAgreesAlone` is finding 4 turned round: only overlapping stores, or one
  that failed, leave the manifest behind the session.
* `LeaderIsReserved` (stated in `WorkerLifecycle`, in no run) fails:
  `publish_settlement` removes the key's reservation whoever holds it, so a joiner
  that saw the outcome, went round and became the next leader can lose its
  reservation, and a third request leads beside it. The lifecycle gate keeps their
  captures apart, which is what `OneCapturePerKey` checks.
* `LateReplyDrained` (in `ClientExchange`, in no run) fails: only recoverable reads
  drain remembered replies. A stale reply that arrives during a control exchange or a
  plain store exchange is a fault there and the connection is retired.
* `CleanExitIsSavedOnceLoaded`: a window that quits before its load was answered may
  leave cleanly with an edit unsaved (`CleanExitIsSaved`, in no run): the flush
  collects events and then looks for its acknowledgement, so the load's answer can
  come in between and is never handled, and a source that is not loaded has nothing
  pending.
* each window that opens a source autosaves the state it restored, which moves the
  version of the row: the next save of a window that was there before is refused as
  a conflict although nobody edited.
* `NoLostUpdateOnceRestored` is finding 5 turned round.
* union receipts are never given back: `detach_window` and the retirement of views
  are called from tests only, so after 16 windows the worker refuses the unions of
  later ones. The models' windows are within the limit.
* no repetition of an equal generation reaches the `CommitTable` in these runs: a
  connection is served in order and is not opened again, so `Status` follows its
  commit.
* `AttestsPublications` is finding 7 turned round: only the sources whose state was
  updated under the commit's own guard may have moved between the sample and the
  verdict. It still says that no publication of a writer does.
* `CatchesUp` exempts a union whose last failure is terminal for the dependencies it
  now has: `SOURCE_SET_MOVED` is not submitted again before they change. It also
  ends with the plan's last candidate.
* `OneJournalPerGeneration` leaves out pages served while the handle's memory is of
  an empty or missing file, which cannot tell two files apart.
* `DistrustEnds` exempts a handle whose generation is not below the new capture's:
  deleting a capture removes `source.json`, its next capture counts generations
  from 1 again, and a handle that has seen as many never trusts it. `start_source`
  of a window reuses such a handle.
* `ensure_worker` keeps the guard it won over `spawn_child`, so a child can lose
  the election to its own spawner; the window then waits for another round.
* a hello in flight when the worker decides to stop is still welcomed, because the
  connections' tasks outlive `serve`; its window finds out when the process exits.
  `WindowsShareOneWorker` allows for it: such a window is attached to a worker that
  has the lock until its captures have stopped, and to one that has none after.
* `NeverRefused` names the two refusals there are without a crash: lines that a
  truncation took away, and a tail longer than a recovery reads. The second can
  happen: a checkpoint is sent every 256 KiB (`acquisition.rs:33`), which are 131,072
  records of one character, and `MAX_RECOVERY_RECORDS` is 65,536, so a capture of
  such lines that is aborted between two checkpoints is refused.

## 5. Proofs

All proofs are checked by TLAPS for every value of the constants.

| Module | Theorems | Argument |
|---|---|---|
| `JournalProofs` | `JournalInvariant`, `JournalTypes`, `JournalIdentity`, `JournalDurability`, `JournalRefinement` | see below |
| `FileCaptureProofs` | `WriterInvariant`, `CaptureTypes`, `CaptureIsJournal`, `CaptureKeepsJournal`, `PublishedIsReadable`, `CursorIsCovered`, `NoLineSkipped`, `RestartRepeatsNothing`, `RestartIsNotRefused` | `CursorIsCovered` and `NoLineSkipped` under `LossAlone`, the last two under `NoTrouble` |
| `SourceLifecycleProofs` | `SourceLeaseInvariant`, `SourceOneCapture`, `SourceAttemptInvariant`, `SourceStoppedIsReleased`, `SourceEndedIsTerminalOrFailed`, `SourceCompleteStopIsWhole`, `SourceInvariant`, `SourceNothingAfterShutdown` | see below |
| `WorkerLifecycleProofs` | `WorkerInvariant`, `WorkerOneCapture`, `WorkerRecords`, `WorkerManifest`, `WorkerShutdown` | see below |
| `WorkspaceSavesProofs` | `SavesInvariant`, `SavesCleanExit`, `SavesNoLostUpdate` | see below |
| `HostProofs` | `JournalLockInvariant`, `JournalLockExclusive`, `JournalLockBacked` | under `ProbersApart` |
| | `GuardInvariant`, `GuardExclusive` | see below |
| | `ElectionInvariant`, `ElectionAccounted`, `ElectionClearsStale`, `ElectionShares`, `ElectionUnlinks` | see below |
| | `AudienceInvariant`, `AudienceComplete` | see below |
| | `HostIsEachPart`, `HostKeepsJournal`, `HostKeepsWriter`, `HostKeepsElection` | the parts on one host |
| `RemoteReadProofs` | `ReadInvariant`, `ReadOneJournal`, `ReadDistrustEnds`; `SourceIsManager`, `SourceKeepsManager` | see below |
| `WindowsProofs` | `ExchangeInvariant`, `ExchangeAnswersOwn`, `ExchangeRemembers`; `UnionInvariant`, `UnionInstalledIsAttested`, `UnionAttestsPublications`, `UnionNeverGoesBack`; `WindowsSave`, `WindowsKeepSaves` | see below |

*Journal.* `IdentityNeverReused` is not inductive: after a crash nothing in the
process says which identities were given. `JournalInv` adds that every identity
ever given is below the durable watermark (`IssuedBelowWatermark`), that each
frame carries a given one, and that an open journal hands out identities only
below what it reserved. Each action has a lemma; the failing writes share
`PartialWriteIsPrefix`, that what a failed write leaves is a prefix of what would
have been there. The refinement maps each step to an operation or a failure of
`RecordLog`, with the invariant as the only extra hypothesis.

*Capture.* Each step of `FileCapture` is a step of `Journal` or leaves its variables
alone (`JournalSteps`), so `JournalInv` holds under it and the journal's theorems
carry over. What a step does to the frames (file and buffer in order) is said once:
they are kept, one is added, or some of the last ones are dropped (`FramesKept`,
`Added`, `FramesDropped`, `Lost`). `Quiet` says that between batches nothing is
buffered, so an offset into the journal is an offset into the file, and `Readable`
that the watermark is in the file. `CursorCovered` is not inductive, since the
cursor comes from a checkpoint that was sent long before: `Travels` says that in
the queue a checkpoint is behind every line it accounts for, and a record behind
the earlier lines of its file, where "behind" counts what is in the frames, in the
batch, or ahead in the queue; the same holds of the batch and of what the task has
seen. An abort cuts the queue off at its end, the writer takes from its head, and
both keep that. A record is behind the earlier lines because of `Follows`: what was
read of a file that was never cut short is exactly how it begins. `Ordered` of the
frames is `NoGap`. A writer that failed is exempt from `Travels`: the supervisor
discards its queue and batch. `Synced` says that where power is lost the cursor is
within what is durable. It needs `LossAlone`, that such a behaviour has no other
failure, and the code does not grant more: a killed writer's frames are in the
page cache only, and the next start adds them to the cursor without an fsync.

*Capture without failures.* `NothingRepeated` and `NeverRefused` hold over stops,
aborts and restarts only (`NoTrouble`); kills refute the second (finding 1). Neither
is inductive: what a restart does depends on what earlier captures sent, through
rotations and truncations, and on where the cursor stood when they were stopped.
The proof reads frames, batch and queue as one sequence of events, the road. The
writer's work moves nothing on it (`RoadStays`): an event joins at its end, an abort
cuts it short, and a delivered checkpoint leaves it and becomes the mark, the
cursor that the next commit stores. `RoadOK` says that every line on the road was
written (`Genuine`); that whoever resumes from a checkpoint or from the mark is past
every record before it (`Trusted`, `MarkTrusted`); that behind the mark each record is
the next line of the file and acquisition of the checkpoint before it (`Tracks`);
and that no line comes twice (`Apart`). `ReaderOK` says the same of the task, which
stands where the road ends. Two ends of it take thought. `recover_file_cursor`
brings the mark to the end of the journal (`RecoveredGood`), so a start whose file
was neither rotated nor cut short resumes past everything (`Resumes`); and a start
that does not resume reads from the beginning, which repeats nothing because a
record of that file in the journal would have made the cursor match
(`PathMatches`). A refusal is then for content, behind a truncation
(`RefusedForContent`): the journal behind the cursor is the next lines of one
acquisition, and the source still has them.

`RestartIsNotRefused` says of a refusal what `RefusedForContent` gives: the tail is of
the cursor's acquisition, and it was truncated in the source or is longer than
`MaxRecovery`, which may be any number. It does not say that the second never
happens, because it can (section 4).

*Source.* The invariant has three layers, and each is proved with the one below.
`LeaseInv`: `OneCapture` speaks of supervisors only and is not inductive, because
the lease is taken by the start task; so it says that an attempt is entitled to
the lease from `StartLease` to a failure or to the supervisor's release, that
before its launch it has no supervisor, and that the lease is with exactly the
attempt that is entitled to it. Most steps leave the start tasks' stages, the
supervisors' places and the lease alone (`OthersKeepLease`) or move a supervisor
within its stretch (`PlaceKeepsLease`).

`AttemptInv` is about one attempt by itself, the same for all: which places of the
supervisor go with which states of its writer (`WriterOK`, `SupOK`), that a Finish
in the writer's channel is the last message and its answer is waited for, but for
the one a deadline left behind (`QueueOK`), what each answer says of the writer
that gave it (`ReplyOK`), where the acquisition may still be going on (`AcqOK`),
and what the published state says of all of them (`StateOK`). `StoppedIsReleased`,
`EndedIsTerminalOrFailed` and `CompleteStopIsWhole` follow from it. Each of its
predicates has a lemma that lists the steps able to disturb it; the steps of the
other attempts are excluded once, by the lemmas that say what each kind of step
leaves alone (`StartLeaves`, `WorkLeaves`, `SupervisorLeaves`, `CallersLeave`).

`SourceInv` adds what relates the attempts: at most one start is under way, no
supervisor of another attempt is alive while one is being launched, whoever can
still be running is the active one (`StageInv`), and a shutdown that found no
start under way has asked the active source to stop and waits while anything of
it goes on (`QuitInv`). `NothingAfterShutdown` follows; it needs that the ids of
attempts are not also names of callers, which `LifecycleConstants` says.

*Worker.* `OneCapturePerKey` speaks of captures, but what keeps it is the lifecycle
gate: every settlement takes it before it looks at the definitions and keeps it
until it has published. So the invariant says that a settlement that has begun
has the gate (`GateInv`), that between `admit_known` and `publish_started` the
definition it found missing stays missing (`TargetInv`), that what runs is defined
or is the one start that has not been published (`KnownInv`), that at most one
settlement was aborted half-way and that nobody acts after it (`AbortInv`), and
that two definitions of one acquisition were both resumed (`DefsInv`). Of two
captures with one key, then, both are defined and both were resumed. `StoreInv`
says that while stores neither fail nor overlap the one under way is about to
write the session; `AccountInv` that a settlement a shutdown can interrupt is
among the ids it will report. The reservations of starting keys are not in the
invariant: the theorem shows that no capture depends on them, which matters
because `LeaderIsReserved` fails (section 4).

*Saves.* The invariant speaks of one window at a time, because a window's save
bases, channel and events are its own; other windows disturb it through the rows
of the store only, and for those `Around` says that a commit moves no row that a
window has the current version of (`Accepts` refuses it) and takes none away, so
the lemma `StepOfOne` leaves only the acting window to look at. `WindowInv` has six
parts. `Loading`: the load is a window's first command and its answer the first
event, and no save is sent before it is handled. `Basis`: what the window adopted,
or will adopt from an answer still on its way, is what its bases say. `Tokens`: a
view has at most one save under way, in one place: a command, the thread's
answer, or an event. `Outcomes`: every answer is true, and so is what the
controller noted of the last one, unless a success is still on its way to it.
`Flushing`: the flush is behind every save, and it is answered "ok" only when none
of them is failed. `Leaving` is the property itself. A request that timed out may be
carried out later, but its connection is then retired, its view counts as failed
until a save succeeds, and none can on that connection. `SavesNoLostUpdate` is an
action property: a commit, in time or late, is of a base that is the window's, and
`Basis` says that this is the version its state builds on.

*Locks.* `LockBacksWriter` is inductive only with `ClaimProtects`: while a thread
is between the claim and its drop, the claim is there and no other thread of the
process is in that stretch. Then no descriptor that a process closes belongs to
another thread's lock. For the election's lock one thread per process replaces that:
on a host the process stands for its thread, so that `OneThreadEach` holds
(`OneElectorEach`) and a guard has the kernel's lock for as long as it lives.

*Election.* `OwnerAccounted` together with the types is inductive, and the other
safety properties follow from it: two children that believe they were elected
would both be the owner. `ElectionShares` needs nothing of how a window came to be
attached: a worker that may have captures running has the lock, so there is one, and
a connection whose worker is gone watches nothing. `ElectionUnlinks` is an action
property: of the steps that change the socket path of a worker that goes on
listening, clearing it and binding it need the lock that this worker has, so what is
left is the unlink of a worker that has given the lock back (finding 2).

*Viewers.* `AudienceExact` is an equation, and each step changes both its sides
alike: a hello adds a window and an attached connection, a goodbye takes the window
away and adds to `overtaken` whatever else of it is attached. All it needs besides
the types is that only connections that reached the worker's hello are overtaken
(`OvertakenReached`), so that a new connection never is. Nothing is assumed of when
windows dial. The invariant also has the cap of the audience (`MAX_VIEWERS`).

*Reading.* What a window saw of the file is compared with what it sees later, and
the same inode may be another file by then. The invariant therefore dates every
look: as long as the capture was not deleted, a look that is longer than the file is
now was taken before a restart cut the torn tail, so the generation that goes with
it is behind the worker's (`Behind`, `LooksOK`); hence `DistrustEnds`. `FeederOK` says
that who publishes has the mutex and a snapshot that is not stale. `ServedOK` says
that what was served under the handle's own generation is of the file it remembers,
unless it distrusts it, and `ReaderOK` that while the authority a page read sampled
has not moved, what it compared is of that file as well; the fence at its end lets
it deliver only then. `OneJournalPerGeneration` follows step by step.

*Exchange.* `InTurn` says that requests are numbered as they are made and answered in
turn: the ids on the wire increase and are below those in the queue, and what is in
the batch is older than anything outstanding. A reply that carries the current id
is thus the current request's. `StaleInTurn` and `Remembers` say that on a usable
connection whatever is outstanding is the running exchange's, or remembered, or was
forgotten for `MaxStale` newer ids that are all outstanding themselves; so with no
more than `MaxStale` outstanding none was forgotten.

*Unions.* The fences of a candidate are frozen for good once its thread has sent it
(`CandidatesOK`, `RequestsOK`). From there the invariant follows the verdict: a slot
holds the frozen fences of its candidate and says how it was settled, and no
younger one has been (`SlotOK`); while a connection verifies, the slot is its
request's (`VerifyingOK`), and the guards it has taken keep the fences where they
were, but for the sources that a state update overran (`GuardsOK`); who has a
receipt was committed (`ReceiptsOK`), and so was what a window shows (`InstalledOK`). `AttestsPublications` is then a property of the one step
that settles a verification, `NeverGoesBack` of the one that installs.

*Compositions.* `HostIsEachPart`, `SourceIsManager` and `WindowsSave` say that a
behaviour of the composition is, for a part, a behaviour of the part's own
specification with steps in between that leave it alone. What is proved of the part
then holds of the specification that the run checks.

The assumptions on constants (`JournalConstants`, `CaptureConstants`,
`LifecycleConstants`, `ThreadAssumption`, `ProberAssumption`, `ElectionAssumption`,
`ViewerAssumption`, `ReadAssumption`, `CallAssumption`, `LifecycleAssumption`,
`SavesAssumption`, `WindowsAssumption`, `ProcessAssumption`) say that bounds and the
names of requests are numbers, that there is a viewer and at least one stale id is
remembered, that the names of callers and attempts differ, that there are finitely many
views and each window has one it may derive, that a union has one window and a finite
sequence of sources, and that sentinel values are outside the sets they extend: `Nobody`
is no call, feeder or set of ids, `Nothing` is no row, state or message, 0 is no inode.
They say nothing of the code, but for the one of `CaptureConstants` that makes each
line, with its acquisition, a record body. TLC evaluates all of them in the runs. The
hypotheses `ProbersApart`, `LossAlone` and `NoTrouble` are stated with the theorems that
need them, and section 4 says why the code needs them; the behaviours of `host` satisfy
the first, those of `capture_faults` the second, and the capture part of `worker` the
third.

Every invariant and every action property that a passing run checks is stated by a
theorem. Only model-checked, and why:

* the liveness properties (`EndsWhenAbandoned`, `QuietTailCommitted`,
  `CallsAnswered`, `StartsSettle`, `CallsSettle`, `CatchesUp`, `EditsSettle`): the
  prover has neither fairness nor ENABLED;
* `TypeOK` of `SourceLifecycle`, which also bounds the counters and the channel
  that `SelectSeq` filters; the proofs use `Types`, which says what they need.

## 6. Not modelled, and the plan

Most of the repository's lines are its terminal interface, its query and view
engines, and tests that stand in the same files: drawing, input, and pure
transformations, in which nothing interleaves and nothing fails half-way. The
models cover the parts that keep shared or durable state, which is where the
hazards are; by lines that is a small share.

Left out of the modelled components: record framing and checksums (one element
per frame), partial lines and their timer, the gzip reader, boundary events and
the catalog (recovery never reads them), page reads from the writer and the
counters of the published progress in `SourceLifecycle`, the bindings of standard
input in the worker, frame encoding and its size limits, what a page contains and
how it is bounded, what a union contains and its local publication without a
worker, bookmarks, recipes and deferred views of the workspace store, log output,
and the `ViewerSet` shutdown flag that only tests raise.

Next, in this order:

1. Capture storage management with its ledger, against live owners. Two things are
   known to look at: the probe for a writer is not held through the removal, so a
   start after the scan can lose its directory; and a torn append to the ledger
   swallows the next intent when it is read.
2. Command enrichment's attempt ledger; the restart arithmetic of `core/restart.rs`
   as functions against a reference definition (the attempt window keeps at most
   1024 attempts, so a larger maximum never bites); the prefix a live index covers.

Not planned: the query engine and the contents of views (pure transformations over
an external columnar engine), discovery, the terminal interface and the agent
bridge.
