--------------------------- MODULE SourceLifecycle ---------------------------
(***************************************************************************)
(* The life of one source in its manager (crates/lvu-ingest/src/manager.rs)*)
(* from SourceManager::start to the terminal state that lets it be started *)
(* again: the start task, the supervisor, the writer thread's side of the  *)
(* exchange (writer.rs), the acquisition task, callers of stop and abort,  *)
(* and SourceManager::shutdown.                                            *)
(*                                                                         *)
(* An attempt is one call of start and everything that comes of it.  Each  *)
(* has a progress channel, a writer, an acquisition and a supervisor of    *)
(* its own; the attempts share the `starting` set, the `active` map, the   *)
(* lease file and the journal.  What is captured is FileCapture's; here an *)
(* event is counted only.                                                  *)
(***************************************************************************)
EXTENDS Naturals, Sequences, FiniteSets

CONSTANTS
    MaxAttempts,    \* bound: calls of start
    MaxEvents,      \* bound: events of one acquisition
    MaxFaults,      \* bound: I/O errors
    Capacity,       \* CaptureLimits::channel_capacity
    WriterSlots,    \* RuntimeConfig::writer_queue_capacity
    Caller,         \* the callers of stop and abort, one call each
    Quit,           \* the caller inside SourceManager::shutdown
    Nobody

Attempt == 1..MaxAttempts
Who == Caller \cup {Quit} \cup Attempt

ASSUME LifecycleConstants ==
    /\ {MaxAttempts, MaxEvents, Capacity, WriterSlots} \subseteq Nat \ {0}
    /\ MaxFaults \in Nat
    /\ Quit \notin Caller
    /\ (Caller \cup {Quit}) \cap Attempt = {}
    /\ Nobody \notin Who

VARIABLES
    faults,     \* the I/O errors there have been
    \* SourceManager
    stage,      \* where each attempt's start is
    gone,       \* the attempts whose caller has dropped the future
    starting,   \* the attempt that is in the `starting` set, or 0
    active,     \* the attempt whose handle is in the `active` map, or 0
    quitting,   \* where shutdown is; `shutting_down` is quitting # "no"
    \* the source's directory
    lease,      \* the attempt that has runtime.lock, or 0
    \* each attempt's progress channel, supervisor and control channel
    state,      \* SourceProgress::state
    sup,        \* where supervise is
    outcome,    \* its CompletionReply
    serving,    \* whom that replies to
    ctl,        \* its control channel: who asks, and for what
    call,       \* each call of stop or abort: "answered" is by a report,
                \* by NotActive (no supervisor) or by Closed (it has ended)
    \* each attempt's acquisition
    acq,        \* "none", "running", "stopping", "ended"
    left,       \* events it has still to emit
    aq,         \* events it has emitted and nobody has taken
    \* each attempt's writer
    wr,         \* where the writer thread is
    wq,         \* its message channel
    closed,     \* its senders are dropped
    cur,        \* WriterState::current.state
    reply       \* the answer to the Finish that the supervisor waits for

startVars == <<stage, gone, starting, active, quitting>>
supVars == <<sup, outcome, serving, ctl, call>>
acqVars == <<acq, left, aq>>
writerVars == <<wr, wq, closed, cur, reply>>
vars == <<faults, startVars, lease, state, supVars, acqVars, writerVars>>

Terminal(s) ==
    s \in {"Stopped", "Aborted", "Incomplete", "StorageBlocked", "Error"}

Each(x) == [g \in Attempt |-> x]

Init ==
    /\ faults = 0
    /\ stage = Each("none") /\ gone = {} /\ starting = 0 /\ active = 0
    /\ quitting = "no" /\ lease = 0
    /\ state = Each("Starting") /\ sup = Each("none")
    /\ outcome = Each("none") /\ serving = Each(Nobody) /\ ctl = Each(<<>>)
    /\ call = [w \in Who |-> "idle"]
    /\ acq = Each("none") /\ left = Each(0) /\ aq = Each(0)
    /\ wr = Each("none") /\ wq = Each(<<>>) /\ closed = Each(FALSE)
    /\ cur = Each("Running") /\ reply = Each("none")

Set(f, g, x) == [f EXCEPT ![g] = x]
Publish(g, s) == state' = Set(state, g, s)

Fault == faults < MaxFaults /\ faults' = faults + 1
NoFault == UNCHANGED faults

-----------------------------------------------------------------------------
(* SourceManager::start                                                    *)

(* start_impl: not shutting down, and no live handle in the active map.    *)
StartAsk(g) ==
    /\ stage[g] = "none" /\ \A h \in 1..(g - 1) : stage[h] # "none"
    /\ quitting = "no"
    /\ active # 0 => Terminal(state[active])
    /\ stage' = Set(stage, g, "asked")
    /\ UNCHANGED <<faults, gone, starting, active, quitting, lease, state,
                   supVars, acqVars, writerVars>>

(* start_impl: the `starting` set, whose lock is shutdown's barrier.       *)
StartAdmit(g) ==
    /\ stage[g] = "asked"
    /\ IF quitting = "no" /\ starting = 0
         THEN starting' = g /\ stage' = Set(stage, g, "admitted")
         ELSE UNCHANGED starting /\ stage' = Set(stage, g, "refused")
    /\ UNCHANGED <<faults, gone, active, quitting, lease, state, supVars,
                   acqVars, writerVars>>

(* The caller drops the future; nothing looks before the admission         *)
(* barrier.                                                                *)
CallerGone(g) ==
    /\ stage[g] \in {"writing", "launched"}
    /\ gone' = gone \cup {g}
    /\ UNCHANGED <<faults, stage, starting, active, quitting, lease, state,
                   supVars, acqVars, writerVars>>

Fails(g) == stage' = Set(stage, g, "failed")

(* Mutant of StartLease: a held lease is no obstacle.                      *)
StartLeaseIgnored(g) ==
    /\ stage[g] = "admitted"
    /\ lease' = g /\ stage' = Set(stage, g, "leased")
    /\ UNCHANGED <<faults, gone, starting, active, quitting, state, supVars,
                   acqVars, writerVars>>

(* start_inner: runtime.lock is taken; or another has it, or an error.     *)
StartLease(g) ==
    /\ stage[g] = "admitted"
    /\ \/ /\ lease = 0 /\ lease' = g
          /\ stage' = Set(stage, g, "leased") /\ NoFault
       \/ lease # 0 /\ Fails(g) /\ UNCHANGED lease /\ NoFault
       \/ Fault /\ Fails(g) /\ UNCHANGED lease
    /\ UNCHANGED <<gone, starting, active, quitting, state, supVars, acqVars,
                   writerVars>>

(* A writer has its journal until run_writer returns.                      *)
JournalFree == \A h \in Attempt : wr[h] # "running"

(* start_inner, the disk work up to spawn_writer: the writer runs; or the  *)
(* metadata, the journal (AlreadyOpen), the cursor or the catalog fails,   *)
(* and the lease is dropped.                                               *)
StartWriter(g) ==
    /\ stage[g] = "leased"
    /\ \/ /\ JournalFree
          /\ wr' = Set(wr, g, "running") /\ Publish(g, "Running")
          /\ stage' = Set(stage, g, "writing")
          /\ UNCHANGED lease /\ NoFault
       \/ /\ \/ ~JournalFree /\ NoFault
             \/ Fault
          /\ lease' = 0 /\ Fails(g)
          /\ UNCHANGED <<wr, state>>
    /\ UNCHANGED <<gone, starting, active, quitting, supVars, acqVars, wq,
                   closed, cur, reply>>

Launch(g) ==
    /\ acq' = Set(acq, g, "running")
    /\ left' \in {Set(left, g, n) : n \in 0..MaxEvents}
    /\ sup' = Set(sup, g, "loop")
    /\ stage' = Set(stage, g, "launched")
    /\ UNCHANGED <<lease, closed>>

(* Mutant of StartAcquire: a failed launch keeps the writer's sender.      *)
StartAcquireKeepsSender(g) ==
    /\ stage[g] = "writing"
    /\ \/ Launch(g) /\ NoFault
       \/ /\ Fault
          /\ stage' = Set(stage, g, "unlaunched")
          /\ UNCHANGED <<lease, acq, left, sup, closed>>
    /\ UNCHANGED <<gone, starting, active, quitting, state, outcome, serving,
                   ctl, call, aq, wr, wq, cur, reply>>

(* start_inner, the admission barrier: shut down or abandoned, the writer  *)
(* is left to end by itself and the lease is dropped; else the acquisition *)
(* is launched under its supervisor, or cannot be and the writer is joined *)
(* first, unless the catalog cannot be told.                               *)
StartAcquire(g) ==
    /\ stage[g] = "writing"
    /\ IF quitting # "no" \/ g \in gone
         THEN /\ closed' = Set(closed, g, TRUE)
              /\ lease' = 0 /\ Fails(g)
              /\ UNCHANGED <<acq, left, sup>> /\ NoFault
         ELSE \/ Launch(g) /\ NoFault
              \/ /\ Fault
                 /\ closed' = Set(closed, g, TRUE)
                 /\ \/ stage' = Set(stage, g, "unlaunched") /\ UNCHANGED lease
                    \/ lease' = 0 /\ Fails(g)
                 /\ UNCHANGED <<acq, left, sup>>
    /\ UNCHANGED <<gone, starting, active, quitting, state, outcome, serving,
                   ctl, call, aq, wr, wq, cur, reply>>

StartJoinsWriter(g) ==
    /\ stage[g] = "unlaunched" /\ wr[g] \in {"ended", "failed"}
    /\ lease' = 0 /\ Fails(g)
    /\ UNCHANGED <<faults, gone, starting, active, quitting, state, supVars,
                   acqVars, writerVars>>

(* start_impl, after start_inner: the handle is published; or shutdown or  *)
(* the caller's end is noticed and the source is aborted.                  *)
StartSettle(g) ==
    /\ stage[g] = "launched"
    /\ IF quitting # "no" \/ g \in gone
         THEN /\ stage' = Set(stage, g, "cancelling")
              /\ IF sup[g] = "done"
                   THEN call' = Set(call, g, "answered") /\ UNCHANGED ctl
                   ELSE /\ call' = Set(call, g, "waiting")
                        /\ ctl' = [ctl EXCEPT ![g] =
                                     Append(@, [who |-> g, kind |-> "abort"])]
         ELSE stage' = Set(stage, g, "publishing") /\ UNCHANGED <<call, ctl>>
    /\ UNCHANGED <<faults, gone, starting, active, quitting, lease, state, sup,
                   outcome, serving, acqVars, writerVars>>

StartPublish(g) ==
    /\ stage[g] = "publishing"
    /\ active' = g
    /\ stage' = Set(stage, g, "published")
    /\ UNCHANGED <<faults, gone, starting, quitting, lease, state, supVars,
                   acqVars, writerVars>>

(* The end of the start task: the attempt leaves `starting`, a cancelled   *)
(* one after its abort was answered and its state is terminal.             *)
StartEnds(g) ==
    /\ \/ stage[g] \in {"failed", "published"}
       \/ /\ stage[g] = "cancelling" /\ call[g] # "waiting"
          /\ sup[g] # "done" => Terminal(state[g])
    /\ stage' = Set(stage, g, IF stage[g] = "published" THEN "started"
                                                        ELSE "refused")
    /\ starting' = 0 /\ gone' = gone \ {g}
    /\ UNCHANGED <<faults, active, quitting, lease, state, supVars, acqVars,
                   writerVars>>

-----------------------------------------------------------------------------
(* Callers: SourceHandle::stop and abort, SourceManager::shutdown          *)

Ask(w, g, kind) ==
    IF sup[g] = "done"
      THEN call' = Set(call, w, "answered") /\ UNCHANGED ctl
      ELSE /\ call' = Set(call, w, "waiting")
           /\ ctl' = [ctl EXCEPT ![g] = Append(@, [who |-> w, kind |-> kind])]

CallSource(w, g, kind) ==
    /\ call[w] = "idle" /\ stage[g] \in {"published", "started"}
    /\ Ask(w, g, kind)
    /\ UNCHANGED <<faults, startVars, lease, state, sup, outcome, serving,
                   acqVars, writerVars>>

ShutdownBegins ==
    /\ quitting = "no"
    /\ quitting' = "waiting"
    /\ UNCHANGED <<faults, stage, gone, starting, active, lease, state,
                   supVars, acqVars, writerVars>>

(* Mutant of ShutdownStops: starts under way are not waited for.           *)
ShutdownStopsAtOnce ==
    /\ quitting = "waiting"
    /\ quitting' = "stopping"
    /\ IF active # 0 /\ ~Terminal(state[active])
         THEN Ask(Quit, active, "stop")
         ELSE call' = Set(call, Quit, "answered") /\ UNCHANGED ctl
    /\ UNCHANGED <<faults, stage, gone, starting, active, lease, state, sup,
                   outcome, serving, acqVars, writerVars>>

(* shutdown: no start is under way, or the deadline passed ("late"); then  *)
(* the sources that are not terminal are stopped.                          *)
ShutdownStops ==
    /\ quitting = "waiting"
    /\ quitting' = IF starting = 0 THEN "stopping" ELSE "late"
    /\ IF active # 0 /\ ~Terminal(state[active])
         THEN Ask(Quit, active, "stop")
         ELSE call' = Set(call, Quit, "answered") /\ UNCHANGED ctl
    /\ UNCHANGED <<faults, stage, gone, starting, active, lease, state, sup,
                   outcome, serving, acqVars, writerVars>>

(* stop_for_shutdown has its answer, or waits no longer for a terminal     *)
(* state after a refusal.                                                  *)
ShutdownEnds ==
    /\ quitting \in {"stopping", "late"} /\ call[Quit] # "waiting"
    /\ quitting' = IF quitting = "late" THEN "overdue" ELSE "done"
    /\ UNCHANGED <<faults, stage, gone, starting, active, lease, state,
                   supVars, acqVars, writerVars>>

-----------------------------------------------------------------------------
(* The acquisition task                                                    *)

AcqEmits(g) ==
    /\ acq[g] \in {"running", "stopping"} /\ left[g] > 0 /\ aq[g] < Capacity
    /\ left' = [left EXCEPT ![g] = @ - 1]
    /\ aq' = [aq EXCEPT ![g] = @ + 1]
    /\ UNCHANGED <<faults, startVars, lease, state, supVars, acq, writerVars>>

(* It comes to its end, by itself or asked to stop, when what it read is   *)
(* emitted.                                                                *)
AcqEnds(g) ==
    /\ acq[g] \in {"running", "stopping"} /\ left[g] = 0
    /\ acq' = Set(acq, g, "ended")
    /\ UNCHANGED <<faults, startVars, lease, state, supVars, left, aq,
                   writerVars>>

(* abort() ends it where it is, a full channel included.                   *)
AbortAcq(g) == acq' = Set(acq, g, "ended") /\ left' = Set(left, g, 0)

-----------------------------------------------------------------------------
(* The writer thread, as far as it meets the supervisor                    *)

Alive(g) == wr[g] = "running"
Drop(r) == IF r = "pending" THEN "dropped" ELSE r

(* append_batch takes over a Stopping or Aborting it sees; the other       *)
(* events, and a commit, publish the writer's own idea of the state.       *)
(* Whether there is anything to commit is not kept.                        *)
WriterTakesEvent(g) ==
    /\ Alive(g) /\ wq[g] # <<>> /\ Head(wq[g]) = "event"
    /\ wq' = [wq EXCEPT ![g] = Tail(@)]
    /\ \/ UNCHANGED cur
       \/ state[g] \in {"Stopping", "Aborting"} /\ cur' = Set(cur, g, state[g])
    /\ Publish(g, cur'[g])
    /\ UNCHANGED <<faults, startVars, lease, supVars, acqVars, wr, closed,
                   reply>>

WriterCommits(g) ==
    /\ Alive(g) /\ Publish(g, cur[g])
    /\ UNCHANGED <<faults, startVars, lease, supVars, acqVars, writerVars>>

(* run_writer returns: its receivers and its state are dropped.            *)
Returns(g, as) ==
    /\ wr' = Set(wr, g, as)
    /\ wq' = Set(wq, g, <<>>) /\ cur' = Set(cur, g, "Running")

(* It returns an error, and a Finish it held is dropped; at the storage    *)
(* limit it has published that first.                                      *)
WriterFails(g) ==
    /\ Alive(g) /\ Fault
    /\ \/ UNCHANGED state
       \/ wq[g] # <<>> /\ Head(wq[g]) = "event" /\ Publish(g, "StorageBlocked")
    /\ Returns(g, "failing")
    /\ reply' = [reply EXCEPT ![g] = Drop(@)]
    /\ UNCHANGED <<startVars, lease, supVars, acqVars, closed>>

(* spawn_writer's task publishes the error and ends.                       *)
WriterReports(g) ==
    /\ wr[g] = "failing"
    /\ Publish(g, IF state[g] = "StorageBlocked" THEN state[g] ELSE "Error")
    /\ wr' = Set(wr, g, "failed")
    /\ UNCHANGED <<faults, startVars, lease, supVars, acqVars, wq, closed, cur,
                   reply>>

(* Mutant of WriterFinishes: the terminal state is published with the last *)
(* counters.                                                               *)
WriterFinishesTerminal(g) ==
    /\ Alive(g) /\ wq[g] # <<>> /\ Head(wq[g]) = "finish"
    /\ Publish(g, "Stopped")
    /\ Returns(g, "ended")
    /\ reply' = [reply EXCEPT ![g] = IF @ = "pending" THEN "ok" ELSE @]
    /\ UNCHANGED <<faults, startVars, lease, supVars, acqVars, closed>>

(* handle_non_record, Finish: committed, answered, and the writer returns  *)
(* with the state as it was; or not committed, and the loop goes on.       *)
WriterFinishes(g) ==
    /\ Alive(g) /\ wq[g] # <<>> /\ Head(wq[g]) = "finish"
    /\ LET answer(a) == reply' = [reply EXCEPT ![g] =
                                     IF @ = "pending" THEN a ELSE @]
       IN  \/ Returns(g, "ended") /\ answer("ok") /\ NoFault
           \/ /\ Fault /\ answer("err")
              /\ wq' = [wq EXCEPT ![g] = Tail(@)]
              /\ UNCHANGED <<wr, cur>>
    /\ UNCHANGED <<startVars, lease, state, supVars, acqVars, closed>>

(* Mutant of WriterCloses: a handle's page sender keeps the writer up.     *)
WriterClosesUnread(g) ==
    /\ Alive(g) /\ closed[g] /\ wq[g] = <<>> /\ active # g
    /\ Publish(g, "Incomplete")
    /\ Returns(g, "ended")
    /\ UNCHANGED <<faults, startVars, lease, supVars, acqVars, closed, reply>>

(* run_writer: the event channel is closed and drained without a Finish.   *)
WriterCloses(g) ==
    /\ Alive(g) /\ closed[g] /\ wq[g] = <<>>
    /\ Publish(g, "Incomplete")
    /\ Returns(g, "ended")
    /\ UNCHANGED <<faults, startVars, lease, supVars, acqVars, closed, reply>>

-----------------------------------------------------------------------------
(* The supervisor                                                          *)

Goes(g, place) == sup' = Set(sup, g, place)

(* Out of supervise's loop: the writer's sender is dropped.                *)
Break(g, o) ==
    /\ Goes(g, "joining")
    /\ outcome' = Set(outcome, g, o)
    /\ closed' = Set(closed, g, TRUE)

HandOver(g) ==
    /\ wq' = [wq EXCEPT ![g] = Append(@, "event")]
    /\ aq' = [aq EXCEPT ![g] = @ - 1]

(* next_acquired waits for a writer slot, then an event is handed over.    *)
SupHandsOver(g) ==
    /\ sup[g] = "loop" /\ aq[g] > 0 /\ Alive(g) /\ Len(wq[g]) < WriterSlots
    /\ HandOver(g)
    /\ UNCHANGED <<faults, startVars, lease, state, supVars, acq, left, wr,
                   closed, cur, reply>>

(* The writer is gone when an event is sent, or it has published a failure *)
(* (writer_status).                                                        *)
SupLosesWriter(g) ==
    /\ sup[g] = "loop"
    /\ \/ aq[g] > 0 /\ ~Alive(g)
       \/ state[g] \in {"StorageBlocked", "Error"}
    /\ AbortAcq(g) /\ Break(g, "lost")
    /\ UNCHANGED <<faults, startVars, lease, state, serving, ctl, call, aq, wr,
                   wq, cur, reply>>

(* finish: the message, with the answer it waits for.                      *)
Finish(g, place) ==
    /\ wq' = [wq EXCEPT ![g] = Append(@, "finish")]
    /\ reply' = Set(reply, g, "pending")
    /\ Goes(g, place)
    /\ UNCHANGED <<faults, outcome, closed>>

(* The acquisition came to its own end.                                    *)
SupNatural(g) ==
    /\ sup[g] = "loop" /\ acq[g] = "ended" /\ aq[g] = 0
    /\ \/ Alive(g) /\ Len(wq[g]) < WriterSlots /\ Finish(g, "natural")
       \/ ~Alive(g) /\ Break(g, "lost") /\ UNCHANGED <<wq, reply>>
    /\ UNCHANGED <<faults, startVars, lease, state, serving, ctl, call,
                   acqVars, wr, cur>>

Takes(g, kind) ==
    /\ sup[g] = "loop" /\ ctl[g] # <<>> /\ Head(ctl[g]).kind = kind
    /\ serving' = Set(serving, g, Head(ctl[g]).who)
    /\ ctl' = [ctl EXCEPT ![g] = Tail(@)]

(* graceful_stop begins: Stopping is written over whatever is there.       *)
SupTakesStop(g) ==
    /\ Takes(g, "stop")
    /\ Publish(g, "Stopping")
    /\ acq' = [acq EXCEPT ![g] = IF @ = "running" THEN "stopping" ELSE @]
    /\ Goes(g, "draining")
    /\ UNCHANGED <<faults, startVars, lease, outcome, call, left, aq,
                   writerVars>>

(* graceful_stop's drain, one event.                                       *)
SupDrains(g) ==
    /\ sup[g] = "draining" /\ aq[g] > 0
    /\ \/ /\ Alive(g) /\ Len(wq[g]) < WriterSlots
          /\ HandOver(g) /\ UNCHANGED <<sup, outcome, closed>>
       \/ /\ ~Alive(g) /\ Break(g, "stoperror")
          /\ UNCHANGED <<wq, aq>>
    /\ UNCHANGED <<faults, startVars, lease, state, serving, ctl, call, acq,
                   left, wr, cur, reply>>

(* Mutant of SupDrained: what the acquisition has emitted is not drained.  *)
SupDrainedEarly(g) ==
    /\ sup[g] = "draining" /\ acq[g] = "ended"
    /\ Alive(g) /\ Len(wq[g]) < WriterSlots /\ Finish(g, "finishing")
    /\ UNCHANGED <<faults, startVars, lease, state, serving, ctl, call,
                   acqVars, wr, cur>>

(* graceful_stop, drained: the Finish behind everything.                   *)
SupDrained(g) ==
    /\ sup[g] = "draining" /\ acq[g] = "ended" /\ aq[g] = 0
    /\ \/ Alive(g) /\ Len(wq[g]) < WriterSlots /\ Finish(g, "finishing")
       \/ ~Alive(g) /\ Break(g, "stoperror") /\ UNCHANGED <<wq, reply>>
    /\ UNCHANGED <<faults, startVars, lease, state, serving, ctl, call,
                   acqVars, wr, cur>>

Answer(w) == call' = Set(call, w, "answered")

(* graceful_stop's deadline: the rest is discarded, Stopping is written    *)
(* again, a last Finish is sent if it can be, and the caller is answered.  *)
SupStopDeadline(g) ==
    /\ sup[g] \in {"draining", "finishing"}
    /\ AbortAcq(g) /\ aq' = Set(aq, g, 0)
    /\ Publish(g, "Stopping")
    /\ \/ Alive(g) /\ Len(wq[g]) <= WriterSlots
            /\ wq' = [wq EXCEPT ![g] = Append(@, "finish")]
       \/ UNCHANGED wq
    /\ Break(g, "incomplete") /\ Answer(serving[g])
    /\ reply' = Set(reply, g, "none")
    /\ UNCHANGED <<faults, startVars, lease, serving, ctl, wr, cur>>

(* abort_source begins.                                                    *)
SupTakesAbort(g) ==
    /\ Takes(g, "abort")
    /\ Publish(g, "Aborting")
    /\ AbortAcq(g) /\ aq' = Set(aq, g, 0)
    /\ Goes(g, "discarding")
    /\ UNCHANGED <<faults, startVars, lease, outcome, call, writerVars>>

SupAbortFinish(g) ==
    /\ sup[g] = "discarding" /\ Alive(g) /\ Len(wq[g]) <= WriterSlots
    /\ Finish(g, "aborting")
    /\ UNCHANGED <<faults, startVars, lease, state, serving, ctl, call,
                   acqVars, wr, cur>>

(* abort_source is not complete: too late, or the writer failed.           *)
AbortIncomplete(g) ==
    /\ Publish(g, "Aborting")
    /\ Break(g, "incomplete") /\ Answer(serving[g])

SupAbortLate(g) ==
    /\ sup[g] \in {"discarding", "aborting"}
    /\ AbortIncomplete(g) /\ reply' = Set(reply, g, "none")
    /\ UNCHANGED <<faults, startVars, lease, serving, ctl, acqVars, wr, wq,
                   cur>>

(* The answer to the Finish.                                               *)
SupFinished(g) ==
    /\ reply[g] \in {"ok", "err", "dropped"}
    /\ LET ok == reply[g] = "ok"
       IN  \/ /\ sup[g] = "finishing"
              /\ Break(g, IF ok THEN "stopped" ELSE "stoperror")
              /\ UNCHANGED <<state, call>>
           \/ /\ sup[g] = "natural"
              /\ \E o \in {"natural", "acqerror"} :
                     Break(g, IF ok THEN o ELSE "lost")
              /\ UNCHANGED <<state, call>>
           \/ /\ sup[g] = "aborting"
              /\ IF ok THEN Break(g, "aborted") /\ UNCHANGED <<state, call>>
                       ELSE AbortIncomplete(g)
    /\ reply' = Set(reply, g, "none")
    /\ UNCHANGED <<faults, startVars, lease, serving, ctl, acqVars, wr, wq,
                   cur>>

(* writer_task and history_task are awaited.  The history of a command or  *)
(* HTTP source ends with its acquisition; other sources have none, so that *)
(* only the end of the writer is waited for here: see FairSpec.            *)
SupJoins(g) ==
    /\ sup[g] = "joining" /\ wr[g] \in {"ended", "failed"}
    /\ Goes(g, "releasing")
    /\ UNCHANGED <<faults, startVars, lease, state, outcome, serving, ctl,
                   call, acqVars, writerVars>>

(* supervise returns: its caller has the result, those still queued for it *)
(* are refused, and its CaptureHandle is dropped.                          *)
SupEnds(g) ==
    /\ call' = [w \in Who |->
          IF w = serving[g] \/ \E i \in DOMAIN ctl[g] : ctl[g][i].who = w
            THEN "answered" ELSE call[w]]
    /\ ctl' = Set(ctl, g, <<>>) /\ serving' = Set(serving, g, Nobody)
    /\ Goes(g, "done")
    /\ AbortAcq(g) /\ aq' = Set(aq, g, 0)

(* release_runtime_lease; when the unlock fails the descriptor still       *)
(* closes, and the source ends as an error.                                *)
SupReleases(g) ==
    /\ sup[g] = "releasing"
    /\ lease' = 0
    /\ \/ /\ Goes(g, "publishing") /\ NoFault
          /\ UNCHANGED <<state, ctl, call, serving, acqVars>>
       \/ Fault /\ Publish(g, "Error") /\ SupEnds(g)
    /\ UNCHANGED <<startVars, outcome, writerVars>>

FinalState(g) ==
    CASE outcome[g] \in {"stopped", "natural"} -> "Stopped"
      [] outcome[g] = "aborted" -> "Aborted"
      [] outcome[g] = "incomplete" -> "Incomplete"
      [] outcome[g] = "acqerror" -> "Error"
      [] outcome[g] \in {"lost", "stoperror"} -> state[g]

(* Mutant of SupPublishes: a natural end publishes nothing.                *)
SupPublishesAnswersOnly(g) ==
    /\ sup[g] = "publishing"
    /\ Publish(g, IF outcome[g] = "natural" THEN state[g] ELSE FinalState(g))
    /\ SupEnds(g)
    /\ UNCHANGED <<faults, startVars, lease, outcome, writerVars>>

(* The terminal state and the answer.                                      *)
SupPublishes(g) ==
    /\ sup[g] = "publishing"
    /\ Publish(g, FinalState(g))
    /\ SupEnds(g)
    /\ UNCHANGED <<faults, startVars, lease, outcome, writerVars>>

-----------------------------------------------------------------------------
StartStep(g) ==
    \/ StartAdmit(g) \/ StartLease(g) \/ StartWriter(g) \/ StartAcquire(g)
    \/ StartJoinsWriter(g) \/ StartSettle(g) \/ StartPublish(g)
    \/ StartEnds(g)

WriterStep(g) ==
    \/ WriterTakesEvent(g) \/ WriterReports(g) \/ WriterFinishes(g)
    \/ WriterCloses(g)

SupStep(g) ==
    \/ SupHandsOver(g) \/ SupLosesWriter(g) \/ SupNatural(g)
    \/ SupTakesStop(g) \/ SupDrains(g) \/ SupDrained(g) \/ SupTakesAbort(g)
    \/ SupAbortFinish(g) \/ SupFinished(g) \/ SupReleases(g)
    \/ SupPublishes(g)

Deadlines(g) == SupStopDeadline(g) \/ SupAbortLate(g)

AcqStep(g) == AcqEmits(g) \/ AcqEnds(g)

Next ==
    \/ \E g \in Attempt :
          \/ StartAsk(g) \/ StartStep(g) \/ CallerGone(g)
          \/ AcqStep(g) \/ WriterStep(g) \/ SupStep(g) \/ SupJoins(g)
          \/ Deadlines(g) \/ WriterCommits(g) \/ WriterFails(g)
    \/ \E w \in Caller, g \in Attempt, kind \in {"stop", "abort"} :
          CallSource(w, g, kind)
    \/ ShutdownBegins \/ ShutdownStops \/ ShutdownEnds

Spec == Init /\ [][Next]_vars

(* The start task, the supervisor and the acquisition are tokio tasks and  *)
(* the writer is a thread: each goes on when it can, and the deadlines of  *)
(* stop and abort come.  An acquisition need never end by itself, and      *)
(* history_task may then wait for it.                                      *)
FairSpec ==
    /\ Spec
    /\ \A g \in Attempt :
          /\ WF_vars(StartStep(g)) /\ WF_vars(WriterStep(g))
          /\ WF_vars(SupStep(g)) /\ WF_vars(Deadlines(g))
          /\ WF_vars(acq[g] = "ended" /\ SupJoins(g))

-----------------------------------------------------------------------------
StartStages == {"none", "asked", "admitted", "leased", "writing", "unlaunched",
                "launched", "cancelling", "publishing", "published", "failed",
                "started", "refused"}
States == {"Starting", "Running", "Stopping", "Stopped", "Aborting", "Aborted",
           "Incomplete", "StorageBlocked", "Error"}
Places == {"none", "loop", "natural", "draining", "finishing", "discarding",
           "aborting", "joining", "releasing", "publishing", "done"}

(* Types.  The writer's channel has WriterSlots + 1 places and events take *)
(* at most WriterSlots of them, so that a Finish finds room at once        *)
(* (spawn_writer, next_acquired).                                          *)
TypeOK ==
    /\ faults \in 0..MaxFaults
    /\ stage \in [Attempt -> StartStages] /\ gone \subseteq Attempt
    /\ {starting, active, lease} \subseteq Attempt \cup {0}
    /\ quitting \in {"no", "waiting", "stopping", "late", "done", "overdue"}
    /\ state \in [Attempt -> States] /\ sup \in [Attempt -> Places]
    /\ outcome \in [Attempt -> {"none", "lost", "natural", "acqerror",
                       "stopped", "stoperror", "incomplete", "aborted"}]
    /\ serving \in [Attempt -> Who \cup {Nobody}]
    /\ ctl \in [Attempt -> Seq([who : Who, kind : {"stop", "abort"}])]
    /\ call \in [Who -> {"idle", "waiting", "answered"}]
    /\ acq \in [Attempt -> {"none", "running", "stopping", "ended"}]
    /\ left \in [Attempt -> 0..MaxEvents] /\ aq \in [Attempt -> 0..Capacity]
    /\ wr \in [Attempt -> {"none", "running", "failing", "failed", "ended"}]
    /\ wq \in [Attempt -> Seq({"event", "finish"})]
    /\ \A g \in Attempt :
          /\ Len(wq[g]) <= WriterSlots + 1
          /\ Len(SelectSeq(wq[g], LAMBDA m : m = "event")) <= WriterSlots
    /\ closed \in [Attempt -> BOOLEAN]
    /\ cur \in [Attempt -> {"Running", "Stopping", "Aborting"}]
    /\ reply \in [Attempt -> {"none", "pending", "ok", "err", "dropped"}]

Supervised(g) == sup[g] \notin {"none", "publishing", "done"}

(* One capture of a source at a time: from its launch until its writer has *)
(* been joined an attempt has the lease, whatever starts, stops, failures  *)
(* and shutdowns overlap (supervise, start_inner).                         *)
OneCapture == \A g \in Attempt : Supervised(g) => lease = g

(* A stop that is answered as complete lost nothing: everything that the   *)
(* acquisition had read is behind a Finish that the writer committed       *)
(* (graceful_stop, StopReport::complete).                                  *)
CompleteStopIsWhole ==
    \A g \in Attempt : outcome[g] = "stopped" =>
        wr[g] = "ended" /\ left[g] = 0 /\ aq[g] = 0

(* "Release the cross-manager lease first so observing Stopped/Aborted ... *)
(* cannot race a subsequent start into a transient AlreadyRunning"         *)
(* (supervise): a stopped or aborted source is free to be started.         *)
StoppedIsReleased ==
    \A g \in Attempt : state[g] \in {"Stopped", "Aborted"} =>
        lease # g /\ wr[g] # "running"

(* "The terminal state is published as the supervisor ends"                *)
(* (stop_for_shutdown).  Until it is, start answers AlreadyRunning.        *)
EndedIsTerminal ==
    \A g \in Attempt : sup[g] = "done" => Terminal(state[g])

(* What does hold of it: a source that ended has a terminal state unless a *)
(* stop met a writer that had failed.                                      *)
EndedIsTerminalOrFailed ==
    \A g \in Attempt : sup[g] = "done" =>
        \/ Terminal(state[g])
        \/ outcome[g] = "stoperror" /\ wr[g] = "failed"

(* When shutdown has returned in time every acquisition was ended and no   *)
(* start that was under way will launch another, except that one whose     *)
(* writer has failed, and whose state is therefore terminal, is left to    *)
(* its supervisor (SourceManager::shutdown).                               *)
NothingAfterShutdown ==
    quitting = "done" =>
        \A g \in Attempt :
            /\ acq[g] \in {"running", "stopping"} =>
                  wr[g] \in {"failing", "failed"}
            /\ stage[g] \notin {"admitted", "leased", "writing", "launched"}

StopMetFailure == \E g \in Attempt : outcome[g] = "stoperror"

(* Every stop and abort is answered or refused, the one of a shutdown too, *)
(* unless a stop met a writer that had failed: graceful_stop then leaves   *)
(* an acquisition unaborted that history_task is waited for.  Each caller  *)
(* calls once: in the end none is waiting.                                 *)
CallsAnswered ==
    []<>(StopMetFailure \/ \A w \in Who : call[w] # "waiting")

(* Every start comes to an answer, whatever is cancelled or shut down.     *)
StartsSettle ==
    []<>(StopMetFailure
            \/ \A g \in Attempt : stage[g] \in {"none", "started", "refused"})
=============================================================================
