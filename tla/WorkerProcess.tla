---------------------------- MODULE WorkerProcess ----------------------------
(***************************************************************************)
(* What goes on inside a worker process, one part of it in each behaviour: *)
(* the requests of its windows to start and stop sources, one source under *)
(* its manager, and the capture of one file over several acquisitions.     *)
(* The parts that are not under way rest in their initial states.          *)
(***************************************************************************)
EXTENDS WorkerLifecycle, Integers, Sequences

CONSTANTS           \* of SourceLifecycle
    Caller, Quit, MaxAttempts, MaxEvents, MaxFaults, Capacity, WriterSlots

CONSTANTS           \* of FileCapture and its Journal
    Body, Block, MaxSequence, WriteBuffer, Failures, MaxLines, MaxChanges,
    MaxOpens, ChannelCapacity, BatchRecords, SyncEvery, StorageLimit,
    MaxRecovery, FaultPlans

\* Channels and batches hold something, and the bounds allow a first start.
ASSUME ProcessAssumption ==
    /\ {MaxAttempts, MaxEvents, Capacity, WriterSlots, Block, WriteBuffer,
        MaxLines, MaxOpens, ChannelCapacity, BatchRecords, SyncEvery}
          \subseteq Nat \ {0}
    /\ {MaxFaults, MaxSequence, MaxChanges, StorageLimit, MaxRecovery}
          \subseteq Nat
    /\ Quit \notin Caller /\ Nobody \notin Caller \cup {Quit}
    /\ FaultPlans \subseteq SUBSET (Failures \cup {"limit"})

VARIABLES
    part,       \* the part that is under way
    errors, stage, gone, starting, active, quitting, lease, state, sup,
    completion, serving, ctl, call, stream, left, aq, wr, wq, shut, cur,
    reply,                                              \* of SourceLifecycle
    file, tail, durable, watermark, status, buffer, nextSeq, reserved_until,
    issued, files, acq, opens, queue, wpc, batch, sinceSync, pending, cursor,
    published, refusal, faults                          \* of FileCapture

Manager == INSTANCE SourceLifecycle WITH
    faults <- errors, outcome <- completion, acq <- stream,
    closed <- shut

Capture == INSTANCE FileCapture WITH reserved <- reserved_until

managerVars == <<errors, stage, gone, starting, active, quitting, lease, state,
    sup, completion, serving, ctl, call, stream, left, aq, wr, wq, shut, cur,
    reply>>
captureVars == <<file, tail, durable, watermark, status, buffer, nextSeq,
    reserved_until, issued, files, acq, opens, queue, wpc, batch, sinceSync,
    pending, cursor, published, refusal, faults>>
processVars == <<part, vars, managerVars, captureVars>>

ProcessInit ==
    /\ part \in {"requests", "source", "capture"}
    /\ Init /\ Manager!Init /\ Capture!Init
    /\ part # "requests" => /\ manifest = CHOOSE m \in Manifests : TRUE
                            /\ resumed = {} /\ ~degraded
    /\ part # "capture" => faults = CHOOSE f \in FaultPlans : TRUE

ProcessNext ==
    \/ /\ part = "requests" /\ Next
       /\ UNCHANGED <<part, managerVars, captureVars>>
    \/ part = "source" /\ Manager!Next /\ UNCHANGED <<part, vars, captureVars>>
    \/ part = "capture" /\ Capture!Next /\ UNCHANGED <<part, vars, managerVars>>

\* The fairness of the parts, each of its own part.
ProcessFairness ==
    /\ WF_vars(part = "requests" /\ ServiceStep)
    /\ \A g \in 1..MaxAttempts :
          /\ WF_managerVars(part = "source" /\ Manager!StartStep(g))
          /\ WF_managerVars(part = "source" /\ Manager!WriterStep(g))
          /\ WF_managerVars(part = "source" /\ Manager!SupStep(g))
          /\ WF_managerVars(part = "source" /\ Manager!Deadlines(g))
          /\ WF_managerVars(part = "source" /\ stream[g] = "ended" /\ Manager!SupJoins(g))
    /\ WF_captureVars(part = "capture" /\ Capture!WriterStep)
    /\ WF_captureVars(part = "capture" /\ Capture!CommitDeadline)

ProcessSpec == ProcessInit /\ [][ProcessNext]_processVars /\ ProcessFairness

\* Every stop and abort of the source is answered or refused, unless a stop met
\* a writer that had failed (supervise, graceful_stop).
CallsAnswered == Manager!CallsAnswered

\* Every start of the source comes to an answer (SourceManager::start).
StartsSettle == Manager!StartsSettle

\* No line is in the journal twice, whatever restarts there were, unless the
\* file was truncated (recover_file_cursor, acquire_file).
NothingRepeated == Capture!NothingRepeated

\* A start is refused only for lines of its own acquisition's tail that were
\* truncated away, or that are too many (recover_file_cursor).
NeverRefused == Capture!NeverRefused

\* What a source that fell silent had written is committed (commit_delay).
QuietTailCommitted == Capture!QuietTailCommitted
=============================================================================
