-------------------------- MODULE WorkerLifecycle --------------------------
(***************************************************************************)
(* How the shared worker starts, stops and restarts sources for its        *)
(* windows (crates/lvu-shared/src/worker.rs).  Every request runs as a     *)
(* waiter, which its dispatch deadline may drop, and as a detached         *)
(* settlement, which carries the request out under the lifecycle gate.     *)
(* Starts of one acquisition share one settlement: the first caller leads, *)
(* the others join it.  A settlement counts against the admission that     *)
(* shutdown closes and drains.  The set of sources to resume is kept in    *)
(* memory (session) and, through a temporary file, on disk (manifest).     *)
(*                                                                         *)
(* The source manager is the subject of SourceLifecycle: here it answers   *)
(* every start and stop, a complete stop leaves nothing running, and a     *)
(* stop that fails may leave the source in a state that is not terminal.   *)
(***************************************************************************)
EXTENDS FiniteSets, Naturals

CONSTANTS
    Call,           \* the requests windows make, numbered as they come in
    Id,             \* source ids
    KeyOf,          \* admission_key of each id's definition
    NoKey,          \* stdin has no key
    Files,          \* the ids that resume_session may acquire
    Operations,     \* the requests there are: records [op, id]
    Manifests,      \* what the worker may find in session.json
    Nobody,
    MaxSettlements  \* MAX_LIFECYCLE_SETTLEMENTS

Key == {KeyOf[i] : i \in Id} \ {NoKey}
Keyed(i) == KeyOf[i] # NoKey

ASSUME CallAssumption == Call \subseteq Nat

ASSUME LifecycleAssumption ==
    /\ Operations \subseteq [op : {"start", "stop", "restart", "note"}, id : Id]
    /\ Files \subseteq {i \in Id : Keyed(i)}
    /\ Manifests \subseteq SUBSET Id
    /\ Nobody \notin Call
    /\ \A ids \in SUBSET Id : ids # Nobody
    /\ MaxSettlements \in Nat

VARIABLES
    captures,   \* what the manager has of each id: "none", "live" or "over"
    defs,       \* the ids in WorkerService::definitions
    session,    \* the ids in WorkerService::session
    manifest,   \* the ids in session.json
    temporary,  \* the ids in session.json.tmp, or Nobody: there is no such file
    degraded,   \* store_unavailable is set
    reserved,   \* starting: the call that leads each key, or Nobody
    outcome,    \* SharedStart::outcome of the start that each call leads
    joined,     \* the leader each joiner waits for
    gate,       \* the call whose settlement holds the lifecycle mutex
    waiter,     \* where each request is
    task,       \* where each settlement is
    request,    \* what each call asked for
    target,     \* the id its settlement acts on
    snapshot,   \* the session it is about to store
    phase,      \* the worker: "up", "draining", "aborting", "down"
    unsettled,  \* the ids shutdown reports as not settled cleanly
    resumed,    \* history: the ids this worker acquired on resume
    lapses      \* history: whether a store "failed", or two of them "overlapped"

filesystem == <<manifest, temporary, lapses>>
worker == <<phase, unsettled, resumed, degraded>>
vars == <<captures, defs, session, reserved, outcome, joined, gate, waiter,
          task, request, target, snapshot, filesystem, worker>>

NoRequest == [op |-> "none", id |-> Nobody]

\* open and resume_session on a root whose manifest lists some sources: files
\* are restored as far as the manager can, everything else is left stopped.
Init ==
    /\ manifest \in Manifests
    /\ session = manifest
    /\ resumed \in SUBSET (manifest \cap Files)
    /\ defs = resumed
    /\ captures = [i \in Id |-> IF i \in resumed THEN "live" ELSE "none"]
    /\ temporary = Nobody
    /\ degraded \in BOOLEAN
    /\ reserved = [k \in Key |-> Nobody]
    /\ outcome = [c \in Call |-> "unset"]
    /\ joined = [c \in Call |-> Nobody]
    /\ gate = Nobody
    /\ waiter = [c \in Call |-> "idle"]
    /\ task = [c \in Call |-> "none"]
    /\ request = [c \in Call |-> NoRequest]
    /\ target = [c \in Call |-> Nobody]
    /\ snapshot = [c \in Call |-> {}]
    /\ phase = "up" /\ unsettled = {} /\ lapses = {}

-----------------------------------------------------------------------------
(* Admission *)

closed == phase # "up"

\* A settlement that took its permit's begin, and one that did not yet.
Begun == {"starting", "started", "stopping", "publishing", "published",
          "noting", "noted", "settled"}
Settling(c) == task[c] \in Begun \cup {"queued"}

\* LifecyclePermit: a leader's goes to its settlement, a joiner keeps its own.
InFlight == {c \in Call : waiter[c] = "joined" \/ Settling(c)}

TryEnter == ~closed /\ Cardinality(InFlight) < MaxSettlements

KeyOfCall(c) == KeyOf[request[c].id]

\* is_live, and the settlements that hold the session lock over a store.
IsLive(i) == captures[i] = "live"
SessionLocked == \E c \in Call : task[c] \in {"publishing", "published"}

\* A request comes in on a connection, or a start goes another round.
Asks(c, r) ==
    /\ \/ waiter[c] = "idle" /\ phase # "down"
       \/ waiter[c] = "entering" /\ r = request[c]
    /\ request' = [request EXCEPT ![c] = r]
    /\ target' = [target EXCEPT ![c] = r.id]

Refuse(c, r) ==
    /\ Asks(c, r)
    /\ r.op # "note"
    /\ ~TryEnter
    /\ waiter' = [waiter EXCEPT ![c] = "refused"]
    /\ UNCHANGED <<captures, defs, session, reserved, outcome, joined, gate,
                   task, snapshot, filesystem, worker>>

\* enter_start_key, and the settlement a leader spawns.
Lead(c, r) ==
    /\ Asks(c, r)
    /\ r.op = "start" /\ Keyed(r.id)
    /\ TryEnter
    /\ reserved[KeyOf[r.id]] = Nobody
    /\ reserved' = [reserved EXCEPT ![KeyOf[r.id]] = c]
    /\ outcome' = [outcome EXCEPT ![c] = "unset"]
    /\ waiter' = [waiter EXCEPT ![c] = "leading"]
    /\ task' = [task EXCEPT ![c] = "queued"]
    /\ UNCHANGED <<captures, defs, session, joined, gate, snapshot, filesystem, worker>>

Join(c, r) ==
    /\ Asks(c, r)
    /\ r.op = "start" /\ Keyed(r.id)
    /\ TryEnter
    /\ reserved[KeyOf[r.id]] # Nobody
    /\ joined' = [joined EXCEPT ![c] = reserved[KeyOf[r.id]]]
    /\ waiter' = [waiter EXCEPT ![c] = "joined"]
    /\ UNCHANGED <<captures, defs, session, reserved, outcome, gate, task,
                   snapshot, filesystem, worker>>

\* request_stop, request_restart and spawn_keyless_start wait for a reply.
Spawn(c, r) ==
    /\ Asks(c, r)
    /\ r.op \in {"stop", "restart"} \/ (r.op = "start" /\ ~Keyed(r.id))
    /\ TryEnter
    /\ waiter' = [waiter EXCEPT ![c] = "waiting"]
    /\ task' = [task EXCEPT ![c] = "queued"]
    /\ UNCHANGED <<captures, defs, session, reserved, outcome, joined, gate,
                   snapshot, filesystem, worker>>

Timeout(c) ==
    /\ waiter[c] \in {"leading", "joined", "waiting"}
    /\ waiter' = [waiter EXCEPT ![c] = "gone"]
    /\ UNCHANGED <<captures, defs, session, reserved, outcome, joined, gate,
                   task, request, target, snapshot, filesystem, worker>>

\* What a waiter does with the outcome of the start it leads or joined: an
\* answer, an error, or another round, having removed the spent reservation.
Again(c, leader) ==
    /\ waiter' = [waiter EXCEPT ![c] = "entering"]
    /\ reserved' = [reserved EXCEPT
         ![KeyOfCall(c)] = IF @ = leader THEN Nobody ELSE @]

Wake(c) ==
    LET leader == IF waiter[c] = "leading" THEN c ELSE joined[c] IN
    /\ waiter[c] \in {"leading", "joined"}
    /\ outcome[leader] # "unset"
    /\ \/ /\ outcome[leader] = "settled"
          /\ waiter[c] = "leading" \/ IsLive(target[leader])
          /\ waiter' = [waiter EXCEPT ![c] = "answered"]
          /\ UNCHANGED reserved
       \/ /\ outcome[leader] = "failed"
          /\ waiter' = [waiter EXCEPT ![c] = "refused"]
          /\ UNCHANGED reserved
       \/ /\ \/ outcome[leader] = "abandoned"
             \/ /\ outcome[leader] = "settled"
                /\ waiter[c] = "joined" /\ ~IsLive(target[leader])
          /\ Again(c, leader)
    /\ joined' = [joined EXCEPT ![c] = Nobody]
    /\ UNCHANGED <<captures, defs, session, outcome, gate, task, request,
                   target, snapshot, filesystem, worker>>

-----------------------------------------------------------------------------
(* Settlements, one at a time under the gate *)

\* The end of a settlement: a keyed start publishes its outcome and goes on to
\* release its reservation, any other one answers its waiter and is done.
Settle(c, result) ==
    IF request[c].op = "start" /\ Keyed(request[c].id)
    THEN /\ outcome' = [outcome EXCEPT
              ![c] = IF result = "answered" THEN "settled" ELSE "failed"]
         /\ task' = [task EXCEPT ![c] = "settled"]
         /\ gate' = c
         /\ UNCHANGED waiter
    ELSE /\ waiter' = [waiter EXCEPT ![c] = IF @ = "waiting" THEN result ELSE @]
         /\ task' = [task EXCEPT ![c] = "done"]
         /\ gate' = Nobody
         /\ UNCHANGED outcome

\* publish_settlement after the outcome: whoever holds the key by now.
Unreserve(c) ==
    /\ task[c] = "settled"
    /\ reserved' = [reserved EXCEPT ![KeyOfCall(c)] = Nobody]
    /\ task' = [task EXCEPT ![c] = "done"]
    /\ gate' = Nobody
    /\ UNCHANGED <<captures, defs, session, outcome, joined, waiter, request,
                   target, snapshot, filesystem, worker>>

\* Mutant: a definition is only found under the id of the request.
KnownById(i) == IF Keyed(i) THEN defs \cap {i} ELSE {}

\* What admit_known can find for a start: the ids of one capture, whatever
\* id the request carries.
Known(i) ==
    IF Keyed(i) THEN {d \in defs : d = i \/ KeyOf[d] = KeyOf[i]} ELSE {}

Proceed(c, id, stage) ==
    /\ target' = [target EXCEPT ![c] = id]
    /\ task' = [task EXCEPT ![c] = stage]
    /\ gate' = c
    /\ UNCHANGED <<outcome, waiter>>

\* The gate is taken and the permit begun, or found closed.  Then
\* settle_start_path (with present_or_restart), stop_inner or restart_inner.
TakeGate(c) ==
    /\ task[c] = "queued"
    /\ gate = Nobody
    /\ \/ closed /\ Settle(c, "refused") /\ UNCHANGED <<target, session, snapshot>>
       \/ /\ ~closed /\ request[c].op = "start"
          /\ \/ /\ Known(request[c].id) = {}
                /\ Proceed(c, request[c].id, "starting")
             \/ \E d \in Known(request[c].id) :
                    IF IsLive(d)
                    THEN /\ target' = [target EXCEPT ![c] = d]
                         /\ Settle(c, "answered")
                    ELSE Proceed(c, d, "starting")
          /\ UNCHANGED <<session, snapshot>>
       \/ /\ ~closed /\ request[c].op = "restart"
          /\ LET id == request[c].id IN
                IF id \notin defs \/ ~Keyed(id)
                THEN Settle(c, "refused") /\ UNCHANGED target
                ELSE Proceed(c, id, IF IsLive(id) THEN "stopping" ELSE "starting")
          /\ UNCHANGED <<session, snapshot>>
       \/ /\ ~closed /\ request[c].op = "stop" /\ degraded
          /\ Settle(c, "refused")
          /\ UNCHANGED <<target, session, snapshot>>
       \/ /\ ~closed /\ request[c].op = "stop" /\ ~degraded
          /\ LET id == request[c].id IN
                IF IsLive(id)
                THEN Proceed(c, id, "stopping") /\ UNCHANGED <<session, snapshot>>
                ELSE /\ ~SessionLocked
                     /\ session' = session \ {id}
                     /\ snapshot' = [snapshot EXCEPT ![c] = session']
                     /\ Proceed(c, id, "noting")
    /\ UNCHANGED <<captures, defs, reserved, joined, request, filesystem, worker>>

\* SourceManager::start, for a source that is free to start.
ManagerStarts(c) ==
    /\ task[c] = "starting"
    /\ \/ /\ phase # "down"
          /\ ~IsLive(target[c])
          /\ captures' = [captures EXCEPT ![target[c]] = "live"]
          /\ task' = [task EXCEPT ![c] = "started"]
          /\ UNCHANGED <<outcome, waiter, gate>>
       \/ Settle(c, "refused") /\ UNCHANGED captures
    /\ UNCHANGED <<defs, session, reserved, joined, request, target, snapshot,
                   filesystem, worker>>

\* Mutant: a stop that fails is noted as well.
ManagerStopsForgets(c) ==
    /\ task[c] = "stopping"
    /\ ~SessionLocked
    /\ \E end \in {"over", captures[target[c]]} :
        captures' = [captures EXCEPT ![target[c]] = end]
    /\ session' = session \ {target[c]}
    /\ snapshot' = [snapshot EXCEPT ![c] = session']
    /\ task' = [task EXCEPT ![c] = "noting"]
    /\ UNCHANGED <<outcome, waiter, gate>>
    /\ UNCHANGED <<defs, reserved, joined, request, target, filesystem, worker>>

\* SourceHandle::stop: complete, incomplete, or an error that may leave the
\* source as it is.  finish_stop notes a complete one in the session.
ManagerStops(c) ==
    /\ task[c] = "stopping"
    /\ \/ /\ captures' = [captures EXCEPT ![target[c]] = "over"]
          /\ IF request[c].op = "restart"
             THEN /\ task' = [task EXCEPT ![c] = "starting"]
                  /\ UNCHANGED <<session, snapshot>>
             ELSE /\ ~SessionLocked
                  /\ session' = session \ {target[c]}
                  /\ snapshot' = [snapshot EXCEPT ![c] = session']
                  /\ task' = [task EXCEPT ![c] = "noting"]
          /\ UNCHANGED <<outcome, waiter, gate>>
       \/ /\ \E end \in {"over", captures[target[c]]} :
                captures' = [captures EXCEPT ![target[c]] = end]
          /\ Settle(c, "refused")
          /\ UNCHANGED <<session, snapshot>>
    /\ UNCHANGED <<defs, reserved, joined, request, target, filesystem, worker>>

\* Mutant: what is stored was read before the source was put in.
PublishOldSession(c) ==
    /\ task[c] = "started"
    /\ defs' = defs \cup {target[c]}
    /\ session' = session \cup {target[c]}
    /\ IF degraded
       THEN Settle(c, "answered") /\ UNCHANGED snapshot
       ELSE /\ snapshot' = [snapshot EXCEPT ![c] = session]
            /\ task' = [task EXCEPT ![c] = "publishing"]
            /\ UNCHANGED <<outcome, waiter, gate>>
    /\ UNCHANGED <<captures, reserved, joined, request, target, filesystem, worker>>

\* publish_started: the definition and the session under their locks, and the
\* store while the session is still locked.
Publish(c) ==
    /\ task[c] = "started"
    /\ defs' = defs \cup {target[c]}
    /\ session' = session \cup {target[c]}
    /\ IF degraded
       THEN Settle(c, "answered") /\ UNCHANGED snapshot
       ELSE /\ snapshot' = [snapshot EXCEPT ![c] = session']
            /\ task' = [task EXCEPT ![c] = "publishing"]
            /\ UNCHANGED <<outcome, waiter, gate>>
    /\ UNCHANGED <<captures, reserved, joined, request, target, filesystem, worker>>

\* note_session_member, which takes neither permit nor gate.
NoteMember(c, r) ==
    /\ Asks(c, r)
    /\ r.op = "note"
    /\ IF degraded
       THEN /\ waiter' = [waiter EXCEPT ![c] = "refused"]
            /\ UNCHANGED <<session, snapshot>>
       ELSE /\ ~SessionLocked
            /\ session' = session \cup {r.id}
            /\ snapshot' = [snapshot EXCEPT ![c] = session']
            /\ waiter' = [waiter EXCEPT ![c] = "noting"]
    /\ UNCHANGED <<captures, defs, reserved, outcome, joined, gate, task,
                   filesystem, worker>>

-----------------------------------------------------------------------------
(* store_session_set *)

Snapped(c) == task[c] \in {"publishing", "noting"} \/ waiter[c] = "noting"
Written(c) == task[c] \in {"published", "noted"} \/ waiter[c] = "noted"
Storing == {c \in Call : Snapped(c) \/ Written(c)}

Overlap(c) == IF Storing = {c} THEN {} ELSE {"overlapped"}

\* A store is over: a failed one is a warning to a start, whose outcome
\* stands, and an error to a stop or a note.
Stored(c, ok) ==
    /\ snapshot' = [snapshot EXCEPT ![c] = {}]
    /\ IF request[c].op = "note"
       THEN /\ waiter' = [waiter EXCEPT ![c] = IF ok THEN "answered" ELSE "refused"]
            /\ UNCHANGED <<outcome, task, gate>>
       ELSE Settle(c, IF ok \/ request[c].op # "stop" THEN "answered" ELSE "refused")

\* The temporary file is truncated, written and synced.
WriteTemporary(c) ==
    /\ Snapped(c)
    /\ temporary' = snapshot[c]
    /\ IF request[c].op = "note"
       THEN /\ waiter' = [waiter EXCEPT ![c] = "noted"]
            /\ UNCHANGED task
       ELSE /\ task' = [task EXCEPT
                  ![c] = IF @ = "publishing" THEN "published" ELSE "noted"]
            /\ UNCHANGED waiter
    /\ lapses' = lapses \cup Overlap(c)
    /\ UNCHANGED <<captures, defs, session, manifest, reserved, outcome, joined,
                   gate, request, target, snapshot, worker>>

\* It replaces the manifest, unless another store has taken it away.
Rename(c) ==
    /\ Written(c)
    /\ IF temporary = Nobody
       THEN Stored(c, FALSE) /\ UNCHANGED <<manifest, temporary>>
       ELSE /\ manifest' = temporary
            /\ temporary' = Nobody
            /\ Stored(c, TRUE)
    /\ lapses' = lapses \cup Overlap(c)
    /\ UNCHANGED <<captures, defs, session, reserved, joined, request, target, worker>>

StoreFails(c) ==
    /\ Snapped(c)
    /\ Stored(c, FALSE)
    /\ lapses' = lapses \cup {"failed"}
    /\ UNCHANGED <<captures, defs, session, manifest, temporary, reserved,
                   joined, request, target, worker>>

-----------------------------------------------------------------------------
(* Captures that end, and shutdown *)

SourceEnds(i) ==
    /\ IsLive(i)
    /\ captures' = [captures EXCEPT ![i] = "over"]
    /\ UNCHANGED <<defs, session, reserved, outcome, joined, gate, waiter, task,
                   request, target, snapshot, filesystem, worker>>

\* shutdown closes the admission and waits for what is in flight.
Close ==
    /\ phase = "up"
    /\ phase' = "draining"
    /\ UNCHANGED <<captures, defs, session, reserved, outcome, joined, gate,
                   waiter, task, request, target, snapshot, filesystem,
                   unsettled, resumed, degraded>>

\* The ids of permits: what the request named, not what it came to act on.
IdsOf(calls) == {request[c].id : c \in calls}

\* The drain takes too long: abort_settlements.
Overdue ==
    /\ phase = "draining"
    /\ InFlight # {}
    /\ phase' = "aborting"
    /\ unsettled' = IdsOf({c \in Call : task[c] \in Begun})
    /\ UNCHANGED <<captures, defs, session, reserved, outcome, joined, gate,
                   waiter, task, request, target, snapshot, filesystem, resumed,
                   degraded>>

\* Mutant: a settlement that is dropped tells nobody.
DroppedInSilence(c) ==
    /\ phase \in {"aborting", "down"}
    /\ task[c] \in {"queued", "starting", "started", "stopping"}
    /\ task' = [task EXCEPT ![c] = IF @ = "queued" THEN "done" ELSE "aborted"]
    /\ gate' = IF gate = c THEN Nobody ELSE gate
    /\ UNCHANGED <<waiter, outcome, reserved, captures, defs, session, joined,
                   request, target, snapshot, filesystem, worker>>

\* An aborted settlement is dropped at an await; until it reaches one it may
\* go on.  StartGuard::drop gives a leader's reservation up.
Dropped(c) ==
    /\ phase \in {"aborting", "down"}
    /\ task[c] \in {"queued", "starting", "started", "stopping"}
    /\ task' = [task EXCEPT ![c] = IF @ = "queued" THEN "done" ELSE "aborted"]
    /\ gate' = IF gate = c THEN Nobody ELSE gate
    /\ IF waiter[c] = "leading" \/ c \in {reserved[k] : k \in Key}
       THEN /\ outcome' = [outcome EXCEPT ![c] = "abandoned"]
            /\ reserved' = [k \in Key |-> IF reserved[k] = c THEN Nobody
                                                             ELSE reserved[k]]
            /\ UNCHANGED waiter
       ELSE /\ waiter' = [waiter EXCEPT ![c] = IF @ = "waiting" THEN "refused" ELSE @]
            /\ UNCHANGED <<outcome, reserved>>
    /\ UNCHANGED <<captures, defs, session, joined, request, target, snapshot,
                   filesystem, worker>>

\* Mutant: only what is still in flight at the end is reported.
ShutDownReportsRest ==
    /\ \/ phase = "draining" /\ InFlight = {}
       \/ phase = "aborting"
    /\ phase' = "down"
    /\ unsettled' = IdsOf(InFlight)
    /\ captures' = [i \in Id |-> IF IsLive(i) THEN "over" ELSE captures[i]]
    /\ UNCHANGED <<defs, session, reserved, outcome, joined, gate, waiter, task,
                   request, target, snapshot, filesystem, resumed, degraded>>

\* Drained, or out of time again: SourceManager::shutdown and its reports.
ShutDown ==
    /\ \/ phase = "draining" /\ InFlight = {}
       \/ phase = "aborting"
    /\ phase' = "down"
    /\ unsettled' = unsettled \cup IdsOf(InFlight)
    /\ captures' = [i \in Id |-> IF IsLive(i) THEN "over" ELSE captures[i]]
    /\ UNCHANGED <<defs, session, reserved, outcome, joined, gate, waiter, task,
                   request, target, snapshot, filesystem, resumed, degraded>>

Finished == {"answered", "refused", "gone"}

-----------------------------------------------------------------------------

Admission(c, r) ==
    Refuse(c, r) \/ Lead(c, r) \/ Join(c, r) \/ Spawn(c, r) \/ NoteMember(c, r)
WaiterStep(c) == Wake(c) \/ (waiter[c] = "entering" /\ Admission(c, request[c]))
StoreStep(c) == WriteTemporary(c) \/ Rename(c) \/ StoreFails(c)
SettlementStep(c) ==
    \/ TakeGate(c) \/ ManagerStarts(c) \/ ManagerStops(c) \/ Publish(c)
    \/ Unreserve(c) \/ Dropped(c)
ShutdownStep == Close \/ Overdue \/ ShutDown

Next ==
    \/ \E c \in Call :
        \/ /\ waiter[c] = "idle"
           /\ \A d \in Call : d < c => waiter[d] # "idle"
           /\ \E r \in Operations : Admission(c, r)
        \/ Timeout(c) \/ WaiterStep(c) \/ StoreStep(c) \/ SettlementStep(c)
    \/ \E i \in Id : SourceEnds(i)
    \/ ShutdownStep

Spec == Init /\ [][Next]_vars

\* Waiters and settlements are tasks of the worker's runtime, a store is a
\* blocking call, and the manager answers (SourceLifecycle): they do not all rest
\* while one of them can go on.  Nothing is assumed of windows, of shutdown, or
\* of the sources.
ServiceStep ==
    \E c \in Call : WaiterStep(c) \/ StoreStep(c) \/ SettlementStep(c)

Fairness == WF_vars(ServiceStep)

FairSpec == Spec /\ Fairness

-----------------------------------------------------------------------------
(* Properties *)

\* Two sources of one acquisition are never captured at once by what requests
\* do (enter_start_key, admit_known, the lifecycle gate).  A resume may find
\* two of them in its manifest.
OneCapturePerKey ==
    \A i, j \in Id :
        /\ i # j /\ Keyed(i) /\ KeyOf[i] = KeyOf[j]
        /\ IsLive(i) /\ IsLive(j)
        => {i, j} \subseteq resumed

\* A capture that runs, and on which no settlement is at work, is known to the
\* worker and in the session, so that windows see it and the next worker
\* resumes it (publish_started is all or nothing, stop_inner ends the capture
\* before it forgets it).  Only a shutdown may abort a start between the two.
CaptureIsRecorded ==
    ~closed => \A i \in Id :
        IsLive(i) => \/ i \in defs \cap session
                     \/ \E c \in Call : target[c] = i /\ task[c] \in Begun

\* When no store is under way, and none failed, the manifest says what the
\* session says (store_session_set after every change).
ManifestAgrees ==
    ~degraded /\ Storing = {} /\ "failed" \notin lapses => manifest = session

\* The same where no two stores overlapped.
ManifestAgreesAlone ==
    ~degraded /\ Storing = {} /\ lapses = {} => manifest = session

\* A settlement that has yet to settle a key holds that key's reservation, so
\* nobody else leads the same start (enter_start_key, publish_settlement).
LeaderIsReserved ==
    \A c \in Call : waiter[c] = "leading" /\ outcome[c] = "unset"
        => reserved[KeyOfCall(c)] = c

\* When shutdown is over, an operation that had begun is carried through or is
\* among the ids it reports (abort_settlements, unsettled_sources).
ShutdownAccounts ==
    phase = "down" => \A c \in Call :
        task[c] \in Begun \cup {"aborted"} => request[c].id \in unsettled

\* Every request is answered, whatever becomes of its settlement: windows make
\* finitely many, and in the end none is waiting.
CallsSettle == []<>(\A c \in Call : waiter[c] \in Finished \cup {"idle"})
=============================================================================
