----------------------- MODULE WorkerLifecycleProofs -----------------------
(***************************************************************************)
(* Proofs about the worker's lifecycle requests: two sources of one        *)
(* acquisition are never captured at once, a capture is in the definitions *)
(* and in the session, the manifest says what the session says unless a    *)
(* store failed or two overlapped, and a shutdown accounts for what it     *)
(* interrupted.  They hold for any number of calls, ids and keys.          *)
(*                                                                         *)
(* The argument is the gate: a settlement that has begun holds it          *)
(* (GateInv), so that between admit_known and publish_started nobody else  *)
(* adds a definition (TargetInv), and a capture that is not yet defined is *)
(* the one capture of a start that has the gate, or that was aborted with  *)
(* it (KnownInv, AbortInv).                                                *)
(***************************************************************************)
EXTENDS WorkerLifecycle, TLAPS

\* Where a request and its settlement may be, and what ends a worker.
Waiters == {"idle", "entering", "leading", "joined", "waiting", "noting",
            "noted", "answered", "refused", "gone"}
Tasks == Begun \cup {"none", "queued", "done", "aborted"}
Ending == {"aborting", "down"}

\* The types of the variables that the arguments read.
Types ==
    /\ captures \in [Id -> {"none", "live", "over"}]
    /\ defs \subseteq Id /\ session \subseteq Id
    /\ reserved \in [Key -> Call \cup {Nobody}]
    /\ gate \in Call \cup {Nobody}
    /\ waiter \in [Call -> Waiters] /\ task \in [Call -> Tasks]
    /\ DOMAIN request = Call
    /\ target \in [Call -> Id \cup {Nobody}]
    /\ snapshot \in [Call -> SUBSET Id]
    /\ phase \in {"up", "draining", "aborting", "down"}
    /\ outcome \in [Call -> {"unset", "settled", "failed", "abandoned"}]

\* A settlement that shutdown took away, or that was over by then: only then
\* may its leader be told "abandoned" (StartGuard::drop).
Abandoned(c) == phase \in Ending /\ task[c] \in {"done", "aborted"}

\* What a call is doing goes with what it asked for: a start that enters or
\* joins has no settlement of its own, and only note_session_member stores
\* from its waiter.
Placed(c) ==
    /\ waiter[c] # "idle" => request[c] \in Operations /\ target[c] \in Id
    /\ waiter[c] = "idle" => task[c] = "none"
    /\ waiter[c] \in {"entering", "joined"} => task[c] = "none" \/ Abandoned(c)
    /\ waiter[c] \in {"entering", "joined", "leading"}
        => request[c].op = "start"
    /\ outcome[c] = "abandoned" => Abandoned(c)
    /\ task[c] # "none" => request[c].op # "note"
    /\ waiter[c] \in {"noting", "noted"} => request[c].op = "note"

\* A settlement that has begun holds the lifecycle mutex.
GateInv == \A c \in Call : task[c] \in Begun => gate = c

\* Every call is somewhere it can be.
PlaceInv == \A c \in Call : Placed(c)

\* The stages of a settlement in which it may change what is captured.
Acting == {"starting", "started", "stopping"}

\* admit_known finds no definition of i's acquisition.
Unmatched(i) == Keyed(i) => \A d \in defs : KeyOf[d] # KeyOf[i]

\* c's settlement has started i and not published it, or was aborted there.
OpenStart(c, i) ==
    /\ task[c] \in {"started", "aborted"} /\ target[c] = i
    /\ task[c] = "aborted" => request[c].id = i

\* Of two definitions of one acquisition, both were resumed.
DefsInv ==
    \A i, j \in defs :
        i # j /\ Keyed(i) /\ KeyOf[i] = KeyOf[j] => {i, j} \subseteq resumed

\* What runs is defined, or is a new start whose acquisition nobody defined.
KnownInv ==
    \A i \in Id : IsLive(i) =>
        i \in defs \/ (Unmatched(i) /\ \E c \in Call : OpenStart(c, i))

\* Until shutdown aborts settlements, what runs is defined and in the session,
\* or its start is yet to be published.
SessionInv ==
    phase \notin Ending => \A i \in Id : IsLive(i) =>
        \/ i \in defs \cap session
        \/ \E c \in Call : task[c] = "started" /\ target[c] = i

\* A settlement acts on a source that is defined, or on the new one that its
\* request names and whose acquisition is still undefined.
TargetInv == \A c \in Call :
    task[c] \in Acting =>
        \/ target[c] \in defs
        \/ /\ request[c].op = "start" /\ target[c] = request[c].id
           /\ Unmatched(target[c])

\* At most one settlement is aborted halfway, and none acts after it: the others
\* find the admission closed.
AbortInv == \A c \in Call : task[c] = "aborted" =>
    /\ phase \in Ending
    /\ \A b \in Call : task[b] \notin Acting /\ (task[b] = "aborted" => b = c)

\* While no store failed and no two overlapped: with none under way the manifest
\* is the session, and the only one under way is about to write the session.
StoreInv ==
    ~degraded /\ lapses = {} =>
        /\ Storing = {} => manifest = session
        /\ \A c \in Call : Storing = {c} =>
            snapshot[c] = session /\ (Written(c) => temporary = snapshot[c])

\* Whatever shutdown interrupts is among the ids it reports.
AccountInv == \A c \in Call :
    /\ phase = "aborting" /\ task[c] \in Acting \cup {"aborted"}
        => request[c].id \in unsettled
    /\ phase = "down" /\ task[c] \in Begun \cup {"aborted", "queued"}
        => request[c].id \in unsettled

\* The inductive invariant.
WorkerInv ==
    /\ Types /\ GateInv /\ PlaceInv
    /\ DefsInv /\ KnownInv /\ SessionInv /\ TargetInv /\ AbortInv
    /\ StoreInv /\ AccountInv

-----------------------------------------------------------------------------
\* open and resume_session leave the worker in a state the invariant allows.
LEMMA WorkerInitially == Init => WorkerInv
<1> SUFFICES ASSUME Init PROVE WorkerInv
  OBVIOUS
<1> USE LifecycleAssumption DEF Init
<1>1. Types
  BY DEF Types, Waiters, Tasks, Key
<1>2. GateInv /\ PlaceInv
  BY DEF GateInv, PlaceInv, Placed, Abandoned, Begun, NoRequest
<1>3. DefsInv /\ KnownInv /\ SessionInv
  BY DEF DefsInv, KnownInv, SessionInv, IsLive
<1>4. TargetInv /\ AbortInv /\ AccountInv
  BY DEF TargetInv, AbortInv, AccountInv, Acting, Begun
<1>5. StoreInv
  BY DEF StoreInv, Storing, Snapped, Written
<1> QED
  BY <1>1, <1>2, <1>3, <1>4, <1>5 DEF WorkerInv

\* A request that comes in, refused, leading, joining or spawned, keeps types.
LEMMA AdmissionTypes ==
  ASSUME Types, NEW c \in Call, NEW r \in Operations, Admission(c, r)
  PROVE  Types'
<1> USE LifecycleAssumption DEF Types, Waiters, Tasks, Begun, Asks, filesystem,
                                worker
<1> r.id \in Id
  OBVIOUS
<1> Keyed(r.id) => KeyOf[r.id] \in Key
  BY DEF Keyed, Key
<1>1. CASE Refuse(c, r)
  BY <1>1 DEF Refuse
<1>2. CASE Lead(c, r)
  BY <1>2 DEF Lead
<1>3. CASE Join(c, r)
  BY <1>3 DEF Join
<1>4. CASE Spawn(c, r)
  BY <1>4 DEF Spawn
<1>5. CASE NoteMember(c, r)
  BY <1>5 DEF NoteMember
<1> QED
  BY <1>1, <1>2, <1>3, <1>4, <1>5 DEF Admission

\* The end of a settlement (publish_settlement, a reply) keeps types.
LEMMA SettleTypes ==
  ASSUME Types, NEW c \in Call, NEW result \in {"answered", "refused"},
         Settle(c, result)
  PROVE  /\ outcome' \in [Call -> {"unset", "settled", "failed", "abandoned"}]
         /\ task' \in [Call -> Tasks] /\ waiter' \in [Call -> Waiters]
         /\ gate' \in Call \cup {Nobody}
  BY DEF Types, Settle, Tasks, Begun, Waiters

\* Waiters, stores and settlements keep the types.
LEMMA StepTypes ==
  ASSUME Types, PlaceInv, NEW c \in Call,
         Timeout(c) \/ Wake(c) \/ StoreStep(c) \/ SettlementStep(c)
  PROVE  Types'
<1> USE LifecycleAssumption DEF Types, filesystem, worker
<1>1. CASE Timeout(c)
  BY <1>1 DEF Timeout, Waiters
<1>2. CASE Wake(c)
  BY <1>2 DEF Wake, Again, Waiters
<1>3. CASE WriteTemporary(c)
  BY <1>3 DEF WriteTemporary, Waiters, Tasks, Begun
<1>4. CASE Rename(c)
  BY <1>4, SettleTypes DEF Rename, Stored, Waiters
<1>5. CASE StoreFails(c)
  BY <1>5, SettleTypes DEF StoreFails, Stored, Waiters
<1>6. CASE TakeGate(c)
  <2>1. request[c] \in Operations /\ request[c].id \in Id
    BY <1>6 DEF TakeGate, PlaceInv, Placed
  <2>2. \A d \in Known(request[c].id) : d \in Id
    BY DEF Known
  <2> QED
    BY <1>6, <2>1, <2>2, SettleTypes DEF TakeGate, Proceed, Tasks, Begun
<1>7. CASE ManagerStarts(c)
  BY <1>7, SettleTypes DEF ManagerStarts, Tasks, Begun
<1>8. CASE ManagerStops(c)
  BY <1>8, SettleTypes DEF ManagerStops, Tasks, Begun
<1>9. CASE Publish(c)
  <2>1. target[c] \in Id
    BY <1>9 DEF Publish, PlaceInv, Placed
  <2> QED
    BY <1>9, <2>1, SettleTypes DEF Publish, Tasks, Begun
<1>10. CASE Unreserve(c)
  BY <1>10 DEF Unreserve, Tasks, Begun
<1>11. CASE Dropped(c)
  BY <1>11 DEF Dropped, Waiters, Tasks, Begun
<1> QED
  BY <1>1, <1>2, <1>3, <1>4, <1>5, <1>6, <1>7, <1>8, <1>9, <1>10, <1>11
  DEF StoreStep, SettlementStep

-----------------------------------------------------------------------------
(* The gate, and where calls are *)

\* A request that comes in neither takes the gate nor has begun (try_enter).
LEMMA AdmissionPlaces ==
  ASSUME Types, GateInv, PlaceInv, NEW c \in Call, NEW r \in Operations,
         Admission(c, r)
  PROVE  GateInv' /\ PlaceInv'
<1> USE LifecycleAssumption
    DEF Types, GateInv, PlaceInv, Placed, Abandoned, Begun, Asks, TryEnter,
        closed, Ending, worker
<1> r.id \in Id /\ r.op \in {"start", "stop", "restart", "note"}
  OBVIOUS
<1>1. CASE Refuse(c, r)
  BY <1>1 DEF Refuse
<1>2. CASE Lead(c, r)
  BY <1>2 DEF Lead
<1>3. CASE Join(c, r)
  BY <1>3 DEF Join
<1>4. CASE Spawn(c, r)
  BY <1>4 DEF Spawn
<1>5. CASE NoteMember(c, r)
  BY <1>5 DEF NoteMember
<1> QED
  BY <1>1, <1>2, <1>3, <1>4, <1>5 DEF Admission

\* Who begins takes the gate, who ends or is dropped gives it back
\* (settle_start_path, stop_inner, restart_inner, StartGuard::drop).
LEMMA StepPlaces ==
  ASSUME Types, GateInv, PlaceInv, NEW c \in Call,
         Timeout(c) \/ Wake(c) \/ StoreStep(c) \/ SettlementStep(c)
  PROVE  GateInv' /\ PlaceInv'
<1> USE LifecycleAssumption DEF Types, GateInv, PlaceInv, Placed, Abandoned,
                                Begun, Ending, worker, Settle
<1>1. CASE Timeout(c)
  BY <1>1 DEF Timeout
<1>2. CASE Wake(c)
  BY SMTT(60), <1>2 DEF Wake, Again
<1>3. CASE WriteTemporary(c)
  BY <1>3 DEF WriteTemporary, Snapped
<1>4. CASE Rename(c)
  BY <1>4 DEF Rename, Stored, Written
<1>5. CASE StoreFails(c)
  BY <1>5 DEF StoreFails, Stored, Snapped
<1>6. CASE TakeGate(c)
  <2>2. \A d \in Known(request[c].id) : d \in Id
    BY DEF Known
  <2> QED
    BY <1>6, <2>2 DEF TakeGate, Proceed
<1>7. CASE ManagerStarts(c)
  BY <1>7 DEF ManagerStarts
<1>8. CASE ManagerStops(c)
  BY <1>8 DEF ManagerStops
<1>9. CASE Publish(c)
  BY <1>9 DEF Publish
<1>10. CASE Unreserve(c)
  BY <1>10 DEF Unreserve
<1>11. CASE Dropped(c)
  BY <1>11 DEF Dropped
<1> QED
  BY <1>1, <1>2, <1>3, <1>4, <1>5, <1>6, <1>7, <1>8, <1>9, <1>10, <1>11
  DEF StoreStep, SettlementStep

-----------------------------------------------------------------------------
(* What runs, and what the worker knows of it *)

\* The part of the invariant that is about captures.
CaptureInv == DefsInv /\ KnownInv /\ SessionInv /\ TargetInv /\ AbortInv

\* Admission changes neither captures nor definitions (enter_start_key).
LEMMA AdmissionCaptures ==
  ASSUME Types, PlaceInv, CaptureInv, NEW c \in Call, NEW r \in Operations,
         Admission(c, r)
  PROVE  CaptureInv'
<1> USE LifecycleAssumption
    DEF Types, PlaceInv, Placed, Abandoned, Asks, TryEnter, closed, Ending,
        worker,
        CaptureInv, DefsInv, KnownInv, SessionInv, TargetInv, AbortInv, Acting,
        Unmatched, OpenStart, IsLive
<1> r.id \in Id /\ r.op \in {"start", "stop", "restart", "note"}
  OBVIOUS
<1>1. CASE Refuse(c, r)
  BY <1>1 DEF Refuse
<1>2. CASE Lead(c, r)
  BY <1>2 DEF Lead
<1>3. CASE Join(c, r)
  BY <1>3 DEF Join
<1>4. CASE Spawn(c, r)
  BY <1>4 DEF Spawn
<1>5. CASE NoteMember(c, r)
  BY <1>5 DEF NoteMember
<1> QED
  BY <1>1, <1>2, <1>3, <1>4, <1>5 DEF Admission

\* What settlements do to captures: admit_known under the gate decides the
\* target, SourceManager::start captures it, publish_started defines it and
\* puts it in the session, and finish_stop forgets what has ended.
LEMMA StepCaptures ==
  ASSUME Types, GateInv, PlaceInv, CaptureInv, NEW c \in Call,
         Timeout(c) \/ Wake(c) \/ StoreStep(c) \/ SettlementStep(c)
  PROVE  CaptureInv'
<1> USE LifecycleAssumption
    DEF Types, GateInv, PlaceInv, Placed, Abandoned, Begun, Ending, worker,
        CaptureInv, DefsInv, KnownInv, SessionInv, TargetInv, AbortInv, Acting,
        Unmatched, OpenStart, IsLive, Settle
<1>1. CASE Timeout(c)
  BY <1>1 DEF Timeout
<1>2. CASE Wake(c)
  BY <1>2 DEF Wake
<1>3. CASE WriteTemporary(c)
  BY SMTT(60), <1>3 DEF WriteTemporary, Snapped
<1>4. CASE Rename(c)
  BY <1>4 DEF Rename, Stored, Written
<1>5. CASE StoreFails(c)
  BY <1>5 DEF StoreFails, Stored, Snapped
<1>6. CASE TakeGate(c)
  <2>2. \A d \in Known(request[c].id) : d \in defs /\ d \in Id
    BY DEF Known
  <2>3. request[c].id \in Id
    BY <1>6 DEF TakeGate
  <2>4. Known(request[c].id) = {} => Unmatched(request[c].id)
    BY <2>3 DEF Known
  <2>5. ~closed => \A i \in Id : IsLive(i) => i \in defs /\ i \in session
    BY <1>6 DEF TakeGate, closed
  <2>6. \A b \in Call : b # c => task'[b] = task[b] /\ target'[b] = target[b]
    BY <1>6 DEF TakeGate, Proceed
  <2>7. \A b \in Call : task[b] \notin Begun
    BY <1>6 DEF TakeGate
  <2>8. UNCHANGED <<defs, captures, phase, request, resumed>>
    BY <1>6 DEF TakeGate
  <2>9. DefsInv'
    BY <2>8
  <2>10. KnownInv' /\ SessionInv'
    <3>1. CASE closed
      BY <1>6, <3>1, <2>7, <2>8 DEF TakeGate, closed
    <3>2. CASE ~closed
      <4>1. \A i \in Id : IsLive(i) => i \in session'
        BY <1>6, <3>2, <2>5, <2>3 DEF TakeGate
      <4> QED
        BY <3>2, <4>1, <2>5, <2>8
    <3> QED
      BY <3>1, <3>2
  <2>11. TargetInv'
    BY <1>6, <2>2, <2>3, <2>4, <2>5, <2>6, <2>7, <2>8 DEF TakeGate, Proceed
  <2>12. AbortInv'
    BY <1>6, <2>6, <2>7, <2>8 DEF TakeGate, Proceed, closed
  <2> QED
    BY <2>9, <2>10, <2>11, <2>12
<1>7. CASE ManagerStarts(c)
  BY <1>7 DEF ManagerStarts
<1>8. CASE ManagerStops(c)
  BY <1>8 DEF ManagerStops
<1>9. CASE Publish(c)
  <2>1. target[c] \in Id /\ target[c] \in defs'
    BY <1>9 DEF Publish
  <2>2. \A b \in Call, i \in Id : OpenStart(b, i) => i = target[c]
    BY <1>9 DEF Publish
  <2>3. DefsInv'
    <3>1. target[c] \in defs \/ Unmatched(target[c])
      BY <1>9 DEF Publish
    <3> QED
      BY <1>9, <2>1, <3>1 DEF Publish, Keyed
  <2>4. KnownInv'
    BY <1>9, <2>1, <2>2 DEF Publish
  <2>5. SessionInv'
    BY <1>9, <2>1, <2>2 DEF Publish
  <2>6. TargetInv' /\ AbortInv'
    BY <1>9 DEF Publish
  <2> QED
    BY <2>3, <2>4, <2>5, <2>6
<1>10. CASE Unreserve(c)
  BY <1>10 DEF Unreserve
<1>11. CASE Dropped(c)
  BY <1>11 DEF Dropped
<1> QED
  BY <1>1, <1>2, <1>3, <1>4, <1>5, <1>6, <1>7, <1>8, <1>9, <1>10, <1>11
  DEF StoreStep, SettlementStep

-----------------------------------------------------------------------------
(* The manifest *)

\* A session that is not changed, and stores that neither begin nor go on.
LEMMA StoreFrame ==
  ASSUME StoreInv,
         UNCHANGED <<degraded, lapses, manifest, temporary, session,
                     snapshot, Storing>>,
         \A c \in Call : Written(c)' => Written(c)
  PROVE  StoreInv'
  BY DEF StoreInv

\* A store begins: it has the session of this moment.
LEMMA StoreBegins ==
  ASSUME StoreInv, NEW c \in Call, Types, Types',
         UNCHANGED <<degraded, lapses, manifest, temporary>>,
         snapshot'[c] = session', c \in Storing', ~Written(c)'
  PROVE  StoreInv'
<1>1. Storing' # {}
  OBVIOUS
<1>2. \A b \in Call : Storing' = {b} => b = c
  OBVIOUS
<1> QED
  BY <1>1, <1>2 DEF StoreInv

\* With store_unavailable nothing is claimed of the manifest.
LEMMA StoreDegraded ==
  ASSUME degraded, UNCHANGED degraded
  PROVE  StoreInv'
  BY DEF StoreInv

\* note_session_member begins a store, the other requests touch none.
LEMMA AdmissionStores ==
  ASSUME Types, PlaceInv, StoreInv, NEW c \in Call, NEW r \in Operations,
         Admission(c, r)
  PROVE  StoreInv'
<1> USE LifecycleAssumption
    DEF Types, PlaceInv, Placed, Abandoned, Asks, TryEnter, closed, Ending,
        worker, filesystem,
        Storing, Snapped, Written
<1> r.id \in Id /\ r.op \in {"start", "stop", "restart", "note"}
  OBVIOUS
<1>1. CASE Refuse(c, r)
  BY <1>1, StoreFrame DEF Refuse
<1>2. CASE Lead(c, r)
  BY <1>2, StoreFrame DEF Lead
<1>3. CASE Join(c, r)
  BY <1>3, StoreFrame DEF Join
<1>4. CASE Spawn(c, r)
  BY <1>4, StoreFrame DEF Spawn
<1>5. CASE NoteMember(c, r)
  <2>1. CASE degraded
    BY <1>5, <2>1, StoreDegraded DEF NoteMember
  <2>2. CASE ~degraded
    <3>1. task[c] = "none"
      BY <1>5 DEF NoteMember
    <3>2. Types'
      BY <1>5, AdmissionTypes DEF Admission
    <3>3. c \in Storing' /\ ~Written(c)' /\ snapshot'[c] = session'
      BY <1>5, <2>2, <3>1 DEF NoteMember
    <3> QED
      BY <1>5, <2>2, <3>2, <3>3, StoreBegins DEF NoteMember
  <2> QED
    BY <2>1, <2>2
<1> QED
  BY <1>1, <1>2, <1>3, <1>4, <1>5 DEF Admission

\* store_session_set: the rename puts in the manifest what the only store wrote,
\* which is the session.
LEMMA StepStores ==
  ASSUME Types, GateInv, PlaceInv, StoreInv, NEW c \in Call,
         Timeout(c) \/ Wake(c) \/ StoreStep(c) \/ SettlementStep(c)
  PROVE  StoreInv'
<1> USE LifecycleAssumption
    DEF Types, GateInv, PlaceInv, Placed, Abandoned, Begun, Ending, worker,
        filesystem,
        Settle, Storing, Snapped, Written
<1> Types'
  BY StepTypes
<1>1. CASE Timeout(c)
  BY <1>1, StoreFrame DEF Timeout
<1>2. CASE Wake(c)
  BY <1>2, StoreFrame DEF Wake, Again
<1>3. CASE WriteTemporary(c)
  BY <1>3 DEF WriteTemporary, StoreInv, Overlap
<1>4. CASE Rename(c)
  <2>1. CASE Storing = {c}
    <3>1. Storing' = {}
      BY SMTT(60), <1>4, <2>1 DEF Rename, Stored
    <3>2. ~degraded /\ lapses = {} => temporary = session /\ temporary # Nobody
      BY <1>4, <2>1 DEF Rename, StoreInv
    <3> QED
      BY <1>4, <2>1, <3>1, <3>2 DEF Rename, StoreInv
  <2>2. CASE Storing # {c}
    BY <1>4, <2>2 DEF Rename, StoreInv, Overlap
  <2> QED
    BY <2>1, <2>2
<1>5. CASE StoreFails(c)
  BY <1>5 DEF StoreFails, Stored, StoreInv
<1>6. CASE TakeGate(c)
  BY SMTT(60), <1>6, StoreFrame, StoreBegins DEF TakeGate, Proceed
<1>7. CASE ManagerStarts(c)
  BY <1>7, StoreFrame DEF ManagerStarts
<1>8. CASE ManagerStops(c)
  BY SMTT(60), <1>8, StoreFrame, StoreBegins DEF ManagerStops
<1>9. CASE Publish(c)
  BY <1>9, StoreDegraded, StoreBegins DEF Publish
<1>10. CASE Unreserve(c)
  BY <1>10, StoreFrame DEF Unreserve
<1>11. CASE Dropped(c)
  BY <1>11, StoreFrame DEF Dropped
<1> QED
  BY <1>1, <1>2, <1>3, <1>4, <1>5, <1>6, <1>7, <1>8, <1>9, <1>10, <1>11
  DEF StoreStep, SettlementStep

-----------------------------------------------------------------------------
(* What shutdown reports *)

\* After shutdown closed the admission no settlement is added (try_enter).
LEMMA AdmissionAccounts ==
  ASSUME Types, PlaceInv, AccountInv, NEW c \in Call, NEW r \in Operations,
         Admission(c, r)
  PROVE  AccountInv'
<1> USE LifecycleAssumption
    DEF Types, PlaceInv, Placed, Abandoned, Asks, TryEnter, closed, Ending,
        worker,
        AccountInv, Acting, Begun
<1>1. CASE Refuse(c, r)
  BY <1>1 DEF Refuse
<1>2. CASE Lead(c, r)
  BY <1>2 DEF Lead
<1>3. CASE Join(c, r)
  BY <1>3 DEF Join
<1>4. CASE Spawn(c, r)
  BY <1>4 DEF Spawn
<1>5. CASE NoteMember(c, r)
  BY <1>5 DEF NoteMember
<1> QED
  BY <1>1, <1>2, <1>3, <1>4, <1>5 DEF Admission

\* A settlement that goes on, ends or is dropped stays accounted for.
LEMMA StepAccounts ==
  ASSUME Types, PlaceInv, AccountInv, NEW c \in Call,
         Timeout(c) \/ Wake(c) \/ StoreStep(c) \/ SettlementStep(c)
  PROVE  AccountInv'
<1> USE DEF Types, PlaceInv, Placed, Begun, Ending, worker, Settle, AccountInv,
            Acting, closed
<1>1. CASE Timeout(c)
  BY <1>1 DEF Timeout
<1>2. CASE Wake(c)
  BY <1>2 DEF Wake
<1>3. CASE WriteTemporary(c)
  BY <1>3 DEF WriteTemporary, Snapped
<1>4. CASE Rename(c)
  BY <1>4 DEF Rename, Stored, Written
<1>5. CASE StoreFails(c)
  BY <1>5 DEF StoreFails, Stored, Snapped
<1>6. CASE TakeGate(c)
  BY <1>6 DEF TakeGate, Proceed
<1>7. CASE ManagerStarts(c)
  BY <1>7 DEF ManagerStarts
<1>8. CASE ManagerStops(c)
  BY <1>8 DEF ManagerStops
<1>9. CASE Publish(c)
  BY <1>9 DEF Publish
<1>10. CASE Unreserve(c)
  BY <1>10 DEF Unreserve
<1>11. CASE Dropped(c)
  BY <1>11 DEF Dropped
<1> QED
  BY <1>1, <1>2, <1>3, <1>4, <1>5, <1>6, <1>7, <1>8, <1>9, <1>10, <1>11
  DEF StoreStep, SettlementStep

-----------------------------------------------------------------------------
(* Shutdown, and sources that end *)

\* Close, abort_settlements and the end of shutdown, and a source that ends by
\* itself: the ids that shutdown collects are those of the permits in flight.
LEMMA EndingKeeps ==
  ASSUME WorkerInv, ShutdownStep \/ \E i \in Id : SourceEnds(i)
  PROVE  WorkerInv'
<1> USE DEF WorkerInv, worker
<1>1. Types'
  BY DEF Types, ShutdownStep, Close, Overdue, ShutDown, SourceEnds
<1>2. GateInv' /\ PlaceInv'
  BY DEF Types, GateInv, PlaceInv, Placed, Abandoned, Ending, ShutdownStep,
         Close, Overdue,
         ShutDown, SourceEnds
<1>3. DefsInv' /\ KnownInv' /\ SessionInv'
  BY DEF Types, DefsInv, KnownInv, SessionInv, Ending, Unmatched, OpenStart,
         IsLive, ShutdownStep,
         Close, Overdue, ShutDown, SourceEnds
<1>4. TargetInv' /\ AbortInv'
  BY DEF Types, TargetInv, AbortInv, Ending, Unmatched, Acting, ShutdownStep,
         Close,
         Overdue, ShutDown, SourceEnds
<1>5. StoreInv'
  BY StoreFrame DEF ShutdownStep, Close, Overdue, ShutDown, SourceEnds,
                    filesystem,
         Storing, Snapped, Written
<1>6. AccountInv'
  <2>1. CASE Close \/ \E i \in Id : SourceEnds(i)
    BY <2>1 DEF AccountInv, Close, SourceEnds
  <2>2. CASE Overdue
    BY <2>2 DEF Overdue, AccountInv, AbortInv, Acting, Begun, IdsOf, Ending
  <2>3. CASE ShutDown
    BY <2>3 DEF ShutDown, AccountInv, AbortInv, Acting, Begun, IdsOf, InFlight,
                Settling, Ending
  <2> QED
    BY <2>1, <2>2, <2>3 DEF ShutdownStep
<1> QED
  BY <1>1, <1>2, <1>3, <1>4, <1>5, <1>6

\* Every step of the worker keeps the invariant.
LEMMA NextKeeps == WorkerInv /\ [Next]_vars => WorkerInv'
<1> SUFFICES ASSUME WorkerInv, [Next]_vars PROVE WorkerInv'
  OBVIOUS
<1>1. ASSUME NEW c \in Call, NEW r \in Operations, Admission(c, r)
      PROVE  WorkerInv'
  BY <1>1, AdmissionTypes, AdmissionPlaces, AdmissionCaptures, AdmissionStores,
     AdmissionAccounts
  DEF WorkerInv, CaptureInv
<1>2. ASSUME NEW c \in Call,
             Timeout(c) \/ Wake(c) \/ StoreStep(c) \/ SettlementStep(c)
      PROVE  WorkerInv'
  BY <1>2, StepTypes, StepPlaces, StepCaptures, StepStores, StepAccounts
  DEF WorkerInv, CaptureInv
<1>3. ASSUME NEW c \in Call, waiter[c] = "entering", Admission(c, request[c])
      PROVE  WorkerInv'
  BY <1>3, <1>1 DEF WorkerInv, PlaceInv, Placed
<1>4. CASE ShutdownStep \/ \E i \in Id : SourceEnds(i)
  BY <1>4, EndingKeeps
<1>5. CASE UNCHANGED vars
  BY <1>5 DEF vars, filesystem, worker, WorkerInv, Types, GateInv, PlaceInv,
              Placed, Abandoned,
     DefsInv, KnownInv, SessionInv, TargetInv, AbortInv, StoreInv, AccountInv,
     Unmatched,
     OpenStart, IsLive, Storing, Snapped, Written
<1> QED
  BY <1>1, <1>2, <1>3, <1>4, <1>5 DEF Next, WaiterStep

\* The invariant of the worker's lifecycle requests (request_start,
\* request_stop, request_restart, note_session_member, shutdown) holds in every
\* reachable state, for any calls, ids and acquisition keys.
THEOREM WorkerInvariant == Spec => []WorkerInv
  BY WorkerInitially, NextKeeps, PTL DEF Spec

\* Two sources of one acquisition never run at once, unless both were resumed
\* (enter_start_key, admit_known, the lifecycle gate): of two that run, both
\* are defined, since there is at most one start that is not published.
THEOREM WorkerOneCapture == Spec => []OneCapturePerKey
<1>1. WorkerInv => OneCapturePerKey
  <2> SUFFICES ASSUME WorkerInv, NEW i \in Id, NEW j \in Id, i # j, Keyed(i),
                      KeyOf[i] = KeyOf[j], IsLive(i), IsLive(j)
               PROVE  {i, j} \subseteq resumed
    BY DEF OneCapturePerKey
  <2>1. Keyed(j)
    BY DEF Keyed
  <2>2. \A b, c \in Call : OpenStart(b, i) /\ OpenStart(c, j) => FALSE
    BY DEF WorkerInv, GateInv, AbortInv, OpenStart, Begun, Acting
  <2>3. i \in defs /\ j \in defs
    BY <2>1, <2>2 DEF WorkerInv, KnownInv, Unmatched
  <2> QED
    BY <2>3 DEF WorkerInv, DefsInv
<1> QED
  BY <1>1, WorkerInvariant, PTL

\* While the worker admits requests, a capture that runs is in the definitions
\* and in the session, or its start is under way (publish_started, stop_inner).
THEOREM WorkerRecords == Spec => []CaptureIsRecorded
<1>1. WorkerInv => CaptureIsRecorded
  BY DEF WorkerInv, CaptureIsRecorded, SessionInv, closed, Ending, Begun
<1> QED
  BY <1>1, WorkerInvariant, PTL

\* With the store usable and no store under way, session.json lists exactly the
\* session, if no store failed and no two overlapped (store_session_set).
THEOREM WorkerManifest == Spec => []ManifestAgreesAlone
<1>1. WorkerInv => ManifestAgreesAlone
  BY DEF WorkerInv, ManifestAgreesAlone, StoreInv
<1> QED
  BY <1>1, WorkerInvariant, PTL

\* When shutdown is over, every operation that had begun and was not carried
\* through is among the ids it reports (abort_settlements, unsettled_sources).
THEOREM WorkerShutdown == Spec => []ShutdownAccounts
<1>1. WorkerInv => ShutdownAccounts
  BY DEF WorkerInv, ShutdownAccounts, AccountInv
<1> QED
  BY <1>1, WorkerInvariant, PTL
=============================================================================
