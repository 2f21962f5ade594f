---------------------------- MODULE UnionCommit ----------------------------
(***************************************************************************)
(* How a window publishes a union of views over sources that the shared    *)
(* worker captures.  The window freezes its inputs one after the other,    *)
(* materialises a candidate, and asks the worker to attest that the frozen *)
(* fences of all the sources hold at one moment; it installs the candidate *)
(* only with the worker's receipt (crates/lvu-view/src/union_worker.rs).   *)
(* The worker keeps one receipt slot per union, verifies a new candidate   *)
(* under the publication guards of its sources, and replays the verdict to *)
(* whoever repeats the request (crates/lvu-shared/src/union_commit.rs,     *)
(* mediated_union_commit in worker.rs).  A lost or late answer is          *)
(* recovered by status polls and replays of the same request               *)
(* (recover_union_commit in crates/lvu-app/src/shared_capture.rs).         *)
(*                                                                         *)
(* A source's fence, its generation and high watermark, is a counter that  *)
(* every append moves; the sources are each one capture, whose handle the  *)
(* commit locks.  What the window alone owns of a candidate (definitions,  *)
(* filtered memberships, source sets, sessions) is one revision per        *)
(* window.  A window has one process for its id, so a candidate's nonce    *)
(* and digest are as good as its generation.                               *)
(***************************************************************************)
EXTENDS Naturals, Sequences, FiniteSets

CONSTANTS
    Window,
    View,           \* union views
    WindowOf,       \* the window of each
    Sources,        \* the captured sources, a sequence in the order of their ids
    Plans,          \* what users and faults do: records of the views they
                    \* submit, and of how many candidates each of these has, how
                    \* often a window's own inputs move, at which of their
                    \* revisions the inputs have another source set than the
                    \* union, how often a source's fence moves, its state is
                    \* updated, and an exchange of a window times out
    MaxWindows,     \* MAX_COMMIT_WINDOWS
    MaxReceipts     \* MAX_RECEIPTS_PER_WINDOW

Source == {Sources[k] : k \in DOMAIN Sources}
Generation == UNION {1..p.candidates : p \in Plans}
None == 0

VARIABLES
    fence,      \* the worker's progress of each source
    written,    \* what the source's writer has, and publishes next
    writing,    \* the sources whose publication waits for the write guard
    cloned,     \* the progress that update_state is about to send back, or None
    updates,    \* state updates so far
    overrun,    \* history: the sources whose progress a state update changed
                \* under a read guard of each connection's commit
    slots,      \* the receipt table: [generation, frozen, outcome, epoch]
    next_epoch,
    handler,    \* each connection's commit in verification: its epoch, or None
    guards,     \* its read guards: the progress each was taken at, or None
    inbox,      \* each connection's requests: [view, generation, kind, live]
    seen,       \* the progress each window has polled
    revision,   \* each window's own inputs
    current,    \* generation of each union view's candidate
    pending,    \* pending_remote_commit
    published,  \* what is installed: [generation, frozen, revision]
    refresh,    \* remote_refresh_pending
    failed,     \* rejected_attempt, or retry_attempt and whether its delay
                \* (retry_not_before) runs: [kind, revision, frozen]
    completed,  \* the unions whose completions the window has not taken
    inflight,   \* union_inflight of the application
    job,        \* [stage, frozen, revision, basis, ok] of each candidate's thread
    task,       \* [stage, outcome] of its transport
    lapses,     \* exchanges of each window that timed out
    plan,       \* the plan of this behaviour
    verdict     \* history: how each candidate was settled

sourceVars == <<fence, written, writing, cloned, updates>>
workerVars == <<sourceVars, slots, next_epoch, handler, guards, overrun, plan, verdict>>
appVars == <<failed, completed, inflight>>
windowVars == <<seen, revision, current, pending, published, refresh, appVars, job>>
transport == <<inbox, task, lapses>>
vars == <<workerVars, windowVars, transport>>

Unfrozen == [s \in Source |-> None]
NoJob == [stage |-> "none", frozen |-> Unfrozen, revision |-> None,
          basis |-> Unfrozen, ok |-> FALSE]
NoTask == [stage |-> "none", outcome |-> "none"]
NoSlot == [generation |-> None, frozen |-> Unfrozen, outcome |-> "none", epoch |-> None]
NoUnion == [generation |-> None, frozen |-> Unfrozen, revision |-> None]
NoFailure == [kind |-> "none", revision |-> None, frozen |-> Unfrozen]

\* Counters start at 1: None is no fence.
Init ==
    /\ fence = [s \in Source |-> 1] /\ written = fence /\ writing = {}
    /\ cloned = [s \in Source |-> None] /\ updates = 0
    /\ overrun = [w \in Window |-> {}]
    /\ slots = [v \in View |-> NoSlot] /\ next_epoch = 1
    /\ handler = [w \in Window |-> None] /\ guards = [w \in Window |-> Unfrozen]
    /\ inbox = [w \in Window |-> <<>>]
    /\ seen = [w \in Window |-> fence] /\ revision = [w \in Window |-> 1]
    /\ current = [v \in View |-> None] /\ pending = [v \in View |-> None]
    /\ published = [v \in View |-> NoUnion] /\ refresh = [v \in View |-> FALSE]
    /\ failed = [v \in View |-> NoFailure]
    /\ completed = {} /\ inflight = [v \in View |-> FALSE]
    /\ job = [v \in View |-> [g \in Generation |-> NoJob]]
    /\ task = [v \in View |-> [g \in Generation |-> NoTask]]
    /\ lapses = [w \in Window |-> 0]
    /\ verdict = [v \in View |-> [g \in Generation |-> "none"]]
    /\ plan \in Plans

-----------------------------------------------------------------------------
(* Sources *)

\* The writer has appended.  Its publication takes the write side of the
\* progress lock; from when it waits for it, the lock gives no new read guards.
Await(s) ==
    /\ written[s] <= plan.moves
    /\ s \notin writing
    /\ written' = [written EXCEPT ![s] = @ + 1]
    /\ writing' = writing \cup {s}
    /\ UNCHANGED <<fence, cloned, updates, slots, next_epoch, handler, guards,
                   overrun, plan, verdict, windowVars, transport>>

\* Mutant: the publication does not take the lock.
MoveUnguarded(s) ==
    /\ s \in writing
    /\ fence' = [fence EXCEPT ![s] = written[s]]
    /\ writing' = writing \ {s}
    /\ UNCHANGED <<written, cloned, updates, slots, next_epoch, handler, guards,
                   overrun, plan, verdict, windowVars, transport>>

\* WriterState::publish, with the write guard.
Move(s) ==
    /\ s \in writing
    /\ \A w \in Window : guards[w][s] = None
    /\ fence' = [fence EXCEPT ![s] = written[s]]
    /\ writing' = writing \ {s}
    /\ UNCHANGED <<written, cloned, updates, slots, next_epoch, handler, guards,
                   overrun, plan, verdict, windowVars, transport>>

\* update_state and update_completion_state copy the published progress ...
CloneProgress(s) ==
    /\ updates < plan.updates
    /\ cloned[s] = None
    /\ cloned' = [cloned EXCEPT ![s] = fence[s]]
    /\ updates' = updates + 1
    /\ UNCHANGED <<fence, written, writing, slots, next_epoch, handler, guards,
                   overrun, plan, verdict, windowVars, transport>>

\* ... and send the copy, without the lock, over whatever the writer has
\* published in between.
UpdateState(s) ==
    /\ cloned[s] # None
    /\ fence' = [fence EXCEPT ![s] = cloned[s]]
    /\ cloned' = [cloned EXCEPT ![s] = None]
    /\ overrun' = [w \in Window |->
         IF guards[w][s] # None /\ cloned[s] # fence[s] THEN overrun[w] \cup {s}
                                                       ELSE overrun[w]]
    /\ UNCHANGED <<written, writing, updates, slots, next_epoch, handler, guards,
                   plan, verdict, windowVars, transport>>

-----------------------------------------------------------------------------
(* The receipt table *)

Held(w) == {v \in View : WindowOf[v] = w /\ slots[v] # NoSlot}
Windows == {w \in Window : Held(w) # {}}

\* CommitTable::commit for a candidate: an answer, or "verify".
Admission(v, g, frozen) ==
    LET slot == slots[v] IN
    IF slot = NoSlot
    THEN IF \/ WindowOf[v] \notin Windows /\ Cardinality(Windows) >= MaxWindows
            \/ Cardinality(Held(WindowOf[v])) >= MaxReceipts
         THEN "refused" ELSE "verify"
    ELSE CASE g < slot.generation -> "superseded"
           [] g = slot.generation /\ frozen = slot.frozen -> slot.outcome
           [] g = slot.generation /\ frozen # slot.frozen -> "conflict"
           [] g > slot.generation -> "verify"

\* CommitTable::status.
Status(v, g) ==
    CASE slots[v] = NoSlot \/ g > slots[v].generation -> "unknown"
      [] slots[v] # NoSlot /\ g < slots[v].generation -> "superseded"
      [] slots[v] # NoSlot /\ g = slots[v].generation -> slots[v].outcome

-----------------------------------------------------------------------------
(* The worker's connections, each serving one request at a time *)

Request(w) == Head(inbox[w])
FrozenOf(r) == job[r.view][r.generation].frozen

\* A reply reaches the exchange that waits for it; a late one is drained.
\* "unknown" and "pending" keep the transport's loop going.
Reply(w, outcome) ==
    LET r == Request(w)
        then == CASE outcome = "pending" -> "status"
                  [] outcome = "unknown" -> "commit"
                  [] OTHER -> "over" IN
    /\ inbox' = [inbox EXCEPT ![w] = Tail(@)]
    /\ task' = IF r.live
               THEN [task EXCEPT ![r.view][r.generation] =
                       [stage |-> then,
                        outcome |-> IF then = "over" THEN outcome ELSE "none"]]
               ELSE task

Answer(w) ==
    LET r == Request(w)
        outcome == IF r.kind = "status"
                   THEN Status(r.view, r.generation)
                   ELSE Admission(r.view, r.generation, FrozenOf(r)) IN
    /\ inbox[w] # <<>> /\ handler[w] = None
    /\ outcome # "verify"
    /\ Reply(w, outcome)
    /\ UNCHANGED <<workerVars, windowVars, lapses>>

\* mediated_union_commit admits a candidate, and goes on to verify it.
Admit(w) ==
    LET r == Request(w) IN
    /\ inbox[w] # <<>> /\ handler[w] = None
    /\ r.kind = "commit"
    /\ Admission(r.view, r.generation, FrozenOf(r)) = "verify"
    /\ slots' = [slots EXCEPT ![r.view] =
         [generation |-> r.generation, frozen |-> FrozenOf(r),
          outcome |-> "pending", epoch |-> next_epoch]]
    /\ next_epoch' = next_epoch + 1
    /\ handler' = [handler EXCEPT ![w] = next_epoch]
    /\ UNCHANGED <<sourceVars, guards, overrun, plan, verdict, windowVars, transport>>

\* lock_progress: a guard keeps the progress it was taken at.  Guards are taken
\* in the order of the source ids, and all of them kept.
TakeGuard(w, s) ==
    /\ handler[w] # None
    /\ guards[w][s] = None
    /\ s \notin writing
    /\ guards' = [guards EXCEPT ![w][s] = fence[s]]
    /\ UNCHANGED <<sourceVars, slots, next_epoch, handler, overrun, plan, verdict,
                   windowVars, transport>>

\* Mutant: they are taken in the order of the request, which is each window's.
LockProgressUnsorted(w) == \E s \in Source : TakeGuard(w, s)

LockProgress(w) ==
    \E k \in DOMAIN Sources :
        /\ \A j \in 1..k - 1 : guards[w][Sources[j]] # None
        /\ TakeGuard(w, Sources[k])

\* CommitTable::settle, with every guard alive.
Outcome(w) ==
    LET r == Request(w) IN
    CASE slots[r.view].epoch # handler[w] -> "superseded"
      [] slots[r.view].outcome # "pending" -> slots[r.view].outcome
      [] slots[r.view].frozen = guards[w] -> "committed"
      [] OTHER -> "stale"

Settle(w) ==
    LET r == Request(w) IN
    /\ handler[w] # None
    /\ \A s \in Source : guards[w][s] # None
    /\ slots' = [slots EXCEPT ![r.view].outcome =
                   IF slots[r.view].epoch = handler[w] THEN Outcome(w) ELSE @]
    /\ verdict' = [verdict EXCEPT ![r.view][r.generation] =
                     IF Outcome(w) \in {"committed", "stale"} THEN Outcome(w) ELSE @]
    /\ guards' = [guards EXCEPT ![w] = Unfrozen]
    /\ overrun' = [overrun EXCEPT ![w] = {}]
    /\ handler' = [handler EXCEPT ![w] = None]
    /\ Reply(w, Outcome(w))
    /\ UNCHANGED <<sourceVars, next_epoch, plan, windowVars, lapses>>

-----------------------------------------------------------------------------
(* The transport of a candidate *)

Busy(w) == \E k \in DOMAIN inbox[w] : inbox[w][k].live

\* One exchange at a time on the window's connection.
Send(v, g) ==
    LET w == WindowOf[v] IN
    /\ task[v][g].stage \in {"commit", "status"}
    /\ ~Busy(w)
    /\ inbox' = [inbox EXCEPT ![w] = Append(@,
         [view |-> v, generation |-> g, kind |-> task[v][g].stage, live |-> TRUE])]
    /\ task' = [task EXCEPT ![v][g].stage = "waiting"]
    /\ UNCHANGED <<workerVars, windowVars, lapses>>

\* The attempt's bound passes: its answer will be drained, and a status poll
\* finds out.
AttemptTimeout(w) ==
    /\ lapses[w] < plan.timeouts
    /\ Busy(w)
    /\ LET k == CHOOSE j \in DOMAIN inbox[w] : inbox[w][j].live
           r == inbox[w][k] IN
        /\ inbox' = [inbox EXCEPT ![w][k].live = FALSE]
        /\ task' = [task EXCEPT ![r.view][r.generation].stage = "status"]
    /\ lapses' = [lapses EXCEPT ![w] = @ + 1]
    /\ UNCHANGED <<workerVars, windowVars>>

\* The submission's deadline passes between two exchanges.
Deadline(v, g) ==
    /\ task[v][g].stage \in {"commit", "status"}
    /\ lapses[WindowOf[v]] = plan.timeouts
    /\ task' = [task EXCEPT ![v][g] = [stage |-> "over", outcome |-> "failed"]]
    /\ UNCHANGED <<workerVars, windowVars, inbox, lapses>>

-----------------------------------------------------------------------------
(* The window *)

\* A feed reports progress; the window's own inputs change.
Poll(w, s) ==
    /\ seen[w][s] # fence[s]
    /\ seen' = [seen EXCEPT ![w][s] = fence[s]]
    /\ UNCHANGED <<workerVars, transport, revision, current, pending,
                   published, refresh, appVars, job>>

Redefine(w) ==
    /\ revision[w] <= plan.revisions
    /\ revision' = [revision EXCEPT ![w] = @ + 1]
    /\ UNCHANGED <<workerVars, transport, seen, current, pending, published,
                   refresh, appVars, job>>

\* The dependency state of a candidate as it would be submitted now
\* (dependency_attempt).
Dependencies(w) == [revision |-> revision[w], frozen |-> seen[w]]
AttemptOf(failure) == [revision |-> failure.revision, frozen |-> failure.frozen]

\* submit_union_candidate: the older candidate is cancelled and replaced, and
\* the retry of another dependency state forgotten.
Submit(v) ==
    LET w == WindowOf[v] IN
    /\ v \in plan.views
    /\ current[v] < plan.candidates
    /\ current' = [current EXCEPT ![v] = @ + 1]
    /\ pending' = [pending EXCEPT ![v] = None]
    /\ refresh' = [refresh EXCEPT ![v] = FALSE]
    /\ failed' = [failed EXCEPT ![v] =
         IF @.kind \in {"delayed", "retry"} /\ AttemptOf(@) # Dependencies(w)
         THEN NoFailure ELSE @]
    /\ inflight' = [inflight EXCEPT ![v] = TRUE]
    /\ job' = [job EXCEPT ![v][current'[v]] =
         [NoJob EXCEPT !.stage = "freezing", !.revision = revision[w], !.basis = seen[w]]]
    /\ UNCHANGED <<workerVars, transport, seen, revision, published, completed>>

\* union_needs_refresh, of a union that has been published or whose failure is
\* kept: a terminal failure stays quiet, and a retry waits for its delay, for as
\* long as the dependencies are the ones that failed.
NeedsRefresh(v) ==
    LET w == WindowOf[v] IN
    /\ published[v] = NoUnion => failed[v].kind # "none"
    /\ \/ refresh[v]
       \/ published[v] = NoUnion
       \/ published[v].revision # revision[w]
       \/ published[v].frozen # seen[w]
    /\ failed[v].kind \in {"rejected", "delayed"} => AttemptOf(failed[v]) # Dependencies(w)

\* retry_not_before passes.
RetryDelayEnds(v) ==
    /\ failed[v].kind = "delayed"
    /\ failed' = [failed EXCEPT ![v].kind = "retry"]
    /\ UNCHANGED <<workerVars, transport, seen, revision, current, pending,
                   published, refresh, completed, inflight, job>>

\* handle_union submits again when nothing is in flight.
Refresh(v) == current[v] # None /\ ~inflight[v] /\ NeedsRefresh(v) /\ Submit(v)

\* A user submits a union's first candidate, and another definition of it.
UserSubmit(v) == (current[v] = None \/ inflight[v]) /\ Submit(v)

Advance(v, g, stage) == job' = [job EXCEPT ![v][g].stage = stage]
End(v, g, ok) == job' = [job EXCEPT ![v][g].stage = "ended", ![v][g].ok = ok]

Superseded(v, g) == current[v] # g

\* SOURCE_SET_MOVED: the union is registered over other sources than its inputs.
SourceSetMoved(v, g) == job[v][g].revision \in plan.splits

\* freeze_input, for one input at a time, at the progress the window has.
Freeze(v, g) ==
    /\ job[v][g].stage = "freezing"
    /\ ~Superseded(v, g)
    /\ \E k \in DOMAIN Sources :
        /\ \A j \in 1..k - 1 : job[v][g].frozen[Sources[j]] # None
        /\ job[v][g].frozen[Sources[k]] = None
        /\ job' = [job EXCEPT ![v][g].frozen[Sources[k]] = seen[WindowOf[v]][Sources[k]]]
    /\ UNCHANGED <<workerVars, transport, seen, revision, current, pending,
                   published, refresh, appVars>>

\* verify_remote_window_fences, under the window's lock.
WindowFencesHold(v, g) ==
    ~Superseded(v, g) /\ job[v][g].revision = revision[WindowOf[v]]

\* publish_union and publish_remote_union up to the submission.
Register(v, g) ==
    /\ job[v][g].stage = "freezing"
    /\ \A s \in Source : job[v][g].frozen[s] # None
    /\ ~SourceSetMoved(v, g)
    /\ WindowFencesHold(v, g)
    /\ pending' = [pending EXCEPT ![v] = g]
    /\ task' = [task EXCEPT ![v][g].stage = "commit"]
    /\ Advance(v, g, "waiting")
    /\ UNCHANGED <<workerVars, inbox, lapses, seen, revision, current,
                   published, refresh, appVars>>

\* Mutant: the answer is taken for a receipt, whatever it says.
InstallAnything(v, g) ==
    /\ job[v][g].stage = "waiting"
    /\ task[v][g].stage = "over"
    /\ WindowFencesHold(v, g)
    /\ pending[v] = g
    /\ published' = [published EXCEPT ![v] =
         [generation |-> g, frozen |-> job[v][g].frozen, revision |-> job[v][g].revision]]
    /\ pending' = [pending EXCEPT ![v] = None]
    /\ refresh' = [refresh EXCEPT ![v] = FALSE]
    /\ failed' = [failed EXCEPT ![v] = NoFailure]
    /\ Advance(v, g, "installed")
    /\ UNCHANGED <<workerVars, transport, seen, revision, current, completed,
                   inflight>>

\* Mutant: a receipt is enough, though the candidate has been replaced.
InstallLate(v, g) ==
    /\ job[v][g].stage = "waiting"
    /\ task[v][g].outcome = "committed"
    /\ published' = [published EXCEPT ![v] =
         [generation |-> g, frozen |-> job[v][g].frozen, revision |-> job[v][g].revision]]
    /\ pending' = [pending EXCEPT ![v] = None]
    /\ refresh' = [refresh EXCEPT ![v] = FALSE]
    /\ failed' = [failed EXCEPT ![v] = NoFailure]
    /\ Advance(v, g, "installed")
    /\ UNCHANGED <<workerVars, transport, seen, revision, current, completed,
                   inflight>>

\* The receipt binds this candidate, the fences still hold, and the union is
\* installed; progress that the window has seen by now asks for a refresh.
Install(v, g) ==
    /\ job[v][g].stage = "waiting"
    /\ task[v][g].outcome = "committed"
    /\ WindowFencesHold(v, g)
    /\ pending[v] = g
    /\ published' = [published EXCEPT ![v] =
         [generation |-> g, frozen |-> job[v][g].frozen, revision |-> job[v][g].revision]]
    /\ pending' = [pending EXCEPT ![v] = None]
    /\ refresh' = [refresh EXCEPT ![v] = seen[WindowOf[v]] # job[v][g].frozen]
    /\ failed' = [failed EXCEPT ![v] = NoFailure]
    /\ Advance(v, g, "installed")
    /\ UNCHANGED <<workerVars, transport, seen, revision, current, completed,
                   inflight>>

\* The second look, under a lock of its own.
Mark(v, g) ==
    /\ job[v][g].stage = "installed"
    /\ refresh' = [refresh EXCEPT ![v] =
         @ \/ /\ seen[WindowOf[v]] # job[v][g].frozen
              /\ published[v].generation = g]
    /\ End(v, g, TRUE)
    /\ UNCHANGED <<workerVars, transport, seen, revision, current, pending,
                   published, appVars>>

\* Every way in which run_union_job gives up: cancelled, a source set that the
\* union is not registered over, a fence that does not hold, another outcome
\* than Committed, no outcome in time.
Fail(v, g) ==
    /\ \/ /\ job[v][g].stage \in {"freezing", "waiting"}
          /\ Superseded(v, g)
       \/ /\ job[v][g].stage = "freezing"
          /\ \A s \in Source : job[v][g].frozen[s] # None
          /\ SourceSetMoved(v, g) \/ ~WindowFencesHold(v, g)
       \/ /\ job[v][g].stage = "waiting"
          /\ task[v][g].stage = "over"
          /\ \/ task[v][g].outcome # "committed"
             \/ ~WindowFencesHold(v, g)
             \/ pending[v] # g
    /\ End(v, g, FALSE)
    /\ UNCHANGED <<workerVars, transport, seen, revision, current, pending,
                   published, refresh, appVars>>

\* What the union keeps of a failure: one that the same dependencies cannot
\* mend is terminal, any other is retried after a delay.
Failure(v, g, kind) ==
    [kind |-> kind, revision |-> job[v][g].revision, frozen |-> job[v][g].basis]

\* union_job_loop reports the candidate that is current, and only that one.
Report(v, g) ==
    /\ job[v][g].stage = "ended"
    /\ Advance(v, g, "done")
    /\ IF Superseded(v, g)
       THEN UNCHANGED <<pending, failed, completed>>
       ELSE /\ pending' = [pending EXCEPT ![v] = None]
            /\ failed' = IF job[v][g].ok THEN failed
                         ELSE [failed EXCEPT ![v] = Failure(v, g,
                                 IF SourceSetMoved(v, g) THEN "rejected" ELSE "delayed")]
            /\ completed' = completed \cup {v}
    /\ UNCHANGED <<workerVars, transport, seen, revision, current, published,
                   refresh, inflight>>

\* handle_union takes the completions, and forgets what is in flight of their
\* unions, a newer candidate too if one was submitted since.
TakeCompletions(w) ==
    /\ \E v \in completed : WindowOf[v] = w
    /\ completed' = {v \in completed : WindowOf[v] # w}
    /\ inflight' = [v \in View |-> inflight[v] /\ v \notin completed \ completed']
    /\ UNCHANGED <<workerVars, transport, seen, revision, current, pending,
                   published, refresh, failed, job>>

-----------------------------------------------------------------------------

SourceStep ==
    \E s \in Source : Await(s) \/ Move(s) \/ CloneProgress(s) \/ UpdateState(s)
HandlerStep(w) == Answer(w) \/ Admit(w) \/ LockProgress(w) \/ Settle(w)
TransportStep(v, g) == Send(v, g) \/ Deadline(v, g)
JobStep(v, g) ==
    Freeze(v, g) \/ Register(v, g) \/ Install(v, g) \/ Mark(v, g) \/ Fail(v, g)
        \/ Report(v, g)
Active == {WindowOf[v] : v \in plan.views}
Feed == \E w \in Active, s \in Source : Poll(w, s)

Next ==
    \/ SourceStep \/ Feed
    \/ \E w \in Active :
        HandlerStep(w) \/ AttemptTimeout(w) \/ Redefine(w) \/ TakeCompletions(w)
    \/ \E v \in View : UserSubmit(v) \/ Refresh(v) \/ RetryDelayEnds(v)
        \/ \E g \in Generation : TransportStep(v, g) \/ JobStep(v, g)

Spec == Init /\ [][Next]_vars

\* Connections, transports, candidates' threads, feeds and the application's
\* loop run while any of them can: they are threads and tasks of their own, and
\* more than that is not needed, since none of them goes round for ever.  A
\* publication that waits for its lock gets it once nobody holds it, a copy that
\* was made is sent, and a delay passes.  Nothing is assumed of sources and users.
SystemStep ==
    \/ \E s \in Source : Move(s) \/ UpdateState(s)
    \/ Feed
    \/ \E w \in Active : HandlerStep(w) \/ TakeCompletions(w)
    \/ \E v \in View : Refresh(v) \/ RetryDelayEnds(v)
        \/ \E g \in Generation : TransportStep(v, g) \/ JobStep(v, g)

Fairness == WF_vars(SystemStep)

FairSpec == Spec /\ Fairness

-----------------------------------------------------------------------------
(* Properties *)

\* "The attested set coexisted under the guards" (mediated_union_commit): when
\* a candidate is committed, the fences of all its sources are the frozen ones,
\* at once.
Committing(v, g) == verdict[v][g] # "committed" /\ verdict'[v][g] = "committed"

AttestsOneMoment ==
    [][\A v \in View, g \in Generation :
        Committing(v, g) => job[v][g].frozen = fence]_vars

\* They are so but for the sources whose state was updated under the commit's
\* own guard, over a progress that the writer had published: nothing else moves
\* a fence that a commit has sampled before it settles.
AttestsPublications ==
    [][\A v \in View, g \in Generation : Committing(v, g) =>
        \A s \in Source \ overrun[WindowOf[v]] : job[v][g].frozen[s] = fence[s]]_vars

\* A union never goes back to an older candidate, however late the answers to
\* the candidates that were replaced arrive (install_union_locked).
NeverGoesBack ==
    [][\A v \in View : published'[v].generation >= published[v].generation]_vars

\* What is installed was committed, under these very fences.
InstalledIsAttested ==
    \A v \in View : published[v] # NoUnion =>
        /\ verdict[v][published[v].generation] = "committed"
        /\ published[v].frozen = job[v][published[v].generation].frozen

\* Once the sources and the definitions rest, a union shows all of them, or
\* failed over these very dependencies in a way that only another definition
\* mends, or its last candidate has been settled: no two commits, publications
\* and late answers wait for each other for ever, and no other failure is kept.
UpToDate(v) ==
    /\ published[v].frozen = fence
    /\ published[v].revision = revision[WindowOf[v]]
Rejected(v) ==
    /\ revision[WindowOf[v]] \in plan.splits
    /\ failed[v] = [kind |-> "rejected", revision |-> revision[WindowOf[v]], frozen |-> fence]
UsedUp(v) ==
    /\ current[v] = plan.candidates
    /\ job[v][plan.candidates].stage = "done"

CatchesUp ==
    []<>(\A v \in View : current[v] = None \/ UpToDate(v) \/ Rejected(v) \/ UsedUp(v))
=============================================================================
