--------------------------- MODULE WorkspaceSaves ---------------------------
(***************************************************************************)
(* How windows keep the views of a source in the workspace store of the    *)
(* shared worker.  A window's controller loads the source's views once,    *)
(* restores what the user has not touched in the meantime, and from then   *)
(* on saves a view whenever its state differs from the one it knows to be  *)
(* durable (handle_memory_event, queue_memory_saves and flush_memory in    *)
(* crates/lvu-app/src/main.rs).  A thread of the window carries its        *)
(* commands out one by one (shared_worker in memory.rs); each save carries *)
(* the version it replaces (SaveBases), which the worker's store compares  *)
(* with the row's (mediated_save, save_sources_and_views).                 *)
(*                                                                         *)
(* A view's state is one value.  Bookmarks, which every save replaces for  *)
(* the whole source, recipes, and views that wait for other sources are    *)
(* left out, and so is the save of a command's result: while it waits, its *)
(* view is not saved, and here it is cancelled in the end.                 *)
(***************************************************************************)
EXTENDS Naturals, Sequences, FiniteSets, SequencesExt

CONSTANTS
    Window,
    Canonical,  \* the source's own view, which every window shows
    ForkOf,     \* the view that each window may derive
    Value,      \* states of a view
    Plans,      \* how often each window's user edits, forks and leaves, a command
                \* has a result to save, and an exchange times out: records
                \* [edit, fork, quit, publish, lapse]
    Capacity,   \* QUEUE_CAPACITY
    Nothing

Forks == {ForkOf[w] : w \in DOMAIN ForkOf}
View == {Canonical} \cup Forks
Default == CHOOSE x \in Value : TRUE

\* A row of working_views, and the views that a load returns.
Row == [version : Nat, value : Value]
Loads == UNION {[shown -> Row] : shown \in SUBSET View}

\* Command and Event (memory.rs), of the kinds that are modelled.
Request ==
    [kind : {"load"}, view : {Canonical}, value : {Nothing}]
        \cup [kind : {"save", "create"}, view : View, value : Value]
        \cup [kind : {"flush"}, view : {Nothing}, value : {Nothing}]
Notice ==
    [kind : {"loaded"}, view : {Canonical}, value : Loads]
        \cup [kind : {"load_failed"}, view : {Canonical}, value : {Nothing}]
        \cup [kind : {"saved", "save_failed", "created", "create_failed"},
              view : View, value : Value]
Answer == {"ok", "degraded", "failed"}

ASSUME SavesAssumption ==
    /\ Value # {} /\ IsFiniteSet(View)
    /\ DOMAIN ForkOf = Window
    /\ Nothing \notin View \cup Value \cup Row \cup Notice \cup Answer

VARIABLES
    rows,       \* working_views: [version, value] of each view, or Nothing
    available,  \* the store could be opened
    late,       \* requests whose window has given up on them
    phase,      \* each window: "off", "open", "quitting", "flushing",
                \* "looking" (for the flush's answer), "closed"
    views,      \* the views each window shows
    value,      \* their states
    touched,    \* the user acted on the view since its load was requested
    ready,      \* memory_ready
    restoring,  \* memory_restoring: the views whose restored constraints are being
                \* queried, and that nobody has touched since
    publishing, \* the view whose command result waits to be saved, or Nothing
    forking,    \* the window's fork waits to be stored
    pending,    \* memory_pending
    inflight,   \* memory_inflight
    last,       \* memory_last
    refused,    \* memory_failed
    commands,   \* the thread's command queue
    outbox,     \* the event it is about to send, or Nothing
    events,     \* its event queue
    failed,     \* the views whose last save failed, for the thread
    bases,      \* SaveBases
    retired,    \* the connection is given up
    answer,     \* the answer to the flush, or Nothing
    exit,       \* how the window left: "none", "clean", "failed"
    plan,       \* what is left of the plan
    acted,      \* history: the user of a window has done something
    adopted,    \* history: the version of the row that a window's state builds on
    wrote       \* history: the row that a window committed last

storeVars == <<rows, available, late>>
skipVars == <<restoring, publishing>>
controllerVars == <<views, value, touched, ready, skipVars, forking, pending,
                    inflight, last, refused>>
threadVars == <<outbox, failed, bases, retired>>
vars == <<storeVars, controllerVars, threadVars, phase, commands, events, answer,
          exit, plan, acted, adopted, wrote>>

ByView(x) == [w \in Window |-> [v \in View |-> x]]
ByWindow(x) == [w \in Window |-> x]

\* The store is empty, or has what an earlier session left in the canonical
\* view, which its load created and its autosave replaced.
Init ==
    /\ \E row \in {Nothing} \cup [version : {1}, value : Value] :
        rows = [v \in View |-> IF v = Canonical THEN row ELSE Nothing]
    /\ available \in BOOLEAN /\ late = {}
    /\ phase = ByWindow("off") /\ views = ByWindow({})
    /\ value = ByView(Default) /\ touched = ByWindow(FALSE)
    /\ ready = ByWindow(FALSE) /\ forking = ByWindow(FALSE)
    /\ restoring = ByWindow({}) /\ publishing = ByWindow(Nothing)
    /\ pending = ByView(Nothing) /\ inflight = ByView(Nothing)
    /\ last = ByView(Nothing) /\ refused = ByView(Nothing)
    /\ commands = ByWindow(<<>>) /\ outbox = ByWindow(Nothing)
    /\ events = ByWindow(<<>>) /\ failed = ByWindow({})
    /\ bases = ByView(Nothing) /\ retired = ByWindow(FALSE)
    /\ answer = ByWindow(Nothing) /\ exit = ByWindow("none")
    /\ plan \in Plans /\ acted = ByWindow(FALSE)
    /\ adopted = ByView(Nothing) /\ wrote = ByView(Nothing)

Spend(w, what) ==
    /\ plan[w][what] > 0
    /\ plan' = [plan EXCEPT ![w][what] = @ - 1]

Command(kind, v, x) == [kind |-> kind, view |-> v, value |-> x]
Event(kind, v, x) == [kind |-> kind, view |-> v, value |-> x]

-----------------------------------------------------------------------------
(* The window's controller *)

\* The source is opened: its view is shown, and request_restore asks for it.
OpenWindow(w) ==
    /\ phase[w] = "off" /\ w \in DOMAIN plan
    /\ phase' = [phase EXCEPT ![w] = "open"]
    /\ views' = [views EXCEPT ![w] = {Canonical}]
    /\ commands' = [commands EXCEPT ![w] = Append(@, Command("load", Canonical, Nothing))]
    /\ UNCHANGED <<storeVars, threadVars, value, touched, ready, skipVars, forking,
                   pending, inflight, last, refused, events, answer, exit, plan, acted,
                   adopted, wrote>>

Edit(w, v, x) ==
    /\ phase[w] = "open" /\ Spend(w, "edit")
    /\ v \in views[w] /\ value[w][v] # x
    /\ value' = [value EXCEPT ![w][v] = x]
    /\ touched' = [touched EXCEPT ![w] = @ \/ v = Canonical]
    /\ restoring' = [restoring EXCEPT ![w] = @ \ {v}]
    /\ acted' = [acted EXCEPT ![w] = TRUE]
    /\ UNCHANGED <<storeVars, threadVars, phase, commands, events, answer, exit,
                   adopted, wrote, views, ready, publishing, forking, pending,
                   inflight, last, refused>>

\* A filter becomes a view of its own, which is stored before it is shown.
Fork(w, x) ==
    /\ phase[w] = "open" /\ Spend(w, "fork")
    /\ ForkOf[w] \notin views[w] /\ ~forking[w]
    /\ Len(commands[w]) < Capacity
    /\ forking' = [forking EXCEPT ![w] = TRUE]
    /\ commands' = [commands EXCEPT ![w] = Append(@, Command("create", ForkOf[w], x))]
    /\ acted' = [acted EXCEPT ![w] = TRUE]
    /\ UNCHANGED <<storeVars, threadVars, phase, events, answer, exit,
                   adopted, wrote, views, value, touched, ready, skipVars, pending,
                   inflight, last, refused>>

\* A command's result waits to be saved with its view (Persistence in
\* command_controller.rs), until it is stale or cancelled (fail_persistence).
Publish(w, v) ==
    /\ phase[w] = "open" /\ Spend(w, "publish")
    /\ v \in views[w] /\ publishing[w] = Nothing
    /\ publishing' = [publishing EXCEPT ![w] = v]
    /\ UNCHANGED <<storeVars, threadVars, phase, commands, events, answer, exit,
                   acted, adopted, wrote, views, value, touched, ready, restoring,
                   forking, pending, inflight, last, refused>>

FailPersistence(w) ==
    /\ phase[w] = "open" /\ publishing[w] # Nothing
    /\ publishing' = [publishing EXCEPT ![w] = Nothing]
    /\ UNCHANGED <<storeVars, threadVars, phase, commands, events, answer, exit, plan,
                   acted, adopted, wrote, views, value, touched, ready, restoring,
                   forking, pending, inflight, last, refused>>

\* The queries of a restored view are answered, which the window's loop sees.
RestoreEnds(w, v) ==
    /\ phase[w] = "open" /\ v \in restoring[w]
    /\ restoring' = [restoring EXCEPT ![w] = @ \ {v}]
    /\ UNCHANGED <<storeVars, threadVars, phase, commands, events, answer, exit, plan,
                   acted, adopted, wrote, views, value, touched, ready, publishing,
                   forking, pending, inflight, last, refused>>

\* reconcile_pending_state: the state is durable, under way, or has failed.
Tracked(w, v) ==
    value[w][v] \in {last[w][v], pending[w][v], inflight[w][v], refused[w][v]}

\* The views that a pass looks at: of a loaded source, and not waiting for a
\* command's result or for the queries of their restored state.
LooksAt(w, v) ==
    v \in views[w] /\ ready[w] /\ v \notin restoring[w] /\ v # publishing[w]

\* What is pending once a pass has looked at them.
Pending(w) ==
    [v \in View |->
        CASE ~LooksAt(w, v) -> pending[w][v]
          [] LooksAt(w, v) /\ Tracked(w, v) ->
                IF pending[w][v] = value[w][v] THEN value[w][v] ELSE Nothing
          [] LooksAt(w, v) /\ ~Tracked(w, v) -> value[w][v]]

Due(w) == {v \in View : Pending(w)[v] # Nothing /\ inflight[w][v] = Nothing}

\* Mutant: a view that the queue has no room for is marked as under way.
QueueSavesMarksAll(w, force) ==
    \E due \in IF force THEN {Due(w)} ELSE SUBSET Due(w) :
    \E sent \in SUBSET due :
    \E order \in SetToSeqs(sent) :
        /\ sent = due \/ Cardinality(sent) = Capacity - Len(commands[w])
        /\ Cardinality(sent) <= Capacity - Len(commands[w])
        /\ commands' = [commands EXCEPT ![w] = @ \o
             [k \in DOMAIN order |-> Command("save", order[k], Pending(w)[order[k]])]]
        /\ inflight' = [inflight EXCEPT ![w] =
             [v \in View |-> IF v \in due THEN Pending(w)[v] ELSE @[v]]]
        /\ pending' = [pending EXCEPT ![w] =
             [v \in View |-> IF v \in due THEN Nothing ELSE Pending(w)[v]]]

\* queue_memory_saves: of the views that are due (all of them when forced),
\* as many are sent as the queue takes.
QueueSaves(w, force) ==
    \E due \in IF force THEN {Due(w)} ELSE SUBSET Due(w) :
    \E sent \in SUBSET due :
    \E order \in SetToSeqs(sent) :
        /\ sent = due \/ Cardinality(sent) = Capacity - Len(commands[w])
        /\ Cardinality(sent) <= Capacity - Len(commands[w])
        /\ commands' = [commands EXCEPT ![w] = @ \o
             [k \in DOMAIN order |-> Command("save", order[k], Pending(w)[order[k]])]]
        /\ inflight' = [inflight EXCEPT ![w] =
             [v \in View |-> IF v \in sent THEN Pending(w)[v] ELSE @[v]]]
        /\ pending' = [pending EXCEPT ![w] =
             [v \in View |-> IF v \in sent THEN Nothing ELSE Pending(w)[v]]]

Tick(w) ==
    /\ phase[w] = "open"
    /\ QueueSaves(w, FALSE)
    /\ UNCHANGED <<storeVars, threadVars, phase, events, answer, exit, plan,
                   acted, adopted, wrote, views, value, touched, ready, skipVars,
                   forking, last, refused>>

\* Restored views: those the store returned, but not a canonical view that the
\* user has touched.
Restored(w, stored) ==
    {v \in DOMAIN stored : v # Canonical \/ ~touched[w]}

\* handle_memory_event, for the next event.
Poll(w) ==
    LET e == Head(events[w])
        v == e.view IN
    /\ phase[w] \in {"open", "quitting", "flushing"}
    /\ events[w] # <<>>
    /\ events' = [events EXCEPT ![w] = Tail(@)]
    /\ CASE e.kind = "loaded" ->
            /\ views' = [views EXCEPT ![w] = @ \cup Restored(w, e.value)]
            /\ value' = [value EXCEPT ![w] = [u \in View |->
                 IF u \in Restored(w, e.value) THEN e.value[u].value ELSE @[u]]]
            /\ adopted' = [adopted EXCEPT ![w] = [u \in View |->
                 IF u \in Restored(w, e.value) THEN e.value[u].version ELSE @[u]]]
            /\ ready' = [ready EXCEPT ![w] = TRUE]
            /\ \E queried \in SUBSET Restored(w, e.value) :
                  restoring' = [restoring EXCEPT ![w] = @ \cup queried]
            /\ UNCHANGED <<forking, inflight, last, refused>>
         [] e.kind = "load_failed" ->
            /\ ready' = [ready EXCEPT ![w] = TRUE]
            /\ UNCHANGED <<views, value, adopted, restoring, forking, inflight, last,
                           refused>>
         [] e.kind = "saved" ->
            /\ inflight' = [inflight EXCEPT ![w][v] = Nothing]
            /\ last' = [last EXCEPT ![w][v] = e.value]
            /\ refused' = [refused EXCEPT ![w][v] = Nothing]
            /\ UNCHANGED <<views, value, adopted, ready, restoring, forking>>
         [] e.kind = "save_failed" ->
            /\ inflight' = [inflight EXCEPT ![w][v] = Nothing]
            /\ refused' = [refused EXCEPT ![w][v] = e.value]
            /\ UNCHANGED <<views, value, adopted, ready, restoring, forking, last>>
         [] e.kind = "created" ->
            /\ views' = [views EXCEPT ![w] = @ \cup {v}]
            /\ value' = [value EXCEPT ![w][v] = e.value]
            /\ forking' = [forking EXCEPT ![w] = FALSE]
            /\ UNCHANGED <<adopted, ready, restoring, inflight, last, refused>>
         [] e.kind = "create_failed" ->
            /\ forking' = [forking EXCEPT ![w] = FALSE]
            /\ UNCHANGED <<views, value, adopted, ready, restoring, inflight, last,
                           refused>>
    /\ UNCHANGED <<storeVars, threadVars, phase, commands, answer, exit, plan,
                   acted, wrote, touched, publishing, pending>>

-----------------------------------------------------------------------------
(* Leaving: flush_memory *)

\* flush_command_persistence has settled the command's result by then.
Quit(w) ==
    /\ phase[w] = "open" /\ Spend(w, "quit")
    /\ phase' = [phase EXCEPT ![w] = "quitting"]
    /\ publishing' = [publishing EXCEPT ![w] = Nothing]
    /\ UNCHANGED <<storeVars, threadVars, commands, events, answer, exit, acted,
                   adopted, wrote, views, value, touched, ready, restoring, forking,
                   pending, inflight, last, refused>>

\* Everything is submitted, then the flush.
SubmitFinal(w) ==
    /\ phase[w] = "quitting"
    /\ QueueSaves(w, TRUE)
    /\ UNCHANGED <<storeVars, threadVars, phase, events, answer, exit, plan,
                   acted, adopted, wrote, views, value, touched, ready, skipVars,
                   forking, last, refused>>

Quiet(w) == \A v \in View : Pending(w)[v] = Nothing
Settled(w) == Quiet(w) /\ \A v \in View : inflight[w][v] = Nothing

Flush(w) ==
    /\ phase[w] = "quitting" /\ Quiet(w)
    /\ Len(commands[w]) < Capacity
    /\ commands' = [commands EXCEPT ![w] = Append(@, Command("flush", Nothing, Nothing))]
    /\ phase' = [phase EXCEPT ![w] = "flushing"]
    /\ pending' = [pending EXCEPT ![w] = Pending(w)]
    /\ UNCHANGED <<storeVars, threadVars, events, answer, exit, plan, acted,
                   adopted, wrote, views, value, touched, ready, skipVars, forking,
                   inflight, last, refused>>

Leave(w, how) ==
    /\ phase' = [phase EXCEPT ![w] = "closed"]
    /\ exit' = [exit EXCEPT ![w] = how]

\* The events are drained, and then the answer is looked for.
Drained(w) ==
    /\ phase[w] = "flushing" /\ events[w] = <<>>
    /\ phase' = [phase EXCEPT ![w] = "looking"]
    /\ UNCHANGED <<storeVars, controllerVars, threadVars, commands, events,
                   answer, exit, plan, acted, adopted, wrote>>

Unanswered(w) ==
    /\ phase[w] = "looking" /\ answer[w] = Nothing
    /\ phase' = [phase EXCEPT ![w] = "flushing"]
    /\ UNCHANGED <<storeVars, controllerVars, threadVars, commands, events,
                   answer, exit, plan, acted, adopted, wrote>>

\* The flush is answered, whatever has been sent since the drain.
Flushed(w) ==
    /\ phase[w] = "looking"
    /\ answer[w] # Nothing
    /\ answer' = [answer EXCEPT ![w] = Nothing]
    /\ CASE answer[w] = "ok" ->
            IF Settled(w) THEN Leave(w, "clean")
            ELSE /\ phase' = [phase EXCEPT ![w] = "quitting"]
                 /\ UNCHANGED exit
         [] answer[w] = "degraded" ->
            Leave(w, IF \A v \in View : {pending[w][v], inflight[w][v]} = {Nothing}
                     THEN "clean" ELSE "failed")
         [] answer[w] = "failed" -> Leave(w, "failed")
    /\ UNCHANGED <<storeVars, controllerVars, threadVars, commands, events,
                   plan, acted, adopted, wrote>>

\* flush_memory runs out of time.
Deadline(w) ==
    /\ phase[w] \in {"quitting", "flushing", "looking"}
    /\ Spend(w, "lapse")
    /\ Leave(w, "failed")
    /\ UNCHANGED <<storeVars, controllerVars, threadVars, commands, events,
                   answer, acted, adopted, wrote>>

-----------------------------------------------------------------------------
(* The store, behind the worker *)

\* Mutant: a row is replaced whatever its version.
AcceptsAny(v, base) == base # Nothing \/ rows[v] = Nothing

\* save_sources_and_views: insert, or replace exactly the expected version.
Accepts(v, base) ==
    IF base = Nothing THEN rows[v] = Nothing
    ELSE rows[v] # Nothing /\ rows[v].version = base

NextVersion(base) == IF base = Nothing THEN 0 ELSE base + 1

Commit(w, v, base, x) ==
    /\ rows' = [rows EXCEPT ![v] = [version |-> NextVersion(base), value |-> x]]
    /\ wrote' = [wrote EXCEPT ![w][v] = rows'[v]]

\* ensure_canonical_view, and the views there are.
Ensured == IF rows[Canonical] = Nothing
           THEN [rows EXCEPT ![Canonical] = [version |-> 0, value |-> Default]]
           ELSE rows
Stored == [v \in {u \in View : Ensured[u] # Nothing} |-> Ensured[v]]

-----------------------------------------------------------------------------
(* The window's thread: shared_worker *)

Take(w) ==
    /\ commands[w] # <<>> /\ outbox[w] = Nothing
    /\ commands' = [commands EXCEPT ![w] = Tail(@)]

Tell(w, kind, v, x) == outbox' = [outbox EXCEPT ![w] = Event(kind, v, x)]

FailureOf(kind) ==
    CASE kind = "load" -> "load_failed" [] kind = "save" -> "save_failed"
      [] kind = "create" -> "create_failed"

\* Mutant: a failed save is told to the controller only.
FailsUnrecorded(w, c) ==
    /\ Tell(w, FailureOf(c.kind), c.view, c.value)
    /\ UNCHANGED <<failed, bases>>

\* A failure is kept until a save of the same view succeeds.
Fails(w, c) ==
    /\ Tell(w, FailureOf(c.kind), c.view, c.value)
    /\ failed' = [failed EXCEPT ![w] = IF c.kind = "save" THEN @ \cup {c.view} ELSE @]
    /\ UNCHANGED bases

Load(w) ==
    LET c == Head(commands[w]) IN
    /\ Take(w) /\ c.kind = "load"
    /\ available /\ ~retired[w]
    /\ rows' = Ensured
    /\ bases' = [bases EXCEPT ![w] = [v \in View |->
         IF v \in DOMAIN Stored THEN Stored[v].version ELSE @[v]]]
    /\ Tell(w, "loaded", Canonical, Stored)
    /\ UNCHANGED <<available, late, controllerVars, failed, retired, phase,
                   events, answer, exit, plan, acted, adopted, wrote>>

\* save_view and create_derived_view: the version that the worker echoes is
\* the next base, and a refusal leaves the base alone.
Store(w) ==
    LET c == Head(commands[w])
        base == IF c.kind = "create" THEN Nothing ELSE bases[w][c.view] IN
    /\ Take(w) /\ c.kind \in {"save", "create"}
    /\ available /\ ~retired[w]
    /\ IF Accepts(c.view, base)
       THEN /\ Commit(w, c.view, base, c.value)
            /\ bases' = [bases EXCEPT ![w][c.view] = NextVersion(base)]
            /\ adopted' = [adopted EXCEPT ![w][c.view] =
                 IF @ = base THEN NextVersion(base) ELSE @]
            /\ failed' = [failed EXCEPT ![w] =
                 IF c.kind = "save" THEN @ \ {c.view} ELSE @]
            /\ Tell(w, IF c.kind = "save" THEN "saved" ELSE "created", c.view, c.value)
       ELSE Fails(w, c) /\ UNCHANGED <<rows, wrote, adopted>>
    /\ UNCHANGED <<available, late, controllerVars, retired, phase, events,
                   answer, exit, plan, acted>>

\* The store is out of order, or the connection is.
Refused(w) ==
    LET c == Head(commands[w]) IN
    /\ Take(w) /\ c.kind # "flush"
    /\ ~available \/ retired[w]
    /\ Fails(w, c)
    /\ UNCHANGED <<storeVars, controllerVars, retired, phase, events, answer,
                   exit, plan, acted, adopted, wrote>>

\* No answer in time: the connection is retired, and what became of the
\* request is not known.
Lapse(w) ==
    LET c == Head(commands[w]) IN
    /\ Take(w) /\ c.kind # "flush"
    /\ available /\ ~retired[w]
    /\ Spend(w, "lapse")
    /\ retired' = [retired EXCEPT ![w] = TRUE]
    /\ late' = IF c.kind = "load" THEN late
               ELSE late \cup {[window |-> w, view |-> c.view, value |-> c.value,
                      base |-> IF c.kind = "create" THEN Nothing ELSE bases[w][c.view]]}
    /\ Fails(w, c)
    /\ UNCHANGED <<rows, available, controllerVars, phase, events, answer, exit,
                   acted, adopted, wrote>>

\* The worker gets round to it after all.
LateCommit(r) ==
    /\ r \in late
    /\ late' = late \ {r}
    /\ Accepts(r.view, r.base)
    /\ Commit(r.window, r.view, r.base, r.value)
    /\ UNCHANGED <<available, controllerVars, threadVars, phase, commands,
                   events, answer, exit, plan, acted, adopted>>

AnswerFlush(w) ==
    /\ Take(w) /\ Head(commands[w]).kind = "flush"
    /\ phase[w] \in {"flushing", "looking"}
    /\ answer' = [answer EXCEPT ![w] =
         IF failed[w] = {} THEN "ok" ELSE IF available THEN "failed" ELSE "degraded"]
    /\ UNCHANGED <<storeVars, controllerVars, threadVars, phase, events, exit,
                   plan, acted, adopted, wrote>>

\* The event queue is bounded as well, and the thread waits for room.
Send(w) ==
    /\ outbox[w] # Nothing
    /\ Len(events[w]) < Capacity
    /\ events' = [events EXCEPT ![w] = Append(@, outbox[w])]
    /\ outbox' = [outbox EXCEPT ![w] = Nothing]
    /\ UNCHANGED <<storeVars, controllerVars, failed, bases, retired, phase,
                   commands, answer, exit, plan, acted, adopted, wrote>>

-----------------------------------------------------------------------------

ThreadStep(w) ==
    Load(w) \/ Store(w) \/ Refused(w) \/ Lapse(w) \/ AnswerFlush(w) \/ Send(w)
ControllerStep(w) ==
    \/ Tick(w) \/ Poll(w) \/ FailPersistence(w) \/ SubmitFinal(w) \/ Flush(w)
    \/ Drained(w) \/ Unanswered(w) \/ Flushed(w)

Next ==
    \/ \E w \in Window :
        \/ OpenWindow(w) \/ Quit(w) \/ Deadline(w)
        \/ \E v \in View : Publish(w, v) \/ RestoreEnds(w, v)
        \/ \E v \in View, x \in Value : Edit(w, v, x)
        \/ \E x \in Value : Fork(w, x)
        \/ ThreadStep(w) \/ ControllerStep(w)
    \/ \E r \in late : LateCommit(r)

Spec == Init /\ [][Next]_vars

\* A window's loop ticks and polls, its debounce passes, its thread works, its
\* queries are answered and its commands' results settled, while any of them has
\* something to do.
WindowWorks(w) ==
    \/ ThreadStep(w) \/ Poll(w) \/ (Tick(w) /\ commands'[w] # commands[w])
    \/ FailPersistence(w) \/ \E v \in View : RestoreEnds(w, v)

Fairness == \A w \in Window : WF_vars(WindowWorks(w))

FairSpec == Spec /\ Fairness

-----------------------------------------------------------------------------
(* Properties *)

\* Whatever a commit replaces, the window that commits it had it: its state
\* builds on that version (SaveBases: otherwise "a silent lost update").  The
\* row that a load creates holds nobody's state.
Commits(w, v) == wrote'[w][v] # wrote[w][v]
Blank(v) == rows[v] = Nothing \/ (v = Canonical /\ rows[v].version = 0)
OnTop(w, v) == Blank(v) \/ adopted[w][v] = rows[v].version

NoLostUpdate == [][\A w \in Window, v \in View : Commits(w, v) => OnTop(w, v)]_vars

\* The same for a window that did restore the view, when it was loaded.
NoLostUpdateOnceRestored ==
    [][\A w \in Window, v \in View :
        Commits(w, v) /\ adopted[w][v] # Nothing => OnTop(w, v)]_vars

\* A window that reports a clean exit has committed every state it showed, but
\* for what it restored and nobody touched, if its user did anything.
SavedAll(w) ==
    \A v \in views[w] \ restoring[w] :
        wrote[w][v] # Nothing /\ wrote[w][v].value = value[w][v]

CleanExitIsSaved ==
    \A w \in Window :
        exit[w] = "clean" /\ available /\ acted[w] => SavedAll(w)

\* The same for a window that had seen its load answered.
CleanExitIsSavedOnceLoaded ==
    \A w \in Window : exit[w] = "clean" /\ available /\ ready[w] => SavedAll(w)

\* Unsaved(w, v): a state that is neither durable nor known to be refused.
\* It does not stay so: whenever the users rest, every state is saved or
\* refused in the end, however full the queues were.
Unsaved(w, v) ==
    /\ phase[w] = "open" /\ v \in views[w]
    /\ value[w][v] \notin {last[w][v], refused[w][v]}

EditsSettle == []<>(\A w \in Window, v \in View : ~Unsaved(w, v))
=============================================================================
