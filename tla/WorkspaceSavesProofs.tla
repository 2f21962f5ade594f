------------------------ MODULE WorkspaceSavesProofs ------------------------
(***************************************************************************)
(* Proofs about the saves of a source's views: a window that restored a    *)
(* view never replaces a row that its state does not build on, and a       *)
(* window that reports a clean exit, having seen its load answered, has    *)
(* committed every state it showed.  They hold for any number of windows   *)
(* and views, any queue capacity, any number of edits, forks and lost      *)
(* answers.                                                                *)
(*                                                                         *)
(* The invariant speaks of one window at a time (WindowInv), and the rows  *)
(* that other windows commit disturb it only by being there (Around): a    *)
(* window's bases are those of the rows it loaded or wrote, until a commit *)
(* moves them both (Basis); a view has one save under way, be it a         *)
(* command, an answer that is being sent or an event (Tokens); what the    *)
(* answers say is so, and once they are handled, last and refused say so   *)
(* as well (Outcomes); and the flush is behind every save (Flushing).      *)
(***************************************************************************)
EXTENDS WorkspaceSaves, SequenceTheorems, FiniteSetTheorems, TLAPS

\* The states a controller may have noted, versions, and phases.
Maybe == Value \cup {Nothing}
Version == Nat \cup {Nothing}
Phases == {"off", "open", "quitting", "flushing", "looking", "closed"}

\* The types of the variables that the arguments read.
Types ==
    /\ rows \in [View -> Row \cup {Nothing}]
    /\ late \subseteq [window : Window, view : View, value : Value, base : Version]
    /\ phase \in [Window -> Phases]
    /\ views \in [Window -> SUBSET View]
    /\ value \in [Window -> [View -> Value]]
    /\ ready \in [Window -> BOOLEAN]
    /\ restoring \in [Window -> SUBSET View]
    /\ publishing \in [Window -> View \cup {Nothing}]
    /\ pending \in [Window -> [View -> Maybe]]
    /\ inflight \in [Window -> [View -> Maybe]]
    /\ last \in [Window -> [View -> Maybe]]
    /\ refused \in [Window -> [View -> Maybe]]
    /\ commands \in [Window -> Seq(Request)]
    /\ outbox \in [Window -> Notice \cup {Nothing}]
    /\ events \in [Window -> Seq(Notice)]
    /\ failed \in [Window -> SUBSET View]
    /\ bases \in [Window -> [View -> Version]]
    /\ retired \in [Window -> BOOLEAN]
    /\ answer \in [Window -> Answer \cup {Nothing}]
    /\ exit \in [Window -> {"none", "clean", "failed"}]
    /\ adopted \in [Window -> [View -> Version]]
    /\ wrote \in [Window -> [View -> Row \cup {Nothing}]]

\* The answers to a load, and those to a save.
LoadKinds == {"loaded", "load_failed"}
SaveKinds == {"saved", "save_failed"}

\* The load is a window's first command, and its answer the first event.
Loading(w) ==
    /\ phase[w] = "off" =>
        /\ commands[w] = <<>> /\ outbox[w] = Nothing /\ events[w] = <<>>
        /\ ~ready[w] /\ \A v \in View : adopted[w][v] = Nothing
    /\ \A k \in 1..Len(commands[w]) :
        /\ commands[w][k].kind = "load" =>
            /\ k = 1 /\ outbox[w] = Nothing /\ events[w] = <<>>
            /\ ~ready[w] /\ \A v \in View : adopted[w][v] = Nothing
        /\ commands[w][k].kind = "save" => ready[w]
    /\ \A v \in View : pending[w][v] # Nothing => ready[w]
    /\ outbox[w] # Nothing /\ outbox[w].kind \in LoadKinds =>
        events[w] = <<>> /\ ~ready[w]
    /\ \A k \in 1..Len(events[w]) :
        events[w][k].kind \in LoadKinds => k = 1 /\ ~ready[w]

\* What a load returned is still what the window's bases say.
Current(w, e) ==
    e.kind = "loaded" => \A u \in DOMAIN e.value :
        rows[u] # Nothing /\ e.value[u].version = bases[w][u]

\* What a window adopted, was told by a load, or sent too late goes with its
\* bases (SaveBases); a late save counts as failed on a connection given up.
Basis(w) ==
    /\ \A v \in View : adopted[w][v] # Nothing =>
        rows[v] # Nothing /\ adopted[w][v] = bases[w][v]
    /\ outbox[w] # Nothing => Current(w, outbox[w])
    /\ \A k \in 1..Len(events[w]) : Current(w, events[w][k])
    /\ \A r \in late : r.window = w =>
        /\ retired[w]
        /\ r.base # Nothing => r.base = bases[w][r.view] /\ r.view \in failed[w]

\* A save of a view that is under way is in one place.
Saves(c, v) == c.kind = "save" /\ c.view = v
Answers(e, v) == e.kind \in SaveKinds /\ e.view = v

Tokens(w) == \A v \in View :
    /\ \A j, k \in 1..Len(commands[w]) :
        Saves(commands[w][j], v) /\ Saves(commands[w][k], v) => j = k
    /\ \A j, k \in 1..Len(events[w]) :
        Answers(events[w][j], v) /\ Answers(events[w][k], v) => j = k
    /\ \A j \in 1..Len(commands[w]), k \in 1..Len(events[w]) :
        ~(Saves(commands[w][j], v) /\ Answers(events[w][k], v))
    /\ outbox[w] # Nothing /\ Answers(outbox[w], v) =>
        /\ inflight[w][v] # Nothing
        /\ \A j \in 1..Len(commands[w]) : ~Saves(commands[w][j], v)
        /\ \A k \in 1..Len(events[w]) : ~Answers(events[w][k], v)
    /\ \A j \in 1..Len(commands[w]) : Saves(commands[w][j], v) => inflight[w][v] # Nothing
    /\ \A k \in 1..Len(events[w]) : Answers(events[w][k], v) => inflight[w][v] # Nothing

\* The last thing that the window committed for the view.
Holds(w, v, x) == wrote[w][v] # Nothing /\ wrote[w][v].value = x

\* What an answer says of a save is so.
True(w, e) ==
    /\ e.kind = "saved" => e.view \notin failed[w] /\ Holds(w, e.view, e.value)
    /\ e.kind = "save_failed" => e.view \in failed[w]

\* A success that the controller has not handled yet.
SavedPending(w, v) ==
    \/ outbox[w] # Nothing /\ outbox[w].kind = "saved" /\ outbox[w].view = v
    \/ \E k \in 1..Len(events[w]) : events[w][k].kind = "saved" /\ events[w][k].view = v

\* Every answer is true, and so is what the controller noted, unless a success
\* is on its way to it.
Outcomes(w) ==
    /\ outbox[w] # Nothing => True(w, outbox[w])
    /\ \A k \in 1..Len(events[w]) : True(w, events[w][k])
    /\ \A v \in View :
        /\ wrote[w][v] # Nothing => rows[v] # Nothing
        /\ SavedPending(w, v) \/
            /\ last[w][v] # Nothing /\ v \notin failed[w] => Holds(w, v, last[w][v])
            /\ refused[w][v] # Nothing => v \in failed[w]

\* The flush is the last command, and its answer says whether any save before it
\* failed (the failed map of shared_worker); no command's result waits by then.
Flushing(w) ==
    /\ publishing[w] # Nothing => phase[w] = "open"
    /\ \A k \in 1..Len(commands[w]) : commands[w][k].kind = "flush" =>
        k = Len(commands[w]) /\ phase[w] \in {"flushing", "looking", "closed"}
    /\ answer[w] # Nothing =>
        commands[w] = <<>> /\ phase[w] \in {"flushing", "looking", "closed"}
    /\ answer[w] = "ok" => failed[w] = {}
    /\ answer[w] = "degraded" => ~available

\* A clean exit of a window that was loaded left nothing unsaved.
Leaving(w) ==
    exit[w] = "clean" =>
        /\ phase[w] = "closed"
        /\ available /\ ready[w] => commands[w] = <<>> /\ failed[w] = {} /\ SavedAll(w)

\* The inductive invariant, for one window and for all.
WindowInv(w) ==
    Loading(w) /\ Basis(w) /\ Tokens(w) /\ Outcomes(w) /\ Flushing(w) /\ Leaving(w)

SavesInv == Types /\ \A w \in Window : WindowInv(w)

-----------------------------------------------------------------------------
(* Messages and queues *)

\* A view has a default state.
LEMMA DefaultValue == Default \in Value
  BY SavesAssumption DEF Default

\* What is known of a command from its kind.
LEMMA RequestFacts ==
  ASSUME NEW c \in Request
  PROVE  /\ c.kind \in {"load", "save", "create", "flush"}
         /\ c.kind \in {"save", "create"} => c.view \in View /\ c.value \in Value
         /\ c.kind = "load" => c.view = Canonical /\ c.value = Nothing
  BY DEF Request

\* What is known of an event from its kind.
LEMMA NoticeFacts ==
  ASSUME NEW e \in Notice
  PROVE  /\ e # Nothing /\ e.view \in View
         /\ e.kind \in {"loaded", "load_failed", "saved", "save_failed",
                        "created", "create_failed"}
         /\ e.kind \in {"saved", "save_failed", "created", "create_failed"}
                => e.value \in Value
         /\ e.kind = "loaded" =>
                /\ DOMAIN e.value \subseteq View
                /\ \A u \in DOMAIN e.value : e.value[u] \in Row
<1>1. e # Nothing /\ e.view \in View
  BY SavesAssumption DEF Notice, View
<1>2. e.kind = "loaded" => e.value \in Loads
  BY DEF Notice
<1> QED
  BY <1>1, <1>2 DEF Notice, Loads

\* The commands that the controller makes.
LEMMA MakeRequest ==
  /\ Command("load", Canonical, Nothing) \in Request
  /\ Command("flush", Nothing, Nothing) \in Request
  /\ \A v \in View, x \in Value :
        Command("save", v, x) \in Request /\ Command("create", v, x) \in Request
  BY DEF Command, Request

\* The events that the thread makes.
LEMMA MakeNotice ==
  /\ Event("load_failed", Canonical, Nothing) \in Notice
  /\ \A x \in Loads : Event("loaded", Canonical, x) \in Notice
  /\ \A v \in View, x \in Value,
        k \in {"saved", "save_failed", "created", "create_failed"} :
        Event(k, v, x) \in Notice
  BY DEF Event, Notice

\* A command that fails is answered by an event (shared_worker).
LEMMA TellsFailure ==
  ASSUME NEW c \in Request, c.kind # "flush"
  PROVE  Event(FailureOf(c.kind), c.view, c.value) \in Notice
  BY RequestFacts, MakeNotice DEF FailureOf

\* What a load returns are views with rows (ensure_canonical_view).
LEMMA StoredLoads ==
  ASSUME Types
  PROVE  Stored \in Loads /\ Ensured \in [View -> Row \cup {Nothing}]
<1>1. Ensured \in [View -> Row \cup {Nothing}]
  BY DefaultValue DEF Types, Ensured, Row
<1>2. Stored \in [{u \in View : Ensured[u] # Nothing} -> Row]
  BY <1>1 DEF Stored
<1> QED
  BY <1>1, <1>2 DEF Loads

\* What a pass sends: after the old commands, a save for each of some due views.
Queued(w, sent, order) ==
    /\ sent \subseteq Due(w) /\ sent \subseteq View
    /\ Cardinality(sent) \in Nat
    /\ order \in [1..Cardinality(sent) -> sent]
    /\ \A i, j \in 1..Cardinality(sent) : order[i] = order[j] => i = j
    /\ Len(commands'[w]) = Len(commands[w]) + Cardinality(sent)
    /\ \A k \in 1..Len(commands[w]) : commands'[w][k] = commands[w][k]
    /\ \A k \in 1..Cardinality(sent) :
         commands'[w][Len(commands[w]) + k]
           = Command("save", order[k], Pending(w)[order[k]])
    /\ \A v \in View :
         /\ inflight'[w][v] = IF v \in sent THEN Pending(w)[v] ELSE inflight[w][v]
         /\ pending'[w][v] = IF v \in sent THEN Nothing ELSE Pending(w)[v]

\* queue_memory_saves, as what it puts in the queue and what it marks as under
\* way, for some of the due views in some order.
LEMMA QueueTypes ==
  ASSUME Types, NEW w \in Window, NEW force, QueueSaves(w, force)
  PROVE  /\ commands' \in [Window -> Seq(Request)]
         /\ inflight' \in [Window -> [View -> Maybe]]
         /\ pending' \in [Window -> [View -> Maybe]]
         /\ \A b \in Window : b # w =>
                UNCHANGED <<commands[b], inflight[b], pending[b]>>
         /\ \E sent, order : Queued(w, sent, order)
<1> DEFINE Sends(some, list) ==
        /\ list \in SetToSeqs(some)
        /\ commands' = [commands EXCEPT ![w] = @ \o
             [k \in DOMAIN list |-> Command("save", list[k], Pending(w)[list[k]])]]
        /\ inflight' = [inflight EXCEPT ![w] =
             [v \in View |-> IF v \in some THEN Pending(w)[v] ELSE @[v]]]
        /\ pending' = [pending EXCEPT ![w] =
             [v \in View |-> IF v \in some THEN Nothing ELSE Pending(w)[v]]]
<1>18. PICK sent \in SUBSET Due(w) : \E list : Sends(sent, list)
  BY DEF QueueSaves
<1>19. PICK order : Sends(sent, order)
  BY <1>18
<1>1. /\ order \in SetToSeqs(sent)
      /\ commands' = [commands EXCEPT ![w] = @ \o
           [k \in DOMAIN order |-> Command("save", order[k], Pending(w)[order[k]])]]
      /\ inflight' = [inflight EXCEPT ![w] =
           [v \in View |-> IF v \in sent THEN Pending(w)[v] ELSE @[v]]]
      /\ pending' = [pending EXCEPT ![w] =
           [v \in View |-> IF v \in sent THEN Nothing ELSE Pending(w)[v]]]
  BY <1>19
<1> DEFINE n == Cardinality(sent)
           added == [k \in DOMAIN order |->
                        Command("save", order[k], Pending(w)[order[k]])]
<1>2. Pending(w) \in [View -> Maybe]
  BY DEF Types, Pending, Maybe
<1>3. sent \subseteq View /\ \A v \in sent : Pending(w)[v] \in Value
  BY <1>2, <1>18 DEF Due, Maybe
<1>4. IsFiniteSet(sent) /\ n \in Nat
  BY <1>3, SavesAssumption, FS_Subset, FS_CardinalityType
<1>5. /\ order \in [1..n -> sent]
      /\ \A i, j \in 1..n : order[i] = order[j] => i = j
  BY <1>1 DEF SetToSeqs
<1>6. added \in [1..n -> Request]
  BY <1>3, <1>5, MakeRequest
<1>7. added \in Seq(Request) /\ Len(added) = n
  BY <1>4, <1>6, IsASeq
<1>8. commands'[w] = commands[w] \o added /\ commands[w] \in Seq(Request)
  BY <1>1 DEF Types
<1>9. /\ commands'[w] \in Seq(Request)
      /\ Len(commands'[w]) = Len(commands[w]) + n
      /\ \A i \in 1..Len(commands[w]) + n : commands'[w][i] =
           IF i <= Len(commands[w]) THEN commands[w][i] ELSE added[i - Len(commands[w])]
  BY <1>7, <1>8, ConcatProperties
<1>10. Len(commands[w]) \in Nat
  BY <1>8, LenProperties
<1>11. \A k \in 1..Len(commands[w]) : commands'[w][k] = commands[w][k]
  <2> SUFFICES ASSUME NEW k \in 1..Len(commands[w])
               PROVE  commands'[w][k] = commands[w][k]
    OBVIOUS
  <2>1. k \in 1..Len(commands[w]) + n /\ k <= Len(commands[w])
    BY <1>4, <1>10
  <2> QED
    BY <2>1, <1>9
<1>12. \A k \in 1..n : commands'[w][Len(commands[w]) + k]
                         = Command("save", order[k], Pending(w)[order[k]])
  <2> SUFFICES ASSUME NEW k \in 1..n
               PROVE  commands'[w][Len(commands[w]) + k]
                        = Command("save", order[k], Pending(w)[order[k]])
    OBVIOUS
  <2>1. Len(commands[w]) + k \in 1..Len(commands[w]) + n
    BY <1>4, <1>10
  <2>2. commands'[w][Len(commands[w]) + k] = added[k]
    BY <2>1, <1>9, <1>10
  <2> QED
    BY <2>2, <1>5
<1>13. /\ inflight'[w] = [v \in View |-> IF v \in sent THEN Pending(w)[v] ELSE inflight[w][v]]
       /\ pending'[w] = [v \in View |-> IF v \in sent THEN Nothing ELSE Pending(w)[v]]
  BY <1>1 DEF Types
<1>14. \A b \in Window : b # w => UNCHANGED <<commands[b], inflight[b], pending[b]>>
  BY <1>1 DEF Types
<1>15. /\ commands' \in [Window -> Seq(Request)]
       /\ inflight' \in [Window -> [View -> Maybe]]
       /\ pending' \in [Window -> [View -> Maybe]]
  BY <1>1, <1>2, <1>9 DEF Types, Maybe
<1>16. \A v \in View :
         /\ inflight'[w][v] = IF v \in sent THEN Pending(w)[v] ELSE inflight[w][v]
         /\ pending'[w][v] = IF v \in sent THEN Nothing ELSE Pending(w)[v]
  BY <1>13
<1>17. Queued(w, sent, order)
  BY <1>3, <1>4, <1>5, <1>9, <1>11, <1>12, <1>16 DEF Queued
<1> QED
  BY <1>14, <1>15, <1>17

\* A queue that loses its first element, and one that gets another.
Popped(q, r) ==
    /\ Len(q) \in Nat /\ Len(q) > 0 /\ Len(r) = Len(q) - 1
    /\ \A k \in 1..Len(r) : k + 1 \in 1..Len(q) /\ r[k] = q[k + 1]
Pushed(q, r, x) ==
    /\ Len(q) \in Nat /\ Len(r) = Len(q) + 1
    /\ \A k \in 1..Len(q) : r[k] = q[k]
    /\ r[Len(q) + 1] = x

\* Taking from a queue, and putting in it.
LEMMA QueueFacts ==
  ASSUME NEW S, NEW q \in Seq(S)
  PROVE  /\ Len(q) \in Nat /\ (q = <<>> <=> Len(q) = 0)
         /\ \A k \in 1..Len(q) : q[k] \in S
         /\ q # <<>> => /\ Head(q) = q[1] /\ Head(q) \in S
                        /\ Tail(q) \in Seq(S) /\ Popped(q, Tail(q))
         /\ \A x \in S : Append(q, x) \in Seq(S) /\ Pushed(q, Append(q, x), x)
<1>1. /\ Len(q) \in Nat /\ (q = <<>> <=> Len(q) = 0)
      /\ \A k \in 1..Len(q) : q[k] \in S
  BY LenProperties, EmptySeq, ElementOfSeq
<1>2. ASSUME q # <<>>
      PROVE  /\ Head(q) = q[1] /\ Head(q) \in S
             /\ Tail(q) \in Seq(S) /\ Popped(q, Tail(q))
  <2>1. Head(q) = q[1]
    BY <1>2
  <2>2. /\ Head(q) \in S /\ Tail(q) \in Seq(S) /\ Len(Tail(q)) = Len(q) - 1
        /\ \A i \in 1..Len(Tail(q)) : Tail(q)[i] = q[i + 1]
    BY <1>2, HeadTailProperties
  <2> QED
    BY <1>1, <1>2, <2>1, <2>2 DEF Popped
<1>3. ASSUME NEW x \in S
      PROVE  Append(q, x) \in Seq(S) /\ Pushed(q, Append(q, x), x)
  BY <1>1, AppendProperties DEF Pushed
<1> QED
  BY <1>1, <1>2, <1>3

\* What is left of the queue when a command is taken.
LEMMA TakeFacts ==
  ASSUME Types, NEW w \in Window, Take(w)
  PROVE  /\ outbox[w] = Nothing
         /\ Head(commands[w]) \in Request /\ Head(commands[w]) = commands[w][1]
         /\ commands' \in [Window -> Seq(Request)]
         /\ Popped(commands[w], commands'[w])
         /\ \A b \in Window : b # w => commands'[b] = commands[b]
<1>1. commands[w] \in Seq(Request) /\ commands[w] # <<>>
  BY DEF Types, Take
<1>2. /\ Head(commands[w]) = commands[w][1] /\ Head(commands[w]) \in Request
      /\ Tail(commands[w]) \in Seq(Request)
      /\ Popped(commands[w], Tail(commands[w]))
  BY <1>1, QueueFacts
<1> QED
  BY <1>2 DEF Take, Types

-----------------------------------------------------------------------------
(* Types *)

\* The types at the start.
LEMMA InitiallyTypes == Init => Types
<1> SUFFICES ASSUME Init PROVE Types
  OBVIOUS
<1>1. Default \in Value /\ <<>> \in Seq(Request) /\ <<>> \in Seq(Notice)
  BY DefaultValue
<1> QED
  BY <1>1 DEF Init, Types, ByView, ByWindow, Maybe, Version, Phases, Row, Answer

\* What users do keeps the types.
LEMMA UserTypes ==
  ASSUME Types, NEW w \in Window,
         \/ OpenWindow(w) \/ Quit(w) \/ Deadline(w)
         \/ \E v \in View, x \in Value : Edit(w, v, x)
         \/ \E x \in Value : Fork(w, x)
  PROVE  Types'
<1> USE DEF Types, storeVars, controllerVars, skipVars, threadVars
<1>1. CASE OpenWindow(w)
  <2>1. commands' \in [Window -> Seq(Request)]
    BY <1>1, MakeRequest, QueueFacts DEF OpenWindow
  <2> QED
    BY <1>1, <2>1 DEF OpenWindow, Phases, View
<1>2. CASE Quit(w)
  BY <1>2 DEF Quit, Phases
<1>3. CASE Deadline(w)
  BY <1>3 DEF Deadline, Leave, Phases
<1>4. ASSUME NEW v \in View, NEW x \in Value, Edit(w, v, x)
      PROVE  Types'
  BY <1>4 DEF Edit
<1>5. ASSUME NEW x \in Value, Fork(w, x)
      PROVE  Types'
  <2>1. ForkOf[w] \in View
    BY SavesAssumption DEF View, Forks
  <2>2. commands' \in [Window -> Seq(Request)]
    BY <1>5, <2>1, MakeRequest, QueueFacts DEF Fork
  <2> QED
    BY <1>5, <2>2 DEF Fork
<1> QED
  BY <1>1, <1>2, <1>3, <1>4, <1>5

\* What handle_memory_event does with an event of each kind.
Loaded(w, e) ==
    /\ e.kind = "loaded"
    /\ views' = [views EXCEPT ![w] = @ \cup Restored(w, e.value)]
    /\ value' = [value EXCEPT ![w] = [u \in View |->
         IF u \in Restored(w, e.value) THEN e.value[u].value ELSE @[u]]]
    /\ adopted' = [adopted EXCEPT ![w] = [u \in View |->
         IF u \in Restored(w, e.value) THEN e.value[u].version ELSE @[u]]]
    /\ ready' = [ready EXCEPT ![w] = TRUE]
    /\ \E queried \in SUBSET Restored(w, e.value) :
          restoring' = [restoring EXCEPT ![w] = @ \cup queried]
    /\ UNCHANGED <<forking, inflight, last, refused>>
LoadFailed(w, e) ==
    /\ e.kind = "load_failed"
    /\ ready' = [ready EXCEPT ![w] = TRUE]
    /\ UNCHANGED <<views, value, adopted, restoring, forking, inflight, last, refused>>
Saved(w, e) ==
    /\ e.kind = "saved"
    /\ inflight' = [inflight EXCEPT ![w][e.view] = Nothing]
    /\ last' = [last EXCEPT ![w][e.view] = e.value]
    /\ refused' = [refused EXCEPT ![w][e.view] = Nothing]
    /\ UNCHANGED <<views, value, adopted, ready, restoring, forking>>
SaveFailed(w, e) ==
    /\ e.kind = "save_failed"
    /\ inflight' = [inflight EXCEPT ![w][e.view] = Nothing]
    /\ refused' = [refused EXCEPT ![w][e.view] = e.value]
    /\ UNCHANGED <<views, value, adopted, ready, restoring, forking, last>>
Created(w, e) ==
    /\ e.kind = "created"
    /\ views' = [views EXCEPT ![w] = @ \cup {e.view}]
    /\ value' = [value EXCEPT ![w][e.view] = e.value]
    /\ UNCHANGED <<adopted, ready, restoring, inflight, last, refused>>
CreateFailed(w, e) ==
    /\ e.kind = "create_failed"
    /\ UNCHANGED <<views, value, adopted, ready, restoring, inflight, last, refused>>

\* handle_memory_event takes the first event, and does what its kind says.
LEMMA PollFacts ==
  ASSUME Types, NEW w \in Window, Poll(w)
  PROVE  /\ Head(events[w]) = events[w][1] /\ Head(events[w]) \in Notice
         /\ events' \in [Window -> Seq(Notice)]
         /\ Popped(events[w], events'[w])
         /\ \A b \in Window : b # w => events'[b] = events[b]
         /\ phase[w] \in {"open", "quitting", "flushing"}
         /\ UNCHANGED <<rows, available, late, outbox, failed, bases, retired, phase,
                        commands, answer, exit, wrote, publishing, pending>>
         /\ \/ Loaded(w, Head(events[w])) \/ LoadFailed(w, Head(events[w]))
            \/ Saved(w, Head(events[w])) \/ SaveFailed(w, Head(events[w]))
            \/ Created(w, Head(events[w])) \/ CreateFailed(w, Head(events[w]))
<1>1. events[w] \in Seq(Notice) /\ events[w] # <<>>
  BY DEF Types, Poll
<1>2. /\ Head(events[w]) = events[w][1] /\ Head(events[w]) \in Notice
      /\ Tail(events[w]) \in Seq(Notice) /\ Popped(events[w], Tail(events[w]))
  BY <1>1, QueueFacts
<1>3. events' = [events EXCEPT ![w] = Tail(@)]
  BY DEF Poll
<1>4. /\ events' \in [Window -> Seq(Notice)] /\ Popped(events[w], events'[w])
      /\ \A b \in Window : b # w => events'[b] = events[b]
  BY <1>2, <1>3 DEF Types
<1>5. /\ phase[w] \in {"open", "quitting", "flushing"}
      /\ UNCHANGED <<rows, available, late, outbox, failed, bases, retired, phase,
                     commands, answer, exit, wrote, publishing, pending>>
  BY DEF Poll, storeVars, threadVars
<1>6. Head(events[w]).kind \in {"loaded", "load_failed", "saved", "save_failed",
                                "created", "create_failed"}
  BY <1>2, NoticeFacts
<1>7. \/ Loaded(w, Head(events[w])) \/ LoadFailed(w, Head(events[w]))
      \/ Saved(w, Head(events[w])) \/ SaveFailed(w, Head(events[w]))
      \/ Created(w, Head(events[w])) \/ CreateFailed(w, Head(events[w]))
  BY <1>6, ZenonT(40) DEF Poll, Loaded, LoadFailed, Saved, SaveFailed, Created, CreateFailed
<1> QED
  BY <1>2, <1>4, <1>5, <1>7

\* handle_memory_event keeps the types.
LEMMA PollTypes ==
  ASSUME Types, NEW w \in Window, Poll(w)
  PROVE  Types'
<1> DEFINE e == Head(events[w])
<1>1. /\ e \in Notice /\ events' \in [Window -> Seq(Notice)]
      /\ UNCHANGED <<rows, late, outbox, failed, bases, retired, phase,
                     commands, answer, exit, wrote, publishing, pending>>
  BY PollFacts
<1>9. \/ Loaded(w, e) \/ LoadFailed(w, e) \/ Saved(w, e) \/ SaveFailed(w, e)
      \/ Created(w, e) \/ CreateFailed(w, e)
  BY PollFacts
<1> HIDE DEF e
<1>2. e.view \in View /\ (e.kind \in {"saved", "save_failed", "created"} => e.value \in Value)
  BY <1>1, NoticeFacts
<1>3. CASE Loaded(w, e)
  <2>1. /\ Restored(w, e.value) \subseteq View
        /\ \A u \in Restored(w, e.value) : e.value[u] \in Row
    BY <1>1, <1>3, NoticeFacts DEF Restored, Loaded
  <2>2. \A u \in Restored(w, e.value) :
            e.value[u].value \in Value /\ e.value[u].version \in Version
    BY <2>1 DEF Row, Version
  <2>3. value' \in [Window -> [View -> Value]] /\ adopted' \in [Window -> [View -> Version]]
    BY <1>3, <2>2 DEF Types, Loaded
  <2>4. views' \in [Window -> SUBSET View] /\ ready' \in [Window -> BOOLEAN]
    BY <1>3, <2>1 DEF Types, Loaded
  <2>5. restoring' \in [Window -> SUBSET View]
    BY <1>3, <2>1 DEF Types, Loaded
  <2> QED
    BY <1>1, <1>3, <2>3, <2>4, <2>5 DEF Types, Loaded
<1>4. CASE LoadFailed(w, e)
  BY <1>1, <1>4 DEF Types, LoadFailed
<1>5. CASE Saved(w, e)
  BY <1>1, <1>2, <1>5 DEF Types, Saved, Maybe
<1>6. CASE SaveFailed(w, e)
  BY <1>1, <1>2, <1>6 DEF Types, SaveFailed, Maybe
<1>7. CASE Created(w, e)
  BY <1>1, <1>2, <1>7 DEF Types, Created
<1>8. CASE CreateFailed(w, e)
  BY <1>1, <1>8 DEF Types, CreateFailed
<1> QED
  BY <1>9, <1>3, <1>4, <1>5, <1>6, <1>7, <1>8

\* Passes over the views and the steps of flush_memory keep the types.
LEMMA LeavingTypes ==
  ASSUME Types, NEW w \in Window,
         Tick(w) \/ SubmitFinal(w) \/ Flush(w) \/ Drained(w) \/ Unanswered(w) \/ Flushed(w)
  PROVE  Types'
<1> USE DEF Types, storeVars, controllerVars, skipVars, threadVars
<1>1. CASE Tick(w)
  BY <1>1, QueueTypes DEF Tick
<1>2. CASE SubmitFinal(w)
  BY <1>2, QueueTypes DEF SubmitFinal
<1>3. CASE Flush(w)
  <2>1. commands' \in [Window -> Seq(Request)]
    BY <1>3, MakeRequest, QueueFacts DEF Flush
  <2>2. Pending(w) \in [View -> Maybe]
    BY DEF Pending, LooksAt, Maybe
  <2> QED
    BY <1>3, <2>1, <2>2 DEF Flush, Phases
<1>4. CASE Drained(w)
  BY <1>4 DEF Drained, Phases
<1>5. CASE Unanswered(w)
  BY <1>5 DEF Unanswered, Phases
<1>6. CASE Flushed(w)
  BY <1>6, ZenonT(40) DEF Flushed, Leave, Phases, Answer
<1> QED
  BY <1>1, <1>2, <1>3, <1>4, <1>5, <1>6

\* A commit writes one row, and notes it for one window.
LEMMA CommitTypes ==
  ASSUME Types, NEW w \in Window, NEW v \in View, NEW base \in Version,
         NEW x \in Value,
         Commit(w, v, base, x)
  PROVE  /\ NextVersion(base) \in Nat
         /\ rows' \in [View -> Row \cup {Nothing}]
         /\ wrote' \in [Window -> [View -> Row \cup {Nothing}]]
         /\ rows'[v] # Nothing /\ wrote'[w][v] # Nothing /\ wrote'[w][v].value = x
         /\ \A u \in View : u # v => rows'[u] = rows[u]
         /\ \A b \in Window, u \in View :
                b # w \/ u # v => wrote'[b][u] = wrote[b][u]
<1>1. NextVersion(base) \in Nat
  BY DEF NextVersion, Version
<1>2. [version |-> NextVersion(base), value |-> x] \in Row
  BY <1>1 DEF Row
<1>3. [version |-> NextVersion(base), value |-> x] # Nothing
  BY <1>2, SavesAssumption
<1> QED
  BY <1>1, <1>2, <1>3 DEF Commit, Types

\* shared_worker keeps the types.
LEMMA ThreadTypes ==
  ASSUME Types, NEW w \in Window, ThreadStep(w)
  PROVE  Types'
<1> USE DEF Types, storeVars, controllerVars, skipVars, threadVars
<1> DEFINE c == Head(commands[w])
<1>1. CASE Load(w)
  <2>1. commands' \in [Window -> Seq(Request)]
    BY <1>1, TakeFacts DEF Load
  <2>2. Stored \in Loads /\ Ensured \in [View -> Row \cup {Nothing}]
    BY StoredLoads
  <2>3. outbox' \in [Window -> Notice \cup {Nothing}]
    BY <1>1, <2>2, MakeNotice DEF Load, Tell
  <2>4. \A v \in DOMAIN Stored : Stored[v].version \in Version
    BY <2>2 DEF Loads, Row, Version
  <2>5. bases' \in [Window -> [View -> Version]]
    BY <1>1, <2>4 DEF Load
  <2> QED
    BY <1>1, <2>1, <2>2, <2>3, <2>5 DEF Load
<1>2. CASE Store(w)
  <2>1. c \in Request /\ commands' \in [Window -> Seq(Request)]
    BY <1>2, TakeFacts DEF Store
  <2>2. c.kind \in {"save", "create"} /\ c.view \in View /\ c.value \in Value
    BY <1>2, <2>1, RequestFacts DEF Store
  <2> DEFINE base == IF c.kind = "create" THEN Nothing ELSE bases[w][c.view]
  <2>3. base \in Version
    BY <2>2 DEF Version
  <2>4. CASE Accepts(c.view, base)
    <3>1. Commit(w, c.view, base, c.value)
      BY <1>2, <2>4 DEF Store
    <3>8. outbox' = [outbox EXCEPT ![w] =
            Event(IF c.kind = "save" THEN "saved" ELSE "created", c.view, c.value)]
      BY <1>2, <2>4 DEF Store, Tell
    <3>9. Event(IF c.kind = "save" THEN "saved" ELSE "created", c.view, c.value) \in Notice
      BY <2>2, MakeNotice
    <3>2. outbox' \in [Window -> Notice \cup {Nothing}]
      BY <3>8, <3>9
    <3>3. NextVersion(base) \in Version /\ rows' \in [View -> Row \cup {Nothing}]
          /\ wrote' \in [Window -> [View -> Row \cup {Nothing}]]
      BY <2>2, <2>3, <3>1, CommitTypes DEF Version
    <3>4. bases' = [bases EXCEPT ![w][c.view] = NextVersion(base)]
          /\ adopted' = [adopted EXCEPT ![w][c.view] = IF @ = base THEN NextVersion(base) ELSE @]
          /\ failed' = [failed EXCEPT ![w] = IF c.kind = "save" THEN @ \ {c.view} ELSE @]
      BY <1>2, <2>4 DEF Store
    <3>5. UNCHANGED <<late, controllerVars, retired, phase, events, answer, exit>>
      BY <1>2 DEF Store
    <3> HIDE DEF base, c
    <3> QED
      BY <2>1, <2>2, <3>2, <3>3, <3>4, <3>5
  <2>5. CASE ~Accepts(c.view, base)
    <3>8. outbox' = [outbox EXCEPT ![w] = Event(FailureOf(c.kind), c.view, c.value)]
      BY <1>2, <2>5 DEF Store, Fails, Tell
    <3>9. Event(FailureOf(c.kind), c.view, c.value) \in Notice
      BY <2>1, <2>2, TellsFailure
    <3>1. outbox' \in [Window -> Notice \cup {Nothing}]
      BY <3>8, <3>9
    <3>2. failed' = [failed EXCEPT ![w] = IF c.kind = "save" THEN @ \cup {c.view} ELSE @]
          /\ UNCHANGED <<bases, rows, wrote, adopted>>
      BY <1>2, <2>5 DEF Store, Fails
    <3>3. UNCHANGED <<late, controllerVars, retired, phase, events, answer, exit>>
      BY <1>2 DEF Store
    <3> HIDE DEF base, c
    <3> QED
      BY <2>1, <2>2, <3>1, <3>2, <3>3
  <2> QED
    BY <2>4, <2>5
<1>3. CASE Refused(w)
  <2>1. c \in Request /\ commands' \in [Window -> Seq(Request)] /\ c.kind # "flush"
    BY <1>3, TakeFacts DEF Refused
  <2>2. c.kind = "save" => c.view \in View
    BY <2>1, RequestFacts
  <2>3. outbox' \in [Window -> Notice \cup {Nothing}]
    BY <1>3, <2>1, TellsFailure DEF Refused, Fails, Tell
  <2>4. failed' = [failed EXCEPT ![w] = IF c.kind = "save" THEN @ \cup {c.view} ELSE @]
        /\ UNCHANGED bases
    BY <1>3 DEF Refused, Fails
  <2>5. /\ UNCHANGED <<rows, available, late, retired, controllerVars, phase, events,
                        answer, exit, adopted, wrote>>
    BY <1>3 DEF Refused
  <2> HIDE DEF c
  <2> QED
    BY <2>1, <2>2, <2>3, <2>4, <2>5
<1>4. CASE Lapse(w)
  <2>1. c \in Request /\ commands' \in [Window -> Seq(Request)] /\ c.kind # "flush"
    BY <1>4, TakeFacts DEF Lapse
  <2>2. c.kind \in {"save", "create"} => c.view \in View /\ c.value \in Value
    BY <2>1, RequestFacts
  <2>3. outbox' \in [Window -> Notice \cup {Nothing}]
    BY <1>4, <2>1, TellsFailure DEF Lapse, Fails, Tell
  <2>4. late' \subseteq [window : Window, view : View, value : Value, base : Version]
    BY <1>4, <2>1, <2>2, RequestFacts DEF Lapse, Version
  <2>5. failed' = [failed EXCEPT ![w] = IF c.kind = "save" THEN @ \cup {c.view} ELSE @]
        /\ UNCHANGED bases
    BY <1>4 DEF Lapse, Fails
  <2>6. /\ UNCHANGED <<rows, available, controllerVars, phase, events,
                        answer, exit, adopted, wrote>>
        /\ retired' = [retired EXCEPT ![w] = TRUE]
    BY <1>4 DEF Lapse
  <2> HIDE DEF c
  <2> QED
    BY <2>1, <2>2, <2>3, <2>4, <2>5, <2>6
<1>5. CASE AnswerFlush(w)
  BY <1>5, TakeFacts DEF AnswerFlush, Answer
<1>6. CASE Send(w)
  <2>1. events' \in [Window -> Seq(Notice)]
    BY <1>6, QueueFacts DEF Send
  <2> QED
    BY <1>6, <2>1 DEF Send
<1> QED
  BY <1>1, <1>2, <1>3, <1>4, <1>5, <1>6 DEF ThreadStep

\* A request that comes late keeps the types.
LEMMA LateTypes ==
  ASSUME Types, NEW r \in late, LateCommit(r)
  PROVE  Types'
<1>1. r.window \in Window /\ r.view \in View /\ r.value \in Value /\ r.base \in Version
  BY DEF Types
<1>2. /\ rows' \in [View -> Row \cup {Nothing}]
      /\ wrote' \in [Window -> [View -> Row \cup {Nothing}]]
  BY <1>1, CommitTypes DEF LateCommit
<1> QED
  BY <1>1, <1>2 DEF Types, LateCommit, controllerVars, skipVars, threadVars

-----------------------------------------------------------------------------
(* What one window does leaves the others alone *)

\* Rows are only added, and late requests of the window only taken away.
Around(b) ==
    /\ \A v \in View : rows[v] # Nothing => rows'[v] # Nothing
    /\ \A r \in late' : r.window = b => r \in late
    /\ UNCHANGED available

\* A window that does nothing.
Same(b) ==
    UNCHANGED <<phase[b], views[b], value[b], ready[b],
                restoring[b], publishing[b], pending[b], inflight[b], last[b],
                refused[b], commands[b], outbox[b], events[b], failed[b],
                bases[b], retired[b], answer[b], exit[b], adopted[b], wrote[b]>>

\* A load that was current stays so while its bases do.
LEMMA CurrentKept ==
  ASSUME NEW b \in Window, NEW e \in Notice, Current(b, e), Around(b),
         UNCHANGED bases[b]
  PROVE  e.kind = "loaded" => \A u \in DOMAIN e.value :
            rows'[u] # Nothing /\ e.value[u].version = bases'[b][u]
  BY NoticeFacts DEF Current, Around

\* The bases of a window, when none of them moves.
LEMMA BasisKept ==
  ASSUME Types, NEW b \in Window, Basis(b), Around(b),
         UNCHANGED <<outbox[b], events[b], bases[b], retired[b], adopted[b]>>,
         failed[b] \subseteq failed'[b]
  PROVE  Basis(b)'
<1>1. \A v \in View : adopted'[b][v] # Nothing =>
          rows'[v] # Nothing /\ adopted'[b][v] = bases'[b][v]
  BY DEF Basis, Around
<1>2. outbox'[b] # Nothing => Current(b, outbox[b])'
  <2>1. outbox[b] # Nothing => outbox[b] \in Notice
    BY DEF Types
  <2> QED
    BY <2>1, CurrentKept DEF Basis, Current
<1>3. \A k \in 1..Len(events'[b]) : Current(b, events[b][k])'
  <2>1. \A k \in 1..Len(events[b]) : events[b][k] \in Notice
    BY QueueFacts DEF Types
  <2> QED
    BY <2>1, CurrentKept DEF Basis, Current
<1>4. \A r \in late' : r.window = b =>
          /\ retired'[b]
          /\ r.base # Nothing => r.base = bases'[b][r.view] /\ r.view \in failed'[b]
  BY DEF Basis, Around
<1> QED
  BY <1>1, <1>2, <1>3, <1>4 DEF Basis

\* A window that does nothing keeps its invariant, whatever the others commit.
LEMMA OthersKeep ==
  ASSUME Types, NEW b \in Window, WindowInv(b), Around(b), Same(b)
  PROVE  WindowInv(b)'
<1>1. Loading(b)'
  BY DEF WindowInv, Loading, Same
<1>2. Tokens(b)'
  BY DEF WindowInv, Tokens, Same
<1>3. Outcomes(b)'
  BY DEF WindowInv, Outcomes, Same, Around, True, Holds, SavedPending
<1>4. Basis(b)'
  BY BasisKept DEF WindowInv, Same
<1>5. Flushing(b)' /\ Leaving(b)'
  BY DEF WindowInv, Flushing, Leaving, SavedAll, Same, Around
<1> QED
  BY <1>1, <1>2, <1>3, <1>4, <1>5 DEF WindowInv

\* So it is enough to look at the window that acts.
LEMMA StepOfOne ==
  ASSUME Types, NEW w \in Window, \A b \in Window : WindowInv(b),
         \A b \in Window : b # w => Same(b) /\ Around(b),
         WindowInv(w)'
  PROVE  \A b \in Window : WindowInv(b)'
  BY OthersKeep

-----------------------------------------------------------------------------
(* The user, and the phases of a window *)

\* What keeps a pass from a view, while a window is open: a command's result that
\* waits to be saved, and the queries of a restored view.
LEMMA DoesWait ==
  ASSUME Types, NEW w \in Window, WindowInv(w), NEW v \in View,
         Publish(w, v) \/ FailPersistence(w) \/ RestoreEnds(w, v)
  PROVE  Types' /\ WindowInv(w)' /\ \A b \in Window : b # w => Same(b) /\ Around(b)
<1>1. /\ phase[w] = "open"
      /\ UNCHANGED <<rows, available, late, phase, views, value, ready, pending, inflight,
                     last, refused, commands, outbox, events, failed, bases, retired,
                     answer, exit, adopted, wrote>>
  BY DEF Publish, FailPersistence, RestoreEnds, storeVars, threadVars
<1> DEFINE Waits ==
        /\ restoring' \in [Window -> SUBSET View]
        /\ publishing' \in [Window -> View \cup {Nothing}]
        /\ \A b \in Window : b # w => UNCHANGED <<restoring[b], publishing[b]>>
<1>2. Waits
  <2>1. CASE Publish(w, v)
    BY <2>1 DEF Publish, Types
  <2>2. CASE FailPersistence(w)
    BY <2>2 DEF FailPersistence, Types
  <2>3. CASE RestoreEnds(w, v)
    BY <2>3 DEF RestoreEnds, Types
  <2> QED
    BY <2>1, <2>2, <2>3
<1>3. Types'
  BY <1>1, <1>2 DEF Types
<1>4. \A b \in Window : Around(b)
  BY <1>1 DEF Around
<1>5. \A b \in Window : b # w => Same(b)
  BY <1>1, <1>2 DEF Same
<1>6. Loading(w)' /\ Tokens(w)'
  BY <1>1 DEF WindowInv, Loading, Tokens
<1>7. Outcomes(w)'
  BY <1>1 DEF WindowInv, Outcomes, True, Holds, SavedPending
<1>8. Basis(w)'
  BY <1>1, <1>4, BasisKept DEF WindowInv
<1>9. Flushing(w)' /\ Leaving(w)'
  BY <1>1 DEF WindowInv, Flushing, Leaving
<1> QED
  BY <1>3, <1>4, <1>5, <1>6, <1>7, <1>8, <1>9 DEF WindowInv

\* Nothing but the phase, and the exit with it.
LEMMA PhaseKeeps ==
  ASSUME Types, NEW w \in Window, WindowInv(w), Around(w),
         UNCHANGED <<views[w], value[w], ready[w],
                     restoring[w], pending[w], inflight[w], last[w], refused[w],
                     commands[w], outbox[w], events[w], failed[w], bases[w],
                     retired[w], adopted[w], wrote[w]>>,
         UNCHANGED answer[w] \/ answer'[w] = Nothing,
         exit'[w] = "clean" => Leaving(w)',
         phase'[w] # "off", publishing'[w] = Nothing,
         phase[w] \in {"flushing", "looking"} =>
            \/ phase'[w] \in {"flushing", "looking", "closed"}
            \/ commands[w] = <<>> /\ answer'[w] = Nothing,
         phase[w] # "closed"
  PROVE  WindowInv(w)'
<1>1. Loading(w)'
  BY DEF WindowInv, Loading
<1>2. Tokens(w)'
  BY DEF WindowInv, Tokens
<1>3. Outcomes(w)'
  BY DEF WindowInv, Outcomes, Around, True, Holds, SavedPending
<1>4. Basis(w)'
  BY BasisKept DEF WindowInv
<1>5. Flushing(w)'
  <2>1. CASE commands[w] = <<>>
    BY <2>1, SavesAssumption DEF WindowInv, Flushing, Around, Answer
  <2>2. CASE commands[w] # <<>>
    BY <2>2, SavesAssumption DEF WindowInv, Flushing, Around, Answer
  <2> QED
    BY <2>1, <2>2
<1>6. Leaving(w)'
  BY DEF Leaving
<1> QED
  BY <1>1, <1>2, <1>3, <1>4, <1>5, <1>6 DEF WindowInv

\* Quitting, running out of time, and looking for the answer (flush_memory).
LEMMA DoesQuit ==
  ASSUME Types, NEW w \in Window, WindowInv(w),
         Quit(w) \/ Deadline(w) \/ Drained(w) \/ Unanswered(w)
  PROVE  WindowInv(w)' /\ \A b \in Window : b # w => Same(b) /\ Around(b)
<1> USE DEF Types, storeVars, controllerVars, skipVars, threadVars
<1>1. \A b \in Window : Around(b)
  BY DEF Around, Quit, Deadline, Drained, Unanswered
<1>2. \A b \in Window : b # w => Same(b)
  BY DEF Same, Quit, Deadline, Drained, Unanswered, Leave
<1>3. /\ UNCHANGED <<views[w], value[w], ready[w],
                     restoring[w], pending[w], inflight[w], last[w], refused[w],
                     commands[w], outbox[w], events[w], failed[w], bases[w],
                     retired[w], adopted[w], wrote[w]>>
      /\ UNCHANGED answer[w]
  BY DEF Quit, Deadline, Drained, Unanswered
<1>4. /\ phase'[w] # "off" /\ phase[w] # "closed" /\ publishing'[w] = Nothing
      /\ phase[w] \in {"flushing", "looking"} =>
            phase'[w] \in {"flushing", "looking", "closed"}
      /\ exit'[w] # "clean"
  BY DEF Quit, Deadline, Drained, Unanswered, Leave, WindowInv, Leaving, Flushing
<1> HIDE DEF Types
<1>5. WindowInv(w)'
  <2>1. exit'[w] = "clean" => Leaving(w)'
    BY <1>4
  <2>2. phase[w] \in {"flushing", "looking"} =>
            \/ phase'[w] \in {"flushing", "looking", "closed"}
            \/ commands[w] = <<>> /\ answer'[w] = Nothing
    BY <1>4
  <2>3. Around(w) /\ phase'[w] # "off" /\ phase[w] # "closed" /\ publishing'[w] = Nothing
    BY <1>1, <1>4
  <2> QED
    BY <1>3, <2>1, <2>2, <2>3, PhaseKeeps
<1> QED
  BY <1>1, <1>2, <1>5

\* An edit changes a state that is not promised to anyone.
LEMMA DoesEdit ==
  ASSUME Types, NEW w \in Window, WindowInv(w), NEW v \in View, NEW x \in Value,
         Edit(w, v, x)
  PROVE  WindowInv(w)' /\ \A b \in Window : b # w => Same(b) /\ Around(b)
<1>1. \A b \in Window : Around(b)
  BY DEF Around, Edit, storeVars
<1>2. \A b \in Window : b # w => Same(b)
  BY DEF Same, Edit, Types, storeVars, threadVars
<1>3. UNCHANGED <<phase, views, ready, publishing, pending, inflight, last, refused,
                  commands, outbox, events,
                  failed, bases, retired, answer, exit, adopted, wrote>>
  BY DEF Edit, threadVars
<1>4. phase[w] = "open"
  BY DEF Edit
<1>5. Loading(w)' /\ Tokens(w)'
  BY <1>3 DEF WindowInv, Loading, Tokens
<1>6. Outcomes(w)'
  BY <1>1, <1>3 DEF WindowInv, Outcomes, Around, True, Holds, SavedPending
<1>7. Basis(w)'
  BY <1>1, <1>3, BasisKept DEF WindowInv
<1>8. Flushing(w)' /\ Leaving(w)'
  BY <1>1, <1>3, <1>4 DEF WindowInv, Flushing, Leaving, Around
<1> QED
  BY <1>1, <1>2, <1>5, <1>6, <1>7, <1>8 DEF WindowInv

\* A command that is neither a save nor the load is put in the queue.
LEMMA PushKeeps ==
  ASSUME Types, NEW w \in Window, WindowInv(w), Around(w), NEW c,
         c.kind \in {"create", "flush"}, Pushed(commands[w], commands'[w], c),
         UNCHANGED <<views[w], value[w], ready[w], restoring[w], publishing[w],
                     inflight[w], last[w], refused[w], outbox[w], events[w],
                     failed[w], bases[w], retired[w],
                     answer[w], exit[w], adopted[w], wrote[w]>>,
         \A v \in View : pending'[w][v] # Nothing => pending[w][v] # Nothing,
         phase[w] \in {"open", "quitting"},
         c.kind = "create" => phase'[w] = phase[w],
         c.kind = "flush" => phase'[w] = "flushing" /\ phase[w] = "quitting"
  PROVE  WindowInv(w)'
<1> USE DEF Pushed
<1>1. \A k \in 1..Len(commands'[w]) :
         \/ k \in 1..Len(commands[w]) /\ commands'[w][k] = commands[w][k]
         \/ k = Len(commands[w]) + 1 /\ commands'[w][k] = c
  OBVIOUS
<1>2. Loading(w)'
  BY <1>1, SMTT(30) DEF WindowInv, Loading
<1>3. Tokens(w)'
  <2>1. \A v \in View : \A k \in 1..Len(commands'[w]) : Saves(commands'[w][k], v) =>
            k \in 1..Len(commands[w]) /\ Saves(commands[w][k], v)
    BY <1>1 DEF Saves
  <2> QED
    BY <2>1 DEF WindowInv, Tokens
<1>4. Outcomes(w)'
  BY DEF WindowInv, Outcomes, Around, True, Holds, SavedPending
<1>5. Basis(w)'
  BY BasisKept DEF WindowInv
<1>6. Flushing(w)'
  BY <1>1 DEF WindowInv, Flushing, Around
<1>7. Leaving(w)'
  BY DEF WindowInv, Leaving
<1> QED
  BY <1>2, <1>3, <1>4, <1>5, <1>6, <1>7 DEF WindowInv

\* A fork asks for a creation.
LEMMA DoesFork ==
  ASSUME Types, NEW w \in Window, WindowInv(w), NEW x \in Value, Fork(w, x)
  PROVE  WindowInv(w)' /\ \A b \in Window : b # w => Same(b) /\ Around(b)
<1>1. \A b \in Window : Around(b)
  BY DEF Around, Fork, storeVars
<1>2. \A b \in Window : b # w => Same(b)
  BY DEF Same, Fork, Types, storeVars, skipVars, threadVars
<1>3. ForkOf[w] \in View
  BY SavesAssumption DEF View, Forks
<1>4. /\ commands[w] \in Seq(Request)
      /\ commands'[w] = Append(commands[w], Command("create", ForkOf[w], x))
  BY DEF Fork, Types
<1>5. Pushed(commands[w], commands'[w], Command("create", ForkOf[w], x))
  BY <1>3, <1>4, MakeRequest, QueueFacts
<1>6. Command("create", ForkOf[w], x).kind = "create"
  BY DEF Command
<1>7. UNCHANGED <<views, value, ready,
                  restoring, publishing, pending, inflight, last, refused, outbox,
                  events, failed, bases, retired, answer, exit, adopted, wrote,
                  phase>>
      /\ phase[w] = "open"
  BY DEF Fork, skipVars, threadVars
<1> QED
  BY <1>1, <1>2, <1>5, <1>6, <1>7, PushKeeps

\* flush_memory puts the flush behind the saves.
LEMMA DoesFlush ==
  ASSUME Types, NEW w \in Window, WindowInv(w), Flush(w)
  PROVE  WindowInv(w)' /\ \A b \in Window : b # w => Same(b) /\ Around(b)
<1>1. \A b \in Window : Around(b)
  BY DEF Around, Flush, storeVars
<1>2. \A b \in Window : b # w => Same(b)
  BY DEF Same, Flush, Types, storeVars, skipVars, threadVars
<1>4. /\ commands[w] \in Seq(Request)
      /\ commands'[w] = Append(commands[w], Command("flush", Nothing, Nothing))
  BY DEF Flush, Types
<1>5. Pushed(commands[w], commands'[w], Command("flush", Nothing, Nothing))
  BY <1>4, MakeRequest, QueueFacts
<1>6. Command("flush", Nothing, Nothing).kind = "flush"
  BY DEF Command
<1>7. UNCHANGED <<views, value, ready, restoring, publishing, inflight, last, refused,
                  outbox, events, failed, bases, retired, answer, exit, adopted, wrote>>
      /\ phase[w] = "quitting" /\ phase'[w] = "flushing"
      /\ \A v \in View : pending'[w][v] = Nothing
  BY DEF Flush, Types, skipVars, threadVars, Quiet
<1> QED
  BY <1>1, <1>2, <1>5, <1>6, <1>7, PushKeeps

\* request_restore puts the load first.
LEMMA DoesOpen ==
  ASSUME Types, NEW w \in Window, WindowInv(w), OpenWindow(w)
  PROVE  WindowInv(w)' /\ \A b \in Window : b # w => Same(b) /\ Around(b)
<1>1. \A b \in Window : Around(b)
  BY DEF Around, OpenWindow, storeVars
<1>2. \A b \in Window : b # w => Same(b)
  BY DEF Same, OpenWindow, Types, storeVars, skipVars, threadVars
<1>3. phase[w] = "off" /\ phase'[w] = "open"
  BY DEF OpenWindow, Types
<1>4. commands[w] = <<>> /\ outbox[w] = Nothing /\ events[w] = <<>> /\ ~ready[w]
  BY <1>3 DEF WindowInv, Loading
<1>5. /\ commands[w] \in Seq(Request)
      /\ commands'[w] = Append(commands[w], Command("load", Canonical, Nothing))
  BY DEF OpenWindow, Types
<1>6. Pushed(commands[w], commands'[w], Command("load", Canonical, Nothing))
  BY <1>5, MakeRequest, QueueFacts
<1>7. /\ Len(commands'[w]) = 1 /\ commands'[w][1].kind = "load"
      /\ Len(events[w]) = 0
  BY <1>4, <1>6 DEF Pushed, Command
<1>8. UNCHANGED <<value, ready, restoring, publishing, pending, inflight, last,
                  refused, outbox, events, failed, bases, retired, answer, exit, adopted, wrote>>
  BY DEF OpenWindow, skipVars, threadVars
<1>9. Loading(w)'
  BY <1>3, <1>4, <1>7, <1>8 DEF WindowInv, Loading
<1>10. Tokens(w)'
  BY <1>4, <1>7, <1>8 DEF Tokens, Saves
<1>11. Outcomes(w)'
  BY <1>1, <1>8 DEF WindowInv, Outcomes, Around, True, Holds, SavedPending
<1>12. Basis(w)'
  BY <1>1, <1>8, BasisKept DEF WindowInv
<1>13. Flushing(w)' /\ Leaving(w)'
  BY <1>3, <1>7, <1>8, SavesAssumption DEF WindowInv, Flushing, Leaving, Answer
<1> QED
  BY <1>1, <1>2, <1>9, <1>10, <1>11, <1>12, <1>13 DEF WindowInv

\* flush_memory reports success when nothing is pending or under way and the
\* flush was answered "ok": then the states shown are the ones last committed.
LEMMA SettledIsSaved ==
  ASSUME Types, NEW w \in Window, WindowInv(w), answer[w] = "ok", Settled(w),
         ready[w], publishing[w] = Nothing
  PROVE  SavedAll(w)
<1>1. failed[w] = {}
  BY DEF WindowInv, Flushing
<1> SUFFICES ASSUME NEW v \in views[w], v \notin restoring[w]
             PROVE  wrote[w][v] # Nothing /\ wrote[w][v].value = value[w][v]
  BY DEF SavedAll
<1>2. v \in View /\ value[w][v] \in Value /\ value[w][v] # Nothing
  BY SavesAssumption DEF Types
<1>8. LooksAt(w, v)
  BY <1>2, SavesAssumption DEF LooksAt
<1>3. inflight[w][v] = Nothing /\ Pending(w)[v] = Nothing
  BY <1>2 DEF Settled, Quiet
<1>4. Tracked(w, v) /\ pending[w][v] # value[w][v]
  BY <1>2, <1>3, <1>8 DEF Pending
<1>5. value[w][v] \in {last[w][v], refused[w][v]}
  BY <1>2, <1>3, <1>4 DEF Tracked
<1>6. ~SavedPending(w, v)
  BY <1>2, <1>3 DEF WindowInv, Tokens, SavedPending, Answers, SaveKinds
<1>7. refused[w][v] = Nothing /\ (last[w][v] # Nothing => Holds(w, v, last[w][v]))
  BY <1>1, <1>2, <1>6 DEF WindowInv, Outcomes
<1> QED
  BY <1>2, <1>5, <1>7 DEF Holds

\* The answer to the flush is handled: leave, or go round again.
LEMMA DoesFlushed ==
  ASSUME Types, NEW w \in Window, WindowInv(w), Flushed(w)
  PROVE  WindowInv(w)' /\ \A b \in Window : b # w => Same(b) /\ Around(b)
<1>1. \A b \in Window : Around(b)
  BY DEF Around, Flushed, storeVars
<1>2. /\ phase[w] = "looking" /\ answer[w] \in Answer
      /\ answer' = [answer EXCEPT ![w] = Nothing]
      /\ UNCHANGED <<views, value, ready, restoring, publishing, pending,
                     inflight, last, refused, commands, outbox,
                     events, failed, bases, retired, adopted, wrote, available>>
  BY DEF Flushed, Types, storeVars, controllerVars, skipVars, threadVars
<1>3. \/ /\ answer[w] = "ok" /\ Settled(w) /\ Leave(w, "clean")
      \/ /\ phase' = [phase EXCEPT ![w] = "quitting"] /\ UNCHANGED exit
      \/ /\ answer[w] = "degraded"
         /\ \/ Leave(w, "clean")
            \/ Leave(w, "failed")
      \/ Leave(w, "failed")
  BY <1>2 DEF Flushed, Answer
<1>4. \A b \in Window : b # w => Same(b)
  BY <1>2, <1>3 DEF Types, Same, Leave
<1>5. commands[w] = <<>> /\ answer'[w] = Nothing
  BY <1>2, SavesAssumption DEF WindowInv, Flushing, Types
<1>6. phase'[w] \in {"closed", "quitting"}
  BY <1>3 DEF Leave, Types
<1>9. publishing[w] = Nothing /\ publishing'[w] = Nothing
  BY <1>2 DEF WindowInv, Flushing
<1>7. exit'[w] = "clean" => Leaving(w)'
  <2>1. exit[w] # "clean"
    BY <1>2 DEF WindowInv, Leaving
  <2>2. CASE answer[w] = "ok" /\ Settled(w) /\ Leave(w, "clean")
    <3>1. failed[w] = {}
      BY <2>2 DEF WindowInv, Flushing
    <3>2. ready[w] => SavedAll(w)
      BY <1>9, <2>2, SettledIsSaved
    <3>3. ready'[w] => SavedAll(w)'
      BY <1>2, <3>2 DEF SavedAll
    <3>4. phase'[w] = "closed" /\ commands'[w] = <<>> /\ failed'[w] = {}
      BY <1>2, <1>5, <2>2, <3>1 DEF Leave, Types
    <3> QED
      BY <3>3, <3>4 DEF Leaving
  <2>3. CASE answer[w] = "degraded" /\ Leave(w, "clean")
    BY <1>2, <2>3 DEF WindowInv, Flushing, Leaving, Leave, Types
  <2> QED
    BY <1>3, <2>1, <2>2, <2>3 DEF Leave, Types
<1>8. WindowInv(w)'
  <2>1. /\ UNCHANGED <<views[w], value[w], ready[w],
                       restoring[w], pending[w], inflight[w], last[w], refused[w],
                       commands[w], outbox[w], events[w], failed[w], bases[w],
                     retired[w], adopted[w], wrote[w]>>
    BY <1>2
  <2>2. UNCHANGED answer[w] \/ answer'[w] = Nothing
    BY <1>5
  <2>3. phase[w] \in {"flushing", "looking"} =>
            \/ phase'[w] \in {"flushing", "looking", "closed"}
            \/ commands[w] = <<>> /\ answer'[w] = Nothing
    BY <1>5
  <2>4. Around(w) /\ phase'[w] # "off" /\ phase[w] # "closed" /\ publishing'[w] = Nothing
    BY <1>1, <1>2, <1>6, <1>9
  <2> QED
    BY <1>7, <2>1, <2>2, <2>3, <2>4, PhaseKeeps
<1> QED
  BY <1>1, <1>4, <1>8

\* queue_memory_saves: a view that is sent had no save under way.
LEMMA DoesQueueSaves ==
  ASSUME Types, NEW w \in Window, WindowInv(w), Tick(w) \/ SubmitFinal(w)
  PROVE  WindowInv(w)' /\ \A b \in Window : b # w => Same(b) /\ Around(b)
<1>1. /\ phase[w] \in {"open", "quitting"} /\ \E force : QueueSaves(w, force)
      /\ UNCHANGED <<rows, available, late, phase, views, value, ready, restoring,
                     publishing, last, refused, outbox, events, failed, bases,
                     retired, answer, exit, adopted, wrote>>
  BY DEF Tick, SubmitFinal, storeVars, skipVars, threadVars
<1>2. PICK sent, order : Queued(w, sent, order)
  BY <1>1, QueueTypes
<1>3. \A b \in Window : b # w => UNCHANGED <<commands[b], inflight[b], pending[b]>>
  BY <1>1, QueueTypes
<1>4. \A b \in Window : Around(b)
  BY <1>1 DEF Around
<1>5. \A b \in Window : b # w => Same(b)
  BY <1>1, <1>3 DEF Same
<1> DEFINE n == Len(commands[w])
<1>6. n \in Nat /\ Cardinality(sent) \in Nat /\ sent \subseteq View
  BY <1>2, QueueFacts DEF Queued, Types
<1>7. \A k \in 1..Len(commands'[w]) :
        \/ k \in 1..n /\ commands'[w][k] = commands[w][k]
        \/ /\ k > n /\ k - n \in 1..Cardinality(sent)
           /\ commands'[w][k].kind = "save" /\ commands'[w][k].view = order[k - n]
  <2>3. /\ \A k \in 1..n : commands'[w][k] = commands[w][k]
        /\ Len(commands'[w]) \in Nat
    BY <1>2, <1>6 DEF Queued
  <2> SUFFICES ASSUME NEW k \in 1..Len(commands'[w]), k > n
               PROVE  /\ k - n \in 1..Cardinality(sent)
                      /\ commands'[w][k].kind = "save"
                      /\ commands'[w][k].view = order[k - n]
    BY <1>6, <2>3
  <2>1. k - n \in 1..Cardinality(sent) /\ n + (k - n) = k
    BY <1>2, <1>6 DEF Queued
  <2>2. commands'[w][n + (k - n)]
          = Command("save", order[k - n], Pending(w)[order[k - n]])
    BY <2>1, <1>2 DEF Queued
  <2> QED
    BY <2>1, <2>2 DEF Command
<1>8. \A v \in View : Pending(w)[v] # Nothing => ready[w]
  BY DEF Pending, LooksAt, WindowInv, Loading
<1>9. \A v \in sent : ready[w] /\ inflight[w][v] = Nothing /\ inflight'[w][v] # Nothing
  BY <1>2, <1>8 DEF Queued, Due
<1>10. Loading(w)'
  <2>1. \A v \in View : pending'[w][v] # Nothing => ready'[w]
    BY <1>1, <1>2, <1>8 DEF Queued
  <2>2. \A k \in 1..Len(commands'[w]) :
        /\ commands'[w][k].kind = "load" =>
            /\ k = 1 /\ outbox'[w] = Nothing /\ events'[w] = <<>>
            /\ ~ready'[w] /\ \A v \in View : adopted'[w][v] = Nothing
        /\ commands'[w][k].kind = "save" => ready'[w]
    <3>1. \A j \in 1..Cardinality(sent) : ready[w]
      BY <1>2, <1>9 DEF Queued
    <3> QED
      BY <1>1, <1>7, <3>1 DEF WindowInv, Loading
  <2> QED
    BY <1>1, <2>1, <2>2 DEF WindowInv, Loading
<1>11. Tokens(w)'
  <2> SUFFICES ASSUME NEW v \in View
               PROVE  /\ \A j, k \in 1..Len(commands'[w]) :
                            Saves(commands'[w][j], v) /\ Saves(commands'[w][k], v) => j = k
                      /\ \A j \in 1..Len(commands'[w]), k \in 1..Len(events[w]) :
                            ~(Saves(commands'[w][j], v) /\ Answers(events[w][k], v))
                      /\ outbox[w] # Nothing /\ Answers(outbox[w], v) =>
                            /\ inflight'[w][v] # Nothing
                            /\ \A j \in 1..Len(commands'[w]) : ~Saves(commands'[w][j], v)
                      /\ \A j \in 1..Len(commands'[w]) :
                            Saves(commands'[w][j], v) => inflight'[w][v] # Nothing
                      /\ \A k \in 1..Len(events[w]) :
                            Answers(events[w][k], v) => inflight'[w][v] # Nothing
    BY <1>1 DEF WindowInv, Tokens
  <2>1. CASE v \in sent
    <3>1. inflight[w][v] = Nothing /\ inflight'[w][v] # Nothing
      BY <1>9, <2>1
    <3>2. /\ \A j \in 1..n : ~Saves(commands[w][j], v)
          /\ \A k \in 1..Len(events[w]) : ~Answers(events[w][k], v)
          /\ ~(outbox[w] # Nothing /\ Answers(outbox[w], v))
      BY <3>1 DEF WindowInv, Tokens
    <3>3. \A k \in 1..Len(commands'[w]) : Saves(commands'[w][k], v) =>
            k > n /\ k - n \in 1..Cardinality(sent) /\ order[k - n] = v
      BY <1>7, <3>2 DEF Saves
    <3>4. \A j, k \in 1..Len(commands'[w]) :
            Saves(commands'[w][j], v) /\ Saves(commands'[w][k], v) => j = k
      <4> SUFFICES ASSUME NEW j \in 1..Len(commands'[w]),
                          NEW k \in 1..Len(commands'[w]),
                          Saves(commands'[w][j], v), Saves(commands'[w][k], v)
                   PROVE  j = k
        OBVIOUS
      <4>1. /\ j - n \in 1..Cardinality(sent) /\ k - n \in 1..Cardinality(sent)
            /\ order[j - n] = order[k - n]
        BY <3>3
      <4>2. j - n = k - n
        BY <4>1, <1>2 DEF Queued
      <4> QED
        BY <4>2, <1>6
    <3> QED
      BY <3>1, <3>2, <3>4
  <2>2. CASE v \notin sent
    <3>1. \A k \in 1..Len(commands'[w]) : Saves(commands'[w][k], v) =>
            k \in 1..n /\ Saves(commands[w][k], v)
      <4>1. order \in [1..Cardinality(sent) -> sent]
        BY <1>2 DEF Queued
      <4>2. \A k \in 1..Cardinality(sent) : order[k] # v
        BY <4>1, <2>2
      <4> QED
        BY <1>7, <4>2 DEF Saves
    <3>2. inflight'[w][v] = inflight[w][v]
      BY <1>2, <2>2 DEF Queued
    <3> QED
      BY <3>1, <3>2 DEF WindowInv, Tokens
  <2> QED
    BY <2>1, <2>2
<1>12. Outcomes(w)'
  BY <1>1 DEF WindowInv, Outcomes, True, Holds, SavedPending
<1>13. Basis(w)'
  BY <1>1, <1>4, BasisKept DEF WindowInv
<1>14. Flushing(w)'
  <2>1. \A k \in 1..Len(commands'[w]) : commands'[w][k].kind # "flush"
    BY <1>1, <1>7 DEF WindowInv, Flushing
  <2> QED
    BY <1>1, <2>1, SavesAssumption DEF WindowInv, Flushing, Answer
<1>15. Leaving(w)'
  BY <1>1 DEF WindowInv, Leaving
<1> QED
  BY <1>4, <1>5, <1>10, <1>11, <1>12, <1>13, <1>14, <1>15 DEF WindowInv

-----------------------------------------------------------------------------
(* The window's thread *)

\* What taking a command leaves of the queue.
LEMMA TakeKeeps ==
  ASSUME Types, NEW w \in Window, WindowInv(w), Take(w)
  PROVE  /\ outbox[w] = Nothing /\ Len(commands[w]) > 0 /\ commands[w] # <<>>
         /\ phase[w] # "off" /\ answer[w] = Nothing
         /\ \A k \in 1..Len(commands'[w]) :
                /\ commands'[w][k].kind # "load"
                /\ commands'[w][k].kind = "save" => ready[w]
                /\ commands'[w][k].kind = "flush" =>
                    /\ k = Len(commands'[w])
                    /\ phase[w] \in {"flushing", "looking", "closed"}
                /\ k + 1 \in 1..Len(commands[w])
                /\ commands'[w][k] = commands[w][k + 1]
<1>1. /\ outbox[w] = Nothing /\ Popped(commands[w], commands'[w])
  BY TakeFacts
<1>2. commands[w] # <<>>
  BY DEF Take
<1>3. phase[w] # "off" /\ answer[w] = Nothing
  BY <1>2 DEF WindowInv, Loading, Flushing
<1> SUFFICES ASSUME NEW k \in 1..Len(commands'[w])
             PROVE  /\ commands'[w][k].kind # "load"
                    /\ commands'[w][k].kind = "save" => ready[w]
                    /\ commands'[w][k].kind = "flush" =>
                        /\ k = Len(commands'[w])
                        /\ phase[w] \in {"flushing", "looking", "closed"}
                    /\ k + 1 \in 1..Len(commands[w])
                    /\ commands'[w][k] = commands[w][k + 1]
  BY <1>1, <1>2, <1>3 DEF Popped
<1>4. k + 1 \in 1..Len(commands[w]) /\ commands'[w][k] = commands[w][k + 1]
  BY <1>1 DEF Popped
<1>5. k + 1 # 1 /\ (k + 1 = Len(commands[w]) => k = Len(commands'[w]))
  BY <1>1, <1>4 DEF Popped
<1> QED
  BY <1>4, <1>5 DEF WindowInv, Loading, Flushing

\* The saves that are left in the queue are not those of the one taken.
LEMMA TakeTokens ==
  ASSUME Types, NEW w \in Window, WindowInv(w), Take(w), NEW v \in View
  PROVE  /\ \A j, k \in 1..Len(commands'[w]) :
                Saves(commands'[w][j], v) /\ Saves(commands'[w][k], v) => j = k
         /\ \A j \in 1..Len(commands'[w]), k \in 1..Len(events[w]) :
                ~(Saves(commands'[w][j], v) /\ Answers(events[w][k], v))
         /\ \A j \in 1..Len(commands'[w]) :
                Saves(commands'[w][j], v) => inflight[w][v] # Nothing
         /\ Saves(Head(commands[w]), v) =>
                /\ inflight[w][v] # Nothing
                /\ \A j \in 1..Len(commands'[w]) : ~Saves(commands'[w][j], v)
                /\ \A k \in 1..Len(events[w]) : ~Answers(events[w][k], v)
<1>1. \A k \in 1..Len(commands'[w]) :
        k + 1 \in 1..Len(commands[w]) /\ commands'[w][k] = commands[w][k + 1]
  BY TakeKeeps
<1>2. /\ Head(commands[w]) = commands[w][1] /\ 1 \in 1..Len(commands[w])
      /\ Len(commands[w]) \in Nat /\ Len(commands'[w]) = Len(commands[w]) - 1
  BY TakeFacts DEF Popped
<1>3. \A j, k \in 1..Len(commands[w]) :
        Saves(commands[w][j], v) /\ Saves(commands[w][k], v) => j = k
  BY DEF WindowInv, Tokens
<1>4. \A j, k \in 1..Len(commands'[w]) :
        Saves(commands'[w][j], v) /\ Saves(commands'[w][k], v) => j = k
  <2> SUFFICES ASSUME NEW j \in 1..Len(commands'[w]),
                      NEW k \in 1..Len(commands'[w]),
                      Saves(commands'[w][j], v), Saves(commands'[w][k], v)
               PROVE  j = k
    OBVIOUS
  <2>1. j + 1 = k + 1
    BY <1>1, <1>3
  <2> QED
    BY <2>1
<1>5. /\ \A j \in 1..Len(commands'[w]), k \in 1..Len(events[w]) :
            ~(Saves(commands'[w][j], v) /\ Answers(events[w][k], v))
      /\ \A j \in 1..Len(commands'[w]) :
            Saves(commands'[w][j], v) => inflight[w][v] # Nothing
  BY <1>1 DEF WindowInv, Tokens
<1>6. ASSUME Saves(Head(commands[w]), v)
      PROVE  /\ inflight[w][v] # Nothing
             /\ \A j \in 1..Len(commands'[w]) : ~Saves(commands'[w][j], v)
             /\ \A k \in 1..Len(events[w]) : ~Answers(events[w][k], v)
  <2>1. \A j \in 1..Len(commands'[w]) : ~Saves(commands'[w][j], v)
    <3> SUFFICES ASSUME NEW j \in 1..Len(commands'[w]),
                        Saves(commands'[w][j], v)
                 PROVE  FALSE
      OBVIOUS
    <3>1. j + 1 = 1
      BY <1>1, <1>2, <1>3, <1>6
    <3> QED
      BY <3>1
  <2> QED
    BY <1>2, <1>6, <2>1 DEF WindowInv, Tokens
<1> QED
  BY <1>4, <1>5, <1>6

\* Fails: the answer to a save that failed is on its way, and its view is
\* marked for the flush.
LEMMA FailureKeeps ==
  ASSUME Types, NEW w \in Window, WindowInv(w), Take(w),
         Head(commands[w]).kind # "flush", Fails(w, Head(commands[w])),
         UNCHANGED <<rows, available, phase, views, value, ready,
                     restoring, publishing, pending, inflight,
                     last, refused, events, answer, exit, adopted, wrote>>,
         retired[w] => retired'[w],
         \A r \in late' : r.window = w => r \in late \/
            /\ retired'[w]
            /\ r.base # Nothing =>
                r.base = bases[w][r.view] /\ r.view \in failed'[w]
  PROVE  WindowInv(w)'
<1> DEFINE c == Head(commands[w])
<1>1. c \in Request /\ c.kind # "flush" /\ c = commands[w][1]
  BY TakeFacts
<1>2. /\ outbox' = [outbox EXCEPT ![w] = Event(FailureOf(c.kind), c.view, c.value)]
      /\ failed' = [failed EXCEPT ![w] = IF c.kind = "save" THEN @ \cup {c.view} ELSE @]
      /\ UNCHANGED bases
  BY DEF Fails, Tell
<1>3. /\ outbox'[w].kind = FailureOf(c.kind) /\ outbox'[w].view = c.view
      /\ outbox'[w] # Nothing
  BY <1>1, <1>2, TellsFailure, NoticeFacts DEF Event, Types
<1>4. /\ outbox'[w].kind \in {"load_failed", "save_failed", "create_failed"}
      /\ outbox'[w].kind = "save_failed" <=> c.kind = "save"
      /\ outbox'[w].kind = "load_failed" <=> c.kind = "load"
  BY <1>1, <1>3, RequestFacts DEF FailureOf
<1>5. /\ failed[w] \subseteq failed'[w] /\ (c.kind = "save" => c.view \in failed'[w])
      /\ \A v \in View : v \in failed'[w] => v \in failed[w] \/ Saves(c, v)
  BY <1>2 DEF Types, Saves
<1>6. c.kind = "load" => events[w] = <<>> /\ ~ready[w]
  <2>1. 1 \in 1..Len(commands[w])
    BY TakeFacts DEF Popped
  <2> QED
    BY <1>1, <2>1 DEF WindowInv, Loading
<1> HIDE DEF c
<1>7. Loading(w)'
  BY <1>4, <1>6, TakeKeeps DEF WindowInv, Loading, LoadKinds
<1>8. Tokens(w)'
  BY <1>3, <1>4, TakeTokens, SMTT(30) DEF WindowInv, Tokens, Answers, SaveKinds, Saves, c
<1>9. Outcomes(w)'
  <2>1. outbox'[w] # Nothing => True(w, outbox[w])'
    BY <1>3, <1>4, <1>5 DEF True
  <2>2. \A k \in 1..Len(events'[w]) : True(w, events[w][k])'
    <3> SUFFICES ASSUME NEW k \in 1..Len(events[w])
                 PROVE  True(w, events[w][k])'
      OBVIOUS
    <3>1. events[w][k] \in Notice /\ events[w][k].view \in View
      BY QueueFacts, NoticeFacts DEF Types
    <3>2. ~(events[w][k].kind = "saved" /\ Saves(c, events[w][k].view))
      BY <3>1, TakeTokens DEF Answers, SaveKinds, c
    <3> QED
      BY <1>5, <3>1, <3>2 DEF WindowInv, Outcomes, True, Holds
  <2>3. ASSUME NEW v \in View
        PROVE  /\ wrote'[w][v] # Nothing => rows'[v] # Nothing
               /\ SavedPending(w, v)' \/
                    /\ last'[w][v] # Nothing /\ v \notin failed'[w]
                            => Holds(w, v, last[w][v])'
                    /\ refused'[w][v] # Nothing => v \in failed'[w]
    <3>1. outbox[w] = Nothing
      BY TakeFacts
    <3>2. SavedPending(w, v) => SavedPending(w, v)'
      BY <3>1 DEF SavedPending
    <3> QED
      BY <1>5, <3>2 DEF WindowInv, Outcomes, Holds
  <2> QED
    BY <2>1, <2>2, <2>3 DEF Outcomes
<1>10. Basis(w)'
  <2>1. \A v \in View : adopted'[w][v] # Nothing =>
            rows'[v] # Nothing /\ adopted'[w][v] = bases'[w][v]
    BY <1>2 DEF WindowInv, Basis
  <2>2. /\ outbox'[w] # Nothing => Current(w, outbox[w])'
        /\ \A k \in 1..Len(events'[w]) : Current(w, events[w][k])'
    BY <1>2, <1>4 DEF WindowInv, Basis, Current
  <2>3. \A r \in late' : r.window = w =>
            /\ retired'[w]
            /\ r.base # Nothing => r.base = bases'[w][r.view] /\ r.view \in failed'[w]
    BY <1>2, <1>5 DEF WindowInv, Basis
  <2> QED
    BY <2>1, <2>2, <2>3 DEF Basis
<1>11. Flushing(w)' /\ Leaving(w)'
  BY TakeKeeps, SavesAssumption DEF WindowInv, Flushing, Leaving, Answer
<1> QED
  BY <1>7, <1>8, <1>9, <1>10, <1>11 DEF WindowInv

\* A load is taken only as the first command of its window.
LEMMA LoadIsFirst ==
  ASSUME Types, NEW w \in Window, WindowInv(w), Load(w)
  PROVE  /\ events[w] = <<>> /\ ~ready[w] /\ \A v \in View : adopted[w][v] = Nothing
         /\ \A r \in late : r.window # w
<1>1. /\ Take(w) /\ Head(commands[w]).kind = "load" /\ ~retired[w]
  BY DEF Load
<1>2. 1 \in 1..Len(commands[w]) /\ Head(commands[w]) = commands[w][1]
  BY <1>1, TakeFacts DEF Popped
<1> QED
  BY <1>1, <1>2 DEF WindowInv, Loading, Basis

\* The load: bases are the versions that the loaded event carries
\* (seed_from_loaded of SaveBases).
LEMMA DoesLoad ==
  ASSUME Types, NEW w \in Window, WindowInv(w), Load(w)
  PROVE  WindowInv(w)' /\ \A b \in Window : b # w => Same(b) /\ Around(b)
<1>1. /\ Take(w)
      /\ rows' = Ensured
      /\ bases' = [bases EXCEPT ![w] = [v \in View |->
           IF v \in DOMAIN Stored THEN Stored[v].version ELSE @[v]]]
      /\ outbox' = [outbox EXCEPT ![w] = Event("loaded", Canonical, Stored)]
      /\ UNCHANGED <<available, late, phase, views, value, ready,
                     restoring, publishing, pending, inflight,
                     last, refused, events, failed, retired, answer, exit,
                     adopted,
                     wrote>>
  BY DEF Load, Tell, controllerVars, skipVars
<1>2. /\ events[w] = <<>> /\ ~ready[w] /\ \A v \in View : adopted[w][v] = Nothing
      /\ \A r \in late : r.window # w
  BY LoadIsFirst
<1>3. \A v \in View : rows[v] # Nothing => rows'[v] # Nothing
  <2>1. [version |-> 0, value |-> Default] # Nothing
    BY DefaultValue, SavesAssumption DEF Row
  <2> QED
    BY <1>1, <2>1 DEF Ensured, Types
<1>4. \A b \in Window : Around(b)
  BY <1>1, <1>3 DEF Around
<1>5. \A b \in Window : b # w => Same(b)
  BY <1>1, TakeFacts DEF Same, Types
<1>6. /\ outbox'[w].kind = "loaded" /\ outbox'[w].value = Stored
      /\ outbox'[w] # Nothing
  <2>1. Event("loaded", Canonical, Stored) \in Notice
    BY StoredLoads, MakeNotice
  <2>2. Event("loaded", Canonical, Stored) # Nothing
    BY <2>1, NoticeFacts
  <2> QED
    BY <1>1, <2>2 DEF Event, Types
<1>7. Current(w, outbox[w])'
  <2>1. \A u \in DOMAIN Stored : u \in View /\ Ensured[u] # Nothing
    BY DEF Stored
  <2>2. \A u \in DOMAIN Stored : bases'[w][u] = Stored[u].version
    BY <1>1, <2>1 DEF Types
  <2> QED
    BY <1>1, <1>6, <2>1, <2>2 DEF Current
<1>8. Len(events[w]) = 0
  BY <1>2
<1>9. Loading(w)'
  BY <1>1, <1>2, <1>6, TakeKeeps DEF WindowInv, Loading, LoadKinds
<1>10. Tokens(w)'
  BY <1>1, <1>6, TakeTokens DEF WindowInv, Tokens, Answers, SaveKinds
<1>11. Outcomes(w)'
  <2>1. outbox[w] = Nothing
    BY <1>1, TakeFacts
  <2> QED
    BY <1>1, <1>3, <1>6, <1>8, <2>1 DEF WindowInv, Outcomes, True, Holds,
                                        SavedPending
<1>12. Basis(w)'
  BY <1>1, <1>2, <1>7, <1>8 DEF Basis
<1>13. Flushing(w)' /\ Leaving(w)'
  BY <1>1, <1>2, TakeKeeps, SavesAssumption DEF WindowInv, Flushing, Leaving,
                                                Answer
<1> QED
  BY <1>4, <1>5, <1>9, <1>10, <1>11, <1>12, <1>13 DEF WindowInv

\* A command that meets a store out of order, or a connection given up.
LEMMA DoesRefused ==
  ASSUME Types, NEW w \in Window, WindowInv(w), Refused(w)
  PROVE  WindowInv(w)' /\ \A b \in Window : b # w => Same(b) /\ Around(b)
<1>1. /\ Take(w) /\ Head(commands[w]).kind # "flush" /\ Fails(w, Head(commands[w]))
      /\ UNCHANGED <<rows, available, late, phase, views, value, ready,
                     restoring, publishing, pending, inflight,
                     last, refused, events, retired, answer, exit, adopted,
                     wrote>>
  BY DEF Refused, storeVars, controllerVars, skipVars
<1>2. \A b \in Window : Around(b)
  BY <1>1 DEF Around
<1>3. \A b \in Window : b # w => Same(b)
  BY <1>1, TakeFacts DEF Same, Types, Fails, Tell
<1>4. WindowInv(w)'
  BY <1>1, FailureKeeps
<1> QED
  BY <1>2, <1>3, <1>4

\* A command that is not answered in time: it may come late.
LEMMA DoesLapse ==
  ASSUME Types, NEW w \in Window, WindowInv(w), Lapse(w)
  PROVE  WindowInv(w)' /\ \A b \in Window : b # w => Same(b) /\ Around(b)
<1> DEFINE c == Head(commands[w])
           lost == [window |-> w, view |-> c.view, value |-> c.value,
                    base |-> IF c.kind = "create" THEN Nothing ELSE bases[w][c.view]]
<1>1. /\ Take(w) /\ c.kind # "flush" /\ Fails(w, c)
      /\ UNCHANGED <<rows, available, phase, views, value, ready,
                     restoring, publishing, pending, inflight,
                     last, refused, events, answer, exit, adopted, wrote>>
      /\ retired' = [retired EXCEPT ![w] = TRUE]
      /\ late' = IF c.kind = "load" THEN late ELSE late \cup {lost}
  BY DEF Lapse, controllerVars, skipVars
<1>2. \A b \in Window : b # w => Around(b)
  BY <1>1 DEF Around
<1>3. \A b \in Window : b # w => Same(b)
  BY <1>1, TakeFacts DEF Same, Types, Fails, Tell
<1>4. c.kind = "save" => c.view \in failed'[w]
  BY <1>1 DEF Fails, Types
<1>5. c.kind \in {"load", "save", "create"}
  BY <1>1, TakeFacts, RequestFacts
<1>6. retired'[w]
  BY <1>1 DEF Types
<1>7. \A r \in late' : r.window = w => r \in late \/
            /\ retired'[w]
            /\ r.base # Nothing =>
                r.base = bases[w][r.view] /\ r.view \in failed'[w]
  BY <1>1, <1>4, <1>5, <1>6
<1>8. WindowInv(w)'
  BY <1>1, <1>6, <1>7, FailureKeeps
<1> QED
  BY <1>2, <1>3, <1>8

\* A save or a creation is committed: what it replaces is what the window's
\* base says, and the only save of its view is now answered.
LEMMA CommitKeeps ==
  ASSUME Types, NEW w \in Window, WindowInv(w), Store(w),
         NEW c, c = Head(commands[w]),
         NEW base,
         base = IF c.kind = "create" THEN Nothing ELSE bases[w][c.view],
         Accepts(c.view, base)
  PROVE  WindowInv(w)' /\ \A b \in Window : b # w => Same(b) /\ Around(b)
<1>1. /\ Take(w) /\ c.kind \in {"save", "create"} /\ ~retired[w]
      /\ Commit(w, c.view, base, c.value)
      /\ bases' = [bases EXCEPT ![w][c.view] = NextVersion(base)]
      /\ adopted' = [adopted EXCEPT ![w][c.view] = IF @ = base THEN NextVersion(base) ELSE @]
      /\ failed' = [failed EXCEPT ![w] = IF c.kind = "save" THEN @ \ {c.view} ELSE @]
      /\ outbox' = [outbox EXCEPT ![w] =
            Event(IF c.kind = "save" THEN "saved" ELSE "created", c.view, c.value)]
      /\ UNCHANGED <<available, late, phase, views, value, ready, restoring,
                     publishing, pending, inflight, last, refused, events, retired,
                     answer, exit>>
  BY DEF Store, Tell, controllerVars, skipVars
<1> DEFINE v == c.view
<1>2. c \in Request /\ v \in View /\ c.value \in Value /\ c = commands[w][1]
  BY <1>1, TakeFacts, RequestFacts
<1>3. base \in Version
  BY <1>2 DEF Types, Version
<1> HIDE DEF v
<1>4. /\ rows'[v] # Nothing /\ Holds(w, v, c.value)'
      /\ \A u \in View : u # v => rows'[u] = rows[u]
      /\ \A b \in Window, u \in View : b # w \/ u # v => wrote'[b][u] = wrote[b][u]
  <2>1. Commit(w, v, base, c.value)
    BY <1>1 DEF v
  <2>2. /\ rows'[v] # Nothing /\ wrote'[w][v] # Nothing /\ wrote'[w][v].value = c.value
        /\ \A u \in View : u # v => rows'[u] = rows[u]
        /\ \A b \in Window, u \in View : b # w \/ u # v => wrote'[b][u] = wrote[b][u]
    BY <1>2, <1>3, <2>1, CommitTypes
  <2> QED
    BY <2>2 DEF Holds
<1>5. /\ outbox'[w].kind = IF c.kind = "save" THEN "saved" ELSE "created"
      /\ outbox'[w].view = v /\ outbox'[w].value = c.value /\ outbox'[w] # Nothing
  <2>1. Event(IF c.kind = "save" THEN "saved" ELSE "created", v, c.value) \in Notice
    BY <1>1, <1>2, MakeNotice
  <2>2. Event(IF c.kind = "save" THEN "saved" ELSE "created", v, c.value) # Nothing
    BY <2>1, NoticeFacts
  <2> QED
    BY <1>1, <2>2 DEF Event, Types, v
<1>6. \A b \in Window : Around(b)
  BY <1>1, <1>2, <1>4 DEF Around
<1>7. \A b \in Window : b # w => Same(b)
  <2>1. \A b \in Window : b # w => wrote'[b] = wrote[b]
    BY <1>1, <1>2 DEF Types, Commit
  <2> QED
    BY <1>1, <2>1, TakeFacts, ZenonT(40) DEF Same, Types
<1>8. /\ c.kind = "save" => failed'[w] = failed[w] \ {v}
      /\ c.kind = "create" => failed'[w] = failed[w]
      /\ outbox[w] = Nothing
  BY <1>1, TakeFacts DEF Types, v
<1>9. c.kind = "create" => rows[v] = Nothing /\ wrote[w][v] = Nothing /\ adopted[w][v] = Nothing
  BY <1>2 DEF Accepts, WindowInv, Outcomes, Basis, v
<1>10. c.kind = "save" => \A k \in 1..Len(events[w]) : ~Answers(events[w][k], v)
  BY <1>2, TakeTokens, <1>1 DEF Saves, v
<1>11. Loading(w)'
  <2>1. outbox'[w].kind \notin LoadKinds
    BY <1>5 DEF LoadKinds
  <2>2. \A k \in 1..Len(commands'[w]) :
            commands'[w][k].kind # "load" /\ (commands'[w][k].kind = "save" => ready[w])
    BY <1>1, TakeKeeps
  <2>3. phase'[w] # "off" /\ UNCHANGED <<ready, events, pending>>
    BY <1>1, TakeKeeps
  <2> QED
    BY <2>1, <2>2, <2>3 DEF WindowInv, Loading
<1>12. Tokens(w)'
  <2>1. \A u \in View : Answers(outbox'[w], u) => Saves(Head(commands[w]), u)
    <3>1. c.kind \in {"save", "create"} /\ c = Head(commands[w])
      BY <1>1
    <3> QED
      BY <1>5, <3>1 DEF Answers, Saves, SaveKinds, v
  <2> QED
    BY <1>1, <2>1, TakeTokens DEF WindowInv, Tokens
<1>13. Outcomes(w)'
  <2>1. outbox'[w] # Nothing => True(w, outbox[w])'
    BY <1>4, <1>5, <1>8 DEF True, Holds
  <2>2. \A k \in 1..Len(events'[w]) : True(w, events[w][k])'
    <3> SUFFICES ASSUME NEW k \in 1..Len(events[w])
                 PROVE  True(w, events[w][k])'
      BY <1>1
    <3>1. events[w][k] \in Notice /\ events[w][k].view \in View /\ True(w, events[w][k])
      BY QueueFacts, NoticeFacts DEF Types, WindowInv, Outcomes
    <3>2. events[w][k].kind = "saved" => events[w][k].view # v
      BY <1>1, <1>9, <1>10, <3>1 DEF Answers, SaveKinds, True, Holds
    <3>3. events[w][k].kind = "save_failed" => events[w][k].view # v \/ c.kind = "create"
      BY <1>1, <1>10 DEF Answers, SaveKinds
    <3> QED
      BY <1>1, <1>4, <1>8, <3>1, <3>2, <3>3 DEF True, Holds
  <2>3. ASSUME NEW u \in View
        PROVE  /\ wrote'[w][u] # Nothing => rows'[u] # Nothing
               /\ SavedPending(w, u)' \/
                    /\ last'[w][u] # Nothing /\ u \notin failed'[w]
                            => Holds(w, u, last[w][u])'
                    /\ refused'[w][u] # Nothing => u \in failed'[w]
    <3>1. wrote'[w][u] # Nothing => rows'[u] # Nothing
      BY <1>4 DEF WindowInv, Outcomes
    <3>2. SavedPending(w, u) => SavedPending(w, u)'
      BY <1>1, <1>8 DEF SavedPending
    <3>3. CASE u # v
      BY <1>1, <1>4, <1>8, <3>1, <3>2, <3>3 DEF WindowInv, Outcomes, Holds
    <3>4. CASE u = v /\ c.kind = "save"
      BY <1>5, <3>1, <3>4 DEF SavedPending
    <3>5. CASE u = v /\ c.kind = "create"
      BY <1>1, <1>8, <1>9, <3>1, <3>2, <3>5 DEF WindowInv, Outcomes, Holds
    <3> QED
      BY <1>1, <3>3, <3>4, <3>5
  <2> QED
    BY <2>1, <2>2, <2>3 DEF Outcomes
<1>14. Basis(w)'
  <2>1. \A u \in View : adopted'[w][u] # Nothing =>
            rows'[u] # Nothing /\ adopted'[w][u] = bases'[w][u]
    <3> SUFFICES ASSUME NEW u \in View, adopted'[w][u] # Nothing
                 PROVE  rows'[u] # Nothing /\ adopted'[w][u] = bases'[w][u]
      OBVIOUS
    <3>1. CASE u # v
      BY <1>1, <1>4, <3>1, ZenonT(40) DEF WindowInv, Basis, Types, v
    <3>2. CASE u = v
      <4>1. bases'[w][v] = NextVersion(base)
        BY <1>1, <1>2 DEF Types, v
      <4>2. adopted'[w][v] = IF adopted[w][v] = base THEN NextVersion(base) ELSE adopted[w][v]
        BY <1>1, <1>2 DEF Types, v
      <4>3. adopted[w][v] # Nothing => adopted[w][v] = base
        BY <1>1, <1>2, <1>9 DEF WindowInv, Basis, v
      <4> QED
        BY <1>4, <3>2, <4>1, <4>2, <4>3
    <3> QED
      BY <3>1, <3>2
  <2>2. outbox'[w] # Nothing => Current(w, outbox[w])'
    BY <1>5 DEF Current
  <2>3. \A k \in 1..Len(events'[w]) : Current(w, events[w][k])'
    <3> SUFFICES ASSUME NEW k \in 1..Len(events[w]),
                        events[w][k].kind = "loaded",
                        NEW u \in DOMAIN events[w][k].value
                 PROVE  rows'[u] # Nothing /\ events[w][k].value[u].version = bases'[w][u]
      BY <1>1 DEF Current
    <3>1. events[w][k] \in Notice /\ u \in View
      BY QueueFacts, NoticeFacts DEF Types
    <3>2. rows[u] # Nothing /\ events[w][k].value[u].version = bases[w][u]
      BY DEF WindowInv, Basis, Current
    <3>3. ~ready[w]
      BY DEF WindowInv, Loading, LoadKinds
    <3>4. c.kind # "save"
      <4>1. 1 \in 1..Len(commands[w])
        <5>1. Popped(commands[w], commands'[w])
          BY <1>1, TakeFacts
        <5> QED
          BY <5>1 DEF Popped
      <4> QED
        BY <1>2, <3>3, <4>1 DEF WindowInv, Loading
    <3>5. u # v
      BY <1>1, <1>9, <3>2, <3>4
    <3> QED
      BY <1>1, <1>2, <1>4, <3>1, <3>2, <3>5 DEF Types, v
  <2>4. \A r \in late' : r.window # w
    BY <1>1 DEF WindowInv, Basis
  <2> QED
    BY <2>1, <2>2, <2>3, <2>4 DEF Basis
<1>15. Flushing(w)'
  BY <1>1, TakeKeeps, SavesAssumption DEF WindowInv, Flushing, Answer
<1>16. Leaving(w)'
  BY <1>1, TakeKeeps DEF WindowInv, Leaving
<1> QED
  BY <1>6, <1>7, <1>11, <1>12, <1>13, <1>14, <1>15, <1>16 DEF WindowInv

\* save_view and create_derived_view, accepted or refused.
LEMMA DoesStore ==
  ASSUME Types, NEW w \in Window, WindowInv(w), Store(w)
  PROVE  WindowInv(w)' /\ \A b \in Window : b # w => Same(b) /\ Around(b)
<1> DEFINE c == Head(commands[w])
           base == IF c.kind = "create" THEN Nothing ELSE bases[w][c.view]
<1>1. CASE Accepts(c.view, base)
  BY <1>1, CommitKeeps
<1>2. CASE ~Accepts(c.view, base)
  <2>1. /\ Take(w) /\ c.kind # "flush" /\ Fails(w, c)
        /\ UNCHANGED <<rows, available, late, phase, views, value, ready,
                       restoring, publishing, pending,
                       inflight, last, refused, events, retired, answer, exit,
                       adopted, wrote>>
    BY <1>2 DEF Store, controllerVars, skipVars
  <2>2. \A b \in Window : Around(b)
    BY <2>1 DEF Around
  <2>3. \A b \in Window : b # w => Same(b)
    BY <2>1, TakeFacts DEF Same, Types, Fails, Tell
  <2>4. WindowInv(w)'
    BY <2>1, FailureKeeps
  <2> QED
    BY <2>2, <2>3, <2>4
<1> QED
  BY <1>1, <1>2

\* The flush is behind every save, so that its answer counts them all.
LEMMA DoesAnswerFlush ==
  ASSUME Types, NEW w \in Window, WindowInv(w), AnswerFlush(w)
  PROVE  WindowInv(w)' /\ \A b \in Window : b # w => Same(b) /\ Around(b)
<1>1. /\ Take(w) /\ Head(commands[w]).kind = "flush"
      /\ phase[w] \in {"flushing", "looking"}
      /\ answer' = [answer EXCEPT ![w] =
           IF failed[w] = {} THEN "ok" ELSE IF available THEN "failed" ELSE "degraded"]
      /\ UNCHANGED <<rows, available, late, phase, views, value, ready,
                     restoring, publishing, pending, inflight,
                     last, refused, outbox, events, failed, bases, retired,
                     exit,
                     adopted, wrote>>
  BY DEF AnswerFlush, storeVars, controllerVars, skipVars, threadVars
<1>2. \A b \in Window : Around(b)
  BY <1>1 DEF Around
<1>3. \A b \in Window : b # w => Same(b)
  BY <1>1, TakeFacts DEF Same, Types
<1>4. commands'[w] = <<>> /\ Len(commands'[w]) = 0
  <2>1. /\ 1 \in 1..Len(commands[w]) /\ Head(commands[w]) = commands[w][1]
        /\ Len(commands'[w]) = Len(commands[w]) - 1
        /\ commands'[w] \in Seq(Request)
    BY <1>1, TakeFacts DEF Popped
  <2>2. 1 = Len(commands[w])
    BY <1>1, <2>1 DEF WindowInv, Flushing
  <2>3. Len(commands'[w]) = 0
    BY <2>1, <2>2
  <2> QED
    BY <2>1, <2>3, QueueFacts
<1>5. Loading(w)' /\ Tokens(w)'
  BY <1>1, <1>4 DEF WindowInv, Loading, Tokens
<1>6. Outcomes(w)'
  BY <1>1 DEF WindowInv, Outcomes, True, Holds, SavedPending
<1>7. Basis(w)'
  BY <1>1, <1>2, BasisKept DEF WindowInv
<1>8. Flushing(w)'
  BY <1>1, <1>4 DEF WindowInv, Flushing, Types
<1>9. Leaving(w)'
  BY <1>1 DEF WindowInv, Leaving
<1> QED
  BY <1>2, <1>3, <1>5, <1>6, <1>7, <1>8, <1>9 DEF WindowInv

\* An answer goes from the thread into the event queue.
LEMMA DoesSend ==
  ASSUME Types, NEW w \in Window, WindowInv(w), Send(w)
  PROVE  WindowInv(w)' /\ \A b \in Window : b # w => Same(b) /\ Around(b)
<1>1. /\ outbox[w] # Nothing
      /\ events' = [events EXCEPT ![w] = Append(@, outbox[w])]
      /\ outbox' = [outbox EXCEPT ![w] = Nothing]
      /\ UNCHANGED <<rows, available, late, phase, views, value, ready,
                     restoring, publishing, pending, inflight,
                     last, refused, commands, failed, bases, retired, answer,
                     exit,
                     adopted, wrote>>
  BY DEF Send, storeVars, controllerVars, skipVars
<1>2. \A b \in Window : Around(b)
  BY <1>1 DEF Around
<1>3. \A b \in Window : b # w => Same(b)
  BY <1>1 DEF Same, Types
<1>4. /\ Pushed(events[w], events'[w], outbox[w]) /\ outbox'[w] = Nothing
      /\ Len(events[w]) \in Nat
      /\ events[w] = <<>> => Len(events[w]) = 0
  BY <1>1, QueueFacts DEF Types
<1>5. \A k \in 1..Len(events'[w]) :
         \/ k \in 1..Len(events[w]) /\ events'[w][k] = events[w][k]
         \/ k = Len(events[w]) + 1 /\ events'[w][k] = outbox[w]
  BY <1>4 DEF Pushed
<1>6. Loading(w)'
  BY <1>1, <1>4, <1>5 DEF WindowInv, Loading
<1>7. Tokens(w)'
  BY <1>1, <1>4, <1>5 DEF WindowInv, Tokens
<1>8. Outcomes(w)'
  <2>1. \A k \in 1..Len(events'[w]) : True(w, events[w][k])'
    BY <1>1, <1>5 DEF WindowInv, Outcomes, True, Holds
  <2>2. \A v \in View : SavedPending(w, v) => SavedPending(w, v)'
    BY <1>1, <1>4 DEF SavedPending, Pushed
  <2> QED
    BY <1>1, <1>4, <2>1, <2>2 DEF WindowInv, Outcomes, Holds
<1>9. Basis(w)'
  BY <1>1, <1>4, <1>5 DEF WindowInv, Basis, Current
<1>10. Flushing(w)' /\ Leaving(w)'
  BY <1>1 DEF WindowInv, Flushing, Leaving, SavedAll
<1> QED
  BY <1>2, <1>3, <1>6, <1>7, <1>8, <1>9, <1>10 DEF WindowInv

-----------------------------------------------------------------------------
(* Events, and requests that come late *)

\* The first event is gone; what the others say is still so.
LEMMA DoesPoll ==
  ASSUME Types, NEW w \in Window, WindowInv(w), Poll(w)
  PROVE  WindowInv(w)' /\ \A b \in Window : b # w => Same(b) /\ Around(b)
<1> DEFINE e == Head(events[w])
           v == e.view
<1>1. /\ e = events[w][1] /\ e \in Notice
      /\ Popped(events[w], events'[w])
      /\ \A b \in Window : b # w => events'[b] = events[b]
      /\ phase[w] \in {"open", "quitting", "flushing"}
      /\ UNCHANGED <<rows, available, late, outbox, failed, bases, retired, phase,
                     commands, answer, exit, wrote, publishing, pending>>
  BY PollFacts
<1>2. \/ Loaded(w, e) \/ LoadFailed(w, e) \/ Saved(w, e) \/ SaveFailed(w, e)
      \/ Created(w, e) \/ CreateFailed(w, e)
  BY PollFacts
<1>3. v \in View /\ (e.kind \in SaveKinds => e.value \in Value /\ e.value # Nothing)
  BY <1>1, NoticeFacts, SavesAssumption DEF SaveKinds
<1>4. 1 \in 1..Len(events[w]) /\ events[w] # <<>>
  BY <1>1, QueueFacts DEF Popped, Types
<1>5. \A k \in 1..Len(events'[w]) :
        k + 1 \in 1..Len(events[w]) /\ events'[w][k] = events[w][k + 1] /\ k + 1 # 1
  BY <1>1 DEF Popped
<1> HIDE DEF e, v
<1>6. \A b \in Window : Around(b)
  BY <1>1 DEF Around
<1>7. \A b \in Window : b # w => Same(b)
  <2>1. \A b \in Window : b # w => UNCHANGED <<views[b], value[b], ready[b], restoring[b],
                                    inflight[b], last[b], refused[b], adopted[b]>>
    BY <1>2 DEF Types, Loaded, LoadFailed, Saved, SaveFailed, Created,
                CreateFailed
  <2> QED
    BY <1>1, <2>1 DEF Same
<1>8. /\ ready[w] => ready'[w]
      /\ ready'[w] => ready[w] \/ e.kind \in LoadKinds
  BY <1>2 DEF Types, Loaded, LoadFailed, Saved, SaveFailed, Created,
              CreateFailed, LoadKinds
<1>9. Loading(w)'
  <2>1. \A k \in 1..Len(commands[w]) : commands[w][k].kind # "load"
    BY <1>4 DEF WindowInv, Loading
  <2>2. \A k \in 1..Len(events'[w]) : events'[w][k].kind \notin LoadKinds
    BY <1>5 DEF WindowInv, Loading
  <2>3. ~(outbox[w] # Nothing /\ outbox[w].kind \in LoadKinds)
    BY <1>4 DEF WindowInv, Loading
  <2>4. phase'[w] # "off" /\ UNCHANGED <<commands, outbox, pending>>
    BY <1>1
  <2> QED
    BY <1>8, <2>1, <2>2, <2>3, <2>4 DEF WindowInv, Loading
<1>10. /\ e.kind \in SaveKinds =>
            /\ Answers(e, v)
            /\ \A j \in 1..Len(commands[w]) : ~Saves(commands[w][j], v)
            /\ \A k \in 1..Len(events'[w]) : ~Answers(events'[w][k], v)
            /\ ~(outbox[w] # Nothing /\ Answers(outbox[w], v))
  <2> SUFFICES ASSUME e.kind \in SaveKinds, Answers(events[w][1], v)
               PROVE  /\ \A j \in 1..Len(commands[w]) : ~Saves(commands[w][j], v)
                      /\ \A k \in 1..Len(events'[w]) : ~Answers(events'[w][k], v)
                      /\ ~(outbox[w] # Nothing /\ Answers(outbox[w], v))
    BY <1>1 DEF Answers, v
  <2>1. \A k \in 1..Len(events'[w]) : ~Answers(events'[w][k], v)
    BY <1>3, <1>4, <1>5 DEF WindowInv, Tokens
  <2> QED
    BY <1>3, <1>4, <2>1 DEF WindowInv, Tokens
<1>11. \A u \in View :
        /\ u # v \/ e.kind \notin SaveKinds =>
            UNCHANGED <<inflight[w][u], last[w][u], refused[w][u]>>
        /\ u = v /\ e.kind = "saved" => last'[w][u] = e.value /\ refused'[w][u] = Nothing
        /\ u = v /\ e.kind = "save_failed" => last'[w][u] = last[w][u]
  BY <1>2, <1>3
  DEF Types, Loaded, LoadFailed, Saved, SaveFailed, Created, CreateFailed,
      SaveKinds, v
<1>12. Tokens(w)'
  <2> SUFFICES ASSUME NEW u \in View
               PROVE  /\ \A j, k \in 1..Len(events'[w]) :
                            Answers(events'[w][j], u) /\ Answers(events'[w][k], u) => j = k
                      /\ \A j \in 1..Len(commands[w]), k \in 1..Len(events'[w]) :
                            ~(Saves(commands[w][j], u) /\ Answers(events'[w][k], u))
                      /\ outbox[w] # Nothing /\ Answers(outbox[w], u) =>
                            /\ inflight'[w][u] # Nothing
                            /\ \A k \in 1..Len(events'[w]) : ~Answers(events'[w][k], u)
                      /\ \A j \in 1..Len(commands[w]) :
                            Saves(commands[w][j], u) => inflight'[w][u] # Nothing
                      /\ \A k \in 1..Len(events'[w]) :
                            Answers(events'[w][k], u) => inflight'[w][u] # Nothing
    BY <1>1 DEF WindowInv, Tokens
  <2>1. CASE u = v /\ e.kind \in SaveKinds
    BY <1>10, <2>1
  <2>2. CASE u # v \/ e.kind \notin SaveKinds
    <3>1. inflight'[w][u] = inflight[w][u]
      BY <1>11, <2>2
    <3>2. \A j, k \in 1..Len(events'[w]) :
                Answers(events'[w][j], u) /\ Answers(events'[w][k], u) => j = k
      <4> SUFFICES ASSUME NEW j \in 1..Len(events'[w]),
                          NEW k \in 1..Len(events'[w]),
                          Answers(events'[w][j], u), Answers(events'[w][k], u)
                   PROVE  j = k
        OBVIOUS
      <4>1. j + 1 = k + 1
        BY <1>5 DEF WindowInv, Tokens
      <4> QED
        BY <4>1
    <3> QED
      BY <1>5, <3>1, <3>2 DEF WindowInv, Tokens
  <2> QED
    BY <2>1, <2>2
<1>13. Outcomes(w)'
  <2>1. /\ outbox'[w] # Nothing => True(w, outbox[w])'
        /\ \A k \in 1..Len(events'[w]) : True(w, events[w][k])'
    BY <1>1, <1>5, SMTT(30) DEF WindowInv, Outcomes, True, Holds
  <2>2. True(w, e)
    BY <1>1, <1>4 DEF WindowInv, Outcomes
  <2>3. ASSUME NEW u \in View
        PROVE  /\ wrote'[w][u] # Nothing => rows'[u] # Nothing
               /\ SavedPending(w, u)' \/
                    /\ last'[w][u] # Nothing /\ u \notin failed'[w]
                            => Holds(w, u, last[w][u])'
                    /\ refused'[w][u] # Nothing => u \in failed'[w]
    <3>1. CASE u = v /\ e.kind = "saved"
      BY <1>1, <1>11, <2>2, <3>1 DEF WindowInv, Outcomes, True, Holds, v
    <3>2. CASE u = v /\ e.kind = "save_failed"
      BY <1>1, <1>11, <2>2, <3>2 DEF WindowInv, Outcomes, True, v
    <3>3. CASE u # v \/ e.kind \notin SaveKinds
      <4>1. SavedPending(w, u) => SavedPending(w, u)'
        <5> SUFFICES ASSUME NEW k \in 1..Len(events[w]),
                            events[w][k].kind = "saved",
                            events[w][k].view = u
                     PROVE  \E j \in 1..Len(events'[w]) :
                                events'[w][j].kind = "saved" /\ events'[w][j].view = u
          BY <1>1 DEF SavedPending
        <5>1. k # 1
          BY <1>1, <3>3 DEF SaveKinds, v
        <5>2. k - 1 \in 1..Len(events'[w])
          BY <1>1, <5>1 DEF Popped
        <5>3. events'[w][k - 1] = events[w][k]
          BY <1>5, <5>2
        <5> QED
          BY <5>2, <5>3
      <4> QED
        BY <1>1, <1>11, <3>3, <4>1 DEF WindowInv, Outcomes, Holds
    <3> QED
      BY <3>1, <3>2, <3>3 DEF SaveKinds
  <2> QED
    BY <2>1, <2>3 DEF Outcomes
<1>14. Basis(w)'
  <2>1. \A u \in View : adopted'[w][u] # Nothing =>
            rows'[u] # Nothing /\ adopted'[w][u] = bases'[w][u]
    <3>1. CASE Loaded(w, e)
      <4> SUFFICES ASSUME NEW u \in View, adopted'[w][u] # Nothing
                   PROVE  rows[u] # Nothing /\ adopted'[w][u] = bases[w][u]
        BY <1>1
      <4>1. adopted'[w][u] = IF u \in Restored(w, e.value) THEN e.value[u].version
                                                          ELSE adopted[w][u]
        BY <3>1 DEF Loaded, Types
      <4>2. Current(w, e) /\ e.kind = "loaded"
        BY <1>1, <1>4, <3>1 DEF WindowInv, Basis, Loaded
      <4> QED
        BY <4>1, <4>2 DEF Restored, Current, WindowInv, Basis
    <3>2. CASE ~Loaded(w, e)
      BY <1>1, <1>2, <3>2
      DEF WindowInv, Basis, LoadFailed, Saved, SaveFailed, Created, CreateFailed
    <3> QED
      BY <3>1, <3>2
  <2>2. /\ outbox'[w] # Nothing => Current(w, outbox[w])'
        /\ \A k \in 1..Len(events'[w]) : Current(w, events[w][k])'
    BY <1>1, <1>5 DEF WindowInv, Basis, Current
  <2>3. \A r \in late' : r.window = w =>
            /\ retired'[w]
            /\ r.base # Nothing => r.base = bases'[w][r.view] /\ r.view \in failed'[w]
    BY <1>1 DEF WindowInv, Basis
  <2> QED
    BY <2>1, <2>2, <2>3 DEF Basis
<1>15. Flushing(w)' /\ Leaving(w)'
  BY <1>1 DEF WindowInv, Flushing, Leaving
<1> QED
  BY <1>6, <1>7, <1>9, <1>12, <1>13, <1>14, <1>15 DEF WindowInv

\* A request that comes late is a creation of a view that nobody has, or a save
\* that the window counts as failed.
LEMMA DoesLateCommit ==
  ASSUME Types, NEW r \in late, WindowInv(r.window), LateCommit(r)
  PROVE  WindowInv(r.window)' /\ \A b \in Window : b # r.window => Same(b) /\ Around(b)
<1> DEFINE w == r.window
           v == r.view
<1>1. w \in Window /\ v \in View /\ r.value \in Value /\ r.base \in Version
  BY DEF Types
<1>2. /\ late' = late \ {r} /\ Accepts(v, r.base)
      /\ Commit(w, v, r.base, r.value)
      /\ UNCHANGED <<available, phase, views, value, ready, restoring, publishing,
                     pending, inflight, last, refused, commands, outbox, events,
                     failed, bases, retired,
                     answer, exit, adopted>>
  BY DEF LateCommit, controllerVars, skipVars, threadVars
<1>3. /\ rows'[v] # Nothing
      /\ \A u \in View : u # v => rows'[u] = rows[u]
      /\ \A b \in Window, u \in View : b # w \/ u # v => wrote'[b][u] = wrote[b][u]
  BY <1>1, <1>2, CommitTypes
<1>4. rows[v] = Nothing \/ v \in failed[w]
  BY <1>1, <1>2 DEF Accepts, WindowInv, Basis
<1> HIDE DEF w, v
<1>5. \A b \in Window : Around(b)
  BY <1>1, <1>2, <1>3 DEF Around
<1>6. \A b \in Window : b # w => Same(b)
  <2>1. \A b \in Window : b # w => wrote'[b] = wrote[b]
    BY <1>1, <1>2 DEF Types, Commit
  <2> QED
    BY <1>2, <2>1 DEF Same
<1>7. WindowInv(w)
  BY DEF w
<1>8. Loading(w)' /\ Tokens(w)'
  BY <1>2, <1>7 DEF WindowInv, Loading, Tokens
<1>9. rows[v] = Nothing => wrote[w][v] = Nothing
  BY <1>1, <1>7 DEF WindowInv, Outcomes
<1>10. Outcomes(w)'
  <2>1. ASSUME NEW e \in Notice, True(w, e)
        PROVE  /\ e.kind = "saved" => e.view \notin failed'[w] /\ e.view # v
               /\ True(w, e)'
    <3>1. e.view \in View
      BY NoticeFacts
    <3>2. e.kind = "saved" => e.view \notin failed[w] /\ e.view # v
      BY <1>4, <1>9, <2>1 DEF True, Holds
    <3> QED
      BY <1>1, <1>2, <1>3, <2>1, <3>1, <3>2 DEF True, Holds
  <2>2. outbox'[w] # Nothing => True(w, outbox[w])'
    <3>1. outbox[w] # Nothing => outbox[w] \in Notice /\ True(w, outbox[w])
      BY <1>1, <1>7 DEF Types, WindowInv, Outcomes
    <3> QED
      BY <1>2, <2>1, <3>1 DEF True, Holds
  <2>3. \A k \in 1..Len(events'[w]) : True(w, events[w][k])'
    <3>1. \A k \in 1..Len(events[w]) : events[w][k] \in Notice /\ True(w, events[w][k])
      BY <1>1, <1>7, QueueFacts DEF Types, WindowInv, Outcomes
    <3> QED
      BY <1>2, <2>1, <3>1 DEF True, Holds
  <2>4. ASSUME NEW u \in View
        PROVE  /\ wrote'[w][u] # Nothing => rows'[u] # Nothing
               /\ SavedPending(w, u)' \/
                    /\ last'[w][u] # Nothing /\ u \notin failed'[w]
                            => Holds(w, u, last[w][u])'
                    /\ refused'[w][u] # Nothing => u \in failed'[w]
    <3>1. SavedPending(w, u) => SavedPending(w, u)'
      BY <1>2 DEF SavedPending
    <3>2. CASE u # v
      BY <1>1, <1>2, <1>3, <1>7, <3>1, <3>2 DEF WindowInv, Outcomes, Holds
    <3>3. CASE u = v
      BY <1>2, <1>3, <1>4, <1>7, <1>9, <3>1, <3>3 DEF WindowInv, Outcomes, Holds
    <3> QED
      BY <3>2, <3>3
  <2> QED
    BY <2>2, <2>3, <2>4 DEF Outcomes
<1>11. Basis(w)'
  BY <1>1, <1>2, <1>5, <1>7, BasisKept DEF WindowInv
<1>12. Flushing(w)'
  BY <1>2, <1>7 DEF WindowInv, Flushing
<1>13. Leaving(w)'
  <2>1. SavedAll(w) /\ failed[w] = {} => SavedAll(w)'
    <3> SUFFICES ASSUME SavedAll(w), failed[w] = {},
                        NEW u \in views[w], u \notin restoring[w]
                 PROVE  wrote'[w][u] # Nothing /\ wrote'[w][u].value = value[w][u]
      BY <1>2 DEF SavedAll
    <3>1. u \in View /\ wrote[w][u] # Nothing /\ wrote[w][u].value = value[w][u]
      BY <1>1 DEF SavedAll, Types
    <3>2. u # v
      BY <1>4, <1>9, <3>1
    <3> QED
      BY <1>1, <1>3, <3>1, <3>2
  <2> QED
    BY <1>2, <1>7, <2>1 DEF WindowInv, Leaving
<1>14. WindowInv(w)'
  BY <1>8, <1>10, <1>11, <1>12, <1>13 DEF WindowInv
<1> QED
  BY <1>5, <1>6, <1>14 DEF w

-----------------------------------------------------------------------------
(* The theorems *)

\* The invariant holds at the start.
LEMMA SavesInitially == Init => SavesInv
<1> SUFFICES ASSUME Init PROVE SavesInv
  OBVIOUS
<1>1. Types
  BY InitiallyTypes
<1> SUFFICES ASSUME NEW w \in Window PROVE WindowInv(w)
  BY <1>1 DEF SavesInv
<1>2. /\ phase[w] = "off" /\ views[w] = {} /\ ~ready[w] /\ commands[w] = <<>>
      /\ outbox[w] = Nothing /\ events[w] = <<>> /\ failed[w] = {}
      /\ publishing[w] = Nothing /\ answer[w] = Nothing /\ exit[w] = "none" /\ late = {}
      /\ \A v \in View : /\ pending[w][v] = Nothing /\ inflight[w][v] = Nothing
                         /\ last[w][v] = Nothing /\ refused[w][v] = Nothing
                         /\ adopted[w][v] = Nothing /\ wrote[w][v] = Nothing
  BY DEF Init, ByView, ByWindow
<1>3. Len(commands[w]) = 0 /\ Len(events[w]) = 0
  BY <1>2
<1>4. Loading(w) /\ Basis(w) /\ Tokens(w)
  BY <1>2, <1>3 DEF Loading, Basis, Tokens
<1>5. Outcomes(w)
  BY <1>2, <1>3 DEF Outcomes
<1>6. Flushing(w) /\ Leaving(w)
  BY <1>2, <1>3, SavesAssumption DEF Flushing, Leaving, Answer
<1> QED
  BY <1>4, <1>5, <1>6 DEF WindowInv

\* Every step keeps the invariant.
LEMMA SavesNext == SavesInv /\ [Next]_vars => SavesInv'
<1> SUFFICES ASSUME SavesInv, [Next]_vars PROVE SavesInv'
  OBVIOUS
<1>1. Types /\ \A b \in Window : WindowInv(b)
  BY DEF SavesInv
<1>2. ASSUME NEW w \in Window,
             \/ OpenWindow(w) \/ Quit(w) \/ Deadline(w)
             \/ \E v \in View, x \in Value : Edit(w, v, x)
             \/ \E x \in Value : Fork(w, x)
      PROVE  SavesInv'
  <2>1. WindowInv(w)' /\ \A b \in Window : b # w => Same(b) /\ Around(b)
    BY <1>1, <1>2, DoesOpen, DoesQuit, DoesEdit, DoesFork
  <2>2. Types'
    BY <1>1, <1>2, UserTypes
  <2> QED
    BY <1>1, <2>1, <2>2, StepOfOne DEF SavesInv
<1>7. ASSUME NEW w \in Window, NEW v \in View,
             Publish(w, v) \/ FailPersistence(w) \/ RestoreEnds(w, v)
      PROVE  SavesInv'
  <2>1. Types' /\ WindowInv(w)' /\ \A b \in Window : b # w => Same(b) /\ Around(b)
    BY <1>1, <1>7, DoesWait
  <2> QED
    BY <1>1, <2>1, StepOfOne DEF SavesInv
<1>3. ASSUME NEW w \in Window, ThreadStep(w)
      PROVE  SavesInv'
  <2>1. WindowInv(w)' /\ \A b \in Window : b # w => Same(b) /\ Around(b)
    BY <1>1, <1>3, DoesLoad, DoesStore, DoesRefused, DoesLapse, DoesAnswerFlush,
       DoesSend
    DEF ThreadStep
  <2>2. Types'
    BY <1>1, <1>3, ThreadTypes
  <2> QED
    BY <1>1, <2>1, <2>2, StepOfOne DEF SavesInv
<1>4. ASSUME NEW w \in Window, ControllerStep(w), ~FailPersistence(w)
      PROVE  SavesInv'
  <2>1. WindowInv(w)' /\ \A b \in Window : b # w => Same(b) /\ Around(b)
    BY <1>1, <1>4, DoesQueueSaves, DoesPoll, DoesFlush, DoesQuit, DoesFlushed
    DEF ControllerStep
  <2>2. Types'
    BY <1>1, <1>4, PollTypes, LeavingTypes DEF ControllerStep
  <2> QED
    BY <1>1, <2>1, <2>2, StepOfOne DEF SavesInv
<1>5. ASSUME NEW r \in late, LateCommit(r)
      PROVE  SavesInv'
  <2>1. r.window \in Window
    BY <1>1 DEF Types
  <2>2. /\ WindowInv(r.window)'
        /\ \A b \in Window : b # r.window => Same(b) /\ Around(b)
    BY <1>1, <1>5, <2>1, DoesLateCommit
  <2>3. Types'
    BY <1>1, <1>5, LateTypes
  <2> QED
    BY <1>1, <2>1, <2>2, <2>3, StepOfOne DEF SavesInv
<1>6. CASE UNCHANGED vars
  <2>1. Types'
    BY <1>1, <1>6 DEF Types, vars, storeVars, controllerVars, skipVars, threadVars
  <2>2. \A b \in Window : Same(b) /\ Around(b)
    BY <1>6 DEF Same, Around, vars, storeVars, controllerVars, skipVars, threadVars
  <2> QED
    BY <1>1, <2>1, <2>2, OthersKeep DEF SavesInv
<1> QED
  <2>1. ASSUME NEW w \in Window, FailPersistence(w)
        PROVE  SavesInv'
    <3>1. Canonical \in View
      BY DEF View
    <3> QED
      BY <1>7, <2>1, <3>1
  <2> QED
    BY <1>2, <1>3, <1>4, <1>5, <1>6, <1>7, <2>1 DEF Next, ControllerStep

\* The invariant of windows that save a source's views through the shared
\* worker (handle_memory_event, queue_memory_saves, flush_memory,
\* shared_worker, save_sources_and_views) holds in every reachable state.
THEOREM SavesInvariant == Spec => []SavesInv
  BY SavesInitially, SavesNext, PTL DEF Spec

\* A window that reports a clean exit (flush_memory) after its load was answered
\* has committed the last state of every view it shows, whatever timed out,
\* was refused, or was committed late.
THEOREM SavesCleanExit == Spec => []CleanExitIsSavedOnceLoaded
<1>1. SavesInv => CleanExitIsSavedOnceLoaded
  BY DEF SavesInv, WindowInv, Leaving, CleanExitIsSavedOnceLoaded
<1> QED
  BY <1>1, SavesInvariant, PTL

\* A commit that is accepted, in time or late, is of a base that is the window's.
LEMMA CommitsOnTop ==
  ASSUME SavesInv, Next, NEW w \in Window, NEW v \in View,
         Commits(w, v), adopted[w][v] # Nothing
  PROVE  OnTop(w, v)
<1>1. Types /\ \A b \in Window : WindowInv(b)
  BY DEF SavesInv
<1>2. ASSUME NEW b \in Window, NEW u \in View, NEW base \in Version,
             NEW x \in Value,
             Commit(b, u, base, x), Accepts(u, base),
             base # Nothing => base = bases[b][u]
      PROVE  OnTop(w, v)
  <2>1. b = w /\ u = v
    BY <1>1, <1>2, CommitTypes DEF Commits
  <2>2. adopted[w][v] = bases[w][v]
    BY <1>1 DEF WindowInv, Basis
  <2> QED
    BY <1>2, <2>1, <2>2 DEF OnTop, Blank, Accepts
<1>3. ASSUME NEW b \in Window, Store(b)
      PROVE  OnTop(w, v)
  <2> DEFINE c == Head(commands[b])
             base == IF c.kind = "create" THEN Nothing ELSE bases[b][c.view]
  <2>1. c \in Request /\ c.kind \in {"save", "create"}
    BY <1>1, <1>3, TakeFacts DEF Store
  <2>2. c.view \in View /\ c.value \in Value
    BY <2>1, RequestFacts
  <2>3. base \in Version /\ (base # Nothing => base = bases[b][c.view])
    BY <1>1, <2>2 DEF Types, Version
  <2>4. Accepts(c.view, base) /\ Commit(b, c.view, base, c.value)
    BY <1>3 DEF Store, Commits
  <2> QED
    BY <1>2, <2>2, <2>3, <2>4
<1>4. ASSUME NEW r \in late, LateCommit(r)
      PROVE  OnTop(w, v)
  <2>1. r.window \in Window /\ r.view \in View /\ r.value \in Value /\ r.base \in Version
    BY <1>1 DEF Types
  <2>2. r.base # Nothing => r.base = bases[r.window][r.view]
    BY <1>1, <2>1 DEF WindowInv, Basis
  <2> QED
    BY <1>2, <1>4, <2>1, <2>2 DEF LateCommit
<1>5. wrote' # wrote
  BY DEF Commits
<1>6. ASSUME NEW b \in Window,
             \/ OpenWindow(b) \/ Quit(b) \/ Deadline(b)
             \/ \E u \in View, x \in Value : Edit(b, u, x)
             \/ \E x \in Value : Fork(b, x)
      PROVE  UNCHANGED wrote
  BY <1>6 DEF OpenWindow, Quit, Deadline, Edit, Fork
<1>7. ASSUME NEW b \in Window, ThreadStep(b), ~Store(b)
      PROVE  UNCHANGED wrote
  BY <1>7 DEF ThreadStep, Load, Refused, Lapse, AnswerFlush, Send
<1>8. ASSUME NEW b \in Window, ControllerStep(b)
      PROVE  UNCHANGED wrote
  BY <1>8 DEF ControllerStep, Tick, Poll, FailPersistence, SubmitFinal, Flush, Drained,
              Unanswered, Flushed
<1>9. ASSUME NEW b \in Window, NEW u \in View, Publish(b, u) \/ RestoreEnds(b, u)
      PROVE  UNCHANGED wrote
  BY <1>9 DEF Publish, RestoreEnds
<1> QED
  BY <1>3, <1>4, <1>5, <1>6, <1>7, <1>8, <1>9 DEF Next

\* A commit by a window that restored the view replaces the very version its
\* state builds on, or a row with nobody's state in it: no update is lost to
\* it, not even by a request that is carried out late (SaveBases,
\* save_sources_and_views).
THEOREM SavesNoLostUpdate == Spec => NoLostUpdateOnceRestored
<1>1. SavesInv /\ [Next]_vars =>
        [\A w \in Window, v \in View :
            Commits(w, v) /\ adopted[w][v] # Nothing => OnTop(w, v)]_vars
  BY CommitsOnTop
<1> QED
  BY <1>1, SavesInvariant, PTL DEF Spec, NoLostUpdateOnceRestored
=============================================================================
