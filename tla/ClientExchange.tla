--------------------------- MODULE ClientExchange ---------------------------
(***************************************************************************)
(* One window's connection to the shared worker (WorkerClient in           *)
(* crates/lvu-shared/src/client.rs, serve_connection in worker.rs).  The   *)
(* window's tasks take turns on the connection; the worker answers its     *)
(* requests in the order in which they came.  There are three exchanges:   *)
(* control requests (roundtrip), store methods (store_with_timeout), and   *)
(* the union commit and status calls (store_recoverable), which outlive a  *)
(* timeout of their own.                                                   *)
(*                                                                         *)
(* A read returns whatever frames have arrived, one or several.  Frames    *)
(* are events here: bytes, partial frames and decoding are left out, and   *)
(* the worker never sends what a request did not ask for.                  *)
(***************************************************************************)
EXTENDS Naturals, FiniteSets, Sequences, SequencesExt

CONSTANTS
    MaxRequests,    \* how many requests the window makes
    MaxStale        \* MAX_STALE_REQUEST_IDS

Request == 1..MaxRequests
Kinds == {"control", "store", "recoverable"}
None == 0

VARIABLES
    next,       \* next_request
    kind,       \* what each request was
    queue,      \* requests on their way to the worker, or being served
    wire,       \* events on their way back: [id, kind], [None, "notice"]
    current,    \* the request whose exchange is running, or None
    batch,      \* what its roundtrip has collected
    in_flight,
    retired,
    stale,      \* stale_request_ids
    closed,     \* the worker has closed the connection
    answer,     \* history: the id of the reply that answered each request
    culprit     \* history: the id of the event that retired the connection

vars == <<next, kind, queue, wire, current, batch, in_flight, retired, stale,
          closed, answer, culprit>>

Init ==
    /\ next = 1 /\ kind = [i \in Request |-> "none"]
    /\ queue = <<>> /\ wire = <<>>
    /\ current = None /\ batch = <<>>
    /\ in_flight = FALSE /\ retired = FALSE /\ stale = <<>> /\ closed = FALSE
    /\ answer = [i \in Request |-> None] /\ culprit = None

Event(i) == [id |-> i, kind |-> kind[i]]
Notice == [id |-> None, kind |-> "notice"]
IsStore(e) == e.kind \in {"store", "recoverable"}

-----------------------------------------------------------------------------
(* The window *)

\* retire: the socket is shut down, so nothing that is under way matters.
Retire(event) ==
    /\ retired' = TRUE /\ in_flight' = FALSE
    /\ current' = None /\ batch' = <<>> /\ queue' = <<>> /\ wire' = <<>>
    /\ culprit' = event
    /\ UNCHANGED <<next, kind, stale, closed, answer>>

\* begin_exchange, and the write of the request.
Begin(k) ==
    /\ current = None /\ ~retired
    /\ IF in_flight
       THEN Retire(None)
       ELSE /\ next \in Request
            /\ next' = next + 1
            /\ kind' = [kind EXCEPT ![next] = k]
            /\ queue' = Append(queue, next)
            /\ current' = next
            /\ in_flight' = TRUE
            /\ UNCHANGED <<wire, batch, retired, stale, closed, answer, culprit>>

Answered(events, reply) ==
    /\ answer' = [answer EXCEPT ![current] = reply]
    /\ current' = None /\ batch' = <<>> /\ in_flight' = FALSE
    /\ wire' = events
    /\ UNCHANGED <<next, kind, queue, retired, stale, closed, culprit>>

\* The events of one read, and what is left for the next.
Arrived(n) == SubSeq(wire, 1, n)
Left(n) == SubSeq(wire, n + 1, Len(wire))

\* roundtrip collects; its first read is long, the others wait for a grace.
Collect(n) ==
    /\ current # None /\ kind[current] = "control"
    /\ n \in 1..Len(wire)
    /\ batch' = batch \o Arrived(n)
    /\ wire' = Left(n)
    /\ UNCHANGED <<next, kind, queue, current, in_flight, retired, stale,
                   closed, answer, culprit>>

\* check_batch: notices may come along, one event answers, nothing else may.
IsFault(e) == e.kind # "notice" /\ (IsStore(e) \/ e.id # current)
Faults == {k \in DOMAIN batch : IsFault(batch[k])}
CheckBatch == IF Faults = {} THEN None ELSE batch[Min(Faults)].id
Primaries == {k \in DOMAIN batch : batch[k].id = current}

\* The grace, or the deadline, is over.
Conclude ==
    /\ current # None /\ kind[current] = "control"
    /\ batch # <<>>
    /\ IF CheckBatch = None /\ Cardinality(Primaries) = 1
       THEN Answered(wire, batch[Min(Primaries)].id)
       ELSE Retire(CheckBatch)

\* Mutant: the reply that is there is taken for the answer.
MatchAny(fresh, n) ==
    LET e == wire[Min(fresh)] IN
    IF Cardinality(fresh) > 1 \/ ~IsStore(e)
    THEN Retire(e.id)
    ELSE Answered(Left(n), e.id)

\* What a store exchange's read of n events is left with, by their places:
\* there must be one, and it must be the answer.
Match(fresh, n) ==
    LET e == wire[Min(fresh)] IN
    IF Cardinality(fresh) > 1 \/ ~IsStore(e) \/ e.id # current
    THEN Retire(e.id)
    ELSE Answered(Left(n), e.id)

StoreRead(n) ==
    /\ current # None /\ kind[current] = "store"
    /\ n \in 1..Len(wire)
    /\ Match(1..n, n)

Remembered(e) == IsStore(e) /\ e.id # current /\ Contains(stale, e.id)

\* store_recoverable drains the late answers of attempts it remembers.
RecoverableRead(n) ==
    LET fresh == {k \in 1..n : ~Remembered(wire[k])} IN
    /\ current # None /\ kind[current] = "recoverable"
    /\ n \in 1..Len(wire)
    /\ IF fresh = {}
       THEN /\ wire' = Left(n)
            /\ UNCHANGED <<next, kind, queue, current, batch, in_flight,
                           retired, stale, closed, answer, culprit>>
       ELSE Match(fresh, n)

\* remember_stale keeps the newest.
RememberStale(i) ==
    Append(IF Len(stale) >= MaxStale THEN Tail(stale) ELSE stale, i)

\* The exchange's own bound has passed without an answer.
Timeout ==
    /\ current # None
    /\ batch = <<>>
    /\ IF kind[current] = "recoverable"
       THEN /\ stale' = RememberStale(current)
            /\ current' = None /\ in_flight' = FALSE
            /\ UNCHANGED <<next, kind, queue, wire, batch, retired, closed,
                           answer, culprit>>
       ELSE Retire(None)

\* Mutant: an exchange that is dropped leaves no mark.
CancelUnmarked ==
    /\ current # None
    /\ kind[current] # "recoverable"
    /\ current' = None /\ batch' = <<>> /\ in_flight' = FALSE
    /\ UNCHANGED <<next, kind, queue, wire, retired, stale, closed, answer, culprit>>

\* The caller's task is dropped inside an exchange.  The union calls run
\* without a timer of the caller around them, and are not.
Cancel ==
    /\ current # None
    /\ kind[current] # "recoverable"
    /\ current' = None /\ batch' = <<>>
    /\ UNCHANGED <<next, kind, queue, wire, in_flight, retired, stale, closed,
                   answer, culprit>>

EndOfStream ==
    /\ current # None /\ closed /\ wire = <<>> /\ batch = <<>>
    /\ Retire(None)

-----------------------------------------------------------------------------
(* The worker *)

\* dispatch_request, and the flush of its replies.  A start or a restart may
\* send a warning after its answer.
Serve ==
    /\ queue # <<>> /\ ~closed
    /\ queue' = Tail(queue)
    /\ \/ wire' = Append(wire, Event(Head(queue)))
       \/ /\ kind[Head(queue)] = "control"
          /\ wire' = wire \o <<Event(Head(queue)), Notice>>
    /\ UNCHANGED <<next, kind, current, batch, in_flight, retired, stale,
                   closed, answer, culprit>>

\* The worker stops, or gives the connection up.
CloseConnection ==
    /\ ~closed
    /\ closed' = TRUE /\ queue' = <<>>
    /\ UNCHANGED <<next, kind, wire, current, batch, in_flight, retired, stale,
                   answer, culprit>>

-----------------------------------------------------------------------------

Read == \E n \in 1..Len(wire) : Collect(n) \/ StoreRead(n) \/ RecoverableRead(n)

Next ==
    \/ \E k \in Kinds : Begin(k)
    \/ Read \/ Conclude \/ Timeout \/ Cancel \/ EndOfStream
    \/ Serve \/ CloseConnection

Spec == Init /\ [][Next]_vars

-----------------------------------------------------------------------------
(* Properties *)

\* No reply ever answers a request other than its own, however many exchanges
\* timed out or were dropped before it (check_batch, store_with_timeout,
\* store_recoverable).
AnswersOwnRequest == \A i \in Request : answer[i] \in {None, i}

\* Between two exchanges of a connection that is still usable, every reply yet
\* to come is one the window remembers, as long as there are no more of them
\* than it can remember (begin_exchange, in_flight, remember_stale).
Outstanding == {queue[k] : k \in DOMAIN queue}
    \cup {wire[k].id : k \in {j \in DOMAIN wire : wire[j].kind # "notice"}}

LateRepliesRemembered ==
    /\ ~retired /\ ~in_flight /\ ~closed
    /\ Cardinality(Outstanding) <= MaxStale
    => \A i \in Outstanding : Contains(stale, i)

\* A late reply to an attempt that is remembered as stale is drained, and does
\* not cost the connection.
LateReplyDrained == culprit # None => ~Contains(stale, culprit)
=============================================================================
