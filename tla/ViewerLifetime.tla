--------------------------- MODULE ViewerLifetime ---------------------------
(***************************************************************************)
(* How long a shared worker stays: the audience it counts (ViewerSet,      *)
(* crates/lvu-shared/src/lifetime.rs), the accept loop and the connections *)
(* that feed it (WorkerService::serve, serve_connection, dispatch_hello,   *)
(* worker.rs), and the windows at the other end (WorkerClient, client.rs). *)
(*                                                                         *)
(* Each connection is a task of its own in the worker, and a socket in     *)
(* between: what a window does to its end reaches the worker later, and in *)
(* no order with what it does on another connection.  Time is the drain    *)
(* deadline only: it passes at some point after the clock was started.     *)
(***************************************************************************)
EXTENDS Naturals, FiniteSets

CONSTANTS
    Window,         \* the window processes (their pid is what is counted)
    Connection,     \* the connections of a run, numbered as they are opened
    MaxViewers      \* MAX_VIEWERS

VARIABLES
    viewers,    \* ViewerSet::viewers
    drain,      \* ViewerSet::drain_until: "none", "running" or "expired"
    worker,     \* "serving"; "stopping" once serve has returned; "stopped"
    dialed,     \* the window that opened each connection, once it is open
    client,     \* the window's end of each connection
    server,     \* the worker's end of each connection
    overtaken   \* history: the connections that were attached when the goodbye
                \* of another one of the same window was served

vars == <<viewers, drain, worker, dialed, client, server, overtaken>>

\* ViewerSet::new: the drain clock runs from the start.
Init ==
    /\ viewers = {}
    /\ drain = "running"
    /\ worker = "serving"
    /\ dialed = [c \in Connection |-> CHOOSE w \in Window : TRUE]
    /\ client = [c \in Connection |-> "none"]
    /\ server = client
    /\ overtaken = {}

\* A worker that nobody ever came to, after its end.
Gone ==
    /\ viewers = {} /\ drain = "expired" /\ worker = "stopped"
    /\ dialed = [c \in Connection |-> CHOOSE w \in Window : TRUE]
    /\ client = [c \in Connection |-> "none"]
    /\ server = client
    /\ overtaken = {}

\* The window has an end open: it holds its viewer lock and dials no other.
Engaged(w) ==
    \E c \in Connection :
        dialed[c] = w /\ client[c] \in {"connected", "waiting", "attached"}

ClientGoes(c, place) == client' = [client EXCEPT ![c] = place]
ServerGoes(c, place) == server' = [server EXCEPT ![c] = place]

(***************************************************************************)
(* The window's end: connect_with_timeout, retire, detach, drop            *)
(***************************************************************************)

\* take_viewer_lock, then UnixStream::connect to the open listener; serve
\* accepts and spawns serve_connection.  A window whose last connection has
\* failed dials anew without waiting for the worker to see that one's end.
Dial(w, c) ==
    /\ worker = "serving"
    /\ client[c] = "none"
    /\ \A d \in Connection : d < c => client[d] # "none"
    /\ ~Engaged(w)
    /\ dialed' = [dialed EXCEPT ![c] = w]
    /\ ClientGoes(c, "connected")
    /\ ServerGoes(c, "accepted")
    /\ UNCHANGED <<viewers, drain, worker, overtaken>>

\* The Hello is written and its answer waited for.
SendHello(c) ==
    /\ client[c] = "connected"
    /\ server[c] = "accepted"
    /\ ClientGoes(c, "waiting")
    /\ ServerGoes(c, "hello")
    /\ UNCHANGED <<viewers, drain, worker, dialed, overtaken>>

\* The Welcome arrives in time.
Welcomed(c) ==
    /\ client[c] = "waiting"
    /\ server[c] = "attached"
    /\ ClientGoes(c, "attached")
    /\ UNCHANGED <<viewers, drain, worker, dialed, server, overtaken>>

\* The window's end is closed: a goodbye, a retired connection, a hello that
\* timed out or was refused, the end of the window, or the worker's exit.
ClientCloses(c) ==
    /\ client[c] \in {"connected", "waiting", "attached"}
    /\ ClientGoes(c, "closed")
    /\ UNCHANGED <<viewers, drain, worker, dialed, server, overtaken>>

(***************************************************************************)
(* The worker's end: serve_connection and dispatch_hello                   *)
(***************************************************************************)

\* ViewerSet::hello: a window that is counted already holds no new slot.
Admits(w) == w \in viewers \/ Cardinality(viewers) < MaxViewers

\* Mutant: an admitted window is welcomed with no slot of its own.
DispatchHelloUncounted(c) ==
    /\ server[c] = "hello"
    /\ worker # "stopped"
    /\ drain' = "none"
    /\ ServerGoes(c, "attached")
    /\ UNCHANGED <<viewers, worker, dialed, client, overtaken>>

\* The connection's task reads the Hello, when the runtime gets to it; the
\* tasks outlive serve, until the process exits.
DispatchHello(c) ==
    /\ server[c] = "hello"
    /\ worker # "stopped"
    /\ IF Admits(dialed[c])
       THEN /\ viewers' = viewers \cup {dialed[c]}
            /\ drain' = IF dialed[c] \in viewers THEN drain ELSE "none"
            /\ ServerGoes(c, "attached")
       ELSE /\ ServerGoes(c, "closed")
            /\ UNCHANGED <<viewers, drain>>
    /\ UNCHANGED <<worker, dialed, client, overtaken>>

\* The goodbye goes by the window's pid, whatever else of it is attached.
Overtakes(c) ==
    overtaken' = overtaken \cup
        {d \in Connection \ {c} : dialed[d] = dialed[c] /\ server[d] = "attached"}

\* Mutant: the last goodbye forgets to start the drain clock.
GoodbyeNoDrain(c) ==
    /\ server[c] = "attached"
    /\ client[c] = "closed"
    /\ worker # "stopped"
    /\ viewers' = viewers \ {dialed[c]}
    /\ ServerGoes(c, "closed")
    /\ Overtakes(c)
    /\ UNCHANGED <<drain, worker, dialed, client>>

\* EOF, a failed write or a Goodbye ends the loop: ViewerSet::goodbye.
Goodbye(c) ==
    /\ server[c] = "attached"
    /\ client[c] = "closed"
    /\ worker # "stopped"
    /\ viewers' = viewers \ {dialed[c]}
    /\ drain' = IF viewers' = {} /\ drain = "none" THEN "running" ELSE drain
    /\ ServerGoes(c, "closed")
    /\ Overtakes(c)
    /\ UNCHANGED <<worker, dialed, client>>

\* EOF before any Hello: nobody was attached.
EndOfFile(c) ==
    /\ server[c] = "accepted"
    /\ client[c] = "closed"
    /\ worker # "stopped"
    /\ ServerGoes(c, "closed")
    /\ UNCHANGED <<viewers, drain, worker, dialed, client, overtaken>>

(***************************************************************************)
(* The accept loop                                                         *)
(***************************************************************************)

\* The deadline passes.
DrainExpires ==
    /\ drain = "running"
    /\ drain' = "expired"
    /\ UNCHANGED <<viewers, worker, dialed, client, server, overtaken>>

\* should_stop: serve returns and its listener is closed.
Stop ==
    /\ worker = "serving"
    /\ drain = "expired"
    /\ viewers = {}
    /\ worker' = "stopping"
    /\ UNCHANGED <<viewers, drain, dialed, client, server, overtaken>>

\* WorkerService::shutdown ends and the process exits with its connections.
Exits ==
    /\ worker = "stopping"
    /\ worker' = "stopped"
    /\ server' = [c \in Connection |->
                    IF server[c] = "none" THEN "none" ELSE "closed"]
    /\ UNCHANGED <<viewers, drain, dialed, client, overtaken>>

(***************************************************************************)
(* The specification                                                       *)
(***************************************************************************)
WindowStep(c) ==
    \/ \E w \in Window : Dial(w, c)
    \/ SendHello(c) \/ Welcomed(c) \/ ClientCloses(c)

WorkerStep(c) == DispatchHello(c) \/ Goodbye(c) \/ EndOfFile(c)

Next ==
    \/ \E c \in Connection : WindowStep(c) \/ WorkerStep(c)
    \/ DrainExpires
    \/ Stop
    \/ Exits

\* The worker is gone, and nobody can dial it any more.
Over == worker = "stopped" /\ UNCHANGED vars

Spec == Init /\ [][Next]_vars

\* The worker's tasks run when they can, its accept loop polls should_stop
\* every second, the clock advances, and shutdown is bounded.  Windows owe
\* nothing.
Fairness ==
    /\ \A c \in Connection : WF_vars(WorkerStep(c))
    /\ WF_vars(DrainExpires)
    /\ WF_vars(Stop)
    /\ WF_vars(Exits)

FairSpec == Spec /\ Fairness

(***************************************************************************)
(* Properties                                                              *)
(***************************************************************************)

\* Type correctness; the audience stays within the cap.
TypeOK ==
    /\ viewers \subseteq Window
    /\ Cardinality(viewers) <= MaxViewers
    /\ drain \in {"none", "running", "expired"}
    /\ worker \in {"serving", "stopping", "stopped"}
    /\ dialed \in [Connection -> Window]
    /\ client \in [Connection ->
                    {"none", "connected", "waiting", "attached", "closed"}]
    /\ server \in [Connection ->
                    {"none", "accepted", "hello", "attached", "closed"}]
    /\ overtaken \subseteq Connection

\* A window whose connection is up at both ends.
Watching(c) == client[c] = "attached" /\ server[c] = "attached"

\* The audience is exactly the windows that have a connection attached which
\* no goodbye of an older one has overtaken: no order of hellos, ends of file
\* and redials leaves a slot behind, or drops any other window (ViewerSet).
AudienceExact ==
    worker # "stopped" =>
        viewers = {dialed[c] : c \in {d \in Connection \ overtaken : server[d] = "attached"}}

\* "Shutdown fires only when no viewers remain past the grace deadline"
\* (ViewerSet): the worker does not stop serving under a window that watches.
StaysWhileWatched ==
    [][worker = "serving" /\ worker' = "stopping"
        => \A c \in Connection : ~Watching(c)]_vars

\* When the last window has gone for good the worker ends by itself: no
\* order of hellos and goodbyes leaves it without a drain clock.
Abandoned ==
    \A c \in Connection : client[c] \in {"none", "closed"}

EndsWhenAbandoned == <>[]Abandoned => <>(worker = "stopped")
=============================================================================
