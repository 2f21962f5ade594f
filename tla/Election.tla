------------------------------ MODULE Election ------------------------------
(***************************************************************************)
(* How windows find, or start, the one shared worker of a capture root:    *)
(* ensure_worker, attach and spawn_child (crates/lvu-shared/src/client.rs) *)
(* in each window, run_child (child.rs) in each worker child, and the two  *)
(* files they meet at, owner.lock and control.sock (election.rs).          *)
(*                                                                         *)
(* Each process has one thread in this code, so a take of the owner lock   *)
(* is one step here; OwnerLock has the steps inside it and shows that they *)
(* elect one.  What a worker does between its start and its stop, and when *)
(* it decides to stop, is ViewerLifetime.                                  *)
(***************************************************************************)
EXTENDS Naturals, FiniteSets

CONSTANTS
    Window,     \* the window processes
    Child,      \* the worker children; a slot is reused once it has ended
    NoOne       \* nobody has the owner lock, no file is at the socket path

ASSUME ElectionAssumption ==
    /\ Window \cap Child = {}
    /\ NoOne \notin Window \cup Child

VARIABLES
    owner,      \* who has the record lock on owner.lock
    socket,     \* the child that bound the file at the socket path, or NoOne
    window,     \* where each window is
    spawned,    \* ensure_worker's `spawned`: the windows that used their budget
    child,      \* where each child is
    peer,       \* the child at the other end of a window's connection, if any
    accepted    \* the windows whose connection a worker's serve has accepted

lines == <<peer, accepted>>

vars == <<owner, socket, window, spawned, child, lines>>

Init ==
    /\ owner = NoOne
    /\ socket = NoOne
    /\ window = [w \in Window |-> "idle"]
    /\ spawned = {}
    /\ child = [c \in Child |-> "none"]
    /\ peer = [w \in Window |-> NoOne]
    /\ accepted = {}

WindowGoes(w, place) == window' = [window EXCEPT ![w] = place]
ChildGoes(c, place) == child' = [child EXCEPT ![c] = place]

\* The file at the path is bound to a listener that is open.
Listens(c) == child[c] = "listening"

\* The connections of some windows end, at both of their ends.
HangUp(W) ==
    /\ peer' = [w \in Window |-> IF w \in W THEN NoOne ELSE peer[w]]
    /\ accepted' = accepted \ W

\* The child's process ends, and every connection to it.
ProcessEnds(c) ==
    /\ ChildGoes(c, "none")
    /\ HangUp({w \in Window : peer[w] = c})

(***************************************************************************)
(* A window: ensure_worker                                                 *)
(***************************************************************************)

\* A call of ensure_worker begins, with a fresh budget of one spawn.
Ensure(w) ==
    /\ window[w] = "idle"
    /\ WindowGoes(w, "ensuring")
    /\ spawned' = spawned \ {w}
    /\ UNCHANGED <<owner, socket, child, lines>>

\* try_take_owner answers None: somebody has the lock.
OwnerTaken(w) ==
    /\ window[w] = "ensuring"
    /\ owner # NoOne
    /\ WindowGoes(w, "looking")
    /\ UNCHANGED <<owner, socket, spawned, child, lines>>

\* try_take_owner answers Some(_guard), which lives to the end of the arm.
WinOwner(w) ==
    /\ window[w] = "ensuring"
    /\ owner = NoOne
    /\ owner' = w
    /\ WindowGoes(w, IF w \in spawned THEN "won" ELSE "spawning")
    /\ UNCHANGED <<socket, spawned, child, lines>>

\* spawn_child reports the child, or an error that ends the call; a child
\* that started too late for the report runs until its reaper kills it.
Spawn(w) ==
    /\ window[w] = "spawning"
    /\ UNCHANGED <<socket, lines>>
    /\ \/ \E c \in Child :
            /\ child[c] = "none"
            /\ ChildGoes(c, "starting")
            /\ spawned' = spawned \cup {w}
            /\ WindowGoes(w, "won")
            /\ UNCHANGED owner
       \/ /\ owner' = NoOne
          /\ WindowGoes(w, "idle")
          /\ UNCHANGED spawned
          /\ \/ UNCHANGED child
             \/ \E c \in Child : child[c] = "none" /\ ChildGoes(c, "starting")

\* The end of the arm drops the guard.
DropWindowGuard(w) ==
    /\ window[w] = "won"
    /\ owner' = NoOne
    /\ WindowGoes(w, "looking")
    /\ UNCHANGED <<socket, spawned, child, lines>>

\* socket_path.exists(): a path, or another round 25 ms later, or the
\* deadline, which probes the owner on the way out.
Look(w) ==
    /\ window[w] = "looking"
    /\ \/ /\ socket # NoOne
          /\ WindowGoes(w, "connecting")
       \/ /\ socket = NoOne
          /\ \E next \in {"ensuring", "givingup"} : WindowGoes(w, next)
    /\ UNCHANGED <<owner, socket, spawned, child, lines>>

\* owner_is_live of the deadline: the lock is taken when it can be, and
\* dropped again (ProbeDone).
GiveUp(w) ==
    /\ window[w] = "givingup"
    /\ IF owner = NoOne
       THEN owner' = w /\ WindowGoes(w, "probing")
       ELSE UNCHANGED owner /\ WindowGoes(w, "idle")
    /\ UNCHANGED <<socket, spawned, child, lines>>

WindowProbeDone(w) ==
    /\ window[w] = "probing"
    /\ owner' = NoOne
    /\ WindowGoes(w, "idle")
    /\ UNCHANGED <<socket, spawned, child, lines>>

(***************************************************************************)
(* A window: connect                                                       *)
(***************************************************************************)

\* UnixStream::connect: an open listener queues the connection and the Hello
\* is written; a stale or vanished path is a transport error.
Connect(w) ==
    /\ window[w] = "connecting"
    /\ IF \E c \in Child : socket = c /\ Listens(c)
       THEN peer' = [peer EXCEPT ![w] = socket] /\ WindowGoes(w, "greeting")
       ELSE UNCHANGED peer /\ WindowGoes(w, "idle")
    /\ UNCHANGED <<owner, socket, spawned, child, accepted>>

\* The connection's task serves the Hello and the Welcome arrives.  The task
\* outlives serve: it runs until the worker's process ends.
Welcome(w) ==
    /\ window[w] = "greeting"
    /\ w \in accepted
    /\ WindowGoes(w, "attached")
    /\ UNCHANGED <<owner, socket, spawned, child, lines>>

\* The Hello is refused or times out, or the connection ends under it, after
\* which attach may try again.
HelloFails(w) ==
    /\ window[w] = "greeting"
    /\ WindowGoes(w, "idle")
    /\ HangUp({w})
    /\ UNCHANGED <<owner, socket, spawned, child>>

\* The window leaves, or its connection has ended.
Detach(w) ==
    /\ window[w] = "attached"
    /\ WindowGoes(w, "idle")
    /\ HangUp({w})
    /\ UNCHANGED <<owner, socket, spawned, child>>

\* The window process dies and the kernel drops its lock; an I/O error that
\* ends the call leaves the same state.
WindowDies(w) ==
    /\ window[w] # "idle"
    /\ owner' = IF owner = w THEN NoOne ELSE owner
    /\ WindowGoes(w, "idle")
    /\ HangUp({w})
    /\ UNCHANGED <<socket, spawned, child>>

(***************************************************************************)
(* A worker child: run_child                                               *)
(***************************************************************************)

\* Mutant: the election is not asked before the socket is cleared.
ElectWithoutLock(c) ==
    /\ child[c] = "starting"
    /\ owner' = IF owner = NoOne THEN c ELSE owner
    /\ ChildGoes(c, "elected")
    /\ UNCHANGED <<socket, window, spawned, lines>>

\* Mutant: the guard is bound to `_`, which drops it at once.
ElectDropsGuard(c) ==
    /\ child[c] = "starting"
    /\ ChildGoes(c, IF owner = NoOne THEN "elected" ELSE "lost")
    /\ UNCHANGED <<owner, socket, window, spawned, lines>>

\* try_take_owner.
Elect(c) ==
    /\ child[c] = "starting"
    /\ IF owner = NoOne
       THEN owner' = c /\ ChildGoes(c, "elected")
       ELSE UNCHANGED owner /\ ChildGoes(c, "lost")
    /\ UNCHANGED <<socket, window, spawned, lines>>

\* owner_is_live after a lost election: an owner is there, exit INCUMBENT.
ExitIncumbent(c) ==
    /\ child[c] = "lost"
    /\ owner # NoOne
    /\ ChildGoes(c, "none")
    /\ UNCHANGED <<owner, socket, window, spawned, lines>>

\* owner_is_live finds the lock free, which takes it for the length of the
\* probe; the child then exits STARTUP.
ProbeIncumbent(c) ==
    /\ child[c] = "lost"
    /\ owner = NoOne
    /\ owner' = c
    /\ ChildGoes(c, "probing")
    /\ UNCHANGED <<socket, window, spawned, lines>>

ChildProbeDone(c) ==
    /\ child[c] = "probing"
    /\ owner' = NoOne
    /\ ChildGoes(c, "none")
    /\ UNCHANGED <<socket, window, spawned, lines>>

\* The winner removes the socket file it finds.
ClearSocket(c) ==
    /\ child[c] = "elected"
    /\ socket' = NoOne
    /\ ChildGoes(c, "cleared")
    /\ UNCHANGED <<owner, window, spawned, lines>>

\* UnixListener::bind, which wants the path to be free, or fails (exit
\* SOCKET_BIND).
Bind(c) ==
    /\ child[c] = "cleared"
    /\ \/ /\ socket = NoOne
          /\ socket' = c
          /\ ChildGoes(c, "listening")
          /\ UNCHANGED owner
       \/ /\ owner' = NoOne
          /\ ChildGoes(c, "none")
          /\ UNCHANGED socket
    /\ UNCHANGED <<window, spawned, lines>>

\* serve's accept loop takes a connection and spawns its task.
Accept(c) ==
    /\ Listens(c)
    /\ \E w \in Window \ accepted :
        /\ peer[w] = c
        /\ accepted' = accepted \cup {w}
    /\ UNCHANGED <<owner, socket, window, spawned, child, peer>>

\* Mutant: the lock is given back before the listener is closed.
StopServingReleasesFirst(c) ==
    /\ child[c] = "listening"
    /\ owner' = NoOne
    /\ UNCHANGED <<child, socket, window, spawned, lines>>

\* serve returns and drops the listener with the connections it has not
\* accepted; those it has stay up while shutdown stops the captures.
StopServing(c) ==
    /\ child[c] = "listening"
    /\ ChildGoes(c, "stopped")
    /\ HangUp({w \in Window \ accepted : peer[w] = c})
    /\ UNCHANGED <<owner, socket, window, spawned>>

\* drop(_owner), and only then remove_file of the socket.
ReleaseOwner(c) ==
    /\ child[c] = "stopped"
    /\ owner' = NoOne
    /\ ChildGoes(c, "released")
    /\ UNCHANGED <<socket, window, spawned, lines>>

UnlinkSocket(c) ==
    /\ child[c] = "released"
    /\ socket' = NoOne
    /\ ProcessEnds(c)
    /\ UNCHANGED <<owner, window, spawned>>

\* A worker dies at any point, killed or on an error path of run_child (the
\* election's I/O, WorkerService::open): the kernel drops its lock, the
\* socket file stays.
ChildDies(c) ==
    /\ child[c] # "none"
    /\ owner' = IF owner = c THEN NoOne ELSE owner
    /\ ProcessEnds(c)
    /\ UNCHANGED <<socket, window, spawned>>

(***************************************************************************)
(* The specification                                                       *)
(***************************************************************************)
WindowStep(w) ==
    \/ Ensure(w) \/ OwnerTaken(w) \/ WinOwner(w) \/ Spawn(w)
    \/ DropWindowGuard(w) \/ Look(w) \/ GiveUp(w) \/ WindowProbeDone(w)
    \/ Connect(w) \/ Welcome(w) \/ HelloFails(w) \/ Detach(w) \/ WindowDies(w)

ChildStep(c) ==
    \/ Elect(c) \/ ExitIncumbent(c) \/ ProbeIncumbent(c) \/ ChildProbeDone(c)
    \/ ClearSocket(c) \/ Bind(c) \/ Accept(c) \/ StopServing(c)
    \/ ReleaseOwner(c) \/ UnlinkSocket(c) \/ ChildDies(c)

Next ==
    \/ \E w \in Window : WindowStep(w)
    \/ \E c \in Child : ChildStep(c)

Spec == Init /\ [][Next]_vars

(***************************************************************************)
(* Properties                                                              *)
(***************************************************************************)

\* Type correctness.
TypeOK ==
    /\ owner \in Window \cup Child \cup {NoOne}
    /\ socket \in Child \cup {NoOne}
    /\ window \in [Window -> {"idle", "ensuring", "spawning", "won", "looking",
                             "givingup", "probing", "connecting", "greeting",
                             "attached"}]
    /\ spawned \subseteq Window
    /\ child \in [Child -> {"none", "starting", "lost", "probing", "elected",
                           "cleared", "listening", "stopped", "released"}]
    /\ peer \in [Window -> Child \cup {NoOne}]
    /\ accepted \subseteq Window

\* The owner lock is with exactly the process that is in a stretch of code
\* that owns it, whatever crashes: "a killed worker strands no election
\* state" (election.rs), and no two processes believe they were elected.
OwnerAccounted ==
    /\ \A w \in Window :
        owner = w <=> window[w] \in {"spawning", "won", "probing"}
    /\ \A c \in Child :
        owner = c <=> child[c] \in {"probing", "elected", "cleared",
                                   "listening", "stopped"}

\* "We won the election, so any socket file left behind is stale" (run_child):
\* when a winner is about to remove the socket file, no worker answers there.
WinnerClearsStale ==
    \A c, d \in Child : child[c] = "elected" => ~(socket = d /\ Listens(d))

\* The worker of an attached window may have captures running: it serves, or
\* its shutdown has not stopped them all.
WatchesCaptures(w) ==
    /\ window[w] = "attached"
    /\ \E c \in Child : peer[w] = c /\ child[c] \in {"listening", "stopped"}

\* Windows of one capture root share one worker (child.rs, election.rs): no
\* two are attached to two workers that capture, whatever crashes, and
\* whichever hello was in flight while a worker decided to stop.
WindowsShareOneWorker ==
    \A v, w \in Window :
        WatchesCaptures(v) /\ WatchesCaptures(w) => peer[v] = peer[w]

\* A worker that serves can be reached: the socket path is the one it bound.
\* Nobody, an older worker on its way out included, has removed it.
ListenerReachable ==
    \A c \in Child : Listens(c) => socket = c

\* The socket path of a worker that serves on is only ever lost to another
\* worker that has given the lock back and not yet exited.
OnlyLeaversUnlink ==
    [][\A c \in Child :
        Listens(c) /\ socket = c /\ Listens(c)' /\ socket' # c
            => \E d \in Child \ {c} : child[d] = "released"]_vars
=============================================================================
