-------------------------------- MODULE Host --------------------------------
(***************************************************************************)
(* What the processes of one host share, one part of it in each behaviour: *)
(* the journal of a source; the locks on it and on the worker election,    *)
(* which the same processes go for, and which the end of a process drops   *)
(* together; the election of the worker; and how long the worker stays.    *)
(* The parts that are not under way rest in their initial states.          *)
(***************************************************************************)
EXTENDS Journal, JournalLock, Election

CONSTANTS       \* of ViewerLifetime
    Viewer,     \* the windows whose stay keeps the worker
    Connection, MaxViewers

ASSUME ViewerAssumption ==
    /\ Viewer # {}
    /\ Connection \subseteq Nat
    /\ MaxViewers \in Nat

VARIABLES
    part,       \* the part that is under way
    held,       \* the election's registries (held_paths)
    elected,    \* the process that has the record lock of owner.lock
    electing,   \* where each process is in the election's code
    viewers, drain, worker, dialed, client, server, overtaken   \* of ViewerLifetime

lockPartVars == <<lockVars, held, elected, electing>>
viewerVars == <<viewers, drain, worker, dialed, client, server, overtaken>>
hostVars == <<part, journalVars, lockPartVars, vars, viewerVars>>

\* One thread of each process takes part in the election, and may also ask
\* whether an owner is live; the process stands for it.
Owner == INSTANCE OwnerLock WITH
    Thread <- Process, ProcessOf <- [p \in Process |-> p],
    Probing <- Process, registry <- held, holder <- elected, pc <- electing

Viewers == INSTANCE ViewerLifetime WITH Window <- Viewer

HostInit ==
    /\ JournalInit /\ LockInit /\ Owner!LockInit /\ Init
    /\ \/ part \in {"journal", "locks", "election"} /\ Viewers!Gone
       \/ part = "viewers" /\ Viewers!Init

LockStep ==
    \/ /\ \/ \E t \in Opener : OpenerStep(t)
          \/ \E t \in Prober : ProberStep(t)
       /\ UNCHANGED <<held, elected, electing>>
    \/ (\E p \in Process : Owner!Step(p)) /\ UNCHANGED lockVars
    \/ \E p \in Process : Exit(p) /\ Owner!Exit(p)

HostNext ==
    \/ /\ part = "journal" /\ JournalNext
       /\ UNCHANGED <<part, lockPartVars, vars, viewerVars>>
    \/ /\ part = "locks" /\ LockStep
       /\ UNCHANGED <<part, journalVars, vars, viewerVars>>
    \/ /\ part = "election" /\ Next
       /\ UNCHANGED <<part, journalVars, lockPartVars, viewerVars>>
    \/ /\ part = "viewers" /\ (Viewers!Next \/ Viewers!Over)
       /\ UNCHANGED <<part, journalVars, lockPartVars, vars>>

HostSpec == HostInit /\ [][HostNext]_hostVars /\ Viewers!Fairness

\* At most one election guard exists (OwnerGuard), across all processes, and
\* it is backed by the kernel's lock for as long as it lives.
OneGuard == Owner!OneGuard

\* The audience is exactly the windows with a connection that no goodbye of an
\* older one has overtaken (ViewerSet).
AudienceExact == Viewers!AudienceExact

\* A worker whose last window has gone for good ends by itself.
EndsWhenAbandoned == Viewers!EndsWhenAbandoned
=============================================================================
