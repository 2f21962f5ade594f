---------------------------- MODULE JournalLock ----------------------------
(***************************************************************************)
(* Who may write a journal: Journal::open, the drop of a Journal, and      *)
(* writer_present (crates/lvu-core/src/journal.rs), step by step between   *)
(* the points where another thread or process can run.                     *)
(*                                                                         *)
(* The threads of Prober call writer_present; the others open the journal. *)
(* An opener reserves the path in the registry of its process before it    *)
(* touches the lock file, and gives the reservation back only after the    *)
(* descriptor is closed: `_lock` is declared before `_claim`, and fields   *)
(* are dropped in that order.                                              *)
(***************************************************************************)
EXTENDS RecordLock

CONSTANT Prober
ASSUME ProberAssumption == Prober \subseteq Thread

Opener == Thread \ Prober

(***************************************************************************)
(* Journal::open                                                           *)
(***************************************************************************)

\* Mutant: the claim is taken without asking whether it is there.
TakeClaimAlways(t) ==
    /\ pc[t] = "idle"
    /\ registry' = registry \cup {ProcessOf[t]}
    /\ Goto(t, "reserved")
    /\ UNCHANGED holder

\* PathClaim::take answers Some: the path was not in the registry.
TakeClaim(t) ==
    /\ pc[t] = "idle"
    /\ ProcessOf[t] \notin registry
    /\ registry' = registry \cup {ProcessOf[t]}
    /\ Goto(t, "reserved")
    /\ UNCHANGED holder

\* The lock file is opened, or cannot be (`?` drops the claim).
OpenLockFile(t) ==
    /\ pc[t] = "reserved"
    /\ \/ Goto(t, "opened")
       \/ Goto(t, "closed")
    /\ UNCHANGED <<registry, holder>>

\* take_record_lock: it is ours now; or another process has it, or the call
\* failed.
TakeRecordLock(t) ==
    /\ pc[t] = "opened"
    /\ \/ Lockable(t) /\ SetLock(t) /\ Goto(t, "holding")
       \/ UNCHANGED holder /\ Goto(t, "refused")
    /\ UNCHANGED registry

(***************************************************************************)
(* The end of a Journal, of a refused open, and of an open that failed     *)
(* after the lock was taken: the descriptor goes first, then the claim.    *)
(***************************************************************************)
\* Mutant: the claim is given back with the descriptor still open, as if
\* `_claim` were declared before `_lock`; the descriptor closes afterwards.
CloseLockAfterClaim(t) ==
    \/ /\ pc[t] \in {"holding", "refused"}
       /\ registry' = registry \ {ProcessOf[t]}
       /\ Goto(t, "unregistered")
       /\ UNCHANGED holder
    \/ /\ pc[t] = "unregistered"
       /\ CloseFile(t)
       /\ Goto(t, "idle")
       /\ UNCHANGED registry

CloseLock(t) ==
    /\ pc[t] \in {"holding", "refused"}
    /\ CloseFile(t)
    /\ Goto(t, "closed")
    /\ UNCHANGED registry

DropClaim(t) ==
    /\ pc[t] = "closed"
    /\ registry' = registry \ {ProcessOf[t]}
    /\ Goto(t, "idle")
    /\ UNCHANGED holder

(***************************************************************************)
(* writer_present                                                          *)
(***************************************************************************)

\* The registry is asked first.  A claimed path is answered from it and
\* nothing changes; "asked" is the point between the answer "not claimed"
\* and the open of the lock file.
AskRegistry(t) ==
    /\ pc[t] = "idle"
    /\ ProcessOf[t] \notin registry
    /\ Goto(t, "asked")
    /\ UNCHANGED <<registry, holder>>

\* The file is opened for F_GETLK, or does not exist or cannot be opened.
OpenToProbe(t) ==
    /\ pc[t] = "asked"
    /\ \/ Goto(t, "probing")
       \/ Goto(t, "idle")
    /\ UNCHANGED <<registry, holder>>

\* The File is dropped with the answer of record_lock_holder.
CloseProbe(t) ==
    /\ pc[t] = "probing"
    /\ CloseFile(t)
    /\ Goto(t, "idle")
    /\ UNCHANGED registry

(***************************************************************************)
(* The specification                                                       *)
(***************************************************************************)
OpenerStep(t) ==
    \/ TakeClaim(t)
    \/ OpenLockFile(t)
    \/ TakeRecordLock(t)
    \/ CloseLock(t)
    \/ DropClaim(t)

ProberStep(t) ==
    \/ AskRegistry(t)
    \/ OpenToProbe(t)
    \/ CloseProbe(t)

JournalLockNext ==
    \/ \E t \in Opener : OpenerStep(t)
    \/ \E t \in Prober : ProberStep(t)
    \/ \E p \in Process : Exit(p)

JournalLockSpec == LockInit /\ [][JournalLockNext]_lockVars

(***************************************************************************)
(* Properties                                                              *)
(***************************************************************************)

\* Type correctness: an opener and a prober go through different places.
JournalLockTypeOK ==
    /\ LockTypeOK
    /\ \A t \in Opener : pc[t] \in {"idle", "reserved", "opened", "holding",
                                   "refused", "closed"}
    /\ \A t \in Prober : pc[t] \in {"idle", "asked", "probing"}

\* The journal's ownership rule (journal.rs, "Journal ownership"): of all
\* the threads of all the processes at most one has the journal open, through
\* any interleaving of opens, refusals, drops and process deaths.
OneWriter ==
    \A t, u \in Opener : pc[t] = "holding" /\ pc[u] = "holding" => t = u

\* An open journal is always backed by the kernel's lock: nothing that
\* another thread of the process does with the lock file (a refused open, a
\* probe by writer_present) has silently dropped it.
LockBacksWriter ==
    \A t \in Opener : pc[t] = "holding" => holder = ProcessOf[t]

(***************************************************************************)
(* What makes LockBacksWriter inductive: while a thread is anywhere        *)
(* between the claim and its drop, the claim is there, and no other thread *)
(* of the process is in that stretch.                                      *)
(***************************************************************************)
Claiming(t) == pc[t] \in {"reserved", "opened", "holding", "refused", "closed"}

ClaimProtects ==
    \A t \in Opener : Claiming(t) =>
        /\ ProcessOf[t] \in registry
        /\ \A u \in Opener : Claiming(u) /\ ProcessOf[u] = ProcessOf[t] => u = t

\* The condition under which probing is harmless: no process both probes the
\* journal and opens it.
ProbersApart ==
    \A t \in Prober, u \in Opener : ProcessOf[t] # ProcessOf[u]
=============================================================================
