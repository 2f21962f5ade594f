----------------------------- MODULE OwnerLock -----------------------------
(***************************************************************************)
(* The election of the shared worker: try_take_owner, the drop of an       *)
(* OwnerGuard, and owner_is_live (crates/lvu-shared/src/election.rs), step *)
(* by step.  take_viewer_lock and ViewerGuard go through the same steps on *)
(* another file.                                                           *)
(*                                                                         *)
(* It differs from the journal's lock (JournalLock) in the order of the    *)
(* release: the path leaves the registry first and the descriptor closes   *)
(* afterwards; and in the probe, which takes the lock to see whether it    *)
(* can be taken.                                                           *)
(***************************************************************************)
EXTENDS RecordLock

CONSTANT Probing    \* the threads that also call owner_is_live

(***************************************************************************)
(* try_take_owner                                                          *)
(***************************************************************************)

\* `held.insert`: a path that is there already answers None.
Reserve(t) ==
    /\ pc[t] = "idle"
    /\ ProcessOf[t] \notin registry
    /\ registry' = registry \cup {ProcessOf[t]}
    /\ Goto(t, "reserved")
    /\ UNCHANGED holder

\* open_lock_file; when it fails the reservation is removed.
OpenOwnerFile(t) ==
    /\ pc[t] = "reserved"
    /\ UNCHANGED holder
    /\ \/ Goto(t, "opened") /\ UNCHANGED registry
       \/ Goto(t, "idle") /\ registry' = registry \ {ProcessOf[t]}

\* Mutant: the lock just taken is checked through a second descriptor, whose
\* close drops it.
TryRecordLockReopens(t) ==
    /\ pc[t] = "opened"
    /\ \/ /\ Lockable(t)
          /\ holder' = NoOwner
          /\ Goto(t, "holding")
          /\ UNCHANGED registry
       \/ /\ ~Lockable(t)
          /\ Goto(t, "unregistered")
          /\ registry' = registry \ {ProcessOf[t]}
          /\ UNCHANGED holder

\* try_record_lock: the guard is returned; or the lock is contended, or the
\* call failed, and the reservation is removed with the file still open
\* ("unregistered").
TryRecordLock(t) ==
    /\ pc[t] = "opened"
    /\ \/ /\ Lockable(t)
          /\ SetLock(t)
          /\ Goto(t, "holding")
          /\ UNCHANGED registry
       \/ /\ Goto(t, "unregistered")
          /\ registry' = registry \ {ProcessOf[t]}
          /\ UNCHANGED holder

\* Drop of an OwnerGuard: its Drop removes the path, then `_file` closes.
DropGuard(t) ==
    /\ pc[t] = "holding"
    /\ registry' = registry \ {ProcessOf[t]}
    /\ Goto(t, "unregistered")
    /\ UNCHANGED holder

CloseOwnerFile(t) ==
    /\ pc[t] = "unregistered"
    /\ CloseFile(t)
    /\ Goto(t, "idle")
    /\ UNCHANGED registry

(***************************************************************************)
(* owner_is_live: a reserved path is answered from the registry and        *)
(* nothing changes; otherwise the lock is tried on a descriptor of its own *)
(* and is dropped with it.                                                 *)
(***************************************************************************)
AskHeld(t) ==
    /\ pc[t] = "idle"
    /\ ProcessOf[t] \notin registry
    /\ Goto(t, "asked")
    /\ UNCHANGED <<registry, holder>>

\* open_lock_file and try_record_lock of the probe; it may fail to open.
ProbeOwner(t) ==
    /\ pc[t] = "asked"
    /\ UNCHANGED registry
    /\ \/ Goto(t, "idle") /\ UNCHANGED holder
       \/ /\ Goto(t, "probing")
          /\ holder' = IF Lockable(t) THEN ProcessOf[t] ELSE holder

CloseOwnerProbe(t) ==
    /\ pc[t] = "probing"
    /\ CloseFile(t)
    /\ Goto(t, "idle")
    /\ UNCHANGED registry

(***************************************************************************)
(* The specification                                                       *)
(***************************************************************************)
Step(t) ==
    \/ Reserve(t)
    \/ OpenOwnerFile(t)
    \/ TryRecordLock(t)
    \/ DropGuard(t)
    \/ CloseOwnerFile(t)
    \/ t \in Probing /\ AskHeld(t)
    \/ ProbeOwner(t)
    \/ CloseOwnerProbe(t)

Next ==
    \/ \E t \in Thread : Step(t)
    \/ \E p \in Process : Exit(p)

Spec == LockInit /\ [][Next]_lockVars

(***************************************************************************)
(* Properties                                                              *)
(***************************************************************************)

\* Type correctness: the election's code goes through seven places.
TypeOK ==
    /\ LockTypeOK
    /\ \A t \in Thread : pc[t] \in {"idle", "reserved", "opened", "holding",
                                   "unregistered", "asked", "probing"}

\* A guard is backed by the kernel's lock for as long as it lives: neither a
\* probe (owner_is_live) nor another take has dropped it.
GuardBacked ==
    \A t \in Thread : pc[t] = "holding" => holder = ProcessOf[t]

\* "exactly one worker process holds one at a time" (OwnerGuard): of all
\* guards at most one exists, across processes and within one, and it still
\* has the kernel's lock.
OneGuard ==
    /\ GuardBacked
    /\ \A t, u \in Thread : pc[t] = "holding" /\ pc[u] = "holding" => t = u

\* One thread of each process takes part in the election.
OneThreadEach ==
    \A t, u \in Thread : ProcessOf[t] = ProcessOf[u] => t = u
=============================================================================
