----------------------------- MODULE RecordLock -----------------------------
(***************************************************************************)
(* One lock file under POSIX record locks, as journal.rs and election.rs   *)
(* use them: fcntl(F_SETLK) gives the lock to the PROCESS, a second        *)
(* request of the owning process succeeds, and the lock is gone as soon as *)
(* that process closes ANY descriptor of the file.  Because of the last    *)
(* two facts both sources keep, beside the kernel's lock, a registry per   *)
(* process of the lock paths that the process has reserved.                *)
(***************************************************************************)
EXTENDS Naturals, FiniteSets

CONSTANTS
    Process,    \* the processes that open the lock file
    Thread,     \* their threads
    ProcessOf,  \* the process of each thread
    NoOwner     \* nobody has the record lock

ASSUME ThreadAssumption ==
    /\ ProcessOf \in [Thread -> Process]
    /\ NoOwner \notin Process

VARIABLES
    registry,   \* the processes whose registry contains the lock path
    holder,     \* the process that has the record lock, or NoOwner
    pc          \* where each thread is in the lock's code

lockVars == <<registry, holder, pc>>

\* The calls a thread can be in the middle of; a component's module says
\* which of them it goes through, and in which order.
Place == {"idle", "reserved", "opened", "holding", "refused", "closed",
          "unregistered", "asked", "probing"}

LockInit ==
    /\ registry = {}
    /\ holder = NoOwner
    /\ pc = [t \in Thread |-> "idle"]

Goto(t, place) == pc' = [pc EXCEPT ![t] = place]

(***************************************************************************)
(* The kernel: F_SETLK of the process of t, and close(2) of a descriptor.  *)
(***************************************************************************)
Lockable(t) == holder \in {NoOwner, ProcessOf[t]}

SetLock(t) == holder' = ProcessOf[t]

CloseFile(t) == holder' = IF holder = ProcessOf[t] THEN NoOwner ELSE holder

(***************************************************************************)
(* A process ends, by exit or by a crash: its descriptors are closed and   *)
(* its registry is gone.  Another process takes its place.                 *)
(***************************************************************************)
Exit(p) ==
    /\ registry' = registry \ {p}
    /\ holder' = IF holder = p THEN NoOwner ELSE holder
    /\ pc' = [t \in Thread |-> IF ProcessOf[t] = p THEN "idle" ELSE pc[t]]

LockTypeOK ==
    /\ registry \subseteq Process
    /\ holder \in Process \cup {NoOwner}
    /\ pc \in [Thread -> Place]
=============================================================================
