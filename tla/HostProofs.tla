----------------------------- MODULE HostProofs -----------------------------
(***************************************************************************)
(* What the processes of one host share: who may write a journal, who is   *)
(* the worker, and whom the worker counts, for any number of processes,    *)
(* threads, windows, worker children and connections.                      *)
(***************************************************************************)
EXTENDS Host, JournalProofs, FiniteSetTheorems, TLAPS

(***************************************************************************)
(* Exclusive ownership of a journal.  The claim comes first: ClaimProtects *)
(* says that the registry admits one thread of a process to the stretch    *)
(* between the claim and its drop.  With it, a descriptor of the lock file *)
(* that a process closes is never one that another thread's lock depends   *)
(* on, so a journal that is open keeps the kernel's lock (LockBacksWriter),*)
(* and the kernel's lock has one owner.  The argument needs ProbersApart:  *)
(* a probe closes a descriptor outside that stretch.                       *)
(***************************************************************************)
LockInv == JournalLockTypeOK /\ ClaimProtects /\ LockBacksWriter

LEMMA LockInitially == LockInit => LockInv
  BY ThreadAssumption, ProberAssumption
  DEF LockInit, LockInv, JournalLockTypeOK, LockTypeOK, ClaimProtects, LockBacksWriter, Claiming,
      Opener, Place

\* A step of an opener: by the claim it is the only thread of its process
\* that the step concerns.
LEMMA OpenerKeepsLockInv ==
  ASSUME LockInv, NEW t \in Opener, OpenerStep(t)
  PROVE  LockInv'
<1> USE ThreadAssumption, ProberAssumption
    DEF LockInv, JournalLockTypeOK, LockTypeOK, ClaimProtects, LockBacksWriter, Claiming, Opener,
        Place, Goto
<1>1. CASE TakeClaim(t)
  BY <1>1 DEF TakeClaim
<1>2. CASE OpenLockFile(t)
  BY <1>2 DEF OpenLockFile
<1>3. CASE TakeRecordLock(t)
  BY <1>3 DEF TakeRecordLock, Lockable, SetLock
<1>4. CASE CloseLock(t)
  BY <1>4 DEF CloseLock, CloseFile
<1>5. CASE DropClaim(t)
  BY <1>5 DEF DropClaim
<1> QED
  BY <1>1, <1>2, <1>3, <1>4, <1>5 DEF OpenerStep

\* A probe touches neither the registry nor, when it runs in a process of
\* its own, the owner of the lock.
LEMMA ProberKeepsLockInv ==
  ASSUME ProbersApart, LockInv, NEW t \in Prober, ProberStep(t)
  PROVE  LockInv'
<1> USE ThreadAssumption, ProberAssumption
    DEF LockInv, JournalLockTypeOK, LockTypeOK, ClaimProtects, LockBacksWriter, Claiming, Opener,
        Place, Goto, ProbersApart
<1>1. CASE AskRegistry(t)
  BY <1>1 DEF AskRegistry
<1>2. CASE OpenToProbe(t)
  BY <1>2 DEF OpenToProbe
<1>3. CASE CloseProbe(t)
  BY <1>3 DEF CloseProbe, CloseFile
<1> QED
  BY <1>1, <1>2, <1>3 DEF ProberStep

\* A process that ends takes its own claims and its own lock with it.
LEMMA ExitKeepsLockInv ==
  ASSUME LockInv, NEW p \in Process, Exit(p)
  PROVE  LockInv'
  BY ThreadAssumption, ProberAssumption
  DEF LockInv, JournalLockTypeOK, LockTypeOK, ClaimProtects, LockBacksWriter, Claiming, Opener,
      Place, Exit

LEMMA LockInvImpliesOneWriter == LockInv => OneWriter
  BY DEF LockInv, ClaimProtects, LockBacksWriter, OneWriter, Claiming, Opener

\* The invariant of the lock's code, where no process both opens a journal
\* and probes it.
THEOREM JournalLockInvariant ==
  ASSUME ProbersApart
  PROVE  JournalLockSpec => []LockInv
<1>1. LockInit => LockInv
  BY LockInitially
<1>2. LockInv /\ [JournalLockNext]_lockVars => LockInv'
  <2> SUFFICES ASSUME LockInv, [JournalLockNext]_lockVars
               PROVE  LockInv'
    OBVIOUS
  <2>1. CASE \E t \in Opener : OpenerStep(t)
    BY <2>1, OpenerKeepsLockInv
  <2>2. CASE \E t \in Prober : ProberStep(t)
    BY <2>2, ProbersApart, ProberKeepsLockInv
  <2>3. CASE \E p \in Process : Exit(p)
    BY <2>3, ExitKeepsLockInv
  <2>4. CASE UNCHANGED lockVars
    BY <2>4
    DEF LockInv, JournalLockTypeOK, LockTypeOK, ClaimProtects, LockBacksWriter, Claiming, lockVars
  <2> QED
    BY <2>1, <2>2, <2>3, <2>4 DEF JournalLockNext
<1> QED
  BY <1>1, <1>2, PTL DEF JournalLockSpec

\* At most one thread of all processes has the journal open (Journal::open),
\* for every number of processes and threads.
THEOREM JournalLockExclusive ==
  ASSUME ProbersApart
  PROVE  JournalLockSpec => []OneWriter
  BY ProbersApart, JournalLockInvariant, LockInvImpliesOneWriter, PTL

\* An open journal always has the kernel's lock: no refused open, dropped
\* journal or probe takes it away.
THEOREM JournalLockBacked ==
  ASSUME ProbersApart
  PROVE  JournalLockSpec => []LockBacksWriter
<1>1. LockInv => LockBacksWriter
  BY DEF LockInv
<1> QED
  BY ProbersApart, <1>1, JournalLockInvariant, PTL

(***************************************************************************)
(* The lock of the worker election has one winner, as one thread of each   *)
(* process takes part.  The order of the release is harmless then: what a  *)
(* process closes late is never a descriptor that a guard of another       *)
(* thread depends on, for there is no other thread.                        *)
(***************************************************************************)
\* A process stands for its one thread.
LEMMA OneElectorEach == Owner!OneThreadEach
  BY DEF Owner!OneThreadEach

GuardInv == Owner!TypeOK /\ Owner!GuardBacked

LEMMA GuardInitially == Owner!LockInit => GuardInv
  BY ThreadAssumption
  DEF Owner!LockInit, GuardInv, Owner!TypeOK, Owner!LockTypeOK, Owner!GuardBacked, Owner!Place

\* A step of one process: the others keep what they have.
LEMMA StepKeepsGuardInv ==
  ASSUME GuardInv, NEW p \in Process, Owner!Step(p)
  PROVE  GuardInv'
<1> USE ThreadAssumption
    DEF GuardInv, Owner!TypeOK, Owner!LockTypeOK, Owner!GuardBacked, Owner!Place, Owner!Goto
<1>1. CASE Owner!Reserve(p)
  BY <1>1 DEF Owner!Reserve
<1>2. CASE Owner!OpenOwnerFile(p)
  BY <1>2 DEF Owner!OpenOwnerFile
<1>3. CASE Owner!TryRecordLock(p)
  BY <1>3 DEF Owner!TryRecordLock, Owner!Lockable, Owner!SetLock
<1>4. CASE Owner!DropGuard(p)
  BY <1>4 DEF Owner!DropGuard
<1>5. CASE Owner!CloseOwnerFile(p)
  BY <1>5 DEF Owner!CloseOwnerFile, Owner!CloseFile
<1>6. CASE Owner!AskHeld(p)
  BY <1>6 DEF Owner!AskHeld
<1>7. CASE Owner!ProbeOwner(p)
  BY <1>7 DEF Owner!ProbeOwner, Owner!Lockable
<1>8. CASE Owner!CloseOwnerProbe(p)
  BY <1>8 DEF Owner!CloseOwnerProbe, Owner!CloseFile
<1> QED
  BY <1>1, <1>2, <1>3, <1>4, <1>5, <1>6, <1>7, <1>8 DEF Owner!Step

\* A process that ends takes only its own guard with it.
LEMMA ExitKeepsGuardInv ==
  ASSUME GuardInv, NEW p \in Process, Owner!Exit(p)
  PROVE  GuardInv'
  BY ThreadAssumption
  DEF GuardInv, Owner!TypeOK, Owner!LockTypeOK, Owner!GuardBacked, Owner!Place, Owner!Exit

\* The journal's locks, and the other parts, leave the election's lock alone.
LEMMA OthersKeepGuardInv ==
  ASSUME GuardInv, UNCHANGED <<held, elected, electing>>
  PROVE  GuardInv'
  BY DEF GuardInv, Owner!TypeOK, Owner!LockTypeOK, Owner!GuardBacked

\* Every guard of the election is backed by the kernel's lock (OwnerGuard),
\* whatever the processes of the host do with the two lock files, and die of.
THEOREM GuardInvariant == HostSpec => []GuardInv
<1>1. HostInit => GuardInv
  BY GuardInitially DEF HostInit
<1>2. GuardInv /\ [HostNext]_hostVars => GuardInv'
  <2> SUFFICES ASSUME GuardInv, [HostNext]_hostVars
               PROVE  GuardInv'
    OBVIOUS
  <2>1. CASE LockStep
    <3>1. CASE UNCHANGED <<held, elected, electing>>
      BY <3>1, OthersKeepGuardInv
    <3>2. CASE \E p \in Process : Owner!Step(p)
      BY <3>2, StepKeepsGuardInv
    <3>3. CASE \E p \in Process : Exit(p) /\ Owner!Exit(p)
      BY <3>3, ExitKeepsGuardInv
    <3> QED
      BY <2>1, <3>1, <3>2, <3>3 DEF LockStep
  <2>2. CASE UNCHANGED lockPartVars
    BY <2>2, OthersKeepGuardInv DEF lockPartVars
  <2> QED
    BY <2>1, <2>2 DEF HostNext, hostVars
<1> QED
  BY <1>1, <1>2, PTL DEF HostSpec

\* At most one OwnerGuard exists, for every number of processes: the worker
\* election (try_take_owner) has one winner at a time.
THEOREM GuardExclusive == HostSpec => []OneGuard
<1>1. GuardInv => OneGuard
  BY ThreadAssumption, OneElectorEach
  DEF GuardInv, Owner!GuardBacked, OneGuard, Owner!OneGuard, Owner!OneThreadEach
<1> QED
  BY <1>1, GuardInvariant, PTL

(***************************************************************************)
(* The election of the shared worker.  OwnerAccounted is inductive: every  *)
(* step that takes the lock or gives it back moves its process into, or    *)
(* out of, the stretch of code that owns it.  That a winner only removes a *)
(* stale socket, that windows share one capturing worker, and that only a  *)
(* worker on its way out takes the path of a serving one, follow from it.  *)
(***************************************************************************)
ElectionInv == TypeOK /\ OwnerAccounted

LEMMA ElectionInitially == Init => ElectionInv
  BY ElectionAssumption DEF Init, ElectionInv, TypeOK, OwnerAccounted

\* A window's step keeps the account of the lock.
LEMMA WindowKeepsElectionInv ==
  ASSUME ElectionInv, NEW w \in Window, WindowStep(w)
  PROVE  ElectionInv'
<1> USE ElectionAssumption
    DEF ElectionInv, TypeOK, OwnerAccounted, WindowGoes, HangUp, lines
<1>1. CASE Ensure(w)
  BY <1>1 DEF Ensure
<1>2. CASE OwnerTaken(w)
  BY <1>2 DEF OwnerTaken
<1>3. CASE WinOwner(w)
  BY <1>3 DEF WinOwner
<1>4. CASE Spawn(w)
  BY <1>4 DEF Spawn, ChildGoes
<1>5. CASE DropWindowGuard(w)
  BY <1>5 DEF DropWindowGuard
<1>6. CASE Look(w)
  BY <1>6 DEF Look
<1>7. CASE GiveUp(w)
  BY <1>7 DEF GiveUp
<1>8. CASE WindowProbeDone(w)
  BY <1>8 DEF WindowProbeDone
<1>9. CASE Connect(w)
  BY <1>9 DEF Connect
<1>10. CASE Welcome(w)
  BY <1>10 DEF Welcome
<1>11. CASE HelloFails(w)
  BY <1>11 DEF HelloFails
<1>12. CASE Detach(w)
  BY <1>12 DEF Detach
<1>13. CASE WindowDies(w)
  BY <1>13 DEF WindowDies
<1> QED
  BY <1>1, <1>2, <1>3, <1>4, <1>5, <1>6, <1>7, <1>8, <1>9, <1>10, <1>11,
     <1>12, <1>13
  DEF WindowStep

\* A child's step keeps the account of the lock.
LEMMA ChildKeepsElectionInv ==
  ASSUME ElectionInv, NEW c \in Child, ChildStep(c)
  PROVE  ElectionInv'
<1> USE ElectionAssumption
    DEF ElectionInv, TypeOK, OwnerAccounted, ChildGoes, ProcessEnds, HangUp,
        lines
<1>1. CASE Elect(c)
  BY <1>1 DEF Elect
<1>2. CASE ExitIncumbent(c)
  BY <1>2 DEF ExitIncumbent
<1>3. CASE ProbeIncumbent(c)
  BY <1>3 DEF ProbeIncumbent
<1>4. CASE ChildProbeDone(c)
  BY <1>4 DEF ChildProbeDone
<1>5. CASE ClearSocket(c)
  BY <1>5 DEF ClearSocket
<1>6. CASE Bind(c)
  BY <1>6 DEF Bind
<1>7. CASE StopServing(c)
  BY <1>7 DEF StopServing
<1>8. CASE ReleaseOwner(c)
  BY <1>8 DEF ReleaseOwner
<1>9. CASE UnlinkSocket(c)
  BY <1>9 DEF UnlinkSocket
<1>10. CASE ChildDies(c)
  BY <1>10 DEF ChildDies
<1>11. CASE Accept(c)
  BY <1>11 DEF Accept
<1> QED
  BY <1>1, <1>2, <1>3, <1>4, <1>5, <1>6, <1>7, <1>8, <1>9, <1>10, <1>11
  DEF ChildStep

LEMMA NextKeepsElectionInv ==
  ASSUME ElectionInv, [Next]_vars
  PROVE  ElectionInv'
<1>1. CASE \E w \in Window : WindowStep(w)
  BY <1>1, WindowKeepsElectionInv
<1>2. CASE \E c \in Child : ChildStep(c)
  BY <1>2, ChildKeepsElectionInv
<1>3. CASE UNCHANGED vars
  BY <1>3 DEF vars, lines, ElectionInv, TypeOK, OwnerAccounted
<1> QED
  BY <1>1, <1>2, <1>3 DEF Next

\* The lock is always with the process whose code owns it, for every number
\* of windows and children, through crashes and lost elections.
THEOREM ElectionInvariant == Spec => []ElectionInv
<1>1. ElectionInv /\ [Next]_vars => ElectionInv'
  BY NextKeepsElectionInv
<1> QED
  BY ElectionInitially, <1>1, PTL DEF Spec

\* At most one process is in the stretch of code that owns the election.
THEOREM ElectionAccounted == Spec => []OwnerAccounted
<1>1. ElectionInv => OwnerAccounted
  BY DEF ElectionInv
<1> QED
  BY <1>1, ElectionInvariant, PTL

\* run_child's winner never removes the socket file of a live worker.
THEOREM ElectionClearsStale == Spec => []WinnerClearsStale
<1>1. ElectionInv => WinnerClearsStale
  BY ElectionAssumption
  DEF ElectionInv, OwnerAccounted, WinnerClearsStale, Listens
<1> QED
  BY <1>1, ElectionInvariant, PTL

\* No two windows are attached to two workers that capture, for every number
\* of windows and children, through crashes and hellos answered late.
THEOREM ElectionShares == Spec => []WindowsShareOneWorker
<1>1. ElectionInv => WindowsShareOneWorker
  BY DEF ElectionInv, OwnerAccounted, WindowsShareOneWorker, WatchesCaptures
<1> QED
  BY <1>1, ElectionInvariant, PTL

\* A worker that serves on loses the socket path only to one that has given
\* the lock back and not yet exited: the one order in which run_child's clean
\* stop is not covered by the lock, and no other step of any process.
THEOREM ElectionUnlinks == Spec => OnlyLeaversUnlink
<1> DEFINE Unlinked(c) ==
      Listens(c) /\ socket = c /\ Listens(c)' /\ socket' # c
<1>1. ASSUME ElectionInv, [Next]_vars
      PROVE  [\A c \in Child : Unlinked(c) =>
                \E d \in Child \ {c} : child[d] = "released"]_vars
  <2> SUFFICES ASSUME NEW c \in Child, Unlinked(c), Next
               PROVE  \E d \in Child \ {c} : child[d] = "released"
    BY <1>1
  <2>1. \A w \in Window : WindowStep(w) => socket' = socket
    BY DEF WindowStep, Ensure, OwnerTaken, WinOwner, Spawn, DropWindowGuard,
           Look, GiveUp, WindowProbeDone, Connect, Welcome, HelloFails, Detach,
           WindowDies
  <2>2. PICK d \in Child : ChildStep(d)
    BY <2>1 DEF Next
  <2>3. ClearSocket(d) \/ Bind(d) \/ UnlinkSocket(d)
    BY <2>2
    DEF ChildStep, Elect, ExitIncumbent, ProbeIncumbent, ChildProbeDone, Accept,
        StopServing, ReleaseOwner, ChildDies
  <2>4. owner = c
    BY <1>1 DEF ElectionInv, OwnerAccounted, Listens
  <2>5. CASE ClearSocket(d)
    BY <1>1, <2>4, <2>5 DEF ClearSocket, Listens, ElectionInv, OwnerAccounted
  <2>6. CASE Bind(d)
    BY <1>1, <2>4, <2>6 DEF Bind, Listens, ElectionInv, OwnerAccounted
  <2>7. CASE UnlinkSocket(d)
    BY <2>7 DEF UnlinkSocket, Listens
  <2> QED
    BY <2>3, <2>5, <2>6, <2>7
<1> QED
  BY <1>1, ElectionInvariant, PTL DEF Spec, OnlyLeaversUnlink

(***************************************************************************)
(* The audience: the windows with a connection attached that no goodbye of *)
(* an older one of theirs has overtaken.  A goodbye goes by the window's   *)
(* pid and drops the window whichever of its connections ended, so that    *)
(* the ones it leaves attached are overtaken from then on.                 *)
(***************************************************************************)
AudienceTypes ==
    /\ Viewers!TypeOK
    /\ IsFiniteSet(viewers)

\* A connection that is overtaken has been attached, and one that was never
\* dialed is at neither end.
OvertakenReached ==
    /\ \A c \in overtaken : server[c] \in {"attached", "closed"}
    /\ \A c \in Connection : client[c] = "none" => server[c] = "none"

AudienceInv == AudienceTypes /\ OvertakenReached /\ AudienceExact

LEMMA Counting == \A S : Viewers!Cardinality(S) = Cardinality(S)
  BY DEF Viewers!Cardinality, Cardinality

LEMMA ViewersStart ==
  ASSUME Viewers!Gone \/ Viewers!Init
  PROVE  AudienceInv
<1>1. IsFiniteSet({}) /\ Viewers!Cardinality({}) = 0
  BY FS_EmptySet, Counting
<1>2. \A c \in Connection : server[c] = "none"
  BY DEF Viewers!Gone, Viewers!Init
<1>3. AudienceTypes
  BY <1>1, ViewerAssumption DEF Viewers!Gone, Viewers!Init, AudienceTypes, Viewers!TypeOK
<1>4. viewers = {} /\ overtaken = {}
  BY DEF Viewers!Gone, Viewers!Init
<1> QED
  BY <1>2, <1>3, <1>4
  DEF AudienceInv, OvertakenReached, AudienceExact, Viewers!AudienceExact

\* A hello that is admitted keeps the audience within the cap.
LEMMA AdmittedFits ==
  ASSUME AudienceTypes, NEW w \in Viewer, Viewers!Admits(w)
  PROVE  /\ IsFiniteSet(viewers \cup {w})
         /\ Viewers!Cardinality(viewers \cup {w}) <= MaxViewers
<1>1. /\ IsFiniteSet(viewers \cup {w})
      /\ Cardinality(viewers \cup {w})
            = IF w \in viewers THEN Cardinality(viewers) ELSE Cardinality(viewers) + 1
  BY FS_AddElement DEF AudienceTypes
<1>2. Cardinality(viewers) \in Nat
  BY FS_CardinalityType DEF AudienceTypes
<1> QED
  BY <1>1, <1>2, Counting, ViewerAssumption
  DEF AudienceTypes, Viewers!TypeOK, Viewers!Admits

\* A goodbye leaves a smaller audience.
LEMMA LeavingFits ==
  ASSUME AudienceTypes, NEW w
  PROVE  /\ IsFiniteSet(viewers \ {w})
         /\ Viewers!Cardinality(viewers \ {w}) <= MaxViewers
<1>1. /\ IsFiniteSet(viewers \ {w})
      /\ Cardinality(viewers \ {w})
            = IF w \in viewers THEN Cardinality(viewers) - 1 ELSE Cardinality(viewers)
  BY FS_RemoveElement DEF AudienceTypes
<1>2. Cardinality(viewers) \in Nat
  BY FS_CardinalityType DEF AudienceTypes
<1> QED
  BY <1>1, <1>2, Counting, ViewerAssumption DEF AudienceTypes, Viewers!TypeOK

\* A step of one connection.
LEMMA ConnectionKeepsTypes ==
  ASSUME AudienceTypes, NEW c \in Connection,
         Viewers!WindowStep(c) \/ Viewers!WorkerStep(c)
  PROVE  AudienceTypes'
<1> USE DEF AudienceTypes, Viewers!TypeOK, Viewers!ClientGoes, Viewers!ServerGoes
<1>1. CASE Viewers!WindowStep(c)
  BY <1>1
  DEF Viewers!WindowStep, Viewers!Dial, Viewers!SendHello, Viewers!Welcomed,
      Viewers!ClientCloses
<1>2. CASE Viewers!DispatchHello(c)
  BY <1>2, AdmittedFits DEF Viewers!DispatchHello
<1>3. CASE Viewers!Goodbye(c)
  BY <1>3, LeavingFits DEF Viewers!Goodbye, Viewers!Overtakes
<1>4. CASE Viewers!EndOfFile(c)
  BY <1>4 DEF Viewers!EndOfFile
<1> QED
  BY <1>1, <1>2, <1>3, <1>4 DEF Viewers!WorkerStep

LEMMA ConnectionKeepsAudience ==
  ASSUME AudienceInv, NEW c \in Connection,
         Viewers!WindowStep(c) \/ Viewers!WorkerStep(c)
  PROVE  AudienceInv'
<1>1. AudienceTypes'
  BY ConnectionKeepsTypes DEF AudienceInv
<1> USE DEF AudienceInv, AudienceTypes, Viewers!TypeOK, Viewers!ClientGoes,
        Viewers!ServerGoes, OvertakenReached, AudienceExact,
        Viewers!AudienceExact
<1>2. CASE \E w \in Viewer : Viewers!Dial(w, c)
  BY <1>1, <1>2 DEF Viewers!Dial
<1>3. CASE Viewers!SendHello(c)
  BY <1>1, <1>3 DEF Viewers!SendHello
<1>4. CASE Viewers!Welcomed(c) \/ Viewers!ClientCloses(c)
  BY <1>1, <1>4 DEF Viewers!Welcomed, Viewers!ClientCloses
<1>5. CASE Viewers!DispatchHello(c)
  BY <1>1, <1>5 DEF Viewers!DispatchHello
<1>6. CASE Viewers!Goodbye(c)
  BY <1>1, <1>6 DEF Viewers!Goodbye, Viewers!Overtakes
<1>7. CASE Viewers!EndOfFile(c)
  BY <1>1, <1>7 DEF Viewers!EndOfFile
<1> QED
  BY <1>2, <1>3, <1>4, <1>5, <1>6, <1>7 DEF Viewers!WindowStep, Viewers!WorkerStep

LEMMA WorkerKeepsAudience ==
  ASSUME AudienceInv, Viewers!DrainExpires \/ Viewers!Stop \/ Viewers!Exits
  PROVE  AudienceInv'
<1> USE DEF AudienceInv, AudienceTypes, Viewers!TypeOK, OvertakenReached,
        AudienceExact, Viewers!AudienceExact
<1>1. CASE Viewers!DrainExpires
  BY <1>1 DEF Viewers!DrainExpires
<1>2. CASE Viewers!Stop
  BY <1>2 DEF Viewers!Stop
<1>3. CASE Viewers!Exits
  BY <1>3 DEF Viewers!Exits
<1> QED
  BY <1>1, <1>2, <1>3

LEMMA OthersKeepAudience ==
  ASSUME AudienceInv, UNCHANGED viewerVars
  PROVE  AudienceInv'
  BY DEF viewerVars, AudienceInv, AudienceTypes, Viewers!TypeOK,
         OvertakenReached, AudienceExact, Viewers!AudienceExact

\* The worker's connections and its audience agree, and the audience stays
\* within MAX_VIEWERS, for every number of windows and connections, however
\* the windows come back.
THEOREM AudienceInvariant == HostSpec => []AudienceInv
<1>1. HostInit => AudienceInv
  BY ViewersStart DEF HostInit
<1>2. AudienceInv /\ [HostNext]_hostVars => AudienceInv'
  <2> SUFFICES ASSUME AudienceInv, [HostNext]_hostVars
               PROVE  AudienceInv'
    OBVIOUS
  <2>1. CASE Viewers!Next
    BY <2>1, ConnectionKeepsAudience, WorkerKeepsAudience DEF Viewers!Next
  <2>2. CASE UNCHANGED viewerVars
    BY <2>2, OthersKeepAudience
  <2>3. Viewers!Over => UNCHANGED viewerVars
    BY DEF Viewers!Over, Viewers!vars, viewerVars
  <2> QED
    BY <2>1, <2>2, <2>3 DEF HostNext, hostVars
<1> QED
  BY <1>1, <1>2, PTL DEF HostSpec

\* The audience is exact (ViewerSet): through any order of hellos, redials,
\* ends of file and goodbyes no slot stays behind, and no window is dropped
\* but by a goodbye of an older connection of its own.
THEOREM AudienceComplete == HostSpec => []AudienceExact
<1>1. AudienceInv => AudienceExact
  BY DEF AudienceInv
<1> QED
  BY <1>1, AudienceInvariant, PTL

(***************************************************************************)
(* The host's parts do not disturb each other: each is a behaviour of its  *)
(* own specification, so that what is proved of one holds on the host.     *)
(***************************************************************************)

\* Every behaviour of the host is one of the journal, of the journal's lock
\* and of the election, with steps in between that leave them alone.
THEOREM HostIsEachPart == HostSpec => JournalSpec /\ JournalLockSpec /\ Spec
<1>1. HostInit => JournalInit /\ LockInit /\ Init
  BY DEF HostInit
<1>2. [HostNext]_hostVars => [JournalNext]_journalVars
  BY DEF HostNext, hostVars
<1>3. [HostNext]_hostVars => [JournalLockNext]_lockVars
  <2>1. LockStep => JournalLockNext \/ UNCHANGED lockVars
    BY DEF LockStep, JournalLockNext
  <2> QED
    BY <2>1 DEF HostNext, hostVars, lockPartVars
<1>4. [HostNext]_hostVars => [Next]_vars
  BY DEF HostNext, hostVars
<1> QED
  BY <1>1, <1>2, <1>3, <1>4, PTL DEF HostSpec, JournalSpec, JournalLockSpec, Spec

\* On the host no record identity is given twice, what sync_data covered
\* stays, and the journal is an append-only log with a durable prefix.
THEOREM HostKeepsJournal ==
    HostSpec => []IdentityNeverReused /\ DurablePrefixKept /\ ImplementsRecordLog
  BY HostIsEachPart, JournalIdentity, JournalDurability, JournalRefinement

\* On the host one thread has the journal open, with the kernel's lock, where
\* no process both opens and probes it.
THEOREM HostKeepsWriter ==
  ASSUME ProbersApart
  PROVE  HostSpec => []OneWriter /\ []LockBacksWriter
  BY ProbersApart, HostIsEachPart, JournalLockExclusive, JournalLockBacked

\* On the host the election's lock is with the process whose code owns it, its
\* winner clears no live socket, and windows share one capturing worker.
THEOREM HostKeepsElection ==
    HostSpec => []OwnerAccounted /\ []WinnerClearsStale /\ []WindowsShareOneWorker
  BY HostIsEachPart, ElectionAccounted, ElectionClearsStale, ElectionShares
=============================================================================
