------------------------ MODULE SourceLifecycleProofs ------------------------
(***************************************************************************)
(* The safety of a source's life in its manager, for any number of starts, *)
(* callers, events and faults.                                             *)
(*                                                                         *)
(* The lease.  OneCapture says who has the lease while a supervisor runs;  *)
(* it is inductive once the start task is added, which takes the lease     *)
(* before there is a supervisor and hands it over with the launch.  A step *)
(* by which one attempt gives the lease back is then a step after which    *)
(* nobody is entitled to it.                                               *)
(*                                                                         *)
(* An attempt by itself.  What a terminal state, a complete stop or an     *)
(* ended supervisor promises rests on how far supervisor, writer,          *)
(* acquisition and answer are apart: AttemptInv has one predicate for each *)
(* of them, over one attempt's variables only.                             *)
(*                                                                         *)
(* Starts and the shutdown.  Which attempt may still launch, and which one *)
(* a shutdown has to wait for, relates the attempts with each other:       *)
(* StageInv and QuitInv.                                                   *)
(***************************************************************************)
EXTENDS SourceLifecycle, TLAPS

-----------------------------------------------------------------------------
(* The steps by who takes them, and what each leaves alone                 *)

StartTaskStep(g) == StartAsk(g) \/ StartStep(g) \/ CallerGone(g)
WorkStep(g) == AcqStep(g) \/ WriterStep(g) \/ WriterCommits(g) \/ WriterFails(g)
SupervisorStep(g) == SupStep(g) \/ SupJoins(g) \/ Deadlines(g)
CallerStep ==
    \/ \E w \in Caller, g \in Attempt, kind \in {"stop", "abort"} :
           CallSource(w, g, kind)
    \/ ShutdownBegins \/ ShutdownStops \/ ShutdownEnds

\* Every step is one of these.
LEMMA NextSteps ==
  Next <=> \/ \E g \in Attempt :
                 StartTaskStep(g) \/ WorkStep(g) \/ SupervisorStep(g)
           \/ CallerStep
  BY DEF Next, StartTaskStep, WorkStep, SupervisorStep, CallerStep

\* The start task meets the other parts at four of its steps only.
LEMMA StartLeaves ==
  ASSUME NEW g \in Attempt, StartTaskStep(g)
  PROVE  /\ UNCHANGED <<quitting, outcome, serving, aq, wq, cur, reply>>
         /\ StartWriter(g) \/ UNCHANGED <<state, wr>>
         /\ StartAcquire(g) \/ UNCHANGED <<sup, acq, left, closed>>
         /\ StartSettle(g) \/ UNCHANGED <<ctl, call>>
         /\ StartPublish(g) \/ UNCHANGED active
  BY DEF StartTaskStep, StartStep, StartAsk, StartAdmit, StartLease,
         StartWriter, StartAcquire, StartJoinsWriter, StartSettle,
         StartPublish, StartEnds, CallerGone, supVars, acqVars, writerVars

\* The acquisition and the writer have no part in starts, places and calls.
LEMMA WorkLeaves ==
  ASSUME NEW g \in Attempt, WorkStep(g)
  PROVE  UNCHANGED <<stage, starting, active, quitting, lease, sup, outcome,
                     serving, ctl, call>>
  BY DEF WorkStep, AcqStep, AcqEmits, AcqEnds, WriterStep, WriterTakesEvent,
         WriterReports, WriterFinishes, WriterCloses, WriterCommits,
         WriterFails, startVars, supVars

\* The supervisor has no part in starts; it takes from its control channel
\* when it begins a stop or an abort and when it ends.
LEMMA SupervisorLeaves ==
  ASSUME NEW g \in Attempt, SupervisorStep(g)
  PROVE  /\ UNCHANGED <<stage, starting, active, quitting>>
         /\ \/ SupTakesStop(g) \/ SupTakesAbort(g)
            \/ SupReleases(g) \/ SupPublishes(g)
            \/ UNCHANGED <<serving, ctl>>
         /\ \/ SupStopDeadline(g) \/ SupAbortLate(g) \/ SupFinished(g)
            \/ SupReleases(g) \/ SupPublishes(g)
            \/ UNCHANGED call
  BY DEF SupervisorStep, SupStep, SupHandsOver, SupLosesWriter, SupNatural,
         SupTakesStop, SupDrains, SupDrained, SupTakesAbort, SupAbortFinish,
         SupFinished, SupJoins, SupReleases, SupPublishes, Deadlines,
         SupStopDeadline, SupAbortLate, startVars, supVars

\* Callers only ask.
LEMMA CallersLeave ==
  ASSUME CallerStep
  PROVE  UNCHANGED <<stage, starting, active, lease, state, sup, outcome,
                     serving, acq, left, aq, wr, wq, closed, cur, reply>>
  BY DEF CallerStep, CallSource, ShutdownBegins, ShutdownStops, ShutdownEnds,
         startVars, supVars, acqVars, writerVars

-----------------------------------------------------------------------------
(* The lease                                                               *)

\* The stages at which the start task itself has the lease.
Holding == {"leased", "writing", "unlaunched"}

\* Before its launch an attempt has no supervisor.
Unlaunched == {"none", "asked", "admitted"} \cup Holding

\* Who should have the lease: the start task until the launch, then the
\* supervisor until it has joined the writer.
Entitled(g) == stage[g] \in Holding \/ Supervised(g)

\* The lease is with the attempt that is entitled to it, or with nobody.
LeaseInv ==
    /\ stage \in [Attempt -> StartStages]
    /\ sup \in [Attempt -> Places]
    /\ \A g \in Attempt : stage[g] \in Unlaunched => sup[g] = "none"
    /\ \A g \in Attempt : Entitled(g) <=> lease = g

\* Nobody has it at first.
LEMMA LeaseInitially == Init => LeaseInv
  BY DEF Init, Each, LeaseInv, StartStages, Places, Unlaunched, Holding,
         Entitled, Supervised, Attempt

\* The start task takes the lease and gives it back, or hands it over.
LEMMA StartKeepsLease ==
  ASSUME LeaseInv, NEW g \in Attempt, StartTaskStep(g)
  PROVE  LeaseInv'
<1> USE DEF LeaseInv, StartStages, Places, Unlaunched, Holding, Entitled,
            Supervised, Set
<1> 0 \notin Attempt
  BY DEF Attempt
<1>1. CASE StartAsk(g)
  BY <1>1 DEF StartAsk, supVars
<1>2. CASE StartAdmit(g)
  BY <1>2 DEF StartAdmit, supVars
<1>3. CASE StartLease(g)
  BY <1>3 DEF StartLease, Fails, supVars
<1>4. CASE StartWriter(g)
  BY <1>4 DEF StartWriter, Fails, supVars
<1>5. CASE StartAcquire(g)
  BY <1>5 DEF StartAcquire, Fails, Launch
<1>6. CASE StartJoinsWriter(g)
  BY <1>6 DEF StartJoinsWriter, Fails, supVars
<1>7. CASE StartSettle(g)
  BY <1>7 DEF StartSettle
<1>8. CASE StartPublish(g)
  BY <1>8 DEF StartPublish, supVars
<1>9. CASE StartEnds(g)
  BY <1>9 DEF StartEnds, supVars
<1>10. CASE CallerGone(g)
  BY <1>10 DEF CallerGone, supVars
<1> QED
  BY <1>1, <1>2, <1>3, <1>4, <1>5, <1>6, <1>7, <1>8, <1>9, <1>10
  DEF StartTaskStep, StartStep

\* Any step that leaves the lease, the start tasks and the supervisors' places
\* alone: the acquisition, the writer, and callers.
LEMMA OthersKeepLease ==
  ASSUME LeaseInv, UNCHANGED <<stage, sup, lease>>
  PROVE  LeaseInv'
  BY DEF LeaseInv, Entitled, Supervised

\* A supervisor that moves on, and keeps the lease, was entitled to it before.
LEMMA PlaceKeepsLease ==
  ASSUME LeaseInv, NEW g \in Attempt, NEW place \in Places,
         UNCHANGED <<stage, lease>>, sup' = [sup EXCEPT ![g] = place],
         \/ Supervised(g) /\ place \notin {"none", "publishing", "done"}
         \/ sup[g] = "publishing" /\ place = "done"
  PROVE  LeaseInv'
  BY DEF LeaseInv, Entitled, Supervised, Unlaunched, Holding

\* The supervisor, its deadlines and the wait for the writer.
LEMMA SupervisorKeepsLease ==
  ASSUME LeaseInv, NEW g \in Attempt, SupervisorStep(g)
  PROVE  LeaseInv'
<1> USE DEF Supervised, Places, Goes, Set, Break, Finish, startVars
<1> 0 \notin Attempt
  BY DEF Attempt
<1>1. CASE SupHandsOver(g)
  BY <1>1, OthersKeepLease DEF SupHandsOver, supVars
<1>2. CASE SupLosesWriter(g)
  BY <1>2, PlaceKeepsLease DEF SupLosesWriter
<1>3. CASE SupNatural(g)
  BY <1>3, PlaceKeepsLease DEF SupNatural
<1>4. CASE SupTakesStop(g)
  BY <1>4, PlaceKeepsLease DEF SupTakesStop, Takes
<1>5. CASE SupDrains(g)
  BY <1>5, OthersKeepLease, PlaceKeepsLease DEF SupDrains
<1>6. CASE SupDrained(g)
  BY <1>6, PlaceKeepsLease DEF SupDrained
<1>7. CASE SupTakesAbort(g)
  BY <1>7, PlaceKeepsLease DEF SupTakesAbort, Takes
<1>8. CASE SupAbortFinish(g)
  BY <1>8, PlaceKeepsLease DEF SupAbortFinish
<1>9. CASE SupFinished(g)
  BY <1>9, PlaceKeepsLease DEF SupFinished, AbortIncomplete
<1>10. CASE SupJoins(g)
  BY <1>10, PlaceKeepsLease DEF SupJoins
<1>11. CASE SupReleases(g)
  BY <1>11
  DEF SupReleases, SupEnds, LeaseInv, Entitled, Unlaunched, Holding
<1>12. CASE SupPublishes(g)
  BY <1>12, PlaceKeepsLease DEF SupPublishes, SupEnds
<1>13. CASE SupStopDeadline(g)
  BY <1>13, PlaceKeepsLease DEF SupStopDeadline
<1>14. CASE SupAbortLate(g)
  BY <1>14, PlaceKeepsLease DEF SupAbortLate, AbortIncomplete
<1> QED
  BY <1>1, <1>2, <1>3, <1>4, <1>5, <1>6, <1>7, <1>8, <1>9, <1>10, <1>11,
     <1>12, <1>13, <1>14 DEF SupervisorStep, SupStep, Deadlines

\* No step disturbs it.
LEMMA NextKeepsLease == LeaseInv /\ [Next]_vars => LeaseInv'
<1> SUFFICES ASSUME LeaseInv, [Next]_vars
             PROVE  LeaseInv'
  OBVIOUS
<1>1. CASE \E g \in Attempt : StartTaskStep(g)
  BY <1>1, StartKeepsLease
<1>2. CASE \E g \in Attempt : SupervisorStep(g)
  BY <1>2, SupervisorKeepsLease
<1>3. CASE \E g \in Attempt : WorkStep(g)
  BY <1>3, WorkLeaves, OthersKeepLease
<1>4. CASE CallerStep
  BY <1>4, CallersLeave, OthersKeepLease
<1>5. CASE UNCHANGED vars
  BY <1>5, OthersKeepLease DEF vars, startVars, supVars
<1> QED
  BY <1>1, <1>2, <1>3, <1>4, <1>5, NextSteps

\* The lease is with the start task that took it or with the supervisor that
\* it was handed to, and with nobody else; when neither is entitled to it any
\* more it is free.
THEOREM SourceLeaseInvariant == Spec => []LeaseInv
  BY LeaseInitially, NextKeepsLease, PTL DEF Spec

\* However starts, stops, failures and a shutdown overlap, no two attempts
\* capture a source together: a supervisor has the lease until its writer has
\* been joined.
THEOREM SourceOneCapture == Spec => []OneCapture
<1>1. LeaseInv => OneCapture
  BY DEF LeaseInv, OneCapture, Entitled
<1> QED
  BY <1>1, SourceLeaseInvariant, PTL

-----------------------------------------------------------------------------
(* An attempt by itself                                                    *)

Outcomes == {"none", "lost", "natural", "acqerror", "stopped", "stoperror",
             "incomplete", "aborted"}
Request == [who : Who, kind : {"stop", "abort"}]

\* The types that the argument needs, by the part that changes them.
StateTypes == state \in [Attempt -> States] /\ outcome \in [Attempt -> Outcomes]
CallTypes ==
    /\ serving \in [Attempt -> Who \cup {Nobody}]
    /\ ctl \in [Attempt -> Seq(Request)]
    /\ call \in [Who -> {"idle", "waiting", "answered"}]
AcqTypes ==
    /\ acq \in [Attempt -> {"none", "running", "stopping", "ended"}]
    /\ left \in [Attempt -> Nat] /\ aq \in [Attempt -> Nat]
WriterTypes ==
    /\ wr \in [Attempt -> {"none", "running", "failing", "failed", "ended"}]
    /\ wq \in [Attempt -> Seq({"event", "finish"})]
    /\ closed \in [Attempt -> BOOLEAN]
    /\ cur \in [Attempt -> {"Running", "Stopping", "Aborting"}]
    /\ reply \in [Attempt -> {"none", "pending", "ok", "err", "dropped"}]
Types ==
    /\ active \in Attempt \cup {0}
    /\ StateTypes /\ CallTypes /\ AcqTypes /\ WriterTypes

\* Where supervise can still send to its writer, and where it cannot.
Open == {"loop", "natural", "draining", "finishing", "discarding", "aborting"}
Closing == {"joining", "releasing", "publishing", "done"}
Broken(g) == wr[g] \in {"failing", "failed"}

\* The writer is there from spawn_writer on, its sender until the supervisor
\* or a failed launch drops it; and one that is not running holds no message.
WriterOK(g) ==
    /\ stage[g] \in {"none", "asked", "admitted", "leased"} =>
           wr[g] = "none" /\ ~closed[g]
    /\ stage[g] = "writing" =>
           wr[g] \in {"running", "failing", "failed"} /\ ~closed[g]
    /\ wr[g] # "running" => wq[g] = <<>>

\* A Finish in the channel is the last message and its answer is waited for,
\* except the one that a deadline leaves behind.
QueueOK(g) ==
    \A k \in 1..Len(wq[g]) :
        wq[g][k] = "finish" =>
            \/ outcome[g] = "incomplete"
            \/ reply[g] = "pending" /\ k = Len(wq[g])

\* The supervisor has an outcome when it has dropped the sender, waits for an
\* answer only after a Finish, and has joined the writer before it releases
\* anything.  A writer that ended under it did so on its Finish.
SupOK(g) ==
    /\ sup[g] = "none" =>
           outcome[g] = "none" /\ acq[g] = "none" /\ reply[g] = "none"
    /\ sup[g] \in Open => ~closed[g] /\ outcome[g] = "none" /\ wr[g] # "none"
    /\ sup[g] \in Closing => closed[g] /\ outcome[g] # "none" /\ reply[g] = "none"
    /\ sup[g] \in {"loop", "draining", "discarding"} => reply[g] = "none"
    /\ sup[g] \in {"releasing", "publishing", "done"} =>
           wr[g] \in {"ended", "failed"}
    /\ wr[g] = "ended" /\ sup[g] \in Open => reply[g] = "ok"

\* What an answer says of the writer that gave it.
ReplyOK(g) ==
    /\ reply[g] = "pending" => wr[g] = "running"
    /\ reply[g] = "err" => wr[g] = "running" \/ Broken(g)
    /\ reply[g] = "dropped" => Broken(g)
    /\ reply[g] = "ok" => wr[g] = "ended"

\* The acquisition goes on under the loop and the drain only, or over a
\* writer that has failed; the Finish of a stop is sent behind its last event.
AcqOK(g) ==
    /\ acq[g] = "ended" => left[g] = 0
    /\ sup[g] = "finishing" => acq[g] = "ended" /\ aq[g] = 0
    /\ acq[g] \in {"running", "stopping"} =>
           sup[g] \in {"loop", "draining"} \/ Broken(g)
    /\ outcome[g] = "stopped" => wr[g] = "ended" /\ left[g] = 0 /\ aq[g] = 0

\* A terminal state is there only when the writer has failed or can be sent
\* nothing; Stopped and Aborted only when the supervisor has ended.  What the
\* writer published last stands until the supervisor writes over it.
StateOK(g) ==
    /\ Terminal(state[g]) => Broken(g) \/ closed[g]
    /\ state[g] \in {"Stopped", "Aborted"} => sup[g] = "done"
    /\ wr[g] = "failed" /\ sup[g] \in {"none", "loop", "natural"} =>
           Terminal(state[g])
    /\ wr[g] = "failed" /\ outcome[g] = "lost" => Terminal(state[g])
    /\ wr[g] = "ended" /\ outcome[g] \in {"lost", "stoperror"} =>
           Terminal(state[g])
    /\ sup[g] = "done" =>
           Terminal(state[g]) \/ (outcome[g] = "stoperror" /\ wr[g] = "failed")

AttemptInv ==
    /\ LeaseInv /\ Types
    /\ \A g \in Attempt :
          /\ WriterOK(g) /\ QueueOK(g) /\ SupOK(g)
          /\ ReplyOK(g) /\ AcqOK(g) /\ StateOK(g)

\* All of it holds of a manager that has started nothing.
LEMMA AttemptInitially == Init => AttemptInv
<1> SUFFICES ASSUME Init PROVE AttemptInv
  OBVIOUS
<1> USE DEF Init, Each
<1>1. Types
  BY DEF Types, StateTypes, CallTypes, AcqTypes, WriterTypes, States, Outcomes
<1>2. ASSUME NEW g \in Attempt
      PROVE  WriterOK(g) /\ QueueOK(g) /\ SupOK(g)
  BY DEF WriterOK, QueueOK, SupOK, Open, Closing
<1>3. ASSUME NEW g \in Attempt
      PROVE  ReplyOK(g) /\ AcqOK(g) /\ StateOK(g)
  BY DEF ReplyOK, AcqOK, StateOK, Terminal, Broken
<1> QED
  BY <1>1, <1>2, <1>3, LeaseInitially DEF AttemptInv

\* A step that leaves a part's variables alone leaves their types alone.
LEMMA TypesUnchanged ==
  ASSUME Types
  PROVE  /\ UNCHANGED <<state, outcome>> => StateTypes'
         /\ UNCHANGED <<serving, ctl, call>> => CallTypes'
         /\ UNCHANGED <<acq, left, aq>> => AcqTypes'
         /\ UNCHANGED <<wr, wq, closed, cur, reply>> => WriterTypes'
  BY DEF Types, StateTypes, CallTypes, AcqTypes, WriterTypes

\* The states and outcomes.
LEMMA StateTyped ==
  ASSUME AttemptInv, Next
  PROVE  StateTypes'
<1> USE DEF StateTypes, States, Outcomes, Set, Publish, Break, startVars, supVars
<1> Types
  BY DEF AttemptInv
<1>1. ASSUME NEW g \in Attempt, StartWriter(g)
      PROVE  StateTypes'
  <2>1. CASE UNCHANGED state
    BY <1>1, <2>1 DEF StartWriter, Types
  <2>2. CASE state' = [state EXCEPT ![g] = "Running"]
    BY <1>1, <2>2 DEF StartWriter, Types
  <2> QED
    BY <1>1, <2>1, <2>2 DEF StartWriter
<1>2. ASSUME NEW g \in Attempt, WriterFails(g)
      PROVE  StateTypes'
  <2>1. CASE UNCHANGED state
    BY <1>2, <2>1 DEF WriterFails, Types
  <2>2. CASE state' = [state EXCEPT ![g] = "StorageBlocked"]
    BY <1>2, <2>2 DEF WriterFails, Types
  <2> QED
    BY <1>2, <2>1, <2>2 DEF WriterFails
<1>3. ASSUME NEW g \in Attempt, SupNatural(g) \/ SupDrains(g) \/ SupDrained(g)
      PROVE  StateTypes'
  <2>1. CASE UNCHANGED outcome
    BY <1>3, <2>1 DEF SupNatural, SupDrains, SupDrained, Types
  <2>2. ASSUME NEW o \in {"lost", "stoperror"},
               outcome' = [outcome EXCEPT ![g] = o]
        PROVE  StateTypes'
    BY <1>3, <2>2 DEF SupNatural, SupDrains, SupDrained, Types
  <2> QED
    BY <1>3, <2>1, <2>2 DEF SupNatural, SupDrains, SupDrained, Finish
<1>4. ASSUME NEW g \in Attempt, SupFinished(g)
      PROVE  StateTypes'
  <2>1. UNCHANGED state \/ state' = [state EXCEPT ![g] = "Aborting"]
    BY <1>4 DEF SupFinished, AbortIncomplete
  <2>2. PICK o \in Outcomes : outcome' = [outcome EXCEPT ![g] = o]
    BY <1>4 DEF SupFinished, AbortIncomplete
  <2>3. outcome' \in [Attempt -> Outcomes]
    BY <2>2 DEF Types
  <2>4. state' \in [Attempt -> States]
    <3>1. CASE UNCHANGED state
      BY <3>1 DEF Types
    <3>2. CASE state' = [state EXCEPT ![g] = "Aborting"]
      BY <3>2 DEF Types
    <3> QED
      BY <2>1, <3>1, <3>2
  <2> QED
    BY <2>3, <2>4
<1>5. ASSUME NEW g \in Attempt, SupReleases(g)
      PROVE  StateTypes'
  <2>1. CASE UNCHANGED state
    BY <1>5, <2>1 DEF SupReleases, Types
  <2>2. CASE state' = [state EXCEPT ![g] = "Error"]
    BY <1>5, <2>2 DEF SupReleases, Types
  <2> QED
    BY <1>5, <2>1, <2>2 DEF SupReleases
<1>6. ASSUME NEW g \in Attempt, SupPublishes(g)
      PROVE  StateTypes'
  <2>1. outcome[g] \in Outcomes \ {"none"}
    BY <1>6 DEF Types, AttemptInv, SupOK, Closing, SupPublishes
  <2>2. FinalState(g) \in States
    BY <2>1 DEF FinalState, Types
  <2> QED
    BY <1>6, <2>2 DEF SupPublishes, Types
<1>7. ASSUME NEW g \in Attempt, WriterStep(g) \/ WriterCommits(g) \/ AcqStep(g)
      PROVE  StateTypes'
  <2>1. CASE \/ WriterTakesEvent(g) \/ WriterReports(g)
             \/ WriterCloses(g) \/ WriterCommits(g)
    BY <2>1
    DEF WriterTakesEvent, WriterReports, WriterCloses, WriterCommits, Types,
        WriterTypes
  <2>2. CASE WriterFinishes(g) \/ AcqStep(g)
    BY <2>2, TypesUnchanged DEF WriterFinishes, AcqStep, AcqEmits, AcqEnds
  <2> QED
    BY <1>7, <2>1, <2>2 DEF WriterStep
<1>8. ASSUME NEW g \in Attempt,
             \/ SupLosesWriter(g) \/ SupTakesStop(g) \/ SupTakesAbort(g)
             \/ SupHandsOver(g) \/ SupAbortFinish(g) \/ SupJoins(g)
      PROVE  StateTypes'
  BY <1>8
  DEF SupLosesWriter, SupTakesStop, SupTakesAbort, SupHandsOver,
      SupAbortFinish, Finish, SupJoins, Types
<1>9. ASSUME NEW g \in Attempt, Deadlines(g)
      PROVE  StateTypes'
  BY <1>9 DEF Deadlines, SupStopDeadline, SupAbortLate, AbortIncomplete, Types
<1>10. ASSUME NEW g \in Attempt, StartTaskStep(g), ~StartWriter(g)
       PROVE  StateTypes'
  BY <1>10, StartLeaves, TypesUnchanged
<1>11. CASE CallerStep
  BY <1>11, CallersLeave, TypesUnchanged
<1> QED
  BY <1>1, <1>2, <1>3, <1>4, <1>5, <1>6, <1>7, <1>8, <1>9, <1>10, <1>11,
     NextSteps DEF WorkStep, SupervisorStep, SupStep

\* A request that is sent.
LEMMA AskTyped ==
  ASSUME Types, NEW w \in Who, NEW g \in Attempt, NEW kind \in {"stop", "abort"},
         Ask(w, g, kind), UNCHANGED serving
  PROVE  CallTypes'
<1> DEFINE r == [who |-> w, kind |-> kind]
<1>1. r \in Request
  BY DEF Request
<1>2. Append(ctl[g], r) \in Seq(Request)
  BY <1>1 DEF Types, CallTypes
<1>3. CASE sup[g] = "done"
  BY <1>3 DEF Ask, Types, CallTypes, Set
<1>4. CASE sup[g] # "done"
  BY <1>4, <1>2 DEF Ask, Types, CallTypes, Set
<1> QED
  BY <1>3, <1>4

\* The calls and the control channels.
LEMMA CallsTyped ==
  ASSUME AttemptInv, Next
  PROVE  CallTypes'
<1> USE DEF CallTypes, Set, Who
<1> Types
  BY DEF AttemptInv
<1>1. ASSUME NEW g \in Attempt, StartSettle(g)
      PROVE  CallTypes'
  BY <1>1, AskTyped, TypesUnchanged DEF StartSettle, Ask
<1>2. ASSUME NEW g \in Attempt, SupTakesStop(g) \/ SupTakesAbort(g)
      PROVE  CallTypes'
  <2>1. /\ serving' = [serving EXCEPT ![g] = Head(ctl[g]).who]
        /\ ctl' = [ctl EXCEPT ![g] = Tail(@)]
        /\ ctl[g] # <<>> /\ call' = call
    BY <1>2 DEF SupTakesStop, SupTakesAbort, Takes
  <2>2. Head(ctl[g]) \in Request /\ Tail(ctl[g]) \in Seq(Request)
    BY <2>1 DEF Types
  <2>3. Head(ctl[g]).who \in Who
    BY <2>2 DEF Request
  <2> QED
    BY <2>1, <2>2, <2>3 DEF Types
<1>3. ASSUME NEW g \in Attempt, SupEnds(g)
      PROVE  CallTypes'
  BY <1>3 DEF SupEnds, Types
<1>4. ASSUME NEW g \in Attempt, Answer(serving[g]), UNCHANGED <<serving, ctl>>
      PROVE  CallTypes'
  BY <1>4 DEF Answer, Types
<1>5. ASSUME NEW g \in Attempt,
             \/ SupStopDeadline(g) \/ SupAbortLate(g) \/ SupFinished(g)
             \/ SupReleases(g) \/ SupPublishes(g)
      PROVE  CallTypes'
  BY <1>3, <1>4, <1>5, TypesUnchanged
  DEF SupStopDeadline, SupAbortLate, AbortIncomplete, SupFinished, SupReleases,
      SupPublishes
<1>6. CASE ShutdownStops
  <2>1. CASE active \in Attempt /\ Ask(Quit, active, "stop")
    BY <1>6, <2>1, AskTyped DEF ShutdownStops
  <2>2. CASE call' = [call EXCEPT ![Quit] = "answered"] /\ UNCHANGED ctl
    BY <1>6, <2>2 DEF ShutdownStops, Types
  <2> QED
    BY <1>6, <2>1, <2>2 DEF ShutdownStops, Types
<1>7. CASE CallerStep /\ ~ShutdownStops
  BY <1>7, AskTyped, TypesUnchanged
  DEF CallerStep, CallSource, ShutdownBegins, ShutdownEnds, supVars
<1> QED
  BY <1>1, <1>2, <1>5, <1>6, <1>7, NextSteps, StartLeaves, WorkLeaves,
     SupervisorLeaves, TypesUnchanged

\* The acquisitions.
LEMMA AcqTyped ==
  ASSUME AttemptInv, Next
  PROVE  AcqTypes'
<1> USE DEF AcqTypes, Set, Types
<1> Types
  BY DEF AttemptInv
<1>1. ASSUME NEW g \in Attempt, StartAcquire(g)
      PROVE  AcqTypes'
  <2>1. CASE UNCHANGED <<acq, left>>
    BY <1>1, <2>1 DEF StartAcquire
  <2>2. CASE Launch(g)
    <3>1. PICK n \in 0..MaxEvents : left' = [left EXCEPT ![g] = n]
      BY <2>2 DEF Launch
    <3> QED
      BY <1>1, <2>2, <3>1, LifecycleConstants DEF StartAcquire, Launch
  <2> QED
    BY <1>1, <2>1, <2>2 DEF StartAcquire
<1>2. ASSUME NEW g \in Attempt, AcqStep(g)
      PROVE  AcqTypes'
  <2>1. CASE AcqEmits(g)
    BY <2>1 DEF AcqEmits
  <2>2. CASE AcqEnds(g)
    BY <2>2 DEF AcqEnds
  <2> QED
    BY <1>2, <2>1, <2>2 DEF AcqStep
<1>3. ASSUME NEW g \in Attempt, aq[g] > 0, HandOver(g), UNCHANGED <<acq, left>>
      PROVE  AcqTypes'
  BY <1>3 DEF HandOver
<1>4. ASSUME NEW g \in Attempt, AbortAcq(g),
             UNCHANGED aq \/ aq' = [aq EXCEPT ![g] = 0]
      PROVE  AcqTypes'
  BY <1>4 DEF AbortAcq
<1>5. ASSUME NEW g \in Attempt,
             \/ SupLosesWriter(g) \/ SupTakesAbort(g) \/ SupReleases(g)
             \/ SupPublishes(g) \/ Deadlines(g)
      PROVE  AcqTypes'
  BY <1>5, <1>4, TypesUnchanged
  DEF SupLosesWriter, SupTakesAbort, SupReleases, SupPublishes, SupEnds,
      Deadlines, SupStopDeadline, SupAbortLate, acqVars
<1>6. ASSUME NEW g \in Attempt, SupHandsOver(g) \/ SupDrains(g)
      PROVE  AcqTypes'
  BY <1>6, <1>3, TypesUnchanged DEF SupHandsOver, SupDrains
<1>7. ASSUME NEW g \in Attempt, SupTakesStop(g)
      PROVE  AcqTypes'
  BY <1>7 DEF SupTakesStop
<1>8. ASSUME NEW g \in Attempt,
             \/ SupNatural(g) \/ SupDrained(g) \/ SupAbortFinish(g)
             \/ SupJoins(g) \/ SupFinished(g)
      PROVE  AcqTypes'
  BY <1>8, TypesUnchanged
  DEF SupNatural, SupDrained, SupAbortFinish, SupJoins, SupFinished, acqVars
<1>9. ASSUME NEW g \in Attempt,
             WriterStep(g) \/ WriterCommits(g) \/ WriterFails(g)
      PROVE  AcqTypes'
  BY <1>9, TypesUnchanged
  DEF WriterStep, WriterTakesEvent, WriterReports, WriterFinishes,
      WriterCloses, WriterCommits, WriterFails, acqVars
<1> QED
  BY <1>1, <1>2, <1>5, <1>6, <1>7, <1>8, <1>9, NextSteps, StartLeaves,
     CallersLeave, TypesUnchanged DEF WorkStep, SupervisorStep, SupStep

\* The writers and their channels.
LEMMA WriterTyped ==
  ASSUME AttemptInv, Next
  PROVE  WriterTypes'
<1> USE DEF WriterTypes, Set, Types
<1> Types
  BY DEF AttemptInv
<1>0. ASSUME NEW g \in Attempt, NEW m \in {"event", "finish"}
      PROVE  Append(wq[g], m) \in Seq({"event", "finish"})
  OBVIOUS
<1>1. ASSUME NEW g \in Attempt, StartWriter(g)
      PROVE  WriterTypes'
  <2>1. CASE UNCHANGED wr
    BY <1>1, <2>1 DEF StartWriter
  <2>2. CASE wr' = [wr EXCEPT ![g] = "running"]
    BY <1>1, <2>2 DEF StartWriter
  <2> QED
    BY <1>1, <2>1, <2>2 DEF StartWriter
<1>2. ASSUME NEW g \in Attempt, StartAcquire(g)
      PROVE  WriterTypes'
  BY <1>2 DEF StartAcquire, Launch
<1>3. ASSUME NEW g \in Attempt, WriterTakesEvent(g)
      PROVE  WriterTypes'
  <2>1. Tail(wq[g]) \in Seq({"event", "finish"})
    BY <1>3 DEF WriterTakesEvent
  <2>2. CASE UNCHANGED cur
    BY <1>3, <2>1, <2>2 DEF WriterTakesEvent
  <2>3. CASE /\ state[g] \in {"Stopping", "Aborting"}
             /\ cur' = [cur EXCEPT ![g] = state[g]]
    BY <1>3, <2>1, <2>3 DEF WriterTakesEvent
  <2> QED
    BY <1>3, <2>2, <2>3 DEF WriterTakesEvent
<1>4. ASSUME NEW g \in Attempt, WriterReports(g) \/ WriterCommits(g)
      PROVE  WriterTypes'
  BY <1>4 DEF WriterReports, WriterCommits, writerVars
<1>5. ASSUME NEW g \in Attempt, WriterFinishes(g)
      PROVE  WriterTypes'
  <2>1. Tail(wq[g]) \in Seq({"event", "finish"})
    BY <1>5 DEF WriterFinishes
  <2>2. CASE /\ Returns(g, "ended")
             /\ reply' = [reply EXCEPT ![g] = IF @ = "pending" THEN "ok" ELSE @]
    BY <1>5, <2>2 DEF WriterFinishes, Returns
  <2>3. CASE /\ reply' = [reply EXCEPT ![g] = IF @ = "pending" THEN "err" ELSE @]
             /\ wq' = [wq EXCEPT ![g] = Tail(@)] /\ UNCHANGED <<wr, cur>>
    BY <1>5, <2>1, <2>3 DEF WriterFinishes
  <2> QED
    BY <1>5, <2>2, <2>3 DEF WriterFinishes
<1>6. ASSUME NEW g \in Attempt, WriterCloses(g)
      PROVE  WriterTypes'
  BY <1>6 DEF WriterCloses, Returns
<1>7. ASSUME NEW g \in Attempt, WriterFails(g)
      PROVE  WriterTypes'
  BY <1>7 DEF WriterFails, Returns, Drop
<1>8. ASSUME NEW g \in Attempt, HandOver(g), UNCHANGED <<wr, closed, cur, reply>>
      PROVE  WriterTypes'
  BY <1>0, <1>8 DEF HandOver
<1>9. ASSUME NEW g \in Attempt, NEW place, Finish(g, place), UNCHANGED <<wr, cur>>
      PROVE  WriterTypes'
  BY <1>0, <1>9 DEF Finish
<1>10. ASSUME NEW g \in Attempt, NEW o, Break(g, o),
              UNCHANGED <<wr, cur, wq, reply>>
       PROVE  WriterTypes'
  BY <1>10 DEF Break
<1>11. ASSUME NEW g \in Attempt,
              \/ SupHandsOver(g) \/ SupDrains(g) \/ SupNatural(g)
              \/ SupDrained(g) \/ SupAbortFinish(g) \/ SupLosesWriter(g)
       PROVE  WriterTypes'
  BY <1>8, <1>9, <1>10, <1>11
  DEF SupHandsOver, SupDrains, SupNatural, SupDrained, SupAbortFinish,
      SupLosesWriter
<1>12. ASSUME NEW g \in Attempt, SupFinished(g) \/ SupAbortLate(g)
       PROVE  WriterTypes'
  <2>1. PICK o : Break(g, o)
    BY <1>12 DEF SupFinished, SupAbortLate, AbortIncomplete
  <2> QED
    BY <1>12, <2>1 DEF SupFinished, SupAbortLate, Break
<1>13. ASSUME NEW g \in Attempt, SupStopDeadline(g)
       PROVE  WriterTypes'
  <2>1. CASE UNCHANGED wq
    BY <1>13, <2>1 DEF SupStopDeadline, Break
  <2>2. CASE wq' = [wq EXCEPT ![g] = Append(@, "finish")]
    BY <1>0, <1>13, <2>2 DEF SupStopDeadline, Break
  <2> QED
    BY <1>13, <2>1, <2>2 DEF SupStopDeadline
<1>14. ASSUME NEW g \in Attempt,
              \/ AcqStep(g) \/ SupTakesStop(g) \/ SupTakesAbort(g)
              \/ SupJoins(g) \/ SupReleases(g) \/ SupPublishes(g)
       PROVE  WriterTypes'
  BY <1>14
  DEF AcqStep, AcqEmits, AcqEnds, SupTakesStop, SupTakesAbort, SupJoins,
      SupReleases, SupPublishes, writerVars
<1> QED
  BY <1>1, <1>2, <1>3, <1>4, <1>5, <1>6, <1>7, <1>11, <1>12, <1>13, <1>14,
     NextSteps, StartLeaves, CallersLeave, TypesUnchanged
  DEF WorkStep, SupervisorStep, SupStep, WriterStep, Deadlines

\* All the types.
LEMMA TypesKept ==
  ASSUME AttemptInv, Next
  PROVE  Types'
<1>1. active' \in Attempt \cup {0}
  <2>1. ASSUME NEW g \in Attempt, StartPublish(g)
        PROVE  active' \in Attempt
    BY <2>1 DEF StartPublish
  <2> QED
    BY <2>1, NextSteps, StartLeaves, WorkLeaves, SupervisorLeaves, CallersLeave
    DEF AttemptInv, Types
<1> QED
  BY <1>1, StateTyped, CallsTyped, AcqTyped, WriterTyped DEF Types

\* A Finish that the writer comes to is one that is waited for, with nothing
\* behind it, or one that a deadline left behind.
LEMMA FinishIsAwaited ==
  ASSUME AttemptInv, NEW g \in Attempt, wq[g] # <<>>, Head(wq[g]) = "finish"
  PROVE  \/ outcome[g] = "incomplete"
         \/ reply[g] = "pending" /\ Len(wq[g]) = 1
<1>1. 1 \in 1..Len(wq[g]) /\ wq[g][1] = "finish"
  BY DEF AttemptInv, Types, WriterTypes
<1> QED
  BY <1>1 DEF AttemptInv, QueueOK

\* The two ways in which the writer takes it.
LEMMA FinishWays ==
  ASSUME NEW g \in Attempt, WriterFinishes(g)
  PROVE  /\ wr[g] = "running" /\ wq[g] # <<>> /\ Head(wq[g]) = "finish"
         /\ UNCHANGED <<stage, lease, state, sup, outcome, acq, left, aq, closed>>
         /\ \/ /\ wr' = [wr EXCEPT ![g] = "ended"]
               /\ wq' = [wq EXCEPT ![g] = <<>>]
               /\ reply' = [reply EXCEPT ![g] = IF @ = "pending" THEN "ok"
                                                                 ELSE @]
            \/ /\ wr' = wr
               /\ wq' = [wq EXCEPT ![g] = Tail(@)]
               /\ reply' = [reply EXCEPT ![g] = IF @ = "pending" THEN "err"
                                                                 ELSE @]
  BY DEF WriterFinishes, Returns, Set, startVars, supVars, acqVars, Alive

\* The step where writer, supervisor and answer meet.
LEMMA FinishKeeps ==
  ASSUME AttemptInv, NEW g \in Attempt, WriterFinishes(g), NEW h \in Attempt
  PROVE  /\ WriterOK(h)' /\ SupOK(h)' /\ ReplyOK(h)'
         /\ AcqOK(h)' /\ StateOK(h)'
<1>0. outcome[g] = "incomplete" \/ reply[g] = "pending"
  BY FinishIsAwaited, FinishWays
<1>1. /\ wr[g] = "running"
      /\ UNCHANGED <<stage, state, sup, outcome, acq, left, aq, closed>>
  BY FinishWays
<1> USE <1>0, <1>1
    DEF AttemptInv, LeaseInv, Types, WriterTypes, StateTypes, Broken, Open,
        Closing, Places, Unlaunched, Holding, WriterOK, ReplyOK, SupOK
<1>2. CASE /\ wr' = [wr EXCEPT ![g] = "ended"] /\ wq' = [wq EXCEPT ![g] = <<>>]
           /\ reply' = [reply EXCEPT ![g] = IF @ = "pending" THEN "ok" ELSE @]
  <2>1. WriterOK(h)' /\ ReplyOK(h)' /\ SupOK(h)'
    BY <1>2
  <2>2. AcqOK(h)'
    BY <1>2 DEF AcqOK
  <2>3. StateOK(h)'
    BY <1>2 DEF StateOK, Terminal
  <2> QED
    BY <2>1, <2>2, <2>3
<1>3. CASE /\ wr' = wr /\ wq' = [wq EXCEPT ![g] = Tail(@)]
           /\ reply' = [reply EXCEPT ![g] = IF @ = "pending" THEN "err" ELSE @]
  <2>1. WriterOK(h)' /\ ReplyOK(h)' /\ SupOK(h)'
    BY <1>3
  <2>2. AcqOK(h)' /\ StateOK(h)'
    BY <1>3 DEF AcqOK, StateOK, Terminal
  <2> QED
    BY <2>1, <2>2
<1> QED
  BY FinishWays, <1>2, <1>3

\* Released or ended, the supervisor leaves no acquisition going.
LEMMA ReleaseKeepsAcq ==
  ASSUME AttemptInv, NEW g \in Attempt, SupReleases(g), NEW h \in Attempt
  PROVE  AcqOK(h)'
<1>0. sup[g] = "releasing" /\ UNCHANGED <<outcome, wr>>
  BY DEF SupReleases, writerVars
<1> USE <1>0 DEF AttemptInv, LeaseInv, Types, StateTypes, AcqTypes,
                 WriterTypes, Set, AcqOK, Broken
<1>1. CASE UNCHANGED acqVars /\ Goes(g, "publishing")
  BY <1>1 DEF Goes, acqVars
<1>2. CASE SupEnds(g)
  BY <1>2 DEF Goes, SupEnds, AbortAcq
<1> QED
  BY <1>1, <1>2 DEF SupReleases

\* A new writer publishes Running over an attempt that nobody supervises.
LEMMA WriterStartKeepsState ==
  ASSUME AttemptInv, NEW g \in Attempt, StartWriter(g), NEW h \in Attempt
  PROVE  StateOK(h)'
<1> USE DEF AttemptInv, LeaseInv, Types, StateTypes, WriterTypes, Set, StateOK,
            WriterOK, Terminal, StartWriter, Publish, supVars, Broken
<1>1. CASE UNCHANGED <<wr, state>>
  BY <1>1
<1>2. CASE wr' = Set(wr, g, "running") /\ Publish(g, "Running")
  <2>1. sup[g] = "none" /\ wr[g] = "none"
    BY DEF Unlaunched, Holding
  <2> QED
    BY <1>2, <2>1
<1> QED
  BY <1>1, <1>2

\* What a running writer publishes is not terminal, and its supervisor has
\* not ended.
LEMMA EventKeepsState ==
  ASSUME AttemptInv, NEW g \in Attempt, WriterTakesEvent(g), NEW h \in Attempt
  PROVE  StateOK(h)'
<1>1. PICK s \in {"Running", "Stopping", "Aborting"} :
          state' = [state EXCEPT ![g] = s]
  BY DEF AttemptInv, Types, WriterTypes, WriterTakesEvent, Publish, Set
<1>2. sup[g] # "done"
  BY DEF AttemptInv, SupOK, WriterTakesEvent, Alive
<1> QED
  BY <1>1, <1>2
  DEF AttemptInv, Types, StateTypes, WriterTypes, StateOK, Terminal,
      WriterTakesEvent, supVars, Broken, Alive

\* The last state: of a source whose writer was lost, or whose stop met an
\* error, the supervisor publishes what the writer left.
LEMMA PublishKeepsState ==
  ASSUME AttemptInv, NEW g \in Attempt, SupPublishes(g), NEW h \in Attempt
  PROVE  StateOK(h)'
<1> USE DEF AttemptInv, LeaseInv, Types, StateTypes, WriterTypes, Set,
            SupPublishes, SupEnds, Goes, Publish, writerVars
<1>1. /\ outcome[g] \in Outcomes \ {"none"} /\ closed[g]
      /\ wr[g] \in {"ended", "failed"}
  BY DEF SupOK, Closing
<1>2. FinalState(g) = state[g] \/ Terminal(FinalState(g))
  BY <1>1 DEF FinalState, Terminal, Outcomes
<1>3. Terminal(FinalState(g)) \/ (outcome[g] = "stoperror" /\ wr[g] = "failed")
  BY <1>1 DEF FinalState, Terminal, Outcomes, StateOK
<1>4. CASE h # g
  BY <1>4 DEF StateOK, Broken
<1>5. CASE h = g
  <2>1. /\ state'[h] = FinalState(g) /\ sup'[h] = "done" /\ closed'[h]
        /\ outcome'[h] = outcome[h] /\ wr'[h] = wr[h]
    BY <1>5, <1>1
  <2> QED
    BY <1>5, <2>1, <1>1, <1>2, <1>3 DEF StateOK, Broken, Terminal
<1> QED
  BY <1>4, <1>5

\* A launch takes over what the writer has published so far.
LEMMA LaunchKeepsState ==
  ASSUME AttemptInv, NEW g \in Attempt, StartAcquire(g), NEW h \in Attempt
  PROVE  StateOK(h)'
<1> USE DEF AttemptInv, LeaseInv, Types, WriterTypes, Set
<1>1. UNCHANGED <<state, wr, outcome>> /\ sup[g] = "none"
  BY DEF StartAcquire, Unlaunched, Holding
<1>2. closed[h] => closed'[h]
  BY DEF StartAcquire, Launch
<1>3. sup'[h] = sup[h] \/ (sup[h] = "none" /\ sup'[h] = "loop")
  BY <1>1 DEF StartAcquire, Launch
<1> QED
  BY <1>1, <1>2, <1>3 DEF StateOK, Terminal, Broken

\* The supervisor drops its sender, or sends to a writer that is running.
LEMMA BreakKeepsWriter ==
  ASSUME AttemptInv, NEW g \in Attempt, NEW o, Break(g, o), sup[g] \in Open,
         UNCHANGED <<stage, wr, wq>>, NEW h \in Attempt
  PROVE  WriterOK(h)'
<1>1. stage[g] \notin Unlaunched
  BY DEF AttemptInv, LeaseInv, Open
<1> QED
  BY <1>1
  DEF AttemptInv, Types, WriterTypes, WriterOK, Break, Set, Unlaunched, Holding

LEMMA SendKeepsWriter ==
  ASSUME AttemptInv, NEW g \in Attempt, NEW m, wr[g] = "running",
         wq' = [wq EXCEPT ![g] = Append(@, m)], UNCHANGED <<stage, wr, closed>>,
         NEW h \in Attempt
  PROVE  WriterOK(h)'
  BY DEF AttemptInv, Types, WriterTypes, WriterOK

\* The writer.
LEMMA WriterKept ==
  ASSUME AttemptInv, Next, NEW h \in Attempt
  PROVE  WriterOK(h)'
<1> USE DEF AttemptInv, LeaseInv, Types, WriterTypes, SupOK, Unlaunched,
            Holding, WriterOK, Set
<1>1. ASSUME NEW g \in Attempt, StartAsk(g) \/ StartAdmit(g) \/ CallerGone(g)
             \/ StartLease(g) \/ StartJoinsWriter(g)
      PROVE  WriterOK(h)'
  BY <1>1 DEF StartAsk, StartAdmit, CallerGone, StartLease, StartJoinsWriter,
     supVars, acqVars, writerVars, Fails
<1>2. ASSUME NEW g \in Attempt, StartSettle(g) \/ StartPublish(g) \/
             StartEnds(g)
      PROVE  WriterOK(h)'
  BY <1>2 DEF StartSettle, StartPublish, StartEnds, acqVars, writerVars,
     supVars
<1>3. ASSUME NEW g \in Attempt, StartWriter(g) \/ StartAcquire(g)
      PROVE  WriterOK(h)'
  BY <1>3 DEF StartWriter, StartAcquire, Fails, Publish, supVars, acqVars,
     Launch
<1>4. ASSUME NEW g \in Attempt, AcqEmits(g) \/ AcqEnds(g) \/
             WriterTakesEvent(g) \/ WriterCommits(g)
      PROVE  WriterOK(h)'
  BY <1>4 DEF AcqEmits, AcqEnds, WriterTakesEvent, WriterCommits, startVars,
     supVars, writerVars, acqVars, Publish, Alive
<1>5. ASSUME NEW g \in Attempt, WriterReports(g) \/ WriterFails(g) \/
             WriterCloses(g)
      PROVE  WriterOK(h)'
  BY <1>5 DEF WriterReports, WriterFails, WriterCloses, startVars, supVars,
     acqVars, Publish, Returns, Alive, Drop
<1>6. ASSUME NEW g \in Attempt, SupTakesStop(g) \/ SupTakesAbort(g)
      PROVE  WriterOK(h)'
  BY <1>6 DEF SupTakesStop, SupTakesAbort, startVars, Takes, Publish, Goes,
     writerVars, AbortAcq
<1>7. ASSUME NEW g \in Attempt, SupJoins(g) \/ SupReleases(g) \/
             SupPublishes(g)
      PROVE  WriterOK(h)'
  BY <1>7 DEF SupJoins, SupReleases, SupPublishes, startVars, acqVars,
     writerVars, Goes, SupEnds, Publish, AbortAcq, FinalState
<1>8. ASSUME NEW g \in Attempt, SupStopDeadline(g)
      PROVE  WriterOK(h)'
  BY <1>8 DEF SupStopDeadline, startVars, AbortAcq, Publish, Alive, Break,
     Goes, Answer
<1>9. ASSUME NEW g \in Attempt, WriterFinishes(g)
      PROVE  WriterOK(h)'
  BY <1>9, FinishKeeps
<1>10. ASSUME NEW g \in Attempt, SupLosesWriter(g) \/ SupFinished(g) \/ SupAbortLate(g)
      PROVE  WriterOK(h)'
  BY <1>10, BreakKeepsWriter DEF SupLosesWriter, SupFinished, SupAbortLate,
     AbortIncomplete, startVars, Open
<1>11. ASSUME NEW g \in Attempt, SupNatural(g) \/ SupDrained(g) \/ SupAbortFinish(g)
      PROVE  WriterOK(h)'
  BY <1>11, BreakKeepsWriter, SendKeepsWriter DEF SupNatural, SupDrained,
     SupAbortFinish, Finish, Alive, startVars, Open
<1>12. ASSUME NEW g \in Attempt, SupHandsOver(g) \/ SupDrains(g)
      PROVE  WriterOK(h)'
  BY <1>12, BreakKeepsWriter, SendKeepsWriter DEF SupHandsOver, SupDrains,
     HandOver, Alive, startVars, Open
<1>13. ASSUME CallerStep
      PROVE  WriterOK(h)'
  BY <1>13, CallersLeave
<1> QED
  BY <1>1, <1>2, <1>3, <1>4, <1>5, <1>6, <1>7, <1>8, <1>9, <1>10, <1>11, <1>12,
     <1>13
  DEF Next, CallerStep, StartStep, SupStep, WriterStep, AcqStep, Deadlines

\* The supervisor.
LEMMA SupKept ==
  ASSUME AttemptInv, Next, NEW h \in Attempt
  PROVE  SupOK(h)'
<1> USE DEF AttemptInv, LeaseInv, Types, StateTypes, AcqTypes, WriterTypes,
            WriterOK, ReplyOK, Unlaunched, Holding, Open, Closing, Broken,
            SupOK, Set
<1>1. ASSUME NEW g \in Attempt, StartAsk(g) \/ StartAdmit(g) \/ CallerGone(g)
             \/ StartLease(g) \/ StartJoinsWriter(g)
      PROVE  SupOK(h)'
  BY <1>1 DEF StartAsk, StartAdmit, CallerGone, StartLease, StartJoinsWriter,
     supVars, acqVars, writerVars, Fails
<1>2. ASSUME NEW g \in Attempt, StartSettle(g) \/ StartPublish(g) \/
             StartEnds(g)
      PROVE  SupOK(h)'
  BY <1>2 DEF StartSettle, StartPublish, StartEnds, acqVars, writerVars,
     supVars
<1>3. ASSUME NEW g \in Attempt, StartWriter(g)
      PROVE  SupOK(h)'
  BY <1>3 DEF StartWriter, Fails, Publish, supVars, acqVars
<1>4. ASSUME NEW g \in Attempt, StartAcquire(g)
      PROVE  SupOK(h)'
  BY <1>4 DEF StartAcquire, Fails, Launch
<1>5. ASSUME NEW g \in Attempt, AcqEmits(g) \/ AcqEnds(g) \/
             WriterTakesEvent(g) \/ WriterCommits(g)
      PROVE  SupOK(h)'
  BY <1>5 DEF AcqEmits, AcqEnds, WriterTakesEvent, WriterCommits, startVars,
     supVars, writerVars, acqVars, Publish, Alive
<1>6. ASSUME NEW g \in Attempt, WriterReports(g)
      PROVE  SupOK(h)'
  BY <1>6 DEF WriterReports, startVars, supVars, acqVars, Publish
<1>7. ASSUME NEW g \in Attempt, WriterFails(g)
      PROVE  SupOK(h)'
  BY <1>7 DEF WriterFails, startVars, supVars, acqVars, Returns, Publish,
     Alive, Drop
<1>8. ASSUME NEW g \in Attempt, WriterCloses(g)
      PROVE  SupOK(h)'
  BY <1>8 DEF WriterCloses, startVars, supVars, acqVars, Returns, Publish,
     Alive
<1>9. ASSUME NEW g \in Attempt, SupHandsOver(g) \/ SupLosesWriter(g)
      PROVE  SupOK(h)'
  BY <1>9 DEF SupHandsOver, SupLosesWriter, startVars, supVars, HandOver,
     Alive, AbortAcq, Break, Goes
<1>10. ASSUME NEW g \in Attempt, SupNatural(g)
      PROVE  SupOK(h)'
  BY <1>10 DEF SupNatural, startVars, acqVars, Break, Goes, Alive, Finish
<1>11. ASSUME NEW g \in Attempt, SupDrained(g)
      PROVE  SupOK(h)'
  BY <1>11 DEF SupDrained, startVars, acqVars, Break, Goes, Alive, Finish
<1>12. ASSUME NEW g \in Attempt, SupTakesStop(g) \/ SupTakesAbort(g)
      PROVE  SupOK(h)'
  BY <1>12 DEF SupTakesStop, SupTakesAbort, startVars, Takes, Publish, Goes,
     writerVars, AbortAcq
<1>13. ASSUME NEW g \in Attempt, SupDrains(g)
      PROVE  SupOK(h)'
  BY <1>13 DEF SupDrains, startVars, HandOver, Break, Goes, Alive
<1>14. ASSUME NEW g \in Attempt, SupAbortFinish(g)
      PROVE  SupOK(h)'
  BY <1>14 DEF SupAbortFinish, startVars, acqVars, Goes, Alive, Finish
<1>15. ASSUME NEW g \in Attempt, SupFinished(g)
      PROVE  SupOK(h)'
  BY <1>15 DEF SupFinished, startVars, acqVars, Break, Goes, AbortIncomplete,
     Publish, Answer
<1>16. ASSUME NEW g \in Attempt, SupJoins(g) \/ SupReleases(g) \/
             SupPublishes(g)
      PROVE  SupOK(h)'
  BY <1>16 DEF SupJoins, SupReleases, SupPublishes, startVars, acqVars,
     writerVars, Goes, SupEnds, Publish, AbortAcq, FinalState
<1>17. ASSUME NEW g \in Attempt, SupStopDeadline(g)
      PROVE  SupOK(h)'
  BY <1>17 DEF SupStopDeadline, startVars, AbortAcq, Publish, Alive, Break,
     Goes, Answer
<1>18. ASSUME NEW g \in Attempt, SupAbortLate(g)
      PROVE  SupOK(h)'
  BY <1>18 DEF SupAbortLate, startVars, acqVars, AbortIncomplete, Break, Goes,
     Publish, Answer
<1>19. ASSUME NEW g \in Attempt, WriterFinishes(g)
      PROVE  SupOK(h)'
  BY <1>19, FinishKeeps
<1>20. ASSUME CallerStep
      PROVE  SupOK(h)'
  BY <1>20, CallersLeave
<1> QED
  BY <1>1, <1>2, <1>3, <1>4, <1>5, <1>6, <1>7, <1>8, <1>9, <1>10, <1>11, <1>12,
     <1>13, <1>14, <1>15, <1>16, <1>17, <1>18, <1>19, <1>20
  DEF Next, CallerStep, StartStep, SupStep, WriterStep, AcqStep, Deadlines

\* The answer.
LEMMA ReplyKept ==
  ASSUME AttemptInv, Next, NEW h \in Attempt
  PROVE  ReplyOK(h)'
<1> USE DEF AttemptInv, LeaseInv, Types, WriterTypes, WriterOK, SupOK, Broken,
            Open, Closing, ReplyOK, Set
<1>1. ASSUME NEW g \in Attempt, StartAsk(g) \/ StartAdmit(g) \/ CallerGone(g)
             \/ StartLease(g) \/ StartJoinsWriter(g) \/ StartSettle(g) \/
             StartPublish(g) \/ StartEnds(g)
      PROVE  ReplyOK(h)'
  BY <1>1 DEF StartAsk, StartAdmit, CallerGone, StartLease, StartJoinsWriter,
     StartSettle, StartPublish, StartEnds, supVars, acqVars, writerVars, Fails
<1>2. ASSUME NEW g \in Attempt, StartWriter(g) \/ StartAcquire(g)
      PROVE  ReplyOK(h)'
  BY <1>2 DEF StartWriter, StartAcquire, Fails, Publish, supVars, acqVars,
     Launch
<1>3. ASSUME NEW g \in Attempt, AcqEmits(g) \/ AcqEnds(g) \/
             WriterTakesEvent(g) \/ WriterCommits(g)
      PROVE  ReplyOK(h)'
  BY <1>3 DEF AcqEmits, AcqEnds, WriterTakesEvent, WriterCommits, startVars,
     supVars, writerVars, acqVars, Publish, Alive
<1>4. ASSUME NEW g \in Attempt, WriterReports(g) \/ WriterFails(g)
      PROVE  ReplyOK(h)'
  BY <1>4 DEF WriterReports, WriterFails, startVars, supVars, acqVars, Publish,
     Returns, Alive, Drop
<1>5. ASSUME NEW g \in Attempt, SupHandsOver(g) \/ SupLosesWriter(g) \/
             SupNatural(g)
      PROVE  ReplyOK(h)'
  BY <1>5 DEF SupHandsOver, SupLosesWriter, SupNatural, startVars, supVars,
     HandOver, Alive, AbortAcq, Break, Goes, acqVars, Finish
<1>6. ASSUME NEW g \in Attempt, SupDrained(g) \/ SupTakesStop(g) \/
             SupTakesAbort(g)
      PROVE  ReplyOK(h)'
  BY <1>6 DEF SupDrained, SupTakesStop, SupTakesAbort, startVars, acqVars,
     Break, Goes, Alive, Finish, Takes, Publish, writerVars, AbortAcq
<1>7. ASSUME NEW g \in Attempt, SupDrains(g) \/ SupAbortFinish(g)
      PROVE  ReplyOK(h)'
  BY <1>7 DEF SupDrains, SupAbortFinish, startVars, HandOver, Break, Goes,
     Alive, acqVars, Finish
<1>8. ASSUME NEW g \in Attempt, SupFinished(g)
      PROVE  ReplyOK(h)'
  BY <1>8 DEF SupFinished, startVars, acqVars, Break, Goes, AbortIncomplete,
     Publish, Answer
<1>9. ASSUME NEW g \in Attempt, SupJoins(g) \/ SupReleases(g) \/
             SupPublishes(g)
      PROVE  ReplyOK(h)'
  BY <1>9 DEF SupJoins, SupReleases, SupPublishes, startVars, acqVars,
     writerVars, Goes, SupEnds, Publish, AbortAcq, FinalState
<1>10. ASSUME NEW g \in Attempt, SupStopDeadline(g) \/ SupAbortLate(g)
      PROVE  ReplyOK(h)'
  BY <1>10 DEF SupStopDeadline, SupAbortLate, startVars, AbortAcq, Publish,
     Alive, Break, Goes, Answer, acqVars, AbortIncomplete
<1>11. ASSUME NEW g \in Attempt, WriterFinishes(g)
      PROVE  ReplyOK(h)'
  BY <1>11, FinishKeeps
<1>12. ASSUME NEW g \in Attempt, WriterCloses(g)
      PROVE  ReplyOK(h)'
  <2>1. reply[g] = "none"
    BY <1>12 DEF WriterCloses, Places
  <2> QED
    BY <1>12, <2>1 DEF WriterCloses, Returns
<1>13. ASSUME CallerStep
      PROVE  ReplyOK(h)'
  BY <1>13, CallersLeave
<1> QED
  BY <1>1, <1>2, <1>3, <1>4, <1>5, <1>6, <1>7, <1>8, <1>9, <1>10, <1>11, <1>12,
     <1>13
  DEF Next, CallerStep, StartStep, SupStep, WriterStep, AcqStep, Deadlines

\* The acquisition.
LEMMA AcqKept ==
  ASSUME AttemptInv, Next, NEW h \in Attempt
  PROVE  AcqOK(h)'
<1> USE DEF AttemptInv, LeaseInv, Types, StateTypes, AcqTypes, WriterTypes,
            WriterOK, ReplyOK, SupOK, Unlaunched, Holding, Open, Closing,
            Broken, AcqOK, Set
<1>1. ASSUME NEW g \in Attempt, StartAsk(g) \/ StartAdmit(g) \/ CallerGone(g)
             \/ StartLease(g) \/ StartJoinsWriter(g) \/ StartSettle(g) \/
             StartPublish(g) \/ StartEnds(g)
      PROVE  AcqOK(h)'
  BY <1>1 DEF StartAsk, StartAdmit, CallerGone, StartLease, StartJoinsWriter,
     StartSettle, StartPublish, StartEnds, supVars, acqVars, writerVars, Fails
<1>2. ASSUME NEW g \in Attempt, StartWriter(g)
      PROVE  AcqOK(h)'
  BY <1>2 DEF StartWriter, Fails, Publish, supVars, acqVars
<1>3. ASSUME NEW g \in Attempt, StartAcquire(g)
      PROVE  AcqOK(h)'
  BY <1>3 DEF StartAcquire, Fails, Launch
<1>4. ASSUME NEW g \in Attempt, AcqEmits(g) \/ AcqEnds(g)
      PROVE  AcqOK(h)'
  BY <1>4 DEF AcqEmits, AcqEnds, startVars, supVars, writerVars
<1>5. ASSUME NEW g \in Attempt, WriterTakesEvent(g) \/ WriterCommits(g)
      PROVE  AcqOK(h)'
  BY <1>5 DEF WriterTakesEvent, WriterCommits, startVars, supVars, acqVars,
     Publish, Alive, writerVars
<1>6. ASSUME NEW g \in Attempt, WriterReports(g) \/ WriterFails(g)
      PROVE  AcqOK(h)'
  BY <1>6 DEF WriterReports, WriterFails, startVars, supVars, acqVars, Publish,
     Returns, Alive, Drop
<1>7. ASSUME NEW g \in Attempt, WriterCloses(g)
      PROVE  AcqOK(h)'
  BY <1>7 DEF WriterCloses, startVars, supVars, acqVars, Returns, Publish,
     Alive
<1>8. ASSUME NEW g \in Attempt, SupHandsOver(g) \/ SupLosesWriter(g)
      PROVE  AcqOK(h)'
  BY <1>8 DEF SupHandsOver, SupLosesWriter, startVars, supVars, HandOver,
     Alive, AbortAcq, Break, Goes
<1>9. ASSUME NEW g \in Attempt, SupNatural(g)
      PROVE  AcqOK(h)'
  BY <1>9 DEF SupNatural, startVars, acqVars, Break, Goes, Alive, Finish
<1>10. ASSUME NEW g \in Attempt, SupDrained(g)
      PROVE  AcqOK(h)'
  BY <1>10 DEF SupDrained, startVars, acqVars, Break, Goes, Alive, Finish
<1>11. ASSUME NEW g \in Attempt, SupTakesStop(g)
      PROVE  AcqOK(h)'
  BY <1>11 DEF SupTakesStop, startVars, Takes, Publish, Goes, writerVars
<1>12. ASSUME NEW g \in Attempt, SupTakesAbort(g)
      PROVE  AcqOK(h)'
  BY <1>12 DEF SupTakesAbort, startVars, Takes, Publish, Goes, writerVars,
     AbortAcq
<1>13. ASSUME NEW g \in Attempt, SupDrains(g)
      PROVE  AcqOK(h)'
  BY <1>13 DEF SupDrains, startVars, HandOver, Break, Goes, Alive
<1>14. ASSUME NEW g \in Attempt, SupAbortFinish(g)
      PROVE  AcqOK(h)'
  BY <1>14 DEF SupAbortFinish, startVars, acqVars, Goes, Alive, Finish
<1>15. ASSUME NEW g \in Attempt, SupFinished(g)
      PROVE  AcqOK(h)'
  BY <1>15 DEF SupFinished, startVars, acqVars, Break, Goes, AbortIncomplete,
     Publish, Answer
<1>16. ASSUME NEW g \in Attempt, SupJoins(g)
      PROVE  AcqOK(h)'
  BY <1>16 DEF SupJoins, startVars, acqVars, writerVars, Goes
<1>17. ASSUME NEW g \in Attempt, SupPublishes(g)
      PROVE  AcqOK(h)'
  BY <1>17 DEF SupPublishes, startVars, writerVars, Goes, SupEnds, Publish,
     AbortAcq, FinalState
<1>18. ASSUME NEW g \in Attempt, SupStopDeadline(g)
      PROVE  AcqOK(h)'
  BY <1>18 DEF SupStopDeadline, startVars, AbortAcq, Publish, Alive, Break,
     Goes, Answer
<1>19. ASSUME NEW g \in Attempt, SupAbortLate(g)
      PROVE  AcqOK(h)'
  BY <1>19 DEF SupAbortLate, startVars, acqVars, AbortIncomplete, Break, Goes,
     Publish, Answer
<1>20. ASSUME NEW g \in Attempt, WriterFinishes(g)
      PROVE  AcqOK(h)'
  BY <1>20, FinishKeeps
<1>21. ASSUME NEW g \in Attempt, SupReleases(g)
      PROVE  AcqOK(h)'
  BY <1>21, ReleaseKeepsAcq
<1>22. ASSUME CallerStep
      PROVE  AcqOK(h)'
  BY <1>22, CallersLeave
<1> QED
  BY <1>1, <1>2, <1>3, <1>4, <1>5, <1>6, <1>7, <1>8, <1>9, <1>10, <1>11, <1>12,
     <1>13, <1>14, <1>15, <1>16, <1>17, <1>18, <1>19, <1>20, <1>21, <1>22
  DEF Next, CallerStep, StartStep, SupStep, WriterStep, AcqStep, Deadlines

\* The state.
LEMMA StateKept ==
  ASSUME AttemptInv, Next, NEW h \in Attempt
  PROVE  StateOK(h)'
<1> USE DEF AttemptInv, LeaseInv, Types, StateTypes, WriterTypes, WriterOK,
            ReplyOK, SupOK, Unlaunched, Holding, Open, Closing, Broken,
            Terminal, StateOK, Set
<1>1. ASSUME NEW g \in Attempt, StartAsk(g) \/ StartAdmit(g) \/ CallerGone(g)
             \/ StartLease(g) \/ StartJoinsWriter(g) \/ StartSettle(g) \/
             StartPublish(g) \/ StartEnds(g)
      PROVE  StateOK(h)'
  BY <1>1 DEF StartAsk, StartAdmit, CallerGone, StartLease, StartJoinsWriter,
     StartSettle, StartPublish, StartEnds, supVars, acqVars, writerVars, Fails
<1>2. ASSUME NEW g \in Attempt, AcqEmits(g) \/ AcqEnds(g)
      PROVE  StateOK(h)'
  BY <1>2 DEF AcqEmits, AcqEnds, startVars, supVars, writerVars
<1>3. ASSUME NEW g \in Attempt, WriterCommits(g)
      PROVE  StateOK(h)'
  BY <1>3 DEF WriterCommits, startVars, supVars, acqVars, writerVars, Publish,
     Alive
<1>4. ASSUME NEW g \in Attempt, WriterReports(g)
      PROVE  StateOK(h)'
  BY <1>4 DEF WriterReports, startVars, supVars, acqVars, Publish
<1>5. ASSUME NEW g \in Attempt, WriterFails(g)
      PROVE  StateOK(h)'
  BY <1>5 DEF WriterFails, startVars, supVars, acqVars, Returns, Publish,
     Alive, Drop
<1>6. ASSUME NEW g \in Attempt, WriterCloses(g)
      PROVE  StateOK(h)'
  BY <1>6 DEF WriterCloses, startVars, supVars, acqVars, Returns, Publish,
     Alive
<1>7. ASSUME NEW g \in Attempt, SupHandsOver(g) \/ SupLosesWriter(g)
      PROVE  StateOK(h)'
  BY <1>7 DEF SupHandsOver, SupLosesWriter, startVars, supVars, HandOver,
     Alive, AbortAcq, Break, Goes
<1>8. ASSUME NEW g \in Attempt, SupNatural(g)
      PROVE  StateOK(h)'
  BY <1>8 DEF SupNatural, startVars, acqVars, Break, Goes, Alive, Finish
<1>9. ASSUME NEW g \in Attempt, SupDrained(g)
      PROVE  StateOK(h)'
  BY <1>9 DEF SupDrained, startVars, acqVars, Break, Goes, Alive, Finish
<1>10. ASSUME NEW g \in Attempt, SupTakesStop(g)
      PROVE  StateOK(h)'
  BY <1>10 DEF SupTakesStop, startVars, Takes, Publish, Goes, writerVars
<1>11. ASSUME NEW g \in Attempt, SupTakesAbort(g)
      PROVE  StateOK(h)'
  BY <1>11 DEF SupTakesAbort, startVars, Takes, Publish, Goes, writerVars,
     AbortAcq
<1>12. ASSUME NEW g \in Attempt, SupDrains(g)
      PROVE  StateOK(h)'
  BY <1>12 DEF SupDrains, startVars, HandOver, Break, Goes, Alive
<1>13. ASSUME NEW g \in Attempt, SupAbortFinish(g)
      PROVE  StateOK(h)'
  BY <1>13 DEF SupAbortFinish, startVars, acqVars, Goes, Alive, Finish
<1>14. ASSUME NEW g \in Attempt, SupFinished(g)
      PROVE  StateOK(h)'
  BY <1>14 DEF SupFinished, startVars, acqVars, Break, Goes, AbortIncomplete,
     Publish, Answer
<1>15. ASSUME NEW g \in Attempt, SupJoins(g) \/ SupReleases(g)
      PROVE  StateOK(h)'
  BY <1>15 DEF SupJoins, SupReleases, startVars, acqVars, writerVars, Goes,
     SupEnds, Publish, AbortAcq
<1>16. ASSUME NEW g \in Attempt, SupStopDeadline(g)
      PROVE  StateOK(h)'
  BY <1>16 DEF SupStopDeadline, startVars, AbortAcq, Publish, Alive, Break,
     Goes, Answer
<1>17. ASSUME NEW g \in Attempt, SupAbortLate(g)
      PROVE  StateOK(h)'
  BY <1>17 DEF SupAbortLate, startVars, acqVars, AbortIncomplete, Break, Goes,
     Publish, Answer
<1>18. ASSUME NEW g \in Attempt, WriterFinishes(g)
      PROVE  StateOK(h)'
  BY <1>18, FinishKeeps
<1>19. ASSUME NEW g \in Attempt, StartWriter(g)
      PROVE  StateOK(h)'
  BY <1>19, WriterStartKeepsState
<1>20. ASSUME NEW g \in Attempt, StartAcquire(g)
      PROVE  StateOK(h)'
  BY <1>20, LaunchKeepsState
<1>21. ASSUME NEW g \in Attempt, WriterTakesEvent(g)
      PROVE  StateOK(h)'
  BY <1>21, EventKeepsState
<1>22. ASSUME NEW g \in Attempt, SupPublishes(g)
      PROVE  StateOK(h)'
  BY <1>22, PublishKeepsState
<1>23. ASSUME CallerStep
      PROVE  StateOK(h)'
  BY <1>23, CallersLeave
<1> QED
  BY <1>1, <1>2, <1>3, <1>4, <1>5, <1>6, <1>7, <1>8, <1>9, <1>10, <1>11, <1>12,
     <1>13, <1>14, <1>15, <1>16, <1>17, <1>18, <1>19, <1>20, <1>21, <1>22,
     <1>23
  DEF Next, CallerStep, StartStep, SupStep, WriterStep, AcqStep, Deadlines
\* A channel without a Finish.
Unfinished(q) == \A k \in 1..Len(q) : q[k] # "finish"

\* What sending and taking do to it.
LEMMA EventKeepsUnfinished ==
  ASSUME NEW q \in Seq({"event", "finish"}), Unfinished(q)
  PROVE  Unfinished(Append(q, "event"))
  BY DEF Unfinished

LEMMA FinishIsLast ==
  ASSUME NEW q \in Seq({"event", "finish"}), Unfinished(q),
         NEW k \in 1..Len(Append(q, "finish")),
         Append(q, "finish")[k] = "finish"
  PROVE  k = Len(Append(q, "finish"))
  BY DEF Unfinished

LEMMA TailShifts ==
  ASSUME NEW q \in Seq({"event", "finish"}), q # <<>>, NEW k \in 1..Len(Tail(q))
  PROVE  /\ k + 1 \in 1..Len(q) /\ Tail(q)[k] = q[k + 1]
         /\ Len(Tail(q)) = Len(q) - 1
  OBVIOUS

\* When no answer is waited for there is no Finish, unless a deadline left one.
LEMMA NothingAwaited ==
  ASSUME AttemptInv, NEW g \in Attempt, reply[g] # "pending",
         outcome[g] # "incomplete"
  PROVE  Unfinished(wq[g])
  BY DEF AttemptInv, QueueOK, Unfinished

\* The channel.
LEMMA QueueKept ==
  ASSUME AttemptInv, Next, NEW h \in Attempt
  PROVE  QueueOK(h)'
<1> USE DEF Set
<1> /\ wq \in [Attempt -> Seq({"event", "finish"})]
    /\ reply \in [Attempt -> {"none", "pending", "ok", "err", "dropped"}]
    /\ outcome \in [Attempt -> Outcomes]
  BY DEF AttemptInv, Types, WriterTypes, StateTypes
<1>0. ASSUME NEW g \in Attempt, sup[g] \in Open
      PROVE  outcome[g] = "none"
  BY <1>0 DEF AttemptInv, SupOK
<1>1. ASSUME wq'[h] = wq[h], outcome'[h] = outcome[h], reply'[h] = reply[h]
      PROVE  QueueOK(h)'
  BY <1>1 DEF QueueOK, AttemptInv
<1>2. ASSUME Len(wq'[h]) = 0 \/ outcome'[h] = "incomplete" \/ Unfinished(wq'[h])
      PROVE  QueueOK(h)'
  BY <1>2 DEF QueueOK, Unfinished
<1>3. ASSUME wq'[h] = Tail(wq[h]), wq[h] # <<>>, outcome'[h] = outcome[h],
             Head(wq[h]) = "finish" \/ reply'[h] = reply[h]
      PROVE  QueueOK(h)'
  <2>1. CASE Head(wq[h]) = "finish"
    <3>1. outcome[h] = "incomplete" \/ Len(wq[h]) = 1
      BY <2>1, <1>3, FinishIsAwaited
    <3>2. Len(wq[h]) = 1 => Len(Tail(wq[h])) = 0
      BY <1>3
    <3> QED
      BY <3>1, <3>2, <1>2, <1>3
  <2>2. CASE reply'[h] = reply[h]
    <3> SUFFICES ASSUME NEW k \in 1..Len(wq'[h]), wq'[h][k] = "finish"
                 PROVE  \/ outcome'[h] = "incomplete"
                        \/ reply'[h] = "pending" /\ k = Len(wq'[h])
      BY DEF QueueOK
    <3>1. /\ k + 1 \in 1..Len(wq[h]) /\ wq[h][k + 1] = "finish"
          /\ Len(wq'[h]) = Len(wq[h]) - 1
      BY <1>3, TailShifts
    <3> QED
      BY <3>1, <2>2, <1>3 DEF AttemptInv, QueueOK
  <2> QED
    BY <1>3, <2>1, <2>2
<1>4. ASSUME NEW g \in Attempt, HandOver(g), sup[g] \in {"loop", "draining"},
             UNCHANGED <<outcome, reply>>
      PROVE  QueueOK(h)'
  <2>1. reply[g] = "none" /\ outcome[g] = "none"
    BY <1>4, <1>0 DEF AttemptInv, SupOK, Open
  <2>2. Unfinished(Append(wq[g], "event"))
    BY <2>1, EventKeepsUnfinished, NothingAwaited
  <2>3. CASE h = g
    BY <1>4, <2>2, <2>3, <1>2 DEF HandOver
  <2>4. CASE h # g
    BY <1>4, <2>4, <1>1 DEF HandOver
  <2> QED
    BY <2>3, <2>4
<1>5. ASSUME NEW g \in Attempt, NEW place, Finish(g, place),
             sup[g] \in {"loop", "draining", "discarding"}
      PROVE  QueueOK(h)'
  <2>1. reply[g] = "none" /\ outcome[g] = "none"
    BY <1>5, <1>0 DEF AttemptInv, SupOK, Open
  <2>2. Unfinished(wq[g])
    BY <2>1, NothingAwaited
  <2>3. CASE h = g
    <3>1. wq'[h] = Append(wq[h], "finish") /\ reply'[h] = "pending"
      BY <1>5, <2>3 DEF Finish
    <3> QED
      BY <3>1, <2>2, <2>3, FinishIsLast DEF QueueOK
  <2>4. CASE h # g
    BY <1>5, <2>4, <1>1 DEF Finish
  <2> QED
    BY <2>3, <2>4
<1>6. ASSUME NEW g \in Attempt, NEW o, Break(g, o), sup[g] \in Open, wq' = wq,
             \/ reply' = reply
             \/ reply[g] # "pending" /\ reply' = [reply EXCEPT ![g] = "none"]
      PROVE  QueueOK(h)'
  <2>1. CASE h # g
    BY <1>6, <2>1, <1>1 DEF Break
  <2>2. CASE h = g /\ reply' = reply
    BY <1>6, <2>2, <1>0 DEF AttemptInv, QueueOK
  <2>3. CASE h = g /\ reply[g] # "pending"
    BY <1>6, <2>3, <1>0, <1>2, NothingAwaited
  <2> QED
    BY <1>6, <2>1, <2>2, <2>3
<1>7. ASSUME NEW g \in Attempt, Deadlines(g)
      PROVE  QueueOK(h)'
  <2> USE DEF Deadlines, SupStopDeadline, SupAbortLate, AbortIncomplete, Break
  <2>1. CASE h = g
    BY <1>7, <2>1, <1>2
  <2>2. CASE h # g
    BY <1>7, <2>2, <1>1
  <2> QED
    BY <2>1, <2>2
<1>8. ASSUME NEW g \in Attempt, WriterTakesEvent(g)
      PROVE  QueueOK(h)'
  BY <1>8, <1>1, <1>3 DEF WriterTakesEvent, supVars
<1>9. ASSUME NEW g \in Attempt, WriterFinishes(g)
      PROVE  QueueOK(h)'
  <2>1. CASE h = g
    BY <1>9, <2>1, <1>2, <1>3, FinishWays
  <2>2. CASE h # g
    BY <1>9, <2>2, <1>1, FinishWays
  <2> QED
    BY <2>1, <2>2
<1>10. ASSUME NEW g \in Attempt, WriterCloses(g) \/ WriterFails(g)
       PROVE  QueueOK(h)'
  <2>1. /\ wq' = [wq EXCEPT ![g] = <<>>] /\ outcome' = outcome
        /\ h # g => reply'[h] = reply[h]
    BY <1>10 DEF WriterCloses, WriterFails, Returns, supVars
  <2> QED
    BY <2>1, <1>1, <1>2
<1>11. ASSUME NEW g \in Attempt, SupFinished(g)
       PROVE  QueueOK(h)'
  <2>1. PICK o : Break(g, o)
    BY <1>11 DEF SupFinished, AbortIncomplete
  <2> QED
    BY <1>11, <2>1, <1>6 DEF SupFinished, Open
<1>12. ASSUME NEW g \in Attempt,
              SupHandsOver(g) \/ SupLosesWriter(g) \/ SupNatural(g)
       PROVE  QueueOK(h)'
  BY <1>12, <1>4, <1>5, <1>6
  DEF SupHandsOver, SupLosesWriter, SupNatural, Open, supVars
<1>13. ASSUME NEW g \in Attempt,
              SupDrains(g) \/ SupDrained(g) \/ SupAbortFinish(g)
       PROVE  QueueOK(h)'
  BY <1>13, <1>4, <1>5, <1>6 DEF SupDrains, SupDrained, SupAbortFinish, Open
<1>14. ASSUME NEW g \in Attempt,
              \/ AcqStep(g) \/ WriterReports(g) \/ WriterCommits(g)
              \/ SupTakesStop(g) \/ SupTakesAbort(g) \/ SupJoins(g)
              \/ SupReleases(g) \/ SupPublishes(g)
       PROVE  UNCHANGED <<wq, outcome, reply>>
  BY <1>14
  DEF AcqStep, AcqEmits, AcqEnds, WriterReports, WriterCommits, SupTakesStop,
      SupTakesAbort, SupJoins, SupReleases, SupPublishes, supVars, writerVars
<1> QED
  BY <1>1, <1>7, <1>8, <1>9, <1>10, <1>11, <1>12, <1>13, <1>14, NextSteps,
     StartLeaves, CallersLeave
  DEF WorkStep, SupervisorStep, SupStep, WriterStep

\* No step disturbs what holds of each attempt.
LEMMA NextKeepsAttempt ==
  ASSUME AttemptInv, [Next]_vars
  PROVE  AttemptInv'
<1>1. CASE Next
  BY <1>1, NextKeepsLease, TypesKept, WriterKept, QueueKept, SupKept, ReplyKept,
     AcqKept, StateKept DEF AttemptInv
<1>2. CASE UNCHANGED vars
  <2> USE <1>2 DEF vars, startVars, supVars, acqVars, writerVars
  <2>1. Types'
    BY TypesUnchanged DEF AttemptInv, Types
  <2>2. ASSUME NEW g \in Attempt
        PROVE  /\ WriterOK(g)' /\ QueueOK(g)' /\ SupOK(g)'
               /\ ReplyOK(g)' /\ AcqOK(g)' /\ StateOK(g)'
    BY DEF AttemptInv, WriterOK, QueueOK, SupOK, ReplyOK, AcqOK, StateOK, Broken
  <2> QED
    BY <2>1, <2>2, OthersKeepLease DEF AttemptInv
<1> QED
  BY <1>1, <1>2

\* The lease, the types and the predicates on each attempt, in every state.
THEOREM SourceAttemptInvariant == Spec => []AttemptInv
  BY AttemptInitially, NextKeepsAttempt, PTL DEF Spec

\* Observing Stopped or Aborted cannot race a start into AlreadyRunning: the
\* supervisor has joined the writer and given the lease back before it
\* publishes either, and nobody publishes one before it (supervise).
THEOREM SourceStoppedIsReleased == Spec => []StoppedIsReleased
<1>1. AttemptInv => StoppedIsReleased
  BY DEF AttemptInv, LeaseInv, StateOK, SupOK, StoppedIsReleased, Entitled,
         Supervised, Unlaunched, Holding
<1> QED
  BY <1>1, SourceAttemptInvariant, PTL

\* A source whose supervisor has ended shows a terminal state, so that it can
\* be started again, unless a stop met a writer that had failed (supervise,
\* spawn_writer).
THEOREM SourceEndedIsTerminalOrFailed == Spec => []EndedIsTerminalOrFailed
<1>1. AttemptInv => EndedIsTerminalOrFailed
  BY DEF AttemptInv, StateOK, EndedIsTerminalOrFailed
<1> QED
  BY <1>1, SourceAttemptInvariant, PTL

\* A stop that is reported complete lost nothing: the acquisition had ended,
\* all that it emitted was handed over, and the writer committed the Finish
\* behind it (graceful_stop).
THEOREM SourceCompleteStopIsWhole == Spec => []CompleteStopIsWhole
<1>1. AttemptInv => CompleteStopIsWhole
  BY DEF AttemptInv, AcqOK, CompleteStopIsWhole
<1> QED
  BY <1>1, SourceAttemptInvariant, PTL

-----------------------------------------------------------------------------
(* Starts and the shutdown                                                 *)

\* The stages of a start that is in the `starting` set.
UnderWay == {"admitted", "leased", "writing", "unlaunched", "launched",
             "cancelling", "publishing", "published", "failed"}

\* Whom attempt h's supervisor has to answer.
Asker(h, w) == serving[h] = w \/ \E k \in 1..Len(ctl[h]) : ctl[h][k].who = w

\* An acquisition that goes on over a writer that has not failed.
Unended(g) == acq[g] \in {"running", "stopping"} /\ ~Broken(g)

\* One start is under way at a time.  It ends without a supervisor, or having
\* aborted it, or with its handle in the active map; and a handle is replaced
\* only when its supervisor has gone.
StageInv ==
    /\ \A g \in Attempt : stage[g] \in UnderWay => starting = g
    /\ \A g \in Attempt : stage[g] = "failed" => sup[g] = "none"
    /\ \A g \in Attempt : stage[g] = "refused" => sup[g] \notin Open
    /\ \A g \in Attempt :
          stage[g] = "cancelling" /\ sup[g] \in Open => call[g] = "waiting"
    /\ \A g, h \in Attempt : Asker(h, g) => h = g
    /\ \A g, h \in Attempt :
          stage[h] \in {"launched", "publishing"} /\ g # h => ~Supervised(g)
    /\ \A g \in Attempt :
          sup[g] \in Open /\ stage[g] \in {"published", "started"} => active = g

\* A shutdown that found no start under way asked the active source to stop,
\* and it waits until that one has ended what can still go on.
QuitInv ==
    /\ quitting \in {"stopping", "done"} =>
          /\ starting = 0
          /\ \A g \in Attempt : Unended(g) => call[Quit] = "waiting"
          /\ \A h \in Attempt : Asker(h, Quit) => h = active
    /\ quitting \in {"no", "waiting"} => \A h \in Attempt : ~Asker(h, Quit)
    /\ quitting = "done" => call[Quit] # "waiting"

Launched(g) == stage[g] = "writing" /\ stage'[g] = "launched"

\* Nobody's supervisor comes to life but by its launch, and none comes back.
LEMMA SupervisorMoves ==
  ASSUME LeaseInv, Next, NEW g \in Attempt, ~Launched(g)
  PROVE  /\ Supervised(g)' => Supervised(g)
         /\ sup'[g] \in Open => sup[g] \in Open
         /\ sup[g] = "none" => sup'[g] = "none"
<1> USE DEF Launched, Supervised, Open, LeaseInv, Set
<1>1. ASSUME NEW h \in Attempt, StartAcquire(h)
      PROVE  sup'[g] = sup[g]
  BY <1>1 DEF StartAcquire, Launch
<1>2. ASSUME NEW h \in Attempt,
             \/ SupLosesWriter(h) \/ SupNatural(h) \/ SupTakesStop(h)
             \/ SupTakesAbort(h) \/ SupDrains(h) \/ SupDrained(h)
             \/ SupAbortFinish(h) \/ SupFinished(h) \/ Deadlines(h)
      PROVE  sup[h] \in Open /\ \A x \in Attempt : x # h => sup'[x] = sup[x]
  BY <1>2
  DEF SupLosesWriter, SupNatural, SupTakesStop, SupTakesAbort, SupDrains,
      SupDrained, SupAbortFinish, SupFinished, Deadlines, SupStopDeadline,
      SupAbortLate, AbortIncomplete, Break, Goes, Finish, Takes
<1>3. ASSUME NEW h \in Attempt, SupJoins(h) \/ SupReleases(h) \/ SupPublishes(h)
      PROVE  \E p \in {"releasing", "publishing", "done"} :
                /\ sup' = [sup EXCEPT ![h] = p] /\ sup[h] # "none"
                /\ p = "releasing" => Supervised(h)
  BY <1>3 DEF SupJoins, SupReleases, SupPublishes, SupEnds, Goes
<1>4. ASSUME NEW h \in Attempt, SupHandsOver(h)
      PROVE  UNCHANGED sup
  BY <1>4 DEF SupHandsOver, supVars
<1>5. ASSUME NEW h \in Attempt, sup[h] \in Open,
             \A x \in Attempt : x # h => sup'[x] = sup[x]
      PROVE  /\ Supervised(g)' => Supervised(g)
             /\ sup'[g] \in Open => sup[g] \in Open
             /\ sup[g] = "none" => sup'[g] = "none"
  BY <1>5
<1>6. ASSUME NEW h \in Attempt, NEW p \in {"releasing", "publishing", "done"},
             sup' = [sup EXCEPT ![h] = p], sup[h] # "none",
             p = "releasing" => Supervised(h)
      PROVE  /\ Supervised(g)' => Supervised(g)
             /\ sup'[g] \in Open => sup[g] \in Open
             /\ sup[g] = "none" => sup'[g] = "none"
  BY <1>6
<1> QED
  BY <1>1, <1>2, <1>3, <1>4, <1>5, <1>6, NextSteps, StartLeaves, WorkLeaves,
     CallersLeave DEF SupervisorStep, SupStep

\* Whoever is newly waited upon has just asked.
LEMMA AskersGrow ==
  ASSUME AttemptInv, Next, NEW h \in Attempt, NEW w \in Who,
         Asker(h, w)', ~Asker(h, w)
  PROVE  w = h \/ w \in Caller \/ (w = Quit /\ ShutdownStops /\ h = active)
<1> USE DEF Asker, Set
<1>0. /\ ctl \in [Attempt -> Seq(Request)]
      /\ serving \in [Attempt -> Who \cup {Nobody}]
      /\ Nobody \notin Who /\ active \in Attempt \cup {0}
  BY LifecycleConstants DEF AttemptInv, Types, CallTypes
<1>1. ASSUME NEW u, NEW g \in Attempt, NEW kind, Ask(u, g, kind),
             UNCHANGED serving
      PROVE  h = g /\ w = u
  <2> DEFINE r == [who |-> u, kind |-> kind]
  <2>1. CASE UNCHANGED ctl
    BY <1>1, <2>1
  <2>2. CASE ctl' = [ctl EXCEPT ![g] = Append(@, r)]
    <3>1. h = g
      BY <1>0, <1>1, <2>2
    <3>2. \A k \in 1..Len(Append(ctl[g], r)) :
             \/ k \in 1..Len(ctl[g]) /\ Append(ctl[g], r)[k] = ctl[g][k]
             \/ Append(ctl[g], r)[k] = r
      BY <1>0
    <3> QED
      BY <1>0, <1>1, <2>2, <3>1, <3>2
  <2> QED
    BY <1>1, <2>1, <2>2 DEF Ask
<1>2. ASSUME NEW g \in Attempt, StartSettle(g)
      PROVE  h = w
  <2>1. UNCHANGED serving /\ (Ask(g, g, "abort") \/ UNCHANGED ctl)
    BY <1>2 DEF StartSettle, Ask
  <2> QED
    BY <2>1, <1>1
<1>3. ASSUME NEW u \in Caller, NEW g \in Attempt, NEW kind \in {"stop", "abort"},
             CallSource(u, g, kind)
      PROVE  w \in Caller
  BY <1>3, <1>1 DEF CallSource
<1>4. CASE ShutdownStops
  <2>1. /\ UNCHANGED serving
        /\ (Ask(Quit, active, "stop") /\ active \in Attempt) \/ UNCHANGED ctl
    BY <1>0, <1>4 DEF ShutdownStops
  <2> QED
    BY <2>1, <1>1, <1>4
<1>5. ASSUME NEW g \in Attempt, NEW kind, Takes(g, kind)
      PROVE  FALSE
  <2>1. h = g
    BY <1>0, <1>5 DEF Takes
  <2>2. Head(ctl[g]) = ctl[g][1] /\ 1 \in 1..Len(ctl[g])
    BY <1>0, <1>5 DEF Takes
  <2>3. \A k \in 1..Len(Tail(ctl[g])) :
            k + 1 \in 1..Len(ctl[g]) /\ Tail(ctl[g])[k] = ctl[g][k + 1]
    BY <1>0, <1>5 DEF Takes
  <2> QED
    BY <1>0, <1>5, <2>1, <2>2, <2>3 DEF Takes
<1>6. ASSUME NEW g \in Attempt, SupEnds(g)
      PROVE  FALSE
  BY <1>0, <1>6 DEF SupEnds
<1>7. ASSUME NEW g \in Attempt,
             \/ SupTakesStop(g) \/ SupTakesAbort(g)
             \/ SupReleases(g) \/ SupPublishes(g)
      PROVE  FALSE
  BY <1>5, <1>6, <1>7
  DEF SupTakesStop, SupTakesAbort, SupReleases, SupPublishes
<1>8. CASE ShutdownBegins \/ ShutdownEnds
  BY <1>8 DEF ShutdownBegins, ShutdownEnds, supVars
<1> QED
  BY <1>2, <1>3, <1>4, <1>7, <1>8, NextSteps, StartLeaves, WorkLeaves,
     SupervisorLeaves DEF CallerStep

\* A call in wait is answered by the supervisor it asked, which then has left
\* its loop, and whose acquisition does not go on.
LEMMA AnswersEnd ==
  ASSUME AttemptInv, Next, NEW w \in Who, call[w] = "waiting",
         call'[w] # "waiting", ~ShutdownStops,
         \A g \in Attempt : ~StartSettle(g)
  PROVE  \E h \in Attempt :
             Asker(h, w) /\ sup'[h] \notin Open /\ ~Unended(h)'
<1> DEFINE Ended(h) == Asker(h, w) /\ sup'[h] \notin Open /\ ~Unended(h)'
<1> USE DEF Set
<1>0. /\ call \in [Who -> {"idle", "waiting", "answered"}]
      /\ ctl \in [Attempt -> Seq(Request)] /\ sup \in [Attempt -> Places]
      /\ acq \in [Attempt -> {"none", "running", "stopping", "ended"}]
  BY DEF AttemptInv, Types, CallTypes, AcqTypes, LeaseInv
<1>1. ASSUME NEW h \in Attempt, SupEnds(h)
      PROVE  Ended(h)
  <2>1. sup'[h] = "done" /\ acq'[h] = "ended"
    BY <1>0, <1>1 DEF SupEnds, Goes, AbortAcq
  <2>2. Asker(h, w)
    BY <1>0, <1>1 DEF SupEnds, Asker
  <2> QED
    BY <2>1, <2>2 DEF Open, Unended
<1>2. ASSUME NEW h \in Attempt, SupStopDeadline(h)
      PROVE  Ended(h)
  <2>1. sup'[h] = "joining" /\ acq'[h] = "ended" /\ serving[h] = w
    BY <1>0, <1>2 DEF SupStopDeadline, Break, Goes, AbortAcq, Answer
  <2> QED
    BY <2>1 DEF Open, Unended, Asker
<1>3. ASSUME NEW h \in Attempt, AbortIncomplete(h),
             sup[h] \in {"discarding", "aborting"}, UNCHANGED <<acq, wr>>
      PROVE  Ended(h)
  <2>1. sup'[h] = "joining" /\ serving[h] = w
    BY <1>0, <1>3 DEF AbortIncomplete, Break, Goes, Answer
  <2>2. ~Unended(h)'
    BY <1>3 DEF Unended, Broken, AttemptInv, AcqOK
  <2> QED
    BY <2>1, <2>2 DEF Open, Asker
<1>4. ASSUME NEW h \in Attempt, SupAbortLate(h) \/ SupFinished(h)
      PROVE  Ended(h)
  BY <1>3, <1>4 DEF SupAbortLate, SupFinished, acqVars
<1>5. ASSUME NEW h \in Attempt, SupReleases(h) \/ SupPublishes(h)
      PROVE  Ended(h)
  BY <1>1, <1>5 DEF SupReleases, SupPublishes
<1>6. ASSUME NEW u \in Caller, NEW g \in Attempt, NEW kind \in {"stop", "abort"},
             CallSource(u, g, kind)
      PROVE  FALSE
  BY <1>0, <1>6 DEF CallSource, Ask
<1>7. CASE ShutdownBegins \/ ShutdownEnds
  BY <1>7 DEF ShutdownBegins, ShutdownEnds, supVars
<1> QED
  BY <1>2, <1>4, <1>5, <1>6, <1>7, NextSteps, StartLeaves, WorkLeaves,
     SupervisorLeaves DEF CallerStep

\* Only the shutdown makes the shutdown wait.
LEMMA QuitAsks ==
  ASSUME AttemptInv, Next, call'[Quit] = "waiting", call[Quit] # "waiting"
  PROVE  ShutdownStops
<1> USE DEF Set
<1>0. /\ call \in [Who -> {"idle", "waiting", "answered"}] /\ Quit \in Who
      /\ Quit \notin Caller /\ Quit \notin Attempt
  BY LifecycleConstants DEF AttemptInv, Types, CallTypes, Who
<1>1. ASSUME NEW w, w # Quit, NEW g, NEW kind, Ask(w, g, kind)
      PROVE  FALSE
  BY <1>0, <1>1 DEF Ask
<1>2. ASSUME NEW w, Answer(w)
      PROVE  FALSE
  BY <1>0, <1>2 DEF Answer
<1>3. ASSUME NEW g \in Attempt, SupEnds(g)
      PROVE  FALSE
  BY <1>0, <1>3 DEF SupEnds
<1>4. ASSUME NEW g \in Attempt, StartSettle(g)
      PROVE  FALSE
  BY <1>0, <1>1, <1>4 DEF StartSettle, Ask
<1>5. ASSUME NEW w \in Caller, NEW g \in Attempt, NEW kind \in {"stop", "abort"},
             CallSource(w, g, kind)
      PROVE  FALSE
  BY <1>0, <1>1, <1>5 DEF CallSource
<1>6. ASSUME NEW g \in Attempt,
             \/ SupFinished(g) \/ SupStopDeadline(g) \/ SupAbortLate(g)
             \/ SupReleases(g) \/ SupPublishes(g)
      PROVE  FALSE
  BY <1>2, <1>3, <1>6
  DEF SupFinished, SupStopDeadline, SupAbortLate, AbortIncomplete, SupReleases,
      SupPublishes
<1>7. CASE ShutdownBegins \/ ShutdownEnds
  BY <1>7 DEF ShutdownBegins, ShutdownEnds, supVars
<1> QED
  BY <1>4, <1>5, <1>6, <1>7, NextSteps, StartLeaves, WorkLeaves,
     SupervisorLeaves DEF CallerStep

\* Starts, one by one.
LEMMA StageKept ==
  ASSUME AttemptInv, StageInv, Next
  PROVE  StageInv'
<1>0. /\ stage \in [Attempt -> StartStages] /\ sup \in [Attempt -> Places]
      /\ 0 \notin Attempt
      /\ \A g \in Attempt : stage[g] \in Unlaunched => sup[g] = "none"
      /\ \A g \in Attempt : stage[g] \in Holding => lease = g
      /\ \A g \in Attempt : Supervised(g) => lease = g
  BY DEF AttemptInv, LeaseInv, Attempt, Entitled
<1>1. ASSUME NEW g \in Attempt, NEW h \in Attempt, Asker(h, g)'
      PROVE  h = g
  <2>1. g \in Who /\ g \notin Caller /\ g # Quit
    BY LifecycleConstants DEF Who
  <2> QED
    BY <1>1, <2>1, AskersGrow DEF StageInv
<1>2. ASSUME NEW g \in Attempt, call[g] = "waiting", call'[g] # "waiting",
             \A h \in Attempt : ~StartSettle(h), ~ShutdownStops
      PROVE  sup'[g] \notin Open
  BY <1>2, AnswersEnd DEF StageInv, Who
<1>3. CASE UNCHANGED <<stage, starting, active>>
  <2>1. ASSUME NEW g \in Attempt
        PROVE  ~Launched(g) /\ ~StartSettle(g)
    BY <1>3, <1>0 DEF Launched, StartSettle, Set
  <2>2. \A g \in Attempt :
            call[g] = "waiting" => call'[g] = "waiting" \/ sup'[g] \notin Open
    <3>1. CASE ShutdownStops
      BY <3>1, LifecycleConstants
      DEF ShutdownStops, Ask, Set, AttemptInv, Types, CallTypes, Who
    <3> QED
      BY <3>1, <2>1, <1>2
  <2>3. \A g \in Attempt : /\ sup'[g] \in Open => sup[g] \in Open
                           /\ Supervised(g)' => Supervised(g)
                           /\ sup[g] = "none" => sup'[g] = "none"
    BY <2>1, SupervisorMoves DEF AttemptInv
  <2> QED
    BY <1>1, <1>3, <2>2, <2>3 DEF StageInv
<1>4. ASSUME NEW g \in Attempt, StartAsk(g) \/ StartAdmit(g)
      PROVE  StageInv'
  BY <1>0, <1>1, <1>4
  DEF StageInv, StartAsk, StartAdmit, Set, supVars, Supervised, Unlaunched,
      Holding, UnderWay, Open
<1>5. ASSUME NEW g \in Attempt,
             StartLease(g) \/ StartWriter(g) \/ StartJoinsWriter(g)
      PROVE  StageInv'
  BY <1>0, <1>1, <1>5
  DEF StageInv, StartLease, StartWriter, StartJoinsWriter, Fails, Set, supVars,
      Supervised, Unlaunched, Holding, UnderWay, Open
<1>6. ASSUME NEW g \in Attempt, StartAcquire(g)
      PROVE  StageInv'
  <2> USE <1>0, <1>1 DEF StageInv, Set, Supervised, Unlaunched, Holding,
                         UnderWay, Open
  <2>1. UNCHANGED <<call, starting, active>> /\ stage[g] = "writing"
    BY <1>6 DEF StartAcquire
  <2>2. CASE Launch(g)
    BY <2>1, <2>2 DEF Launch
  <2>3. CASE /\ UNCHANGED sup
             /\ \E s \in {"failed", "unlaunched"} : stage' = Set(stage, g, s)
    BY <2>1, <2>3
  <2> QED
    BY <1>6, <2>2, <2>3 DEF StartAcquire, Fails
<1>7. ASSUME NEW g \in Attempt, StartSettle(g)
      PROVE  StageInv'
  <2> USE <1>0, <1>1 DEF StageInv, Set, Supervised, Unlaunched, Holding,
                         UnderWay, Open
  <2>1. /\ UNCHANGED <<starting, active, sup>> /\ stage[g] = "launched"
        /\ call \in [Who -> {"idle", "waiting", "answered"}] /\ Attempt \subseteq Who
    BY <1>7 DEF StartSettle, AttemptInv, Types, CallTypes, Who
  <2>2. CASE stage' = Set(stage, g, "publishing") /\ UNCHANGED call
    BY <2>1, <2>2
  <2>3. CASE /\ stage' = Set(stage, g, "cancelling")
             /\ call' = Set(call, g, IF sup[g] = "done" THEN "answered"
                                                        ELSE "waiting")
    BY <2>1, <2>3
  <2> QED
    BY <1>7, <2>2, <2>3 DEF StartSettle
<1>8. ASSUME NEW g \in Attempt, StartPublish(g)
      PROVE  StageInv'
  BY <1>0, <1>1, <1>8
  DEF StageInv, StartPublish, Set, supVars, Supervised, UnderWay, Open
<1>9. ASSUME NEW g \in Attempt, StartEnds(g)
      PROVE  StageInv'
  <2>1. UNCHANGED <<call, active, sup>> /\ starting' = 0
    BY <1>9 DEF StartEnds, supVars
  <2>2. starting = g /\ stage[g] \in {"failed", "published", "cancelling"}
    BY <1>9 DEF StageInv, StartEnds, UnderWay
  <2>3. stage[g] # "published" => sup[g] \notin Open
    BY <1>9, <2>2 DEF StartEnds, StageInv, Open
  <2>4. CASE stage' = Set(stage, g, "started") /\ stage[g] = "published"
    BY <1>0, <1>1, <2>1, <2>2, <2>4 DEF StageInv, Set, Supervised, UnderWay
  <2>5. CASE stage' = Set(stage, g, "refused") /\ sup[g] \notin Open
    BY <1>0, <1>1, <2>1, <2>2, <2>5 DEF StageInv, Set, Supervised, UnderWay
  <2> QED
    BY <1>9, <2>3, <2>4, <2>5 DEF StartEnds
<1>10. ASSUME NEW g \in Attempt, CallerGone(g)
       PROVE  StageInv'
  BY <1>3, <1>10 DEF CallerGone
<1> QED
  BY <1>3, <1>4, <1>5, <1>6, <1>7, <1>8, <1>9, <1>10, NextSteps, WorkLeaves,
     SupervisorLeaves, CallersLeave DEF StartTaskStep, StartStep

\* With no start under way, an acquisition that goes on has the active handle,
\* is supervised and is not terminal, so that a shutdown will ask for its end.
LEMMA UnendedIsActive ==
  ASSUME AttemptInv, StageInv, starting = 0, NEW g \in Attempt, Unended(g)
  PROVE  active = g /\ sup[g] # "done" /\ ~Terminal(state[g])
<1>1. sup[g] \in {"loop", "draining"} /\ ~Broken(g)
  BY DEF AttemptInv, AcqOK, Unended
<1>2. ~Terminal(state[g])
  BY <1>1 DEF AttemptInv, StateOK, SupOK, Open
<1>3. stage[g] \in StartStages \ (Unlaunched \cup UnderWay \cup {"refused"})
  BY <1>1 DEF AttemptInv, LeaseInv, StageInv, Open, Attempt
<1> QED
  BY <1>1, <1>2, <1>3
  DEF StageInv, StartStages, Unlaunched, Holding, UnderWay, Open

\* An acquisition goes on only from its launch.
LEMMA UnendedGrows ==
  ASSUME AttemptInv, Next, NEW g \in Attempt, Unended(g)', ~Unended(g)
  PROVE  Launched(g)
<1> USE DEF Unended, Broken, Set
<1>0. /\ acq \in [Attempt -> {"none", "running", "stopping", "ended"}]
      /\ wr \in [Attempt -> {"none", "running", "failing", "failed", "ended"}]
      /\ stage \in [Attempt -> StartStages]
  BY DEF AttemptInv, Types, AcqTypes, WriterTypes, LeaseInv
<1>1. ASSUME NEW h \in Attempt, StartAcquire(h)
      PROVE  Launched(g)
  BY <1>0, <1>1 DEF StartAcquire, Launch, Launched
<1>2. ASSUME NEW h \in Attempt, StartWriter(h)
      PROVE  FALSE
  <2>1. wr[h] = "none"
    BY <1>2 DEF AttemptInv, WriterOK, StartWriter
  <2> QED
    BY <1>0, <1>2, <2>1 DEF StartWriter, acqVars
<1>3. ASSUME NEW h \in Attempt, SupTakesStop(h)
      PROVE  FALSE
  BY <1>0, <1>3 DEF SupTakesStop, writerVars
<1>4. ASSUME NEW h \in Attempt, AbortAcq(h), UNCHANGED wr
      PROVE  FALSE
  BY <1>0, <1>4 DEF AbortAcq
<1>5. ASSUME NEW h \in Attempt,
             \/ SupLosesWriter(h) \/ SupStopDeadline(h) \/ SupTakesAbort(h)
             \/ SupReleases(h) \/ SupPublishes(h)
      PROVE  FALSE
  BY <1>4, <1>5
  DEF SupLosesWriter, SupStopDeadline, SupTakesAbort, SupReleases,
      SupPublishes, SupEnds, writerVars, acqVars
<1>6. ASSUME NEW h \in Attempt, AcqStep(h)
      PROVE  FALSE
  BY <1>0, <1>6 DEF AcqStep, AcqEmits, AcqEnds, writerVars
<1>7. ASSUME NEW h \in Attempt,
             WriterTakesEvent(h) \/ WriterReports(h) \/ WriterFails(h)
      PROVE  FALSE
  BY <1>0, <1>7
  DEF WriterTakesEvent, WriterReports, WriterFails, Returns, Alive, acqVars
<1>8. ASSUME NEW h \in Attempt,
             WriterFinishes(h) \/ WriterCloses(h) \/ WriterCommits(h)
      PROVE  FALSE
  BY <1>0, <1>8, FinishWays
  DEF WriterCloses, WriterCommits, Returns, Alive, acqVars, writerVars
<1>9. ASSUME NEW h \in Attempt,
             \/ SupHandsOver(h) \/ SupNatural(h) \/ SupDrains(h)
             \/ SupDrained(h) \/ SupAbortFinish(h) \/ SupFinished(h)
             \/ SupJoins(h) \/ SupAbortLate(h)
      PROVE  UNCHANGED <<acq, wr>>
  BY <1>9
  DEF SupHandsOver, SupNatural, SupDrains, SupDrained, SupAbortFinish,
      SupFinished, SupJoins, SupAbortLate, acqVars, writerVars
<1> QED
  BY <1>1, <1>2, <1>3, <1>5, <1>6, <1>7, <1>8, <1>9, NextSteps, StartLeaves,
     CallersLeave
  DEF WorkStep, SupervisorStep, SupStep, WriterStep, Deadlines

\* The shutdown.
LEMMA QuitKept ==
  ASSUME AttemptInv, StageInv, QuitInv, Next
  PROVE  QuitInv'
<1>0. /\ Quit \in Who /\ Quit \notin Caller /\ Quit \notin Attempt
      /\ 0 \notin Attempt
  BY LifecycleConstants DEF Who, Attempt
<1>1. ASSUME NEW h \in Attempt, Asker(h, Quit)', ~Asker(h, Quit)
      PROVE  ShutdownStops /\ h = active
  BY <1>0, <1>1, AskersGrow
<1>2. CASE ShutdownBegins
  BY <1>1, <1>2 DEF QuitInv, ShutdownBegins, ShutdownStops
<1>3. CASE ShutdownEnds
  <2>1. UNCHANGED <<starting, call, acq, wr, active, serving, ctl>>
    BY <1>3 DEF ShutdownEnds, supVars, acqVars, writerVars
  <2>2. /\ quitting \in {"stopping", "late"} /\ call[Quit] # "waiting"
        /\ quitting' = IF quitting = "late" THEN "overdue" ELSE "done"
    BY <1>3 DEF ShutdownEnds
  <2> QED
    BY <2>1, <2>2 DEF QuitInv, Unended, Broken, Asker
<1>4. CASE ShutdownStops
  <2>1. /\ quitting = "waiting"
        /\ quitting' = IF starting = 0 THEN "stopping" ELSE "late"
        /\ UNCHANGED <<starting, acq, wr, active>>
    BY <1>4 DEF ShutdownStops, acqVars, writerVars
  <2>2. ASSUME NEW h \in Attempt, Asker(h, Quit)'
        PROVE  h = active
    BY <1>1, <2>1, <2>2 DEF QuitInv
  <2>3. ASSUME starting = 0, NEW g \in Attempt, Unended(g)'
        PROVE  call'[Quit] = "waiting"
    <3>1. Unended(g)
      BY <2>1, <2>3 DEF Unended, Broken
    <3>2. active = g /\ sup[g] # "done" /\ ~Terminal(state[g])
      BY <2>3, <3>1, UnendedIsActive
    <3>3. Ask(Quit, active, "stop")
      BY <1>0, <1>4, <3>2 DEF ShutdownStops
    <3> QED
      BY <1>0, <3>2, <3>3 DEF Ask, Set, AttemptInv, Types, CallTypes
  <2> QED
    BY <2>1, <2>2, <2>3 DEF QuitInv
<1>5. CASE ~ShutdownBegins /\ ~ShutdownStops /\ ~ShutdownEnds
  <2>0. UNCHANGED quitting
    BY <1>5, NextSteps, StartLeaves, WorkLeaves, SupervisorLeaves
    DEF CallerStep, CallSource, startVars
  <2>1. CASE quitting \notin {"stopping", "done"}
    BY <1>1, <1>5, <2>0, <2>1 DEF QuitInv
  <2>2. CASE quitting \in {"stopping", "done"}
    <3>1. starting = 0 /\ \A g \in Attempt : stage[g] \notin UnderWay
      BY <1>0, <2>2 DEF QuitInv, StageInv
    <3>2. ASSUME NEW g \in Attempt
          PROVE  ~StartSettle(g) /\ ~StartPublish(g) /\ ~Launched(g)
      BY <3>1 DEF StartSettle, StartPublish, Launched, UnderWay
    <3>3. starting' = 0
      <4>1. ASSUME NEW g \in Attempt, StartTaskStep(g)
            PROVE  starting' = 0
        BY <2>2, <3>1, <4>1
        DEF StartTaskStep, StartAsk, StartStep, StartAdmit, StartLease,
            StartWriter, StartAcquire, StartJoinsWriter, StartSettle,
            StartPublish, StartEnds, CallerGone
      <4> QED
        BY <3>1, <4>1, NextSteps, WorkLeaves, SupervisorLeaves, CallersLeave
    <3>4. UNCHANGED active
      BY <3>2, NextSteps, StartLeaves, WorkLeaves, SupervisorLeaves,
         CallersLeave
    <3>5. ASSUME NEW h \in Attempt, Asker(h, Quit)'
          PROVE  h = active'
      BY <1>1, <1>5, <2>2, <3>4, <3>5 DEF QuitInv
    <3>6. ASSUME NEW g \in Attempt, Unended(g)'
          PROVE  call'[Quit] = "waiting"
      <4>1. Unended(g)
        BY <3>2, <3>6, UnendedGrows
      <4>2. call[Quit] = "waiting" /\ active = g
        BY <2>2, <3>1, <4>1, UnendedIsActive DEF QuitInv
      <4>3. \A h \in Attempt : Asker(h, Quit) => h = g
        BY <2>2, <4>2 DEF QuitInv
      <4> QED
        BY <1>0, <1>5, <3>2, <3>6, <4>2, <4>3, AnswersEnd
    <3>7. quitting = "done" => call'[Quit] # "waiting"
      BY <1>5, QuitAsks DEF QuitInv
    <3> QED
      BY <2>0, <2>2, <3>3, <3>5, <3>6, <3>7 DEF QuitInv
  <2> QED
    BY <2>1, <2>2
<1> QED
  BY <1>2, <1>3, <1>4, <1>5

\* The whole inductive invariant.
SourceInv == AttemptInv /\ StageInv /\ QuitInv

\* It holds when nothing has been started.
LEMMA SourceInitially == Init => SourceInv
<1> SUFFICES ASSUME Init
             PROVE  StageInv /\ QuitInv
  BY AttemptInitially DEF SourceInv
<1>1. \A g \in Attempt :
          /\ stage[g] = "none" /\ sup[g] = "none" /\ serving[g] = Nobody
          /\ ctl[g] = <<>> /\ acq[g] = "none"
  BY DEF Init, Each
<1>2. Quit \in Who /\ Attempt \subseteq Who /\ Nobody \notin Who
  BY LifecycleConstants DEF Who
<1>3. \A g \in Attempt, w \in Who : ~Asker(g, w)
  BY <1>1, <1>2 DEF Asker
<1>4. StageInv
  BY <1>1, <1>2, <1>3 DEF StageInv, UnderWay, Open
<1>5. QuitInv
  BY <1>2, <1>3 DEF Init, QuitInv
<1> QED
  BY <1>4, <1>5

\* And no step disturbs it.
LEMMA NextKeepsSource ==
  ASSUME SourceInv, [Next]_vars
  PROVE  SourceInv'
<1>1. AttemptInv'
  BY NextKeepsAttempt DEF SourceInv
<1>2. CASE Next
  BY <1>1, <1>2, StageKept, QuitKept DEF SourceInv
<1>3. CASE UNCHANGED vars
  <2> USE <1>3 DEF vars, startVars, supVars, acqVars, writerVars
  <2>1. StageInv'
    BY DEF SourceInv, StageInv, Asker, Supervised
  <2>2. QuitInv'
    BY DEF SourceInv, QuitInv, Asker, Unended, Broken
  <2> QED
    BY <1>1, <2>1, <2>2 DEF SourceInv
<1> QED
  BY <1>2, <1>3

\* Every attempt's invariant, with what relates the attempts to each other and
\* to the shutdown.
THEOREM SourceInvariant == Spec => []SourceInv
  BY SourceInitially, NextKeepsSource, PTL DEF Spec

\* When SourceManager::shutdown has returned in time no start is under way, so
\* that none will launch, and no acquisition goes on, except over a writer
\* that has failed: the one that could was active, not terminal, and answered
\* the stop of the shutdown before the shutdown returned.
THEOREM SourceNothingAfterShutdown == Spec => []NothingAfterShutdown
<1>1. SourceInv => NothingAfterShutdown
  <2>1. 0 \notin Attempt
    BY DEF Attempt
  <2> QED
    BY <2>1
    DEF SourceInv, StageInv, QuitInv, NothingAfterShutdown, Unended, Broken,
        UnderWay
<1> QED
  BY <1>1, SourceInvariant, PTL
=============================================================================
