------------------------------- MODULE Source -------------------------------
(***************************************************************************)
(* One source, one side of it in each behaviour: its life in the manager   *)
(* that captures it, and how a window reads what is captured while the     *)
(* worker restarts it and the storage management deletes it.  The side     *)
(* that is not under way rests in its initial state.                       *)
(***************************************************************************)
EXTENDS SourceLifecycle

CONSTANTS       \* of RemoteRead
    Feeder, Reader, Inode, MaxLength,
    ReadPlans   \* its Plans

\* No inode is 0, and nobody is not the name of a feeder.
ASSUME ReadAssumption ==
    /\ ReadPlans \subseteq
          [feeders : SUBSET Feeder, readers : SUBSET Reader, starts : Nat]
    /\ 0 \notin Inode
    /\ Nobody \notin Feeder

VARIABLES
    part,       \* the side that is under way
    journal, starts, metadata, running, worker, progress, memory, distrust,
    authority, holder, gate, feed, read, plan, removed, served   \* of RemoteRead

Remote == INSTANCE RemoteRead WITH Plans <- ReadPlans

readVars == <<journal, starts, metadata, running, worker, progress, memory, distrust,
    authority, holder, gate, feed, read, plan, removed, served>>

SourceInit ==
    /\ part \in {"manager", "reading"}
    /\ Init /\ Remote!RemoteInit
    /\ part = "manager" => plan = CHOOSE p \in ReadPlans : TRUE

SourceNext ==
    \/ part = "manager" /\ Next /\ UNCHANGED <<part, readVars>>
    \/ part = "reading" /\ Remote!RemoteNext /\ UNCHANGED <<part, vars>>

SourceSpec == SourceInit /\ [][SourceNext]_<<part, vars, readVars>>

\* Within one generation a window is served rows of one journal file only
\* (read_page).
OneJournalPerGeneration == Remote!OneJournalPerGeneration

\* A newer generation ends a handle's distrust, and no restart leaves one that
\* nothing ends (update_progress).
DistrustEnds == Remote!DistrustEnds
=============================================================================
