-------------------------- MODULE MCWorkerProcess --------------------------
(* Two ids for one file and a window's own stdin source; one start of a    *)
(* source and two callers that stop it; and a file of two lines, captured  *)
(* without faults over three acquisitions.                                 *)
EXTENDS WorkerProcess, TLC

CONSTANTS a, b, s, f, u1, u2

MCKeyOf == a :> f @@ b :> f @@ s :> NoKey

MCOperations ==
    [op : {"start"}, id : {a, b}] \cup [op : {"stop", "restart"}, id : {a}]
        \cup {[op |-> "note", id |-> s]}

\* An empty root, or one with the file under both of its ids.
MCManifests == {{}, {a, b}}

MCLines == (1..MaxChanges + 1) \X (0..MaxChanges) \X (1..MaxLines)
MCBody == [acq : 1..MaxOpens, line : MCLines]

NoFaults == {{}}
=============================================================================
