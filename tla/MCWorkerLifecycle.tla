------------------------- MODULE MCWorkerLifecycle -------------------------
(* Two ids for one file and a window's own stdin source.                   *)
EXTENDS WorkerLifecycle, TLC

CONSTANTS a, b, s, f

MCKeyOf == a :> f @@ b :> f @@ s :> NoKey

MCOperations ==
    [op : {"start"}, id : {a, b}] \cup [op : {"stop", "restart"}, id : {a}]
        \cup {[op |-> "note", id |-> s]}

\* An empty root, or one with the file under both of its ids.
MCManifests == {{}, {a, b}}
=============================================================================
