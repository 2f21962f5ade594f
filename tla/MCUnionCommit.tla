--------------------------- MODULE MCUnionCommit ----------------------------
(* The values for TLC: one union over two sources, and a state update.     *)
EXTENDS UnionCommit, TLC

CONSTANTS w1, u1, a, b

MCWindowOf == u1 :> w1
MCSources == <<a, b>>
MCPlans == {[views |-> {u1}, candidates |-> 1, revisions |-> 0, splits |-> {},
            moves |-> 1, updates |-> 1, timeouts |-> 0]}
=============================================================================
