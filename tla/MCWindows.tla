------------------------------ MODULE MCWindows ------------------------------
(* The values for TLC. *)
EXTENDS Windows, TLC

CONSTANTS w1, w2, f, u1, u2, a, b

\* One window edits twice and forks, or loses an answer, or has a command's
\* result, and leaves; or two edit the same view, and the first of them leaves.
MCForkOf == w1 :> f @@ w2 :> f
Plan(e, k, q, p, l) ==
    [edit |-> e, fork |-> k, quit |-> q, publish |-> p, lapse |-> l]
MCPlans == {w1 :> Plan(2, 1, 1, 0, 0), w1 :> Plan(1, 1, 1, 0, 1),
            w1 :> Plan(1, 0, 1, 1, 0),
            w1 :> Plan(1, 0, 1, 0, 0) @@ w2 :> Plan(1, 0, 0, 0, 0)}

\* A union with two candidates, whose definition changes and whose exchange may
\* time out; one with a single candidate, over sources that move; one whose
\* inputs have another source set at first, over sources that move; one over
\* sources that move and whose state is updated; or two unions of two windows over
\* the same two sources.
UnionPlan(views_, n, r, m, l) ==
    [views |-> views_, candidates |-> n, revisions |-> r, splits |-> {},
     moves |-> m, updates |-> 0, timeouts |-> l]
MCUnionPlans == {
    UnionPlan({u1}, 2, 1, 0, 1),
    UnionPlan({u1}, 1, 0, 1, 1),
    [UnionPlan({u1}, 2, 1, 1, 0) EXCEPT !.splits = {1}],
    [UnionPlan({u1}, 1, 0, 1, 0) EXCEPT !.updates = 1],
    UnionPlan({u1, u2}, 1, 0, 1, 0)}

MCUnionWindow == u1 :> w1 @@ u2 :> w2
MCSources == <<a, b>>
=============================================================================
