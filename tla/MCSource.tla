------------------------------ MODULE MCSource ------------------------------
(* The values for TLC. *)
EXTENDS Source

CONSTANTS f1, f2, r1

\* A feeder and a read across one restart, or two feeders across two.  A new
\* file always gets the inode of the old one, which is the hard case.
MCReadPlans == {[feeders |-> {f1}, readers |-> {r1}, starts |-> 2],
              [feeders |-> {f1, f2}, readers |-> {}, starts |-> 3]}
=============================================================================
