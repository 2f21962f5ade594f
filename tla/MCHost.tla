------------------------------- MODULE MCHost -------------------------------
(* The values for TLC: two processes open the journal, one of them from two
   threads, and the third only probes it. *)
EXTENDS Host, TLC

CONSTANTS p1, p2, p3, t1, t2, t3, q

MCThread == {t1, t2, t3, q}
MCProcessOf == t1 :> p1 @@ t2 :> p1 @@ t3 :> p2 @@ q :> p3
=============================================================================
