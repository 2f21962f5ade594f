----------------------------- MODULE MCElection -----------------------------
(* Model values for two windows and three worker children.                 *)
EXTENDS Election

CONSTANTS w1, w2, c1, c2, c3
=============================================================================
