----------------------------- MODULE MCViewers ------------------------------
(* Model values for one window, which dials twice.                          *)
EXTENDS ViewerLifetime

CONSTANT w1
=============================================================================
