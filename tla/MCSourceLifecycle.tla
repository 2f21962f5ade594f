-------------------------- MODULE MCSourceLifecycle --------------------------
(* Model values for the callers of stop and abort.                         *)
EXTENDS SourceLifecycle

CONSTANTS u1, u2
=============================================================================
