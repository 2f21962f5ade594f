---------------------------- MODULE MCFileCapture ----------------------------
(* Capture of short files, with the bodies their records can have and the  *)
(* troubles that a behaviour may meet together.                            *)
EXTENDS FileCapture

MCBody == [acq : 1..MaxOpens, line : Lines]

KillOnly == {{"kill"}}
SomeFaults == {{"kill", "io"}, {"limit"}, {"powerloss"}}
=============================================================================
