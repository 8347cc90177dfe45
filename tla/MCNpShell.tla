----------------------------- MODULE MCNpShell -----------------------------
(* Instances of NpShell for TLC. *)
EXTENDS NpShell
=============================================================================
