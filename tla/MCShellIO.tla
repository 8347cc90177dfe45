----------------------------- MODULE MCShellIO -----------------------------
(* Instances of ShellIO for TLC. *)
EXTENDS ShellIO
=============================================================================
