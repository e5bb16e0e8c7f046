---------------------------- MODULE MCSlowServer ----------------------------
(* Instances of SlowServer for TLC. *)
EXTENDS SlowServer
=============================================================================
