---------------------------- MODULE MCGetClient ----------------------------
(* Instances of GetClient for TLC. *)
EXTENDS GetClient
=============================================================================
