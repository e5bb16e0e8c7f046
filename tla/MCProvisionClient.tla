------------------------- MODULE MCProvisionClient -------------------------
(* Instances of ProvisionClient for TLC. *)
EXTENDS ProvisionClient
=============================================================================
