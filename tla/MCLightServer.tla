--------------------------- MODULE MCLightServer ---------------------------
(* Instances of LightServer for TLC. *)
EXTENDS LightServer, TLC

\* Observation ids are only compared: any permutation of them gives the same behaviour.
ObsSymmetry == Permutations(ObsIds)
=============================================================================
