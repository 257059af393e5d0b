------------------------- MODULE MCProtectionEngine --------------------------
(* Instances of the engine for TLC; the values are in the .cfg files. *)
EXTENDS ProtectionEngine
=============================================================================
