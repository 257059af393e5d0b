------------------------ MODULE MCOverCurrentScheme --------------------------
(* The scheme with one goroutine: the event loop of the engine. *)
EXTENDS OverCurrentScheme

(* This instance is one that SchemeCharacteristic is about.                *)
ASSUME SchemeConfigured == IsScheme
=============================================================================
