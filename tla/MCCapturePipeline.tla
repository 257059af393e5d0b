-------------------------- MODULE MCCapturePipeline --------------------------
(* A ring buffer, a batch and a channel that a few frames fill. *)
EXTENDS CapturePipeline

Frames == 1..MaxFrames
=============================================================================
