---------------------------- MODULE MCRingBuffer -----------------------------
(* Two slots and counters that wrap at four, so that six packets go round *)
(* the slots three times and the counters more than once.                 *)
EXTENDS RingBuffer
=============================================================================
