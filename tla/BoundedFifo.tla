---------------------------- MODULE BoundedFifo ------------------------------
(***************************************************************************)
(* What a packet buffer promises to one producer and one consumer: items   *)
(* leave in the order they came, each of them once; an item is turned away *)
(* only when the buffer is full, and every item turned away is counted.    *)
(***************************************************************************)
EXTENDS Naturals, Sequences

CONSTANTS Item, Room    \* what is buffered, and how many of it fit

VARIABLES queue,        \* buffered, oldest first
          delivered,    \* handed to the consumer, in order
          dropped       \* how many were turned away

FifoInit == queue = <<>> /\ delivered = <<>> /\ dropped = 0

Put(x) ==
  /\ Len(queue) < Room
  /\ queue' = Append(queue, x)
  /\ UNCHANGED <<delivered, dropped>>

TurnAway ==
  /\ Len(queue) = Room
  /\ dropped' = dropped + 1
  /\ UNCHANGED <<queue, delivered>>

Get ==
  /\ queue # <<>>
  /\ delivered' = Append(delivered, Head(queue))
  /\ queue' = Tail(queue)
  /\ UNCHANGED dropped

FifoNext == (\E x \in Item : Put(x)) \/ TurnAway \/ Get

FifoSpec == FifoInit /\ [][FifoNext]_<<queue, delivered, dropped>>
=============================================================================
