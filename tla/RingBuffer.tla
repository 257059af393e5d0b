----------------------------- MODULE RingBuffer ------------------------------
(***************************************************************************)
(* LockFreeRingBuffer of internal/capture/ringbuffer.go: every atomic      *)
(* operation, and every write or read of a slot, is a step, and any number *)
(* of goroutines may call Enqueue and Dequeue.                             *)
(*                                                                         *)
(* A packet is its number in the order of the calls of Enqueue.  A slot    *)
(* has two parts that are copied one after the other: the bytes (`data`)   *)
(* and Length with Timestamp (`stamp`); a packet is intact when both carry *)
(* the same number.  head and tail are uint64 and wrap, here at Width;     *)
(* mask makes the capacity a power of two, so it divides Width.            *)
(*                                                                         *)
(* DequeueBatch is Dequeue until it fails or the batch is full.  Reset has *)
(* no caller and is left out; Size, IsEmpty and the counters' getters read *)
(* only.                                                                   *)
(***************************************************************************)
EXTENDS Integers, Sequences, FiniteSets

CONSTANTS Producer, Consumer,   \* goroutines that enqueue, that dequeue
          Capacity,             \* slots
          Width,                \* values of a counter
          MaxPackets            \* bound: calls of Enqueue

ASSUME RingAssumption ==
  /\ Producer \intersect Consumer = {}
  /\ Capacity \in Nat \ {0}
  /\ Width \in Nat /\ Width > Capacity /\ Width % Capacity = 0
  /\ MaxPackets \in Nat

VARIABLES
  slot,       \* rb.buffer
  head, tail, \* rb.head, rb.tail
  dropped, processed,
  pc,         \* where each goroutine is
  mine,       \* the counter it loaded first: head of a producer, tail of a consumer
  packet,     \* what it enqueues, or has copied out so far
  sent,       \* packets given to Enqueue
  accepted,   \* packets for which Enqueue returned true
  delivered   \* packets Dequeue returned, in order

counters == <<head, tail, dropped, processed>>
results  == <<sent, accepted, delivered>>
vars     == <<slot, counters, pc, mine, packet, results>>

Thread   == Producer \union Consumer
Counter  == 0..(Width - 1)
Number   == 0..MaxPackets
Packet   == [data : Number, stamp : Number]
Intact(k) == [data |-> k, stamp |-> k]

Index(n) == n % Capacity

(* Above some helpers stand slips that no action uses.                     *)
IncMasked(n)  == (n + 1) % Capacity
Inc(n)        == (n + 1) % Width
Full(h, t)    == (h - t) % Width >= Capacity
KeepsLast(h, t) == (h - t) % Width <= 1
Empty(h, t)   == h = t

Init ==
  /\ slot = [i \in 0..(Capacity - 1) |-> Intact(0)]
  /\ head = 0 /\ tail = 0 /\ dropped = 0 /\ processed = 0
  /\ pc = [t \in Thread |-> "idle"]
  /\ mine = [t \in Thread |-> 0]
  /\ packet = [t \in Thread |-> Intact(0)]
  /\ sent = 0 /\ accepted = {} /\ delivered = <<>>

Step(t, from, to) == pc[t] = from /\ pc' = [pc EXCEPT ![t] = to]
-----------------------------------------------------------------------------
(* Enqueue. *)
LoadOwnHead(p) ==
  /\ Step(p, "idle", "tail")
  /\ sent < MaxPackets
  /\ sent' = sent + 1
  /\ packet' = [packet EXCEPT ![p] = Intact(sent + 1)]
  /\ mine' = [mine EXCEPT ![p] = head]
  /\ UNCHANGED <<slot, counters, accepted, delivered>>

LoadTail(p) ==
  /\ Step(p, "tail", IF Full(mine[p], tail) THEN "drop" ELSE "data")
  /\ UNCHANGED <<slot, counters, mine, packet, results>>

CountDrop(p) ==
  /\ Step(p, "drop", "idle")
  /\ dropped' = dropped + 1
  /\ UNCHANGED <<slot, head, tail, processed, mine, packet, results>>

WriteData(p) ==
  /\ Step(p, "data", "stamp")
  /\ slot' = [slot EXCEPT ![Index(mine[p])].data = packet[p].data]
  /\ UNCHANGED <<counters, mine, packet, results>>

WriteStamp(p) ==
  /\ Step(p, "stamp", "publish")
  /\ slot' = [slot EXCEPT ![Index(mine[p])].stamp = packet[p].stamp]
  /\ UNCHANGED <<counters, mine, packet, results>>

StoreHead(p) ==
  /\ Step(p, "publish", "idle")
  /\ head' = Inc(mine[p])
  /\ accepted' = accepted \union {packet[p].data}
  /\ UNCHANGED <<slot, tail, dropped, processed, mine, packet, sent, delivered>>

Enqueue(p) == \/ LoadOwnHead(p) \/ LoadTail(p) \/ CountDrop(p)
              \/ WriteData(p) \/ WriteStamp(p) \/ StoreHead(p)
-----------------------------------------------------------------------------
(* Dequeue. *)
LoadOwnTail(c) ==
  /\ Step(c, "idle", "head")
  /\ mine' = [mine EXCEPT ![c] = tail]
  /\ UNCHANGED <<slot, counters, packet, results>>

LoadHead(c) ==
  /\ Step(c, "head", IF Empty(head, mine[c]) THEN "idle" ELSE "read")
  /\ UNCHANGED <<slot, counters, mine, packet, results>>

ReadData(c) ==
  /\ Step(c, "read", "length")
  /\ packet' = [packet EXCEPT ![c].data = slot[Index(mine[c])].data]
  /\ UNCHANGED <<slot, counters, mine, results>>

ReadStamp(c) ==
  /\ Step(c, "length", "release")
  /\ packet' = [packet EXCEPT ![c].stamp = slot[Index(mine[c])].stamp]
  /\ UNCHANGED <<slot, counters, mine, results>>

StoreTail(c) ==
  /\ Step(c, "release", "count")
  /\ tail' = Inc(mine[c])
  /\ delivered' = Append(delivered, packet[c])
  /\ UNCHANGED <<slot, head, dropped, processed, mine, packet, sent, accepted>>

CountProcessed(c) ==
  /\ Step(c, "count", "idle")
  /\ processed' = processed + 1
  /\ UNCHANGED <<slot, head, tail, dropped, mine, packet, results>>

Dequeue(c) == \/ LoadOwnTail(c) \/ LoadHead(c) \/ ReadData(c)
              \/ ReadStamp(c) \/ StoreTail(c) \/ CountProcessed(c)
-----------------------------------------------------------------------------
Next == (\E p \in Producer : Enqueue(p)) \/ (\E c \in Consumer : Dequeue(c))

Spec == Init /\ [][Next]_vars

(* The consumer polls for ever, as the ticker of the dispatch loop makes it. *)
FairSpec == Spec /\ \A c \in Consumer : WF_vars(Dequeue(c))
-----------------------------------------------------------------------------
PC == {"idle", "tail", "drop", "data", "stamp", "publish",
       "head", "read", "length", "release", "count"}

TypeOK ==
  /\ slot \in [0..(Capacity - 1) -> Packet]
  /\ head \in Counter /\ tail \in Counter
  /\ dropped \in Number /\ processed \in Number
  /\ pc \in [Thread -> PC]
  /\ mine \in [Thread -> Counter]
  /\ packet \in [Thread -> Packet]
  /\ sent \in Number /\ accepted \subseteq 1..MaxPackets
  /\ delivered \in Seq(Packet) /\ Len(delivered) <= MaxPackets

Used     == (head - tail) % Width
Contents == [i \in 1..Used |-> slot[Index(tail + i - 1)]]

(* With one producer and one consumer the buffer is a bounded FIFO of its  *)
(* full capacity.  A packet is turned away when Enqueue loads the tail,    *)
(* put when it publishes the head, taken when Dequeue publishes the tail   *)
(* (ringbuffer.go:56-100).                                                 *)
Fifo == INSTANCE BoundedFifo
          WITH queue <- Contents,
               dropped <- dropped + Cardinality({p \in Producer : pc[p] = "drop"}),
               Item <- {Intact(k) : k \in 1..MaxPackets},
               Room <- Capacity
ImplementsFifo == Fifo!FifoSpec

(* Whatever is accepted is delivered as long as the consumer polls.        *)
AcceptedDelivered ==
  \A k \in 1..MaxPackets :
    k \in accepted ~> \E i \in DOMAIN delivered : delivered[i] = Intact(k)
=============================================================================
