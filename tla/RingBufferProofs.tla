--------------------------- MODULE RingBufferProofs ---------------------------
(***************************************************************************)
(* With one producer P and one consumer C the lock-free ring buffer        *)
(* implements a bounded FIFO, for every capacity, every width of counters  *)
(* the capacity divides, and any number of packets.                        *)
(***************************************************************************)
EXTENDS RingBuffer, FiniteSetTheorems, SequenceTheorems, TLAPS

(* The arithmetic of counters that wrap. *)
LEMMA Scale ==
  ASSUME NEW c \in Nat \ {0}, NEW d \in Nat \ {0}
  PROVE  c * d >= c
OBVIOUS

LEMMA DivMod ==
  ASSUME NEW a \in Int, NEW c \in Nat \ {0}
  PROVE  a % c \in 0..(c - 1) /\ a \div c \in Int /\ a = c * (a \div c) + (a % c)
OBVIOUS

LEMMA Unique ==
  ASSUME NEW c \in Nat \ {0}, NEW q \in Int, NEW p \in Int,
         NEW r \in 0..(c - 1), NEW s \in 0..(c - 1), c * q + r = c * p + s
  PROVE  r = s /\ q = p
<1>1. CASE q = p
  BY <1>1
<1>2. CASE q > p
  <2>1. c * (q - p) >= c
    BY <1>2, Scale
  <2>2. c * (q - p) = c * q - c * p
    OBVIOUS
  <2> QED BY <2>1, <2>2
<1>3. CASE q < p
  <2>1. c * (p - q) >= c
    BY <1>3, Scale
  <2>2. c * (p - q) = c * p - c * q
    OBVIOUS
  <2> QED BY <2>1, <2>2
<1> QED BY <1>1, <1>2, <1>3

LEMMA Split ==
  ASSUME NEW a \in Int, NEW c \in Nat \ {0}
  PROVE  \E q \in Int, r \in 0..(c - 1) : a = c * q + r /\ a % c = r
BY DivMod

LEMMA ModOf ==
  ASSUME NEW c \in Nat \ {0}, NEW q \in Int, NEW r \in 0..(c - 1), NEW a \in Int,
         a = c * q + r
  PROVE  a % c = r
<1>1. PICK p \in Int, s \in 0..(c - 1) : a = c * p + s /\ a % c = s
  BY Split
<1>2. c * q + r = c * p + s
  BY <1>1
<1>3. r = s
  BY <1>2, Unique, Zenon
<1> QED BY <1>1, <1>3

LEMMA Distribute ==
  ASSUME NEW c \in Int, NEW a \in Int, NEW b \in Int
  PROVE  c * (a + b) = c * a + c * b
OBVIOUS

LEMMA ModPeriod ==
  ASSUME NEW c \in Nat \ {0}, NEW n \in Nat, NEW k \in Nat
  PROVE  (n + c * k) % c = n % c
<1>0. n \in Int /\ k \in Int /\ c \in Int
  OBVIOUS
<1>1. PICK q \in Int, r \in 0..(c - 1) : n = c * q + r /\ n % c = r
  BY <1>0, Split, Zenon
<1>2. c * (q + k) = c * q + c * k
  BY <1>0, Distribute, Zenon
<1>7. c * k \in Int /\ c * q \in Int
  OBVIOUS
<1>3. PICK p \in Int : p = q + k
  OBVIOUS
<1>4. n + c * k = c * p + r
  BY <1>1, <1>2, <1>7, <1>3
<1>5. n + c * k \in Int
  BY <1>7
<1>6. (n + c * k) % c = r
  BY <1>4, <1>5, ModOf, Zenon
<1> QED BY <1>1, <1>6

LEMMA ModApart ==
  ASSUME NEW c \in Nat \ {0}, NEW n \in Nat, NEW i \in 0..(c - 1), NEW j \in 0..(c - 1),
         (n + i) % c = (n + j) % c
  PROVE  i = j
<1>0. n + i \in Int /\ n + j \in Int
  OBVIOUS
<1>1. PICK q \in Int, r \in 0..(c - 1) : n + i = c * q + r /\ (n + i) % c = r
  BY <1>0, Split, Zenon
<1>2. PICK p \in Int, s \in 0..(c - 1) : n + j = c * p + s /\ (n + j) % c = s
  BY <1>0, Split, Zenon
<1>3. c * q \in Int /\ c * p \in Int
  OBVIOUS
<1>4. c * q + j = c * p + i
  BY <1>1, <1>2, <1>3
<1>5. j = i
  BY <1>4, Unique, Zenon
<1> QED BY <1>5

LEMMA Distance ==
  ASSUME NEW w \in Nat \ {0}, NEW h \in 0..(w - 1), NEW t \in 0..(w - 1)
  PROVE  (h - t) % w = IF h >= t THEN h - t ELSE h - t + w
OBVIOUS

LEMMA Successor ==
  ASSUME NEW w \in Nat \ {0}, NEW n \in 0..(w - 1)
  PROVE  (n + 1) % w = IF n = w - 1 THEN 0 ELSE n + 1
OBVIOUS

LEMMA Sizes ==
  /\ Capacity \in Nat \ {0} /\ Width \in Nat \ {0} /\ Capacity < Width
  /\ \E k \in Nat : Width = Capacity * k
<1>1. Capacity \in Nat \ {0} /\ Width \in Nat \ {0} /\ Capacity < Width /\ Width % Capacity = 0
  BY RingAssumption
<1>2. Width = Capacity * (Width \div Capacity) /\ Width \div Capacity \in Int
  BY <1>1, DivMod
<1>3. Width \div Capacity \in Nat
  BY <1>1
<1> QED BY <1>1, <1>2, <1>3

(* The slot of a counter does not change when the counter wraps.           *)
LEMMA IndexWraps ==
  ASSUME NEW n \in Nat
  PROVE  Index(n + Width) = Index(n)
<1>1. PICK k \in Nat : Width = Capacity * k
  BY Sizes
<1>2. (n + Capacity * k) % Capacity = n % Capacity
  BY Sizes, ModPeriod, Zenon
<1> QED BY <1>1, <1>2 DEF Index

LEMMA IndexInRange ==
  ASSUME NEW n \in Nat
  PROVE  Index(n) \in 0..(Capacity - 1)
BY Sizes, DivMod DEF Index

(* Neighbours have different slots.                                        *)
LEMMA IndexApart ==
  ASSUME NEW n \in Nat, NEW i \in 0..(Capacity - 1), NEW j \in 0..(Capacity - 1), i # j
  PROVE  Index(n + i) # Index(n + j)
<1>1. (n + i) % Capacity = (n + j) % Capacity => i = j
  BY Sizes, ModApart, Zenon
<1> QED BY <1>1 DEF Index

(* Counters as they are used: the distance, and the slot at a distance.    *)
LEMMA Distances ==
  ASSUME NEW h \in Counter, NEW t \in Counter
  PROVE  /\ (h - t) % Width \in 0..(Width - 1)
         /\ h = t <=> (h - t) % Width = 0
         /\ Inc(h) \in Counter
         /\ (h - t) % Width < Width - 1 => (Inc(h) - t) % Width = ((h - t) % Width) + 1
         /\ (h - t) % Width > 0 => (h - Inc(t)) % Width = ((h - t) % Width) - 1
<1>1. Width \in Nat \ {0} /\ h \in 0..(Width - 1) /\ t \in 0..(Width - 1)
  BY Sizes DEF Counter
<1>2. Inc(h) = IF h = Width - 1 THEN 0 ELSE h + 1
  BY <1>1, Successor DEF Inc
<1>3. Inc(t) = IF t = Width - 1 THEN 0 ELSE t + 1
  BY <1>1, Successor DEF Inc
<1>4. Inc(h) \in 0..(Width - 1) /\ Inc(t) \in 0..(Width - 1)
  BY <1>1, <1>2, <1>3
<1>5. (h - t) % Width = IF h >= t THEN h - t ELSE h - t + Width
  BY <1>1, Distance
<1>6. (Inc(h) - t) % Width = IF Inc(h) >= t THEN Inc(h) - t ELSE Inc(h) - t + Width
  BY <1>1, <1>4, Distance
<1>7. (h - Inc(t)) % Width = IF h >= Inc(t) THEN h - Inc(t) ELSE h - Inc(t) + Width
  BY <1>1, <1>4, Distance
<1> HIDE DEF Inc
<1> QED BY <1>1, <1>2, <1>3, <1>4, <1>5, <1>6, <1>7 DEF Counter

LEMMA SlotAtDistance ==
  ASSUME NEW h \in Counter, NEW t \in Counter, NEW d, d = (h - t) % Width
  PROVE  Index(t + d) = Index(h)
<1>1. Width \in Nat \ {0} /\ h \in 0..(Width - 1) /\ t \in 0..(Width - 1)
  BY Sizes DEF Counter
<1>2. d = IF h >= t THEN h - t ELSE h - t + Width
  BY <1>1, Distance
<1>3. CASE h >= t
  <2>1. t + d = h
    BY <1>1, <1>2, <1>3
  <2> QED BY <2>1
<1>4. CASE ~(h >= t)
  <2>1. t + d = h + Width
    BY <1>1, <1>2, <1>4
  <2>2. h \in Nat
    BY <1>1
  <2>3. Index(h + Width) = Index(h)
    BY <2>2, IndexWraps
  <2> QED BY <2>1, <2>3
<1> QED BY <1>3, <1>4

LEMMA SlotAfterInc ==
  ASSUME NEW t \in Counter, NEW i \in Nat
  PROVE  Index(Inc(t) + i) = Index(t + 1 + i)
<1>1. Width \in Nat \ {0} /\ t \in 0..(Width - 1)
  BY Sizes DEF Counter
<1>2. Inc(t) = IF t = Width - 1 THEN 0 ELSE t + 1
  BY <1>1, Successor DEF Inc
<1>3. CASE t = Width - 1
  <2>1. t + 1 + i = i + Width /\ Inc(t) + i = i
    BY <1>1, <1>2, <1>3
  <2> QED BY <2>1, IndexWraps
<1>4. CASE t # Width - 1
  BY <1>2, <1>4
<1> QED BY <1>3, <1>4
-----------------------------------------------------------------------------
Writing == {"data", "stamp", "publish"}
Reading == {"read", "length", "release"}

RingTypes(P, C) ==
  /\ slot \in [0..(Capacity - 1) -> Packet]
  /\ head \in Counter /\ tail \in Counter
  /\ dropped \in Nat /\ sent \in Number
  /\ pc \in [Thread -> PC]
  /\ mine \in [Thread -> Counter]
  /\ packet \in [Thread -> Packet]
  /\ delivered \in Seq(Packet)
  /\ pc[P] \in {"idle", "tail", "drop"} \union Writing
  /\ pc[C] \in {"idle", "head", "count"} \union Reading

(* What each side loaded first is still so, and what it found when it      *)
(* loaded the other side's counter can only have become more.              *)
RoomInv(P, C) ==
  /\ Used <= Capacity
  /\ pc[P] # "idle" => /\ mine[P] = head
                       /\ \E k \in 1..MaxPackets : packet[P] = Intact(k)
  /\ pc[P] \in Writing => Used < Capacity
  /\ pc[C] \notin {"idle", "count"} => mine[C] = tail
  /\ pc[C] \in Reading => Used > 0

(* What is written so far is in the slot at head, what is copied so far is *)
(* what the slot at tail has.                                              *)
SlotInv(P, C) ==
  /\ pc[P] \in {"stamp", "publish"} => slot[Index(head)].data = packet[P].data
  /\ pc[P] = "publish" => slot[Index(head)].stamp = packet[P].stamp
  /\ pc[C] \in {"length", "release"} => packet[C].data = slot[Index(tail)].data
  /\ pc[C] = "release" => packet[C].stamp = slot[Index(tail)].stamp

RingInv(P, C) == RingTypes(P, C) /\ RoomInv(P, C) /\ SlotInv(P, C)

LEMMA UsedIsNat ==
  ASSUME head \in Counter, tail \in Counter
  PROVE  /\ Used \in Nat
         /\ Index(tail + Used) = Index(head)
         /\ Index(head) \in 0..(Capacity - 1) /\ Index(tail) \in 0..(Capacity - 1)
<1>1. Used = (head - tail) % Width
  BY DEF Used
<1>2. Used \in 0..(Width - 1)
  BY <1>1, Distances
<1>3. Index(tail + Used) = Index(head)
  BY <1>1, SlotAtDistance
<1>4. head \in Nat /\ tail \in Nat
  BY Sizes DEF Counter
<1> QED BY <1>2, <1>3, <1>4, IndexInRange, Sizes

(* The slots in use are not the one at head while a packet is written.     *)
LEMMA WrittenIsApart ==
  ASSUME head \in Counter, tail \in Counter, Used < Capacity, NEW i \in 0..(Used - 1)
  PROVE  Index(tail + i) # Index(head)
<1>1. Used \in 0..(Capacity - 1) /\ i \in 0..(Capacity - 1) /\ i # Used /\ tail \in Nat
  BY UsedIsNat, Sizes DEF Counter
<1>2. Index(tail + i) # Index(tail + Used)
  BY <1>1, IndexApart
<1> QED BY <1>2, UsedIsNat

(* No step of either side breaks what the other has found out about its    *)
(* slot, although neither of them waits (ringbuffer.go:56-100).            *)
THEOREM RingInvariant ==
  ASSUME NEW P, NEW C, Producer = {P}, Consumer = {C}
  PROVE  Spec => []RingInv(P, C)
<1>0. P # C /\ P \in Thread /\ C \in Thread /\ Thread = {P, C}
  BY RingAssumption DEF Thread
<1>1. Init => RingInv(P, C)
  <2> SUFFICES ASSUME Init PROVE RingInv(P, C)
    OBVIOUS
  <2>1. 0 \in Counter /\ 0 \in Number /\ Intact(0) \in Packet /\ 0..0 = {0}
    BY Sizes, RingAssumption DEF Counter, Number, Packet, Intact
  <2>2. RingTypes(P, C)
    BY <1>0, <2>1 DEF Init, RingTypes, PC
  <2>3. Used = 0
    BY Distances, <2>1 DEF Init, Used
  <2>4. RoomInv(P, C) /\ SlotInv(P, C)
    BY <1>0, <2>3, Sizes DEF Init, RoomInv, SlotInv, Writing, Reading
  <2> QED BY <2>2, <2>4 DEF RingInv
<1>2. RingInv(P, C) /\ [Next]_vars => RingInv(P, C)'
  <2> SUFFICES ASSUME RingInv(P, C), [Next]_vars PROVE RingInv(P, C)'
    OBVIOUS
  <2> USE <1>0 DEF RingInv
  <2>t. RingTypes(P, C) /\ RoomInv(P, C) /\ SlotInv(P, C)
    OBVIOUS
  <2>u. /\ Used \in Nat
        /\ Index(head) \in 0..(Capacity - 1) /\ Index(tail) \in 0..(Capacity - 1)
    BY UsedIsNat DEF RingTypes
  <2>1. CASE LoadOwnHead(P)
    <3>1. sent + 1 \in 1..MaxPackets /\ sent + 1 \in Number /\ Intact(sent + 1) \in Packet
      BY <2>1, RingAssumption DEF LoadOwnHead, RingTypes, Number, Packet, Intact
    <3>2. RingTypes(P, C)'
      BY <2>1, <3>1 DEF LoadOwnHead, Step, RingTypes, counters, PC
    <3>3. Used' = Used
      BY <2>1 DEF LoadOwnHead, counters, Used
    <3>4. RoomInv(P, C)'
      BY <2>1, <3>1, <3>3 DEF LoadOwnHead, Step, RingTypes, RoomInv, counters, Writing, Reading
    <3>5. SlotInv(P, C)'
      BY <2>1 DEF LoadOwnHead, Step, RingTypes, SlotInv, counters
    <3> QED BY <3>2, <3>4, <3>5
  <2>2. CASE LoadTail(P)
    <3>1. RingTypes(P, C)'
      BY <2>2 DEF LoadTail, Step, RingTypes, counters, results, PC, Writing
    <3>2. Used' = Used
      BY <2>2 DEF LoadTail, counters, Used
    <3>3. ~Full(mine[P], tail) => Used < Capacity
      BY <2>2, <2>u, Sizes DEF LoadTail, Step, RoomInv, Full, Used
    <3>4. RoomInv(P, C)'
      BY <2>2, <3>2, <3>3 DEF LoadTail, Step, RingTypes, RoomInv, counters, Writing, Reading
    <3>5. SlotInv(P, C)'
      BY <2>2 DEF LoadTail, Step, RingTypes, SlotInv, counters
    <3> QED BY <3>1, <3>4, <3>5
  <2>3. CASE CountDrop(P)
    <3>1. RingTypes(P, C)'
      BY <2>3 DEF CountDrop, Step, RingTypes, results, PC
    <3>2. Used' = Used
      BY <2>3 DEF CountDrop, Used
    <3>3. RoomInv(P, C)' /\ SlotInv(P, C)'
      BY <2>3, <3>2 DEF CountDrop, Step, RingTypes, RoomInv, SlotInv, Writing, Reading
    <3> QED BY <3>1, <3>3
  <2>4. CASE WriteData(P)
    <3>1. pc[P] = "data" /\ mine[P] = head /\ Used < Capacity
      BY <2>4 DEF WriteData, Step, RoomInv, Writing
    <3>2. slot' = [slot EXCEPT ![Index(head)].data = packet[P].data]
      BY <2>4, <3>1 DEF WriteData
    <3>3. slot' \in [0..(Capacity - 1) -> Packet]
      BY <3>2, <2>u DEF RingTypes, Packet
    <3>4. RingTypes(P, C)'
      BY <2>4, <3>3 DEF WriteData, Step, RingTypes, counters, results, PC, Writing
    <3>5. Used' = Used
      BY <2>4 DEF WriteData, counters, Used
    <3>6. RoomInv(P, C)'
      BY <2>4, <3>1, <3>5 DEF WriteData, Step, RingTypes, RoomInv, counters, Writing, Reading
    <3>7. Used > 0 => slot'[Index(tail)] = slot[Index(tail)]
      <4>1. Used > 0 => Index(tail + 0) # Index(head)
        BY <2>u, <3>1, WrittenIsApart DEF RingTypes
      <4>2. tail + 0 = tail
        BY Sizes DEF RingTypes, Counter
      <4> QED BY <4>1, <4>2, <3>2, <2>u DEF RingTypes
    <3>8. slot'[Index(head)].data = packet[P].data
      BY <3>2, <2>u DEF RingTypes, Packet
    <3>9. SlotInv(P, C)'
      BY <2>4, <3>1, <3>7, <3>8
      DEF WriteData, Step, RingTypes, RoomInv, SlotInv, counters, Reading
    <3> QED BY <3>4, <3>6, <3>9
  <2>5. CASE WriteStamp(P)
    <3>1. pc[P] = "stamp" /\ mine[P] = head /\ Used < Capacity
      BY <2>5 DEF WriteStamp, Step, RoomInv, Writing
    <3>2. slot' = [slot EXCEPT ![Index(head)].stamp = packet[P].stamp]
      BY <2>5, <3>1 DEF WriteStamp
    <3>3. slot' \in [0..(Capacity - 1) -> Packet]
      BY <3>2, <2>u DEF RingTypes, Packet
    <3>4. RingTypes(P, C)'
      BY <2>5, <3>3 DEF WriteStamp, Step, RingTypes, counters, results, PC, Writing
    <3>5. Used' = Used
      BY <2>5 DEF WriteStamp, counters, Used
    <3>6. RoomInv(P, C)'
      BY <2>5, <3>1, <3>5 DEF WriteStamp, Step, RingTypes, RoomInv, counters, Writing, Reading
    <3>7. Used > 0 => slot'[Index(tail)] = slot[Index(tail)]
      <4>1. Used > 0 => Index(tail + 0) # Index(head)
        BY <2>u, <3>1, WrittenIsApart DEF RingTypes
      <4>2. tail + 0 = tail
        BY Sizes DEF RingTypes, Counter
      <4> QED BY <4>1, <4>2, <3>2, <2>u DEF RingTypes
    <3>8. /\ slot'[Index(head)].data = packet[P].data
          /\ slot'[Index(head)].stamp = packet[P].stamp
      BY <3>1, <3>2, <2>u DEF RingTypes, SlotInv, Packet
    <3>9. SlotInv(P, C)'
      BY <2>5, <3>1, <3>7, <3>8
      DEF WriteStamp, Step, RingTypes, RoomInv, SlotInv, counters, Reading
    <3> QED BY <3>4, <3>6, <3>9
  <2>6. CASE StoreHead(P)
    <3>1. pc[P] = "publish" /\ head' = Inc(head) /\ tail' = tail /\ Used < Capacity
      BY <2>6 DEF StoreHead, Step, RoomInv, Writing
    <3>2. Used' = Used + 1 /\ head' \in Counter
      <4>1. Used = (head - tail) % Width /\ Used' = (head' - tail') % Width
        BY DEF Used
      <4>2. Used < Width - 1
        BY <3>1, <2>u, Sizes
      <4>3. head \in Counter /\ tail \in Counter
        BY DEF RingTypes
      <4> HIDE DEF RingInv
      <4> QED BY <3>1, <4>1, <4>2, <4>3, Distances
    <3>3. RingTypes(P, C)'
      BY <2>6, <3>1, <3>2 DEF StoreHead, Step, RingTypes, PC
    <3>4. RoomInv(P, C)'
      BY <2>6, <2>u, <3>1, <3>2, Sizes DEF StoreHead, Step, RingTypes, RoomInv, Writing, Reading
    <3>5. SlotInv(P, C)'
      BY <2>6 DEF StoreHead, Step, RingTypes, SlotInv
    <3> QED BY <3>3, <3>4, <3>5
  <2>7. CASE LoadOwnTail(C)
    <3>1. RingTypes(P, C)'
      BY <2>7 DEF LoadOwnTail, Step, RingTypes, counters, results, PC
    <3>2. Used' = Used
      BY <2>7 DEF LoadOwnTail, counters, Used
    <3>3. RoomInv(P, C)' /\ SlotInv(P, C)'
      BY <2>7, <3>2
      DEF LoadOwnTail, Step, RingTypes, RoomInv, SlotInv, counters, Writing, Reading
    <3> QED BY <3>1, <3>3
  <2>8. CASE LoadHead(C)
    <3>1. RingTypes(P, C)'
      BY <2>8 DEF LoadHead, Step, RingTypes, counters, results, PC, Reading
    <3>2. Used' = Used
      BY <2>8 DEF LoadHead, counters, Used
    <3>3. ~Empty(head, mine[C]) => Used > 0
      <4>1. mine[C] = tail
        BY <2>8 DEF LoadHead, Step, RoomInv
      <4>2. head = tail <=> Used = 0
        BY Distances DEF Used, RingTypes
      <4> QED BY <4>1, <4>2, <2>u DEF Empty
    <3>4. RoomInv(P, C)'
      BY <2>8, <3>2, <3>3 DEF LoadHead, Step, RingTypes, RoomInv, counters, Writing, Reading
    <3>5. SlotInv(P, C)'
      BY <2>8 DEF LoadHead, Step, RingTypes, SlotInv, counters
    <3> QED BY <3>1, <3>4, <3>5
  <2>9. CASE ReadData(C)
    <3>1. pc[C] = "read" /\ mine[C] = tail
      BY <2>9 DEF ReadData, Step, RoomInv
    <3>2. packet' = [packet EXCEPT ![C].data = slot[Index(tail)].data]
      BY <2>9, <3>1 DEF ReadData
    <3>3. packet' \in [Thread -> Packet] /\ packet'[P] = packet[P]
      BY <3>2, <2>u DEF RingTypes, Packet
    <3>4. RingTypes(P, C)'
      BY <2>9, <3>3 DEF ReadData, Step, RingTypes, counters, results, PC, Reading
    <3>5. Used' = Used
      BY <2>9 DEF ReadData, counters, Used
    <3>6. RoomInv(P, C)'
      BY <2>9, <3>1, <3>3, <3>5
      DEF ReadData, Step, RingTypes, RoomInv, counters, Writing, Reading
    <3>7. packet'[C].data = slot[Index(tail)].data
      BY <3>2 DEF RingTypes, Packet
    <3>8. SlotInv(P, C)'
      BY <2>9, <3>3, <3>7 DEF ReadData, Step, RingTypes, SlotInv, counters
    <3> QED BY <3>4, <3>6, <3>8
  <2>10. CASE ReadStamp(C)
    <3>1. pc[C] = "length" /\ mine[C] = tail
      BY <2>10 DEF ReadStamp, Step, RoomInv
    <3>2. packet' = [packet EXCEPT ![C].stamp = slot[Index(tail)].stamp]
      BY <2>10, <3>1 DEF ReadStamp
    <3>3. packet' \in [Thread -> Packet] /\ packet'[P] = packet[P]
      BY <3>2, <2>u DEF RingTypes, Packet
    <3>4. RingTypes(P, C)'
      BY <2>10, <3>3 DEF ReadStamp, Step, RingTypes, counters, results, PC, Reading
    <3>5. Used' = Used
      BY <2>10 DEF ReadStamp, counters, Used
    <3>6. RoomInv(P, C)'
      BY <2>10, <3>1, <3>3, <3>5
      DEF ReadStamp, Step, RingTypes, RoomInv, counters, Writing, Reading
    <3>7. packet'[C].stamp = slot[Index(tail)].stamp /\ packet'[C].data = packet[C].data
      BY <3>2 DEF RingTypes, Packet
    <3>8. SlotInv(P, C)'
      BY <2>10, <3>1, <3>3, <3>7 DEF ReadStamp, Step, RingTypes, SlotInv, counters
    <3> QED BY <3>4, <3>6, <3>8
  <2>11. CASE StoreTail(C)
    <3>1. pc[C] = "release" /\ tail' = Inc(tail) /\ head' = head /\ Used > 0
      BY <2>11 DEF StoreTail, Step, RoomInv, Reading
    <3>2. Used' = Used - 1 /\ tail' \in Counter
      BY <3>1, <2>u, Distances DEF RingTypes, Used
    <3>3. RingTypes(P, C)'
      BY <2>11, <3>1, <3>2 DEF StoreTail, Step, RingTypes, PC
    <3>4. RoomInv(P, C)'
      BY <2>11, <2>u, <3>1, <3>2, Sizes DEF StoreTail, Step, RingTypes, RoomInv, Writing, Reading
    <3>5. SlotInv(P, C)'
      BY <2>11 DEF StoreTail, Step, RingTypes, SlotInv
    <3> QED BY <3>3, <3>4, <3>5
  <2>12. CASE CountProcessed(C)
    <3>1. RingTypes(P, C)'
      BY <2>12 DEF CountProcessed, Step, RingTypes, results, PC
    <3>2. Used' = Used
      BY <2>12 DEF CountProcessed, Used
    <3>3. RoomInv(P, C)' /\ SlotInv(P, C)'
      BY <2>12, <3>2 DEF CountProcessed, Step, RingTypes, RoomInv, SlotInv, Writing, Reading
    <3> QED BY <3>1, <3>3
  <2>13. CASE UNCHANGED vars
    BY <2>13 DEF vars, counters, results, RingTypes, RoomInv, SlotInv, Used
  <2> QED BY <2>1, <2>2, <2>3, <2>4, <2>5, <2>6, <2>7, <2>8, <2>9, <2>10, <2>11, <2>12, <2>13
          DEF Next, Enqueue, Dequeue
<1> QED BY <1>1, <1>2, PTL DEF Spec
-----------------------------------------------------------------------------
(* Sequences as functions. *)
LEMMA FunctionIsSeq ==
  ASSUME NEW S, NEW n \in Nat, NEW f \in [1..n -> S]
  PROVE  f \in Seq(S) /\ Len(f) = n
OBVIOUS

LEMMA AppendIs ==
  ASSUME NEW S, NEW s \in Seq(S), NEW x \in S
  PROVE  /\ Append(s, x) \in [1..(Len(s) + 1) -> S] /\ Append(s, x)[Len(s) + 1] = x
         /\ \A i \in 1..Len(s) : Append(s, x)[i] = s[i]
<1>1. PICK a : a = Append(s, x)
  OBVIOUS
<1>2. /\ a \in Seq(S) /\ Len(a) = Len(s) + 1 /\ a[Len(s) + 1] = x
      /\ \A i \in 1..Len(s) : a[i] = s[i]
  BY <1>1, AppendProperties
<1>3. a \in [1..Len(a) -> S]
  BY <1>2, LenProperties
<1> QED BY <1>1, <1>2, <1>3

LEMMA TailIs ==
  ASSUME NEW S, NEW s \in Seq(S), Len(s) > 0
  PROVE  /\ Tail(s) \in [1..(Len(s) - 1) -> S]
         /\ \A i \in 1..(Len(s) - 1) : Tail(s)[i] = s[i + 1]
<1>1. s # <<>>
  OBVIOUS
<1> QED BY <1>1, HeadTailProperties, LenProperties

(* The slots in use, oldest first. *)
LEMMA ContentsAre ==
  ASSUME NEW P, NEW C, RingTypes(P, C), Used <= Capacity
  PROVE  /\ Contents \in Seq(Packet) /\ Len(Contents) = Used
         /\ \A i \in 1..Used : Contents[i] = slot[Index(tail + i - 1)]
<1>1. Used \in Nat /\ tail \in Nat
  BY UsedIsNat, Sizes DEF RingTypes, Counter
<1>2. ASSUME NEW i \in 1..Used
      PROVE  slot[Index(tail + i - 1)] \in Packet
  <2>1. tail + i - 1 \in Nat
    BY <1>1
  <2> QED BY <2>1, IndexInRange DEF RingTypes
<1>3. Contents \in [1..Used -> Packet]
  BY <1>2 DEF Contents
<1>4. Contents \in Seq(Packet) /\ Len(Contents) = Used
  BY <1>1, <1>3, FunctionIsSeq
<1> QED BY <1>4 DEF Contents

(* The two properties that make the buffer a FIFO: publishing the head     *)
(* appends the packet, publishing the tail removes the oldest.             *)
LEMMA PublishPuts ==
  ASSUME NEW P \in Thread, NEW C \in Thread, RingInv(P, C), RingInv(P, C)', StoreHead(P)
  PROVE  Used < Capacity /\ Contents' = Append(Contents, packet[P])
<1> USE DEF RingInv
<1>1. pc[P] = "publish" /\ head' = Inc(head) /\ tail' = tail /\ slot' = slot /\ Used < Capacity
  BY DEF StoreHead, Step, RoomInv, Writing
<1>2. /\ Used \in Nat /\ Index(tail + Used) = Index(head) /\ tail \in Nat
      /\ Index(head) \in 0..(Capacity - 1)
  BY UsedIsNat, Sizes DEF RingTypes, Counter
<1>3. Used' = Used + 1
  <2>1. Used = (head - tail) % Width /\ Used' = (head' - tail') % Width
    BY DEF Used
  <2>2. Used < Width - 1
    BY <1>1, <1>2, Sizes
  <2>3. head \in Counter /\ tail \in Counter
    BY DEF RingTypes
  <2> HIDE DEF RingInv
  <2> QED BY <1>1, <2>1, <2>2, <2>3, Distances
<1>4. packet[P] = slot[Index(head)] /\ packet[P] \in Packet
  <2>1. packet[P] \in Packet /\ slot[Index(head)] \in Packet
    BY <1>2 DEF RingTypes
  <2>2. /\ slot[Index(head)].data = packet[P].data
        /\ slot[Index(head)].stamp = packet[P].stamp
    BY <1>1 DEF SlotInv
  <2> QED BY <2>1, <2>2 DEF Packet
<1>5. /\ Contents \in Seq(Packet) /\ Len(Contents) = Used
      /\ \A i \in 1..Used : Contents[i] = slot[Index(tail + i - 1)]
  BY ContentsAre DEF RoomInv
<1>6. Contents' = [i \in 1..(Used + 1) |-> slot[Index(tail + i - 1)]]
  BY <1>1, <1>3 DEF Contents
<1>7. PICK a : a = Append(Contents, packet[P])
  OBVIOUS
<1>8. a \in [1..(Used + 1) -> Packet] /\ a[Used + 1] = packet[P]
      /\ \A i \in 1..Used : a[i] = Contents[i]
  BY <1>4, <1>5, <1>7, AppendIs
<1>9. ASSUME NEW i \in 1..(Used + 1)
      PROVE  a[i] = slot[Index(tail + i - 1)]
  <2>1. CASE i \in 1..Used
    BY <2>1, <1>5, <1>8
  <2>2. CASE i = Used + 1
    <3>1. tail + i - 1 = tail + Used
      BY <1>2, <2>2
    <3> QED BY <2>2, <3>1, <1>2, <1>4, <1>8
  <2> QED BY <1>2, <2>1, <2>2
<1>10. Contents' = a
  BY <1>6, <1>8, <1>9
<1> QED BY <1>1, <1>7, <1>10

LEMMA ReleaseGets ==
  ASSUME NEW P \in Thread, NEW C \in Thread, RingInv(P, C), StoreTail(C)
  PROVE  Contents # <<>> /\ packet[C] = Head(Contents) /\ Contents' = Tail(Contents)
<1> USE DEF RingInv
<1>1. pc[C] = "release" /\ tail' = Inc(tail) /\ head' = head /\ slot' = slot /\ Used > 0
  BY DEF StoreTail, Step, RoomInv, Reading
<1>2. /\ Used \in Nat /\ tail \in Nat /\ Index(tail) \in 0..(Capacity - 1)
  BY UsedIsNat, Sizes DEF RingTypes, Counter
<1>3. Used' = Used - 1
  <2>1. Used = (head - tail) % Width /\ Used' = (head' - tail') % Width
    BY DEF Used
  <2>3. head \in Counter /\ tail \in Counter
    BY DEF RingTypes
  <2> HIDE DEF RingInv
  <2> QED BY <1>1, <2>1, <2>3, Distances
<1>5. /\ Contents \in Seq(Packet) /\ Len(Contents) = Used
      /\ \A i \in 1..Used : Contents[i] = slot[Index(tail + i - 1)]
  BY ContentsAre DEF RoomInv
<1>4. packet[C] = slot[Index(tail)]
  <2>1. packet[C] \in Packet /\ slot[Index(tail)] \in Packet
    BY <1>2 DEF RingTypes
  <2>2. /\ slot[Index(tail)].data = packet[C].data
        /\ slot[Index(tail)].stamp = packet[C].stamp
    BY <1>1 DEF SlotInv
  <2> QED BY <2>1, <2>2 DEF Packet
<1>6. Contents # <<>> /\ Head(Contents) = packet[C]
  <2>1. Contents[1] = slot[Index(tail + 1 - 1)] /\ tail + 1 - 1 = tail
    BY <1>1, <1>2, <1>5
  <2>2. Contents[1] = packet[C]
    BY <2>1, <1>4
  <2> QED BY <2>2, <1>1, <1>5
<1>7. Contents' = [i \in 1..(Used - 1) |-> slot[Index(Inc(tail) + i - 1)]]
  BY <1>1, <1>3 DEF Contents
<1>8. PICK a : a = Tail(Contents)
  OBVIOUS
<1>9. a \in [1..(Used - 1) -> Packet] /\ \A i \in 1..(Used - 1) : a[i] = Contents[i + 1]
  BY <1>1, <1>5, <1>8, TailIs
<1>10. ASSUME NEW i \in 1..(Used - 1)
       PROVE  a[i] = slot[Index(Inc(tail) + i - 1)]
  <2>1. a[i] = slot[Index(tail + (i + 1) - 1)]
    BY <1>2, <1>5, <1>9
  <2>2. tail \in Counter /\ Inc(tail) \in Counter /\ Inc(tail) \in Nat /\ i - 1 \in Nat
    <3>1. tail \in Counter
      BY DEF RingTypes
    <3>2. Inc(tail) \in Counter
      BY <3>1, Distances
    <3> QED BY <3>1, <3>2, <1>2, Sizes DEF Counter
  <2>3. Index(Inc(tail) + (i - 1)) = Index(tail + 1 + (i - 1))
    BY <2>2, SlotAfterInc
  <2>4. tail + 1 + (i - 1) = tail + (i + 1) - 1
    BY <1>2
  <2>5. Inc(tail) + (i - 1) = Inc(tail) + i - 1
    <3>1. ASSUME NEW n \in Nat PROVE n + (i - 1) = n + i - 1
      OBVIOUS
    <3> QED BY <2>2, <3>1
  <2> QED BY <2>1, <2>3, <2>4, <2>5
<1>11. Contents' = a
  BY <1>7, <1>9, <1>10
<1> QED BY <1>6, <1>8, <1>11
-----------------------------------------------------------------------------
Missed == dropped + Cardinality({p \in Producer : pc[p] = "drop"})

LEMMA CountsOne ==
  ASSUME NEW P, NEW d \in Nat, NEW f
  PROVE  d + Cardinality({p \in {P} : f[p] = "drop"}) = IF f[P] = "drop" THEN d + 1 ELSE d
<1>1. CASE f[P] = "drop"
  <2>1. {p \in {P} : f[p] = "drop"} = {P}
    BY <1>1
  <2>2. Cardinality({P}) = 1
    BY FS_Singleton
  <2> QED BY <1>1, <2>1, <2>2
<1>2. CASE f[P] # "drop"
  <2>1. {p \in {P} : f[p] = "drop"} = {}
    BY <1>2
  <2>2. Cardinality({}) = 0
    BY FS_EmptySet
  <2> QED BY <1>2, <2>1, <2>2
<1> QED BY <1>1, <1>2

(* One producer and one consumer see a bounded FIFO of the full capacity   *)
(* that turns packets away only when it is full and counts them            *)
(* (ringbuffer.go:56-100).                                                 *)
THEOREM IsFifo ==
  ASSUME NEW P, NEW C, Producer = {P}, Consumer = {C}
  PROVE  Spec => ImplementsFifo
<1>0. P # C /\ P \in Thread /\ C \in Thread
  BY RingAssumption DEF Thread
<1>1. Spec => []RingInv(P, C)
  BY RingInvariant
<1>2. Init => Fifo!FifoInit
  <2> SUFFICES ASSUME Init PROVE Fifo!FifoInit
    OBVIOUS
  <2>1. 0 \in Counter
    BY Sizes DEF Counter
  <2>2. Used = 0
    BY Distances, <2>1 DEF Init, Used
  <2>3. Contents = <<>>
    BY <2>2 DEF Contents
  <2>4. Missed = 0
    BY <1>0, CountsOne DEF Init, Missed
  <2> QED BY <2>3, <2>4 DEF Init, Missed, Fifo!FifoInit
<1>3. RingInv(P, C) /\ RingInv(P, C)' /\ [Next]_vars
        => [Fifo!FifoNext]_<<Contents, delivered, Missed>>
  <2> SUFFICES ASSUME RingInv(P, C), RingInv(P, C)', [Next]_vars
               PROVE  [Fifo!FifoNext]_<<Contents, delivered, Missed>>
    OBVIOUS
  <2> USE <1>0
  <2>t. RingTypes(P, C) /\ RoomInv(P, C) /\ SlotInv(P, C) /\ RingTypes(P, C)'
    BY DEF RingInv
  <2>m. Missed = IF pc[P] = "drop" THEN dropped + 1 ELSE dropped
    BY <2>t, CountsOne DEF RingTypes, Missed
  <2>n. Missed' = IF pc'[P] = "drop" THEN dropped' + 1 ELSE dropped'
    <3>1. dropped' \in Nat
      BY <2>t DEF RingTypes
    <3> QED BY <3>1, CountsOne DEF Missed
  <2>c. /\ Contents \in Seq(Packet) /\ Len(Contents) = Used
        /\ \A i \in 1..Used : Contents[i] = slot[Index(tail + i - 1)]
    BY <2>t, ContentsAre DEF RoomInv
  <2>u. /\ Used \in Nat /\ tail \in Nat
        /\ Index(head) \in 0..(Capacity - 1) /\ Index(tail) \in 0..(Capacity - 1)
    BY <2>t, UsedIsNat, Sizes DEF RingTypes, Counter
  <2>1. CASE LoadOwnHead(P) \/ CountProcessed(C) \/ LoadOwnTail(C) \/ LoadHead(C)
             \/ ReadData(C) \/ ReadStamp(C)
    <3>1. UNCHANGED <<head, tail, slot, delivered, dropped>>
      BY <2>1 DEF LoadOwnHead, CountProcessed, LoadOwnTail, LoadHead, ReadData, ReadStamp,
                  counters, results
    <3>2. pc'[P] = "drop" <=> pc[P] = "drop"
      BY <2>1, <2>t DEF LoadOwnHead, CountProcessed, LoadOwnTail, LoadHead, ReadData, ReadStamp,
                  Step, RingTypes
    <3>3. Missed' = Missed
      BY <2>m, <2>n, <3>1, <3>2
    <3>4. Contents' = Contents
      BY <3>1 DEF Contents, Used
    <3> QED BY <3>1, <3>3, <3>4
  <2>2. CASE LoadTail(P)
    <3>1. UNCHANGED <<head, tail, slot, delivered, dropped>> /\ pc[P] = "tail" /\ mine[P] = head
      BY <2>2, <2>t DEF LoadTail, counters, results, Step, RoomInv
    <3>2. pc'[P] = IF Full(head, tail) THEN "drop" ELSE "data"
      BY <2>2, <2>t, <3>1 DEF LoadTail, Step, RingTypes
    <3>4. Contents' = Contents
      BY <3>1 DEF Contents, Used
    <3>5. CASE Full(head, tail)
      <4>1. Used = Capacity
        BY <3>5, <2>t, <2>u, Sizes DEF Full, Used, RoomInv
      <4>2. Missed' = Missed + 1
        BY <2>m, <2>n, <3>1, <3>2, <3>5
      <4>3. Fifo!TurnAway
        BY <2>c, <3>1, <3>4, <4>1, <4>2 DEF Fifo!TurnAway, Missed
      <4> QED BY <4>3 DEF Fifo!FifoNext
    <3>6. CASE ~Full(head, tail)
      <4>1. Missed' = Missed
        BY <2>m, <2>n, <3>1, <3>2, <3>6
      <4> QED BY <3>1, <3>4, <4>1
    <3> QED BY <3>5, <3>6
  <2>3. CASE CountDrop(P)
    <3>1. /\ UNCHANGED <<head, tail, slot, delivered>> /\ dropped' = dropped + 1
          /\ pc[P] = "drop" /\ pc'[P] = "idle"
      BY <2>3, <2>t DEF CountDrop, results, Step, RingTypes
    <3>2. Missed' = Missed
      BY <2>m, <2>n, <3>1
    <3>3. Contents' = Contents
      BY <3>1 DEF Contents, Used
    <3> QED BY <3>1, <3>2, <3>3
  <2>4. CASE WriteData(P) \/ WriteStamp(P)
    <3>1. /\ UNCHANGED <<head, tail, delivered, dropped>> /\ pc[P] \in Writing /\ pc'[P] # "drop"
          /\ mine[P] = head /\ pc[P] # "drop"
      BY <2>4, <2>t DEF WriteData, WriteStamp, counters, results, Step, RingTypes, RoomInv, Writing
    <3>2. Used < Capacity
      BY <3>1, <2>t DEF RoomInv
    <3>3. ASSUME NEW j \in 0..(Capacity - 1), j # Index(head)
          PROVE  slot'[j] = slot[j]
      BY <2>4, <2>t, <2>u, <3>1, <3>3 DEF WriteData, WriteStamp, RingTypes
    <3>4. ASSUME NEW i \in 1..Used
          PROVE  slot'[Index(tail + i - 1)] = slot[Index(tail + i - 1)]
      <4>1. i - 1 \in 0..(Used - 1) /\ tail + (i - 1) = tail + i - 1 /\ tail + i - 1 \in Nat
        BY <2>u
      <4>2. Index(tail + (i - 1)) # Index(head)
        BY <2>t, <3>2, <4>1, WrittenIsApart DEF RingTypes
      <4>3. Index(tail + i - 1) \in 0..(Capacity - 1)
        BY <4>1, IndexInRange
      <4> QED BY <3>3, <4>1, <4>2, <4>3
    <3>5. Used' = Used
      BY <3>1 DEF Used
    <3>6. Contents' = Contents
      BY <3>1, <3>4, <3>5 DEF Contents
    <3>7. Missed' = Missed
      BY <2>m, <2>n, <3>1
    <3> QED BY <3>1, <3>6, <3>7
  <2>5. CASE StoreHead(P)
    <3>1. /\ UNCHANGED <<delivered, dropped>> /\ pc[P] = "publish" /\ pc'[P] = "idle"
      BY <2>5, <2>t DEF StoreHead, Step, RingTypes
    <3>2. PICK k \in 1..MaxPackets : packet[P] = Intact(k)
      BY <2>t, <3>1 DEF RoomInv
    <3>3. Used < Capacity /\ Contents' = Append(Contents, packet[P])
      BY <2>5, PublishPuts
    <3>4. Missed' = Missed
      BY <2>m, <2>n, <3>1
    <3>5. Fifo!Put(packet[P])
      BY <2>c, <3>1, <3>3, <3>4 DEF Fifo!Put, Missed
    <3> QED BY <3>2, <3>5 DEF Fifo!FifoNext
  <2>6. CASE StoreTail(C)
    <3>1. /\ dropped' = dropped /\ delivered' = Append(delivered, packet[C]) /\ pc'[P] = pc[P]
      BY <2>6, <2>t DEF StoreTail, Step, RingTypes
    <3>2. Contents # <<>> /\ packet[C] = Head(Contents) /\ Contents' = Tail(Contents)
      BY <2>6, ReleaseGets
    <3>3. Missed' = Missed
      BY <2>m, <2>n, <3>1
    <3>4. Fifo!Get
      BY <3>1, <3>2, <3>3 DEF Fifo!Get, Missed
    <3> QED BY <3>4 DEF Fifo!FifoNext
  <2>7. CASE UNCHANGED vars
    BY <2>7 DEF vars, counters, results, Contents, Used, Missed
  <2> QED BY <2>1, <2>2, <2>3, <2>4, <2>5, <2>6, <2>7 DEF Next, Enqueue, Dequeue
<1>4. RingInv(P, C) /\ RingInv(P, C)' /\ [Next]_vars
        => [Fifo!FifoNext]_<<Contents, delivered,
             dropped + Cardinality({p \in Producer : pc[p] = "drop"})>>
  BY <1>3 DEF Missed
<1> QED BY <1>1, <1>2, <1>4, PTL DEF Spec, ImplementsFifo, Fifo!FifoSpec
=============================================================================
