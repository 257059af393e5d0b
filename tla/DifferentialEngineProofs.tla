----------------------- MODULE DifferentialEngineProofs ----------------------
(***************************************************************************)
(* The safety properties of the line differential protection, for every    *)
(* number of runners, size of the buffers, currents of the faults, ratio   *)
(* of the transformers and length of the engine's queue.                   *)
(***************************************************************************)
EXTENDS DifferentialEngine, SequenceTheorems, WellFoundedInduction, TLAPS

Step   == {"M", "N", "lock", "decide", "handle"}
Sample == [n : Nat, k : 0..3, condition : Condition]
Entry  == [n : Nat, by : Pusher, k : 0..3, condition : Condition, value : Int]

(* The steps of evaluate() stay together: what is left of a push never     *)
(* begins a run of them in the middle unless the push itself is there.     *)
StepsOK(s) ==
  /\ s \in Seq(Step)
  /\ \A i \in 1..Len(s) :
       /\ s[i] = "lock" => i + 2 <= Len(s) /\ s[i + 1] = "decide" /\ s[i + 2] = "handle"
       /\ s[i] = "decide" => i + 1 <= Len(s) /\ s[i + 1] = "handle"
       /\ s[i] = "decide" /\ i > 1 => s[i - 1] = "lock"
       /\ s[i] = "handle" /\ i > 1 => s[i - 1] = "decide"

(* A runner at its select has pushed its last sample.                      *)
SourceInv ==
  /\ condition \in Condition
  /\ idx \in [Pusher -> 0..3]
  /\ run \in [Runner -> {"off", "loop", "select"}]
  /\ \A r \in Runner : run[r] = "select" => todo[r] = <<>>

TypeInv ==
  /\ samples \in Nat
  /\ line \in BOOLEAN /\ dp \in [trip : BOOLEAN, mu : Pusher \union {"free"}]
  /\ DOMAIN side = Side
  /\ recent \in [Side -> Seq(Entry)]
  /\ todo \in [Pusher -> Seq(Step)] /\ \A p \in Pusher : StepsOK(todo[p])
  /\ sample \in [Pusher -> Sample]
  /\ seen \in [Pusher -> [Side -> [phasor : [re : Int, im : Int], from : Seq(Entry)]]]
  /\ decided \in [Pusher -> BOOLEAN]
  /\ events \in Seq(BOOLEAN) /\ node \in BOOLEAN /\ lost \in BOOLEAN

(* Nobody evaluates a line that was not added.                             *)
IdleInv == ~line => events = <<>> /\ ~dp.trip /\ \A p \in Pusher : todo[p] = <<>>

(* dp.mu is held by exactly the one who is between "lock" and the end of   *)
(* the handler ...                                                         *)
Deciding(p) == At(p, "decide") \/ At(p, "handle")
LockInv == \A p \in Pusher : dp.mu = p <=> Deciding(p)

(* ... so that what was queued last is the result of the last decision but *)
(* while that one's handler is still to come.                              *)
LastResult == IF events = <<>> THEN node ELSE events[Len(events)]
Handling   == \E p \in Pusher : At(p, "handle")
ResultInv  == line /\ ~Handling /\ ~lost => LastResult = dp.trip

(* A side's buffer has the samples of the last cycle right behind its      *)
(* write index, counted around its end.                                    *)
BehindIndex(b, j) == IF b.writeIndex >= j THEN b.writeIndex - j
                     ELSE b.writeIndex - j + BufferSize
BufferOK(b) ==
  /\ b \in [cell : [0..(BufferSize - 1) -> Int], writeIndex : 0..(BufferSize - 1),
            full : BOOLEAN]
Holds(b, window) ==
  /\ Len(window) \in 0..SamplesPerCycle
  /\ Len(window) < SamplesPerCycle => ~b.full /\ b.writeIndex = Len(window)
  /\ Len(window) = SamplesPerCycle => b.full \/ b.writeIndex >= SamplesPerCycle
  /\ \A i \in 1..Len(window) :
       b.cell[BehindIndex(b, Len(window) - i + 1)] = window[i].value

Phasors == [re : Int, im : Int]
WindowPhasor(window) == ComputePhasor([i \in DOMAIN window |-> window[i].value])
SideOK(z, window) ==
  /\ BufferOK(z.buf) /\ Holds(z.buf, window)
  /\ z.phasor \in Phasors
  /\ Len(window) = SamplesPerCycle => z.phasor = WindowPhasor(window)
BufferInv == \A s \in Side : SideOK(side[s], recent[s])

(* A window has what the current of its samples was at its side ...        *)
WaveOf(s, window) ==
  \A i \in 1..Len(window) :
    window[i].value = GenerateSineWave(Current(window[i].condition, s), window[i].k)
WaveInv == \A s \in Side : WaveOf(s, recent[s])

(* ... and a sample is told from all others by its number.                 *)
Stamp(e)       == [n |-> e.n, k |-> e.k, condition |-> e.condition]
Stamps(window) == {Stamp(window[i]) : i \in 1..Len(window)}
Known == {a \in Sample : \/ \E p \in Pusher : a = sample[p]
                         \/ \E s \in Side : a \in Stamps(recent[s])
                         \/ \E p \in Pusher, s \in Side : a \in Stamps(seen[p][s].from)}
Numbered(known, top) == /\ known \subseteq Sample
                        /\ \A a \in known : a.n <= top
                        /\ \A a, b \in known : a.n = b.n => a = b
SampleInv == Numbered(Known, samples)

(* What evaluate() has read is a cycle of a side and its phasor, and the   *)
(* decision is the one that follows from the two.                          *)
Cycle(read, s) == /\ Len(read.from) = SamplesPerCycle
                  /\ WaveOf(s, read.from)
                  /\ read.phasor = WindowPhasor(read.from)
Decision(m, n) == CheckRestraint(Idiff(m.phasor, n.phasor), Ires(m.phasor, n.phasor))
ReadAt(p) ==
  /\ At(p, "decide") => Cycle(seen[p]["M"], "M") /\ Len(recent["N"]) = SamplesPerCycle
  /\ At(p, "handle") => /\ Cycle(seen[p]["M"], "M") /\ Cycle(seen[p]["N"], "N")
                        /\ dp.trip = Decision(seen[p]["M"], seen[p]["N"])
                        /\ decided[p] = dp.trip
ReadInv == \A p \in Pusher : ReadAt(p)

DifferentialInv == /\ SourceInv /\ TypeInv /\ IdleInv /\ LockInv /\ ResultInv
                   /\ BufferInv /\ WaveInv /\ SampleInv /\ ReadInv
-----------------------------------------------------------------------------
(* The ring buffer of a channel.                                           *)
LEMMA Sizes ==
  /\ BufferSize \in Nat /\ BufferSize >= 4 /\ SamplesPerCycle = 4
  /\ CTRatio \in Nat /\ EventBuffer \in Nat
BY PhasorAssumption, DifferentialAssumption DEF BufferSize, SamplesPerCycle

LEMMA SmallMod ==
  ASSUME NEW B \in Nat \ {0}, NEW x \in 0..(2 * B - 1)
  PROVE  (x < B => x % B = x) /\ (x >= B => x % B = x - B)
OBVIOUS

(* u is b after a push of v.                                               *)
Pushed(b, v, u) ==
  /\ BufferOK(u)
  /\ b.writeIndex = BufferSize - 1 => u.writeIndex = 0
  /\ b.writeIndex # BufferSize - 1 => u.writeIndex = b.writeIndex + 1
  /\ u.full <=> b.full \/ u.writeIndex = 0
  /\ u.cell[b.writeIndex] = v
  /\ \A x \in 0..(BufferSize - 1) : x # b.writeIndex => u.cell[x] = b.cell[x]

LEMMA PushIs ==
  ASSUME NEW b, BufferOK(b), NEW v \in Int
  PROVE  Pushed(b, v, Push(b, v))
<1>0. PICK u : u = Push(b, v)
  OBVIOUS
<1>1. b.writeIndex \in 0..(BufferSize - 1) /\ b.full \in BOOLEAN
      /\ b.cell \in [0..(BufferSize - 1) -> Int]
  BY DEF BufferOK
<1>2. PICK w : w = (b.writeIndex + 1) % BufferSize
  OBVIOUS
<1>3. /\ w \in 0..(BufferSize - 1)
      /\ b.writeIndex = BufferSize - 1 => w = 0
      /\ b.writeIndex # BufferSize - 1 => w = b.writeIndex + 1
  <2>1. PICK B \in Nat \ {0} : B = BufferSize /\ B >= 4
    BY Sizes
  <2>2. PICK x \in 0..(B - 1) : x = b.writeIndex
    BY <1>1, <2>1
  <2>3. PICK z \in 0..(2 * B - 1) : z = x + 1
    BY <2>1, <2>2
  <2>4. (z < B => z % B = z) /\ (z >= B => z % B = z - B)
    BY SmallMod, Zenon
  <2>5. w = z % B
    BY <1>2, <2>1, <2>2, <2>3
  <2> QED BY <2>1, <2>2, <2>3, <2>4, <2>5
<1>4. u = [cell |-> [b.cell EXCEPT ![b.writeIndex] = v],
           writeIndex |-> w, full |-> b.full \/ w = 0]
  BY <1>0, <1>2 DEF Push
<1>5. /\ u.writeIndex = w /\ u.full = (b.full \/ w = 0)
      /\ u.cell = [b.cell EXCEPT ![b.writeIndex] = v]
  BY <1>4
<1>6. [b.cell EXCEPT ![b.writeIndex] = v] \in [0..(BufferSize - 1) -> Int]
  BY <1>1
<1>7. (b.full \/ w = 0) \in BOOLEAN
  OBVIOUS
<1>8. BufferOK(u)
  BY <1>3, <1>4, <1>6, <1>7 DEF BufferOK
<1> QED BY <1>0, <1>1, <1>3, <1>5, <1>8 DEF Pushed

(* c is the last cycle of the window w and the entry e.                    *)
Moved(w, e, c) ==
  /\ c \in Seq(Entry)
  /\ Len(w) < 4 => Len(c) = Len(w) + 1
  /\ Len(w) = 4 => Len(c) = 4
  /\ c[Len(c)] = e
  /\ \A i \in 1..(Len(c) - 1) : c[i] = w[i + (Len(w) + 1 - Len(c))]

LEMMA LastCycleIs ==
  ASSUME NEW w \in Seq(Entry), NEW e \in Entry, Len(w) \in 0..4
  PROVE  Moved(w, e, LastCycle(Append(w, e)))
<1>0. PICK c : c = LastCycle(Append(w, e))
  OBVIOUS
<1>1. PICK a : a = Append(w, e)
  OBVIOUS
<1>2. /\ a \in Seq(Entry) /\ Len(a) = Len(w) + 1 /\ a[Len(w) + 1] = e
      /\ \A i \in 1..Len(w) : a[i] = w[i]
  BY <1>1, AppendProperties
<1>3. \A i \in 1..Len(a) : a[i] \in Entry
  BY <1>2
<1>4. PICK m \in {1, 2} : (Len(w) < 4 => m = 1) /\ (Len(w) = 4 => m = 2)
  <2>1. PICK l \in 0..4 : l = Len(w)
    OBVIOUS
  <2>2. \E m \in {1, 2} : (l < 4 => m = 1) /\ (l = 4 => m = 2)
    <3>1. CASE l < 4
      BY <3>1
    <3>2. CASE l = 4
      BY <3>2
    <3> QED BY <3>1, <3>2
  <2> QED BY <2>1, <2>2
<1>5. Max({1, Len(a) - SamplesPerCycle + 1}) = m
  <2>1. Len(a) - SamplesPerCycle + 1 = Len(w) - 2
    BY <1>2, Sizes
  <2>2. PICK l \in -2..2 : l = Len(w) - 2
    OBVIOUS
  <2>3. (l < 2 => m = 1) /\ (l = 2 => m = 2)
    BY <2>2, <1>4
  <2>4. m \in {1, l} /\ \A y \in {1, l} : m >= y
    BY <2>3
  <2>5. \A x \in {1, l} : (\A y \in {1, l} : x >= y) => x = m
    BY <2>3
  <2> QED BY <2>1, <2>2, <2>4, <2>5 DEF Max
<1>6. c = SubSeq(a, m, Len(a))
  BY <1>0, <1>1, <1>5 DEF LastCycle
<1>8. Len(a) \in Int /\ \A i \in m..Len(a) : a[i] \in Entry
  BY <1>2, <1>3, <1>4
<1>9. /\ c \in Seq(Entry) /\ (m <= Len(a) => Len(c) = Len(a) - m + 1)
      /\ \A i \in 1..(Len(a) - m + 1) : c[i] = a[m + i - 1]
  BY <1>6, <1>8, SubSeqProperties
<1>10. (Len(w) < 4 => Len(c) = Len(w) + 1) /\ (Len(w) = 4 => Len(c) = 4)
       /\ Len(c) = Len(a) - m + 1
  BY <1>9, <1>2, <1>4
<1>11. c[Len(c)] = e
  <2>1. Len(c) \in 1..(Len(a) - m + 1) /\ m + Len(c) - 1 = Len(w) + 1
    BY <1>2, <1>4, <1>10
  <2> QED BY <2>1, <1>9, <1>2
<1>12. ASSUME NEW i \in 1..(Len(c) - 1)
       PROVE  c[i] = w[i + (Len(w) + 1 - Len(c))]
  <2>1. /\ i \in 1..(Len(a) - m + 1) /\ m + i - 1 \in 1..Len(w)
        /\ m + i - 1 = i + (Len(w) + 1 - Len(c))
    BY <1>2, <1>4, <1>10
  <2> QED BY <2>1, <1>9, <1>2
<1> QED BY <1>0, <1>9, <1>10, <1>11, <1>12 DEF Moved

LEMMA BehindInRange ==
  ASSUME NEW b, BufferOK(b), NEW j \in 1..4
  PROVE  BehindIndex(b, j) \in 0..(BufferSize - 1)
BY Sizes DEF BufferOK, BehindIndex

(* A push puts the new value right behind the index, and the others one    *)
(* place further.                                                          *)
LEMMA BehindAfterPush ==
  ASSUME NEW b, BufferOK(b), NEW v \in Int, NEW u, u = Push(b, v)
  PROVE  /\ BehindIndex(u, 1) = b.writeIndex
         /\ \A j \in 1..3 : /\ BehindIndex(u, j + 1) = BehindIndex(b, j)
                            /\ BehindIndex(b, j) # b.writeIndex
<1>1. PICK B \in Nat : B = BufferSize /\ B >= 4
  BY Sizes
<1>2. PICK x \in 0..(B - 1) : x = b.writeIndex
  BY <1>1 DEF BufferOK
<1>3. PICK y \in 0..(B - 1) : /\ y = u.writeIndex
                              /\ x = B - 1 => y = 0
                              /\ x # B - 1 => y = x + 1
  <2>1. PICK y : y = u.writeIndex
    OBVIOUS
  <2>2. (x = B - 1 => y = 0) /\ (x # B - 1 => y = x + 1)
    <3>1. Pushed(b, v, u)
      BY PushIs, Zenon
    <3> QED BY <3>1, <2>1, <1>1, <1>2 DEF Pushed
  <2> QED BY <2>1, <2>2, <1>1
<1>4. BehindIndex(u, 1) = x
  BY <1>1, <1>3 DEF BehindIndex
<1>5. ASSUME NEW j \in 1..3
      PROVE  BehindIndex(u, j + 1) = BehindIndex(b, j) /\ BehindIndex(b, j) # x
  BY <1>1, <1>2, <1>3 DEF BehindIndex
<1> QED BY <1>2, <1>4, <1>5

LEMMA PushHolds ==
  ASSUME NEW b, BufferOK(b), NEW w \in Seq(Entry), Holds(b, w), NEW e \in Entry
  PROVE  Holds(Push(b, e.value), LastCycle(Append(w, e)))
<1>1. PICK c : c = LastCycle(Append(w, e))
  OBVIOUS
<1>0. PICK v \in Int : v = e.value
  BY DEF Entry
<1>2. PICK u : u = Push(b, v)
  OBVIOUS
<1>3. PICK L \in 0..4 : L = Len(w)
  BY Sizes DEF Holds
<1>5. /\ c \in Seq(Entry) /\ c[Len(c)] = e
      /\ Len(w) < 4 => Len(c) = Len(w) + 1
      /\ Len(w) = 4 => Len(c) = 4
      /\ \A i \in 1..(Len(c) - 1) : c[i] = w[i + (Len(w) + 1 - Len(c))]
  <2>1. Len(w) \in 0..4 /\ w \in Seq(Entry) /\ e \in Entry
    BY <1>3
  <2>2. Moved(w, e, c)
    BY <2>1, <1>1, LastCycleIs, Zenon
  <2> QED BY <2>2 DEF Moved
<1>6. PICK K \in 1..4 : /\ K = Len(c) /\ (L < 4 => K = L + 1) /\ (L = 4 => K = 4)
  <2>1. PICK K : K = Len(c)
    OBVIOUS
  <2>2. (L < 4 => K = L + 1) /\ (L = 4 => K = 4)
    BY <2>1, <1>3, <1>5
  <2>3. K \in 1..4
    BY <2>2
  <2> QED BY <2>1, <2>2, <2>3
<1>7. /\ BufferOK(u)
      /\ b.writeIndex = BufferSize - 1 => u.writeIndex = 0
      /\ b.writeIndex # BufferSize - 1 => u.writeIndex = b.writeIndex + 1
      /\ u.full <=> b.full \/ u.writeIndex = 0
      /\ u.cell[b.writeIndex] = v
      /\ \A x \in 0..(BufferSize - 1) : x # b.writeIndex => u.cell[x] = b.cell[x]
  <2>1. Pushed(b, v, u)
    BY <1>2, PushIs, Zenon
  <2> QED BY <2>1 DEF Pushed
<1>8. /\ BehindIndex(u, 1) = b.writeIndex
      /\ \A j \in 1..3 : /\ BehindIndex(u, j + 1) = BehindIndex(b, j)
                         /\ BehindIndex(b, j) # b.writeIndex
  BY <1>2, BehindAfterPush, Zenon
<1>9. /\ K < 4 => ~u.full /\ u.writeIndex = K
      /\ K = 4 => u.full \/ u.writeIndex >= 4
  <2>1. PICK B \in Nat : B = BufferSize /\ B >= 4
    BY Sizes
  <2>2. PICK x \in 0..(B - 1) : x = b.writeIndex
    BY <2>1 DEF BufferOK
  <2>3. PICK y : y = u.writeIndex
    OBVIOUS
  <2>4. (x = B - 1 => y = 0) /\ (x # B - 1 => y = x + 1)
    BY <2>1, <2>2, <2>3, <1>7
  <2>5. (L < 4 => ~b.full /\ x = L) /\ (L = 4 => b.full \/ x >= 4)
    BY <2>2, <1>3, Sizes DEF Holds
  <2>6. u.full <=> b.full \/ y = 0
    BY <2>3, <1>7
  <2>7. CASE L < 4
    <3>1. ~b.full /\ x = L /\ K = L + 1
      BY <2>5, <2>7, <1>6
    <3>2. CASE x = B - 1
      BY <3>1, <3>2, <2>1, <2>3, <2>4, <2>6, <2>7
    <3>3. CASE x # B - 1
      BY <3>1, <3>3, <2>1, <2>3, <2>4, <2>6, <2>7
    <3> QED BY <3>2, <3>3
  <2>8. CASE L = 4
    <3>1. (b.full \/ x >= 4) /\ K = 4
      BY <2>5, <2>8, <1>6
    <3>2. CASE x = B - 1
      BY <3>1, <3>2, <2>3, <2>4, <2>6
    <3>3. CASE x # B - 1
      BY <3>1, <3>3, <2>3, <2>4, <2>6
    <3> QED BY <3>2, <3>3
  <2> QED BY <2>7, <2>8
<1>10. ASSUME NEW i \in 1..K
       PROVE  u.cell[BehindIndex(u, K - i + 1)] = c[i].value
  <2>1. CASE i = K
    <3>1. K - i + 1 = 1
      BY <2>1
    <3> QED BY <3>1, <2>1, <1>0, <1>5, <1>6, <1>7, <1>8
  <2>2. CASE i # K
    <3>1. PICK j \in 1..3 : j = K - i
      BY <2>2
    <3>0. PICK k : k = i + (L + 1 - K)
      OBVIOUS
    <3>2. k \in 1..L /\ k = i + (L + 1 - K) /\ j = L - k + 1
      <4>1. CASE L < 4
        BY <4>1, <3>0, <3>1, <2>2, <1>6
      <4>2. CASE L = 4
        BY <4>2, <3>0, <3>1, <2>2, <1>6
      <4> QED BY <4>1, <4>2
    <3>3. c[i] = w[k]
      <4>1. i \in 1..(K - 1)
        BY <2>2
      <4> QED BY <4>1, <3>2, <1>3, <1>5, <1>6
    <3>4. b.cell[BehindIndex(b, j)] = w[k].value
      BY <3>2, <1>3 DEF Holds
    <3>5. u.cell[BehindIndex(b, j)] = b.cell[BehindIndex(b, j)]
      <4>1. j \in 1..4
        BY <3>1
      <4>2. BehindIndex(b, j) \in 0..(BufferSize - 1)
        BY <4>1, BehindInRange, Zenon
      <4> QED BY <4>2, <3>1, <1>7, <1>8, Zenon
    <3>6. K - i + 1 = j + 1
      BY <3>1
    <3> QED BY <3>1, <3>3, <3>4, <3>5, <3>6, <1>8
  <2> QED BY <2>1, <2>2
<1>11. Holds(u, c)
  <2>1. Len(c) \in 0..4
    BY <1>6
  <2>2. \A i \in 1..Len(c) : u.cell[BehindIndex(u, Len(c) - i + 1)] = c[i].value
    BY <1>6, <1>10
  <2> QED BY <2>1, <2>2, <1>6, <1>9, Sizes DEF Holds
<1> QED BY <1>0, <1>1, <1>2, <1>11

(* With a whole cycle in it, the buffer gives it back in order.            *)
LEMMA CycleOfBuffer ==
  ASSUME NEW b, BufferOK(b), NEW w \in Seq(Entry), Holds(b, w)
  PROVE  /\ (AvailableSamples(b) >= SamplesPerCycle) <=> Len(w) = 4
         /\ Len(w) = 4 => ComputePhasor(GetLastN(b, SamplesPerCycle)) = WindowPhasor(w)
<1>1. b.writeIndex \in 0..(BufferSize - 1) /\ b.full \in BOOLEAN
  BY DEF BufferOK
<1>2. (AvailableSamples(b) >= SamplesPerCycle) <=> Len(w) = 4
  <2>1. AvailableSamples(b) = IF b.full THEN BufferSize ELSE b.writeIndex
    BY DEF AvailableSamples
  <2>2. PICK L \in 0..4 : L = Len(w)
    BY Sizes DEF Holds
  <2>3. /\ L < 4 => ~b.full /\ b.writeIndex = L
        /\ L = 4 => b.full \/ b.writeIndex >= 4
    BY <2>2, Sizes DEF Holds
  <2>4. (AvailableSamples(b) >= SamplesPerCycle) <=> L = 4
    BY <2>1, <2>3, <1>1, Sizes
  <2> QED BY <2>2, <2>4
<1>3. ASSUME Len(w) = 4, NEW i \in 1..4
      PROVE  GetLastN(b, 4)[i] = w[i].value
  <2>1. PICK B \in Nat : B = BufferSize /\ B >= 4
    BY Sizes
  <2>2. PICK x \in 0..(B - 1) : x = b.writeIndex
    BY <1>1, <2>1
  <2>3. PICK z \in 0..(2 * B - 1) : z = x - 4 + B
    BY <2>1, <2>2
  <2>0. B \in Nat \ {0}
    BY <2>1
  <2>4. (z < B => z % B = z) /\ (z >= B => z % B = z - B)
    BY <2>0, SmallMod, Zenon
  <2>5. PICK y : y = z % B
    OBVIOUS
  <2>6. y \in 0..(B - 1) /\ (x < 4 => y = x - 4 + B) /\ (x >= 4 => y = x - 4)
    <3>1. (z < B => y = z) /\ (z >= B => y = z - B)
      BY <2>4, <2>5
    <3> QED BY <3>1, <2>1, <2>3
  <2>7. PICK t \in 0..(2 * B - 1) : t = y + i - 1
    BY <2>1, <2>6
  <2>10. (t < B => t % B = t) /\ (t >= B => t % B = t - B)
    BY <2>0, SmallMod, Zenon
  <2>11. PICK g : g = t % B
    OBVIOUS
  <2>12. (x < 5 - i => g = x - (5 - i) + B) /\ (x >= 5 - i => g = x - (5 - i))
    <3>1. (t < B => g = t) /\ (t >= B => g = t - B)
      BY <2>10, <2>11
    <3>2. CASE x < 4
      <4>1. t = x + B + i - 5
        BY <3>2, <2>2, <2>6, <2>7
      <4>2. CASE x < 5 - i
        BY <4>1, <4>2, <3>1, <2>1
      <4>3. CASE x >= 5 - i
        BY <4>1, <4>3, <3>1, <2>1
      <4> QED BY <4>2, <4>3
    <3>3. CASE x >= 4
      <4>1. t = x + i - 5
        BY <3>3, <2>2, <2>6, <2>7
      <4> QED BY <4>1, <3>1, <3>3, <2>1, <2>2
    <3> QED BY <3>2, <3>3, <2>2
  <2>8. (y + i - 1) % B = BehindIndex(b, 4 - i + 1)
    <3>1. 4 - i + 1 = 5 - i
      OBVIOUS
    <3>2. BehindIndex(b, 5 - i) = g
      BY <2>1, <2>2, <2>12 DEF BehindIndex
    <3> QED BY <3>1, <3>2, <2>7, <2>11
  <2>9. GetLastN(b, 4)[i] = b.cell[(y + i - 1) % B]
    BY <2>1, <2>2, <2>3, <2>5 DEF GetLastN, WindowStart
  <2> QED BY <2>8, <2>9, <1>3 DEF Holds
<1>4. ASSUME Len(w) = 4
      PROVE  ComputePhasor(GetLastN(b, 4)) = WindowPhasor(w)
  <2>1. \A i \in 1..4 : [j \in DOMAIN w |-> w[j].value][i] = w[i].value
    BY <1>4, LenProperties
  <2>2. \A i \in 1..4 : GetLastN(b, 4)[i] = w[i].value
    BY <1>3, <1>4
  <2> QED BY <2>1, <2>2 DEF WindowPhasor, ComputePhasor
<1> QED BY <1>2, <1>4, Sizes
-----------------------------------------------------------------------------
(* The steps of a push.                                                    *)
Undecided(s) == s = <<>> \/ Head(s) \notin {"decide", "handle"}

LEMMA HeadIs ==
  ASSUME NEW s \in Seq(Step), s # <<>>
  PROVE  Len(s) \in Nat \ {0} /\ Head(s) = s[1] /\ Head(s) \in Step
BY HeadTailProperties, LenProperties, EmptySeq

LEMMA SuffixOK ==
  ASSUME NEW s, StepsOK(s), NEW t \in Seq(Step), NEW k \in Nat,
         Len(t) = Len(s) - k, \A i \in 1..Len(t) : t[i] = s[i + k]
  PROVE  StepsOK(t)
<1>1. s \in Seq(Step) /\ Len(s) \in Nat /\ Len(t) \in Nat
  BY LenProperties DEF StepsOK
<1>2. ASSUME NEW i \in 1..Len(t)
      PROVE  /\ t[i] = "lock" => i + 2 <= Len(t) /\ t[i + 1] = "decide" /\ t[i + 2] = "handle"
             /\ t[i] = "decide" => i + 1 <= Len(t) /\ t[i + 1] = "handle"
             /\ t[i] = "decide" /\ i > 1 => t[i - 1] = "lock"
             /\ t[i] = "handle" /\ i > 1 => t[i - 1] = "decide"
  <2>1. i + k \in 1..Len(s) /\ t[i] = s[i + k]
    BY <1>1
  <2>2. /\ s[i + k] = "lock" => /\ i + k + 2 <= Len(s)
                               /\ s[i + k + 1] = "decide" /\ s[i + k + 2] = "handle"
        /\ s[i + k] = "decide" => i + k + 1 <= Len(s) /\ s[i + k + 1] = "handle"
        /\ s[i + k] = "decide" /\ i + k > 1 => s[i + k - 1] = "lock"
        /\ s[i + k] = "handle" /\ i + k > 1 => s[i + k - 1] = "decide"
    BY <2>1 DEF StepsOK
  <2>3. ASSUME t[i] = "lock"
        PROVE  i + 2 <= Len(t) /\ t[i + 1] = "decide" /\ t[i + 2] = "handle"
    <3>1. i + 1 \in 1..Len(t) /\ i + 2 \in 1..Len(t)
          /\ (i + 1) + k = i + k + 1 /\ (i + 2) + k = i + k + 2
      BY <2>1, <2>2, <2>3, <1>1
    <3> QED BY <3>1, <2>1, <2>2, <2>3
  <2>4. ASSUME t[i] = "decide"
        PROVE  i + 1 <= Len(t) /\ t[i + 1] = "handle"
    <3>1. i + 1 \in 1..Len(t) /\ (i + 1) + k = i + k + 1
      BY <2>1, <2>2, <2>4, <1>1
    <3> QED BY <3>1, <2>1, <2>2, <2>4
  <2>5. ASSUME i > 1
        PROVE  /\ t[i] = "decide" => t[i - 1] = "lock"
               /\ t[i] = "handle" => t[i - 1] = "decide"
    <3>1. i - 1 \in 1..Len(t) /\ (i - 1) + k = i + k - 1 /\ i + k > 1
      BY <2>5, <1>1
    <3> QED BY <3>1, <2>1, <2>2
  <2> QED BY <2>3, <2>4, <2>5
<1> QED BY <1>2 DEF StepsOK

(* "lock", "decide" and "handle" follow each other.                        *)
LEMMA TailOK ==
  ASSUME NEW s, StepsOK(s), s # <<>>
  PROVE  /\ StepsOK(Tail(s))
         /\ Head(s) = "lock" => Tail(s) # <<>> /\ Head(Tail(s)) = "decide"
         /\ Head(s) = "decide" => Tail(s) # <<>> /\ Head(Tail(s)) = "handle"
         /\ Head(s) \notin {"lock", "decide"} => Undecided(Tail(s))
<1>1. s \in Seq(Step) /\ Len(s) \in Nat \ {0} /\ Head(s) = s[1]
  BY HeadIs DEF StepsOK
<1>2. PICK t : t = Tail(s)
  OBVIOUS
<1>3. t \in Seq(Step) /\ Len(t) = Len(s) - 1 /\ \A i \in 1..Len(t) : t[i] = s[i + 1]
  BY <1>1, <1>2, HeadTailProperties
<1>4. StepsOK(t)
  BY <1>3, SuffixOK
<1>5. s[1] = "lock" => t # <<>> /\ Head(t) = "decide"
  <2> SUFFICES ASSUME s[1] = "lock" PROVE t # <<>> /\ Head(t) = "decide"
    OBVIOUS
  <2>1. 1 \in 1..Len(s)
    BY <1>1
  <2>2. 1 + 2 <= Len(s) /\ s[1 + 1] = "decide"
    BY <2>1 DEF StepsOK
  <2>3. t # <<>> /\ t[1] = "decide"
    BY <2>2, <1>1, <1>3
  <2> QED BY <2>3, <1>3, HeadIs
<1>6. s[1] = "decide" => t # <<>> /\ Head(t) = "handle"
  <2> SUFFICES ASSUME s[1] = "decide" PROVE t # <<>> /\ Head(t) = "handle"
    OBVIOUS
  <2>1. 1 \in 1..Len(s)
    BY <1>1
  <2>2. 1 + 1 <= Len(s) /\ s[1 + 1] = "handle"
    BY <2>1 DEF StepsOK
  <2>3. t # <<>> /\ t[1] = "handle"
    BY <2>2, <1>1, <1>3
  <2> QED BY <2>3, <1>3, HeadIs
<1>7. s[1] \notin {"lock", "decide"} => Undecided(t)
  <2> SUFFICES ASSUME s[1] \notin {"lock", "decide"}, t # <<>>
               PROVE  Head(t) \notin {"decide", "handle"}
    BY DEF Undecided
  <2>1. Head(t) = t[1] /\ Len(t) \in Nat \ {0}
    BY <1>3, HeadIs
  <2>2. t[1] = s[2] /\ 2 \in 1..Len(s)
    BY <2>1, <1>1, <1>3
  <2>3. /\ s[2] = "decide" /\ 2 > 1 => s[2 - 1] = "lock"
        /\ s[2] = "handle" /\ 2 > 1 => s[2 - 1] = "decide"
    BY <2>2 DEF StepsOK
  <2> QED BY <2>1, <2>2, <2>3
<1> QED BY <1>1, <1>2, <1>4, <1>5, <1>6, <1>7

(* What NotReady leaves.                                                   *)
LEMMA SkipOK ==
  ASSUME NEW s, StepsOK(s), s # <<>>, Head(s) = "lock"
  PROVE  /\ StepsOK(SubSeq(s, 4, Len(s)))
         /\ Undecided(SubSeq(s, 4, Len(s)))
<1>1. s \in Seq(Step) /\ Len(s) \in Nat \ {0} /\ s[1] = "lock"
  BY HeadIs DEF StepsOK
<1>2. 3 <= Len(s) /\ s[3] = "handle"
  <2>1. 1 \in 1..Len(s)
    BY <1>1
  <2>2. 1 + 2 <= Len(s) /\ s[1 + 2] = "handle"
    BY <2>1, <1>1 DEF StepsOK
  <2> QED BY <2>2
<1>3. PICK t : t = SubSeq(s, 4, Len(s))
  OBVIOUS
<1>4. \A i \in 4..Len(s) : s[i] \in Step
  BY <1>1
<1>5. t \in Seq(Step) /\ Len(t) = Len(s) - 3 /\ \A i \in 1..Len(t) : t[i] = s[i + 3]
  <2>1. /\ t \in Seq(Step) /\ Len(t) = IF 4 <= Len(s) THEN Len(s) - 4 + 1 ELSE 0
        /\ \A i \in 1..(Len(s) - 4 + 1) : t[i] = s[4 + i - 1]
    BY <1>1, <1>3, <1>4, SubSeqProperties
  <2>2. Len(t) = Len(s) - 3 /\ Len(s) - 4 + 1 = Len(s) - 3
    <3>1. PICK l \in Nat : l = Len(s) /\ l >= 3
      BY <1>1, <1>2
    <3>2. l = 3 \/ l >= 4
      BY <3>1
    <3>3. l = 3 => Len(t) = l - 3
      BY <3>1, <2>1
    <3>4. l >= 4 => Len(t) = l - 3
      BY <3>1, <2>1
    <3>5. Len(t) = l - 3 /\ l - 4 + 1 = l - 3
      BY <3>1, <3>2, <3>3, <3>4
    <3> QED BY <3>1, <3>5
  <2>3. \A i \in 1..Len(t) : t[i] = s[i + 3]
    <3> SUFFICES ASSUME NEW i \in 1..Len(t) PROVE t[i] = s[i + 3]
      OBVIOUS
    <3>1. i \in 1..(Len(s) - 4 + 1) /\ 4 + i - 1 = i + 3
      BY <2>2, <1>1
    <3> QED BY <3>1, <2>1
  <2> QED BY <2>1, <2>2, <2>3
<1>6. StepsOK(t)
  BY <1>5, SuffixOK
<1>7. ASSUME t # <<>> PROVE Head(t) \notin {"decide", "handle"}
  <2>1. Head(t) = t[1] /\ Len(t) \in Nat \ {0}
    BY <1>5, <1>7, HeadIs
  <2>2. t[1] = s[4] /\ 4 \in 1..Len(s)
    BY <2>1, <1>1, <1>5
  <2>3. /\ s[4] = "decide" /\ 4 > 1 => s[4 - 1] = "lock"
        /\ s[4] = "handle" /\ 4 > 1 => s[4 - 1] = "decide"
    BY <2>2 DEF StepsOK
  <2> QED BY <2>1, <2>2, <2>3, <1>2
<1> QED BY <1>3, <1>6, <1>7 DEF Undecided

Joins(a, m, b, n, c) ==
  /\ c \in Seq(Step) /\ Len(c) = m + n
  /\ \A i \in 1..m : c[i] = a[i]
  /\ \A i \in 1..n : c[m + i] = b[i]

LEMMA Joined ==
  ASSUME NEW a \in Seq(Step), NEW b \in Seq(Step), NEW m \in Nat, m = Len(a),
         NEW n \in Nat, n = Len(b), NEW c, c = a \o b
  PROVE  Joins(a, m, b, n, c)
<1>2. /\ c \in Seq(Step) /\ Len(c) = Len(a) + Len(b)
      /\ \A i \in 1..(Len(a) + Len(b)) : c[i] = IF i <= Len(a) THEN a[i] ELSE b[i - Len(a)]
  BY ConcatProperties
<1>3. Len(c) = m + n
  BY <1>2
<1>4. ASSUME NEW i \in 1..m PROVE c[i] = a[i]
  <2>1. i \in 1..(m + n) /\ i <= m
    OBVIOUS
  <2> QED BY <2>1, <1>2
<1>5. ASSUME NEW i \in 1..n PROVE c[m + i] = b[i]
  <2>1. m + i \in 1..(m + n) /\ ~(m + i <= m) /\ m + i - m = i
    OBVIOUS
  <2> QED BY <2>1, <1>2
<1> QED BY <1>2, <1>3, <1>4, <1>5 DEF Joins

LEMMA StartOK ==
  ASSUME NEW steps \in {<<>>, BothSides, OneByOne}
  PROVE  StepsOK(steps) /\ Undecided(steps)
<1>e. PICK e : e = EvaluateSteps
  OBVIOUS
<1>0. /\ e = EvaluateSteps /\ e \in Seq(Step) /\ 3 = Len(e)
      /\ e[1] = "lock" /\ e[2] = "decide" /\ e[3] = "handle"
  BY <1>e DEF EvaluateSteps, Step
<1>9. 1 \in Nat /\ 2 \in Nat /\ 3 \in Nat /\ 4 \in Nat /\ 5 \in Nat
  OBVIOUS
<1>1. /\ BothSides \in Seq(Step) /\ Len(BothSides) = 5 /\ BothSides[1] = "M"
      /\ BothSides[2] = "N" /\ BothSides[3] = "lock" /\ BothSides[4] = "decide"
      /\ BothSides[5] = "handle"
  <2>0. PICK a : a = <<"M", "N">>
    OBVIOUS
  <2>1. a = <<"M", "N">> /\ a \in Seq(Step) /\ 2 = Len(a) /\ a[1] = "M" /\ a[2] = "N"
    BY <2>0 DEF Step
  <2>2. PICK c : c = a \o e
    OBVIOUS
  <2>3. Joins(a, 2, e, 3, c)
    BY <1>0, <1>9, <2>1, <2>2, Joined, Zenon
  <2>4. /\ c \in Seq(Step) /\ Len(c) = 5 /\ c[1] = "M" /\ c[2] = "N"
        /\ c[2 + 1] = "lock" /\ c[2 + 2] = "decide" /\ c[2 + 3] = "handle"
    BY <1>0, <2>1, <2>3 DEF Joins
  <2> QED BY <1>0, <2>1, <2>2, <2>4 DEF BothSides
<1>2. /\ OneByOne \in Seq(Step) /\ Len(OneByOne) = 8 /\ OneByOne[1] = "M"
      /\ OneByOne[2] = "lock" /\ OneByOne[3] = "decide" /\ OneByOne[4] = "handle"
      /\ OneByOne[5] = "N" /\ OneByOne[6] = "lock" /\ OneByOne[7] = "decide"
      /\ OneByOne[8] = "handle"
  <2>0. PICK m, n : m = <<"M">> /\ n = <<"N">>
    OBVIOUS
  <2>1. m = <<"M">> /\ m \in Seq(Step) /\ 1 = Len(m) /\ m[1] = "M"
    BY <2>0 DEF Step
  <2>2. n = <<"N">> /\ n \in Seq(Step) /\ 1 = Len(n) /\ n[1] = "N"
    BY <2>0 DEF Step
  <2>3. PICK a : a = m \o e
    OBVIOUS
  <2>4. Joins(m, 1, e, 3, a)
    BY <1>0, <1>9, <2>1, <2>3, Joined, Zenon
  <2>5. /\ a \in Seq(Step) /\ 4 = Len(a) /\ a[1] = "M"
        /\ a[1 + 1] = "lock" /\ a[1 + 2] = "decide" /\ a[1 + 3] = "handle"
    BY <1>0, <2>1, <2>4 DEF Joins
  <2>6. PICK b : b = a \o n
    OBVIOUS
  <2>7. Joins(a, 4, n, 1, b)
    BY <1>9, <2>2, <2>5, <2>6, Joined, Zenon
  <2>8. /\ b \in Seq(Step) /\ 5 = Len(b) /\ b[1] = "M" /\ b[2] = "lock"
        /\ b[3] = "decide" /\ b[4] = "handle" /\ b[4 + 1] = "N"
    BY <2>2, <2>5, <2>7 DEF Joins
  <2>9. PICK c : c = b \o e
    OBVIOUS
  <2>10. Joins(b, 5, e, 3, c)
    BY <1>0, <1>9, <2>8, <2>9, Joined, Zenon
  <2>11. /\ c \in Seq(Step) /\ Len(c) = 8 /\ c[1] = "M" /\ c[2] = "lock"
         /\ c[3] = "decide" /\ c[4] = "handle" /\ c[5] = "N" /\ c[5 + 1] = "lock"
         /\ c[5 + 2] = "decide" /\ c[5 + 3] = "handle"
    BY <1>0, <2>8, <2>10 DEF Joins
  <2>12. OneByOne = c
    BY <1>0, <2>1, <2>2, <2>3, <2>6, <2>9 DEF OneByOne
  <2> QED BY <2>11, <2>12
<1>3. CASE steps = <<>>
  BY <1>3 DEF StepsOK, Undecided
<1>4. CASE steps = BothSides
  BY <1>4, <1>1 DEF StepsOK, Undecided, Step
<1>5. CASE steps = OneByOne
  BY <1>5, <1>2 DEF StepsOK, Undecided, Step
<1> QED BY <1>3, <1>4, <1>5
-----------------------------------------------------------------------------
(* What a step of the system does to the pushes: nothing, begin one, or    *)
(* one of the steps of the pusher p.                                       *)
Starts == {<<>>, BothSides, OneByOne}
Begins(p, steps) ==
  /\ todo[p] = <<>> /\ (line \/ steps = <<>>)
  /\ samples' = samples + 1
  /\ todo' = [todo EXCEPT ![p] = steps]
  /\ sample' = [sample EXCEPT ![p] = [n |-> samples + 1, k |-> idx[p], condition |-> condition]]
  /\ UNCHANGED <<line, side, recent, seen, decided, outVars>>

Shown(s, buf) ==
  IF AvailableSamples(buf) >= SamplesPerCycle
  THEN ComputePhasor(GetLastN(buf, SamplesPerCycle)) ELSE side[s].phasor
Pushes(p, s, e) ==
  /\ At(p, s) /\ Done(p)
  /\ Stamp(e) = sample[p]
  /\ e.value = GenerateSineWave(Current(e.condition, s), e.k)
  /\ side' = [side EXCEPT ![s] = [buf |-> Push(side[s].buf, e.value),
                                 phasor |-> Shown(s, Push(side[s].buf, e.value))]]
  /\ recent' = [recent EXCEPT ![s] = LastCycle(Append(recent[s], e))]
  /\ UNCHANGED <<line, samples, sample, seen, decided, outVars>>

Calm == UNCHANGED <<line, pushVars, outVars>>
Effect == \/ Calm \/ AddLine \/ EngineLoop
          \/ \E p \in Pusher : \E steps \in Starts : Begins(p, steps)
          \/ \E p \in Pusher : \E s \in Side : \E e \in Entry : Pushes(p, s, e)
          \/ \E p \in Pusher : NotReady(p) \/ LockAndReadM(p) \/ ReadNAndDecide(p) \/ Handle(p)

LEMMA SineIs ==
  ASSUME NEW a \in Nat, NEW k \in 0..3
  PROVE  /\ GenerateSineWave(a, k) \in Int
         /\ k = 0 => GenerateSineWave(a, k) = 0
         /\ k = 1 => GenerateSineWave(a, k) = a
         /\ k = 2 => GenerateSineWave(a, k) = 0
         /\ k = 3 => GenerateSineWave(a, k) = -a
<1>1. k % 4 = k
  OBVIOUS
<1>2. GenerateSineWave(a, k) = a * Wave[k + 1]
  BY <1>1, Sizes DEF GenerateSineWave
<1>3. CASE k = 0
  BY <1>2, <1>3 DEF Wave
<1>4. CASE k = 1
  BY <1>2, <1>4 DEF Wave
<1>5. CASE k = 2
  BY <1>2, <1>5 DEF Wave
<1>6. CASE k = 3
  BY <1>2, <1>6 DEF Wave
<1> QED BY <1>3, <1>4, <1>5, <1>6

LEMMA CurrentIs ==
  ASSUME NEW c \in Condition, NEW s \in Side
  PROVE  /\ Current(c, s) \in Nat /\ c.current \in Nat
         /\ c.kind # "internal" => Current(c, "M") = Current(c, "N")
<1>1. CASE c = Load
  BY <1>1 DEF Load, Current
<1>2. CASE c \in [kind : {"internal", "through"}, current : FaultCurrent]
  <2>1. c.current \in Nat
    BY <1>2, DifferentialAssumption
  <2> QED BY <2>1 DEF Current
<1> QED BY <1>1, <1>2 DEF Condition

LEMMA PushSamplesIs ==
  ASSUME TypeInv, NEW p \in Pusher, NEW s \in Side, PushSamples(p, s)
  PROVE  \E e \in Entry : Pushes(p, s, e)
<1>1. PICK v : v = GenerateSineWave(Current(sample[p].condition, s), sample[p].k)
  OBVIOUS
<1>2. sample[p] \in Sample
  BY DEF TypeInv
<1>3. sample[p].n \in Nat /\ sample[p].k \in 0..3 /\ sample[p].condition \in Condition
      /\ sample[p] = [n |-> sample[p].n, k |-> sample[p].k, condition |-> sample[p].condition]
  BY <1>2 DEF Sample
<1>4. Current(sample[p].condition, s) \in Nat
  BY <1>3, CurrentIs
<1>5. v \in Int
  BY <1>1, <1>3, <1>4, SineIs
<1>6. PICK e : e = [n |-> sample[p].n, by |-> p, k |-> sample[p].k,
                    condition |-> sample[p].condition, value |-> v]
  OBVIOUS
<1>7. e \in Entry
  BY <1>3, <1>5, <1>6 DEF Entry
<1>8. Stamp(e) = sample[p] /\ e.value = v
      /\ e.value = GenerateSineWave(Current(e.condition, s), e.k)
  BY <1>1, <1>3, <1>6 DEF Stamp
<1>9. /\ At(p, s) /\ Done(p)
      /\ side' = [side EXCEPT ![s] = [buf |-> Push(side[s].buf, v),
                                     phasor |-> Shown(s, Push(side[s].buf, v))]]
      /\ recent' = [recent EXCEPT ![s] = LastCycle(Append(recent[s], e))]
      /\ UNCHANGED <<line, samples, sample, seen, decided, outVars>>
  BY <1>1, <1>6 DEF PushSamples, Shown
<1>10. Pushes(p, s, e)
  BY <1>8, <1>9 DEF Pushes
<1> QED BY <1>7, <1>10

LEMMA Effects ==
  ASSUME SourceInv, TypeInv, [Next]_vars
  PROVE  Effect
<1>1. CASE UNCHANGED vars
  BY <1>1 DEF Effect, Calm, vars, pushVars, outVars
<1>2. CASE AddLine \/ EngineLoop
  BY <1>2 DEF Effect
<1>3. CASE Change \/ StartSimulator \/ StopSimulator
  BY <1>3 DEF Effect, Calm, Change, StartSimulator, StopSimulator
<1>4. CASE FeedSample
  <2>1. Feed \in Pusher
    BY DEF Pusher
  <2>2. PICK steps \in Starts : Begin(Feed, steps)
    BY <1>4 DEF FeedSample, Starts
  <2>3. Begins(Feed, steps)
    BY <1>4, <2>2 DEF FeedSample, Begin, Begins
  <2> QED BY <2>1, <2>3 DEF Effect
<1>5. ASSUME NEW r \in Runner, EnterSelect(r) \/ ExitRunner(r)
      PROVE  Effect
  BY <1>5 DEF Effect, Calm, EnterSelect, ExitRunner
<1>6. ASSUME NEW r \in Runner, Tick(r)
      PROVE  Effect
  <2>1. r \in Pusher
    BY DEF Pusher
  <2>2. PICK steps : steps = IF line THEN BothSides ELSE <<>>
    OBVIOUS
  <2>3. steps \in Starts /\ (line \/ steps = <<>>)
    BY <2>2 DEF Starts
  <2>4. todo[r] = <<>>
    BY <1>6 DEF Tick, SourceInv
  <2>5. Begins(r, steps)
    BY <1>6, <2>2, <2>3, <2>4 DEF Tick, Begin, Begins
  <2> QED BY <2>1, <2>3, <2>5 DEF Effect
<1>7. ASSUME NEW p \in Pusher, Push1(p)
      PROVE  Effect
  <2>1. CASE \E s \in Side : PushSamples(p, s)
    BY <2>1, PushSamplesIs DEF Effect
  <2>2. CASE NotReady(p) \/ LockAndReadM(p) \/ ReadNAndDecide(p) \/ Handle(p)
    BY <2>2 DEF Effect
  <2> QED BY <1>7, <2>1, <2>2 DEF Push1
<1> QED BY <1>1, <1>2, <1>3, <1>4, <1>5, <1>6, <1>7 DEF Next, RunnerStep

(* The goroutines of the simulator.                                        *)
LEMMA SourceStep ==
  ASSUME SourceInv, TypeInv, [Next]_vars
  PROVE  SourceInv'
<1> USE DEF SourceInv
<1>0. \A x \in 0..3 : (x + 1) % SamplesPerCycle \in 0..3
  BY Sizes
<1>1. CASE UNCHANGED vars
  BY <1>1 DEF vars, simVars, pushVars
<1>2. CASE AddLine \/ EngineLoop
  BY <1>2 DEF AddLine, EngineLoop, simVars, pushVars
<1>3. CASE Change
  BY <1>3 DEF Change, simVars, pushVars
<1>4. CASE StartSimulator
  BY <1>4 DEF StartSimulator, pushVars, Pusher
<1>5. CASE StopSimulator
  BY <1>5 DEF StopSimulator, pushVars
<1>6. CASE FeedSample
  <2>1. idx' \in [Pusher -> 0..3]
    BY <1>0, <1>6 DEF FeedSample, Begin
  <2>2. \A r \in Runner : todo'[r] = todo[r]
    BY <1>6, DifferentialAssumption DEF FeedSample, Begin, TypeInv, Pusher
  <2> QED BY <1>6, <2>1, <2>2 DEF FeedSample
<1>7. ASSUME NEW r \in Runner, EnterSelect(r) \/ ExitRunner(r)
      PROVE  SourceInv'
  BY <1>7 DEF EnterSelect, ExitRunner, pushVars
<1>8. ASSUME NEW r \in Runner, Tick(r)
      PROVE  SourceInv'
  <2>1. idx' \in [Pusher -> 0..3]
    BY <1>0, <1>8 DEF Tick, Begin
  <2>2. \A q \in Runner : q # r => todo'[q] = todo[q]
    BY <1>8 DEF Tick, Begin, TypeInv, Pusher
  <2> QED BY <1>8, <2>1, <2>2 DEF Tick
<1>9. ASSUME NEW p \in Pusher, Push1(p)
      PROVE  SourceInv'
  <2>1. /\ todo[p] # <<>> /\ \A q \in Pusher : q # p => todo'[q] = todo[q]
        /\ UNCHANGED <<condition, simVars>>
    <3>1. CASE \E s \in Side : PushSamples(p, s)
      BY <3>1 DEF PushSamples, At, Done, TypeInv
    <3>2. CASE NotReady(p)
      BY <3>2 DEF NotReady, At, TypeInv
    <3>3. CASE LockAndReadM(p)
      BY <3>3 DEF LockAndReadM, At, Done, TypeInv
    <3>4. CASE ReadNAndDecide(p)
      BY <3>4 DEF ReadNAndDecide, At, Done, TypeInv
    <3>5. CASE Handle(p)
      BY <3>5 DEF Handle, At, Done, TypeInv
    <3> QED BY <1>9, <3>1, <3>2, <3>3, <3>4, <3>5 DEF Push1
  <2>2. \A r \in Runner : run[r] = "select" => todo'[r] = <<>>
    BY <2>1 DEF Pusher
  <2> QED BY <2>1, <2>2 DEF simVars
<1> QED BY <1>1, <1>2, <1>3, <1>4, <1>5, <1>6, <1>7, <1>8, <1>9 DEF Next, RunnerStep

LEMMA UpsertIs ==
  ASSUME events \in Seq(BOOLEAN), NEW value \in BOOLEAN, Upsert(value)
  PROVE  /\ events' \in Seq(BOOLEAN) /\ lost' \in BOOLEAN
         /\ ~lost' => events' # <<>> /\ events'[Len(events')] = value
<1>1. PICK l \in Nat, b \in Nat : l = Len(events) /\ b = EventBuffer
  BY Sizes, LenProperties
<1>2. /\ lost' = (l >= b)
      /\ l < b => events' = Append(events, value)
      /\ ~(l < b) => events' = events
  BY <1>1, Zenon DEF Upsert
<1>3. lost' \in BOOLEAN /\ (lost' <=> l >= b)
  <2>1. lost' = (l >= b)
    BY <1>2
  <2>2. (l >= b) \in BOOLEAN
    OBVIOUS
  <2>3. lost' \in BOOLEAN
    BY <2>1, <2>2
  <2> QED BY <2>1, <2>3
<1>4. Append(events, value) \in Seq(BOOLEAN) /\ Append(events, value) # <<>>
      /\ Append(events, value)[Len(Append(events, value))] = value
  BY <1>1, AppendProperties
<1>5. l < b \/ l >= b
  BY <1>1
<1> QED BY <1>2, <1>3, <1>4, <1>5, Zenon

LEMMA TypeStep ==
  ASSUME SourceInv, TypeInv, BufferInv, Effect
  PROVE  TypeInv'
<1>0. \A s \in Side : /\ Len(recent[s]) \in 0..4 /\ side[s].phasor \in Phasors
                      /\ [phasor |-> side[s].phasor, from |-> recent[s]]
                             \in [phasor : [re : Int, im : Int], from : Seq(Entry)]
  BY Sizes DEF TypeInv, BufferInv, SideOK, Holds, Phasors
<1>1. CASE Calm
  BY <1>1 DEF Calm, TypeInv, pushVars, outVars
<1>2. CASE AddLine
  <2>1. events' \in Seq(BOOLEAN) /\ lost' \in BOOLEAN
    BY <1>2, UpsertIs DEF AddLine, TypeInv
  <2> QED BY <1>2, <2>1 DEF AddLine, TypeInv, pushVars
<1>3. CASE EngineLoop
  <2>1. node' \in BOOLEAN /\ events' \in Seq(BOOLEAN)
    <3>1. events # <<>> /\ node' = Head(events) /\ events' = Tail(events)
          /\ events \in Seq(BOOLEAN)
      BY <1>3 DEF EngineLoop, TypeInv
    <3> QED BY <3>1, HeadTailProperties, Zenon
  <2> QED BY <1>3, <2>1 DEF EngineLoop, TypeInv, pushVars
<1>4. ASSUME NEW p \in Pusher, NEW steps \in Starts, Begins(p, steps)
      PROVE  TypeInv'
  <2>1. StepsOK(steps) /\ steps \in Seq(Step)
    BY StartOK DEF Starts, StepsOK
  <2>2. todo' \in [Pusher -> Seq(Step)] /\ \A q \in Pusher : StepsOK(todo'[q])
    BY <1>4, <2>1 DEF Begins, TypeInv
  <2>3. [n |-> samples + 1, k |-> idx[p], condition |-> condition] \in Sample
    BY DEF TypeInv, SourceInv, Sample
  <2>4. sample' \in [Pusher -> Sample] /\ samples' \in Nat
    BY <1>4, <2>3 DEF Begins, TypeInv
  <2> QED BY <1>4, <2>2, <2>4 DEF Begins, TypeInv, outVars
<1>5. ASSUME NEW p \in Pusher, NEW s \in Side, NEW e \in Entry, Pushes(p, s, e)
      PROVE  TypeInv'
  <2>1. StepsOK(Tail(todo[p])) /\ Tail(todo[p]) \in Seq(Step)
    BY <1>5, TailOK DEF Pushes, At, TypeInv, StepsOK
  <2>2. todo' \in [Pusher -> Seq(Step)] /\ \A q \in Pusher : StepsOK(todo'[q])
    BY <1>5, <2>1 DEF Pushes, Done, TypeInv
  <2>3. LastCycle(Append(recent[s], e)) \in Seq(Entry)
    <3>1. recent[s] \in Seq(Entry) /\ Len(recent[s]) \in 0..4
      BY <1>0 DEF TypeInv
    <3>2. Moved(recent[s], e, LastCycle(Append(recent[s], e)))
      BY <3>1, LastCycleIs, Zenon
    <3> QED BY <3>2 DEF Moved
  <2>4. recent' \in [Side -> Seq(Entry)] /\ DOMAIN side' = Side
    BY <1>5, <2>3 DEF Pushes, TypeInv
  <2> QED BY <1>5, <2>2, <2>4 DEF Pushes, TypeInv, outVars
<1>6. ASSUME NEW p \in Pusher, NotReady(p)
      PROVE  TypeInv'
  <2>1. StepsOK(SubSeq(todo[p], 4, Len(todo[p]))) /\ SubSeq(todo[p], 4, Len(todo[p])) \in Seq(Step)
    BY <1>6, SkipOK DEF NotReady, At, TypeInv, StepsOK
  <2>2. Len(EvaluateSteps) + 1 = 4
    BY DEF EvaluateSteps
  <2>3. todo' = [todo EXCEPT ![p] = SubSeq(todo[p], 4, Len(todo[p]))]
    BY <1>6, <2>2 DEF NotReady, TypeInv
  <2>4. todo' \in [Pusher -> Seq(Step)] /\ \A q \in Pusher : StepsOK(todo'[q])
    BY <2>1, <2>3 DEF TypeInv
  <2> QED BY <1>6, <2>4 DEF NotReady, TypeInv, outVars
<1>7. ASSUME NEW p \in Pusher, Done(p), todo[p] # <<>>
      PROVE  todo' \in [Pusher -> Seq(Step)] /\ \A q \in Pusher : StepsOK(todo'[q])
  <2>1. StepsOK(Tail(todo[p])) /\ Tail(todo[p]) \in Seq(Step)
    BY <1>7, TailOK DEF TypeInv, StepsOK
  <2> QED BY <1>7, <2>1 DEF Done, TypeInv
<1>8. ASSUME NEW p \in Pusher, NEW s \in Side, Read(p, s)
      PROVE  seen' \in [Pusher -> [Side -> [phasor : [re : Int, im : Int], from : Seq(Entry)]]]
  BY <1>0, <1>8 DEF Read, TypeInv
<1>9. ASSUME NEW p \in Pusher, LockAndReadM(p)
      PROVE  TypeInv'
  <2>1. seen' \in [Pusher -> [Side -> [phasor : [re : Int, im : Int], from : Seq(Entry)]]]
    BY <1>8, <1>9 DEF LockAndReadM, Side
  <2>2. dp' \in [trip : BOOLEAN, mu : Pusher \union {"free"}]
    BY <1>9 DEF LockAndReadM, TypeInv
  <2>3. todo' \in [Pusher -> Seq(Step)] /\ \A q \in Pusher : StepsOK(todo'[q])
    BY <1>7, <1>9 DEF LockAndReadM, At
  <2> QED BY <1>9, <2>1, <2>2, <2>3 DEF LockAndReadM, TypeInv
<1>10. ASSUME NEW p \in Pusher, ReadNAndDecide(p)
       PROVE  TypeInv'
  <2>1. seen' \in [Pusher -> [Side -> [phasor : [re : Int, im : Int], from : Seq(Entry)]]]
    BY <1>8, <1>10 DEF ReadNAndDecide, Side
  <2>2. \A i, j : CheckRestraint(i, j) \in BOOLEAN
    BY DEF CheckRestraint
  <2>5. decided' \in [Pusher -> BOOLEAN] /\ decided'[p] \in BOOLEAN
    BY <1>10, <2>2 DEF ReadNAndDecide, TypeInv
  <2>3. dp' \in [trip : BOOLEAN, mu : Pusher \union {"free"}]
    BY <1>10, <2>5 DEF ReadNAndDecide, HolderDuring
  <2>4. todo' \in [Pusher -> Seq(Step)] /\ \A q \in Pusher : StepsOK(todo'[q])
    BY <1>7, <1>10 DEF ReadNAndDecide, At
  <2> QED BY <1>10, <2>1, <2>3, <2>4, <2>5 DEF ReadNAndDecide, TypeInv
<1>11. ASSUME NEW p \in Pusher, Handle(p)
       PROVE  TypeInv'
  <2>1. [s \in Side |-> NoRead] \in [Side -> [phasor : [re : Int, im : Int], from : Seq(Entry)]]
    <3>1. NoRead \in [phasor : [re : Int, im : Int], from : Seq(Entry)]
      BY DEF NoRead, ZeroPhasor
    <3> QED BY <3>1
  <2>2. seen' \in [Pusher -> [Side -> [phasor : [re : Int, im : Int], from : Seq(Entry)]]]
    BY <1>11, <2>1 DEF Handle, TypeInv
  <2>3. dp' \in [trip : BOOLEAN, mu : Pusher \union {"free"}]
    BY <1>11 DEF Handle, TypeInv
  <2>4. todo' \in [Pusher -> Seq(Step)] /\ \A q \in Pusher : StepsOK(todo'[q])
    BY <1>7, <1>11 DEF Handle, At
  <2>5. events' \in Seq(BOOLEAN) /\ lost' \in BOOLEAN
    BY <1>11, UpsertIs DEF Handle, TypeInv
  <2>6. decided' \in [Pusher -> BOOLEAN]
    BY <1>11 DEF Handle, TypeInv
  <2> QED BY <1>11, <2>2, <2>3, <2>4, <2>5, <2>6 DEF Handle, TypeInv
<1> QED BY <1>1, <1>2, <1>3, <1>4, <1>5, <1>6, <1>9, <1>10, <1>11 DEF Effect

LEMMA IdleStep ==
  ASSUME SourceInv, TypeInv, IdleInv, Effect
  PROVE  IdleInv'
<1> SUFFICES ASSUME ~line'
             PROVE  events' = <<>> /\ ~dp'.trip /\ \A p \in Pusher : todo'[p] = <<>>
  BY DEF IdleInv
<1>1. CASE Calm
  BY <1>1 DEF Calm, IdleInv, pushVars, outVars
<1>2. CASE AddLine
  BY <1>2 DEF AddLine
<1>3. CASE EngineLoop
  BY <1>3 DEF EngineLoop, IdleInv
<1>4. ASSUME NEW p \in Pusher, NEW steps \in Starts, Begins(p, steps)
      PROVE  events' = <<>> /\ ~dp'.trip /\ \A q \in Pusher : todo'[q] = <<>>
  BY <1>4 DEF Begins, IdleInv, TypeInv, outVars
<1>5. ASSUME NEW p \in Pusher, NEW s \in Side, NEW e \in Entry, Pushes(p, s, e)
      PROVE  FALSE
  BY <1>5 DEF Pushes, At, IdleInv
<1>6. ASSUME NEW p \in Pusher,
             NotReady(p) \/ LockAndReadM(p) \/ ReadNAndDecide(p) \/ Handle(p)
      PROVE  FALSE
  BY <1>6 DEF NotReady, LockAndReadM, ReadNAndDecide, Handle, At, IdleInv
<1> QED BY <1>1, <1>2, <1>3, <1>4, <1>5, <1>6 DEF Effect

LEMMA LockStep ==
  ASSUME SourceInv, TypeInv, LockInv, Effect
  PROVE  LockInv'
<1>1. /\ \A p \in Pusher : dp.mu = p <=> ~Undecided(todo[p])
      /\ (\A p \in Pusher : dp'.mu = p <=> ~Undecided(todo'[p])) => LockInv'
  BY DEF LockInv, Deciding, At, Undecided
<1> SUFFICES \A p \in Pusher : dp'.mu = p <=> ~Undecided(todo'[p])
  BY <1>1
<1>2. "free" \notin Pusher
  BY DifferentialAssumption DEF Pusher
<1>3. CASE Calm \/ AddLine \/ EngineLoop
  BY <1>1, <1>3 DEF Calm, AddLine, EngineLoop, pushVars, outVars
<1>4. ASSUME NEW p \in Pusher, NEW steps \in Starts, Begins(p, steps), NEW q \in Pusher
      PROVE  dp'.mu = q <=> ~Undecided(todo'[q])
  <2>1. Undecided(steps) /\ Undecided(todo[p])
    BY <1>4, StartOK DEF Starts, Begins, Undecided
  <2>2. todo'[q] = IF q = p THEN steps ELSE todo[q]
    BY <1>4 DEF Begins, TypeInv
  <2>3. dp' = dp
    BY <1>4 DEF Begins, outVars
  <2> QED BY <1>1, <2>1, <2>2, <2>3
<1>5. ASSUME NEW p \in Pusher, NEW s \in Side, NEW e \in Entry, Pushes(p, s, e),
             NEW q \in Pusher
      PROVE  dp'.mu = q <=> ~Undecided(todo'[q])
  <2>1. /\ StepsOK(todo[p]) /\ todo[p] # <<>>
        /\ Head(todo[p]) \notin {"lock", "decide", "handle"}
    BY <1>5 DEF Pushes, At, Side, TypeInv
  <2>2. Undecided(Tail(todo[p])) /\ Undecided(todo[p])
    BY <2>1, TailOK DEF Undecided
  <2>3. todo'[q] = IF q = p THEN Tail(todo[p]) ELSE todo[q]
    BY <1>5 DEF Pushes, Done, TypeInv
  <2>4. dp' = dp
    BY <1>5 DEF Pushes, outVars
  <2> QED BY <1>1, <2>2, <2>3, <2>4
<1>6. ASSUME NEW p \in Pusher, NotReady(p), NEW q \in Pusher
      PROVE  dp'.mu = q <=> ~Undecided(todo'[q])
  <2>1. StepsOK(todo[p]) /\ todo[p] # <<>> /\ Head(todo[p]) = "lock"
    BY <1>6 DEF NotReady, At, TypeInv
  <2>2. Undecided(SubSeq(todo[p], 4, Len(todo[p]))) /\ Undecided(todo[p])
    BY <2>1, SkipOK DEF Undecided
  <2>3. Len(EvaluateSteps) + 1 = 4
    BY DEF EvaluateSteps
  <2>4. todo'[q] = IF q = p THEN SubSeq(todo[p], 4, Len(todo[p])) ELSE todo[q]
    BY <1>6, <2>3 DEF NotReady, TypeInv
  <2>5. dp' = dp
    BY <1>6 DEF NotReady, outVars
  <2> QED BY <1>1, <2>2, <2>4, <2>5
<1>7. ASSUME NEW p \in Pusher, Done(p), todo[p] # <<>>, NEW q \in Pusher
      PROVE  todo'[q] = IF q = p THEN Tail(todo[p]) ELSE todo[q]
  BY <1>7 DEF Done, TypeInv
<1>8. ASSUME NEW p \in Pusher, LockAndReadM(p), NEW q \in Pusher
      PROVE  dp'.mu = q <=> ~Undecided(todo'[q])
  <2>1. StepsOK(todo[p]) /\ todo[p] # <<>> /\ Head(todo[p]) = "lock"
    BY <1>8 DEF LockAndReadM, At, TypeInv
  <2>2. ~Undecided(Tail(todo[p]))
    BY <2>1, TailOK DEF Undecided
  <2>3. dp.mu = "free" /\ dp'.mu = p
    BY <1>8 DEF LockAndReadM, TypeInv
  <2> QED BY <1>1, <1>2, <1>7, <1>8, <2>1, <2>2, <2>3 DEF LockAndReadM
<1>9. ASSUME NEW p \in Pusher, ReadNAndDecide(p), NEW q \in Pusher
      PROVE  dp'.mu = q <=> ~Undecided(todo'[q])
  <2>1. StepsOK(todo[p]) /\ todo[p] # <<>> /\ Head(todo[p]) = "decide"
    BY <1>9 DEF ReadNAndDecide, At, TypeInv
  <2>2. ~Undecided(Tail(todo[p])) /\ ~Undecided(todo[p])
    BY <2>1, TailOK DEF Undecided
  <2>3. dp.mu = p /\ dp'.mu = p
    BY <1>1, <1>9, <2>2 DEF ReadNAndDecide, HolderDuring
  <2> QED BY <1>1, <1>7, <1>9, <2>1, <2>2, <2>3 DEF ReadNAndDecide
<1>10. ASSUME NEW p \in Pusher, Handle(p), NEW q \in Pusher
       PROVE  dp'.mu = q <=> ~Undecided(todo'[q])
  <2>1. StepsOK(todo[p]) /\ todo[p] # <<>> /\ Head(todo[p]) = "handle"
    BY <1>10 DEF Handle, At, TypeInv
  <2>2. Undecided(Tail(todo[p])) /\ ~Undecided(todo[p])
    BY <2>1, TailOK DEF Undecided
  <2>3. dp.mu = p /\ dp'.mu = "free"
    BY <1>1, <1>10, <2>2 DEF Handle, TypeInv
  <2> QED BY <1>1, <1>2, <1>7, <1>10, <2>1, <2>2, <2>3 DEF Handle
<1> QED BY <1>3, <1>4, <1>5, <1>6, <1>8, <1>9, <1>10 DEF Effect

(* The queue is drained from its head: what it ends with stays.            *)
LEMMA DrainIs ==
  ASSUME NEW q \in Seq(BOOLEAN), q # <<>>
  PROVE  /\ Tail(q) = <<>> => Head(q) = q[Len(q)]
         /\ Tail(q) # <<>> => Tail(q)[Len(Tail(q))] = q[Len(q)]
<1>1. PICK l \in Nat : l = Len(q) /\ l > 0
  BY EmptySeq, LenProperties
<1>2. PICK t \in Seq(BOOLEAN) : t = Tail(q)
  BY HeadTailProperties
<1>3. Head(q) = q[1] /\ Len(t) = l - 1 /\ \A i \in 1..Len(t) : t[i] = q[i + 1]
  BY <1>1, <1>2, HeadTailProperties
<1>4. ASSUME t = <<>> PROVE q[1] = q[l]
  <2>0. Len(t) = 0
    BY <1>4
  <2>1. l = 1
    BY <2>0, <1>3
  <2> QED BY <2>1
<1>5. ASSUME t # <<>> PROVE t[Len(t)] = q[l]
  <2>1. l - 1 \in 1..Len(t) /\ (l - 1) + 1 = l
    BY <1>1, <1>2, <1>3, <1>5, EmptySeq, LenProperties
  <2> QED BY <2>1, <1>3
<1> QED BY <1>1, <1>2, <1>3, <1>4, <1>5

LEMMA ResultStep ==
  ASSUME SourceInv, TypeInv, IdleInv, LockInv, ResultInv, ReadInv, Effect
  PROVE  ResultInv'
<1>0. ASSUME NEW p \in Pusher, ~At(p, "handle"),
             \A q \in Pusher : q # p => todo'[q] = todo[q],
             dp'.trip = dp.trip, UNCHANGED <<line, events, node, lost>>
      PROVE  ResultInv'
  <2>1. Handling => Handling'
    <3> SUFFICES ASSUME NEW q \in Pusher, At(q, "handle") PROVE Handling'
      BY DEF Handling
    <3>1. q # p
      BY <1>0
    <3>2. At(q, "handle")'
      BY <1>0, <3>1 DEF At
    <3> QED BY <3>2 DEF Handling
  <2> QED BY <1>0, <2>1 DEF ResultInv, LastResult
<1>1. CASE Calm
  BY <1>1 DEF Calm, ResultInv, LastResult, Handling, At, pushVars, outVars
<1>2. CASE AddLine
  <2>1. ~lost' => events' # <<>> /\ events'[Len(events')] = FALSE
    BY <1>2, UpsertIs DEF AddLine, TypeInv
  <2>2. dp'.trip = FALSE
    BY <1>2 DEF AddLine, IdleInv, TypeInv
  <2> QED BY <2>1, <2>2 DEF ResultInv, LastResult
<1>3. CASE EngineLoop
  <2>1. /\ events \in Seq(BOOLEAN) /\ events # <<>>
        /\ node' = Head(events) /\ events' = Tail(events)
    BY <1>3 DEF EngineLoop, TypeInv
  <2>2. LastResult' = LastResult
    BY <2>1, DrainIs DEF LastResult
  <2>3. Handling' <=> Handling
    BY <1>3 DEF EngineLoop, pushVars, Handling, At
  <2> QED BY <1>3, <2>2, <2>3 DEF EngineLoop, ResultInv
<1>4. ASSUME NEW p \in Pusher, NEW steps \in Starts, Begins(p, steps)
      PROVE  ResultInv'
  <2>1. ~At(p, "handle") /\ \A q \in Pusher : q # p => todo'[q] = todo[q]
    BY <1>4 DEF Begins, At, TypeInv
  <2>2. dp'.trip = dp.trip /\ UNCHANGED <<line, events, node, lost>>
    BY <1>4 DEF Begins, outVars
  <2> QED BY <1>0, <2>1, <2>2
<1>5. ASSUME NEW p \in Pusher, NEW s \in Side, NEW e \in Entry, Pushes(p, s, e)
      PROVE  ResultInv'
  <2>1. ~At(p, "handle") /\ \A q \in Pusher : q # p => todo'[q] = todo[q]
    BY <1>5 DEF Pushes, At, Done, TypeInv, Side
  <2>2. dp'.trip = dp.trip /\ UNCHANGED <<line, events, node, lost>>
    BY <1>5 DEF Pushes, outVars
  <2> QED BY <1>0, <2>1, <2>2
<1>6. ASSUME NEW p \in Pusher, NotReady(p)
      PROVE  ResultInv'
  <2>1. ~At(p, "handle") /\ \A q \in Pusher : q # p => todo'[q] = todo[q]
    BY <1>6 DEF NotReady, At, TypeInv
  <2>2. dp'.trip = dp.trip /\ UNCHANGED <<line, events, node, lost>>
    BY <1>6 DEF NotReady, outVars
  <2> QED BY <1>0, <2>1, <2>2
<1>7. ASSUME NEW p \in Pusher, LockAndReadM(p)
      PROVE  ResultInv'
  <2>1. ~At(p, "handle") /\ \A q \in Pusher : q # p => todo'[q] = todo[q]
    BY <1>7 DEF LockAndReadM, At, Done, TypeInv
  <2>2. dp'.trip = dp.trip /\ UNCHANGED <<line, events, node, lost>>
    BY <1>7 DEF LockAndReadM, TypeInv
  <2> QED BY <1>0, <2>1, <2>2
<1>8. ASSUME NEW p \in Pusher, ReadNAndDecide(p)
      PROVE  ResultInv'
  <2>1. StepsOK(todo[p]) /\ todo[p] # <<>> /\ Head(todo[p]) = "decide"
    BY <1>8 DEF ReadNAndDecide, At, TypeInv
  <2>2. Tail(todo[p]) # <<>> /\ Head(Tail(todo[p])) = "handle"
    BY <2>1, TailOK
  <2>3. todo'[p] = Tail(todo[p])
    BY <1>8 DEF ReadNAndDecide, Done, TypeInv
  <2>4. Handling'
    BY <2>2, <2>3 DEF Handling, At
  <2> QED BY <2>4 DEF ResultInv
<1>9. ASSUME NEW p \in Pusher, Handle(p)
      PROVE  ResultInv'
  <2>1. decided[p] \in BOOLEAN /\ dp'.trip = dp.trip /\ decided[p] = dp.trip
    BY <1>9 DEF Handle, TypeInv, ReadInv, ReadAt
  <2>2. ~lost' => events' # <<>> /\ events'[Len(events')] = decided[p]
    BY <1>9, <2>1, UpsertIs DEF Handle, TypeInv
  <2> QED BY <2>1, <2>2 DEF ResultInv, LastResult
<1> QED BY <1>1, <1>2, <1>3, <1>4, <1>5, <1>6, <1>7, <1>8, <1>9 DEF Effect

(* All but a push of a sample leave the buffers alone.                     *)
LEMMA Untouched ==
  ASSUME Effect
  PROVE  \/ UNCHANGED <<side, recent>>
         \/ \E p \in Pusher : \E s \in Side : \E e \in Entry : Pushes(p, s, e)
<1>1. CASE Calm \/ AddLine \/ EngineLoop
  BY <1>1 DEF Calm, AddLine, EngineLoop, pushVars
<1>2. CASE \E p \in Pusher : \E steps \in Starts : Begins(p, steps)
  BY <1>2 DEF Begins
<1>3. CASE \E p \in Pusher : NotReady(p) \/ LockAndReadM(p) \/ ReadNAndDecide(p) \/ Handle(p)
  BY <1>3 DEF NotReady, LockAndReadM, ReadNAndDecide, Handle
<1> QED BY <1>1, <1>2, <1>3 DEF Effect

LEMMA RecentIs ==
  ASSUME TypeInv, BufferInv, NEW p \in Pusher, NEW s \in Side, NEW e \in Entry, Pushes(p, s, e)
  PROVE  /\ Moved(recent[s], e, recent'[s]) /\ Len(recent[s]) \in 0..4
         /\ \A t \in Side : t # s => recent'[t] = recent[t] /\ side'[t] = side[t]
<1>1. recent[s] \in Seq(Entry) /\ Len(recent[s]) \in 0..4
  BY Sizes DEF TypeInv, BufferInv, SideOK, Holds
<1>2. Moved(recent[s], e, LastCycle(Append(recent[s], e)))
  BY <1>1, LastCycleIs, Zenon
<1>3. recent'[s] = LastCycle(Append(recent[s], e))
  BY DEF Pushes, TypeInv
<1>4. \A t \in Side : t # s => recent'[t] = recent[t] /\ side'[t] = side[t]
  BY DEF Pushes, TypeInv
<1> QED BY <1>1, <1>2, <1>3, <1>4

LEMMA MovedFrom ==
  ASSUME NEW w \in Seq(Entry), NEW e \in Entry, NEW c, Moved(w, e, c), Len(w) \in 0..4,
         NEW i \in 1..Len(c)
  PROVE  c[i] = e \/ \E j \in 1..Len(w) : c[i] = w[j]
<1>1. PICK L \in 0..4 : L = Len(w)
  OBVIOUS
<1>2. PICK K \in 1..4 : K = Len(c) /\ (L < 4 => K = L + 1) /\ (L = 4 => K = 4)
  <2>1. PICK K : K = Len(c)
    OBVIOUS
  <2>2. (L < 4 => K = L + 1) /\ (L = 4 => K = 4)
    BY <1>1, <2>1 DEF Moved
  <2>3. K \in 1..4
    BY <2>2
  <2> QED BY <2>1, <2>2, <2>3
<1>3. CASE i = K
  BY <1>2, <1>3 DEF Moved
<1>4. CASE i # K
  <2>1. i \in 1..(K - 1)
    BY <1>2, <1>4
  <2>2. PICK j : j = i + (L + 1 - K)
    OBVIOUS
  <2>3. j \in 1..L
    <3>1. CASE L < 4
      BY <3>1, <2>1, <2>2, <1>2
    <3>2. CASE L = 4
      <4>1. K = 4
        BY <3>2, <1>2
      <4>2. i \in 1..3 /\ j = i + 1
        BY <4>1, <3>2, <2>1, <2>2
      <4> QED BY <4>2, <3>2
    <3> QED BY <3>1, <3>2
  <2>4. c[i] = w[j]
    BY <1>1, <1>2, <2>1, <2>2 DEF Moved
  <2> QED BY <1>1, <2>3, <2>4
<1> QED BY <1>3, <1>4

LEMMA WindowPhasorType ==
  ASSUME NEW w \in Seq(Entry), Len(w) = 4
  PROVE  /\ WindowPhasor(w) \in Phasors
         /\ WindowPhasor(w) = [re |-> w[1].value - w[3].value, im |-> w[4].value - w[2].value]
<1>1. DOMAIN w = 1..4 /\ \A i \in 1..4 : w[i] \in Entry
  BY LenProperties
<1>2. \A i \in 1..4 : w[i].value \in Int
  BY <1>1 DEF Entry
<1>3. \A i \in 1..4 : [j \in DOMAIN w |-> w[j].value][i] = w[i].value
  BY <1>1
<1>4. WindowPhasor(w) = [re |-> w[1].value - w[3].value, im |-> w[4].value - w[2].value]
  BY <1>3 DEF WindowPhasor, ComputePhasor
<1> QED BY <1>2, <1>4 DEF Phasors

LEMMA BufferStep ==
  ASSUME SourceInv, TypeInv, BufferInv, Effect
  PROVE  BufferInv'
<1>1. CASE UNCHANGED <<side, recent>>
  BY <1>1 DEF BufferInv
<1>2. ASSUME NEW p \in Pusher, NEW s \in Side, NEW e \in Entry, Pushes(p, s, e)
      PROVE  BufferInv'
  <2>1. PICK b, w, c, u : b = side[s].buf /\ w = recent[s] /\ c = recent'[s] /\ u = Push(b, e.value)
    OBVIOUS
  <2>2. /\ BufferOK(b) /\ Holds(b, w) /\ w \in Seq(Entry) /\ e.value \in Int
        /\ side[s].phasor \in Phasors
    BY <2>1 DEF BufferInv, SideOK, TypeInv, Entry
  <2>3. Moved(w, e, c) /\ c = LastCycle(Append(w, e))
    BY <1>2, <2>1, RecentIs DEF Pushes, TypeInv
  <2>4. BufferOK(u)
    <3>1. Pushed(b, e.value, u)
      BY <2>1, <2>2, PushIs, Zenon
    <3> QED BY <3>1 DEF Pushed
  <2>5. Holds(u, c)
    BY <2>1, <2>2, <2>3, PushHolds, Zenon
  <2>6. c \in Seq(Entry)
    BY <2>3 DEF Moved
  <2>7. /\ (AvailableSamples(u) >= SamplesPerCycle) <=> Len(c) = 4
        /\ Len(c) = 4 => ComputePhasor(GetLastN(u, SamplesPerCycle)) = WindowPhasor(c)
    BY <2>4, <2>5, <2>6, CycleOfBuffer
  <2>8. /\ Len(c) = 4 => Shown(s, u) = WindowPhasor(c)
        /\ Len(c) # 4 => Shown(s, u) = side[s].phasor
    BY <2>7 DEF Shown
  <2>9. Shown(s, u) \in Phasors
    BY <2>2, <2>6, <2>8, WindowPhasorType
  <2>10. side'[s] = [buf |-> u, phasor |-> Shown(s, u)]
    BY <1>2, <2>1 DEF Pushes, TypeInv
  <2>11. SideOK(side'[s], c)
    BY <2>4, <2>5, <2>8, <2>9, <2>10, Sizes DEF SideOK
  <2>12. \A t \in Side : t # s => SideOK(side'[t], recent'[t])
    BY <1>2, RecentIs DEF BufferInv
  <2> QED BY <2>1, <2>11, <2>12 DEF BufferInv
<1> QED BY <1>1, <1>2, Untouched

LEMMA WaveStep ==
  ASSUME SourceInv, TypeInv, BufferInv, WaveInv, Effect
  PROVE  WaveInv'
<1>1. CASE UNCHANGED <<side, recent>>
  BY <1>1 DEF WaveInv, WaveOf
<1>2. ASSUME NEW p \in Pusher, NEW s \in Side, NEW e \in Entry, Pushes(p, s, e)
      PROVE  WaveInv'
  <2>1. PICK w, c : w = recent[s] /\ c = recent'[s]
    OBVIOUS
  <2>2. w \in Seq(Entry) /\ Moved(w, e, c) /\ Len(w) \in 0..4
    BY <1>2, <2>1, RecentIs DEF TypeInv
  <2>3. WaveOf(s, w) /\ e.value = GenerateSineWave(Current(e.condition, s), e.k)
    BY <1>2, <2>1 DEF WaveInv, Pushes
  <2>4. ASSUME NEW i \in 1..Len(c)
        PROVE  c[i].value = GenerateSineWave(Current(c[i].condition, s), c[i].k)
    <3>1. c[i] = e \/ \E j \in 1..Len(w) : c[i] = w[j]
      BY <2>2, <2>4, MovedFrom
    <3> QED BY <3>1, <2>3 DEF WaveOf
  <2>5. WaveOf(s, c)
    BY <2>4 DEF WaveOf
  <2>6. \A t \in Side : t # s => WaveOf(t, recent'[t])
    BY <1>2, RecentIs DEF WaveInv
  <2> QED BY <2>1, <2>5, <2>6 DEF WaveInv
<1> QED BY <1>1, <1>2, Untouched

LEMMA KnownIs ==
  /\ \A x : x \in Known <=>
       x \in Sample /\ \/ \E p \in Pusher : x = sample[p]
                       \/ \E s \in Side : x \in Stamps(recent[s])
                       \/ \E p \in Pusher, s \in Side : x \in Stamps(seen[p][s].from)
  /\ \A x : x \in Known' <=>
       x \in Sample /\ \/ \E p \in Pusher : x = sample'[p]
                       \/ \E s \in Side : x \in Stamps(recent'[s])
                       \/ \E p \in Pusher, s \in Side : x \in Stamps(seen'[p][s].from)
BY DEF Known

LEMMA NumberedSubset ==
  ASSUME NEW K, NEW top, Numbered(K, top), NEW L, L \subseteq K
  PROVE  Numbered(L, top)
BY DEF Numbered

LEMMA NumberedNew ==
  ASSUME NEW K, NEW top \in Nat, Numbered(K, top), NEW x \in Sample, x.n = top + 1,
         NEW L, L \subseteq K \union {x}
  PROVE  Numbered(L, top + 1)
<1>1. \A a \in K : a \in Sample /\ a.n \in Nat /\ a.n <= top
  BY DEF Numbered, Sample
<1>2. L \subseteq Sample /\ \A a \in L : a.n <= top + 1
  BY <1>1
<1>3. ASSUME NEW a \in L, NEW b \in L, a.n = b.n
      PROVE  a = b
  <2>1. CASE a \in K /\ b \in K
    BY <1>3, <2>1 DEF Numbered
  <2>2. CASE a \in K /\ b = x
    BY <1>1, <1>3, <2>2
  <2>3. CASE a = x /\ b \in K
    BY <1>1, <1>3, <2>3
  <2> QED BY <2>1, <2>2, <2>3
<1> QED BY <1>2, <1>3 DEF Numbered

(* A step makes no sample known but the one it begins.                     *)
LEMMA SampleStep ==
  ASSUME SourceInv, TypeInv, BufferInv, SampleInv, Effect
  PROVE  SampleInv'
<1>1. Numbered(Known, samples) /\ samples \in Nat
  BY DEF SampleInv, TypeInv
<1>2. ASSUME samples' = samples, Known' \subseteq Known
      PROVE  SampleInv'
  BY <1>1, <1>2, NumberedSubset DEF SampleInv
<1>3. CASE Calm \/ AddLine \/ EngineLoop
  <2>1. UNCHANGED <<samples, sample, recent, seen>>
    BY <1>3 DEF Calm, AddLine, EngineLoop, pushVars
  <2>2. Known' \subseteq Known
    BY <2>1, KnownIs
  <2> QED BY <1>2, <2>1, <2>2
<1>4. ASSUME NEW p \in Pusher, NEW steps \in Starts, Begins(p, steps)
      PROVE  SampleInv'
  <2>1. PICK x : x = [n |-> samples + 1, k |-> idx[p], condition |-> condition]
    OBVIOUS
  <2>2. x \in Sample /\ x.n = samples + 1
    BY <2>1 DEF Sample, TypeInv, SourceInv
  <2>3. samples' = samples + 1 /\ UNCHANGED <<recent, seen>>
        /\ \A q \in Pusher : sample'[q] \in {sample[q], x}
    BY <1>4, <2>1 DEF Begins, TypeInv
  <2>4. Known' \subseteq Known \union {x}
    BY <2>3, KnownIs
  <2>5. Numbered(Known', samples + 1)
    BY <1>1, <2>2, <2>4, NumberedNew
  <2> QED BY <2>3, <2>5 DEF SampleInv
<1>5. ASSUME NEW p \in Pusher, NEW s \in Side, NEW e \in Entry, Pushes(p, s, e)
      PROVE  SampleInv'
  <2>1. PICK w, c : w = recent[s] /\ c = recent'[s]
    OBVIOUS
  <2>2. w \in Seq(Entry) /\ Moved(w, e, c) /\ Len(w) \in 0..4
    BY <1>5, <2>1, RecentIs DEF TypeInv
  <2>3. ASSUME NEW x \in Stamps(c)
        PROVE  x = sample[p] \/ x \in Stamps(w)
    <3>1. PICK i \in 1..Len(c) : x = Stamp(c[i])
      BY <2>3 DEF Stamps
    <3>2. c[i] = e \/ \E j \in 1..Len(w) : c[i] = w[j]
      BY <2>2, MovedFrom
    <3> QED BY <1>5, <3>1, <3>2 DEF Pushes, Stamps
  <2>4. \A t \in Side : t # s => recent'[t] = recent[t]
    BY <1>5, RecentIs
  <2>5. UNCHANGED <<samples, sample, seen>>
    BY <1>5 DEF Pushes
  <2>6. Known' \subseteq Known
    BY <2>1, <2>3, <2>4, <2>5, KnownIs
  <2> QED BY <1>2, <2>5, <2>6
<1>6. ASSUME NEW p \in Pusher, NotReady(p)
      PROVE  SampleInv'
  <2>1. UNCHANGED <<samples, sample, recent, seen>>
    BY <1>6 DEF NotReady
  <2>2. Known' \subseteq Known
    BY <2>1, KnownIs
  <2> QED BY <1>2, <2>1, <2>2
<1>7. ASSUME NEW p \in Pusher, NEW s \in Side, Read(p, s), UNCHANGED <<samples, sample, recent>>
      PROVE  SampleInv'
  <2>1. \A q \in Pusher, t \in Side : seen'[q][t].from \in {seen[q][t].from, recent[s]}
    BY <1>7 DEF Read, TypeInv
  <2>2. Known' \subseteq Known
    BY <1>7, <2>1, KnownIs
  <2> QED BY <1>2, <1>7, <2>2
<1>8. ASSUME NEW p \in Pusher, LockAndReadM(p)
      PROVE  SampleInv'
  BY <1>7, <1>8 DEF LockAndReadM, Side
<1>9. ASSUME NEW p \in Pusher, ReadNAndDecide(p)
      PROVE  SampleInv'
  BY <1>7, <1>9 DEF ReadNAndDecide, Side
<1>10. ASSUME NEW p \in Pusher, Handle(p)
       PROVE  SampleInv'
  <2>1. UNCHANGED <<samples, sample, recent>>
    BY <1>10 DEF Handle
  <2>2. \A q \in Pusher, t \in Side : seen'[q][t].from \in {seen[q][t].from, <<>>}
    BY <1>10 DEF Handle, TypeInv, NoRead
  <2>3. Stamps(<<>>) = {}
    BY DEF Stamps
  <2>4. Known' \subseteq Known
    BY <2>1, <2>2, <2>3, KnownIs
  <2> QED BY <1>2, <2>1, <2>4
<1> QED BY <1>3, <1>4, <1>5, <1>6, <1>8, <1>9, <1>10 DEF Effect


(* evaluate() has the lock while it compares.                              *)
LEMMA ReadStep ==
  ASSUME SourceInv, TypeInv, LockInv, BufferInv, WaveInv, ReadInv, Effect
  PROVE  ReadInv'
<1>0. "free" \notin Pusher /\ SamplesPerCycle = 4
  BY DifferentialAssumption, Sizes DEF Pusher
<1>1. \A q \in Pusher : dp.mu = q <=> ~Undecided(todo[q])
  BY DEF LockInv, Deciding, At, Undecided
<1>2. ASSUME NEW q \in Pusher, Undecided(todo'[q])
      PROVE  ReadAt(q)'
  BY <1>2 DEF ReadAt, At, Undecided
<1>3. ASSUME NEW q \in Pusher, todo'[q] = todo[q], seen'[q] = seen[q], dp' = dp,
             decided' = decided, Len(recent["N"]) = 4 => Len(recent'["N"]) = 4
      PROVE  ReadAt(q)'
  BY <1>0, <1>3 DEF ReadInv, ReadAt, At
<1>4. CASE Calm \/ AddLine \/ EngineLoop
  <2>1. UNCHANGED <<todo, seen, dp, decided, recent>>
    BY <1>4 DEF Calm, AddLine, EngineLoop, pushVars, outVars
  <2> QED BY <1>3, <2>1 DEF ReadInv
<1>5. ASSUME NEW p \in Pusher, NEW steps \in Starts, Begins(p, steps), NEW q \in Pusher
      PROVE  ReadAt(q)'
  <2>1. Undecided(steps)
    BY StartOK DEF Starts
  <2>2. todo'[q] = IF q = p THEN steps ELSE todo[q]
    BY <1>5 DEF Begins, TypeInv
  <2>3. UNCHANGED <<seen, dp, decided, recent>>
    BY <1>5 DEF Begins, outVars
  <2> QED BY <1>2, <1>3, <2>1, <2>2, <2>3
<1>6. ASSUME NEW p \in Pusher, NEW s \in Side, NEW e \in Entry, Pushes(p, s, e),
             NEW q \in Pusher
      PROVE  ReadAt(q)'
  <2>1. /\ StepsOK(todo[p]) /\ todo[p] # <<>>
        /\ Head(todo[p]) \notin {"lock", "decide", "handle"}
    BY <1>6 DEF Pushes, At, Side, TypeInv
  <2>2. Undecided(Tail(todo[p]))
    BY <2>1, TailOK
  <2>3. todo'[q] = IF q = p THEN Tail(todo[p]) ELSE todo[q]
    BY <1>6 DEF Pushes, Done, TypeInv
  <2>4. Len(recent["N"]) = 4 => Len(recent'["N"]) = 4
    BY <1>6, RecentIs DEF Moved, Side
  <2>5. UNCHANGED <<seen, dp, decided>>
    BY <1>6 DEF Pushes, outVars
  <2> QED BY <1>2, <1>3, <2>2, <2>3, <2>4, <2>5
<1>7. ASSUME NEW p \in Pusher, NotReady(p), NEW q \in Pusher
      PROVE  ReadAt(q)'
  <2>1. StepsOK(todo[p]) /\ todo[p] # <<>> /\ Head(todo[p]) = "lock"
    BY <1>7 DEF NotReady, At, TypeInv
  <2>2. Undecided(SubSeq(todo[p], 4, Len(todo[p])))
    BY <2>1, SkipOK
  <2>3. Len(EvaluateSteps) + 1 = 4
    BY DEF EvaluateSteps
  <2>4. todo'[q] = IF q = p THEN SubSeq(todo[p], 4, Len(todo[p])) ELSE todo[q]
    BY <1>7, <2>3 DEF NotReady, TypeInv
  <2>5. UNCHANGED <<seen, dp, decided, recent>>
    BY <1>7 DEF NotReady, outVars
  <2> QED BY <1>2, <1>3, <2>2, <2>4, <2>5
<1>8. ASSUME NEW p \in Pusher, Done(p), todo[p] # <<>>, NEW q \in Pusher
      PROVE  todo'[q] = IF q = p THEN Tail(todo[p]) ELSE todo[q]
  BY <1>8 DEF Done, TypeInv
<1>9. ASSUME NEW s \in Side, Len(recent[s]) = 4
      PROVE  Cycle([phasor |-> side[s].phasor, from |-> recent[s]], s)
  BY <1>0, <1>9 DEF Cycle, BufferInv, SideOK, WaveInv
<1>10. ASSUME NEW p \in Pusher, LockAndReadM(p), NEW q \in Pusher
       PROVE  ReadAt(q)'
  <2>1. StepsOK(todo[p]) /\ todo[p] # <<>> /\ Head(todo[p]) = "lock"
    BY <1>10 DEF LockAndReadM, At, TypeInv
  <2>2. Head(Tail(todo[p])) = "decide"
    BY <2>1, TailOK
  <2>3. /\ todo'[q] = IF q = p THEN Tail(todo[p]) ELSE todo[q]
        /\ dp.mu = "free" /\ recent' = recent
    BY <1>8, <1>10, <2>1 DEF LockAndReadM
  <2>4. \A s \in Side : Len(recent[s]) = 4
    BY <1>10, CycleOfBuffer DEF LockAndReadM, Ready, BufferInv, SideOK, TypeInv
  <2>5. CASE q = p
    <3>1. seen'[p]["M"] = [phasor |-> side["M"].phasor, from |-> recent["M"]]
      BY <1>10 DEF LockAndReadM, Read, TypeInv, Side
    <3>2. Cycle(seen'[p]["M"], "M") /\ Len(recent'["N"]) = 4
      BY <1>9, <2>3, <2>4, <3>1 DEF Side
    <3>3. ~At(q, "handle")'
      BY <2>2, <2>3, <2>5 DEF At
    <3> QED BY <1>0, <2>5, <3>2, <3>3 DEF ReadAt
  <2>6. CASE q # p
    BY <1>0, <1>1, <1>2, <2>3, <2>6
  <2> QED BY <2>5, <2>6
<1>11. ASSUME NEW p \in Pusher, ReadNAndDecide(p), NEW q \in Pusher
       PROVE  ReadAt(q)'
  <2>1. StepsOK(todo[p]) /\ todo[p] # <<>> /\ Head(todo[p]) = "decide"
    BY <1>11 DEF ReadNAndDecide, At, TypeInv
  <2>2. Head(Tail(todo[p])) = "handle" /\ ~Undecided(todo[p])
    BY <2>1, TailOK DEF Undecided
  <2>3. todo'[q] = IF q = p THEN Tail(todo[p]) ELSE todo[q]
    BY <1>8, <1>11, <2>1 DEF ReadNAndDecide
  <2>4. CASE q = p
    <3>1. /\ seen'[p]["M"] = seen[p]["M"]
          /\ seen'[p]["N"] = [phasor |-> side["N"].phasor, from |-> recent["N"]]
      BY <1>11 DEF ReadNAndDecide, Read, TypeInv, Side
    <3>2. Cycle(seen[p]["M"], "M") /\ Len(recent["N"]) = 4
      BY <1>0, <2>1 DEF ReadInv, ReadAt, At
    <3>3. Cycle(seen'[p]["M"], "M") /\ Cycle(seen'[p]["N"], "N")
      BY <1>9, <3>1, <3>2 DEF Side
    <3>4. /\ decided'[p] = CheckRestraint(Idiff(seen[p]["M"].phasor, side["N"].phasor),
                                          Ires(seen[p]["M"].phasor, side["N"].phasor))
          /\ dp'.trip = decided'[p]
      BY <1>11 DEF ReadNAndDecide, TypeInv
    <3>5. dp'.trip = Decision(seen'[p]["M"], seen'[p]["N"])
      BY <3>1, <3>4 DEF Decision
    <3>6. ~At(q, "decide")'
      BY <2>2, <2>3, <2>4 DEF At
    <3> QED BY <2>4, <3>3, <3>4, <3>5, <3>6 DEF ReadAt
  <2>5. CASE q # p
    BY <1>1, <1>2, <2>2, <2>3, <2>5
  <2> QED BY <2>4, <2>5
<1>12. ASSUME NEW p \in Pusher, Handle(p), NEW q \in Pusher
       PROVE  ReadAt(q)'
  <2>1. StepsOK(todo[p]) /\ todo[p] # <<>> /\ Head(todo[p]) = "handle"
    BY <1>12 DEF Handle, At, TypeInv
  <2>2. Undecided(Tail(todo[p])) /\ ~Undecided(todo[p])
    BY <2>1, TailOK DEF Undecided
  <2>3. todo'[q] = IF q = p THEN Tail(todo[p]) ELSE todo[q]
    BY <1>8, <1>12, <2>1 DEF Handle
  <2> QED BY <1>1, <1>2, <2>2, <2>3
<1> QED BY <1>4, <1>5, <1>6, <1>7, <1>10, <1>11, <1>12 DEF Effect, ReadInv

LEMMA InitInv ==
  ASSUME Init
  PROVE  DifferentialInv
<1>1. SourceInv
  BY DEF Init, SourceInv, Condition, Pusher
<1>2. TypeInv
  <2>1. StepsOK(<<>>)
    BY StartOK
  <2>2. NoSample \in Sample
    BY DEF NoSample, Sample, Condition
  <2>3. NoRead \in [phasor : [re : Int, im : Int], from : Seq(Entry)]
    BY DEF NoRead, ZeroPhasor
  <2>4. \A p \in Pusher : StepsOK(todo[p])
    BY <2>1 DEF Init
  <2>5. seen \in [Pusher -> [Side -> [phasor : [re : Int, im : Int], from : Seq(Entry)]]]
    BY <2>3 DEF Init
  <2>6. /\ samples \in Nat /\ line \in BOOLEAN
        /\ dp \in [trip : BOOLEAN, mu : Pusher \union {"free"}]
        /\ node \in BOOLEAN /\ lost \in BOOLEAN
    BY DEF Init
  <2>7. /\ DOMAIN side = Side /\ recent \in [Side -> Seq(Entry)]
        /\ todo \in [Pusher -> Seq(Step)] /\ events \in Seq(BOOLEAN)
        /\ decided \in [Pusher -> BOOLEAN]
    BY DEF Init
  <2>8. sample \in [Pusher -> Sample]
    BY <2>2 DEF Init
  <2> QED BY <2>4, <2>5, <2>6, <2>7, <2>8 DEF TypeInv
<1>3. IdleInv /\ ResultInv
  BY DEF Init, IdleInv, ResultInv
<1>4. LockInv
  BY DifferentialAssumption DEF Init, LockInv, Deciding, At, Pusher
<1>5. BufferInv
  <2>1. BufferOK(EmptyBuffer)
    BY Sizes DEF BufferOK, EmptyBuffer
  <2>2. Holds(EmptyBuffer, <<>>)
    BY Sizes DEF Holds, EmptyBuffer
  <2>3. ZeroPhasor \in Phasors
    BY DEF ZeroPhasor, Phasors
  <2> QED BY <2>1, <2>2, <2>3, Sizes DEF Init, BufferInv, SideOK
<1>6. WaveInv
  BY DEF Init, WaveInv, WaveOf
<1>7. SampleInv
  <2>1. Stamps(<<>>) = {}
    BY DEF Stamps
  <2>2. \A a \in Known : a = NoSample
    BY <2>1, KnownIs DEF Init, NoRead
  <2>3. Known \subseteq Sample
    BY KnownIs
  <2> QED BY <2>2, <2>3 DEF Init, SampleInv, Numbered, NoSample
<1>8. ReadInv
  BY DEF Init, ReadInv, ReadAt, At
<1> QED BY <1>1, <1>2, <1>3, <1>4, <1>5, <1>6, <1>7, <1>8 DEF DifferentialInv

(* The locks, the windows and the decisions of DifferentialProtection and  *)
(* of DifferentialEngine, in every state.                                  *)
THEOREM DifferentialInvariant == Spec => []DifferentialInv
<1>1. Init => DifferentialInv
  BY InitInv
<1>2. DifferentialInv /\ [Next]_vars => DifferentialInv'
  <2> SUFFICES ASSUME DifferentialInv, [Next]_vars PROVE DifferentialInv'
    OBVIOUS
  <2>1. /\ SourceInv /\ TypeInv /\ IdleInv /\ LockInv /\ ResultInv
        /\ BufferInv /\ WaveInv /\ SampleInv /\ ReadInv
    BY DEF DifferentialInv
  <2>2. Effect /\ SourceInv'
    BY <2>1, Effects, SourceStep
  <2>3. TypeInv' /\ IdleInv' /\ LockInv' /\ ResultInv'
    BY <2>1, <2>2, TypeStep, IdleStep, LockStep, ResultStep
  <2>4. BufferInv' /\ WaveInv' /\ SampleInv' /\ ReadInv'
    BY <2>1, <2>2, BufferStep, WaveStep, SampleStep, ReadStep
  <2> QED BY <2>2, <2>3, <2>4 DEF DifferentialInv
<1> QED BY <1>1, <1>2, PTL DEF Spec

(* When the engine has caught up its trip node has the line's last result  *)
(* (DifferentialEngine.createEventHandler, ProtectionEngine's event loop). *)
THEOREM NodeFollows == Spec => []NodeFollowsTrip
<1>1. DifferentialInv => NodeFollowsTrip
  BY DEF DifferentialInv, ResultInv, LastResult, Handling, NodeFollowsTrip
<1> QED BY <1>1, DifferentialInvariant, PTL

(* The phasor of a side is that of its last cycle of samples, however      *)
(* often the ring buffer has wrapped (ChannelBuffer, PushSamples).         *)
THEOREM PhasorIsOfLastCycle == Spec => []PhasorOfLastCycle
<1>1. DifferentialInv => PhasorOfLastCycle
  BY DEF DifferentialInv, BufferInv, SideOK, WindowPhasor, PhasorOfLastCycle
<1> QED BY <1>1, DifferentialInvariant, PTL
-----------------------------------------------------------------------------
(* Magnitudes.                                                             *)
LEMMA SquareGrows ==
  ASSUME NEW a \in Nat, NEW b \in Nat, a < b
  PROVE  a * a < b * b
<1>1. PICK d \in Nat : b = a + d /\ d > 0
  <2>1. b - a \in Nat /\ b = a + (b - a) /\ b - a > 0
    OBVIOUS
  <2> QED BY <2>1
<1>2. b * b = a * a + (2 * (a * d) + d * d)
  BY <1>1
<1>3. a * d \in Nat /\ d * d \in Nat /\ d * d > 0 /\ a * a \in Nat
  BY <1>1
<1> QED BY <1>2, <1>3

LEMMA Least ==
  ASSUME NEW T \in SUBSET Nat, T # {}
  PROVE  \E x \in T : \A y \in T : x <= y
<1> DEFINE R == OpToRel(<, Nat)
<1>1. \E x \in T : \A y \in T : <<y, x>> \notin R
  BY WFMin, NatLessThanWellFounded
<1>2. \A x, y \in Nat : <<y, x>> \in R <=> y < x
  BY DEF OpToRel
<1>3. \A x, y \in Nat : y < x \/ x <= y
  OBVIOUS
<1> HIDE DEF R
<1> QED BY <1>1, <1>2, <1>3, Zenon

LEMMA RootExists ==
  ASSUME NEW N \in Nat, NEW top \in Nat, N < 4 * (top + 1) * (top + 1)
  PROVE  \E r \in 0..top : 4 * r * r <= N /\ N < 4 * (r + 1) * (r + 1)
<1> DEFINE T == {k \in Nat : N < 4 * k * k}
<1>1. top + 1 \in T
  OBVIOUS
<1>2. PICK k \in T : \A y \in T : k <= y
  <2>1. T \in SUBSET Nat /\ T # {}
    BY <1>1
  <2> HIDE DEF T
  <2> QED BY <2>1, Least
<1>3. k \in Nat /\ N < 4 * k * k /\ k <= top + 1
  BY <1>1, <1>2
<1>4. k # 0
  BY <1>3
<1>5. PICK r \in Nat : k = r + 1
  <2>1. k - 1 \in Nat /\ k = (k - 1) + 1
    BY <1>3, <1>4
  <2> QED BY <2>1
<1>6. ~(k <= r)
  BY <1>5
<1>7. r \notin T
  BY <1>2, <1>6
<1>8. 4 * r * r <= N
  BY <1>7
<1>9. r \in 0..top
  BY <1>3, <1>5
<1> QED BY <1>3, <1>5, <1>8, <1>9

LEMMA AbsIs ==
  ASSUME NEW x \in Int
  PROVE  Abs(x) \in Nat /\ Abs(x) * Abs(x) = x * x
<1>1. CASE x < 0
  <2>1. Abs(x) = -x
    BY <1>1 DEF Abs
  <2>2. -x \in Nat /\ (-x) * (-x) = x * x
    BY <1>1
  <2> QED BY <2>1, <2>2
<1>2. CASE ~(x < 0)
  <2>1. Abs(x) = x
    BY <1>2 DEF Abs
  <2> QED BY <1>2, <2>1
<1> QED BY <1>1, <1>2

LEMMA MagIs ==
  ASSUME NEW z \in Phasors
  PROVE  /\ Mag(z) \in Nat
         /\ 4 * Mag(z) * Mag(z) <= z.re * z.re + z.im * z.im
         /\ z.re * z.re + z.im * z.im < 4 * (Mag(z) + 1) * (Mag(z) + 1)
<1>1. PICK x \in Int, y \in Int : x = z.re /\ y = z.im
  BY DEF Phasors
<1>2. PICK a \in Nat, b \in Nat : a = Abs(x) /\ b = Abs(y) /\ a * a = x * x /\ b * b = y * y
  BY AbsIs
<1>3. PICK top \in Nat : top = (a + b) \div 2 /\ a + b < 2 * (top + 1)
  OBVIOUS
<1>4. PICK N \in Nat : N = x * x + y * y /\ a * a <= N /\ b * b <= N
  <2>1. a * a \in Nat /\ b * b \in Nat
    OBVIOUS
  <2> QED BY <1>2, <2>1
<1>5. N < 4 * (top + 1) * (top + 1)
  <2>1. PICK u \in Nat : u = a * b
    OBVIOUS
  <2>2. (a + b) * (a + b) = N + 2 * u
    <3>1. (a + b) * (a + b) = a * a + b * b + 2 * (a * b)
      OBVIOUS
    <3> QED BY <3>1, <1>2, <1>4, <2>1
  <2>3. PICK s \in Nat, t \in Nat : s = a + b /\ t = 2 * (top + 1)
    OBVIOUS
  <2>4. s < t /\ s * s = N + 2 * u
    BY <1>3, <2>2, <2>3
  <2>5. s * s < t * t
    BY <2>4, SquareGrows
  <2>6. t * t = 4 * (top + 1) * (top + 1)
    BY <2>3
  <2> QED BY <2>4, <2>5, <2>6
<1>6. \E r \in (Larger(a, b) \div 2)..top :
        4 * r * r <= N /\ N < 4 * (r + 1) * (r + 1)
  <2>1. PICK r \in 0..top : 4 * r * r <= N /\ N < 4 * (r + 1) * (r + 1)
    BY <1>5, RootExists
  <2>2. PICK c \in Nat : c = Larger(a, b) /\ c * c <= N
    BY <1>4 DEF Larger
  <2>3. PICK w \in Nat : w = 2 * (r + 1) /\ w * w = 4 * (r + 1) * (r + 1)
    OBVIOUS
  <2>4. ~(w <= c)
    <3>1. w = c \/ w < c => w * w <= c * c
      BY SquareGrows
    <3> QED BY <3>1, <2>1, <2>2, <2>3
  <2>5. c \div 2 <= r /\ c \div 2 \in Nat
    BY <2>3, <2>4
  <2> QED BY <2>1, <2>2, <2>5
<1>7. Mag(z) = CHOOSE r \in (Larger(a, b) \div 2)..top :
        4 * r * r <= N /\ N < 4 * (r + 1) * (r + 1)
  BY <1>1, <1>2, <1>3, <1>4 DEF Mag
<1>8. PICK r : r = Mag(z)
  OBVIOUS
<1>9. r \in (Larger(a, b) \div 2)..top /\ 4 * r * r <= N /\ N < 4 * (r + 1) * (r + 1)
  BY <1>6, <1>7, <1>8, Zenon
<1> QED BY <1>1, <1>4, <1>8, <1>9

(* The magnitude of a phasor on a circle with that radius is exact.        *)
LEMMA MagOfSquare ==
  ASSUME NEW z \in Phasors, NEW a \in Nat, z.re * z.re + z.im * z.im = (2 * a) * (2 * a)
  PROVE  Mag(z) = a
<1>1. PICK r \in Nat : r = Mag(z)
  BY MagIs
<1>2. PICK s \in Nat : s = a * a
  OBVIOUS
<1>3. z.re * z.re + z.im * z.im = 4 * s
  BY <1>2
<1>4. PICK t \in Nat, u \in Nat : t = r * r /\ u = (r + 1) * (r + 1)
  OBVIOUS
<1>5. 4 * r * r = 4 * t /\ 4 * (r + 1) * (r + 1) = 4 * u
  BY <1>4
<1>6. 4 * t <= 4 * s /\ 4 * s < 4 * u
  BY <1>1, <1>3, <1>5, MagIs
<1>7. ~(a < r)
  <2>1. a < r => s < t
    BY <1>2, <1>4, SquareGrows
  <2> QED BY <2>1, <1>6
<1>8. ~(r + 1 < a) /\ r + 1 # a
  <2>1. r + 1 < a => u < s
    <3>1. r + 1 \in Nat
      OBVIOUS
    <3> QED BY <3>1, <1>2, <1>4, SquareGrows
  <2>2. r + 1 = a => u = s
    BY <1>2, <1>4
  <2> QED BY <2>1, <2>2, <1>6
<1> QED BY <1>1, <1>7, <1>8

LEMMA MagOfZero ==
  [re |-> 0, im |-> 0] \in Phasors /\ Mag([re |-> 0, im |-> 0]) = 0
<1>0. [re |-> 0, im |-> 0] \in Phasors
  BY DEF Phasors
<1>1. PICK z \in Phasors : z = [re |-> 0, im |-> 0]
  BY <1>0
<1>2. z.re * z.re + z.im * z.im = (2 * 0) * (2 * 0)
  BY <1>1
<1>3. Mag(z) = 0
  BY <1>2, MagOfSquare
<1> QED BY <1>1, <1>3
-----------------------------------------------------------------------------
(* Windows with the same numbers are of the same samples.                  *)
LEMMA SameSamples ==
  ASSUME TypeInv, SampleInv, ReadInv, NEW p \in Pusher, At(p, "handle"), Aligned(p),
         NEW m, m = seen[p]["M"].from, NEW n, n = seen[p]["N"].from
  PROVE  /\ m \in Seq(Entry) /\ Len(m) = 4 /\ n \in Seq(Entry) /\ Len(n) = 4
         /\ \A i \in 1..4 : m[i].k = n[i].k /\ m[i].condition = n[i].condition
<1>1. /\ m \in Seq(Entry) /\ Len(m) = 4 /\ n \in Seq(Entry) /\ Len(n) = 4
      /\ "M" \in Side /\ "N" \in Side
  BY Sizes DEF ReadInv, ReadAt, Cycle, TypeInv, Side
<1>2. ASSUME NEW i \in 1..4
      PROVE  m[i].k = n[i].k /\ m[i].condition = n[i].condition
  <2>1. m[i] \in Entry /\ n[i] \in Entry /\ i \in DOMAIN m /\ i \in DOMAIN n
    BY <1>1, LenProperties
  <2>2. PICK a, b : a = Stamp(m[i]) /\ b = Stamp(n[i])
    OBVIOUS
  <2>3. a \in Sample /\ b \in Sample
    BY <2>1, <2>2 DEF Stamp, Entry, Sample
  <2>4. a \in Stamps(m) /\ b \in Stamps(n)
    BY <1>1, <2>2 DEF Stamps
  <2>5. a \in Known /\ b \in Known
    BY <1>1, <2>3, <2>4, KnownIs
  <2>6. Numbers(m)[i] = Numbers(n)[i]
    BY DEF Aligned
  <2>7. a.n = b.n
    BY <2>1, <2>2, <2>6 DEF Numbers, Stamp
  <2>8. a = b
    BY <2>5, <2>7 DEF SampleInv, Numbered
  <2> QED BY <2>2, <2>8 DEF Stamp
<1> QED BY <1>1, <1>2

(* Without a difference there is no trip, nor with one below the pickup.   *)
LEMMA BelowPickup ==
  ASSUME NEW d \in Nat, d < MinTrip, NEW x \in Nat
  PROVE  ~CheckRestraint(d, x)
<1>1. TripThreshold(x) >= MinTrip /\ TripThreshold(x) \in Int
  <2>1. CASE x <= 500000
    BY <2>1, SMT DEF TripThreshold, MinTrip
  <2>2. CASE 500000 < x /\ x <= 2000000
    <3>1. (3 * (x - 500000)) \div 10 >= 0
      BY <2>2, SMT
    <3> QED BY <2>2, <3>1, SMT DEF TripThreshold, MinTrip
  <2>3. CASE 2000000 < x
    <3>1. (5 * (x - 2000000)) \div 10 >= 0
      BY <2>3, SMT
    <3> QED BY <2>3, <3>1, SMT DEF TripThreshold, MinTrip
  <2>4. x <= 500000 \/ (500000 < x /\ x <= 2000000) \/ 2000000 < x
    BY SMT
  <2> QED BY <2>1, <2>2, <2>3, <2>4
<1> QED BY <1>1, SMT DEF CheckRestraint, MinTrip

(* DifferentialProtection.evaluate trips only on samples of an internal    *)
(* fault, if it compares the same cycle of both sides.                     *)
THEOREM TripNeedsFault == Spec => []TripNeedsFaultOrSkew
<1> SUFFICES ASSUME DifferentialInv, NEW p \in Pusher, At(p, "handle"), dp.trip, Aligned(p),
                    \A i \in 1..SamplesPerCycle : seen[p]["M"].from[i].condition.kind # "internal"
             PROVE  FALSE
  <2>1. DifferentialInv => TripNeedsFaultOrSkew
    BY DEF TripNeedsFaultOrSkew
  <2> QED BY <2>1, DifferentialInvariant, PTL
<1>1. PICK m, n : m = seen[p]["M"].from /\ n = seen[p]["N"].from
  OBVIOUS
<1>2. /\ m \in Seq(Entry) /\ Len(m) = 4 /\ n \in Seq(Entry) /\ Len(n) = 4
      /\ \A i \in 1..4 : m[i].k = n[i].k /\ m[i].condition = n[i].condition
  BY <1>1, SameSamples DEF DifferentialInv
<1>3. /\ seen[p]["M"].phasor = WindowPhasor(m) /\ WaveOf("M", m)
      /\ seen[p]["N"].phasor = WindowPhasor(n) /\ WaveOf("N", n)
      /\ dp.trip = Decision(seen[p]["M"], seen[p]["N"])
  BY <1>1 DEF DifferentialInv, ReadInv, ReadAt, Cycle
<1>4. ASSUME NEW i \in 1..4
      PROVE  m[i].value = n[i].value
  <2>1. m[i].condition.kind # "internal" /\ m[i] \in Entry
    BY <1>1, <1>2, Sizes, LenProperties
  <2>2. Current(m[i].condition, "M") = Current(m[i].condition, "N")
    BY <2>1, CurrentIs DEF Entry, Side
  <2> QED BY <1>2, <1>3, <2>2 DEF WaveOf
<1>5. WindowPhasor(m) = WindowPhasor(n)
  BY <1>2, <1>4, WindowPhasorType
<1>6. /\ WindowPhasor(m).re \in Int /\ WindowPhasor(m).im \in Int
      /\ Mag(WindowPhasor(m)) \in Nat
  BY <1>2, WindowPhasorType, MagIs DEF Phasors
<1>7. Sub(WindowPhasor(m), WindowPhasor(m)) = [re |-> 0, im |-> 0]
  BY <1>6 DEF Sub
<1>8. Mag([re |-> 0, im |-> 0]) = 0
  BY MagOfZero
<1>9. Idiff(WindowPhasor(m), WindowPhasor(m)) = 0
  BY <1>7, <1>8, Sizes DEF Idiff
<1>10. ~CheckRestraint(0, Ires(WindowPhasor(m), WindowPhasor(m)))
  <2>1. PICK z \in Nat : z = CTRatio * (Mag(WindowPhasor(m)) + Mag(WindowPhasor(m)))
    BY <1>6, Sizes
  <2>2. z \div 2 \in Nat
    OBVIOUS
  <2>3. Ires(WindowPhasor(m), WindowPhasor(m)) = z \div 2
    BY <2>1 DEF Ires
  <2>4. 0 \in Nat /\ 0 < MinTrip
    BY DEF MinTrip
  <2> QED BY <2>2, <2>3, <2>4, BelowPickup
<1> QED BY <1>3, <1>5, <1>9, <1>10 DEF Decision

(* With a difference of twice the restraint, above the pickup, there is.   *)
LEMMA AbovePickup ==
  ASSUME NEW d \in Nat, d > MinTrip
  PROVE  CheckRestraint(d, d \div 2)
<1>1. PICK x \in Nat : x = d \div 2 /\ 2 * x <= d
  BY SMT
<1>2. TripThreshold(x) < d /\ TripThreshold(x) \in Int
  <2>1. CASE x <= 500000
    BY <2>1, SMT DEF TripThreshold, MinTrip
  <2>2. CASE 500000 < x /\ x <= 2000000
    <3>1. (3 * (x - 500000)) \div 10 <= x - 500000
      BY <2>2, SMT
    <3> QED BY <1>1, <2>2, <3>1, SMT DEF TripThreshold, MinTrip
  <2>3. CASE 2000000 < x
    <3>1. (5 * (x - 2000000)) \div 10 <= x - 2000000
      BY <2>3, SMT
    <3> QED BY <1>1, <2>3, <3>1, SMT DEF TripThreshold
  <2>4. x <= 500000 \/ (500000 < x /\ x <= 2000000) \/ 2000000 < x
    BY SMT
  <2> QED BY <2>1, <2>2, <2>3, <2>4
<1> QED BY <1>1, <1>2, SMT DEF CheckRestraint

(* A cycle of a sine, wherever it begins, has twice its amplitude (the     *)
(* phasors are kept doubled).                                              *)
LEMMA CycleOfSine ==
  ASSUME NEW w \in Seq(Entry), Len(w) = 4, WaveOf("M", w),
         NEW c0 \in Condition, c0.kind = "internal", Whole(w, c0)
  PROVE  Mag(WindowPhasor(w)) = c0.current
<1>1. PICK A \in Nat : A = c0.current /\ A = Current(c0, "M")
  BY CurrentIs DEF Current, Side
<1>0. DOMAIN w = 1..4 /\ \A i \in 1..4 : w[i] \in Entry
  BY LenProperties
<1>2. \A i \in 1..4 : w[i] \in Entry /\ w[i].k \in 0..3 /\ w[i].condition = c0
  BY <1>0 DEF Entry, Whole
<1>3. ASSUME NEW i \in 1..4, NEW k \in 0..3, k = w[i].k
      PROVE  w[i].value = GenerateSineWave(A, k)
  BY <1>1, <1>2, <1>3 DEF WaveOf
<1>4. PICK a \in 0..3, b \in 0..3, c \in 0..3, d \in 0..3 :
        a = w[1].k /\ b = w[2].k /\ c = w[3].k /\ d = w[4].k
  BY <1>2
<1>5. b = (a + 1) % 4 /\ c = (b + 1) % 4 /\ d = (c + 1) % 4
  <2>1. \A i \in {2, 3, 4} : w[i].k = (w[i - 1].k + 1) % 4
    <3> SUFFICES ASSUME NEW i \in {2, 3, 4} PROVE w[i].k = (w[i - 1].k + 1) % 4
      OBVIOUS
    <3>1. i \in DOMAIN w \ {1}
      BY <1>0
    <3>2. w[i].k = (w[i - 1].k + 1) % SamplesPerCycle
      BY <3>1, Zenon DEF Whole
    <3> QED BY <3>2, Sizes
  <2>2. 2 - 1 = 1 /\ 3 - 1 = 2 /\ 4 - 1 = 3
    OBVIOUS
  <2>3. w[2].k = (w[1].k + 1) % 4 /\ w[3].k = (w[2].k + 1) % 4
        /\ w[4].k = (w[3].k + 1) % 4
    BY <2>1, <2>2, Zenon
  <2> QED BY <1>4, <2>3, Zenon
<1>6. \A j, k \in 0..3 : j = (k + 1) % 4 => IF k = 3 THEN j = 0 ELSE j = k + 1
  OBVIOUS
<1>7. PICK x, y : x = WindowPhasor(w).re /\ y = WindowPhasor(w).im
  OBVIOUS
<1>8. /\ x = GenerateSineWave(A, a) - GenerateSineWave(A, c)
      /\ y = GenerateSineWave(A, d) - GenerateSineWave(A, b)
  BY <1>3, <1>4, <1>7, WindowPhasorType
<1>9. /\ GenerateSineWave(A, 0) = 0 /\ GenerateSineWave(A, 1) = A
      /\ GenerateSineWave(A, 2) = 0 /\ GenerateSineWave(A, 3) = -A
  BY SineIs
<1>10. x \in Int /\ y \in Int /\ x * x + y * y = (2 * A) * (2 * A)
  <2>1. CASE a = 0
    <3>1. b = 1 /\ c = 2 /\ d = 3
      BY <1>5, <2>1
    <3>2. x = 0 /\ y = -(2 * A)
      BY <1>8, <1>9, <2>1, <3>1
    <3> QED BY <3>2
  <2>2. CASE a = 1
    <3>1. b = 2 /\ c = 3 /\ d = 0
      BY <1>5, <2>2
    <3>2. x = 2 * A /\ y = 0
      BY <1>8, <1>9, <2>2, <3>1
    <3> QED BY <3>2
  <2>3. CASE a = 2
    <3>1. b = 3 /\ c = 0 /\ d = 1
      BY <1>5, <2>3
    <3>2. x = 0 /\ y = 2 * A
      BY <1>8, <1>9, <2>3, <3>1
    <3> QED BY <3>2
  <2>4. CASE a = 3
    <3>1. b = 0 /\ c = 1 /\ d = 2
      BY <1>5, <2>4
    <3>2. x = -(2 * A) /\ y = 0
      BY <1>8, <1>9, <2>4, <3>1
    <3> QED BY <3>2
  <2> QED BY <2>1, <2>2, <2>3, <2>4
<1>11. WindowPhasor(w) \in Phasors
  BY WindowPhasorType
<1>12. Mag(WindowPhasor(w)) = A
  BY <1>7, <1>10, <1>11, MagOfSquare
<1> QED BY <1>1, <1>12

(* DifferentialProtection.evaluate, if it compares the same cycle of both  *)
(* sides, trips on a cycle of an internal fault with a current above the   *)
(* pickup, and does not on one with a current below it.                    *)
THEOREM WholeFaultTrips == Spec => []FaultTrips
<1> SUFFICES ASSUME DifferentialInv, NEW p \in Pusher, At(p, "handle"), Aligned(p),
                    NEW c \in Condition, c.kind = "internal", Whole(seen[p]["M"].from, c)
             PROVE  /\ CTRatio * c.current > MinTrip => dp.trip
                    /\ CTRatio * c.current < MinTrip => ~dp.trip
  <2>1. DifferentialInv => FaultTrips
    BY DEF FaultTrips
  <2> QED BY <2>1, DifferentialInvariant, PTL
<1>1. PICK m, n : m = seen[p]["M"].from /\ n = seen[p]["N"].from
  OBVIOUS
<1>2. /\ m \in Seq(Entry) /\ Len(m) = 4 /\ n \in Seq(Entry) /\ Len(n) = 4
      /\ \A i \in 1..4 : m[i].k = n[i].k /\ m[i].condition = n[i].condition
  BY <1>1, SameSamples DEF DifferentialInv
<1>3. /\ seen[p]["M"].phasor = WindowPhasor(m) /\ WaveOf("M", m)
      /\ seen[p]["N"].phasor = WindowPhasor(n) /\ WaveOf("N", n)
      /\ dp.trip = Decision(seen[p]["M"], seen[p]["N"])
  BY <1>1 DEF DifferentialInv, ReadInv, ReadAt, Cycle
<1>4. ASSUME NEW i \in 1..4
      PROVE  n[i].value = 0
  <2>0. i \in DOMAIN m /\ n[i] \in Entry
    BY <1>2, LenProperties
  <2>1. m[i].condition = c /\ c.kind = "internal" /\ n[i] \in Entry
    BY <1>1, <2>0 DEF Whole
  <2>2. n[i].k \in 0..3 /\ Current(n[i].condition, "N") = 0
    BY <1>2, <2>1 DEF Current, Entry
  <2>3. n[i].value = GenerateSineWave(0, n[i].k)
    BY <1>2, <1>3, <2>2 DEF WaveOf
  <2>4. PICK k \in 0..3 : k = n[i].k
    BY <2>2
  <2>5. GenerateSineWave(0, k) = 0
    BY SineIs
  <2> QED BY <2>3, <2>4, <2>5
<1>5. WindowPhasor(n) = [re |-> 0, im |-> 0]
  BY <1>2, <1>4, WindowPhasorType
<1>6. /\ WindowPhasor(m).re \in Int /\ WindowPhasor(m).im \in Int
      /\ WindowPhasor(m) = [re |-> WindowPhasor(m).re, im |-> WindowPhasor(m).im]
  BY <1>2, WindowPhasorType DEF Phasors
<1>7. Sub(WindowPhasor(m), WindowPhasor(n)) = WindowPhasor(m)
  BY <1>5, <1>6 DEF Sub
<1>8. PICK d \in Nat : d = CTRatio * c.current
  BY Sizes, CurrentIs DEF Side
<1>9. Mag(WindowPhasor(m)) = c.current /\ c.current \in Nat
  BY <1>1, <1>2, <1>3, CycleOfSine, CurrentIs DEF Side
<1>10. Mag(WindowPhasor(n)) = 0
  BY <1>5, MagOfZero
<1>11. Idiff(WindowPhasor(m), WindowPhasor(n)) = d
  BY <1>7, <1>8, <1>9 DEF Idiff
<1>12. Ires(WindowPhasor(m), WindowPhasor(n)) = d \div 2
  BY <1>8, <1>9, <1>10 DEF Ires
<1>13. dp.trip = CheckRestraint(d, d \div 2)
  BY <1>3, <1>11, <1>12 DEF Decision
<1>14. d > MinTrip => CheckRestraint(d, d \div 2)
  BY AbovePickup
<1>15. d < MinTrip => ~CheckRestraint(d, d \div 2)
  <2>1. d \div 2 \in Nat
    OBVIOUS
  <2> QED BY <2>1, BelowPickup
<1> QED BY <1>8, <1>13, <1>14, <1>15
=============================================================================
