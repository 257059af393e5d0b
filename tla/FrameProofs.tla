---------------------------- MODULE FrameProofs ------------------------------
(***************************************************************************)
(* What holds of every frame: in the parsers (FramePath) whatever its      *)
(* octets, of a frame that a sender encoded (WireFormat), and in the       *)
(* filter of MAC addresses before them (MacFilter).                        *)
(*                                                                         *)
(* The theorems of FramePath rest on BerAssumption and FrameAssumption     *)
(* alone; those of WireFormat also on ItemAssumption and SentAssumption.   *)
(***************************************************************************)
EXTENDS WireFormat, MacFilter, SequenceTheorems, WellFoundedInduction, TLAPS

-----------------------------------------------------------------------------
(* Numbers, and recursion on them.                                         *)

(* Min finds the least of some numbers.                                    *)
LEMMA LeastNumber ==
  ASSUME NEW S, S \subseteq Nat, S # {}
  PROVE  Min(S) \in S /\ \A y \in S : Min(S) =< y
<1> DEFINE R == OpToRel(<, Nat)
<1>1. \E x \in S : \A y \in S : ~(<<y, x>> \in R)
  BY WFMin, NatLessThanWellFounded
<1>2. \A x \in S, y \in S : ~(<<y, x>> \in R) => x <= y
  BY DEF OpToRel
<1>3. \E x \in S : \A y \in S : x =< y
  <2> HIDE DEF R
  <2> QED BY <1>1, <1>2
<1> QED BY <1>3 DEF Min

(* What holds of 0, and of n + 1 when it holds of n, holds of all numbers. *)
LEMMA Counting ==
  ASSUME NEW S, 0 \in S, \A n \in Nat : n \in S => n + 1 \in S
  PROVE  Nat \subseteq S
<1> DEFINE R == Nat \ S
<1>1. SUFFICES ASSUME R # {} PROVE FALSE
  OBVIOUS
<1>2. Min(R) \in R /\ \A y \in R : Min(R) =< y
  BY <1>1, LeastNumber
<1>3. PICK n : n = Min(R)
  OBVIOUS
<1>4. n \in Nat /\ n # 0 /\ n \notin S /\ \A y \in Nat : y \notin S => n <= y
  BY <1>2, <1>3
<1>5. n - 1 \in Nat /\ ~(n <= n - 1) /\ n - 1 + 1 = n
  BY <1>4
<1>6. n - 1 \in S
  BY <1>4, <1>5
<1>7. n - 1 + 1 \in S
  BY <1>5, <1>6
<1> QED BY <1>4, <1>5, <1>7

(* G's value at i depends on the values at places of a lower rank only.    *)
Recursive(D, X, G, rank) ==
  /\ X # {} /\ G \in [D -> [[D -> X] -> X]] /\ rank \in [D -> Nat]
  /\ \A i \in D : \A f, g \in [D -> X] :
       (\A j \in D : rank[j] < rank[i] => f[j] = g[j]) => G[i][f] = G[i][g]

(* There is a function that satisfies the recursive equations G.           *)
Solvable(D, X, G) == \E f \in [D -> X] : \A i \in D : f[i] = G[i][f]

(* Recursion along a rank defines a function.                              *)
LEMMA Recursion ==
  ASSUME NEW D, NEW X, NEW G, NEW rank, Recursive(D, X, G, rank)
  PROVE  Solvable(D, X, G)
<1> SUFFICES \E f \in [D -> X] : \A i \in D : f[i] = G[i][f]
  BY DEF Solvable
<1>0. /\ X # {} /\ G \in [D -> [[D -> X] -> X]] /\ rank \in [D -> Nat]
      /\ \A i \in D : \A f, g \in [D -> X] :
           (\A j \in D : rank[j] < rank[i] => f[j] = g[j]) => G[i][f] = G[i][g]
  BY DEF Recursive
<1> USE <1>0
<1> DEFINE F == [D -> X]
           Good(n, f) == \A i \in D : rank[i] < n => f[i] = G[i][f]
           Same(n, f, g) == \A i \in D : rank[i] < n => f[i] = g[i]
<1>1. \A n \in Nat : \A f, g \in F : Good(n, f) /\ Good(n, g) => Same(n, f, g)
  <2> DEFINE S == {n \in Nat : \A f, g \in F : Good(n, f) /\ Good(n, g) => Same(n, f, g)}
  <2>1. 0 \in S
    OBVIOUS
  <2>2. ASSUME NEW n \in Nat, n \in S PROVE n + 1 \in S
    <3>1. ASSUME NEW f \in F, NEW g \in F, Good(n + 1, f), Good(n + 1, g),
                 NEW i \in D, rank[i] < n + 1
          PROVE  f[i] = g[i]
      <4>1. Good(n, f) /\ Good(n, g)
        BY <3>1
      <4>2. Same(n, f, g)
        BY <2>2, <4>1
      <4>3. \A j \in D : rank[j] < rank[i] => f[j] = g[j]
        BY <3>1, <4>2
      <4>4. G[i][f] = G[i][g]
        BY <4>3
      <4> QED BY <3>1, <4>4
    <3>2. ASSUME NEW f \in F, NEW g \in F, Good(n + 1, f) /\ Good(n + 1, g)
          PROVE  Same(n + 1, f, g)
      BY <3>1, <3>2
    <3> HIDE DEF Good, Same
    <3> QED BY <3>2
  <2> HIDE DEF S
  <2>3. Nat \subseteq S
    BY <2>1, <2>2, Counting
  <2> QED BY <2>3 DEF S
<1>2. \A n \in Nat : \E f \in F : Good(n, f)
  <2> DEFINE S == {n \in Nat : \E f \in F : Good(n, f)}
  <2>1. 0 \in S
    <3>1. PICK x \in X : TRUE
      OBVIOUS
    <3>2. [i \in D |-> x] \in F /\ Good(0, [i \in D |-> x])
      OBVIOUS
    <3> QED BY <3>2
  <2>2. ASSUME NEW n \in Nat, n \in S PROVE n + 1 \in S
    <3>1. PICK f \in F : Good(n, f)
      BY <2>2
    <3> DEFINE h == [i \in D |-> G[i][f]]
    <3>2. h \in F
      OBVIOUS
    <3>3. ASSUME NEW i \in D, rank[i] < n + 1 PROVE h[i] = G[i][h]
      <4>1. \A j \in D : rank[j] < rank[i] => f[j] = h[j]
        BY <3>1, <3>3
      <4>2. G[i][f] = G[i][h]
        BY <3>2, <4>1
      <4> QED BY <4>2
    <3> HIDE DEF h
    <3>4. Good(n + 1, h)
      BY <3>3
    <3> QED BY <3>2, <3>4
  <2> HIDE DEF S
  <2>3. Nat \subseteq S
    BY <2>1, <2>2, Counting
  <2> QED BY <2>3 DEF S
<1> DEFINE upto(n) == CHOOSE f \in F : Good(n, f)
           all     == [i \in D |-> upto(rank[i] + 1)[i]]
<1>3. \A n \in Nat : upto(n) \in F /\ Good(n, upto(n))
  BY <1>2
<1> HIDE DEF upto
<1>4. \A i \in D : rank[i] \in Nat /\ rank[i] + 1 \in Nat /\ rank[i] < rank[i] + 1
  OBVIOUS
<1>5. all \in F
  BY <1>3, <1>4
<1>6. ASSUME NEW i \in D PROVE all[i] = G[i][all]
  <2>1. PICK f \in F : f = upto(rank[i] + 1)
    BY <1>3, <1>4
  <2>2. Good(rank[i] + 1, f)
    BY <1>3, <1>4, <2>1
  <2>3. all[i] = f[i] /\ f[i] = G[i][f]
    BY <1>4, <2>1, <2>2
  <2>4. ASSUME NEW j \in D, rank[j] < rank[i] PROVE all[j] = f[j]
    <3>1. Good(rank[j] + 1, f)
      BY <2>2, <2>4
    <3>2. Same(rank[j] + 1, upto(rank[j] + 1), f)
      <4> HIDE DEF Good, Same
      <4> QED BY <1>1, <1>3, <1>4, <3>1
    <3>3. upto(rank[j] + 1)[j] = f[j]
      BY <1>4, <3>2
    <3> QED BY <3>3
  <2> HIDE DEF all
  <2>5. G[i][all] = G[i][f]
    BY <1>5, <2>4
  <2> QED BY <2>3, <2>5
<1> QED BY <1>5, <1>6

(* Division and remainder of natural numbers.                              *)
LEMMA DivideIs ==
  ASSUME NEW M \in Nat, M > 0, NEW x \in Nat
  PROVE  /\ x \div M \in Nat /\ x % M \in Nat /\ x % M < M
         /\ x = (M * (x \div M)) + (x % M)
OBVIOUS

(* A multiple added to a number leaves its remainder.                      *)
LEMMA RemainderIs ==
  ASSUME NEW M \in Nat, M > 0, NEW v \in Nat, NEW t \in Nat, t < M,
         NEW y, y = (M * v) + t
  PROVE  y % M = t
OBVIOUS

(* A further digit of a number of which only the remainder is kept.        *)
LEMMA WrapIs ==
  \A x, b \in Nat :
    (((x % TagRange) * 128) + b) % TagRange = ((x * 128) + b) % TagRange
<1> SUFFICES ASSUME NEW M \in Nat, M > 0, M = TagRange, NEW x \in Nat, NEW b \in Nat
             PROVE  (((x % M) * 128) + b) % M = ((x * 128) + b) % M
  <2>1. TagRange \in Nat /\ TagRange > 0
    BY BerAssumption
  <2> QED BY <2>1
<1>1. PICK q, r \in Nat : q = x \div M /\ r = x % M /\ x = (M * q) + r
  BY DivideIs
<1>2. PICK y \in Nat : y = (r * 128) + b
  OBVIOUS
<1>3. PICK u, t \in Nat : u = y \div M /\ t = y % M /\ y = (M * u) + t /\ t < M
  BY DivideIs
<1>4. PICK z \in Nat : z = (x * 128) + b
  OBVIOUS
<1>5. PICK v \in Nat : v = (q * 128) + u
  OBVIOUS
<1>6. z = (M * v) + t
  <2>1. z = (((M * q) + r) * 128) + b
    BY <1>1, <1>4
  <2>2. (((M * q) + r) * 128) + b = ((M * q) * 128) + y
    BY <1>2
  <2>3. ((M * q) * 128) = M * (q * 128)
    OBVIOUS
  <2>4. (M * (q * 128)) + (M * u) = M * v
    BY <1>5
  <2>5. (M * q) * 128 \in Nat /\ M * u \in Nat /\ M * (q * 128) \in Nat
    OBVIOUS
  <2> QED BY <1>3, <2>1, <2>2, <2>3, <2>4, <2>5
<1>7. t < M
  BY <1>3
<1>8. z % M = t
  BY <1>6, <1>7, RemainderIs
<1> QED BY <1>1, <1>2, <1>3, <1>4, <1>8

(* Recursion on the numbers up to n, and what its values are.              *)
Iterates(n, X, a, step) ==
  \E f \in [0..n -> X] : f[0] = a /\ \A k \in 1..n : f[k] = step[k][f[k - 1]]

(* Such a recursion has a solution.                                        *)
LEMMA Iteration ==
  ASSUME NEW n \in Nat, NEW X, NEW a \in X, NEW step \in [1..n -> [X -> X]]
  PROVE  Iterates(n, X, a, step)
<1> DEFINE D == 0..n
           G == [k \in D |-> [f \in [D -> X] |->
                   IF k = 0 THEN a ELSE step[k][f[k - 1]]]]
           rank == [k \in D |-> k]
<1>0. \A k \in D : k # 0 => k - 1 \in D /\ k \in 1..n /\ k - 1 < k
  OBVIOUS
<1>1. G \in [D -> [[D -> X] -> X]]
  <2>1. ASSUME NEW k \in D, NEW f \in [D -> X]
        PROVE  (IF k = 0 THEN a ELSE step[k][f[k - 1]]) \in X
    BY <1>0
  <2> HIDE DEF D
  <2> QED BY <2>1
<1>2. rank \in [D -> Nat]
  OBVIOUS
<1>3. \A k \in D : \A f, g \in [D -> X] :
        (\A j \in D : rank[j] < rank[k] => f[j] = g[j]) => G[k][f] = G[k][g]
  <2> SUFFICES ASSUME NEW k \in D, NEW f \in [D -> X], NEW g \in [D -> X],
                      \A j \in D : rank[j] < rank[k] => f[j] = g[j]
               PROVE  G[k][f] = G[k][g]
    BY Zenon
  <2>1. k # 0 => k - 1 \in D /\ rank[k - 1] < rank[k]
    BY <1>0
  <2> HIDE DEF D, rank
  <2>2. k # 0 => f[k - 1] = g[k - 1]
    BY <2>1
  <2> QED BY <2>2
<1>4. X # {}
  OBVIOUS
<1>5. PICK f \in [D -> X] : \A k \in D : f[k] = G[k][f]
  <2> HIDE DEF D, G, rank
  <2>1. Recursive(D, X, G, rank)
    BY <1>1, <1>2, <1>3, <1>4, Zenon DEF Recursive
  <2>2. Solvable(D, X, G)
    BY <2>1, Recursion
  <2> QED BY <2>2, Zenon DEF Solvable
<1>6. \A k \in D : f[k] = IF k = 0 THEN a ELSE step[k][f[k - 1]]
  BY <1>5
<1>7. 0 \in D /\ \A k \in 1..n : k \in D /\ k # 0
  OBVIOUS
<1>8. f \in [0..n -> X]
  BY <1>5
<1> QED BY <1>6, <1>7, <1>8, Zenon DEF Iterates

(* A recursion on the numbers up to n stays in the set of its values.     *)
LEMMA IterationType ==
  ASSUME NEW n \in Nat, NEW X, NEW h, h[0] \in X,
         \A k \in 1..n : h[k - 1] \in X => h[k] \in X
  PROVE  \A k \in 0..n : h[k] \in X
<1> DEFINE S == {k \in Nat : k \in 0..n => h[k] \in X}
<1>1. 0 \in S
  OBVIOUS
<1>2. ASSUME NEW k \in Nat, k \in S PROVE k + 1 \in S
  <2>1. k + 1 \in 0..n => k \in 0..n /\ k + 1 \in 1..n /\ (k + 1) - 1 = k
    OBVIOUS
  <2> QED BY <1>2, <2>1
<1> HIDE DEF S
<1>3. Nat \subseteq S
  BY <1>1, <1>2, Counting
<1> QED BY <1>3 DEF S

(* Encode's recursion.                                                     *)
LEMMA EncodedUpToIs ==
  ASSUME NEW items, Len(items) \in Nat,
         \A k \in 1..Len(items) : Encode(items[k]) \in Seq(Octet)
  PROVE  /\ \A k \in 0..Len(items) : EncodedUpTo(items)[k] \in Seq(Octet)
         /\ EncodedUpTo(items)[0] = <<>>
         /\ \A k \in 1..Len(items) :
              EncodedUpTo(items)[k] = EncodedUpTo(items)[k - 1] \o Encode(items[k])
<1>1. PICK n \in Nat : n = Len(items)
  OBVIOUS
<1>2. PICK X : X = Seq(Octet)
  OBVIOUS
<1> DEFINE step == [k \in 1..n |-> [x \in X |-> x \o Encode(items[k])]]
<1>3. step \in [1..n -> [X -> X]] /\ <<>> \in X
  <2>1. \A k \in 1..n : \A x \in X : x \o Encode(items[k]) \in X
    BY <1>1, <1>2, ConcatProperties
  <2> QED BY <1>2, <2>1
<1>4. PICK f \in [0..n -> X] :
        f[0] = <<>> /\ \A k \in 1..n : f[k] = step[k][f[k - 1]]
  <2>1. step \in [1..n -> [X -> X]] /\ <<>> \in X /\ n \in Nat
    BY <1>3
  <2> HIDE DEF step
  <2>2. Iterates(n, X, <<>>, step)
    BY <2>1, Iteration, Zenon
  <2> QED BY <2>2, Zenon DEF Iterates
<1>5. \A k \in 1..n : k - 1 \in 0..n /\ k \in 0..n /\ k # 0
  OBVIOUS
<1>6. \A k \in 0..n : k # 0 => k \in 1..n
  OBVIOUS
<1>7. \A k \in 1..n : f[k] = f[k - 1] \o Encode(items[k])
  BY <1>4, <1>5, Zenon
<1>8. f = [k \in 0..n |-> IF k = 0 THEN <<>> ELSE f[k - 1] \o Encode(items[k])]
  BY <1>4, <1>6, <1>7, Zenon
<1>9. PICK h : h = EncodedUpTo(items)
  OBVIOUS
<1>10. h = [k \in 0..n |-> IF k = 0 THEN <<>> ELSE h[k - 1] \o Encode(items[k])]
  BY <1>1, <1>8, <1>9, Zenon DEF EncodedUpTo
<1>11. h[0] = <<>> /\ \A k \in 1..n : h[k] = h[k - 1] \o Encode(items[k])
  <2>1. 0 \in 0..n
    OBVIOUS
  <2>2. \A k \in 0..n : h[k] = IF k = 0 THEN <<>> ELSE h[k - 1] \o Encode(items[k])
    BY <1>10, Zenon
  <2> QED BY <1>5, <2>1, <2>2, Zenon
<1>12. \A k \in 0..n : h[k] \in X
  <2>1. ASSUME NEW k \in 1..n, h[k - 1] \in X PROVE h[k] \in X
    <3>1. Encode(items[k]) \in Seq(Octet) /\ h[k] = h[k - 1] \o Encode(items[k])
      BY <1>1, <1>11, Zenon
    <3> QED BY <1>2, <2>1, <3>1, ConcatProperties
  <2> QED BY <1>3, <1>11, <2>1, IterationType, Zenon
<1> QED BY <1>1, <1>2, <1>9, <1>11, <1>12

-----------------------------------------------------------------------------
(* BER elements.                                                           *)

(* A tag that ends does so behind the first octet.                         *)
LEMMA TagEndIs ==
  ASSUME NEW d \in Seq(Octet), TagEnd(d) # 0
  PROVE  TagEnd(d) \in Nat /\ TagEnd(d) >= 1
<1>1. LastOctets(d) \subseteq Nat /\ \A i \in LastOctets(d) : i >= 2
  BY LenProperties DEF LastOctets
<1>2. CASE LongTag(d) /\ LastOctets(d) # {}
  BY <1>1, <1>2, LeastNumber DEF TagEnd
<1>3. CASE ~LongTag(d) \/ LastOctets(d) = {}
  BY <1>3 DEF TagEnd
<1> QED BY <1>2, <1>3

(* The octets of a sequence are numbers up to 255.                         *)
LEMMA OctetIs ==
  ASSUME NEW d \in Seq(Octet), NEW i \in 1..Len(d)
  PROVE  d[i] \in Nat /\ d[i] <= 255
<1>1. \A x : x \in Octet => x \in Nat /\ x <= 255
  BY DEF Octet
<1>2. d[i] \in Octet
  BY ElementOfSeq
<1> QED BY <1>1, <1>2

(* The clipped length is a number again.                                   *)
LEMMA ClipIs == ASSUME NEW n \in Nat PROVE Clip(n) \in Nat
BY BerAssumption DEF Clip

(* The octets of a long length make a number.                              *)
LEMMA LongLengthIs ==
  ASSUME NEW d \in Seq(Octet), NEW p \in Nat, NEW more \in Nat,
         p >= 1, p + more <= Len(d)
  PROVE  LongLength(d, p, more) \in Nat
<1> DEFINE octet(k) == IF k <= more THEN d[p + more + 1 - k] ELSE 0
<1>1. \A k \in 1..4 : octet(k) \in Nat
  <2>1. \A i \in 1..Len(d) : d[i] \in Nat
    BY OctetIs
  <2> SUFFICES ASSUME NEW k \in 1..4 PROVE octet(k) \in Nat
    OBVIOUS
  <2>2. CASE k <= more
    <3>1. p + more + 1 - k \in 1..Len(d)
      BY <2>2, LenProperties
    <3> QED BY <2>1, <2>2, <3>1
  <2> QED BY <2>2
<1>2. LongLength(d, p, more)
        = Clip(256 * Clip(256 * Clip(256 * octet(4) + octet(3)) + octet(2)) + octet(1))
  BY DEF LongLength
<1> HIDE DEF octet
<1>3. \A a, b \in Nat : Clip(256 * a + b) \in Nat
  <2>1. \A a, b \in Nat : 256 * a + b \in Nat
    OBVIOUS
  <2> QED BY <2>1, ClipIs, Zenon
<1>4. octet(1) \in Nat /\ octet(2) \in Nat /\ octet(3) \in Nat /\ octet(4) \in Nat
  BY <1>1
<1>5. PICK a \in Nat : a = Clip(256 * octet(4) + octet(3))
  BY <1>3, <1>4, ZenonT(30)
<1>6. PICK b \in Nat : b = Clip(256 * a + octet(2))
  BY <1>3, <1>4, ZenonT(30)
<1>7. Clip(256 * b + octet(1)) \in Nat
  BY <1>3, <1>4, ZenonT(30)
<1> QED BY <1>2, <1>5, <1>6, <1>7, ZenonT(30)

(* The contents of an element begin behind its first two octets.           *)
LEMMA HeaderIs ==
  ASSUME NEW d \in Seq(Octet), Header(d).ok
  PROVE  /\ Header(d).start \in Nat /\ Header(d).start >= 3
         /\ Header(d).length \in Nat
<1>1. PICK p : p = TagEnd(d) + 1
  OBVIOUS
<1>2. PICK more : more = d[p] % 128
  OBVIOUS
<1>3. Header(d) =
        IF Len(d) < 2 \/ TagEnd(d) = 0 \/ p > Len(d) THEN Failed
        ELSE IF d[p] < 128 THEN [ok |-> TRUE, start |-> p + 1, length |-> d[p]]
        ELSE IF more = 0 \/ more > 4 \/ p + more > Len(d) THEN Failed
        ELSE [ok |-> TRUE, start |-> p + 1 + more, length |-> LongLength(d, p, more)]
  BY <1>1, <1>2, Zenon DEF Header
<1>4. ~(Len(d) < 2 \/ TagEnd(d) = 0 \/ p > Len(d))
  BY <1>3 DEF Failed
<1>5. p \in 1..Len(d) /\ p >= 2
  BY <1>1, <1>4, TagEndIs, LenProperties
<1>6. d[p] \in Nat /\ more \in Nat
  <2>1. d[p] \in Nat
    BY <1>5, OctetIs
  <2> QED BY <1>2, <2>1
<1>7. CASE d[p] < 128
  <2>1. Header(d) = [ok |-> TRUE, start |-> p + 1, length |-> d[p]]
    BY <1>3, <1>4, <1>7, Zenon
  <2> QED BY <1>5, <1>6, <2>1
<1>8. CASE ~(d[p] < 128)
  <2>1. ~(more = 0 \/ more > 4 \/ p + more > Len(d))
    BY <1>3, <1>4, <1>8 DEF Failed
  <2>2. Header(d) = [ok |-> TRUE, start |-> p + 1 + more, length |-> LongLength(d, p, more)]
    BY <1>3, <1>4, <1>8, <2>1, Zenon
  <2>3. LongLength(d, p, more) \in Nat
    BY <1>5, <1>6, <2>1, LongLengthIs, LenProperties
  <2> QED BY <1>5, <1>6, <2>2, <2>3
<1> QED BY <1>7, <1>8

(* What ParseBER returns lies within its input, and is all of it that      *)
(* GetElementLength counts.                                                *)
LEMMA ElementIs ==
  ASSUME NEW d \in Seq(Octet), ParseBER(d).ok
  PROVE  /\ GetElementLength(d) \in 2..Len(d)
         /\ ParseBER(d).data \in Seq(Octet)
         /\ Len(ParseBER(d).data) < Len(d)
         /\ ParseBER(d).full = d
<1>1. PICK h : h = Header(d)
  OBVIOUS
<1>2. ParseBER(d) =
        IF ~h.ok \/ GetElementLength(d) > Len(d) THEN Failed
        ELSE [ok |-> TRUE, tag |-> d[1], class |-> (d[1] \div 64) * 64,
              num |-> TagNumber(d), full |-> d,
              data |-> SubSeq(d, h.start, GetElementLength(d))]
  BY <1>1, Zenon DEF ParseBER
<1>3. h.ok /\ ~(GetElementLength(d) > Len(d))
  BY <1>2 DEF Failed
<1>4. ParseBER(d) = [ok |-> TRUE, tag |-> d[1], class |-> (d[1] \div 64) * 64,
                     num |-> TagNumber(d), full |-> d,
                     data |-> SubSeq(d, h.start, GetElementLength(d))]
  BY <1>2, <1>3, Zenon
<1>5. h.start \in Nat /\ h.start >= 3 /\ h.length \in Nat
  BY <1>1, <1>3, HeaderIs
<1>6. GetElementLength(d) = h.start - 1 + h.length
  BY <1>1, Zenon DEF GetElementLength
<1>7. GetElementLength(d) \in 2..Len(d)
  BY <1>3, <1>5, <1>6, LenProperties
<1>8. PICK lo, hi, n \in Nat : lo = h.start /\ hi = GetElementLength(d) /\ n = Len(d)
  BY <1>5, <1>7, LenProperties
<1>9. lo >= 3 /\ hi <= n
  BY <1>5, <1>7, <1>8
<1>10. PICK s : s = SubSeq(d, lo, hi)
  OBVIOUS
<1>11. s \in Seq(Octet) /\ Len(s) = (IF lo <= hi THEN hi - lo + 1 ELSE 0)
  <2>1. lo \in Int /\ hi \in Int /\ \A i \in lo..hi : i \in 1..n
    BY <1>9
  <2>2. \A i \in lo..hi : d[i] \in Octet
    BY <1>8, <2>1, ElementOfSeq, Zenon
  <2> QED BY <1>10, <2>1, <2>2, SubSeqProperties
<1>12. Len(s) < n
  <2>1. n >= 2
    BY <1>7, <1>8
  <2> QED BY <1>9, <1>11, <2>1
<1> QED BY <1>4, <1>7, <1>8, <1>10, <1>11, <1>12

-----------------------------------------------------------------------------
(* One round of the loop of parseGOOSEPDU leaves the header as it was: the *)
(* decoders ask for a number that is not the field's own.                  *)
LEMMA HeaderUntouched ==
  ASSUME NEW d, ParseBER(d).ok, ParseBER(d).full = d,
         NEW m, "header" \in DOMAIN m
  PROVE  LET filed == FileGoose(m, ParseBER(d))
         IN "header" \in DOMAIN filed /\ filed.header = m.header
<1>1. PICK e : e = ParseBER(d)
  OBVIOUS
<1>2. \A num : e.num # num => Primitive(d, num) = Failed
  BY <1>1, Zenon DEF Primitive
<1>3. e.num # TagInteger => ~DecodeUnsigned(d).ok
  BY <1>2 DEF DecodeUnsigned, DecodeInteger, Failed
<1>4. e.num # TagBoolean => ~DecodeBoolean(d).ok
  BY <1>2 DEF DecodeBoolean, Failed
<1>5. \A i, res : ~res.ok => HeaderField(m, i, res) = m
  BY DEF HeaderField
<1>6. e.full = d
  BY <1>1
<1>7. e.num \in {4, 5, 7} => HeaderField(m, e.num, DecodeUnsigned(e.full)) = m
  BY <1>3, <1>5, <1>6 DEF TagInteger
<1>8. e.num \in {6, 8, 9} => HeaderField(m, e.num, DecodeBoolean(e.full)) = m
  BY <1>4, <1>5, <1>6 DEF TagBoolean
<1>9. \A x : LET filed == [m EXCEPT !.text[e.num] = x]
             IN "header" \in DOMAIN filed /\ filed.header = m.header
  OBVIOUS
<1>10. \A x : LET filed == [m EXCEPT !.t = x]
              IN "header" \in DOMAIN filed /\ filed.header = m.header
  OBVIOUS
<1>11. \A x : LET filed == [m EXCEPT !.allData = x]
              IN "header" \in DOMAIN filed /\ filed.header = m.header
  OBVIOUS
<1> DEFINE filed == FileGoose(m, e)
<1>12. CASE e.class # ClassContext
  <2>1. filed = m
    BY <1>12, Zenon DEF FileGoose
  <2> QED BY <1>1, <2>1
<1>13. CASE e.class = ClassContext /\ e.num \in 0..2
  <2>1. filed = [m EXCEPT !.text[e.num] = e.data]
    BY <1>13 DEF FileGoose, AllDataTag
  <2> QED BY <1>1, <1>9, <2>1
<1>14. CASE e.class = ClassContext /\ e.num = 3
  <2>1. filed = [m EXCEPT !.t = @ \/ DecodeTimeStamp(e.full)]
    BY <1>14 DEF FileGoose, AllDataTag
  <2> QED BY <1>1, <1>10, <2>1
<1>15. CASE e.class = ClassContext /\ e.num \in 4..9
  <2>1. filed = m
    BY <1>7, <1>8, <1>15 DEF FileGoose, AllDataTag
  <2> QED BY <1>1, <2>1
<1>16. CASE e.class = ClassContext /\ e.num = AllDataTag
  <2>1. filed = IF ParseAllData[e.data].ok
                THEN [m EXCEPT !.allData = ParseAllData[e.data].attrs] ELSE m
    BY <1>16 DEF FileGoose, AllDataTag
  <2> QED BY <1>1, <1>11, <2>1
<1>17. CASE e.class = ClassContext /\ e.num \notin 0..9 /\ e.num # AllDataTag
  <2>1. filed = m
    BY <1>17 DEF FileGoose
  <2> QED BY <1>1, <2>1
<1> QED BY <1>12, <1>13, <1>14, <1>15, <1>16, <1>17
-----------------------------------------------------------------------------
(* The parser.                                                             *)

(* The iterator is in the PDU or at its end, and nothing has been put in   *)
(* the header of a GOOSE message.                                          *)
PathInv ==
  /\ frame \in Frames
  /\ pdu \in Seq(Octet) /\ at \in 0..Len(pdu)
  /\ stage = "wire" => at = 0
  /\ stage = "captured" => at = 0
  /\ stage \in {"pdu", "done"} /\ IsGoose =>
       "header" \in DOMAIN msg /\ \A i \in 4..9 : msg.header[i] = 0

(* Where the iterator stands is the rest of the PDU.                       *)
LEMMA RestIs ==
  ASSUME NEW d \in Seq(Octet), NEW i \in 0..Len(d), i < Len(d)
  PROVE  From(d, i + 1) \in Seq(Octet) /\ Len(From(d, i + 1)) = Len(d) - i
<1>1. i + 1 \in Int /\ Len(d) \in Int /\ i + 1 <= Len(d)
      /\ \A j \in (i + 1)..Len(d) : j \in 1..Len(d)
  BY LenProperties
<1>2. \A j \in (i + 1)..Len(d) : d[j] \in Octet
  BY <1>1, ElementOfSeq
<1>3. /\ SubSeq(d, i + 1, Len(d)) \in Seq(Octet)
      /\ Len(SubSeq(d, i + 1, Len(d))) =
           IF i + 1 <= Len(d) THEN Len(d) - (i + 1) + 1 ELSE 0
  BY <1>1, <1>2, SubSeqProperties
<1> QED BY <1>1, <1>3 DEF From

LEMMA NextElementAdvances ==
  ASSUME PathInv, NextElement
  PROVE  at' \in Nat /\ at' >= at + 2 /\ at' <= Len(pdu)
<1> DEFINE rest == From(pdu, at + 1)
<1>1. rest \in Seq(Octet) /\ Len(rest) = Len(pdu) - at
  BY RestIs DEF PathInv, NextElement
<1>2. ParseBER(rest).ok /\ at' = at + GetElementLength(rest)
  BY DEF NextElement
<1>3. GetElementLength(rest) \in 2..Len(rest)
  BY <1>1, <1>2, ElementIs
<1>4. at \in Nat /\ Len(pdu) \in Nat
  BY LenProperties DEF PathInv
<1> HIDE DEF rest
<1> QED BY <1>1, <1>2, <1>3, <1>4

LEMMA PathInit == Init => PathInv
<1> SUFFICES ASSUME Init PROVE PathInv
  OBVIOUS
<1>1. pdu \in Seq(Octet) /\ Len(pdu) = 0
  BY DEF Init
<1> QED BY <1>1 DEF Init, PathInv

LEMMA PathNext == PathInv /\ [Next]_vars => PathInv'
<1> SUFFICES ASSUME PathInv, [Next]_vars PROVE PathInv'
  OBVIOUS
<1>1. CASE Capture \/ Miss
  BY <1>1 DEF Capture, Miss, PathInv, IsGoose
<1>2. CASE OpenAPDU
  <2>1. frame.octets \in Seq(Octet) /\ frame' = frame /\ at' = at /\ at = 0
    BY <1>2, FrameAssumption DEF OpenAPDU, PathInv
  <2>2. CASE stage' = "error" /\ UNCHANGED <<pdu, msg>>
    BY <2>1, <2>2 DEF PathInv
  <2>3. CASE /\ ParseBER(frame.octets).ok
             /\ stage' = "pdu" /\ pdu' = ParseBER(frame.octets).data
             /\ msg' = IF frame.to = "sv" THEN EmptySV ELSE EmptyGoose
    <3>1. pdu' \in Seq(Octet)
      BY <2>1, <2>3, ElementIs
    <3>2. at' \in 0..Len(pdu')
      BY <2>1, <3>1, LenProperties
    <3>3. IsGoose' => msg' = EmptyGoose
      BY <2>1, <2>3 DEF IsGoose
    <3>4. "header" \in DOMAIN EmptyGoose /\ \A i \in 4..9 : EmptyGoose.header[i] = 0
      BY DEF EmptyGoose
    <3> QED BY <2>1, <2>3, <3>1, <3>2, <3>3, <3>4 DEF PathInv
  <2> QED BY <1>2, <2>2, <2>3, Zenon DEF OpenAPDU
<1>3. CASE NextElement
  <2> DEFINE rest == From(pdu, at + 1)
  <2>1. frame' = frame /\ stage = "pdu" /\ stage' = "pdu" /\ pdu' = pdu
    BY <1>3 DEF NextElement
  <2>2. at' \in 0..Len(pdu)
    BY <1>3, NextElementAdvances DEF PathInv
  <2>3. ASSUME IsGoose
        PROVE  "header" \in DOMAIN msg' /\ \A i \in 4..9 : msg'.header[i] = 0
    <3>1. msg' = FileGoose(msg, ParseBER(rest)) /\ ParseBER(rest).ok
      BY <1>3, <2>3, Zenon DEF NextElement, IsGoose
    <3>2. rest \in Seq(Octet)
      BY <1>3, RestIs DEF PathInv, NextElement
    <3>3. ParseBER(rest).full = rest
      BY <3>1, <3>2, ElementIs
    <3>4. "header" \in DOMAIN msg /\ \A i \in 4..9 : msg.header[i] = 0
      BY <2>1, <2>3 DEF PathInv
    <3> HIDE DEF rest
    <3>5. "header" \in DOMAIN msg' /\ msg'.header = msg.header
      BY <3>1, <3>3, <3>4, HeaderUntouched
    <3> QED BY <3>4, <3>5
  <2> QED BY <2>1, <2>2, <2>3 DEF PathInv, IsGoose
<1>4. CASE BadElement
  BY <1>4 DEF BadElement, PathInv, IsGoose
<1>5. CASE Finish
  BY <1>5 DEF Finish, PathInv, IsGoose
<1>6. CASE UNCHANGED vars
  BY <1>6 DEF vars, PathInv, IsGoose
<1> QED BY <1>1, <1>2, <1>3, <1>4, <1>5, <1>6 DEF Next

(* BERIterator never leaves the PDU, and what it parses lies in the frame. *)
THEOREM PathInvariant == Spec => []PathInv
BY PathInit, PathNext, PTL DEF Spec

(* parseGOOSEPDU never sets StNum, SqNum, Test, ConfRev, NdsCom and        *)
(* Simulation, whatever the octets of the frame (parser.go:92-123).        *)
THEOREM HeaderStaysZero == Spec => []HeaderNeverRead
<1>1. PathInv => HeaderNeverRead
  BY DEF PathInv, HeaderNeverRead
<1> QED BY <1>1, PathInvariant, PTL

(* Every round of the loop over a PDU moves the iterator on, within the    *)
(* PDU, by the two octets of a tag and a length at least.                  *)
RoundsAdvance ==
  [][stage = "pdu" /\ stage' = "pdu" =>
       pdu' = pdu /\ at' \in (at + 2)..Len(pdu)]_vars

(* The loops of parseGOOSEPDU and parseSVPDU end for every PDU, whatever   *)
(* its octets: BERIterator.Next never stays where it is.                   *)
THEOREM ParserAdvances == Spec => RoundsAdvance
<1>1. PathInv /\ [Next]_vars =>
        [stage = "pdu" /\ stage' = "pdu" =>
           pdu' = pdu /\ at' \in (at + 2)..Len(pdu)]_vars
  <2> SUFFICES ASSUME PathInv, Next, stage = "pdu", stage' = "pdu"
               PROVE  pdu' = pdu /\ at' \in (at + 2)..Len(pdu)
    OBVIOUS
  <2>1. NextElement
    BY DEF Next, Miss, Capture, OpenAPDU, BadElement, Finish
  <2>2. at' \in Nat /\ at' >= at + 2 /\ at' <= Len(pdu)
    BY <2>1, NextElementAdvances
  <2>3. at \in Nat /\ Len(pdu) \in Nat
    BY LenProperties DEF PathInv
  <2>4. pdu' = pdu
    BY <2>1 DEF NextElement
  <2> QED BY <2>2, <2>3, <2>4
<1> QED BY <1>1, PathInvariant, PTL DEF Spec, RoundsAdvance
-----------------------------------------------------------------------------
(* An item's tag and length, written and read back.                        *)

(* The last digit of a number, with and without the eighth bit.            *)
LEMMA DigitIs ==
  ASSUME NEW m \in Nat, m # 0
  PROVE  /\ m \div 128 \in Nat /\ m \div 128 < m
         /\ m % 128 \in Nat /\ m % 128 < 128
         /\ m = ((m \div 128) * 128) + (m % 128)
OBVIOUS

(* Octet holds every number below 256.                                     *)
LEMMA OctetsAre == \A x \in Nat : x < 256 => x \in Octet
BY DEF Octet

(* NumberOctetsBefore's recursion.                                         *)
LEMMA NumberOctetsBeforeIs ==
  \A m \in Nat :
    /\ NumberOctetsBefore[m] \in Seq(Octet)
    /\ NumberOctetsBefore[m] =
         IF m = 0 THEN <<>>
         ELSE Append(NumberOctetsBefore[m \div 128], 128 + (m % 128))
<1>1. PICK X : X = Seq(Octet)
  OBVIOUS
<1>2. <<>> \in X /\ X # {}
  <2>1. <<>> \in X
    BY <1>1
  <2> QED BY <2>1, Zenon
<1>3. \A m \in Nat : m # 0 => m \div 128 \in Nat /\ m \div 128 < m /\ 128 + (m % 128) \in Octet
  <2>1. \A m \in Nat : m # 0 => m \div 128 \in Nat /\ m \div 128 < m
                                  /\ 128 + (m % 128) \in Nat /\ 128 + (m % 128) < 256
    BY DigitIs
  <2> QED BY <2>1, OctetsAre
<1>4. \A m \in Nat : \A s \in X : m # 0 => Append(s, 128 + (m % 128)) \in X
  BY <1>1, <1>3, AppendProperties
<1> DEFINE G == [m \in Nat |-> [f \in [Nat -> X] |->
                   IF m = 0 THEN <<>> ELSE Append(f[m \div 128], 128 + (m % 128))]]
           rank == [m \in Nat |-> m]
<1>5. Recursive(Nat, X, G, rank)
  <2>1. G \in [Nat -> [[Nat -> X] -> X]]
    <3>1. ASSUME NEW m \in Nat, NEW f \in [Nat -> X]
          PROVE  (IF m = 0 THEN <<>> ELSE Append(f[m \div 128], 128 + (m % 128))) \in X
      <4>1. m # 0 => f[m \div 128] \in X
        BY <1>3
      <4> QED BY <1>2, <1>4, <4>1, Zenon
    <3> QED BY <3>1, Zenon
  <2>2. ASSUME NEW m \in Nat, NEW f \in [Nat -> X], NEW g \in [Nat -> X],
               \A j \in Nat : rank[j] < rank[m] => f[j] = g[j]
        PROVE  G[m][f] = G[m][g]
    <3>1. \A j \in Nat : rank[j] = j
      OBVIOUS
    <3> HIDE DEF rank
    <3>2. m # 0 => f[m \div 128] = g[m \div 128]
      BY <1>3, <2>2, <3>1
    <3> QED BY <3>2, Zenon
  <2>3. rank \in [Nat -> Nat]
    OBVIOUS
  <2> HIDE DEF G, rank
  <2> QED BY <1>2, <2>1, <2>2, <2>3, Zenon DEF Recursive
<1>6. PICK f \in [Nat -> X] : \A m \in Nat : f[m] = G[m][f]
  <2> HIDE DEF G, rank
  <2>1. Solvable(Nat, X, G)
    BY <1>5, Recursion
  <2> QED BY <2>1, Zenon DEF Solvable
<1>7. \A m \in Nat : f[m] = IF m = 0 THEN <<>> ELSE Append(f[m \div 128], 128 + (m % 128))
  BY <1>6, Zenon
<1>8. f = [m \in Nat |-> IF m = 0 THEN <<>> ELSE Append(f[m \div 128], 128 + (m % 128))]
  BY <1>7, Zenon
<1>9. PICK h : h = NumberOctetsBefore
  OBVIOUS
<1>10. h = [m \in Nat |-> IF m = 0 THEN <<>> ELSE Append(h[m \div 128], 128 + (m % 128))]
  <2> DEFINE P(x) == x = [m \in Nat |-> IF m = 0 THEN <<>>
                                        ELSE Append(x[m \div 128], 128 + (m % 128))]
  <2>1. h = CHOOSE x : P(x)
    BY <1>9, Zenon DEF NumberOctetsBefore
  <2>2. P(f)
    BY <1>8, Zenon
  <2> HIDE DEF P
  <2>3. P(h)
    BY <2>1, <2>2, Zenon
  <2> QED BY <2>3, Zenon DEF P
<1>11. \A m \in Nat : h[m] = IF m = 0 THEN <<>> ELSE Append(h[m \div 128], 128 + (m % 128))
  BY <1>10, Zenon
<1>12. \A m \in Nat : h[m] \in X
  <2> DEFINE S == {n \in Nat : \A m \in 0..n : h[m] \in X}
  <2>1. 0 \in S
    BY <1>2, <1>11
  <2>2. ASSUME NEW n \in Nat, n \in S PROVE n + 1 \in S
    <3>1. h[n + 1] \in X
      <4>1. PICK k \in Nat : k = n + 1 /\ k # 0
        OBVIOUS
      <4>2. k \div 128 \in 0..n
        BY <1>3, <4>1
      <4>3. h[k \div 128] \in X
        BY <2>2, <4>2
      <4>4. h[k] = Append(h[k \div 128], 128 + (k % 128))
        BY <1>11, <4>1, Zenon
      <4>5. h[k] \in X
        BY <1>4, <4>1, <4>3, <4>4, ZenonT(30)
      <4> QED BY <4>1, <4>5, Zenon
    <3>2. \A m \in 0..(n + 1) : m \in 0..n \/ m = n + 1
      OBVIOUS
    <3> QED BY <2>2, <3>1, <3>2
  <2>3. Nat \subseteq S
    <3> HIDE DEF S
    <3> QED BY <2>1, <2>2, Counting
  <2>4. \A m \in Nat : m \in S /\ m \in 0..m
    <3>1. \A m \in Nat : m \in 0..m
      OBVIOUS
    <3> HIDE DEF S
    <3> QED BY <2>3, <3>1
  <2> QED BY <2>4
<1> QED BY <1>1, <1>9, <1>11, <1>12, Zenon

(* TagNumber's loop.                                                       *)
LEMMA NumberUpToIs ==
  ASSUME NEW d \in Seq(Octet), NEW last \in 1..Len(d)
  PROVE  /\ \A i \in 1..last : NumberUpTo(d, last)[i] \in Nat
         /\ NumberUpTo(d, last)[1] = 0
         /\ \A i \in 2..last :
              NumberUpTo(d, last)[i] =
                (NumberUpTo(d, last)[i - 1] * 128 + (d[i] % 128)) % TagRange
<1>0. last \in Nat /\ last >= 1 /\ Len(d) \in Nat /\ last <= Len(d)
  BY LenProperties
<1>1. \A i \in 1..last : d[i] \in Nat
  BY <1>0, OctetIs
<1>2. PICK n \in Nat : last = n + 1
  <2>1. last - 1 \in Nat /\ last = (last - 1) + 1
    BY <1>0
  <2> QED BY <2>1
<1> DEFINE step == [k \in 1..n |-> [x \in Nat |-> (x * 128 + (d[k + 1] % 128)) % TagRange]]
<1>3. \A k \in 1..n : \A x \in Nat : (x * 128 + (d[k + 1] % 128)) % TagRange \in Nat
  <2> SUFFICES ASSUME NEW k \in 1..n, NEW x \in Nat
               PROVE  (x * 128 + (d[k + 1] % 128)) % TagRange \in Nat
    OBVIOUS
  <2>1. k + 1 \in 1..last
    BY <1>2
  <2>2. d[k + 1] \in Nat
    BY <1>1, <2>1
  <2>3. PICK y \in Nat : y = x * 128 + (d[k + 1] % 128)
    BY <2>2
  <2>4. y % TagRange \in Nat
    BY BerAssumption, DivideIs
  <2> QED BY <2>3, <2>4
<1>4. step \in [1..n -> [Nat -> Nat]]
  BY <1>3, Zenon
<1>5. PICK f \in [0..n -> Nat] : f[0] = 0 /\ \A k \in 1..n : f[k] = step[k][f[k - 1]]
  <2> HIDE DEF step
  <2>1. Iterates(n, Nat, 0, step)
    BY <1>4, Iteration
  <2> QED BY <2>1, Zenon DEF Iterates
<1>6. \A k \in 1..n : f[k] = (f[k - 1] * 128 + (d[k + 1] % 128)) % TagRange
  <2>1. \A k \in 1..n : k - 1 \in 0..n
    OBVIOUS
  <2> QED BY <1>5, <2>1, Zenon
<1> DEFINE g == [i \in 1..last |-> f[i - 1]]
<1>7. g = [i \in 1..last |-> IF i = 1 THEN 0 ELSE (g[i - 1] * 128 + (d[i] % 128)) % TagRange]
  <2>1. ASSUME NEW i \in 1..last
        PROVE  f[i - 1] = IF i = 1 THEN 0 ELSE (g[i - 1] * 128 + (d[i] % 128)) % TagRange
    <3>1. CASE i = 1
      BY <1>5, <3>1
    <3>2. CASE i # 1
      <4>1. i - 1 \in 1..n /\ i - 1 \in 1..last /\ (i - 1) + 1 = i
        BY <1>2, <3>2
      <4>2. PICK k \in 1..n : k = i - 1 /\ k \in 1..last /\ k + 1 = i
        BY <4>1
      <4>3. f[k] = (f[k - 1] * 128 + (d[i] % 128)) % TagRange
        BY <1>6, <4>2, Zenon
      <4>4. g[k] = f[k - 1]
        BY <4>2, Zenon
      <4> QED BY <3>2, <4>2, <4>3, <4>4, Zenon
    <3> QED BY <3>1, <3>2
  <2>2. g = [i \in 1..last |-> f[i - 1]]
    OBVIOUS
  <2> HIDE DEF g
  <2> QED BY <2>1, <2>2, ZenonT(30)
<1> HIDE DEF g
<1>8. PICK h : h = NumberUpTo(d, last)
  OBVIOUS
<1>9. h = [i \in 1..last |-> IF i = 1 THEN 0 ELSE (h[i - 1] * 128 + (d[i] % 128)) % TagRange]
  <2> DEFINE P(x) == x = [i \in 1..last |->
                        IF i = 1 THEN 0 ELSE (x[i - 1] * 128 + (d[i] % 128)) % TagRange]
  <2>1. h = CHOOSE x : P(x)
    BY <1>8, Zenon DEF NumberUpTo
  <2>2. P(g)
    BY <1>7
  <2>3. P(h)
    <3> HIDE DEF P
    <3> QED BY <2>1, <2>2
  <2> QED BY <2>3
<1>10. \A i \in 1..last : h[i] = IF i = 1 THEN 0 ELSE (h[i - 1] * 128 + (d[i] % 128)) % TagRange
  BY <1>9, Zenon
<1>11. h[1] = 0
  <2>1. 1 \in 1..last
    BY <1>0
  <2> QED BY <1>10, <2>1, Zenon
<1>12. \A i \in 2..last : h[i] = (h[i - 1] * 128 + (d[i] % 128)) % TagRange
  <2>1. \A i \in 2..last : i \in 1..last /\ i # 1
    BY <1>0
  <2> QED BY <1>10, <2>1, Zenon
<1>13. \A k \in 0..n : h[k + 1] \in Nat
  <2> DEFINE s == [k \in 0..n |-> h[k + 1]]
  <2>1. s[0] \in Nat
    BY <1>11
  <2>2. ASSUME NEW k \in 1..n, s[k - 1] \in Nat PROVE s[k] \in Nat
    <3>1. k \in 0..n /\ k - 1 \in 0..n /\ (k - 1) + 1 = k /\ k + 1 \in 2..last /\ (k + 1) - 1 = k
      BY <1>2
    <3>2. s[k] = h[k + 1] /\ s[k - 1] = h[k]
      BY <3>1, Zenon
    <3>3. h[k + 1] = (h[k] * 128 + (d[k + 1] % 128)) % TagRange
      BY <1>12, <3>1
    <3>4. (h[k] * 128 + (d[k + 1] % 128)) % TagRange \in Nat
      BY <1>3, <2>2, <3>2
    <3> QED BY <3>2, <3>3, <3>4
  <2>3. \A k \in 0..n : s[k] \in Nat
    <3> HIDE DEF s
    <3> QED BY <2>1, <2>2, IterationType
  <2> QED BY <2>3
<1>14. \A i \in 1..last : h[i] \in Nat
  <2>1. \A i \in 1..last : i - 1 \in 0..n /\ (i - 1) + 1 = i
    BY <1>2
  <2> QED BY <1>13, <2>1
<1> QED BY <1>8, <1>11, <1>12, <1>14, Zenon

(* The octets behind the first one of a tag number, read back.             *)
LEMMA NumberBeforeRead ==
  ASSUME NEW d \in Seq(Octet), NEW last \in 1..Len(d), NEW m \in Nat,
         1 + Len(NumberOctetsBefore[m]) <= last,
         \A i \in 1..Len(NumberOctetsBefore[m]) : d[1 + i] = NumberOctetsBefore[m][i]
  PROVE  /\ NumberUpTo(d, last)[1 + Len(NumberOctetsBefore[m])] = m % TagRange
         /\ \A i \in 1..Len(NumberOctetsBefore[m]) : NumberOctetsBefore[m][i] >= 128
<1> DEFINE N == NumberOctetsBefore
           Lead(k) == /\ 1 + Len(N[k]) <= last
                      /\ \A i \in 1..Len(N[k]) : d[1 + i] = N[k][i]
           Done(k) == /\ NumberUpTo(d, last)[1 + Len(N[k])] = k % TagRange
                      /\ \A i \in 1..Len(N[k]) : N[k][i] >= 128
           S == {n \in Nat : \A k \in 0..n : Lead(k) => Done(k)}
<1> USE BerAssumption
<1>0. last \in Nat /\ last >= 1
  BY LenProperties
<1>1. ASSUME Lead(0) PROVE Done(0)
  <2>1. N[0] = <<>>
    BY NumberOctetsBeforeIs
  <2>2. Len(N[0]) = 0
    BY <2>1
  <2>3. NumberUpTo(d, last)[1] = 0
    BY NumberUpToIs
  <2>4. 0 % TagRange = 0
    OBVIOUS
  <2> QED BY <2>2, <2>3, <2>4
<1>2. ASSUME NEW k \in Nat, k # 0, Lead(k \div 128) => Done(k \div 128), Lead(k)
      PROVE  Done(k)
  <2>1. PICK q, r \in Nat : q = k \div 128 /\ r = k % 128 /\ r < 128 /\ k = (q * 128) + r
    BY <1>2, DigitIs, SMTT(30)
  <2>2. N[q] \in Seq(Octet) /\ N[k] = Append(N[q], 128 + r) /\ Len(N[q]) \in Nat
    <3>1. N[k] = IF k = 0 THEN <<>> ELSE Append(N[k \div 128], 128 + (k % 128))
      BY NumberOctetsBeforeIs, ZenonT(30)
    <3>2. N[k] = Append(N[q], 128 + r)
      BY <1>2, <2>1, <3>1, ZenonT(30)
    <3>3. N[q] \in Seq(Octet)
      BY NumberOctetsBeforeIs, ZenonT(30)
    <3> QED BY <3>2, <3>3, LenProperties
  <2>3. PICK l \in Nat : l = Len(N[q])
    BY <2>2
  <2>4. 128 + r \in Octet
    BY <2>1, OctetsAre
  <2>5. /\ Len(N[k]) = l + 1 /\ N[k][l + 1] = 128 + r
        /\ \A i \in 1..l : N[k][i] = N[q][i]
    BY <2>2, <2>3, <2>4, AppendProperties
  <2>6. Lead(q)
    <3>1. 1 + (l + 1) <= last
      BY <1>2, <2>5
    <3>2. \A i \in 1..l : i \in 1..(l + 1)
      OBVIOUS
    <3>3. \A i \in 1..l : d[1 + i] = N[q][i]
      BY <1>2, <2>5, <3>2
    <3> QED BY <2>3, <3>1, <3>3, <1>0
  <2>7. NumberUpTo(d, last)[1 + l] = q % TagRange /\ \A i \in 1..l : N[q][i] >= 128
    BY <1>2, <2>1, <2>3, <2>6
  <2>8. d[l + 2] = 128 + r
    <3>1. l + 1 \in 1..Len(N[k]) /\ 1 + (l + 1) = l + 2
      BY <2>5
    <3> QED BY <1>2, <2>5, <3>1, SMTT(30)
  <2>9. NumberUpTo(d, last)[l + 2] = k % TagRange
    <3>1. l + 2 \in 2..last /\ (l + 2) - 1 = 1 + l
      BY <1>2, <1>0, <2>5
    <3>2. NumberUpTo(d, last)[l + 2]
            = (NumberUpTo(d, last)[1 + l] * 128 + (d[l + 2] % 128)) % TagRange
      BY <3>1, NumberUpToIs, SMTT(30)
    <3>3. (128 + r) % 128 = r
      BY <2>1
    <3>4. NumberUpTo(d, last)[l + 2] = (((q % TagRange) * 128) + r) % TagRange
      BY <2>7, <2>8, <3>2, <3>3
    <3>5. (((q % TagRange) * 128) + r) % TagRange = ((q * 128) + r) % TagRange
      BY WrapIs, ZenonT(30)
    <3> QED BY <2>1, <3>4, <3>5
  <2>10. \A i \in 1..(l + 1) : N[k][i] >= 128
    <3>1. \A i \in 1..(l + 1) : i \in 1..l \/ i = l + 1
      OBVIOUS
    <3>2. 128 + r >= 128
      BY <2>1
    <3> QED BY <2>5, <2>7, <3>1, <3>2
  <2>11. 1 + Len(N[k]) = l + 2
    BY <2>5
  <2> QED BY <2>5, <2>9, <2>10, <2>11
<1> HIDE DEF Lead, Done
<1>3. 0 \in S
  <2>1. \A k \in 0..0 : k = 0
    OBVIOUS
  <2> QED BY <1>1, <2>1
<1>4. ASSUME NEW n \in Nat, n \in S PROVE n + 1 \in S
  <2>1. PICK k \in Nat : k = n + 1 /\ k # 0
    OBVIOUS
  <2>2. k \div 128 \in 0..n
    BY <2>1, DigitIs
  <2>3. Lead(k \div 128) => Done(k \div 128)
    BY <1>4, <2>2
  <2>4. Lead(k) => Done(k)
    BY <1>2, <2>1, <2>3
  <2>5. \A j \in 0..(n + 1) : j \in 0..n \/ j = k
    BY <2>1
  <2> QED BY <1>4, <2>4, <2>5
<1>5. m \in S
  <2> HIDE DEF S
  <2> QED BY <1>3, <1>4, Counting
<1>6. m \in 0..m
  OBVIOUS
<1>7. Lead(m) => Done(m)
  BY <1>5, <1>6
<1> QED BY <1>7 DEF Lead, Done

(* What identifies an item in front of any data.                           *)
LEMMA IdentifierIs ==
  ASSUME NEW x \in Item
  PROVE  /\ Identifier(x) \in Seq(Octet) /\ Len(Identifier(x)) >= 1
         /\ Identifier(x)[1] = x.class + (IF x.parts # <<>> THEN 32 ELSE 0)
                                 + (IF x.num < 31 THEN x.num ELSE 31)
         /\ x.num < 31 => Len(Identifier(x)) = 1
         /\ ~(x.num < 31) =>
              LET before == NumberOctetsBefore[x.num \div 128]
              IN /\ Len(Identifier(x)) = Len(before) + 2
                 /\ \A i \in 1..Len(before) : Identifier(x)[1 + i] = before[i]
                 /\ Identifier(x)[Len(before) + 2] = x.num % 128
<1>1. x.class \in {0, 64, 128, 192} /\ x.num \in Nat
  BY ItemAssumption
<1>2. PICK first \in Nat : first = x.class + (IF x.parts # <<>> THEN 32 ELSE 0)
  BY <1>1
<1>3. first <= 224
  BY <1>1, <1>2
<1>4. Identifier(x) = IF x.num < 31 THEN <<first + x.num>>
                      ELSE <<first + 31>> \o NumberOctets(x.num)
  BY <1>2, Zenon DEF Identifier
<1>5. CASE x.num < 31
  <2>1. Identifier(x) = <<first + x.num>>
    BY <1>4, <1>5
  <2>2. first + x.num \in Octet
    BY <1>1, <1>3, <1>5, OctetsAre
  <2>3. /\ Identifier(x) \in Seq(Octet) /\ Len(Identifier(x)) = 1
        /\ Identifier(x)[1] = first + x.num
    BY <2>1, <2>2
  <2> QED BY <1>2, <1>5, <2>3
<1>6. CASE ~(x.num < 31)
  <2>1. PICK q, r \in Nat : q = x.num \div 128 /\ r = x.num % 128 /\ r < 128
    <3>1. x.num # 0
      BY <1>6
    <3> QED BY <1>1, <3>1, DigitIs
  <2>2. PICK b : b = NumberOctetsBefore[q]
    OBVIOUS
  <2>3. b \in Seq(Octet) /\ Len(b) \in Nat
    BY <2>2, NumberOctetsBeforeIs, LenProperties
  <2>4. r \in Octet /\ first + 31 \in Octet
    BY <1>3, <2>1, OctetsAre
  <2>5. Identifier(x) = <<first + 31>> \o Append(b, r)
    BY <1>4, <1>6, <2>1, <2>2 DEF NumberOctets
  <2>6. /\ Append(b, r) \in Seq(Octet) /\ Len(Append(b, r)) = Len(b) + 1
        /\ Append(b, r)[Len(b) + 1] = r
        /\ \A i \in 1..Len(b) : Append(b, r)[i] = b[i]
    BY <2>3, <2>4, AppendProperties
  <2>7. PICK u : u = <<first + 31>>
    OBVIOUS
  <2>8. u \in Seq(Octet) /\ Len(u) = 1 /\ u[1] = first + 31
    BY <2>4, <2>7
  <2>9. PICK v : v = Append(b, r)
    OBVIOUS
  <2>10. v \in Seq(Octet) /\ Len(v) = Len(b) + 1
    BY <2>6, <2>9
  <2>11. /\ u \o v \in Seq(Octet) /\ Len(u \o v) = Len(u) + Len(v)
         /\ \A i \in 1..(Len(u) + Len(v)) :
              (u \o v)[i] = IF i <= Len(u) THEN u[i] ELSE v[i - Len(u)]
    BY <2>8, <2>10, ConcatProperties, Zenon
  <2>12. PICK id : id = u \o v
    OBVIOUS
  <2>13. id = Identifier(x)
    BY <2>5, <2>7, <2>9, <2>12, Zenon
  <2>14. /\ id \in Seq(Octet) /\ Len(id) = Len(b) + 2
         /\ \A i \in 1..(Len(b) + 2) : id[i] = IF i <= 1 THEN u[i] ELSE v[i - 1]
    BY <2>3, <2>8, <2>10, <2>11, <2>12
  <2>15. id[1] = first + 31
    BY <2>3, <2>8, <2>14
  <2>16. \A i \in 1..Len(b) : id[1 + i] = b[i]
    <3>1. \A i \in 1..Len(b) : 1 + i \in 1..(Len(b) + 2) /\ ~(1 + i <= 1) /\ (1 + i) - 1 = i
      BY <2>3
    <3>2. \A i \in 1..Len(b) : v[i] = b[i]
      BY <2>6, <2>9
    <3> QED BY <2>14, <3>1, <3>2
  <2>17. id[Len(b) + 2] = r
    <3>1. /\ Len(b) + 2 \in 1..(Len(b) + 2) /\ ~(Len(b) + 2 <= 1)
          /\ (Len(b) + 2) - 1 = Len(b) + 1
      BY <2>3
    <3>2. v[Len(b) + 1] = r
      BY <2>6, <2>9
    <3> QED BY <2>14, <3>1, <3>2
  <2>18. Len(id) >= 1
    BY <2>3, <2>14
  <2> QED BY <1>2, <1>6, <2>1, <2>2, <2>13, <2>14, <2>15, <2>16, <2>17, <2>18
<1> QED BY <1>5, <1>6

(* The length octets, written and read.                                    *)
LEMMA LengthDigitsAre ==
  ASSUME NEW n \in Nat
  PROVE  /\ \A k \in 1..3 : LengthDigits(n)[k] \in Nat /\ LengthDigits(n)[k] < 256
         /\ LengthDigits(n)[4] \in Nat
         /\ n = 256 * (256 * (256 * LengthDigits(n)[4] + LengthDigits(n)[3])
                         + LengthDigits(n)[2]) + LengthDigits(n)[1]
<1>1. PICK a, b, c \in Nat : a = n \div 256 /\ b = a \div 256 /\ c = b \div 256
  OBVIOUS
<1>2. /\ LengthDigits(n)[1] = n % 256 /\ LengthDigits(n)[2] = a % 256
      /\ LengthDigits(n)[3] = b % 256 /\ LengthDigits(n)[4] = c
  BY <1>1 DEF LengthDigits
<1>3. n = 256 * a + (n % 256) /\ a = 256 * b + (a % 256) /\ b = 256 * c + (b % 256)
  BY <1>1
<1>4. n % 256 \in 0..255 /\ a % 256 \in 0..255 /\ b % 256 \in 0..255
  OBVIOUS
<1>5. \A k \in 1..3 : k = 1 \/ k = 2 \/ k = 3
  OBVIOUS
<1> QED BY <1>2, <1>3, <1>4, <1>5

(* Which octets a length consists of.                                      *)
LEMMA LengthOctetsAre ==
  ASSUME NEW n \in Nat, NEW pad \in 0..4, Fits(n, pad)
  PROVE  /\ LengthOctets(n, pad) \in Seq(Octet) /\ Len(LengthOctets(n, pad)) = 1 + pad
         /\ LengthOctets(n, pad)[1] = IF pad = 0 THEN n ELSE 128 + pad
         /\ pad = 0 => n < 128
         /\ \A k \in 1..pad : LengthOctets(n, pad)[pad + 2 - k] = LengthDigits(n)[k]
         /\ pad # 0 => \A k \in 1..4 : k > pad => LengthDigits(n)[k] = 0
<1>1. CASE pad = 0
  <2>1. n < 128
    BY <1>1 DEF Fits
  <2>2. n \in Octet
    BY <2>1, OctetsAre
  <2>3. LengthOctets(n, pad) = <<n>>
    BY <1>1 DEF LengthOctets
  <2>4. PICK w : w = LengthOctets(n, pad)
    OBVIOUS
  <2>5. w \in Seq(Octet) /\ Len(w) = 1 /\ w[1] = n
    BY <2>2, <2>3, <2>4
  <2>6. \A k \in 1..pad : FALSE
    BY <1>1
  <2>7. Len(w) = 1 + pad
    BY <1>1, <2>5
  <2> QED BY <1>1, <2>1, <2>4, <2>5, <2>6, <2>7, Zenon
<1>2. CASE pad # 0
  <2>1. PICK D : D = LengthDigits(n)
    OBVIOUS
  <2>2. D[4] < 256 /\ \A k \in (pad + 1)..4 : D[k] = 0
    BY <1>2, <2>1 DEF Fits
  <2>3. \A k \in 1..4 : D[k] \in Octet
    <3>1. \A k \in 1..4 : D[k] \in Nat /\ D[k] < 256
      <4>1. \A k \in 1..4 : k \in 1..3 \/ k = 4
        OBVIOUS
      <4> QED BY <2>1, <2>2, <4>1, LengthDigitsAre
    <3> QED BY <3>1, OctetsAre
  <2>4. PICK v : v = [i \in 1..pad |-> D[pad + 1 - i]]
    OBVIOUS
  <2>5. \A i \in 1..pad : v[i] \in Octet
    <3>1. \A i \in 1..pad : pad + 1 - i \in 1..4
      BY <1>2
    <3> QED BY <2>3, <2>4, <3>1
  <2>6. v \in Seq(Octet) /\ Len(v) = pad
    <3>1. pad \in Nat
      OBVIOUS
    <3>2. v \in [1..pad -> Octet]
      BY <2>4, <2>5
    <3> QED BY <3>1, <3>2
  <2>7. 128 + pad \in Octet
    BY OctetsAre
  <2>8. PICK u : u = <<128 + pad>>
    OBVIOUS
  <2>9. u \in Seq(Octet) /\ Len(u) = 1 /\ u[1] = 128 + pad
    BY <2>7, <2>8
  <2>10. LengthOctets(n, pad) = u \o v
    BY <1>2, <2>1, <2>4, <2>8 DEF LengthOctets
  <2>11. /\ u \o v \in Seq(Octet) /\ Len(u \o v) = Len(u) + Len(v)
         /\ \A i \in 1..(Len(u) + Len(v)) :
              (u \o v)[i] = IF i <= Len(u) THEN u[i] ELSE v[i - Len(u)]
    BY <2>6, <2>9, ConcatProperties, ZenonT(30)
  <2>12. PICK w : w = u \o v
    OBVIOUS
  <2>13. /\ w \in Seq(Octet) /\ Len(w) = 1 + pad
         /\ \A i \in 1..(1 + pad) : w[i] = IF i <= 1 THEN u[i] ELSE v[i - 1]
    BY <2>6, <2>9, <2>11, <2>12
  <2>14. w[1] = 128 + pad
    BY <2>9, <2>13
  <2>15. \A k \in 1..pad : w[pad + 2 - k] = D[k]
    <3>1. \A k \in 1..pad : /\ pad + 2 - k \in 1..(1 + pad) /\ ~(pad + 2 - k <= 1)
                            /\ (pad + 2 - k) - 1 = pad + 1 - k
                            /\ pad + 1 - k \in 1..pad /\ pad + 1 - (pad + 1 - k) = k
      OBVIOUS
    <3>2. \A k \in 1..pad : v[pad + 1 - k] = D[k]
      BY <2>4, <3>1
    <3> QED BY <2>13, <3>1, <3>2
  <2>16. \A k \in 1..4 : k > pad => D[k] = 0
    BY <2>2
  <2> QED BY <1>2, <2>1, <2>10, <2>12, <2>13, <2>14, <2>15, <2>16
<1> QED BY <1>1, <1>2

(* Clipping what is clipped changes nothing.                               *)
LEMMA ClipTwice ==
  \A a, b \in Nat : Clip(256 * Clip(a) + b) = Clip(256 * a + b)
BY BerAssumption DEF Clip

(* LongLength reads the digits of a length back.                           *)
LEMMA LongLengthRead ==
  ASSUME NEW n \in Nat, NEW pad \in 1..4, NEW d, NEW p \in Nat,
         \A k \in 1..pad : d[p + pad + 1 - k] = LengthDigits(n)[k],
         \A k \in 1..4 : k > pad => LengthDigits(n)[k] = 0
  PROVE  LongLength(d, p, pad) = Clip(n)
<1>1. PICK D : D = LengthDigits(n)
  OBVIOUS
<1> DEFINE octet(k) == IF k <= pad THEN d[p + pad + 1 - k] ELSE 0
<1>2. \A k \in 1..4 : octet(k) = D[k]
  <2>1. \A k \in 1..4 : (k <= pad => k \in 1..pad) /\ (~(k <= pad) => k > pad)
    OBVIOUS
  <2> QED BY <1>1, <2>1
<1>3. LongLength(d, p, pad)
        = Clip(256 * Clip(256 * Clip(256 * octet(4) + octet(3)) + octet(2)) + octet(1))
  BY DEF LongLength
<1> HIDE DEF octet
<1>4. octet(1) = D[1] /\ octet(2) = D[2] /\ octet(3) = D[3] /\ octet(4) = D[4]
  BY <1>2
<1>5. PICK a, b, c, e \in Nat : a = D[1] /\ b = D[2] /\ c = D[3] /\ e = D[4]
  BY <1>1, LengthDigitsAre
<1>6. n = 256 * (256 * (256 * e + c) + b) + a
  BY <1>1, <1>5, LengthDigitsAre
<1>7. PICK x, y \in Nat : x = 256 * e + c /\ y = 256 * x + b
  OBVIOUS
<1>8. Clip(256 * Clip(x) + b) = Clip(y)
  BY <1>7, ClipTwice
<1>9. Clip(256 * Clip(y) + a) = Clip(256 * y + a)
  BY ClipTwice
<1>10. LongLength(d, p, pad) = Clip(256 * Clip(256 * Clip(x) + b) + a)
  <2>1. octet(1) = a /\ octet(2) = b /\ octet(3) = c /\ octet(4) = e
    BY <1>4, <1>5
  <2>2. LongLength(d, p, pad) = Clip(256 * Clip(256 * Clip(256 * e + c) + b) + a)
    BY <1>3, <2>1, ZenonT(30)
  <2>3. 256 * e + c = x
    BY <1>7
  <2> QED BY <2>2, <2>3, Zenon
<1>11. LongLength(d, p, pad) = Clip(256 * y + a)
  BY <1>8, <1>9, <1>10, ZenonT(30)
<1>12. n = 256 * y + a
  BY <1>6, <1>7
<1> QED BY <1>11, <1>12

(* s is u followed by v.                                                   *)
Joins(s, u, v) ==
  /\ s \in Seq(Octet) /\ Len(s) = Len(u) + Len(v)
  /\ \A i \in 1..Len(u) : s[i] = u[i]
  /\ \A i \in 1..Len(v) : s[Len(u) + i] = v[i]

(* Sequences that are concatenated are joined.                             *)
LEMMA JoinIs ==
  ASSUME NEW u \in Seq(Octet), NEW v \in Seq(Octet)
  PROVE  Joins(u \o v, u, v)
<1>1. PICK s : s = u \o v
  OBVIOUS
<1>2. PICK a, b \in Nat : a = Len(u) /\ b = Len(v)
  BY LenProperties
<1>3. /\ s \in Seq(Octet) /\ Len(s) = Len(u) + Len(v)
      /\ \A i \in 1..(Len(u) + Len(v)) : s[i] = IF i <= Len(u) THEN u[i] ELSE v[i - Len(u)]
  BY <1>1, ConcatProperties, Zenon
<1>4. /\ \A i \in 1..a : i \in 1..(a + b) /\ i <= a
      /\ \A i \in 1..b : a + i \in 1..(a + b) /\ ~(a + i <= a) /\ (a + i) - a = i
  OBVIOUS
<1>5. \A i \in 1..a : s[i] = u[i]
  BY <1>2, <1>3, <1>4
<1>6. \A i \in 1..b : s[a + i] = v[i]
  BY <1>2, <1>3, <1>4
<1> QED BY <1>1, <1>2, <1>3, <1>5, <1>6, Zenon DEF Joins

(* s is u, v and w one after the other, and `more` octets.                 *)
Laid(s, u, v, w, more) ==
  /\ s \in Seq(Octet) /\ Len(s) = Len(u) + Len(v) + Len(w) + more
  /\ \A i \in 1..Len(u) : s[i] = u[i]
  /\ \A i \in 1..Len(v) : s[Len(u) + i] = v[i]
  /\ \A i \in 1..Len(w) : s[Len(u) + Len(v) + i] = w[i]

(* Where the octets of three sequences are when they are concatenated.     *)
LEMMA LaidIs ==
  ASSUME NEW u, NEW v, NEW w, NEW s, NEW t, Joins(t, u, v), Joins(s, t, w),
         Len(u) \in Nat, Len(v) \in Nat, Len(w) \in Nat
  PROVE  Laid(s, u, v, w, 0)
<1>0. PICK a, b, c \in Nat : a = Len(u) /\ b = Len(v) /\ c = Len(w)
  OBVIOUS
<1>1. /\ s \in Seq(Octet) /\ Len(t) = a + b /\ Len(s) = Len(t) + c
      /\ \A i \in 1..a : t[i] = u[i]
      /\ \A i \in 1..b : t[a + i] = v[i]
  BY <1>0, Zenon DEF Joins
<1>2. PICK n : n = Len(t)
  OBVIOUS
<1>3. n = a + b /\ Len(s) = a + b + c + 0
  BY <1>0, <1>1, <1>2
<1>4. (\A i \in 1..n : s[i] = t[i]) /\ \A i \in 1..c : s[n + i] = w[i]
  BY <1>0, <1>2, Zenon DEF Joins
<1>5. (\A i \in 1..a : i \in 1..n) /\ \A i \in 1..b : a + i \in 1..n
  BY <1>3
<1>6. \A i \in 1..a : s[i] = u[i]
  BY <1>1, <1>4, <1>5, Zenon
<1>7. \A i \in 1..b : s[a + i] = v[i]
  BY <1>1, <1>4, <1>5, Zenon
<1>8. \A i \in 1..c : s[a + b + i] = w[i]
  BY <1>3, <1>4, Zenon
<1> QED BY <1>0, <1>1, <1>3, <1>6, <1>7, <1>8, Zenon DEF Laid

(* What is laid out in s is also laid out in s with more behind it.        *)
LEMMA LaidBefore ==
  ASSUME NEW u, NEW v, NEW w, NEW s, NEW t, Laid(t, u, v, w, 0),
         NEW rest \in Seq(Octet), s = t \o rest,
         Len(u) \in Nat, Len(v) \in Nat, Len(w) \in Nat
  PROVE  Laid(s, u, v, w, Len(rest))
<1>0. PICK a, b, c, n \in Nat : a = Len(u) /\ b = Len(v) /\ c = Len(w) /\ n = a + b + c
  OBVIOUS
<1>1. /\ t \in Seq(Octet) /\ Len(t) = a + b + c + 0
      /\ \A i \in 1..a : t[i] = u[i]
      /\ \A i \in 1..b : t[a + i] = v[i]
      /\ \A i \in 1..c : t[a + b + i] = w[i]
  BY <1>0, Zenon DEF Laid
<1>2. n = Len(t)
  BY <1>0, <1>1
<1>3. Joins(s, t, rest)
  BY <1>1, JoinIs, Zenon
<1>4. s \in Seq(Octet) /\ Len(s) = n + Len(rest) /\ \A i \in 1..n : s[i] = t[i]
  BY <1>2, <1>3, Zenon DEF Joins
<1>5. /\ \A i \in 1..a : i \in 1..n
      /\ \A i \in 1..b : a + i \in 1..n
      /\ \A i \in 1..c : a + b + i \in 1..n
  BY <1>0
<1>6. /\ \A i \in 1..a : s[i] = u[i]
      /\ \A i \in 1..b : s[a + i] = v[i]
      /\ \A i \in 1..c : s[a + b + i] = w[i]
  BY <1>1, <1>4, <1>5, Zenon
<1> QED BY <1>0, <1>4, <1>6, Zenon DEF Laid

(* An item, alone and in front of other data.                              *)
LEMMA PiecesAre ==
  ASSUME NEW x \in Item
  PROVE  /\ Identifier(x) \in Seq(Octet) /\ Len(Identifier(x)) \in Nat
         /\ LengthOctets(Claimed(x), x.pad) \in Seq(Octet)
         /\ Len(LengthOctets(Claimed(x), x.pad)) = 1 + x.pad
         /\ Len(LengthOctets(Claimed(x), x.pad)) \in Nat
         /\ x.body \in Seq(Octet) /\ Len(x.body) \in Nat
         /\ x.pad \in 0..4 /\ x.excess \in Nat
         /\ Claimed(x) \in Nat /\ Fits(Claimed(x), x.pad)
<1>1. x.body \in Seq(Octet) /\ x.pad \in 0..4 /\ x.excess \in Nat /\ Fits(Claimed(x), x.pad)
  BY ItemAssumption
<1>2. Len(x.body) \in Nat /\ Claimed(x) \in Nat
  BY <1>1, LenProperties DEF Claimed
<1>3. Identifier(x) \in Seq(Octet) /\ Len(Identifier(x)) \in Nat
  BY IdentifierIs, LenProperties
<1>4. /\ LengthOctets(Claimed(x), x.pad) \in Seq(Octet)
      /\ Len(LengthOctets(Claimed(x), x.pad)) = 1 + x.pad
  BY <1>1, <1>2, LengthOctetsAre, ZenonT(30)
<1>5. 1 + x.pad \in Nat
  BY <1>1
<1> QED BY <1>1, <1>2, <1>3, <1>4, <1>5, Zenon

(* An item's octets are its identifier, its length and its contents.       *)
LEMMA EncodeIs ==
  ASSUME NEW x \in Item
  PROVE  Laid(Encode(x), Identifier(x), LengthOctets(Claimed(x), x.pad), x.body, 0)
<1>1. PICK u, v, w : u = Identifier(x) /\ v = LengthOctets(Claimed(x), x.pad) /\ w = x.body
  OBVIOUS
<1>2. u \in Seq(Octet) /\ v \in Seq(Octet) /\ w \in Seq(Octet)
  BY <1>1, PiecesAre, Zenon
<1>3. Len(u) \in Nat /\ Len(v) \in Nat /\ Len(w) \in Nat
  BY <1>1, PiecesAre, Zenon
<1>4. PICK t, s : t = u \o v /\ s = t \o w
  OBVIOUS
<1>5. Joins(t, u, v)
  BY <1>2, <1>4, JoinIs, Zenon
<1>6. t \in Seq(Octet)
  BY <1>5, Zenon DEF Joins
<1>7. Joins(s, t, w)
  BY <1>2, <1>4, <1>6, JoinIs, Zenon
<1>8. Laid(s, u, v, w, 0)
  BY <1>3, <1>5, <1>7, LaidIs, Zenon
<1>9. s = Encode(x)
  BY <1>1, <1>4, Zenon DEF Encode
<1> QED BY <1>1, <1>8, <1>9, Zenon

(* The first octets of data that begins with an item.                      *)
LEMMA LeadIs ==
  ASSUME NEW x \in Item, NEW rest \in Seq(Octet)
  PROVE  Laid(Encode(x) \o rest, Identifier(x), LengthOctets(Claimed(x), x.pad), x.body, Len(rest))
BY EncodeIs, PiecesAre, LaidBefore, Zenon

(* What ParseBER makes of data that begins with the item x, uncut.         *)
ReadAs(d, x) ==
  /\ ParseBER(d).ok /\ ParseBER(d).full = d
  /\ ParseBER(d).tag = Identifier(x)[1]
  /\ ParseBER(d).class = x.class /\ ParseBER(d).num = Number(x)
  /\ x.excess = 0 => ParseBER(d).data = x.body

(* The identifier octets.                                                  *)
LEMMA TagRead ==
  ASSUME NEW x \in Item, NEW d \in Seq(Octet), Len(Identifier(x)) <= Len(d),
         \A i \in 1..Len(Identifier(x)) : d[i] = Identifier(x)[i]
  PROVE  /\ TagEnd(d) = Len(Identifier(x)) /\ TagNumber(d) = Number(x)
         /\ (d[1] \div 64) * 64 = x.class
<1>1. x.class \in {0, 64, 128, 192} /\ x.num \in Nat
  BY ItemAssumption
<1>2. PICK n \in Nat : n = Len(Identifier(x))
  BY PiecesAre
<1> DEFINE id == Identifier(x)
<1> HIDE DEF id
<1>3. PICK len \in Nat : len = Len(d)
  BY LenProperties
<1>4. n >= 1 /\ n <= len
  BY <1>2, <1>3, IdentifierIs
<1>5. \A i \in 1..n : d[i] = id[i]
  BY <1>2 DEF id
<1>6. PICK low \in Nat : low = (IF x.num < 31 THEN x.num ELSE 31)
  BY <1>1
<1>7. PICK bit \in {0, 32} : bit = (IF x.parts # <<>> THEN 32 ELSE 0)
  OBVIOUS
<1>8. d[1] = x.class + bit + low
  <2>1. 1 \in 1..n
    BY <1>4
  <2> QED BY <1>5, <1>6, <1>7, <2>1, IdentifierIs DEF id
<1>9. low <= 31 /\ (x.num < 31 => low = x.num) /\ (~(x.num < 31) => low = 31)
  BY <1>1, <1>6
<1>10. (d[1] \div 64) * 64 = x.class /\ d[1] % 32 = low
  <2>1. \A c \in {0, 64, 128, 192}, b \in {0, 32}, l \in 0..31 :
          ((c + b + l) \div 64) * 64 = c /\ (c + b + l) % 32 = l
    OBVIOUS
  <2>2. low \in 0..31
    BY <1>9
  <2>3. PICK c \in {0, 64, 128, 192} : c = x.class
    BY <1>1
  <2>4. PICK y : y = c + bit + low
    OBVIOUS
  <2>5. (y \div 64) * 64 = c /\ y % 32 = low
    BY <1>7, <2>1, <2>2, <2>4
  <2> QED BY <1>8, <2>3, <2>4, <2>5, Zenon
<1>11. CASE x.num < 31
  <2>1. n = 1 /\ low = x.num
    BY <1>2, <1>9, <1>11, IdentifierIs
  <2>2. ~LongTag(d) /\ d[1] % 32 = x.num
    BY <1>10, <1>11, <2>1 DEF LongTag
  <2>3. TagEnd(d) = 1 /\ TagNumber(d) = x.num
    BY <2>2 DEF TagEnd, TagNumber
  <2>4. x.num % TagRange = x.num
    BY <1>1, <1>11, BerAssumption
  <2> QED BY <1>2, <1>10, <2>1, <2>3, <2>4 DEF Number
<1>12. CASE ~(x.num < 31)
  <2>1. LongTag(d)
    BY <1>9, <1>10, <1>12 DEF LongTag
  <2>2. PICK q, r \in Nat : q = x.num \div 128 /\ r = x.num % 128 /\ r < 128 /\ x.num = (q * 128) + r
    <3>1. PICK num \in Nat : num = x.num
      BY <1>1
    <3>2. num # 0
      BY <1>12, <3>1
    <3>3. /\ num \div 128 \in Nat /\ num % 128 \in Nat /\ num % 128 < 128
          /\ num = ((num \div 128) * 128) + (num % 128)
      BY <3>2, DigitIs, ZenonT(30)
    <3>4. PICK q \in Nat : q = num \div 128
      BY <3>3, Zenon
    <3>5. PICK r \in Nat : r = num % 128
      BY <3>3, Zenon
    <3>6. r < 128 /\ num = (q * 128) + r
      BY <3>3, <3>4, <3>5, Zenon
    <3>7. q = x.num \div 128 /\ r = x.num % 128 /\ r < 128 /\ x.num = (q * 128) + r
      BY <3>1, <3>4, <3>5, <3>6, Zenon
    <3> QED BY <3>7, ZenonT(30)
  <2>3. PICK b : b = NumberOctetsBefore[q]
    OBVIOUS
  <2>4. PICK l \in Nat : l = Len(b)
    BY <2>3, NumberOctetsBeforeIs, LenProperties
  <2>5. n = l + 2 /\ (\A i \in 1..l : id[1 + i] = b[i]) /\ id[l + 2] = r
    <3>1. b = NumberOctetsBefore[x.num \div 128] /\ r = x.num % 128
      BY <2>2, <2>3, Zenon
    <3>2. LET before == NumberOctetsBefore[x.num \div 128]
          IN /\ Len(Identifier(x)) = Len(before) + 2
             /\ \A i \in 1..Len(before) : Identifier(x)[1 + i] = before[i]
             /\ Identifier(x)[Len(before) + 2] = x.num % 128
      BY <1>12, IdentifierIs, Zenon
    <3>3. /\ Len(Identifier(x)) = Len(b) + 2
          /\ \A i \in 1..Len(b) : Identifier(x)[1 + i] = b[i]
          /\ Identifier(x)[Len(b) + 2] = r
      BY <3>1, <3>2, Zenon
    <3> QED BY <1>2, <2>4, <3>3, Zenon DEF id
  <2>6. n \in 1..len /\ n \in 1..Len(d)
    BY <1>3, <1>4
  <2>7. \A i \in 1..l : d[1 + i] = b[i]
    <3>1. \A i \in 1..l : 1 + i \in 1..n
      BY <2>5
    <3> QED BY <1>5, <2>5, <3>1, Zenon
  <2>8. d[n] = r
    <3>1. n \in 1..n
      BY <1>4
    <3> QED BY <1>5, <2>5, <3>1
  <2>9. /\ NumberUpTo(d, n)[1 + l] = q % TagRange
        /\ \A i \in 1..l : b[i] >= 128
    <3>1. 1 + l <= n
      BY <2>5
    <3> QED BY <2>3, <2>4, <2>6, <2>7, <3>1, NumberBeforeRead
  <2>10. TagEnd(d) = n
    <3>1. LastOctets(d) = {i \in 2..len : d[i] < 128}
      BY <1>3 DEF LastOctets
    <3>2. n \in LastOctets(d)
      <4>1. n \in 2..len
        BY <1>4, <2>5
      <4>2. d[n] < 128
        BY <2>2, <2>8, ZenonT(30)
      <4> QED BY <3>1, <4>1, <4>2, ZenonT(30)
    <3>3. LastOctets(d) \subseteq Nat /\ LastOctets(d) # {}
      BY <3>1, <3>2
    <3>4. PICK k : k = Min(LastOctets(d))
      OBVIOUS
    <3>5. k \in LastOctets(d) /\ k <= n
      BY <3>2, <3>3, <3>4, LeastNumber
    <3>6. k \in Nat /\ k >= 2 /\ d[k] < 128
      BY <3>1, <3>5
    <3>7. ASSUME k < n PROVE FALSE
      <4>1. k - 1 \in 1..l /\ 1 + (k - 1) = k
        BY <2>5, <3>6, <3>7
      <4>2. PICK j \in 1..l : 1 + j = k
        BY <4>1
      <4>3. d[k] = b[j] /\ b[j] >= 128
        BY <2>7, <2>9, <4>2
      <4>4. k \in 1..len /\ d[k] \in Nat
        BY <1>3, <1>4, <3>6, <3>7, OctetIs
      <4> QED BY <3>6, <4>3, <4>4
    <3>8. k = n
      BY <3>5, <3>6, <3>7
    <3>9. TagEnd(d) = k
      BY <2>1, <3>3, <3>4 DEF TagEnd
    <3> QED BY <3>8, <3>9
  <2>11. NumberUpTo(d, n)[n] = x.num % TagRange
    <3>1. n \in 2..n /\ n - 1 = 1 + l
      BY <2>5
    <3>2. NumberUpTo(d, n)[n] = (NumberUpTo(d, n)[n - 1] * 128 + (d[n] % 128)) % TagRange
      BY <2>6, <3>1, NumberUpToIs
    <3>3. d[n] % 128 = r
      <4>1. \A y \in Nat : y < 128 => y % 128 = y
        OBVIOUS
      <4> QED BY <2>2, <2>8, <4>1, Zenon
    <3>4. NumberUpTo(d, n)[n] = (((q % TagRange) * 128) + r) % TagRange
      BY <2>9, <3>1, <3>2, <3>3
    <3>5. (((q % TagRange) * 128) + r) % TagRange = ((q * 128) + r) % TagRange
      BY WrapIs, ZenonT(30)
    <3> QED BY <2>2, <3>4, <3>5
  <2>12. TagNumber(d) = x.num % TagRange
    BY <2>1, <2>10, <2>11 DEF TagNumber
  <2> QED BY <1>2, <1>10, <2>10, <2>12 DEF Number
<1> QED BY <1>11, <1>12

(* How many octets of length a form of the length has.                     *)
LEMMA PaddedLengthIs ==
  \A n \in Nat, pad \in 0..4 : Fits(n, pad) =>
    \A k \in 1..pad : LengthOctets(n, pad)[pad + 2 - k] = LengthDigits(n)[k]
<1> SUFFICES ASSUME NEW n \in Nat, NEW pad \in 0..4, Fits(n, pad)
             PROVE  \A k \in 1..pad : LengthOctets(n, pad)[pad + 2 - k] = LengthDigits(n)[k]
  OBVIOUS
<1> QED BY LengthOctetsAre, SMTT(30)

(* The header of an item.                                                  *)
LEMMA HeaderRead ==
  ASSUME NEW x \in Item, NEW more \in Nat, NEW d,
         Laid(d, Identifier(x), LengthOctets(Claimed(x), x.pad), x.body, more)
  PROVE  Header(d) = [ok |-> TRUE, start |-> Len(Identifier(x)) + 2 + x.pad,
                      length |-> IF x.pad = 0 THEN Claimed(x) ELSE Clip(Claimed(x))]
<1>1. PICK u, v, w : u = Identifier(x) /\ v = LengthOctets(Claimed(x), x.pad) /\ w = x.body
  OBVIOUS
<1>2. PICK n, m, l \in Nat : n = Len(u) /\ m = Claimed(x) /\ l = Len(w)
  BY <1>1, PiecesAre, Zenon
<1>3. PICK pad \in 0..4 : pad = x.pad
  BY PiecesAre
<1>4. n >= 1
  BY <1>1, <1>2, IdentifierIs
<1>5. /\ d \in Seq(Octet) /\ Len(d) = n + (1 + pad) + l + more
      /\ \A i \in 1..n : d[i] = u[i]
      /\ \A i \in 1..(1 + pad) : d[n + i] = v[i]
  <2>1. Len(v) = 1 + pad
    BY <1>1, <1>3, PiecesAre, Zenon
  <2>2. Laid(d, u, v, w, more)
    BY <1>1, Zenon
  <2> QED BY <1>2, <2>1, <2>2, Zenon DEF Laid
<1>6. TagEnd(d) = n
  <2>1. Len(Identifier(x)) <= Len(d)
    BY <1>1, <1>2, <1>3, <1>5, SMTT(30)
  <2>2. \A i \in 1..Len(Identifier(x)) : d[i] = Identifier(x)[i]
    BY <1>1, <1>2, <1>5, Zenon
  <2> QED BY <1>1, <1>2, <1>5, <2>1, <2>2, TagRead, Zenon
<1>7. PICK p \in Nat : p = n + 1
  OBVIOUS
<1>8. Header(d) =
        IF Len(d) < 2 \/ TagEnd(d) = 0 \/ p > Len(d) THEN Failed
        ELSE IF d[p] < 128 THEN [ok |-> TRUE, start |-> p + 1, length |-> d[p]]
        ELSE IF d[p] % 128 = 0 \/ d[p] % 128 > 4 \/ p + (d[p] % 128) > Len(d) THEN Failed
        ELSE [ok |-> TRUE, start |-> p + 1 + (d[p] % 128), length |-> LongLength(d, p, d[p] % 128)]
  <2>1. p = TagEnd(d) + 1
    BY <1>6, <1>7
  <2> QED BY <2>1, Zenon DEF Header
<1>9. /\ ~(Len(d) < 2 \/ TagEnd(d) = 0 \/ p > Len(d))
      /\ ~(p + pad > Len(d))
  <2>1. PICK total : total = Len(d)
    OBVIOUS
  <2>2. total = n + (1 + pad) + l + more
    BY <1>5, <2>1, Zenon
  <2>3. ~(total < 2 \/ n = 0 \/ p > total) /\ ~(p + pad > total)
    BY <1>4, <1>7, <2>2
  <2> QED BY <1>6, <2>1, <2>3, Zenon
<1>10. /\ v[1] = IF pad = 0 THEN m ELSE 128 + pad
       /\ pad = 0 => m < 128
       /\ \A k \in 1..pad : v[pad + 2 - k] = LengthDigits(m)[k]
       /\ pad # 0 => \A k \in 1..4 : k > pad => LengthDigits(m)[k] = 0
  <2>1. v = LengthOctets(m, pad) /\ Fits(m, pad)
    BY <1>1, <1>2, <1>3, PiecesAre, Zenon
  <2>2. /\ LengthOctets(m, pad)[1] = IF pad = 0 THEN m ELSE 128 + pad
        /\ pad = 0 => m < 128
        /\ \A k \in 1..pad : LengthOctets(m, pad)[pad + 2 - k] = LengthDigits(m)[k]
        /\ pad # 0 => \A k \in 1..4 : k > pad => LengthDigits(m)[k] = 0
    <3>1. LengthOctets(m, pad)[1] = IF pad = 0 THEN m ELSE 128 + pad
      BY <2>1, LengthOctetsAre, SMT
    <3>2. pad = 0 => m < 128
      BY <2>1, LengthOctetsAre, SMT
    <3>3. \A k \in 1..pad : LengthOctets(m, pad)[pad + 2 - k] = LengthDigits(m)[k]
      BY <2>1, PaddedLengthIs, Zenon
    <3>4. pad # 0 => \A k \in 1..4 : k > pad => LengthDigits(m)[k] = 0
      BY <2>1, LengthOctetsAre, SMT
    <3> QED BY <3>1, <3>2, <3>3, <3>4, Zenon
  <2> QED BY <2>1, <2>2, Zenon
<1>11. d[p] = v[1]
  <2>1. 1 \in 1..(1 + pad)
    BY <1>3
  <2> QED BY <1>5, <1>7, <2>1, Zenon
<1>12. CASE pad = 0
  <2>1. d[p] = m /\ d[p] < 128
    BY <1>10, <1>11, <1>12
  <2>2. Header(d) = [ok |-> TRUE, start |-> p + 1, length |-> d[p]]
    BY <1>8, <1>9, <2>1, Zenon
  <2>3. p + 1 = n + 2 + 0
    BY <1>7
  <2> QED BY <1>1, <1>2, <1>3, <1>12, <2>1, <2>2, <2>3, Zenon
<1>13. CASE pad # 0
  <2>1. d[p] = 128 + pad
    BY <1>10, <1>11, <1>13
  <2>2. ~(d[p] < 128) /\ d[p] % 128 = pad
    <3>1. \A k \in 0..4 : (128 + k) % 128 = k /\ ~(128 + k < 128)
      OBVIOUS
    <3> QED BY <1>3, <2>1, <3>1, ZenonT(30)
  <2>3. ~(pad = 0 \/ pad > 4 \/ p + pad > Len(d))
    <3>1. ~(pad > 4)
      OBVIOUS
    <3> QED BY <1>9, <1>13, <3>1, Zenon
  <2>4. Header(d) = [ok |-> TRUE, start |-> p + 1 + pad, length |-> LongLength(d, p, pad)]
    BY <1>8, <1>9, <2>2, <2>3, Zenon
  <2>5. \A k \in 1..pad : d[p + pad + 1 - k] = LengthDigits(m)[k]
    <3>1. \A k \in 1..pad : pad + 2 - k \in 1..(1 + pad) /\ p + pad + 1 - k = n + (pad + 2 - k)
      BY <1>7
    <3> QED BY <1>5, <1>10, <3>1, ZenonT(30)
  <2>6. pad \in 1..4 /\ \A k \in 1..4 : k > pad => LengthDigits(m)[k] = 0
    BY <1>10, <1>13
  <2>7. LongLength(d, p, pad) = Clip(m)
    BY <2>5, <2>6, LongLengthRead, Zenon
  <2>8. p + 1 + pad = n + 2 + pad
    BY <1>7
  <2> QED BY <1>1, <1>2, <1>3, <1>13, <2>4, <2>7, <2>8, Zenon
<1> QED BY <1>12, <1>13

(* s is d from position lo to position hi.                                 *)
Slice(s, d, lo, hi) ==
  /\ s \in Seq(Octet) /\ Len(s) = (IF lo <= hi THEN hi - lo + 1 ELSE 0)
  /\ \A i \in 1..(hi - lo + 1) : s[i] = d[lo + i - 1]

(* SubSeq takes a slice.                                                   *)
LEMMA SliceIs ==
  ASSUME NEW d, NEW lo \in Nat, NEW hi \in Nat, \A i \in lo..hi : d[i] \in Octet
  PROVE  Slice(SubSeq(d, lo, hi), d, lo, hi)
BY SubSeqProperties DEF Slice

(* ParseBER reads an item as it was encoded, whatever the form of its tag  *)
(* and length and whatever follows it, and GetElementLength counts exactly *)
(* its octets; an item that claims more octets than there are is refused   *)
(* (ber.go:44-109, 232-278).                                               *)
THEOREM ItemRead ==
  ASSUME NEW x \in Item, NEW rest \in Seq(Octet), NEW d, d = Encode(x) \o rest,
         Len(d) <= MaxLength
  PROVE  /\ x.excess = 0 => ReadAs(d, x) /\ GetElementLength(d) = Len(Encode(x))
         /\ x.excess > Len(rest) => ~ParseBER(d).ok
<1>1. PICK u, v, w : u = Identifier(x) /\ v = LengthOctets(Claimed(x), x.pad) /\ w = x.body
  OBVIOUS
<1>2. PICK n, m, l, r, excess \in Nat :
        /\ n = Len(u) /\ m = Claimed(x) /\ l = Len(w) /\ r = Len(rest) /\ excess = x.excess
  BY <1>1, PiecesAre, LenProperties, Zenon
<1>3. PICK pad \in Nat : pad = x.pad
  BY PiecesAre, SMTT(30)
<1>4. n >= 1 /\ u \in Seq(Octet) /\ w \in Seq(Octet)
  BY <1>1, <1>2, IdentifierIs, PiecesAre
<1>5. m = l + excess
  BY <1>1, <1>2 DEF Claimed
<1>6. Laid(d, u, v, w, r) /\ Len(v) = 1 + pad
  BY <1>1, <1>2, <1>3, LeadIs, PiecesAre, Zenon
<1>7. /\ d \in Seq(Octet) /\ Len(d) = n + (1 + pad) + l + r
      /\ \A i \in 1..n : d[i] = u[i]
      /\ \A i \in 1..l : d[n + (1 + pad) + i] = w[i]
  BY <1>2, <1>6, Zenon DEF Laid
<1>8. Len(Encode(x)) = n + (1 + pad) + l
  <2>1. Laid(Encode(x), u, v, w, 0)
    BY <1>1, EncodeIs, Zenon
  <2>2. Len(Encode(x)) = n + (1 + pad) + l + 0
    BY <1>2, <1>6, <2>1, Zenon DEF Laid
  <2> QED BY <1>3, <2>2
<1>9. PICK len : len = IF pad = 0 THEN m ELSE Clip(m)
  OBVIOUS
<1>10. Header(d) = [ok |-> TRUE, start |-> n + 2 + pad, length |-> len]
  BY <1>1, <1>2, <1>3, <1>6, <1>9, HeaderRead, Zenon
<1>11. PICK count \in Nat : count = GetElementLength(d) /\ count = n + (1 + pad) + len
  <2>1. GetElementLength(d) = (n + 2 + pad) - 1 + len
    BY <1>10 DEF GetElementLength
  <2>2. len \in Nat
    BY <1>9, ClipIs
  <2>3. PICK count \in Nat : count = n + (1 + pad) + len
    BY <2>2
  <2> QED BY <2>1, <2>2, <2>3
<1>12. ParseBER(d) =
        IF GetElementLength(d) > Len(d) THEN Failed
        ELSE [ok |-> TRUE, tag |-> d[1], class |-> (d[1] \div 64) * 64,
              num |-> TagNumber(d), full |-> d,
              data |-> SubSeq(d, n + 2 + pad, GetElementLength(d))]
  <2>1. Header(d).ok /\ Header(d).start = n + 2 + pad
    BY <1>10
  <2> QED BY <2>1, ZenonT(30) DEF ParseBER
<1>13. MaxLength \in Nat /\ n + (1 + pad) + l + r <= MaxLength
  BY <1>7, BerAssumption
<1>14. len = m \/ (len = MaxLength /\ m > MaxLength)
  BY <1>9 DEF Clip
<1>15. ASSUME excess = 0 PROVE ReadAs(d, x) /\ GetElementLength(d) = Len(Encode(x))
  <2>1. len = l
    BY <1>3, <1>5, <1>13, <1>14, <1>15, SMTT(30)
  <2>2. GetElementLength(d) = n + (1 + pad) + l /\ ~(GetElementLength(d) > Len(d))
    BY <1>7, <1>11, <2>1
  <2>3. ParseBER(d) = [ok |-> TRUE, tag |-> d[1], class |-> (d[1] \div 64) * 64,
                       num |-> TagNumber(d), full |-> d,
                       data |-> SubSeq(d, n + 2 + pad, GetElementLength(d))]
    BY <1>12, <2>2, Zenon
  <2>4. TagNumber(d) = Number(x) /\ (d[1] \div 64) * 64 = x.class
    <3>1. Len(Identifier(x)) <= Len(d)
      BY <1>1, <1>2, <1>3, <1>7
    <3>2. \A i \in 1..Len(Identifier(x)) : d[i] = Identifier(x)[i]
      BY <1>1, <1>2, <1>7, Zenon
    <3> QED BY <1>7, <3>1, <3>2, TagRead, Zenon
  <2>5. d[1] = Identifier(x)[1]
    <3>1. 1 \in 1..n
      BY <1>4
    <3> QED BY <1>1, <1>7, <3>1, Zenon
  <2>a. PICK lo \in Nat : lo = n + 2 + pad
    OBVIOUS
  <2>b. PICK hi \in Nat : hi = n + (1 + pad) + l
    OBVIOUS
  <2>6. lo = n + 2 + pad /\ hi = n + (1 + pad) + l
    BY <2>a, <2>b
  <2>7. /\ hi - lo + 1 = l /\ (IF lo <= hi THEN hi - lo + 1 ELSE 0) = l
        /\ \A i \in 1..l : lo + i - 1 = n + (1 + pad) + i
        /\ \A i \in lo..hi : i \in 1..Len(d)
    <3>1. Len(d) = hi + r
      BY <1>7, <2>6
    <3> QED BY <2>6, <3>1
  <2>8. PICK data : data = SubSeq(d, lo, hi)
    OBVIOUS
  <2>9. data \in Seq(Octet) /\ Len(data) = l /\ \A i \in 1..l : data[i] = d[lo + i - 1]
    <3>2. \A i \in lo..hi : d[i] \in Octet
      BY <1>7, <2>7, ElementOfSeq, Zenon
    <3>3. /\ data \in Seq(Octet) /\ Len(data) = (IF lo <= hi THEN hi - lo + 1 ELSE 0)
          /\ \A i \in 1..(hi - lo + 1) : data[i] = d[lo + i - 1]
      <4>1. Slice(data, d, lo, hi)
        BY <2>8, <3>2, SliceIs, Zenon
      <4> QED BY <4>1 DEF Slice
    <3> QED BY <2>7, <3>3
  <2>10. data = w
    <3>1. \A i \in 1..l : data[i] = w[i]
      BY <1>7, <2>7, <2>9
    <3> QED BY <1>2, <1>4, <2>9, <3>1, SeqEqual
  <2>11. ParseBER(d).data = x.body
    BY <1>1, <2>2, <2>3, <2>6, <2>8, <2>10
  <2> QED BY <1>8, <2>2, <2>3, <2>4, <2>5, <2>11 DEF ReadAs
<1>16. ASSUME excess > r PROVE ~ParseBER(d).ok
  <2>0. Len(d) = n + (1 + pad) + l + r /\ n >= 1
    BY <1>4, <1>7
  <2>1. count > n + (1 + pad) + l + r
    BY <2>0, <1>5, <1>11, <1>13, <1>14, <1>16
  <2>2. GetElementLength(d) > Len(d)
    BY <2>0, <2>1, <1>11
  <2> QED BY <1>12, <2>2 DEF Failed
<1> QED BY <1>2, <1>15, <1>16

-----------------------------------------------------------------------------
(* Items one after the other.                                              *)

(* The rest of d behind its first a octets.                                *)
RestOf(s, d, a) ==
  /\ s \in Seq(Octet) /\ Len(s) = Len(d) - a
  /\ \A i \in 1..(Len(d) - a) : s[i] = d[a + i]

(* From leaves the rest.                                                   *)
LEMMA FromIs ==
  ASSUME NEW d \in Seq(Octet), NEW a \in Nat, a <= Len(d)
  PROVE  RestOf(From(d, a + 1), d, a)
<1>1. PICK lo, hi \in Nat : lo = a + 1 /\ hi = Len(d)
  BY LenProperties
<1>2. PICK s : s = SubSeq(d, lo, hi)
  OBVIOUS
<1>3. \A i \in lo..hi : d[i] \in Octet
  <2>1. \A i \in lo..hi : i \in 1..Len(d)
    BY <1>1
  <2> QED BY <2>1, ElementOfSeq, Zenon
<1>4. Slice(s, d, lo, hi)
  BY <1>2, <1>3, SliceIs, Zenon
<1>5. /\ (IF lo <= hi THEN hi - lo + 1 ELSE 0) = hi - a /\ hi - lo + 1 = hi - a
      /\ \A i \in 1..(hi - a) : lo + i - 1 = a + i
  BY <1>1
<1>6. s \in Seq(Octet) /\ Len(s) = hi - a /\ \A i \in 1..(hi - a) : s[i] = d[a + i]
  BY <1>4, <1>5 DEF Slice
<1>7. s = From(d, a + 1)
  BY <1>1, <1>2, Zenon DEF From
<1> QED BY <1>1, <1>6, <1>7, Zenon DEF RestOf

(* t is how s begins.                                                      *)
Begins(t, s) == Len(t) <= Len(s) /\ \A i \in 1..Len(t) : s[i] = t[i]

(* An item's octets are octets.                                            *)
LEMMA EncodeType ==
  ASSUME NEW x \in Item
  PROVE  Encode(x) \in Seq(Octet) /\ Len(Encode(x)) \in Nat /\ Len(Encode(x)) >= 2
<1>1. PICK n, l \in Nat : n = Len(Identifier(x)) /\ l = Len(x.body)
  BY PiecesAre
<1>2. n >= 1 /\ x.pad \in 0..4
  BY <1>1, IdentifierIs, PiecesAre
<1>3. Encode(x) \in Seq(Octet) /\ Len(Encode(x)) = n + (1 + x.pad) + l + 0
  <2>1. Len(LengthOctets(Claimed(x), x.pad)) = 1 + x.pad
    BY PiecesAre
  <2> QED BY <1>1, <2>1, EncodeIs, Zenon DEF Laid
<1> QED BY <1>2, <1>3

(* The octets of items one after the other.                                *)
LEMMA ItemsAre ==
  ASSUME NEW items \in Seq(Item)
  PROVE  /\ Len(items) \in Nat
         /\ \A k \in 1..Len(items) : items[k] \in Item
         /\ \A k \in 0..Len(items) : EncodedUpTo(items)[k] \in Seq(Octet)
         /\ \A k \in 0..Len(items) : Len(EncodedUpTo(items)[k]) \in Nat
         /\ EncodedUpTo(items)[0] = <<>>
         /\ \A k \in 1..Len(items) :
              Joins(EncodedUpTo(items)[k], EncodedUpTo(items)[k - 1], Encode(items[k]))
<1>1. Len(items) \in Nat /\ \A k \in 1..Len(items) : items[k] \in Item
  BY LenProperties, ElementOfSeq
<1>2. \A k \in 1..Len(items) : Encode(items[k]) \in Seq(Octet)
  BY <1>1, EncodeType, Zenon
<1>3. /\ \A k \in 0..Len(items) : EncodedUpTo(items)[k] \in Seq(Octet)
      /\ EncodedUpTo(items)[0] = <<>>
      /\ \A k \in 1..Len(items) :
           EncodedUpTo(items)[k] = EncodedUpTo(items)[k - 1] \o Encode(items[k])
  BY <1>1, <1>2, EncodedUpToIs, Zenon
<1>4. \A k \in 0..Len(items) : Len(EncodedUpTo(items)[k]) \in Nat
  BY <1>3, LenProperties, Zenon
<1>5. \A k \in 1..Len(items) : k - 1 \in 0..Len(items)
  BY <1>1
<1>6. \A k \in 1..Len(items) :
        Joins(EncodedUpTo(items)[k], EncodedUpTo(items)[k - 1], Encode(items[k]))
  BY <1>2, <1>3, <1>5, JoinIs, Zenon
<1> QED BY <1>1, <1>3, <1>4, <1>6, Zenon

(* Some items' octets begin with those of the first of them.               *)
LEMMA UpToBegins ==
  ASSUME NEW items \in Seq(Item)
  PROVE  \A k \in 0..Len(items) : Begins(EncodedUpTo(items)[k], EncodeAll(items))
<1>1. PICK U : U = EncodedUpTo(items)
  OBVIOUS
<1>2. PICK n \in Nat : n = Len(items)
  BY ItemsAre
<1>3. /\ \A k \in 0..n : Len(U[k]) \in Nat
      /\ \A k \in 1..n : Joins(U[k], U[k - 1], Encode(items[k]))
      /\ \A k \in 1..n : Len(Encode(items[k])) \in Nat
  <2>1. \A k \in 1..n : items[k] \in Item
    BY <1>2, ItemsAre, Zenon
  <2> QED BY <1>1, <1>2, <2>1, ItemsAre, EncodeType, Zenon
<1> DEFINE S == {j \in Nat : j <= n => \A k \in 0..j : Begins(U[k], U[j])}
<1>4. 0 \in S
  <2>1. \A k \in 0..0 : k = 0
    OBVIOUS
  <2>2. 0 \in 0..n
    OBVIOUS
  <2>3. Begins(U[0], U[0])
    BY <1>3, <2>2 DEF Begins
  <2> QED BY <2>1, <2>3
<1>5. ASSUME NEW j \in Nat, j \in S PROVE j + 1 \in S
  <2>1. SUFFICES ASSUME j + 1 <= n PROVE \A k \in 0..(j + 1) : Begins(U[k], U[j + 1])
    OBVIOUS
  <2>2. PICK m \in Nat : m = j + 1
    OBVIOUS
  <2>3. m \in 1..n /\ m \in 0..n /\ j \in 0..n /\ m - 1 = j
    BY <2>1, <2>2
  <2>4. Joins(U[m], U[j], Encode(items[m]))
    BY <1>3, <2>3
  <2>5. /\ Len(U[m]) = Len(U[j]) + Len(Encode(items[m])) /\ \A i \in 1..Len(U[j]) : U[m][i] = U[j][i]
    BY <2>4 DEF Joins
  <2>6. Len(U[j]) <= Len(U[m])
    <3>1. PICK a, b \in Nat : a = Len(U[j]) /\ b = Len(Encode(items[m]))
      BY <1>3, <2>3, Zenon
    <3>2. Len(U[m]) = a + b
      BY <2>5, <3>1, Zenon
    <3>3. a <= a + b
      OBVIOUS
    <3> QED BY <3>1, <3>2, <3>3, Zenon
  <2>7. ASSUME NEW k \in 0..j PROVE Begins(U[k], U[m])
    <3>1. Begins(U[k], U[j])
      BY <1>5, <2>1
    <3>2. Len(U[k]) <= Len(U[j]) /\ \A i \in 1..Len(U[k]) : U[j][i] = U[k][i]
      BY <3>1 DEF Begins
    <3>3. k \in 0..n
      BY <2>3
    <3>4. Len(U[k]) \in Nat /\ Len(U[j]) \in Nat /\ Len(U[m]) \in Nat
      BY <1>3, <2>3, <3>3
    <3>5. Len(U[k]) <= Len(U[m]) /\ \A i \in 1..Len(U[k]) : i \in 1..Len(U[j])
      BY <2>6, <3>2, <3>4
    <3> QED BY <2>5, <3>2, <3>5, Zenon DEF Begins
  <2>8. Begins(U[m], U[m])
    BY <1>3, <2>3 DEF Begins
  <2>9. \A k \in 0..(j + 1) : k \in 0..j \/ k = m
    BY <2>2
  <2> QED BY <2>2, <2>7, <2>8, <2>9, Zenon
<1>6. n \in S
  <2> HIDE DEF S
  <2> QED BY <1>4, <1>5, Counting
<1>7. \A k \in 0..n : Begins(U[k], U[n])
  BY <1>6
<1> QED BY <1>1, <1>2, <1>7, Zenon DEF EncodeAll

(* Behind the first k items comes the next one, then those that follow it. *)
LEMMA FollowsIs ==
  ASSUME NEW items \in Seq(Item), NEW k \in Nat, k < Len(items)
  PROVE  /\ From(EncodeAll(items), Len(EncodedUpTo(items)[k]) + 1)
              = Encode(items[k + 1])
                  \o From(EncodeAll(items), Len(EncodedUpTo(items)[k + 1]) + 1)
         /\ From(EncodeAll(items), Len(EncodedUpTo(items)[k + 1]) + 1) \in Seq(Octet)
         /\ Len(From(EncodeAll(items), Len(EncodedUpTo(items)[k]) + 1))
              = Len(EncodeAll(items)) - Len(EncodedUpTo(items)[k])
         /\ Len(From(EncodeAll(items), Len(EncodedUpTo(items)[k + 1]) + 1))
              = Len(EncodeAll(items)) - Len(EncodedUpTo(items)[k + 1])
         /\ Len(EncodedUpTo(items)[k + 1])
              = Len(EncodedUpTo(items)[k]) + Len(Encode(items[k + 1]))
         /\ Len(EncodedUpTo(items)[k + 1]) <= Len(EncodeAll(items))
<1>1. PICK D, U : D = EncodeAll(items) /\ U = EncodedUpTo(items)
  OBVIOUS
<1>2. PICK n \in Nat : n = Len(items)
  BY ItemsAre
<1>3. PICK m \in Nat : m = k + 1
  OBVIOUS
<1>4. m \in 1..n /\ m \in 0..n /\ k \in 0..n /\ n \in 0..n /\ m - 1 = k
  BY <1>2, <1>3
<1>5. PICK e : e = Encode(items[m])
  OBVIOUS
<1>6. items[m] \in Item
  BY <1>2, <1>4, ItemsAre, Zenon
<1>7. D = U[n]
  BY <1>1, <1>2, Zenon DEF EncodeAll
<1>8. D \in Seq(Octet) /\ Len(D) \in Nat
  BY <1>1, <1>2, <1>4, <1>7, ItemsAre, Zenon
<1>9. Joins(U[m], U[k], e)
  BY <1>1, <1>2, <1>4, <1>5, ItemsAre, Zenon
<1>10. PICK a, b, l, h \in Nat : a = Len(U[k]) /\ b = Len(U[m]) /\ l = Len(e) /\ h = Len(D)
  BY <1>1, <1>2, <1>4, <1>5, <1>6, <1>8, ItemsAre, EncodeType, Zenon
<1>11. b = a + l /\ \A i \in 1..l : U[m][a + i] = e[i]
  BY <1>9, <1>10 DEF Joins
<1>12. b <= h /\ \A i \in 1..b : D[i] = U[m][i]
  BY <1>1, <1>2, <1>4, <1>10, UpToBegins DEF Begins
<1>13. PICK s, t : s = From(D, a + 1) /\ t = From(D, b + 1)
  OBVIOUS
<1>14. RestOf(s, D, a) /\ RestOf(t, D, b)
  BY <1>8, <1>10, <1>11, <1>12, <1>13, FromIs
<1>15. /\ s \in Seq(Octet) /\ Len(s) = h - a /\ \A i \in 1..(h - a) : s[i] = D[a + i]
       /\ t \in Seq(Octet) /\ Len(t) = h - b /\ \A i \in 1..(h - b) : t[i] = D[b + i]
  BY <1>10, <1>14, Zenon DEF RestOf
<1>16. PICK j : j = e \o t
  OBVIOUS
<1>17. e \in Seq(Octet)
  BY <1>5, <1>6, EncodeType, Zenon
<1>18. Joins(j, e, t)
  BY <1>15, <1>16, <1>17, JoinIs, Zenon
<1>19. /\ j \in Seq(Octet) /\ Len(j) = l + Len(t)
       /\ \A i \in 1..l : j[i] = e[i]
       /\ \A i \in 1..Len(t) : j[l + i] = t[i]
  BY <1>10, <1>18, Zenon DEF Joins
<1>20. Len(j) = h - a
  BY <1>11, <1>12, <1>15, <1>19
<1>21. ASSUME NEW i \in 1..(h - a) PROVE s[i] = j[i]
  <2>1. s[i] = D[a + i]
    BY <1>15
  <2>2. CASE i <= l
    <3>1. i \in 1..l /\ a + i \in 1..b
      BY <1>11, <2>2
    <3> QED BY <1>11, <1>12, <1>19, <2>1, <3>1, Zenon
  <2>3. CASE ~(i <= l)
    <3>1. PICK c \in Nat : c = i - l
      BY <2>3
    <3>2. c \in 1..(h - b) /\ i = l + c /\ a + i = b + c
      BY <1>11, <1>12, <2>3, <3>1
    <3>3. j[l + c] = t[c] /\ t[c] = D[b + c]
      BY <1>15, <1>19, <3>2
    <3> QED BY <2>1, <3>2, <3>3
  <2> QED BY <2>2, <2>3
<1>22. s = j
  BY <1>15, <1>19, <1>20, <1>21, SeqEqual
<1>23. s = e \o t
  BY <1>16, <1>22
<1> QED BY <1>1, <1>3, <1>5, <1>10, <1>11, <1>12, <1>13, <1>15, <1>23, Zenon

(* Behind the last item there is nothing.                                  *)
LEMMA AllRead ==
  ASSUME NEW items \in Seq(Item)
  PROVE  /\ Len(EncodedUpTo(items)[0]) = 0
         /\ Len(EncodedUpTo(items)[Len(items)]) = Len(EncodeAll(items))
         /\ EncodeAll(items) \in Seq(Octet)
<1>1. Len(items) \in 0..Len(items) /\ Len(<<>>) = 0
  BY ItemsAre
<1>2. EncodedUpTo(items)[0] = <<>> /\ EncodedUpTo(items)[Len(items)] \in Seq(Octet)
  BY <1>1, ItemsAre, Zenon
<1> QED BY <1>1, <1>2, Zenon DEF EncodeAll

-----------------------------------------------------------------------------
(* The iterator stops where the sender's items begin.                      *)

(* What the iterator makes of the rest behind the first k items.           *)
NextRead(items, k) ==
  LET d == From(EncodeAll(items), Len(EncodedUpTo(items)[k]) + 1)
      x == items[k + 1]
  IN /\ x.excess = 0 =>
          /\ ReadAs(d, x)
          /\ Len(EncodedUpTo(items)[k]) + GetElementLength(d) = Len(EncodedUpTo(items)[k + 1])
     /\ x.excess > 0 /\ k + 1 = Len(items) => ~ParseBER(d).ok

(* One step of the iterator behind k items reads the next one.             *)
LEMMA NextIs ==
  ASSUME NEW items \in Seq(Item), Len(EncodeAll(items)) <= MaxLength,
         NEW k \in Nat, k < Len(items)
  PROVE  /\ NextRead(items, k)
         /\ Len(EncodedUpTo(items)[k]) < Len(EncodedUpTo(items)[k + 1])
         /\ Len(EncodedUpTo(items)[k + 1]) <= Len(EncodeAll(items))
<1>1. PICK U, D, x : U = EncodedUpTo(items) /\ D = EncodeAll(items) /\ x = items[k + 1]
  OBVIOUS
<1>2. PICK n, m \in Nat : n = Len(items) /\ m = k + 1
  BY ItemsAre
<1>3. m \in 1..n /\ k \in 0..n /\ m \in 0..n
  BY <1>2
<1>4. x \in Item /\ Encode(x) \in Seq(Octet)
  BY <1>1, <1>2, <1>3, ItemsAre, EncodeType, Zenon
<1>5. PICK d, rest : d = From(D, Len(U[k]) + 1) /\ rest = From(D, Len(U[k + 1]) + 1)
  OBVIOUS
<1>6. /\ d = Encode(x) \o rest /\ rest \in Seq(Octet)
      /\ Len(d) = Len(D) - Len(U[k]) /\ Len(rest) = Len(D) - Len(U[k + 1])
      /\ Len(U[k + 1]) = Len(U[k]) + Len(Encode(x))
      /\ Len(U[k + 1]) <= Len(D)
  BY <1>1, <1>5, FollowsIs, Zenon
<1>7. PICK a, b, l, h \in Nat :
        a = Len(U[k]) /\ b = Len(U[k + 1]) /\ l = Len(Encode(x)) /\ h = Len(D)
  BY <1>1, <1>2, <1>3, <1>4, ItemsAre, AllRead, LenProperties, Zenon
<1>8. l >= 2
  BY <1>4, <1>7, EncodeType
<1>9. b = a + l /\ a < b /\ b <= h /\ Len(d) = h - a /\ Len(rest) = h - b
  BY <1>6, <1>7, <1>8
<1>10. Len(d) <= MaxLength
  BY <1>1, <1>7, <1>9, BerAssumption
<1>11. /\ x.excess = 0 => ReadAs(d, x) /\ GetElementLength(d) = l
       /\ x.excess > Len(rest) => ~ParseBER(d).ok
  BY <1>4, <1>6, <1>7, <1>10, ItemRead, Zenon
<1>12. x.excess > 0 /\ m = n => x.excess > Len(rest)
  <2>1. ASSUME m = n PROVE Len(rest) = 0
    <3>1. b = h
      BY <1>1, <1>2, <1>7, <2>1, AllRead
    <3> QED BY <1>9, <3>1
  <2> QED BY <2>1
<1>13. NextRead(items, k)
  <2>1. x.excess = 0 => ReadAs(d, x) /\ a + GetElementLength(d) = b
    BY <1>9, <1>11
  <2>2. x.excess > 0 /\ k + 1 = Len(items) => ~ParseBER(d).ok
    BY <1>2, <1>11, <1>12
  <2> QED BY <1>1, <1>5, <1>7, <2>1, <2>2, Zenon DEF NextRead
<1> QED BY <1>1, <1>7, <1>9, <1>13

(* What is known of a frame.                                               *)
LEMMA FrameIs ==
  ASSUME NEW f \in Frames
  PROVE  /\ f.apdu \in Item /\ f.apdu.parts \in Seq(Item)
         /\ f.apdu.body = EncodeAll(f.apdu.parts)
         /\ Len(EncodeAll(f.apdu.parts)) <= MaxLength
         /\ f.apdu.excess = 0 => ReadAs(f.octets, f.apdu)
         /\ f.apdu.excess > 0 => ~ParseBER(f.octets).ok
<1>1. PICK x, d : x = f.apdu /\ d = f.octets
  OBVIOUS
<1>2. x \in Item /\ x.body = EncodeAll(x.parts) /\ d = Encode(x) /\ Len(d) <= MaxLength
  BY <1>1, SentAssumption, FrameAssumption, Zenon DEF MadeOfParts
<1>3. x.parts \in Seq(Item)
  BY <1>2, ItemAssumption
<1>4. d \in Seq(Octet) /\ <<>> \in Seq(Octet) /\ Len(<<>>) = 0
  BY <1>2, EncodeType
<1>5. d = Encode(x) \o <<>>
  BY <1>2, <1>4
<1>6. /\ x.excess = 0 => ReadAs(d, x)
      /\ x.excess > 0 => ~ParseBER(d).ok
  BY <1>2, <1>4, <1>5, ItemRead
<1>7. PICK n, l, h \in Nat : n = Len(Identifier(x)) /\ l = Len(x.body) /\ h = Len(d)
  BY <1>2, <1>4, PiecesAre, LenProperties, Zenon
<1>8. h = n + (1 + x.pad) + l + 0 /\ x.pad \in 0..4
  <2>1. Len(LengthOctets(Claimed(x), x.pad)) = 1 + x.pad /\ x.pad \in 0..4
    BY <1>2, PiecesAre
  <2> QED BY <1>2, <1>7, <2>1, EncodeIs, Zenon DEF Laid
<1>9. l <= MaxLength
  BY <1>2, <1>7, <1>8, BerAssumption
<1> QED BY <1>1, <1>2, <1>3, <1>6, <1>7, <1>9, Zenon

(* The first k items claim no more than they have.                         *)
Uncut(k) == \A i \in 1..k : Items[i].excess = 0

(* Behind how many items the iterator stands, all of them read as sent; or *)
(* it has gone past an item that is cut with others behind it.             *)
Behind(k) == Uncut(k) /\ at = Len(EncodedUpTo(Items)[k])
PastCut == \E i \in 1..Len(Items) : i < Len(Items) /\ Items[i].excess > 0

(* What is known of a frame on its way: a drop and an error have a cause,  *)
(* and while the PDU is parsed the iterator stands where an item begins.   *)
WireInv ==
  /\ frame \in Frames
  /\ stage = "dropped" => DroppedForCause
  /\ MissedForCause
  /\ stage \in {"wire", "captured"} => at = 0
  /\ stage = "error" =>
       frame.apdu.excess > 0 \/ Identifier(frame.apdu)[1] # APDUTag \/ Cut(Items)
  /\ stage \in {"pdu", "done"} =>
       /\ pdu = EncodeAll(Items)
       /\ PastCut \/ \E k \in 0..Len(Items) : Behind(k) /\ (stage = "done" => k = Len(Items))

(* It holds of a frame that waits for its capture.                         *)
LEMMA WireInit == Init => WireInv
BY DEF Init, WireInv, MissedForCause

(* Which frames no capture receives.                                       *)
LEMMA Compiles ==
  ASSUME frame \in Frames
  PROVE  ~KernelFilter(frame).compiles <=>
           \/ frame.to # "sv" /\ frame.configured = "broken"
           \/ frame.to = "fast" /\ frame.configured = "none"
<1>1. frame.to \in {"plain", "fast", "sv"} /\ PrefixSize \notin LoadSizes
  BY FrameAssumption DEF PrefixSize, LoadSizes
<1> QED BY <1>1 DEF KernelFilter, BuildBPFFilter, FilterOr, PrefixFilter, EtherProtoFilter

(* A frame's items are items.                                              *)
LEMMA ItemsOfFrame ==
  ASSUME frame \in Frames
  PROVE  /\ Items \in Seq(Item) /\ Len(Items) \in Nat
         /\ \A i \in 1..Len(Items) : Items[i] \in Item /\ Items[i].excess \in Nat
         /\ DOMAIN Items = 1..Len(Items)
         /\ Len(EncodeAll(Items)) <= MaxLength
<1>1. Items \in Seq(Item) /\ Len(EncodeAll(Items)) <= MaxLength
  BY FrameIs DEF Items
<1>2. Len(Items) \in Nat /\ DOMAIN Items = 1..Len(Items) /\ \A i \in 1..Len(Items) : Items[i] \in Item
  BY <1>1, ItemsAre, LenProperties
<1> QED BY <1>1, <1>2, ItemAssumption

(* Every step keeps the iterator between two of the sender's items.        *)
LEMMA WireNext == WireInv /\ [Next]_vars => WireInv'
<1> SUFFICES ASSUME WireInv, [Next]_vars PROVE WireInv'
  OBVIOUS
<1>0. frame \in Frames
  BY DEF WireInv
<1>1. CASE UNCHANGED vars
  BY <1>1 DEF vars, WireInv, DroppedForCause, MissedForCause, APDUTag, Cut, PastCut, Behind, Uncut, Items
<1>2. CASE Miss \/ Capture
  <2>1. /\ stage = "wire" /\ frame' = frame /\ at' = at /\ at = 0
        /\ stage' = IF ~KernelFilter(frame).compiles THEN "missed"
                    ELSE IF KernelFilter(frame).admits /\ Accepted(frame)
                         THEN "captured" ELSE "dropped"
    BY <1>2 DEF Miss, Capture, WireInv
  <2>2. MissedForCause'
    BY <1>0, <2>1, Compiles DEF MissedForCause
  <2>3. ASSUME stage' = "dropped" PROVE DroppedForCause'
    <3>1. /\ frame.to \in {"plain", "fast", "sv"}
          /\ frame.configured \in {"none", "admits", "refuses", "broken"}
      BY <1>0, FrameAssumption
    <3>2. ~(KernelFilter(frame).admits /\ Accepted(frame))
      BY <2>1, <2>3
    <3>3. frame.to # "sv" => frame.configured # "broken"
      BY <1>0, <2>1, <2>3, Compiles
    <3>4. CASE ~KernelFilter(frame).admits
      BY <2>1, <3>1, <3>3, <3>4 DEF DroppedForCause, KernelFilter, BuildBPFFilter, FilterOr,
         PrefixFilter, EtherProtoFilter
    <3>5. CASE ~Accepted(frame)
      BY <2>1, <3>1, <3>5 DEF DroppedForCause, Accepted, IsGOOSEPacket, FastPreFilter
    <3> QED BY <3>2, <3>4, <3>5
  <2> QED BY <1>0, <2>1, <2>2, <2>3 DEF WireInv
<1>3. CASE OpenAPDU
  <2>0. MissedForCause'
    BY <1>3 DEF OpenAPDU, WireInv, MissedForCause
  <2>1. stage = "captured" /\ frame' = frame /\ at' = at /\ at = 0 /\ APDUTag' = APDUTag
    BY <1>3 DEF OpenAPDU, WireInv, APDUTag
  <2>2. Items' = Items
    BY <2>1 DEF Items
  <2>3. CASE ParseBER(frame.octets).ok /\ ParseBER(frame.octets).tag = APDUTag
    <3>1. stage' = "pdu" /\ pdu' = ParseBER(frame.octets).data
      BY <1>3, <2>3 DEF OpenAPDU
    <3>2. frame.apdu.excess = 0
      <4>1. frame.apdu.excess \in Nat
        BY <1>0, FrameIs, ItemAssumption
      <4>2. ~(frame.apdu.excess > 0)
        BY <1>0, <2>3, FrameIs
      <4> QED BY <4>1, <4>2
    <3>3. pdu' = EncodeAll(Items)
      BY <1>0, <3>1, <3>2, FrameIs DEF ReadAs, Items
    <3>4. 0 \in 0..Len(Items) /\ Behind(0)'
      <4>1. at = Len(EncodedUpTo(Items)[0])
        BY <1>0, <2>1, ItemsOfFrame, AllRead
      <4>2. 1..0 = {}
        OBVIOUS
      <4> QED BY <1>0, <2>1, <2>2, <4>1, <4>2, ItemsOfFrame DEF Behind, Uncut
    <3> QED BY <1>0, <2>0, <2>1, <2>2, <3>1, <3>3, <3>4 DEF WireInv
  <2>4. CASE ~(ParseBER(frame.octets).ok /\ ParseBER(frame.octets).tag = APDUTag)
    <3>1. stage' = "error"
      BY <1>3, <2>4 DEF OpenAPDU
    <3>2. ~(frame.apdu.excess > 0) => Identifier(frame.apdu)[1] # APDUTag
      <4>1. frame.apdu.excess \in Nat
        BY <1>0, FrameIs, ItemAssumption
      <4>2. frame.apdu.excess = 0 => ReadAs(frame.octets, frame.apdu)
        BY <1>0, FrameIs
      <4> QED BY <2>4, <4>1, <4>2 DEF ReadAs
    <3> QED BY <1>0, <2>0, <2>1, <2>2, <3>1, <3>2 DEF WireInv
  <2> QED BY <2>3, <2>4
<1>4. CASE NextElement \/ BadElement \/ Finish
  <2>0. MissedForCause'
    BY <1>4 DEF NextElement, BadElement, Finish, WireInv, MissedForCause
  <2>1. /\ stage = "pdu" /\ frame' = frame /\ pdu' = pdu /\ Items' = Items
        /\ pdu = EncodeAll(Items)
        /\ PastCut \/ \E k \in 0..Len(Items) : Behind(k)
    BY <1>4 DEF NextElement, BadElement, Finish, WireInv, Items
  <2>2. PastCut' = PastCut /\ Cut(Items)' = Cut(Items) /\ APDUTag' = APDUTag
    BY <2>1 DEF PastCut, Cut, APDUTag
  <2>3. CASE PastCut
    <3>1. Cut(Items)
      BY <1>0, <2>3, ItemsOfFrame DEF PastCut, Cut
    <3>2. stage' \in {"pdu", "error", "done"}
      BY <1>4, <2>1 DEF NextElement, BadElement, Finish
    <3> QED BY <1>0, <2>0, <2>1, <2>2, <2>3, <3>1, <3>2 DEF WireInv
  <2>4. ASSUME NEW k \in 0..Len(Items), Behind(k) PROVE WireInv'
    <3>1. k \in Nat /\ Len(Items) \in Nat /\ at = Len(EncodedUpTo(Items)[k])
      BY <1>0, <2>4, ItemsOfFrame DEF Behind
    <3>2. PICK e : e = ParseBER(From(pdu, at + 1))
      OBVIOUS
    <3>3. ASSUME k < Len(Items) PROVE NextRead(Items, k) /\ at < Len(pdu)
      <4>1. /\ NextRead(Items, k)
            /\ Len(EncodedUpTo(Items)[k]) < Len(EncodedUpTo(Items)[k + 1])
            /\ Len(EncodedUpTo(Items)[k + 1]) <= Len(EncodeAll(Items))
        BY <1>0, <3>1, <3>3, ItemsOfFrame, NextIs
      <4>2. k \in 0..Len(Items) /\ k + 1 \in 0..Len(Items)
        BY <3>1, <3>3
      <4>3. Len(EncodedUpTo(Items)[k]) \in Nat /\ Len(EncodedUpTo(Items)[k + 1]) \in Nat
        BY <1>0, <4>2, ItemsOfFrame, ItemsAre, Zenon
      <4>4. Len(EncodeAll(Items)) \in Nat
        BY <1>0, ItemsOfFrame, AllRead, LenProperties
      <4>5. at < Len(EncodeAll(Items))
        BY <3>1, <4>1, <4>3, <4>4
      <4> QED BY <2>1, <4>1, <4>5
    <3>4. ASSUME ~(k < Len(Items)) PROVE k = Len(Items) /\ at = Len(pdu)
      <4>1. PICK n \in Nat : n = Len(Items)
        BY <3>1
      <4>2. k = n
        BY <3>4, <4>1
      <4>3. at = Len(EncodeAll(Items))
        BY <1>0, <3>1, <4>1, <4>2, ItemsOfFrame, AllRead, Zenon
      <4> QED BY <2>1, <4>1, <4>2, <4>3
    <3>5. CASE NextElement
      <4>1. /\ at < Len(pdu) /\ ParseBER(From(pdu, at + 1)).ok /\ stage' = "pdu"
            /\ at' = at + GetElementLength(From(pdu, at + 1))
        BY <3>5 DEF NextElement
      <4>2. k < Len(Items)
        <5>1. Len(pdu) \in Nat
          BY <1>0, <2>1, ItemsOfFrame, AllRead, LenProperties
        <5> QED BY <3>4, <4>1, <5>1
      <4>3. PICK x : x = Items[k + 1]
        OBVIOUS
      <4>4. k + 1 \in 1..Len(Items) /\ k + 1 \in 0..Len(Items)
        BY <3>1, <4>2
      <4>5. x.excess \in Nat
        BY <1>0, <4>3, <4>4, ItemsOfFrame
      <4>6. CASE x.excess = 0
        <5>1. at' = Len(EncodedUpTo(Items)[k + 1])
          BY <2>1, <3>1, <3>3, <4>1, <4>2, <4>3, <4>6 DEF NextRead
        <5>2. Uncut(k + 1)
          <6>1. \A i \in 1..(k + 1) : i \in 1..k \/ i = k + 1
            BY <3>1
          <6> QED BY <2>4, <4>3, <4>6, <6>1, Zenon DEF Behind, Uncut
        <5>3. Behind(k + 1)'
          BY <2>1, <5>1, <5>2 DEF Behind, Uncut
        <5> QED BY <1>0, <2>0, <2>1, <4>1, <4>4, <5>3 DEF WireInv
      <4>7. CASE x.excess > 0
        <5>1. k + 1 # Len(Items)
          BY <2>1, <3>1, <3>3, <4>1, <4>2, <4>3, <4>7 DEF NextRead
        <5>2. PastCut
          BY <3>1, <4>2, <4>3, <4>4, <4>7, <5>1 DEF PastCut
        <5> QED BY <1>0, <2>0, <2>1, <2>2, <4>1, <5>2 DEF WireInv
      <4> QED BY <4>5, <4>6, <4>7
    <3>6. CASE BadElement
      <4>1. at < Len(pdu) /\ ~ParseBER(From(pdu, at + 1)).ok /\ stage' = "error"
        BY <3>6 DEF BadElement
      <4>2. k < Len(Items)
        <5>1. Len(pdu) \in Nat
          BY <1>0, <2>1, ItemsOfFrame, AllRead, LenProperties
        <5> QED BY <3>4, <4>1, <5>1
      <4>3. k + 1 \in 1..Len(Items)
        BY <3>1, <4>2
      <4>4. Items[k + 1].excess \in Nat
        BY <1>0, <4>3, ItemsOfFrame
      <4>5. Items[k + 1].excess # 0
        BY <2>1, <3>1, <3>3, <4>1, <4>2 DEF NextRead, ReadAs
      <4>6. Cut(Items)
        BY <1>0, <4>3, <4>4, <4>5, ItemsOfFrame DEF Cut
      <4> QED BY <1>0, <2>0, <2>1, <2>2, <4>1, <4>6 DEF WireInv
    <3>7. CASE Finish
      <4>1. at >= Len(pdu) /\ stage' = "done" /\ at' = at
        BY <3>7 DEF Finish
      <4>2. k = Len(Items)
        <5>1. Len(pdu) \in Nat /\ at \in Nat
          BY <1>0, <2>1, <3>1, ItemsOfFrame, AllRead, ItemsAre, LenProperties
        <5> QED BY <3>3, <3>4, <4>1, <5>1
      <4>3. Behind(k)'
        BY <2>1, <2>4, <4>1 DEF Behind, Uncut
      <4> QED BY <1>0, <2>0, <2>1, <4>1, <4>2, <4>3 DEF WireInv
    <3> QED BY <1>4, <3>5, <3>6, <3>7
  <2> QED BY <2>1, <2>3, <2>4
<1> QED BY <1>1, <1>2, <1>3, <1>4 DEF Next

(* Where the iterator stands says what was parsed.                         *)
LEMMA WireImplies == WireInv => ParsedAsSent
<1> SUFFICES ASSUME WireInv PROVE ParsedAsSent
  OBVIOUS
<1>0. frame \in Frames
  BY DEF WireInv
<1>1. DroppedForCause /\ MissedForCause
  BY DEF WireInv, DroppedForCause
<1>2. ASSUME stage \in {"pdu", "done"}, ~PastCut
      PROVE  \E k \in 0..Len(Items) : Behind(k) /\ (stage = "done" => k = Len(Items))
  BY <1>2 DEF WireInv
<1>3. StopsAtItems
  <2> SUFFICES ASSUME stage \in {"pdu", "done"}, ~Cut(Items)
               PROVE  \E k \in 0..Len(Items) : /\ at = Len(EncodedUpTo(Items)[k])
                                               /\ stage = "done" => k = Len(Items)
    BY DEF StopsAtItems
  <2>1. ~PastCut
    BY <1>0, ItemsOfFrame DEF PastCut, Cut
  <2> QED BY <1>2, <2>1 DEF Behind
<1>4. ASSUME stage = "done", OnlyLastCut(Items) PROVE FALSE
  <2>1. Cut(Items) /\ \A i \in DOMAIN Items : Items[i].excess > 0 => i = Len(Items)
    BY <1>4 DEF OnlyLastCut
  <2>2. ~PastCut
    BY <1>0, <2>1, ItemsOfFrame DEF PastCut
  <2>3. Uncut(Len(Items))
    BY <1>2, <1>4, <2>2 DEF Behind
  <2>4. PICK i \in DOMAIN Items : Items[i].excess > 0
    BY <2>1 DEF Cut
  <2>5. Items[i].excess = 0
    BY <1>0, <2>3, ItemsOfFrame DEF Uncut
  <2> QED BY <2>4, <2>5
<1>5. RejectedForCause
  BY <1>4 DEF WireInv, RejectedForCause
<1> QED BY <1>1, <1>3, <1>5 DEF ParsedAsSent

(* Every frame keeps to it, whatever was sent.                             *)
THEOREM WireInvariant == Spec => []WireInv
BY WireInit, WireNext, PTL DEF Spec

(* Every frame of an endpoint gets to its parser, and the parser stops at  *)
(* the items that were sent, for every sender and every frame: from        *)
(* fastPreFilter and IsGOOSEPacket to BERIterator.Next.                    *)
THEOREM ParsesWhatWasSent == Spec => []ParsedAsSent
BY WireInvariant, WireImplies, PTL

-----------------------------------------------------------------------------
(* Items within an item.                                                   *)

(* Elements' recursion.                                                    *)
Reading(d, from) ==
  \A i \in 0..Len(d) :
    from[i] = LET e == ParseBER(From(d, i + 1))
              IN IF i = Len(d) THEN [ok |-> TRUE, seq |-> <<>>]
                 ELSE IF ~e.ok THEN [ok |-> FALSE, seq |-> <<>>]
                 ELSE LET rest == from[i + GetElementLength(From(d, i + 1))]
                      IN [ok |-> rest.ok, seq |-> <<e>> \o rest.seq]

(* The elements that may be found in d: their contents are shorter.        *)
ElementsIn(d) ==
  {e \in {ParseBER(From(d, i + 1)) : i \in 0..Len(d)} :
     e.data \in Seq(Octet) /\ Len(e.data) < Len(d)}

(* ElementsFrom's recursion has a solution, and its values are these.      *)
LEMMA ElementsFromIs ==
  ASSUME NEW d \in Seq(Octet)
  PROVE  /\ Reading(d, ElementsFrom(d))
         /\ \A i \in 0..Len(d) : ElementsFrom(d)[i].ok \in BOOLEAN
                               /\ ElementsFrom(d)[i].seq \in Seq(ElementsIn(d))
<1>1. PICK n \in Nat : n = Len(d)
  BY LenProperties
<1> DEFINE e(i) == ParseBER(From(d, i + 1))
           size(i) == GetElementLength(From(d, i + 1))
           D == 0..n
           E == ElementsIn(d)
           X == [ok : BOOLEAN, seq : Seq(E)]
           value(i, f) ==
             IF i = n THEN [ok |-> TRUE, seq |-> <<>>]
             ELSE IF ~e(i).ok THEN [ok |-> FALSE, seq |-> <<>>]
             ELSE [ok |-> f[i + size(i)].ok, seq |-> <<e(i)>> \o f[i + size(i)].seq]
           G == [i \in D |-> [f \in [D -> X] |-> value(i, f)]]
           rank == [i \in D |-> n - i]
<1>2. ASSUME NEW i \in D, i # n, e(i).ok
      PROVE  i + size(i) \in D /\ i + size(i) > i /\ e(i) \in E
  <2>1. PICK a \in Nat : a = i
    OBVIOUS
  <2>2. a <= Len(d)
    BY <1>1, <2>1
  <2>3. RestOf(From(d, a + 1), d, a)
    BY <2>2, FromIs
  <2>4. From(d, a + 1) \in Seq(Octet) /\ Len(From(d, a + 1)) = n - a
    BY <1>1, <2>3, Zenon DEF RestOf
  <2>5. size(i) \in 2..(n - a)
    BY <1>2, <2>1, <2>4, ElementIs
  <2>6. e(i).data \in Seq(Octet) /\ Len(e(i).data) < n - a
    BY <1>2, <2>1, <2>4, ElementIs
  <2>7. e(i) \in {ParseBER(From(d, j + 1)) : j \in 0..Len(d)}
    BY <1>1, Zenon
  <2> HIDE DEF size, e
  <2>8. Len(e(i).data) < Len(d)
    <3>1. Len(e(i).data) \in Nat
      BY <2>6, LenProperties
    <3> QED BY <1>1, <2>1, <2>6, <3>1
  <2>9. e(i) \in E
    BY <2>6, <2>7, <2>8, Zenon DEF ElementsIn
  <2> QED BY <2>1, <2>2, <2>5, <2>9
<1> HIDE DEF e, size, E
<1>a. ASSUME NEW i \in D, NEW f, i # n /\ e(i).ok => f[i + size(i)] \in X
      PROVE  value(i, f) \in X
  <2>1. CASE i = n \/ ~e(i).ok
    <3>1. <<>> \in Seq(E)
      OBVIOUS
    <3> QED BY <2>1, <3>1
  <2>2. CASE i # n /\ e(i).ok
    <3>1. f[i + size(i)] \in X
      BY <1>a, <2>2
    <3>2. <<e(i)>> \in Seq(E)
      <4>1. e(i) \in E
        BY <1>2, <2>2
      <4> QED BY <4>1
    <3>3. /\ f[i + size(i)].ok \in BOOLEAN
          /\ <<e(i)>> \o f[i + size(i)].seq \in Seq(E)
      <4>1. f[i + size(i)].seq \in Seq(E) /\ f[i + size(i)].ok \in BOOLEAN
        BY <3>1
      <4> QED BY <3>2, <4>1, ConcatProperties
    <3>4. value(i, f) = [ok |-> f[i + size(i)].ok, seq |-> <<e(i)>> \o f[i + size(i)].seq]
      BY <2>2, Zenon
    <3> QED BY <3>3, <3>4
  <2> QED BY <2>1, <2>2
<1>3. ASSUME NEW i \in D, NEW f \in [D -> X] PROVE value(i, f) \in X
  <2>1. i # n /\ e(i).ok => f[i + size(i)] \in X
    BY <1>2
  <2> HIDE DEF X, value
  <2> QED BY <1>a, <2>1
<1>4. ASSUME NEW i \in D, NEW f \in [D -> X], NEW g \in [D -> X],
             \A j \in D : rank[j] < rank[i] => f[j] = g[j]
      PROVE  value(i, f) = value(i, g)
  <2>1. CASE i = n \/ ~e(i).ok
    BY <2>1, Zenon
  <2>2. CASE i # n /\ e(i).ok
    <3>1. PICK j \in D : j = i + size(i) /\ j > i
      BY <1>2, <2>2
    <3>2. rank[j] < rank[i]
      BY <3>1
    <3>3. f[i + size(i)] = g[i + size(i)]
      BY <1>4, <3>1, <3>2, Zenon
    <3> QED BY <3>3, Zenon
  <2> QED BY <2>1, <2>2
<1>5. X # {}
  <2>1. [ok |-> TRUE, seq |-> <<>>] \in X
    OBVIOUS
  <2> QED BY <2>1
<1>6. rank \in [D -> Nat]
  OBVIOUS
<1>7. \A i \in D, f \in [D -> X] : G[i][f] = value(i, f)
  BY Zenon
<1> HIDE DEF X, value
<1>8. G \in [D -> [[D -> X] -> X]]
  BY <1>3
<1> HIDE DEF G, D
<1>9. \E f \in [D -> X] : \A i \in D : f[i] = value(i, f)
  <2>1. \A i \in D : \A f, g \in [D -> X] :
          (\A j \in D : rank[j] < rank[i] => f[j] = g[j]) => G[i][f] = G[i][g]
    <3> HIDE DEF rank
    <3> SUFFICES ASSUME NEW i \in D, NEW f \in [D -> X], NEW g \in [D -> X],
                        \A j \in D : rank[j] < rank[i] => f[j] = g[j]
                 PROVE  G[i][f] = G[i][g]
      BY Zenon
    <3>1. value(i, f) = value(i, g)
      BY <1>4
    <3>2. G[i][f] = value(i, f) /\ G[i][g] = value(i, g)
      BY <1>7
    <3> QED BY <3>1, <3>2, Zenon
  <2> HIDE DEF rank
  <2>2. Recursive(D, X, G, rank)
    BY <1>5, <1>6, <1>8, <2>1, Zenon DEF Recursive
  <2>3. Solvable(D, X, G)
    BY <2>2, Recursion, Zenon
  <2> QED BY <1>7, <2>3, Zenon DEF Solvable
<1>10. PICK g \in [D -> X] : \A i \in D : g[i] = value(i, g)
  BY <1>9, Zenon
<1> DEFINE P(h) == h = [i \in 0..Len(d) |->
                        LET u == ParseBER(From(d, i + 1))
                        IN IF i = Len(d) THEN [ok |-> TRUE, seq |-> <<>>]
                           ELSE IF ~u.ok THEN [ok |-> FALSE, seq |-> <<>>]
                           ELSE LET rest == h[i + GetElementLength(From(d, i + 1))]
                                IN [ok |-> rest.ok, seq |-> <<u>> \o rest.seq]]
<1>11. P(g)
  <2>1. g = [i \in D |-> value(i, g)]
    BY <1>10
  <2> QED BY <1>1, <2>1, Zenon DEF D, value, e, size
<1>12. ElementsFrom(d) = CHOOSE h : P(h)
  BY Zenon DEF ElementsFrom
<1>13. P(ElementsFrom(d))
  <2> HIDE DEF P
  <2> QED BY <1>11, <1>12, Zenon
<1>14. PICK h : h = ElementsFrom(d)
  OBVIOUS
<1>15. P(h)
  BY <1>13, <1>14, Zenon
<1>16. Reading(d, h)
  BY <1>15, Zenon DEF Reading
<1>17. \A i \in D : h[i] = value(i, h)
  BY <1>1, <1>15, Zenon DEF D, value, e, size
<1> DEFINE S == {r \in Nat : \A i \in D : n - i < r => h[i] \in X}
<1>18. 0 \in S
  BY DEF D
<1>19. ASSUME NEW r \in Nat, r \in S PROVE r + 1 \in S
  <2>1. ASSUME NEW i \in D, n - i < r + 1 PROVE h[i] \in X
    <3>1. i # n /\ e(i).ok => h[i + size(i)] \in X
      <4> SUFFICES ASSUME i # n, e(i).ok PROVE h[i + size(i)] \in X
        OBVIOUS
      <4>1. PICK j \in D : j = i + size(i) /\ j > i
        BY <1>2
      <4>2. n - j < r
        BY <2>1, <4>1 DEF D
      <4>3. h[j] \in X
        BY <1>19, <4>2
      <4> QED BY <4>1, <4>3
    <3> QED BY <1>a, <1>17, <3>1
  <2> QED BY <2>1
<1>20. Nat \subseteq S
  <2> HIDE DEF S
  <2> QED BY <1>18, <1>19, Counting
<1>21. ASSUME NEW i \in D PROVE h[i] \in X
  <2>1. PICK r \in Nat : r = n - i + 1
    BY DEF D
  <2>2. n - i < r
    BY <2>1 DEF D
  <2>3. r \in S
    <3> HIDE DEF S
    <3> QED BY <1>20
  <2> QED BY <2>2, <2>3
<1>22. \A i \in 0..Len(d) : h[i].ok \in BOOLEAN /\ h[i].seq \in Seq(ElementsIn(d))
  BY <1>1, <1>21 DEF D, X, E
<1> QED BY <1>14, <1>16, <1>22, Zenon

(* The element e is what the item x was sent as.                           *)
Parsed(e, x) ==
  /\ e.ok /\ ParseBER(e.full) = e
  /\ e.class = x.class /\ e.num = Number(x) /\ e.data = x.body

(* The first m of these items can be read: all of them, or all but the     *)
(* last, which is cut.                                                     *)
Readable(items, m) ==
  /\ m \in Nat /\ m <= Len(items)
  /\ \A i \in 1..m : items[i].excess = 0
  /\ m # Len(items) => m + 1 = Len(items) /\ items[m + 1].excess > 0

(* What is read of them from the k-th on.                                  *)
ReadFrom(r, items, k, m) ==
  /\ r.ok <=> m = Len(items)
  /\ \E E : r.seq \in Seq(E)
  /\ Len(r.seq) = m - k
  /\ \A i \in 1..(m - k) : Parsed(r.seq[i], items[k + i])

(* A sequence with an element put in front.                                *)
LEMMA PrependIs ==
  ASSUME NEW E, NEW e \in E, NEW s \in Seq(E)
  PROVE  /\ <<e>> \o s \in Seq(E) /\ Len(<<e>> \o s) = Len(s) + 1
         /\ (<<e>> \o s)[1] = e
         /\ \A i \in 1..Len(s) : (<<e>> \o s)[i + 1] = s[i]
<1>1. PICK u : u = <<e>>
  OBVIOUS
<1>2. u \in Seq(E) /\ Len(u) = 1 /\ u[1] = e
  BY <1>1
<1>3. PICK l \in Nat : l = Len(s)
  BY LenProperties
<1>4. PICK t : t = u \o s
  OBVIOUS
<1>5. /\ t \in Seq(E) /\ Len(t) = 1 + l
      /\ \A i \in 1..(1 + l) : t[i] = IF i <= 1 THEN u[i] ELSE s[i - 1]
  <2>1. /\ u \o s \in Seq(E) /\ Len(u \o s) = Len(u) + Len(s)
        /\ \A i \in 1..(Len(u) + Len(s)) :
             (u \o s)[i] = IF i <= Len(u) THEN u[i] ELSE s[i - Len(u)]
    BY <1>2, ConcatProperties, Zenon
  <2> QED BY <1>2, <1>3, <1>4, <2>1, Zenon
<1>6. t[1] = e
  BY <1>2, <1>5
<1>7. \A i \in 1..l : t[i + 1] = s[i]
  <2>1. \A i \in 1..l : i + 1 \in 1..(1 + l) /\ ~(i + 1 <= 1) /\ (i + 1) - 1 = i
    OBVIOUS
  <2> QED BY <1>5, <2>1
<1> QED BY <1>1, <1>3, <1>4, <1>5, <1>6, <1>7

(* From the boundary behind the first k items the readable ones are read.  *)
LEMMA ReadFromIs ==
  ASSUME NEW items \in Seq(Item), Len(EncodeAll(items)) <= MaxLength,
         NEW m, Readable(items, m), NEW from, Reading(EncodeAll(items), from)
  PROVE  \A k \in 0..m : ReadFrom(from[Len(EncodedUpTo(items)[k])], items, k, m)
<1>1. PICK U, D : U = EncodedUpTo(items) /\ D = EncodeAll(items)
  OBVIOUS
<1>2. PICK n \in Nat : n = Len(items)
  BY ItemsAre
<1>3. m \in Nat /\ m <= n /\ (m # n => m + 1 = n) /\ \A i \in 1..m : items[i].excess = 0
  BY <1>2 DEF Readable
<1>4. \A k \in 0..n : Len(U[k]) \in Nat
  BY <1>1, <1>2, ItemsAre, Zenon
<1>5. D \in Seq(Octet) /\ Len(D) \in Nat /\ Len(U[n]) = Len(D)
  BY <1>1, <1>2, AllRead, LenProperties, Zenon
<1>6. ASSUME NEW k \in Nat, k < n
      PROVE  /\ NextRead(items, k) /\ Len(U[k]) \in 0..Len(D) /\ Len(U[k]) # Len(D)
             /\ Len(U[k]) \in Nat
  <2>1. /\ NextRead(items, k) /\ Len(U[k]) < Len(U[k + 1]) /\ Len(U[k + 1]) <= Len(D)
    BY <1>1, <1>2, <1>6, NextIs, Zenon
  <2>2. k \in 0..n /\ k + 1 \in 0..n
    BY <1>6
  <2>3. Len(U[k]) \in Nat /\ Len(U[k + 1]) \in Nat
    BY <1>4, <2>2, Zenon
  <2> QED BY <1>5, <2>1, <2>3
<1>7. ASSUME NEW a \in 0..Len(D)
      PROVE  from[a] = IF a = Len(D) THEN [ok |-> TRUE, seq |-> <<>>]
                       ELSE IF ~ParseBER(From(D, a + 1)).ok THEN [ok |-> FALSE, seq |-> <<>>]
                       ELSE [ok |-> from[a + GetElementLength(From(D, a + 1))].ok,
                             seq |-> <<ParseBER(From(D, a + 1))>>
                                       \o from[a + GetElementLength(From(D, a + 1))].seq]
  BY <1>1, <1>7, Zenon DEF Reading
<1> DEFINE S == {j \in Nat : j <= m => ReadFrom(from[Len(U[m - j])], items, m - j, m)}
<1>8. 0 \in S
  <2>1. m - 0 = m
    BY <1>3
  <2>2. ReadFrom(from[Len(U[m])], items, m, m)
    <3>0. PICK r : r = from[Len(U[m])]
      OBVIOUS
    <3>1. r.seq = <<>> /\ (r.ok <=> m = n)
      <4>1. CASE m = n
        <5>1. Len(U[m]) \in 0..Len(D) /\ Len(U[m]) = Len(D)
          BY <1>5, <4>1
        <5>2. from[Len(U[m])] = [ok |-> TRUE, seq |-> <<>>]
          BY <1>7, <5>1, Zenon
        <5> QED BY <3>0, <4>1, <5>2
      <4>2. CASE m # n
        <5>1. m < n /\ m + 1 = n /\ items[m + 1].excess > 0
          BY <1>2, <1>3, <4>2 DEF Readable
        <5>2. NextRead(items, m) /\ Len(U[m]) \in 0..Len(D) /\ Len(U[m]) # Len(D)
          BY <1>3, <1>6, <5>1
        <5>3. ~ParseBER(From(D, Len(U[m]) + 1)).ok
          BY <1>1, <1>2, <5>1, <5>2, Zenon DEF NextRead
        <5>4. from[Len(U[m])] = [ok |-> FALSE, seq |-> <<>>]
          BY <1>7, <5>2, <5>3, Zenon
        <5> QED BY <3>0, <4>2, <5>4
      <4> QED BY <4>1, <4>2
    <3>2. <<>> \in Seq(Nat) /\ Len(<<>>) = m - m /\ 1..(m - m) = {}
      BY <1>3
    <3>3. ReadFrom(r, items, m, m)
      BY <1>2, <3>1, <3>2 DEF ReadFrom
    <3> QED BY <3>0, <3>3, Zenon
  <2> QED BY <2>1, <2>2
<1>9. ASSUME NEW j \in Nat, j \in S PROVE j + 1 \in S
  <2>1. SUFFICES ASSUME j + 1 <= m
                 PROVE  ReadFrom(from[Len(U[m - (j + 1)])], items, m - (j + 1), m)
    OBVIOUS
  <2>2. PICK k \in Nat : k = m - (j + 1)
    BY <1>3, <2>1
  <2>3. PICK q \in Nat : q = k + 1
    OBVIOUS
  <2>4. q = m - j /\ k < n /\ q \in 1..m /\ m - k = j + 1 /\ m - q = j /\ q \in 0..n
    BY <1>3, <2>1, <2>2, <2>3
  <2>5. PICK rest : rest = from[Len(U[q])]
    OBVIOUS
  <2>6. ReadFrom(rest, items, q, m)
    <3>1. j <= m
      BY <1>3, <2>1
    <3>2. ReadFrom(from[Len(U[m - j])], items, m - j, m)
      BY <1>9, <3>1, Zenon
    <3> QED BY <2>4, <2>5, <3>2, Zenon
  <2>7. PICK x, e : x = items[q] /\ e = ParseBER(From(D, Len(U[k]) + 1))
    OBVIOUS
  <2>8. x.excess = 0
    BY <1>3, <2>4, <2>7
  <2>9. /\ NextRead(items, k) /\ Len(U[k]) \in 0..Len(D) /\ Len(U[k]) # Len(D)
    BY <1>6, <2>4
  <2>10. /\ ReadAs(From(D, Len(U[k]) + 1), x)
         /\ Len(U[k]) + GetElementLength(From(D, Len(U[k]) + 1)) = Len(U[q])
    BY <1>1, <2>3, <2>7, <2>8, <2>9, Zenon DEF NextRead
  <2>11. Parsed(e, x)
    BY <2>7, <2>8, <2>10, Zenon DEF ReadAs, Parsed
  <2>12. e.ok
    BY <2>11 DEF Parsed
  <2>13. from[Len(U[k])] = [ok |-> rest.ok, seq |-> <<e>> \o rest.seq]
    BY <1>7, <2>5, <2>7, <2>9, <2>10, <2>12, Zenon
  <2>14. PICK E0 : rest.seq \in Seq(E0)
    BY <2>6 DEF ReadFrom
  <2>15. PICK E : E = E0 \union {e}
    OBVIOUS
  <2>16. PICK s : s = rest.seq
    OBVIOUS
  <2>17. s \in Seq(E) /\ e \in E
    BY <2>14, <2>15, <2>16
  <2>18. Len(s) = j /\ \A i \in 1..j : Parsed(s[i], items[q + i])
    BY <2>4, <2>6, <2>16, Zenon DEF ReadFrom
  <2>19. PICK t : t = <<e>> \o s
    OBVIOUS
  <2>20. t \in Seq(E) /\ Len(t) = j + 1 /\ t[1] = e /\ \A i \in 1..j : t[i + 1] = s[i]
    <3>1. /\ t \in Seq(E) /\ Len(t) = Len(s) + 1 /\ t[1] = e
          /\ \A i \in 1..Len(s) : t[i + 1] = s[i]
      <4>1. /\ <<e>> \o s \in Seq(E) /\ Len(<<e>> \o s) = Len(s) + 1
            /\ (<<e>> \o s)[1] = e
            /\ \A i \in 1..Len(s) : (<<e>> \o s)[i + 1] = s[i]
        BY <2>17, PrependIs
      <4> QED BY <2>19, <4>1, Zenon
    <3> QED BY <2>18, <3>1, Zenon
  <2>21. ASSUME NEW i \in 1..(j + 1) PROVE Parsed(t[i], items[k + i])
    <3>1. CASE i = 1
      BY <2>3, <2>7, <2>11, <2>20, <3>1
    <3>2. CASE i # 1
      <4>1. PICK h \in 1..j : i = h + 1
        <5>1. i - 1 \in 1..j /\ i = (i - 1) + 1
          BY <3>2
        <5> QED BY <5>1
      <4>2. k + i = q + h
        BY <2>3, <4>1
      <4> QED BY <2>18, <2>20, <4>1, <4>2
    <3> QED BY <3>1, <3>2
  <2>22. rest.ok <=> m = Len(items)
    BY <2>6 DEF ReadFrom
  <2>23. PICK r : r = from[Len(U[k])]
    OBVIOUS
  <2>24. r.ok = rest.ok /\ r.seq = t
    BY <2>13, <2>16, <2>19, <2>23
  <2>25. ReadFrom(r, items, k, m)
    BY <2>4, <2>20, <2>21, <2>22, <2>24, Zenon DEF ReadFrom
  <2> QED BY <2>2, <2>23, <2>25, Zenon
<1>10. ASSUME NEW k \in 0..m PROVE ReadFrom(from[Len(U[k])], items, k, m)
  <2>1. PICK j \in Nat : j = m - k
    BY <1>3
  <2>2. j <= m /\ m - j = k
    BY <1>3, <2>1
  <2>3. j \in S
    <3> HIDE DEF S
    <3> QED BY <1>8, <1>9, Counting
  <2>4. ReadFrom(from[Len(U[m - j])], items, m - j, m)
    BY <2>2, <2>3
  <2> QED BY <2>2, <2>4, Zenon
<1> QED BY <1>1, <1>10

(* A loop over the elements of a constructed item finds the items that were *)
(* encoded, each once and in their order, up to the one that is cut        *)
(* (ber.go:299-340).                                                       *)
THEOREM ElementsOfItems ==
  ASSUME NEW items \in Seq(Item), Len(EncodeAll(items)) <= MaxLength,
         NEW m, Readable(items, m)
  PROVE  ReadFrom(Elements(EncodeAll(items)), items, 0, m)
<1>1. Reading(EncodeAll(items), ElementsFrom(EncodeAll(items)))
  BY AllRead, ElementsFromIs
<1>2. 0 \in 0..m
  BY DEF Readable
<1>3. ReadFrom(ElementsFrom(EncodeAll(items))[Len(EncodedUpTo(items)[0])], items, 0, m)
  BY <1>1, <1>2, ReadFromIs, Zenon
<1> QED BY <1>3, AllRead, Zenon DEF Elements

-----------------------------------------------------------------------------
(* The data set of a message.                                              *)

(* What filing an element does to the data set of a message.               *)
LEMMA DataSetFiled ==
  ASSUME NEW m, "dataSet" \in DOMAIN m, NEW e, e.num \in Nat
  PROVE  /\ "dataSet" \in DOMAIN FileSV(m, e)
         /\ FileSV(m, e).dataSet = IF e.class = ClassContext /\ e.num = 6
                                   THEN ParseSVDataSet(e.data) ELSE m.dataSet
<1>0. DOMAIN Octets = {1, 2, 4, 5, 7}
  BY DEF Octets
<1> DEFINE filed == FileSV(m, e)
<1>1. CASE e.class # ClassContext
  <2>1. filed = m
    BY <1>1, Zenon DEF FileSV
  <2> QED BY <1>1, <2>1
<1>2. CASE e.class = ClassContext /\ e.num = 0
  <2>1. filed = [m EXCEPT !.svid = e.data]
    BY <1>0, <1>2 DEF FileSV
  <2> QED BY <1>2, <2>1
<1>3. CASE e.class = ClassContext /\ e.num \in {1, 2, 4, 5, 7}
  <2>1. filed = [m EXCEPT !.num[e.num] = Unsigned(e.data, Octets[e.num])]
    BY <1>0, <1>3 DEF FileSV
  <2> QED BY <1>3, <2>1
<1>4. CASE e.class = ClassContext /\ e.num = 3
  <2>1. filed = [m EXCEPT !.refrTm = @ \/ DecodeTimeStamp(e.full)]
    BY <1>0, <1>4 DEF FileSV
  <2> QED BY <1>4, <2>1
<1>5. CASE e.class = ClassContext /\ e.num = 6
  <2>1. filed = [m EXCEPT !.dataSet = ParseSVDataSet(e.data)]
    BY <1>0, <1>5 DEF FileSV
  <2> QED BY <1>5, <2>1
<1>6. CASE e.class = ClassContext /\ e.num = 8
  <2>1. filed = [m EXCEPT !.seqData = ParseSVSequenceData(e.data)]
    BY <1>0, <1>6 DEF FileSV
  <2> QED BY <1>6, <2>1
<1>7. CASE e.class = ClassContext /\ e.num \notin {0, 1, 2, 3, 4, 5, 6, 7, 8}
  <2>1. filed = m
    BY <1>0, <1>7 DEF FileSV
  <2> QED BY <1>7, <2>1
<1> QED BY <1>1, <1>2, <1>3, <1>4, <1>5, <1>6, <1>7

(* What filing an element does to the data of a GOOSE message.             *)
LEMMA AllDataFiled ==
  ASSUME NEW m, "allData" \in DOMAIN m, NEW e, e.num \in Nat
  PROVE  /\ "allData" \in DOMAIN FileGoose(m, e)
         /\ FileGoose(m, e).allData =
              IF e.class = ClassContext /\ e.num = AllDataTag /\ ParseAllData[e.data].ok
              THEN ParseAllData[e.data].attrs ELSE m.allData
<1> DEFINE filed == FileGoose(m, e)
<1>1. CASE e.class # ClassContext
  <2>1. filed = m
    BY <1>1, Zenon DEF FileGoose
  <2> QED BY <1>1, <2>1
<1>2. CASE e.class = ClassContext /\ e.num \in 0..2
  <2>1. filed = [m EXCEPT !.text[e.num] = e.data]
    BY <1>2 DEF FileGoose, AllDataTag
  <2> QED BY <1>2, <2>1 DEF AllDataTag
<1>3. CASE e.class = ClassContext /\ e.num = 3
  <2>1. filed = [m EXCEPT !.t = @ \/ DecodeTimeStamp(e.full)]
    BY <1>3 DEF FileGoose, AllDataTag
  <2> QED BY <1>3, <2>1 DEF AllDataTag
<1>4. CASE e.class = ClassContext /\ e.num \in 4..9
  <2>1. PICK res : filed = HeaderField(m, e.num, res)
    <3>1. CASE e.num \in {4, 5, 7}
      <4>1. filed = HeaderField(m, e.num, DecodeUnsigned(e.full))
        BY <1>4, <3>1 DEF FileGoose, AllDataTag
      <4> QED BY <4>1
    <3>2. CASE e.num \in {6, 8, 9}
      <4>1. filed = HeaderField(m, e.num, DecodeBoolean(e.full))
        BY <1>4, <3>2 DEF FileGoose, AllDataTag
      <4> QED BY <4>1
    <3> QED BY <1>4, <3>1, <3>2
  <2> HIDE DEF filed
  <2>2. "allData" \in DOMAIN filed /\ filed.allData = m.allData
    BY <2>1 DEF HeaderField
  <2> QED BY <1>4, <2>2 DEF AllDataTag, filed
<1>5. CASE e.class = ClassContext /\ e.num = AllDataTag
  <2>1. filed = IF ParseAllData[e.data].ok
                THEN [m EXCEPT !.allData = ParseAllData[e.data].attrs] ELSE m
    BY <1>5 DEF FileGoose, AllDataTag
  <2> QED BY <1>5, <2>1
<1>6. CASE e.class = ClassContext /\ e.num \notin 0..9 /\ e.num # AllDataTag
  <2>1. filed = m
    BY <1>6 DEF FileGoose
  <2> QED BY <1>6, <2>1
<1> QED BY <1>1, <1>2, <1>3, <1>4, <1>5, <1>6 DEF AllDataTag

(* The last of the first k items with this context number, or none of them *)
(* has it.                                                                 *)
LastUnder(num, k, i) ==
  i \in Under(num) /\ i <= k /\ \A j \in Under(num) : j <= k => j <= i
NoneUnder(num, k) == \A j \in Under(num) : ~(j <= k)

(* What is in a message when the first k items are filed.                  *)
SvFiled(k) ==
  /\ "dataSet" \in DOMAIN msg
  /\ \A i : LastUnder(6, k, i) => msg.dataSet = ParseSVDataSet(Items[i].body)
  /\ NoneUnder(6, k) => msg.dataSet = <<>>

GooseFiled(k) ==
  /\ "allData" \in DOMAIN msg
  /\ \A i : LastUnder(AllDataTag, k, i) /\ ParseAllData[Items[i].body].ok =>
       msg.allData = ParseAllData[Items[i].body].attrs
  /\ (\A i \in Under(AllDataTag) : i <= k => ~ParseAllData[Items[i].body].ok) =>
       msg.allData = <<>>

(* The data set of the message is that of the last item with its number    *)
(* that the iterator has passed; the values are taken from it at the end.  *)
FiledInv ==
  stage \in {"pdu", "done"} /\ ~Cut(Items) =>
    /\ \E k \in 0..Len(Items) :
         /\ Behind(k) /\ (stage = "done" => k = Len(Items))
         /\ IF IsGoose THEN GooseFiled(k) ELSE SvFiled(k)
    /\ stage = "done" /\ IsGoose => values = DataSetValues(msg)

(* One round of the loop.                                                  *)
LEMMA RoundIs ==
  ASSUME WireInv, NextElement, ~Cut(Items), NEW k \in 0..Len(Items), Behind(k)
  PROVE  /\ k + 1 \in 0..Len(Items) /\ Behind(k + 1)'
         /\ Parsed(ParseBER(From(pdu, at + 1)), Items[k + 1])
<1>0. frame \in Frames /\ stage = "pdu" /\ pdu = EncodeAll(Items) /\ frame' = frame
  BY DEF WireInv, NextElement
<1>1. k \in Nat /\ Len(Items) \in Nat /\ at = Len(EncodedUpTo(Items)[k])
  BY <1>0, ItemsOfFrame DEF Behind
<1>2. k < Len(Items)
  <2>1. SUFFICES ASSUME k = Len(Items) PROVE FALSE
    BY <1>1
  <2>2. at = Len(EncodeAll(Items))
    BY <1>0, <1>1, <2>1, ItemsOfFrame, AllRead, Zenon
  <2>3. at < Len(EncodeAll(Items)) /\ Len(EncodeAll(Items)) \in Nat
    BY <1>0, ItemsOfFrame, AllRead, LenProperties DEF NextElement
  <2> QED BY <2>2, <2>3
<1>3. k + 1 \in 1..Len(Items) /\ k + 1 \in 0..Len(Items)
  BY <1>1, <1>2
<1>4. Items[k + 1].excess = 0
  <2>1. Items[k + 1].excess \in Nat /\ ~(Items[k + 1].excess > 0)
    BY <1>0, <1>3, ItemsOfFrame DEF Cut
  <2> QED BY <2>1
<1>5. NextRead(Items, k)
  BY <1>0, <1>1, <1>2, ItemsOfFrame, NextIs
<1>6. /\ ReadAs(From(pdu, at + 1), Items[k + 1])
      /\ at + GetElementLength(From(pdu, at + 1)) = Len(EncodedUpTo(Items)[k + 1])
  BY <1>0, <1>1, <1>4, <1>5, Zenon DEF NextRead
<1>7. Parsed(ParseBER(From(pdu, at + 1)), Items[k + 1])
  BY <1>4, <1>6, Zenon DEF ReadAs, Parsed
<1>8. Items' = Items
  BY <1>0 DEF Items
<1>9. Uncut(k + 1)
  <2>1. \A i \in 1..(k + 1) : i \in 1..k \/ i = k + 1
    BY <1>1
  <2> QED BY <1>4, <2>1, Zenon DEF Behind, Uncut
<1>10. at' = Len(EncodedUpTo(Items)[k + 1])
  BY <1>6 DEF NextElement
<1>11. Behind(k + 1)'
  BY <1>8, <1>9, <1>10 DEF Behind, Uncut
<1> QED BY <1>3, <1>7, <1>11

(* The iterator stops behind the last item.                                *)
LEMMA AtEnd ==
  ASSUME WireInv, Finish, NEW k \in 0..Len(Items), Behind(k)
  PROVE  k = Len(Items)
<1>0. frame \in Frames /\ pdu = EncodeAll(Items) /\ at >= Len(pdu)
  BY DEF WireInv, Finish
<1>1. k \in Nat /\ Len(Items) \in Nat /\ at = Len(EncodedUpTo(Items)[k])
  BY <1>0, ItemsOfFrame DEF Behind
<1> SUFFICES ASSUME k < Len(Items) PROVE FALSE
  BY <1>1
<1>2. /\ Len(EncodedUpTo(Items)[k]) < Len(EncodedUpTo(Items)[k + 1])
      /\ Len(EncodedUpTo(Items)[k + 1]) <= Len(EncodeAll(Items))
  BY <1>0, <1>1, ItemsOfFrame, NextIs
<1>3. k \in 0..Len(Items) /\ k + 1 \in 0..Len(Items)
  BY <1>1
<1>4. Len(EncodedUpTo(Items)[k]) \in Nat /\ Len(EncodedUpTo(Items)[k + 1]) \in Nat
  BY <1>0, <1>3, ItemsOfFrame, ItemsAre, Zenon
<1>5. Len(EncodeAll(Items)) \in Nat
  BY <1>0, ItemsOfFrame, AllRead, LenProperties
<1> QED BY <1>0, <1>1, <1>2, <1>4, <1>5

(* The items under a number are some of the PDU's.                         *)
LEMMA UnderIs ==
  ASSUME frame \in Frames, NEW num
  PROVE  /\ Under(num) \subseteq 1..Len(Items)
         /\ \A i \in 1..Len(Items) :
              i \in Under(num) <=> Items[i].class = ClassContext /\ Number(Items[i]) = num
BY ItemsOfFrame DEF Under

(* An item's number for the receiver is a number.                          *)
LEMMA NumberType == ASSUME NEW x \in Item PROVE Number(x) \in Nat
BY ItemAssumption, BerAssumption, DivideIs DEF Number

(* No message has been begun.                                              *)
LEMMA FiledInit == Init => FiledInv
BY DEF Init, FiledInv

(* Every step files what the iterator has passed.                          *)
LEMMA FiledNext == WireInv /\ FiledInv /\ [Next]_vars => FiledInv'
<1> SUFFICES ASSUME WireInv, FiledInv, [Next]_vars, stage' \in {"pdu", "done"}, ~Cut(Items)'
             PROVE  /\ \E k \in 0..Len(Items') :
                        /\ Behind(k)' /\ (stage' = "done" => k = Len(Items'))
                        /\ IF IsGoose' THEN GooseFiled(k)' ELSE SvFiled(k)'
                    /\ stage' = "done" /\ IsGoose' => values' = DataSetValues(msg')
  BY DEF FiledInv, DataSetValues
<1>0. frame \in Frames /\ frame' = frame /\ Items' = Items /\ IsGoose' = IsGoose
  BY DEF WireInv, Next, vars, Miss, Capture, OpenAPDU, NextElement, BadElement, Finish, Items, IsGoose
<1>a. ~Cut(Items)
  BY <1>0 DEF Cut
<1>b. \A num : Under(num)' = Under(num)
  BY <1>0 DEF Under
<1>1. CASE UNCHANGED vars
  <2>1. stage' = stage /\ at' = at /\ msg' = msg /\ values' = values
    BY <1>1 DEF vars
  <2>2. \A k : /\ Behind(k)' <=> Behind(k)
               /\ SvFiled(k)' <=> SvFiled(k)
               /\ GooseFiled(k)' <=> GooseFiled(k)
    BY <1>0, <1>b, <2>1 DEF Behind, Uncut, SvFiled, GooseFiled, LastUnder, NoneUnder
  <2>3. PICK k \in 0..Len(Items) :
           /\ Behind(k) /\ (stage = "done" => k = Len(Items))
           /\ IF IsGoose THEN GooseFiled(k) ELSE SvFiled(k)
    BY <1>a, <2>1 DEF FiledInv
  <2>4. stage = "done" /\ IsGoose => values = DataSetValues(msg)
    BY <1>a, <2>1 DEF FiledInv
  <2>5. DataSetValues(msg') = DataSetValues(msg)
    BY <2>1
  <2> QED BY <1>0, <2>1, <2>2, <2>3, <2>4, <2>5
<1>2. CASE Miss \/ Capture
  BY <1>2 DEF Miss, Capture
<1>3. CASE BadElement
  BY <1>3 DEF BadElement
<1>4. CASE OpenAPDU
  <2>1. /\ stage' = "pdu" /\ at' = at /\ stage = "captured" /\ at = 0
        /\ msg' = IF IsGoose THEN EmptyGoose ELSE EmptySV
    BY <1>4 DEF OpenAPDU, WireInv, IsGoose
  <2>2. Items \in Seq(Item) /\ Len(Items) \in Nat
    BY <1>0, ItemsOfFrame
  <2>3. at = Len(EncodedUpTo(Items)[0]) /\ 0 \in 0..Len(Items) /\ 1..0 = {}
    BY <2>1, <2>2, AllRead
  <2>4. Behind(0)'
    BY <1>0, <2>1, <2>3 DEF Behind, Uncut
  <2>5. \A num : \A i \in Under(num) : ~(i <= 0)
    BY <1>0, UnderIs
  <2>6. CASE IsGoose
    <3>1. msg' = EmptyGoose /\ "allData" \in DOMAIN EmptyGoose /\ EmptyGoose.allData = <<>>
      BY <2>1, <2>6 DEF EmptyGoose
    <3>2. \A i : ~LastUnder(AllDataTag, 0, i)
      BY <2>5 DEF LastUnder
    <3>3. GooseFiled(0)'
      BY <1>0, <1>b, <3>1, <3>2 DEF GooseFiled, LastUnder
    <3> QED BY <1>0, <2>1, <2>3, <2>4, <2>6, <3>3
  <2>7. CASE ~IsGoose
    <3>1. msg' = EmptySV /\ "dataSet" \in DOMAIN EmptySV /\ EmptySV.dataSet = <<>>
      BY <2>1, <2>7 DEF EmptySV
    <3>2. \A i : ~LastUnder(6, 0, i)
      BY <2>5 DEF LastUnder
    <3>3. SvFiled(0)'
      BY <1>0, <1>b, <3>1, <3>2 DEF SvFiled, LastUnder
    <3> QED BY <1>0, <2>1, <2>3, <2>4, <2>7, <3>3
  <2> QED BY <2>6, <2>7
<1>5. CASE NextElement
  <2>1. /\ stage = "pdu" /\ stage' = "pdu"
        /\ msg' = IF IsGoose THEN FileGoose(msg, ParseBER(From(pdu, at + 1)))
                  ELSE FileSV(msg, ParseBER(From(pdu, at + 1)))
    BY <1>5 DEF NextElement, IsGoose
  <2>2. PICK k \in 0..Len(Items) :
           Behind(k) /\ IF IsGoose THEN GooseFiled(k) ELSE SvFiled(k)
    BY <1>a, <2>1 DEF FiledInv
  <2>3. PICK e : e = ParseBER(From(pdu, at + 1))
    OBVIOUS
  <2>4. PICK q : q = k + 1
    OBVIOUS
  <2>5. q \in 0..Len(Items) /\ Behind(q)' /\ Parsed(e, Items[q])
    BY <1>5, <1>a, <2>2, <2>3, <2>4, RoundIs, Zenon
  <2>6. Len(Items) \in Nat
    BY <1>0, ItemsOfFrame
  <2>7. q \in 1..Len(Items) /\ q \in Nat /\ k \in Nat
    BY <2>4, <2>5, <2>6
  <2>8. Items[q] \in Item
    BY <1>0, <2>7, ItemsOfFrame
  <2>9. e.class = Items[q].class /\ e.num = Number(Items[q]) /\ e.data = Items[q].body
        /\ e.num \in Nat
    BY <2>5, <2>8, NumberType DEF Parsed
  <2>10. \A num : q \in Under(num) <=> e.class = ClassContext /\ e.num = num
    BY <1>0, <2>7, <2>9, UnderIs
  <2>11. \A num : \A i \in Under(num) : i \in Nat /\ (i <= q <=> i <= k \/ i = q)
    BY <1>0, <2>4, <2>6, <2>7, UnderIs
  <2>12. CASE ~IsGoose
    <3>1. SvFiled(k) /\ msg' = FileSV(msg, e)
      BY <2>1, <2>2, <2>3, <2>12
    <3>2. /\ "dataSet" \in DOMAIN msg'
          /\ msg'.dataSet = IF q \in Under(6) THEN ParseSVDataSet(Items[q].body)
                            ELSE msg.dataSet
      BY <2>9, <2>10, <3>1, DataSetFiled DEF SvFiled
    <3>3. CASE q \in Under(6)
      <4>1. \A i : LastUnder(6, q, i) => i = q
        BY <2>7, <2>11, <3>3 DEF LastUnder
      <4>2. ~NoneUnder(6, q)
        BY <2>7, <3>3 DEF NoneUnder
      <4>3. SvFiled(q)'
        BY <1>0, <1>b, <3>2, <3>3, <4>1, <4>2 DEF SvFiled, LastUnder, NoneUnder
      <4> QED BY <1>0, <2>1, <2>5, <2>12, <4>3
    <3>4. CASE q \notin Under(6)
      <4>1. \A i \in Under(6) : i <= q <=> i <= k
        BY <2>11, <3>4
      <4>2. SvFiled(q)'
        BY <1>0, <1>b, <3>1, <3>2, <3>4, <4>1 DEF SvFiled, LastUnder, NoneUnder
      <4> QED BY <1>0, <2>1, <2>5, <2>12, <4>2
    <3> QED BY <3>3, <3>4
  <2>13. CASE IsGoose
    <3>1. GooseFiled(k) /\ msg' = FileGoose(msg, e)
      BY <2>1, <2>2, <2>3, <2>13
    <3> DEFINE ok(i) == ParseAllData[Items[i].body].ok
    <3>2. /\ "allData" \in DOMAIN msg'
          /\ msg'.allData = IF q \in Under(AllDataTag) /\ ok(q)
                            THEN ParseAllData[Items[q].body].attrs ELSE msg.allData
      BY <2>9, <2>10, <3>1, AllDataFiled DEF GooseFiled
    <3>3. CASE q \in Under(AllDataTag)
      <4>1. \A i : LastUnder(AllDataTag, q, i) => i = q
        BY <2>7, <2>11, <3>3 DEF LastUnder
      <4>2. q <= q
        BY <2>7
      <4>3. (\A i \in Under(AllDataTag) : i <= q => ~ok(i)) =>
              ~ok(q) /\ \A i \in Under(AllDataTag) : i <= k => ~ok(i)
        BY <2>11, <3>3, <4>2
      <4>4. GooseFiled(q)'
        BY <1>0, <1>b, <3>1, <3>2, <3>3, <4>1, <4>3 DEF GooseFiled, LastUnder
      <4> QED BY <1>0, <2>1, <2>5, <2>13, <4>4
    <3>4. CASE q \notin Under(AllDataTag)
      <4>1. \A i \in Under(AllDataTag) : i <= q <=> i <= k
        BY <2>11, <3>4
      <4>2. GooseFiled(q)'
        BY <1>0, <1>b, <3>1, <3>2, <3>4, <4>1 DEF GooseFiled, LastUnder
      <4> QED BY <1>0, <2>1, <2>5, <2>13, <4>2
    <3> QED BY <3>3, <3>4
  <2> QED BY <2>12, <2>13
<1>6. CASE Finish
  <2>1. /\ stage = "pdu" /\ stage' = "done" /\ at' = at /\ msg' = msg
        /\ IsGoose => values' = DataSetValues(msg)
    BY <1>6 DEF Finish, IsGoose
  <2>2. PICK k \in 0..Len(Items) :
           Behind(k) /\ IF IsGoose THEN GooseFiled(k) ELSE SvFiled(k)
    BY <1>a, <2>1 DEF FiledInv
  <2>3. k = Len(Items)
    BY <1>6, <2>2, AtEnd
  <2>4. /\ Behind(k)' <=> Behind(k)
        /\ SvFiled(k)' <=> SvFiled(k)
        /\ GooseFiled(k)' <=> GooseFiled(k)
    BY <1>0, <1>b, <2>1 DEF Behind, Uncut, SvFiled, GooseFiled, LastUnder, NoneUnder
  <2>5. DataSetValues(msg') = DataSetValues(msg)
    BY <2>1
  <2> QED BY <1>0, <2>1, <2>2, <2>3, <2>4, <2>5
<1> QED BY <1>1, <1>2, <1>3, <1>4, <1>5, <1>6 DEF Next

-----------------------------------------------------------------------------
(* Sampled values.                                                         *)

(* Max finds the greatest of some positions.                               *)
LEMMA GreatestIs ==
  ASSUME NEW n \in Nat, NEW S, S \subseteq 1..n, S # {}
  PROVE  Max(S) \in S /\ \A y \in S : y <= Max(S)
<1>1. \E x \in S : \A y \in S : x >= y
  <2> DEFINE T == {j \in Nat : n - j \in S}
  <2>1. T \subseteq Nat /\ T # {}
    <3>1. PICK x \in S : TRUE
      OBVIOUS
    <3>2. n - x \in Nat /\ n - (n - x) = x
      BY <3>1
    <3>3. n - x \in T
      BY <3>1, <3>2
    <3> QED BY <3>3
  <2>2. PICK j : j = Min(T)
    OBVIOUS
  <2>3. j \in T /\ \A y \in T : j =< y
    BY <2>1, <2>2, LeastNumber, Zenon
  <2>4. ASSUME NEW y \in S PROVE n - j >= y
    <3>1. n - y \in Nat /\ n - (n - y) = y
      OBVIOUS
    <3>2. n - y \in T
      BY <3>1
    <3>3. j =< n - y /\ j \in Nat
      BY <2>3, <3>2
    <3> QED BY <3>3
  <2>5. n - j \in S
    BY <2>3
  <2> QED BY <2>4, <2>5
<1>2. Max(S) \in S /\ \A y \in S : Max(S) >= y
  BY <1>1, Zenon DEF Max
<1>3. \A y \in S : y \in Nat
  OBVIOUS
<1>4. PICK k : k = Max(S)
  OBVIOUS
<1>5. k \in S /\ k \in Nat /\ \A y \in S : k >= y
  BY <1>2, <1>3, <1>4
<1>6. \A y \in S : y <= k
  BY <1>3, <1>5
<1> QED BY <1>4, <1>5, <1>6

(* The last item with a number is found, if there is one.                  *)
LEMMA LastIs ==
  ASSUME frame \in Frames, NEW num, Under(num) # {}
  PROVE  LastUnder(num, Len(Items), Max(Under(num))) /\ Max(Under(num)) \in 1..Len(Items)
<1>1. Len(Items) \in Nat /\ Under(num) \subseteq 1..Len(Items)
  BY ItemsOfFrame, UnderIs
<1>2. Max(Under(num)) \in Under(num) /\ \A y \in Under(num) : y <= Max(Under(num))
  BY <1>1, GreatestIs
<1>3. Max(Under(num)) <= Len(Items) /\ Max(Under(num)) \in 1..Len(Items)
  BY <1>1, <1>2
<1> QED BY <1>2, <1>3, Zenon DEF LastUnder

(* The contents of an item are no longer than what it is part of.          *)
LEMMA PartIs ==
  ASSUME NEW items \in Seq(Item), NEW i \in 1..Len(items)
  PROVE  Len(items[i].body) <= Len(EncodeAll(items))
<1>1. PICK n \in Nat : n = Len(items)
  BY ItemsAre
<1>2. PICK k \in Nat : k = i - 1
  BY <1>1
<1>3. k + 1 = i /\ i \in 0..n /\ k \in 0..n
  BY <1>1, <1>2
<1>4. PICK U, x : U = EncodedUpTo(items) /\ x = items[i]
  OBVIOUS
<1>5. x \in Item /\ Joins(U[i], U[k], Encode(x)) /\ Begins(U[i], EncodeAll(items))
  <2>1. i - 1 = k
    BY <1>2
  <2> QED BY <1>1, <1>3, <1>4, <2>1, ItemsAre, UpToBegins, Zenon
<1>6. PICK a, b, l, h, n1, s : /\ a = Len(U[i]) /\ b = Len(U[k]) /\ l = Len(Encode(x))
                         /\ h = Len(EncodeAll(items)) /\ n1 = Len(Identifier(x)) /\ s = Len(x.body)
  OBVIOUS
<1>7. a \in Nat /\ b \in Nat /\ l \in Nat /\ h \in Nat /\ n1 \in Nat /\ s \in Nat
  BY <1>1, <1>3, <1>4, <1>5, <1>6, ItemsAre, AllRead, EncodeType, PiecesAre, LenProperties, Zenon
<1>8. a = b + l /\ a <= h
  BY <1>5, <1>6, Zenon DEF Joins, Begins
<1>9. l = n1 + (1 + x.pad) + s + 0 /\ x.pad \in 0..4
  <2>1. Len(LengthOctets(Claimed(x), x.pad)) = 1 + x.pad /\ x.pad \in 0..4
    BY <1>5, PiecesAre
  <2> QED BY <1>5, <1>6, <2>1, EncodeIs, Zenon DEF Laid
<1>10. s <= h
  <2>1. PICK p \in Nat : p = x.pad
    BY <1>9
  <2>2. l = n1 + (1 + p) + s + 0
    BY <1>9, <2>1, Zenon
  <2>3. s <= l
    BY <1>7, <2>1, <2>2
  <2>4. l <= a
    BY <1>7, <1>8
  <2> QED BY <1>7, <1>8, <2>3, <2>4
<1> QED BY <1>4, <1>6, <1>10

(* Items that are made of items, uncut or cut at their end.                *)
LEMMA ReadableIs ==
  ASSUME NEW items \in Seq(Item)
  PROVE  /\ ~Cut(items) => Readable(items, Len(items))
         /\ OnlyLastCut(items) =>
              \E m \in Nat : m + 1 = Len(items) /\ Readable(items, m)
<1>1. /\ Len(items) \in Nat /\ DOMAIN items = 1..Len(items)
      /\ \A i \in 1..Len(items) : items[i].excess \in Nat
  BY ItemsAre, LenProperties, ItemAssumption
<1>2. ~Cut(items) => Readable(items, Len(items))
  BY <1>1 DEF Cut, Readable
<1>3. ASSUME OnlyLastCut(items) PROVE \E m \in Nat : m + 1 = Len(items) /\ Readable(items, m)
  <2>1. PICK i \in 1..Len(items) : items[i].excess > 0
    BY <1>1, <1>3 DEF OnlyLastCut, Cut
  <2>2. i = Len(items)
    BY <1>1, <1>3, <2>1 DEF OnlyLastCut
  <2>3. PICK m \in Nat : m + 1 = i
    <3>1. i - 1 \in Nat /\ (i - 1) + 1 = i
      BY <1>1
    <3> QED BY <3>1
  <2>4. ASSUME NEW j \in 1..m PROVE items[j].excess = 0
    <3>1. j \in 1..i /\ j # i
      BY <2>3
    <3>2. j \in 1..Len(items) /\ j # Len(items)
      BY <2>2, <3>1
    <3>3. ~(items[j].excess > 0) /\ items[j].excess \in Nat
      BY <1>1, <1>3, <3>2 DEF OnlyLastCut
    <3>4. PICK c \in Nat : c = items[j].excess
      BY <3>3
    <3> QED BY <3>3, <3>4
  <2>5. m <= Len(items)
    BY <1>1, <2>2, <2>3
  <2>6. Readable(items, m)
    BY <2>1, <2>2, <2>3, <2>4, <2>5 DEF Readable
  <2> QED BY <2>2, <2>3, <2>6
<1> QED BY <1>2, <1>3

(* The data set of a message with all items filed.                         *)
LEMMA SamplesRead ==
  ASSUME NEW items \in Seq(Item), Len(EncodeAll(items)) <= MaxLength,
         NEW m, Readable(items, m)
  PROVE  /\ DOMAIN ParseSVDataSet(EncodeAll(items)) = 1..m
         /\ \A i \in 1..m :
              ParseSVDataSet(EncodeAll(items))[i] =
                IF items[i].class = ClassContext /\ Number(items[i]) = 0
                   /\ Len(items[i].body) >= 4
                THEN TwosComplement(SubSeq(items[i].body, 1, 4)) ELSE 0
<1>1. PICK s : s = Elements(EncodeAll(items)).seq
  OBVIOUS
<1>2. m \in Nat
  BY DEF Readable
<1>3. ReadFrom(Elements(EncodeAll(items)), items, 0, m)
  BY ElementsOfItems
<1>4. m - 0 = m /\ \A i \in 1..m : 0 + i = i
  BY <1>2
<1>5. /\ \E E : s \in Seq(E)
      /\ Len(s) = m /\ \A i \in 1..m : Parsed(s[i], items[i])
  <2>1. /\ \E E : s \in Seq(E)
        /\ Len(s) = m - 0 /\ \A i \in 1..(m - 0) : Parsed(s[i], items[0 + i])
    BY <1>1, <1>3, Zenon DEF ReadFrom
  <2> QED BY <1>4, <2>1
<1>6. DOMAIN s = 1..m
  BY <1>5, LenProperties
<1>7. ParseSVDataSet(EncodeAll(items)) = [i \in 1..m |-> Measurement(s[i])]
  BY <1>1, <1>6, Zenon DEF ParseSVDataSet
<1>8. ASSUME NEW i \in 1..m
      PROVE  Measurement(s[i]) =
               IF items[i].class = ClassContext /\ Number(items[i]) = 0
                  /\ Len(items[i].body) >= 4
               THEN TwosComplement(SubSeq(items[i].body, 1, 4)) ELSE 0
  <2>1. s[i].class = items[i].class /\ s[i].num = Number(items[i]) /\ s[i].data = items[i].body
    BY <1>5 DEF Parsed
  <2>2. PICK e, x : e = s[i] /\ x = items[i]
    OBVIOUS
  <2>3. e.class = x.class /\ e.num = Number(x) /\ e.data = x.body
    BY <2>1, <2>2
  <2>4. Measurement(e) = IF x.class = ClassContext /\ Number(x) = 0 THEN ParseSVInt32(x.body) ELSE 0
    BY <2>3, Zenon DEF Measurement, IsSample
  <2>5. ParseSVInt32(x.body) = IF Len(x.body) >= 4 THEN TwosComplement(SubSeq(x.body, 1, 4)) ELSE 0
    BY Zenon DEF ParseSVInt32
  <2>6. Measurement(e) = IF x.class = ClassContext /\ Number(x) = 0 /\ Len(x.body) >= 4
                         THEN TwosComplement(SubSeq(x.body, 1, 4)) ELSE 0
    BY <2>4, <2>5, Zenon
  <2> QED BY <2>2, <2>6, Zenon
<1> QED BY <1>7, <1>8

(* A sampled value message with all items filed has the samples in place.  *)
LEMMA FiledImpliesSamples == WireInv /\ FiledInv => SamplesInPlace
<1> SUFFICES ASSUME WireInv, FiledInv PROVE SamplesInPlace
  OBVIOUS
<1> DEFINE sent   == PartsUnder(6)
           usable == IF Cut(sent) THEN Front(sent) ELSE sent
<1> SUFFICES ASSUME stage = "done", ~IsGoose, ~Cut(Items), Told(6), Cut(sent) => OnlyLastCut(sent)
             PROVE  /\ DOMAIN msg.dataSet = DOMAIN usable
                    /\ \A i \in DOMAIN usable :
                         msg.dataSet[i] =
                           IF usable[i].class = ClassContext /\ Number(usable[i]) = 0
                              /\ Len(usable[i].body) >= 4
                           THEN TwosComplement(SubSeq(usable[i].body, 1, 4)) ELSE 0
  BY DEF SamplesInPlace
<1>1. frame \in Frames
  BY DEF WireInv
<1>2. PICK n : n = Len(Items)
  OBVIOUS
<1>3. SvFiled(n)
  BY <1>2 DEF FiledInv
<1>4. CASE Under(6) = {}
  <2>1. sent = <<>>
    BY <1>4 DEF PartsUnder
  <2>2. msg.dataSet = <<>>
    BY <1>3, <1>4 DEF SvFiled, NoneUnder
  <2>3. usable = <<>> /\ DOMAIN <<>> = {}
    BY <2>1 DEF Cut
  <2> HIDE DEF usable
  <2> QED BY <2>2, <2>3
<1>5. CASE Under(6) # {}
  <2>1. PICK i : i = Max(Under(6))
    OBVIOUS
  <2>2. i \in 1..Len(Items) /\ LastUnder(6, n, i) /\ sent = Items[i].parts
    BY <1>1, <1>2, <1>5, <2>1, LastIs DEF PartsUnder
  <2>3. msg.dataSet = ParseSVDataSet(Items[i].body)
    BY <1>3, <2>2 DEF SvFiled
  <2>4. Items[i].body = EncodeAll(sent)
    BY <2>2 DEF Told, LastUnder, MadeOfParts
  <2>5. sent \in Seq(Item)
    BY <1>1, <2>2, ItemsOfFrame, ItemAssumption
  <2>6. Len(EncodeAll(sent)) <= MaxLength
    <3>1. Items \in Seq(Item) /\ Len(EncodeAll(Items)) <= MaxLength
      BY <1>1, ItemsOfFrame
    <3>2. Len(Items[i].body) <= Len(EncodeAll(Items))
      BY <2>2, <3>1, PartIs
    <3>3. Len(EncodeAll(Items)) \in Nat /\ Len(EncodeAll(sent)) \in Nat
      BY <2>5, <3>1, AllRead, LenProperties
    <3> HIDE DEF sent
    <3> QED BY <2>4, <3>1, <3>2, <3>3, BerAssumption
  <2> HIDE DEF sent
  <2>7. PICK d : d = ParseSVDataSet(EncodeAll(sent))
    OBVIOUS
  <2>8. ASSUME NEW m, Readable(sent, m), DOMAIN usable = 1..m,
               \A j \in 1..m : usable[j] = sent[j]
        PROVE  /\ DOMAIN d = DOMAIN usable
               /\ \A j \in DOMAIN usable :
                    d[j] = IF usable[j].class = ClassContext /\ Number(usable[j]) = 0
                              /\ Len(usable[j].body) >= 4
                           THEN TwosComplement(SubSeq(usable[j].body, 1, 4)) ELSE 0
    <3> HIDE DEF usable
    <3> QED BY <2>5, <2>6, <2>7, <2>8, SamplesRead
  <2>9. CASE ~Cut(sent)
    <3>1. usable = sent /\ Readable(sent, Len(sent)) /\ DOMAIN sent = 1..Len(sent)
      BY <2>5, <2>9, ReadableIs, LenProperties
    <3> HIDE DEF usable
    <3> QED BY <2>3, <2>4, <2>7, <2>8, <3>1
  <2>10. CASE Cut(sent)
    <3>1. PICK m \in Nat : m + 1 = Len(sent) /\ Readable(sent, m)
      BY <2>5, <2>10, ReadableIs
    <3>2. usable = SubSeq(sent, 1, m)
      <4>1. Len(sent) - 1 = m
        BY <3>1
      <4> QED BY <2>10, <4>1, Zenon DEF Front
    <3>3. DOMAIN usable = 1..m /\ \A j \in 1..m : usable[j] = sent[j]
      <4>1. \A j \in 1..m : sent[j] \in Item
        <5>1. \A j \in 1..m : j \in 1..Len(sent)
          BY <3>1
        <5> QED BY <2>5, <5>1, ElementOfSeq, Zenon
      <4>2. PICK t : t = SubSeq(sent, 1, m)
        OBVIOUS
      <4>3. t \in Seq(Item) /\ Len(t) = m /\ \A j \in 1..m : t[j] = sent[j]
        <5>1. /\ t \in Seq(Item) /\ Len(t) = (IF 1 <= m THEN m - 1 + 1 ELSE 0)
              /\ \A j \in 1..(m - 1 + 1) : t[j] = sent[1 + j - 1]
          BY <4>1, <4>2, SubSeqProperties
        <5>2. m - 1 + 1 = m /\ (IF 1 <= m THEN m - 1 + 1 ELSE 0) = m /\ \A j \in 1..m : 1 + j - 1 = j
          OBVIOUS
        <5> QED BY <5>1, <5>2
      <4> HIDE DEF usable
      <4> QED BY <3>2, <4>2, <4>3, LenProperties
    <3> HIDE DEF usable
    <3> QED BY <2>3, <2>4, <2>7, <2>8, <3>1, <3>3
  <2> QED BY <2>9, <2>10
<1> QED BY <1>4, <1>5

(* Every message keeps to it: parseGOOSEPDU and parseSVPDU file an item    *)
(* where its number says and nowhere else.                                 *)
THEOREM FiledInvariant == Spec => []FiledInv
BY FiledInit, FiledNext, WireInvariant, PTL DEF Spec

(* parseSVDataSet keeps every measurement at the position it was sent in,  *)
(* and those before a cut, for every data set of any length.               *)
THEOREM SamplesKeepTheirPlaces == Spec => []SamplesInPlace
BY WireInvariant, FiledInvariant, FiledImpliesSamples, PTL

-----------------------------------------------------------------------------
(* The data of a GOOSE message: all or nothing.                            *)

(* Elements yields elements that are shorter than the data they are in.    *)
LEMMA ElementsType ==
  ASSUME NEW d \in Seq(Octet)
  PROVE  /\ Elements(d).ok \in BOOLEAN /\ Elements(d).seq \in Seq(ElementsIn(d))
         /\ DOMAIN Elements(d).seq = 1..Len(Elements(d).seq)
         /\ \A i \in DOMAIN Elements(d).seq :
              /\ Elements(d).seq[i].data \in Seq(Octet)
              /\ Len(Elements(d).seq[i].data) < Len(d)
<1>1. 0 \in 0..Len(d)
  BY LenProperties
<1>2. PICK r : r = Elements(d)
  OBVIOUS
<1>3. r.ok \in BOOLEAN /\ r.seq \in Seq(ElementsIn(d))
  BY <1>1, <1>2, ElementsFromIs, Zenon DEF Elements
<1>4. DOMAIN r.seq = 1..Len(r.seq)
  BY <1>3, LenProperties
<1>5. ASSUME NEW i \in DOMAIN r.seq
      PROVE  r.seq[i].data \in Seq(Octet) /\ Len(r.seq[i].data) < Len(d)
  <2>1. r.seq[i] \in ElementsIn(d)
    BY <1>3, <1>4, ElementOfSeq
  <2> QED BY <2>1 DEF ElementsIn
<1> QED BY <1>2, <1>3, <1>4, <1>5

(* What parseAllData does with d when it calls f for what is inside.       *)
DataOf(f, d) ==
  LET els  == Elements(d)
      attr == [i \in DOMAIN els.seq |->
                 DecodeDataAttribute(els.seq[i], f[els.seq[i].data])]
  IN WholeOrNone(els.ok, Attributes(attr))

(* parseAllData calls itself with shorter data only.                       *)
LEMMA CallsInside ==
  ASSUME NEW d \in Seq(Octet), NEW f, NEW g,
         \A x \in Seq(Octet) : Len(x) < Len(d) => f[x] = g[x]
  PROVE  DataOf(f, d) = DataOf(g, d)
<1>1. PICK els : els = Elements(d)
  OBVIOUS
<1>2. \A i \in DOMAIN els.seq : f[els.seq[i].data] = g[els.seq[i].data]
  BY <1>1, ElementsType
<1>3. [i \in DOMAIN els.seq |-> DecodeDataAttribute(els.seq[i], f[els.seq[i].data])]
        = [i \in DOMAIN els.seq |-> DecodeDataAttribute(els.seq[i], g[els.seq[i].data])]
  BY <1>2, Zenon
<1> QED BY <1>1, <1>3, Zenon DEF DataOf

(* f parses all data of fewer than n octets as parseAllData does.          *)
ParsesBelow(n, f) == \A d \in Seq(Octet) : Len(d) < n => f[d] = DataOf(f, d)
AgreeBelow(n, f, g) == \A d \in Seq(Octet) : Len(d) < n => f[d] = g[d]

(* Any two that do so agree ...                                            *)
LEMMA ParsersAgree ==
  \A n \in Nat : \A f, g : ParsesBelow(n, f) /\ ParsesBelow(n, g) => AgreeBelow(n, f, g)
<1> DEFINE S == {n \in Nat : \A f, g :
                   ParsesBelow(n, f) /\ ParsesBelow(n, g) => AgreeBelow(n, f, g)}
<1>0. \A d \in Seq(Octet) : Len(d) \in Nat
  BY LenProperties
<1>1. 0 \in S
  BY <1>0 DEF AgreeBelow
<1>2. ASSUME NEW n \in Nat, n \in S PROVE n + 1 \in S
  <2>1. ASSUME NEW f, NEW g, ParsesBelow(n + 1, f), ParsesBelow(n + 1, g),
               NEW d \in Seq(Octet), Len(d) < n + 1
        PROVE  f[d] = g[d]
    <3>1. ParsesBelow(n, f) /\ ParsesBelow(n, g)
      BY <1>0, <2>1 DEF ParsesBelow
    <3>2. AgreeBelow(n, f, g)
      BY <1>2, <3>1
    <3>3. \A x \in Seq(Octet) : Len(x) < Len(d) => f[x] = g[x]
      BY <1>0, <2>1, <3>2 DEF AgreeBelow
    <3>4. DataOf(f, d) = DataOf(g, d)
      BY <3>3, CallsInside
    <3> QED BY <2>1, <3>4 DEF ParsesBelow
  <2> QED BY <2>1 DEF AgreeBelow
<1>3. Nat \subseteq S
  <2> HIDE DEF S
  <2> QED BY <1>1, <1>2, Counting
<1> QED BY <1>3

(* ... and for every length there is one.                                  *)
LEMMA ParsersExist == \A n \in Nat : \E f : ParsesBelow(n, f)
<1> DEFINE S == {n \in Nat : \E f : ParsesBelow(n, f)}
<1>0. \A d \in Seq(Octet) : Len(d) \in Nat
  BY LenProperties
<1>1. 0 \in S
  BY <1>0 DEF ParsesBelow
<1>2. ASSUME NEW n \in Nat, n \in S PROVE n + 1 \in S
  <2>1. PICK f : ParsesBelow(n, f)
    BY <1>2
  <2> DEFINE h == [d \in Seq(Octet) |-> DataOf(f, d)]
  <2>2. \A d \in Seq(Octet) : h[d] = DataOf(f, d)
    OBVIOUS
  <2> HIDE DEF h
  <2>3. ASSUME NEW d \in Seq(Octet), Len(d) < n + 1 PROVE h[d] = DataOf(h, d)
    <3>1. \A x \in Seq(Octet) : Len(x) < Len(d) => f[x] = h[x]
      BY <1>0, <2>1, <2>2, <2>3 DEF ParsesBelow
    <3> QED BY <2>2, <3>1, CallsInside
  <2>4. ParsesBelow(n + 1, h)
    BY <2>3 DEF ParsesBelow
  <2> QED BY <2>4
<1>3. Nat \subseteq S
  <2> HIDE DEF S
  <2> QED BY <1>1, <1>2, Counting
<1> QED BY <1>3

(* parseAllData's recursion into structures ends for all octets, however   *)
(* deep they are nested, and its result is the one it computes             *)
(* (goose/parser.go:140-161).                                              *)
THEOREM ParseAllDataIs == \A d \in Seq(Octet) : ParseAllData[d] = DataOf(ParseAllData, d)
<1>0. \A d \in Seq(Octet) : /\ Len(d) \in Nat /\ Len(d) + 1 \in Nat /\ Len(d) < Len(d) + 1
  BY LenProperties
<1> DEFINE upto(n) == CHOOSE f : ParsesBelow(n, f)
           all     == [d \in Seq(Octet) |-> upto(Len(d) + 1)[d]]
           P(h)    == h = [d \in Seq(Octet) |-> DataOf(h, d)]
<1>1. \A n \in Nat : ParsesBelow(n, upto(n))
  BY ParsersExist, Zenon
<1> HIDE DEF upto
<1>2. \A d \in Seq(Octet) : all[d] = upto(Len(d) + 1)[d]
  OBVIOUS
<1>a. all = [d \in Seq(Octet) |-> all[d]]
  OBVIOUS
<1> HIDE DEF all
<1>3. ASSUME NEW d \in Seq(Octet) PROVE all[d] = DataOf(all, d)
  <2>1. PICK f : f = upto(Len(d) + 1)
    OBVIOUS
  <2>2. ParsesBelow(Len(d) + 1, f)
    BY <1>0, <1>1, <2>1
  <2>3. all[d] = f[d] /\ f[d] = DataOf(f, d)
    BY <1>0, <1>2, <2>1, <2>2 DEF ParsesBelow
  <2>4. ASSUME NEW x \in Seq(Octet), Len(x) < Len(d) PROVE f[x] = all[x]
    <3>1. \A y \in Seq(Octet) : Len(y) < Len(x) + 1 => Len(y) < Len(d) + 1
      BY <1>0, <2>4
    <3>2. ParsesBelow(Len(x) + 1, f)
      BY <2>2, <3>1, Zenon DEF ParsesBelow
    <3>3. AgreeBelow(Len(x) + 1, upto(Len(x) + 1), f)
      BY <1>0, <1>1, <3>2, ParsersAgree
    <3> QED BY <1>0, <1>2, <3>3 DEF AgreeBelow
  <2>5. DataOf(f, d) = DataOf(all, d)
    BY <2>4, CallsInside
  <2> QED BY <2>3, <2>5
<1>4. P(all)
  <2>1. [d \in Seq(Octet) |-> all[d]] = [d \in Seq(Octet) |-> DataOf(all, d)]
    BY <1>3, Zenon
  <2> QED BY <1>a, <2>1, Zenon
<1>5. ParseAllData = CHOOSE h : P(h)
  BY Zenon DEF ParseAllData, DataOf
<1>6. P(ParseAllData)
  <2> HIDE DEF P
  <2> QED BY <1>4, <1>5, Zenon
<1>7. PICK h : h = ParseAllData
  OBVIOUS
<1>8. h = [d \in Seq(Octet) |-> DataOf(h, d)]
  BY <1>6, <1>7, Zenon
<1>9. \A d \in Seq(Octet) : h[d] = DataOf(h, d)
  BY <1>8, Zenon
<1> QED BY <1>7, <1>9, Zenon

(* Contents that are cut short are given up as a whole.                    *)
LEMMA CutDataRefused ==
  ASSUME NEW items \in Seq(Item), Len(EncodeAll(items)) <= MaxLength, OnlyLastCut(items)
  PROVE  ~ParseAllData[EncodeAll(items)].ok
<1>1. PICK m \in Nat : m + 1 = Len(items) /\ Readable(items, m)
  BY ReadableIs
<1>2. ReadFrom(Elements(EncodeAll(items)), items, 0, m)
  BY <1>1, ElementsOfItems
<1>3. ~Elements(EncodeAll(items)).ok
  <2>1. m # Len(items)
    BY <1>1
  <2> QED BY <1>2, <2>1 DEF ReadFrom
<1>4. ParseAllData[EncodeAll(items)] = DataOf(ParseAllData, EncodeAll(items))
  BY AllRead, ParseAllDataIs
<1>5. \A f, d : DataOf(f, d).ok <=> Elements(d).ok
  BY DEF DataOf, WholeOrNone
<1> QED BY <1>3, <1>4, <1>5

(* The parts of one of the PDU's items, if it is made of them.             *)
LEMMA PartsAre ==
  ASSUME frame \in Frames, NEW num, Told(num), NEW i \in Under(num)
  PROVE  /\ i \in 1..Len(Items) /\ Items[i].parts \in Seq(Item)
         /\ Items[i].body = EncodeAll(Items[i].parts)
         /\ Len(EncodeAll(Items[i].parts)) <= MaxLength
<1>1. i \in 1..Len(Items)
  BY UnderIs
<1>2. Items[i].body = EncodeAll(Items[i].parts)
  BY DEF Told, MadeOfParts
<1>3. Items[i].parts \in Seq(Item)
  BY <1>1, ItemsOfFrame, ItemAssumption
<1>4. Items \in Seq(Item) /\ Len(EncodeAll(Items)) <= MaxLength
  BY ItemsOfFrame
<1>5. Len(Items[i].body) <= Len(EncodeAll(Items))
  BY <1>1, <1>4, PartIs
<1>6. Len(EncodeAll(Items)) \in Nat /\ Len(EncodeAll(Items[i].parts)) \in Nat
  BY <1>3, <1>4, AllRead, LenProperties
<1>7. PICK parts : parts = Items[i].parts
  OBVIOUS
<1> QED BY <1>1, <1>2, <1>3, <1>4, <1>5, <1>6, <1>7, BerAssumption

(* A data set that is cut leaves no attribute.                             *)
LEMMA FiledImpliesWhole == WireInv /\ FiledInv => WholeDataSetOrNone
<1> SUFFICES ASSUME WireInv, FiledInv, stage = "done", IsGoose, ~Cut(Items), Told(AllDataTag),
                    \A i \in Under(AllDataTag) : OnlyLastCut(Items[i].parts)
             PROVE  msg.allData = <<>> /\ DOMAIN values = {}
  BY DEF WholeDataSetOrNone
<1>1. frame \in Frames
  BY DEF WireInv
<1>2. GooseFiled(Len(Items)) /\ values = DataSetValues(msg)
  BY DEF FiledInv
<1>3. \A i \in Under(AllDataTag) : ~ParseAllData[Items[i].body].ok
  BY <1>1, PartsAre, CutDataRefused
<1>4. msg.allData = <<>>
  BY <1>2, <1>3 DEF GooseFiled
<1>5. \A names : DOMAIN ExtractBooleanValues(<<>>, names) = {}
  BY DEF ExtractBooleanValues
<1>6. DOMAIN DataSetValues(msg) = {}
  BY <1>4, <1>5 DEF DataSetValues
<1> QED BY <1>2, <1>4, <1>6

(* parseAllData uses nothing of a data set that is cut short, however many *)
(* items there are before the cut.                                         *)
THEOREM DataSetsAreWhole == Spec => []WholeDataSetOrNone
BY WireInvariant, FiledInvariant, FiledImpliesWhole, PTL

-----------------------------------------------------------------------------
(* The values of a GOOSE message.                                          *)

(* InOrder's recursion gives numbers of P only.                            *)
LEMMA InOrderIs ==
  ASSUME NEW n \in Nat, NEW P
  PROVE  InOrder(P, n) \in Seq(P) /\ (n = 0 => InOrder(P, n) = <<>>)
<1>1. PICK X : X = Seq(P)
  OBVIOUS
<1> DEFINE step == [k \in 1..n |-> [x \in X |-> IF k \in P THEN Append(x, k) ELSE x]]
<1>2. \A k \in 1..n : \A x \in X : (IF k \in P THEN Append(x, k) ELSE x) \in X
  BY <1>1, AppendProperties
<1>3. step \in [1..n -> [X -> X]] /\ <<>> \in X
  BY <1>1, <1>2
<1>4. PICK f \in [0..n -> X] :
        f[0] = <<>> /\ \A k \in 1..n : f[k] = step[k][f[k - 1]]
  <2>1. step \in [1..n -> [X -> X]] /\ <<>> \in X /\ n \in Nat
    BY <1>3
  <2> HIDE DEF step
  <2>2. Iterates(n, X, <<>>, step)
    BY <2>1, Iteration, Zenon
  <2> QED BY <2>2, Zenon DEF Iterates
<1>5. \A k \in 1..n : k - 1 \in 0..n /\ k \in 0..n /\ k # 0
  OBVIOUS
<1>6. \A k \in 0..n : k # 0 => k \in 1..n
  OBVIOUS
<1>7. \A k \in 1..n : f[k] = IF k \in P THEN Append(f[k - 1], k) ELSE f[k - 1]
  BY <1>4, <1>5, Zenon
<1>8. f = [k \in 0..n |-> IF k = 0 THEN <<>>
                          ELSE IF k \in P THEN Append(f[k - 1], k) ELSE f[k - 1]]
  BY <1>4, <1>6, <1>7, Zenon
<1> DEFINE Q(g) == g = [k \in 0..n |-> IF k = 0 THEN <<>>
                          ELSE IF k \in P THEN Append(g[k - 1], k) ELSE g[k - 1]]
<1>9. PICK h : h = CHOOSE g : Q(g)
  OBVIOUS
<1>10. Q(h)
  <2>1. Q(f)
    BY <1>8, Zenon
  <2> HIDE DEF Q
  <2> QED BY <1>9, <2>1, Zenon
<1>11. InOrder(P, n) = h[n]
  BY <1>9, Zenon DEF InOrder
<1>12. h[0] = <<>> /\ \A k \in 1..n : h[k] = IF k \in P THEN Append(h[k - 1], k) ELSE h[k - 1]
  <2>1. 0 \in 0..n
    OBVIOUS
  <2>2. \A k \in 0..n : h[k] = IF k = 0 THEN <<>>
                               ELSE IF k \in P THEN Append(h[k - 1], k) ELSE h[k - 1]
    BY <1>10, Zenon
  <2> QED BY <1>5, <2>1, <2>2, Zenon
<1>13. \A k \in 0..n : h[k] \in X
  <2>1. ASSUME NEW k \in 1..n, h[k - 1] \in X PROVE h[k] \in X
    BY <1>2, <1>12, <2>1
  <2>2. \A k \in 1..n : h[k - 1] \in X => h[k] \in X
    BY <2>1
  <2>3. h[0] \in X
    BY <1>3, <1>12
  <2> QED BY <2>2, <2>3, IterationType, Zenon
<1>14. n \in 0..n
  OBVIOUS
<1> QED BY <1>1, <1>11, <1>12, <1>13, <1>14

(* What becomes of an item that was read, not looking into its parts:      *)
(* `nested` is what became of its contents.                                *)
Describes(a, x, nested) ==
  /\ IsAttr(a) <=> Decodable(x)
  /\ IsAttr(a) => /\ a.type = "boolean" <=> Number(x) = TagBoolean
                  /\ a.type = "boolean" => (a.num = 1 <=> x.body[1] # 0)
                  /\ a.type = "structure" <=> IsStructure(x)
                  /\ a.type = "structure" => a.parts = nested.attrs

(* What becomes of an item that was read as it was sent.                   *)
LEMMA AttributeIs ==
  ASSUME NEW x \in Item, NEW e, Parsed(e, x), NEW nested,
         IsStructure(x) => (nested.ok <=> ~Cut(x.parts))
  PROVE  Describes(DecodeDataAttribute(e, nested), x, nested)
<1>1. PICK a : a = DecodeDataAttribute(e, nested)
  OBVIOUS
<1>2. PICK num : num = Number(x)
  OBVIOUS
<1>3. /\ e.ok /\ ParseBER(e.full) = e /\ e.class = x.class /\ e.num = num /\ e.data = x.body
      /\ num \in Nat /\ x.body \in Seq(Octet)
  BY <1>2, NumberType, ItemAssumption DEF Parsed
<1>4. PICK octets \in Nat : octets = Len(x.body)
  BY <1>3, LenProperties
<1>5. IsStructure(x) <=> num = 16 \/ (x.class = 128 /\ num = 7)
  BY <1>2 DEF IsStructure, TagSequence, ClassContext
<1>6. Decodable(x) <=>
        CASE num = 1       -> octets = 1
          [] num = 2       -> octets \in 1..8
          [] num = 3       -> octets >= 1
          [] num \in {4, 26} -> TRUE
          [] IsStructure(x) -> ~Cut(x.parts)
          [] x.class = 128 /\ num = 0 -> DecodeUnsigned(x.body).ok
          [] OTHER -> x.class = 128 /\ num \in {5, 8}
  BY <1>2, <1>4, Zenon DEF Decodable, TagBoolean, TagInteger, TagBitString, TagOctetString,
     TagVisibleString, ClassContext
<1>7. Primitive(e.full, num) = e
  BY <1>3, Zenon DEF Primitive
<1> DEFINE res(ok, n) == IF ok THEN [ok |-> TRUE, num |-> n] ELSE Failed
<1>8. CASE num = 1
  <2>1. a = AttrOf("boolean", DecodeBoolean(e.full))
    BY <1>1, <1>3, <1>8 DEF DecodeDataAttribute, TagBoolean, TagInteger, TagBitString, TagOctetString,
           TagVisibleString, TagSequence
  <2>2. DecodeBoolean(e.full) = res(octets = 1, IF x.body[1] # 0 THEN 1 ELSE 0)
    BY <1>3, <1>4, <1>7, <1>8, Zenon DEF DecodeBoolean, TagBoolean
  <2>3. Decodable(x) <=> octets = 1
    BY <1>5, <1>6, <1>8
  <2>4. CASE octets = 1
    <3>1. a = Attr("boolean", IF x.body[1] # 0 THEN 1 ELSE 0)
      BY <2>1, <2>2, <2>4 DEF AttrOf
    <3> QED BY <1>1, <1>2, <1>5, <1>8, <2>3, <2>4, <3>1 DEF Attr, IsAttr, Describes, TagBoolean
  <2>5. CASE octets # 1
    <3>1. a = Skipped
      BY <2>1, <2>2, <2>5 DEF AttrOf, Failed
    <3> QED BY <1>1, <2>3, <2>5, <3>1 DEF Skipped, IsAttr, Describes
  <2> QED BY <2>4, <2>5
(* Whatever is neither a boolean nor a structure.                          *)
<1>9. ASSUME num # 1, ~IsStructure(x), NEW type, type \notin {"none", "boolean", "structure"},
             NEW r, a = AttrOf(type, r), r.ok <=> Decodable(x)
      PROVE  Describes(a, x, nested)
  <2>1. CASE r.ok
    <3>1. a = Attr(type, r.num)
      BY <1>9, <2>1 DEF AttrOf
    <3> QED BY <1>2, <1>9, <2>1, <3>1 DEF Attr, IsAttr, Describes, TagBoolean
  <2>2. CASE ~r.ok
    <3>1. a = Skipped
      BY <1>9, <2>2 DEF AttrOf
    <3> QED BY <1>9, <2>2, <3>1 DEF Skipped, IsAttr, Describes
  <2> QED BY <2>1, <2>2
<1>10. ASSUME a = Skipped, ~Decodable(x) PROVE Describes(a, x, nested)
  BY <1>10 DEF Skipped, IsAttr, Describes
<1>11. CASE num = 2
  <2>1. a = AttrOf("integer", DecodeInteger(e.full))
    BY <1>1, <1>3, <1>11 DEF DecodeDataAttribute, TagBoolean, TagInteger, TagBitString, TagOctetString,
           TagVisibleString, TagSequence
  <2>2. DecodeInteger(e.full) = res(octets \in 1..8, TwosComplement(x.body))
    BY <1>3, <1>4, <1>7, <1>11, Zenon DEF DecodeInteger, TagInteger
  <2>3. Decodable(x) <=> octets \in 1..8
    BY <1>5, <1>6, <1>11
  <2>4. DecodeInteger(e.full).ok <=> Decodable(x)
    BY <2>2, <2>3 DEF Failed
  <2>5. ~IsStructure(x)
    BY <1>5, <1>11
  <2> QED BY <1>1, <1>9, <1>11, <2>1, <2>4, <2>5
<1>12. CASE num = 3
  <2>1. a = AttrOf("bits", DecodeBitString(e.full))
    BY <1>1, <1>3, <1>12 DEF DecodeDataAttribute, TagBoolean, TagInteger, TagBitString, TagOctetString,
           TagVisibleString, TagSequence
  <2>2. DecodeBitString(e.full) = res(octets >= 1, Bits(x.body))
    BY <1>3, <1>4, <1>7, <1>12, Zenon DEF DecodeBitString, TagBitString
  <2>3. Decodable(x) <=> octets >= 1
    BY <1>5, <1>6, <1>12
  <2>4. DecodeBitString(e.full).ok <=> Decodable(x)
    BY <2>2, <2>3 DEF Failed
  <2>5. ~IsStructure(x)
    BY <1>5, <1>12
  <2> QED BY <1>1, <1>9, <1>12, <2>1, <2>4, <2>5
<1>13. CASE num \in {4, 26}
  <2>1. PICK type : a = AttrOf(type, DecodeString(e.full, num))
                    /\ type \notin {"none", "boolean", "structure"}
    <3>1. CASE num = 4
      <4>1. a = AttrOf("octets", DecodeString(e.full, num))
        BY <1>1, <1>3, <3>1 DEF DecodeDataAttribute, TagBoolean, TagInteger, TagBitString, TagOctetString,
           TagVisibleString, TagSequence
      <4> QED BY <4>1
    <3>2. CASE num = 26
      <4>1. a = AttrOf("string", DecodeString(e.full, num))
        BY <1>1, <1>3, <3>2 DEF DecodeDataAttribute, TagBoolean, TagInteger, TagBitString, TagOctetString,
           TagVisibleString, TagSequence
      <4> QED BY <4>1
    <3> QED BY <1>13, <3>1, <3>2
  <2>2. DecodeString(e.full, num).ok
    BY <1>3, <1>7 DEF DecodeString
  <2>3. Decodable(x)
    BY <1>5, <1>6, <1>13
  <2>4. ~IsStructure(x) /\ num # 1
    BY <1>5, <1>13
  <2> QED BY <1>1, <1>9, <2>1, <2>2, <2>3, <2>4
<1>14. CASE IsStructure(x)
  <2>1. a = StructureOf(nested)
    <3>1. CASE num = 16
      BY <1>1, <1>3, <3>1 DEF DecodeDataAttribute, TagBoolean, TagInteger, TagBitString,
         TagOctetString, TagVisibleString, TagSequence
    <3>2. CASE x.class = 128 /\ num = 7
      <4>1. a = DecodeContextSpecificAttribute(e, nested)
        BY <1>1, <1>3, <3>2 DEF DecodeDataAttribute, TagBoolean, TagInteger, TagBitString,
           TagOctetString, TagVisibleString, TagSequence, ClassContext
      <4> QED BY <1>3, <3>2, <4>1 DEF DecodeContextSpecificAttribute
    <3> QED BY <1>5, <1>14, <3>1, <3>2
  <2>2. Decodable(x) <=> ~Cut(x.parts)
    BY <1>5, <1>6, <1>14
  <2>3. nested.ok <=> Decodable(x)
    BY <1>14, <2>2
  <2>4. CASE nested.ok
    <3>1. a = Structure(nested.attrs)
      BY <2>1, <2>4 DEF StructureOf
    <3>2. num # 1
      BY <1>5, <1>14
    <3> QED BY <1>1, <1>2, <1>14, <2>3, <2>4, <3>1, <3>2 DEF Structure, IsAttr, Describes, TagBoolean
  <2>5. CASE ~nested.ok
    <3>1. a = Skipped
      BY <2>1, <2>5 DEF StructureOf
    <3> QED BY <1>1, <1>10, <2>3, <2>5, <3>1
  <2> QED BY <2>4, <2>5
<1>15. CASE ~IsStructure(x) /\ num \notin {1, 2, 3, 4, 26}
  <2>1. num # 16 /\ ~(x.class = 128 /\ num = 7)
    BY <1>5, <1>15
  <2>2. a = IF x.class = 128 THEN DecodeContextSpecificAttribute(e, nested) ELSE Skipped
    BY <1>1, <1>3, <1>15, <2>1 DEF DecodeDataAttribute, TagBoolean, TagInteger, TagBitString,
       TagOctetString, TagVisibleString, TagSequence, ClassContext
  <2>3. CASE x.class = 128 /\ num = 0
    <3>1. a = AttrOf("unsigned", DecodeUnsigned(x.body))
      BY <1>3, <2>2, <2>3 DEF DecodeContextSpecificAttribute
    <3>2. Decodable(x) <=> DecodeUnsigned(x.body).ok
      BY <1>6, <1>15, <2>3
    <3> QED BY <1>1, <1>9, <1>15, <3>1, <3>2
  <2>4. CASE x.class = 128 /\ num \in {5, 8}
    <3>1. Decodable(x)
      BY <1>6, <1>15, <2>4
    <3>2. PICK type, n : a = Attr(type, n) /\ type \notin {"none", "boolean", "structure"}
      <4>1. CASE num = 5
        <5>1. a = Attr("bits", IF e.data = <<>> THEN 0 ELSE Bits(e.data))
          BY <1>3, <2>2, <2>4, <4>1 DEF DecodeContextSpecificAttribute
        <5> QED BY <5>1
      <4>2. CASE num = 8
        <5>1. a = Attr("time", 0)
          BY <1>3, <2>2, <2>4, <4>2 DEF DecodeContextSpecificAttribute
        <5> QED BY <5>1
      <4> QED BY <2>4, <4>1, <4>2
    <3>3. a = AttrOf(type, [ok |-> TRUE, num |-> n])
      BY <3>2 DEF AttrOf
    <3> QED BY <1>1, <1>9, <1>15, <3>1, <3>2, <3>3
  <2>5. CASE ~(x.class = 128 /\ num \in {0, 5, 8})
    <3>1. ~Decodable(x)
      BY <1>6, <1>15, <2>5
    <3>2. a = Skipped
      BY <1>3, <2>1, <2>2, <2>5 DEF DecodeContextSpecificAttribute
    <3> QED BY <1>1, <1>10, <3>1, <3>2
  <2> QED BY <2>3, <2>4, <2>5
<1> QED BY <1>8, <1>11, <1>12, <1>13, <1>14, <1>15

(* attrs are what becomes of those of the items that can be decoded.       *)
DescribeAll(attrs, items) ==
  /\ DOMAIN attrs = DOMAIN Kept(items) /\ DOMAIN attrs \subseteq Nat \ {0}
  /\ 1 \in DOMAIN attrs <=> attrs # <<>>
  /\ 1 \in DOMAIN attrs <=> Kept(items) # <<>>
  /\ \A i \in DOMAIN attrs :
       /\ IsAttr(attrs[i]) /\ \E j \in 1..Len(items) : Kept(items)[i] = items[j]
       /\ Describes(attrs[i], Kept(items)[i], ParseAllData[Kept(items)[i].body])

(* c is what s has at the positions pos, all of them of P.                 *)
ChosenAt(c, s, P, pos) ==
  /\ DOMAIN c = 1..Len(pos) /\ Len(pos) \in Nat
  /\ \A i \in 1..Len(pos) : pos[i] \in P /\ c[i] = s[pos[i]]
  /\ c = <<>> <=> Len(pos) = 0

(* Choices from sequences of the same length take the same positions.      *)
LEMMA ChosenIs ==
  ASSUME NEW n \in Nat, NEW P, P \subseteq 1..n, NEW s, Len(s) = n
  PROVE  ChosenAt(Chosen(s, P), s, P, InOrder(P, n))
<1>0. PICK pos : pos = InOrder(P, n)
  OBVIOUS
<1>1. pos \in Seq(P)
  BY <1>0, InOrderIs
<1>2. DOMAIN pos = 1..Len(pos) /\ Len(pos) \in Nat /\ \A i \in 1..Len(pos) : pos[i] \in P
  BY <1>1, LenProperties, ElementOfSeq
<1>3. Chosen(s, P) = [i \in 1..Len(pos) |-> s[pos[i]]]
  BY <1>0, <1>2, Zenon DEF Chosen
<1>4. Chosen(s, P) = <<>> <=> Len(pos) = 0
  <2>1. DOMAIN Chosen(s, P) = 1..Len(pos)
    BY <1>3
  <2>2. CASE Len(pos) = 0
    <3>1. Chosen(s, P) = [i \in {} |-> s[pos[i]]]
      BY <1>3, <2>2
    <3>2. [i \in {} |-> s[pos[i]]] = <<>>
      OBVIOUS
    <3> QED BY <2>2, <3>1, <3>2
  <2>3. CASE Len(pos) # 0
    <3>1. 1 \in DOMAIN Chosen(s, P)
      BY <1>2, <2>1, <2>3
    <3>2. 1 \notin DOMAIN <<>>
      OBVIOUS
    <3> QED BY <2>3, <3>1, <3>2
  <2> QED BY <2>2, <2>3
<1>5. ChosenAt(Chosen(s, P), s, P, pos)
  BY <1>2, <1>3, <1>4 DEF ChosenAt
<1> QED BY <1>0, <1>5, Zenon

(* What parseAllData makes of items of which none is cut.                  *)
LEMMA DataIs ==
  ASSUME NEW items \in Seq(Item), Len(EncodeAll(items)) <= MaxLength,
         ~Cut(items), WellTold(items)
  PROVE  /\ ParseAllData[EncodeAll(items)].ok
         /\ DescribeAll(ParseAllData[EncodeAll(items)].attrs, items)
<1>1. PICK d, els : d = EncodeAll(items) /\ els = Elements(d)
  OBVIOUS
<1>2. PICK n \in Nat : n = Len(items)
  BY ItemsAre
<1>3. d \in Seq(Octet)
  BY <1>1, AllRead
<1>4. ReadFrom(els, items, 0, n)
  BY <1>1, <1>2, ReadableIs, ElementsOfItems
<1>5. n - 0 = n /\ \A i \in 1..n : 0 + i = i
  OBVIOUS
<1>6. els.ok /\ Len(els.seq) = n /\ \A i \in 1..n : Parsed(els.seq[i], items[i])
  <2>1. /\ els.ok <=> n = Len(items)
        /\ Len(els.seq) = n - 0 /\ \A i \in 1..(n - 0) : Parsed(els.seq[i], items[0 + i])
    BY <1>4, Zenon DEF ReadFrom
  <2> QED BY <1>2, <1>5, <2>1
<1>7. DOMAIN els.seq = 1..n
  BY <1>1, <1>3, <1>6, ElementsType
<1> DEFINE attr == [i \in 1..n |->
                      DecodeDataAttribute(els.seq[i], ParseAllData[els.seq[i].data])]
           P == {i \in 1..n : IsAttr(attr[i])}
<1>8. ParseAllData[d] = WholeOrNone(els.ok, Chosen(attr, P))
  <2>1. ParseAllData[d] = DataOf(ParseAllData, d)
    BY <1>3, ParseAllDataIs
  <2>2. DOMAIN attr = 1..n
    OBVIOUS
  <2>3. DataOf(ParseAllData, d) = WholeOrNone(els.ok, Chosen(attr, {i \in DOMAIN attr : IsAttr(attr[i])}))
    BY <1>1, <1>7, Zenon DEF DataOf, Attributes
  <2> QED BY <2>1, <2>2, <2>3, Zenon
<1>9. \A i \in 1..n : items[i] \in Item
  BY <1>2, ItemsAre
<1>10. ASSUME NEW i \in 1..n PROVE Describes(attr[i], items[i], ParseAllData[items[i].body])
  <2>1. PICK x, e : x = items[i] /\ e = els.seq[i]
    OBVIOUS
  <2>2. x \in Item /\ Parsed(e, x) /\ e.data = x.body
    BY <1>6, <1>9, <2>1 DEF Parsed
  <2>3. ASSUME IsStructure(x) PROVE ParseAllData[x.body].ok <=> ~Cut(x.parts)
    <3>1. DOMAIN items = 1..n
      BY <1>2, LenProperties
    <3>2. x.body = EncodeAll(x.parts) /\ (Cut(x.parts) => OnlyLastCut(x.parts))
      BY <2>1, <2>3, <3>1 DEF WellTold, MadeOfParts
    <3>3. x.parts \in Seq(Item)
      BY <2>2, ItemAssumption
    <3>4. x.body \in Seq(Octet)
      BY <2>2, ItemAssumption
    <3>5. Len(EncodeAll(x.parts)) <= MaxLength
      <4>1. Len(x.body) <= Len(EncodeAll(items))
        BY <1>2, <2>1, PartIs
      <4>2. PICK a, b \in Nat : a = Len(x.body) /\ b = Len(EncodeAll(items))
        BY <3>4, AllRead, LenProperties
      <4>3. a <= MaxLength
        BY <4>1, <4>2, BerAssumption
      <4> QED BY <3>2, <4>2, <4>3
    <3>6. PICK m : Readable(x.parts, m) /\ (m = Len(x.parts) <=> ~Cut(x.parts))
      <4>1. CASE ~Cut(x.parts)
        BY <3>3, <4>1, ReadableIs
      <4>2. CASE Cut(x.parts)
        <5>1. PICK m \in Nat : m + 1 = Len(x.parts) /\ Readable(x.parts, m)
          BY <3>2, <3>3, <4>2, ReadableIs
        <5>2. m # Len(x.parts)
          BY <5>1
        <5> QED BY <4>2, <5>1, <5>2
      <4> QED BY <4>1, <4>2
    <3>7. Elements(x.body).ok <=> ~Cut(x.parts)
      BY <3>2, <3>3, <3>5, <3>6, ElementsOfItems DEF ReadFrom
    <3>8. ParseAllData[x.body].ok <=> Elements(x.body).ok
      <4>1. \A f, c : DataOf(f, c).ok <=> Elements(c).ok
        BY DEF DataOf, WholeOrNone
      <4>2. ParseAllData[x.body] = DataOf(ParseAllData, x.body)
        BY <3>4, ParseAllDataIs
      <4> QED BY <4>1, <4>2
    <3> QED BY <3>7, <3>8
  <2>4. PICK nested : nested = ParseAllData[x.body]
    OBVIOUS
  <2>5. attr[i] = DecodeDataAttribute(e, nested)
    BY <2>1, <2>2, <2>4
  <2> HIDE DEF attr
  <2>6. IsStructure(x) => (nested.ok <=> ~Cut(x.parts))
    BY <2>3, <2>4
  <2>7. Describes(attr[i], x, nested)
    BY <2>2, <2>5, <2>6, AttributeIs
  <2> QED BY <2>1, <2>4, <2>7
<1>11. attr \in Seq({attr[i] : i \in 1..n}) /\ Len(attr) = n
  <2>1. attr = [i \in 1..n |-> attr[i]]
    OBVIOUS
  <2> HIDE DEF attr
  <2>2. attr \in [1..n -> {attr[i] : i \in 1..n}]
    BY <2>1
  <2> QED BY <2>2
<1>12. P = {i \in DOMAIN items : Decodable(items[i])} /\ P \subseteq 1..n
  <2>1. DOMAIN items = 1..n
    BY <1>2, LenProperties
  <2> HIDE DEF attr
  <2>2. \A i \in 1..n : IsAttr(attr[i]) <=> Decodable(items[i])
    BY <1>10 DEF Describes
  <2> QED BY <2>1, <2>2
<1>13. PICK pos : pos = InOrder(P, n)
  OBVIOUS
<1>14. PICK attrs : attrs = Chosen(attr, P)
  OBVIOUS
<1>15. PICK kept : kept = Kept(items)
  OBVIOUS
<1>16. kept = Chosen(items, P)
  BY <1>12, <1>15, Zenon DEF Kept
<1>17. ParseAllData[d].ok /\ ParseAllData[d].attrs = attrs
  BY <1>6, <1>8, <1>14 DEF WholeOrNone
<1>18. \A i \in P : IsAttr(attr[i])
  OBVIOUS
<1> HIDE DEF P, attr
<1>19. ChosenAt(attrs, attr, P, pos)
  <2>1. Len(attr) = n /\ P \subseteq 1..n
    BY <1>11, <1>12
  <2>2. ChosenAt(Chosen(attr, P), attr, P, InOrder(P, n))
    BY <2>1, ChosenIs, Zenon
  <2> QED BY <1>13, <1>14, <2>2, Zenon
<1>20. ChosenAt(kept, items, P, pos)
  <2>1. Len(items) = n /\ P \subseteq 1..n
    BY <1>2, <1>12
  <2>2. ChosenAt(Chosen(items, P), items, P, InOrder(P, n))
    BY <2>1, ChosenIs, Zenon
  <2> QED BY <1>13, <1>16, <2>2, Zenon
<1>21. DescribeAll(attrs, items)
  <2>1. ASSUME NEW i \in DOMAIN attrs
        PROVE  /\ IsAttr(attrs[i]) /\ \E j \in 1..Len(items) : kept[i] = items[j]
               /\ Describes(attrs[i], kept[i], ParseAllData[kept[i].body])
    BY <1>2, <1>10, <1>12, <1>18, <1>19, <1>20 DEF ChosenAt
  <2>2. DOMAIN attrs \subseteq Nat \ {0} /\ (1 \in DOMAIN attrs <=> Len(pos) # 0)
    BY <1>19 DEF ChosenAt
  <2>3. /\ DOMAIN attrs = DOMAIN kept
        /\ attrs = <<>> <=> Len(pos) = 0
        /\ kept = <<>> <=> Len(pos) = 0
    BY <1>19, <1>20, Zenon DEF ChosenAt
  <2> QED BY <1>15, <2>1, <2>2, <2>3, Zenon DEF DescribeAll
<1> QED BY <1>1, <1>17, <1>21

(* The leaf of an attribute is what the first of an item's parts, or the   *)
(* item, is for the receiver.                                              *)
LEMMA LeafIs ==
  ASSUME NEW x \in Item, NEW a, IsAttr(a), Describes(a, x, ParseAllData[x.body]),
         IsStructure(x) => x.body = EncodeAll(x.parts), Len(x.body) <= MaxLength,
         WellTold(x.parts)
  PROVE  /\ Leaf(a).type = "boolean" <=> Truth(x)
         /\ Truth(x) => (Leaf(a).num = 1 <=> First(x).body[1] # 0)
<1>1. /\ Decodable(x)
      /\ a.type = "boolean" <=> Number(x) = TagBoolean
      /\ a.type = "boolean" => (a.num = 1 <=> x.body[1] # 0)
      /\ a.type = "structure" <=> IsStructure(x)
      /\ a.type = "structure" => a.parts = ParseAllData[x.body].attrs
  BY DEF Describes
<1>2. CASE ~IsStructure(x)
  <2>1. Leaf(a) = a /\ First(x) = x
    BY <1>1, <1>2 DEF Leaf, First
  <2> QED BY <1>1, <2>1 DEF Truth
<1>3. CASE IsStructure(x)
  <2>1. x.parts \in Seq(Item) /\ x.body = EncodeAll(x.parts)
    BY <1>3, ItemAssumption
  <2>2. ~Cut(x.parts)
    <3>1. PICK num : num = Number(x)
      OBVIOUS
    <3>2. num \in {16, 7}
      BY <1>3, <3>1 DEF IsStructure, TagSequence
    <3>3. PICK octets, context : octets = Len(x.body) /\ context = ClassContext
      OBVIOUS
    <3>4. Decodable(x) <=>
            CASE num = 1       -> octets = 1
              [] num = 2       -> octets \in 1..8
              [] num = 3       -> octets >= 1
              [] num \in {4, 26} -> TRUE
              [] IsStructure(x) -> ~Cut(x.parts)
              [] x.class = context /\ num = 0 -> DecodeUnsigned(x.body).ok
              [] OTHER -> x.class = context /\ num \in {5, 8}
      BY <3>1, <3>3, Zenon DEF Decodable, TagBoolean, TagInteger, TagBitString,
         TagOctetString, TagVisibleString
    <3>5. num \notin {1, 2, 3, 4, 26, 0}
      BY <3>2
    <3> QED BY <1>1, <1>3, <3>4, <3>5
  <2>3. DescribeAll(a.parts, x.parts)
    <3>1. DescribeAll(ParseAllData[x.body].attrs, x.parts)
      BY <2>1, <2>2, DataIs
    <3> QED BY <1>1, <1>3, <3>1
  <2>4. PICK p, kept : p = a.parts /\ kept = Kept(x.parts)
    OBVIOUS
  <2>5. /\ 1 \in DOMAIN p <=> p # <<>>
        /\ 1 \in DOMAIN p <=> kept # <<>>
        /\ 1 \in DOMAIN p => IsAttr(p[1]) /\ Describes(p[1], kept[1], ParseAllData[kept[1].body])
    BY <2>3, <2>4 DEF DescribeAll
  <2>6. CASE 1 \notin DOMAIN p
    <3>1. Leaf(a) = a /\ First(x) = x
      BY <2>4, <2>5, <2>6 DEF Leaf, First
    <3> QED BY <1>1, <3>1 DEF Truth
  <2>7. CASE 1 \in DOMAIN p
    <3>1. Leaf(a) = p[1] /\ First(x) = kept[1]
      BY <1>1, <1>3, <2>4, <2>5, <2>7 DEF Leaf, First
    <3>2. /\ p[1].type = "boolean" <=> Number(kept[1]) = TagBoolean
          /\ p[1].type = "boolean" => (p[1].num = 1 <=> kept[1].body[1] # 0)
      BY <2>5, <2>7 DEF Describes
    <3> QED BY <3>1, <3>2 DEF Truth
  <2> QED BY <2>6, <2>7
<1> QED BY <1>2, <1>3

(* Under injective names every position has a value of its own.            *)
LEMMA ValuesAre ==
  ASSUME NEW attrs, DOMAIN attrs \subseteq Nat \ {0}, NEW names, IsInjective(names),
         NEW i \in DOMAIN names
  PROVE  IF i \in DOMAIN attrs /\ Leaf(attrs[i]).type = "boolean"
         THEN /\ names[i] \in DOMAIN ExtractBooleanValues(attrs, names)
              /\ ExtractBooleanValues(attrs, names)[names[i]] = (Leaf(attrs[i]).num = 1)
         ELSE names[i] \notin DOMAIN ExtractBooleanValues(attrs, names)
<1> DEFINE valued == {j \in DOMAIN attrs \intersect DOMAIN names :
                        Leaf(attrs[j]).type = "boolean"}
           last(n) == Max({j \in valued : names[j] = n})
<1>1. PICK v : v = ExtractBooleanValues(attrs, names)
  OBVIOUS
<1>2. v = [n \in {names[j] : j \in valued} |-> Leaf(attrs[last(n)]).num = 1]
  BY <1>1, Zenon DEF ExtractBooleanValues
<1>3. \A j \in DOMAIN names : names[j] = names[i] => j = i
  BY DEF IsInjective
<1>4. i \in valued <=> i \in DOMAIN attrs /\ Leaf(attrs[i]).type = "boolean"
  OBVIOUS
<1>5. ASSUME i \in valued PROVE last(names[i]) = i
  <2>1. {j \in valued : names[j] = names[i]} = {i}
    BY <1>3, <1>5
  <2>2. Max({i}) = i
    <3>1. i \in Nat
      BY <1>5
    <3>2. i >= i
      BY <3>1
    <3> QED BY <3>2, Zenon DEF Max
  <2> QED BY <2>1, <2>2
<1>6. i \in valued => names[i] \in DOMAIN v
  BY <1>2
<1>7. i \notin valued => names[i] \notin DOMAIN v
  <2>1. DOMAIN v = {names[j] : j \in valued}
    BY <1>2
  <2>2. \A j \in valued : j \in DOMAIN names
    OBVIOUS
  <2> HIDE DEF valued
  <2> QED BY <1>3, <2>1, <2>2
<1>8. ASSUME i \in valued PROVE v[names[i]] = (Leaf(attrs[i]).num = 1)
  <2>1. names[i] \in {names[j] : j \in valued}
    BY <1>8
  <2>2. v[names[i]] = (Leaf(attrs[last(names[i])]).num = 1)
    BY <1>2, <2>1, Zenon
  <2> QED BY <1>5, <1>8, <2>2, Zenon
<1> HIDE DEF valued
<1> QED BY <1>1, <1>4, <1>6, <1>7, <1>8, Zenon

(* The values of a GOOSE message with all items filed are those of its     *)
(* decodable items, by position.                                           *)
LEMMA FiledImpliesNames == WireInv /\ FiledInv => NamesFollowKept
<1> DEFINE data  == PartsUnder(AllDataTag)
           kept  == Kept(data)
           names == NamesOf[DatSet(msg)]
<1> SUFFICES ASSUME WireInv, FiledInv, stage = "done", IsGoose, ~Cut(Items), Told(AllDataTag),
                    ~Cut(data), WellTold(data), \A i \in DOMAIN data : WellTold(data[i].parts),
                    DatSet(msg) \in DOMAIN NamesOf, IsInjective(names), NEW i \in DOMAIN names
             PROVE  IF i \in DOMAIN kept /\ Truth(kept[i])
                    THEN /\ names[i] \in DOMAIN values
                         /\ values[names[i]] = (First(kept[i]).body[1] # 0)
                    ELSE names[i] \notin DOMAIN values
  BY Zenon DEF NamesFollowKept
<1>1. frame \in Frames
  BY DEF WireInv
<1>2. GooseFiled(Len(Items)) /\ values = DataSetValues(msg)
  BY DEF FiledInv
<1>3. PICK attrs : attrs = msg.allData
  OBVIOUS
<1>4. values = ExtractBooleanValues(attrs, names)
  BY <1>2, <1>3 DEF DataSetValues
<1> HIDE DEF names
<1>5. DescribeAll(attrs, data) /\ data \in Seq(Item)
  <2>1. CASE Under(AllDataTag) = {}
    <3>1. data = <<>> /\ attrs = <<>>
      BY <1>2, <1>3, <2>1 DEF PartsUnder, GooseFiled
    <3>2. Kept(<<>>) = <<>>
      <4>1. Len(<<>>) = 0 /\ {j \in DOMAIN <<>> : Decodable(<<>>[j])} = {}
        OBVIOUS
      <4>2. Kept(<<>>) = Chosen(<<>>, {})
        BY <4>1, Zenon DEF Kept
      <4>3. 0 \in Nat /\ {} \subseteq 1..0
        OBVIOUS
      <4>4. ChosenAt(Chosen(<<>>, {}), <<>>, {}, InOrder({}, 0))
        BY <4>1, <4>3, ChosenIs, Zenon
      <4>5. InOrder({}, 0) \in Seq({})
        BY <4>3, InOrderIs, Zenon
      <4>6. Len(InOrder({}, 0)) = 0
        BY <4>5
      <4> QED BY <4>2, <4>4, <4>6, Zenon DEF ChosenAt
    <3>3. DOMAIN <<>> = {} /\ <<>> \in Seq(Item)
      OBVIOUS
    <3> HIDE DEF data
    <3> QED BY <3>1, <3>2, <3>3 DEF DescribeAll
  <2>2. CASE Under(AllDataTag) # {}
    <3>1. PICK j : j = Max(Under(AllDataTag))
      OBVIOUS
    <3>2. LastUnder(AllDataTag, Len(Items), j) /\ data = Items[j].parts
      BY <1>1, <2>2, <3>1, LastIs DEF PartsUnder
    <3>3. /\ Items[j].parts \in Seq(Item)
          /\ Items[j].body = EncodeAll(Items[j].parts)
          /\ Len(EncodeAll(Items[j].parts)) <= MaxLength
      BY <1>1, <3>2, PartsAre DEF LastUnder
    <3> HIDE DEF data
    <3>4. /\ ParseAllData[Items[j].body].ok
          /\ DescribeAll(ParseAllData[Items[j].body].attrs, data)
      BY <3>2, <3>3, DataIs
    <3>5. attrs = ParseAllData[Items[j].body].attrs
      BY <1>2, <1>3, <3>2, <3>4 DEF GooseFiled
    <3> QED BY <3>2, <3>3, <3>4, <3>5
  <2> QED BY <2>1, <2>2
<1>6. Len(EncodeAll(data)) <= MaxLength
  <2>1. CASE Under(AllDataTag) = {}
    <3>1. data = <<>>
      BY <2>1 DEF PartsUnder
    <3>2. Len(<<>>) = 0 /\ <<>> \in Seq(Item)
      OBVIOUS
    <3>3. Len(EncodeAll(<<>>)) = 0
      BY <3>2, AllRead
    <3> QED BY <3>1, <3>3, BerAssumption
  <2>2. CASE Under(AllDataTag) # {}
    <3>1. PICK j : j = Max(Under(AllDataTag))
      OBVIOUS
    <3>2. j \in Under(AllDataTag) /\ data = Items[j].parts
      BY <1>1, <2>2, <3>1, LastIs DEF PartsUnder, LastUnder
    <3> QED BY <1>1, <3>2, PartsAre
  <2> QED BY <2>1, <2>2
<1> HIDE DEF data
<1>7. DOMAIN attrs = DOMAIN kept /\ DOMAIN attrs \subseteq Nat \ {0}
  BY <1>5 DEF DescribeAll
<1>8. IF i \in DOMAIN attrs /\ Leaf(attrs[i]).type = "boolean"
      THEN names[i] \in DOMAIN values /\ values[names[i]] = (Leaf(attrs[i]).num = 1)
      ELSE names[i] \notin DOMAIN values
  BY <1>4, <1>7, ValuesAre, Zenon
<1>9. ASSUME i \in DOMAIN attrs
      PROVE  /\ Leaf(attrs[i]).type = "boolean" <=> Truth(kept[i])
             /\ Truth(kept[i]) => (Leaf(attrs[i]).num = 1 <=> First(kept[i]).body[1] # 0)
  <2>1. PICK a, x : a = attrs[i] /\ x = kept[i]
    OBVIOUS
  <2>2. IsAttr(a) /\ Describes(a, x, ParseAllData[x.body])
    BY <1>5, <1>9, <2>1 DEF DescribeAll
  <2>3. PICK j \in 1..Len(data) : x = data[j]
    BY <1>5, <1>9, <2>1 DEF DescribeAll
  <2>4. x \in Item /\ j \in DOMAIN data
    BY <1>5, <2>3, ElementOfSeq, LenProperties
  <2>5. WellTold(x.parts) /\ (IsStructure(x) => x.body = EncodeAll(x.parts))
    BY <2>3, <2>4 DEF WellTold, MadeOfParts
  <2>6. Len(x.body) <= MaxLength
    <3>1. Len(x.body) <= Len(EncodeAll(data))
      BY <1>5, <2>3, PartIs
    <3>2. PICK b, c \in Nat : b = Len(x.body) /\ c = Len(EncodeAll(data))
      BY <1>5, <2>4, AllRead, ItemAssumption, LenProperties
    <3> QED BY <1>6, <3>1, <3>2, BerAssumption
  <2> QED BY <2>1, <2>2, <2>4, <2>5, <2>6, LeafIs
<1> HIDE DEF kept
<1> QED BY <1>7, <1>8, <1>9

(* ExtractBooleanValues gives every name the value of the item at its      *)
(* position among those the parser could decode, for every data set and all *)
(* names (and so every later value moves when an item is left out).        *)
THEOREM NamesGetTheKeptValues == Spec => []NamesFollowKept
BY WireInvariant, FiledInvariant, FiledImpliesNames, PTL

-----------------------------------------------------------------------------
(* The filter of MAC addresses.                                            *)

(* What the answer rests on: one goroutine at most is between the table    *)
(* and the bits; the filter has at least the bits of the addresses whose   *)
(* Add has ended, they are in the table, and the table is what it was or   *)
(* became since a Contains began.                                          *)
FilterInv ==
  /\ pc \in [User -> {"idle", "bloom", "take", "assign", "test", "lookup", "wipe"}]
  /\ DOMAIN arg = Adder \union Asker /\ answer \in [Asker -> BOOLEAN]
  /\ DOMAIN sure = Asker /\ DOMAIN possible = Asker
  /\ \A u, v \in User : Inside(u) /\ Inside(v) => u = v
  /\ added \subseteq macs /\ BitsOf(added) \subseteq bits
  /\ \A u \in Adder : pc[u] = "bloom" => arg[u] \in macs
  /\ \A u \in User : pc[u] = "bloom" => u \in Adder
  /\ \A u \in User : pc[u] = "wipe" => added = {}
  /\ \A u \in Asker : pc[u] \in {"test", "lookup"} =>
       sure[u] \subseteq added /\ macs \subseteq possible[u]

LEMMA FilterInvInit == FilterInit => FilterInv
BY DEF FilterInit, FilterInv, User, Inside

LEMMA FilterInvNext == FilterInv /\ [FilterNext]_filterVars => FilterInv'
<1> SUFFICES ASSUME FilterInv, [FilterNext]_filterVars PROVE FilterInv'
  OBVIOUS
<1> USE DEF FilterInv, User, BitsOf, Step, Inside, MuFree
<1>1. ASSUME NEW u \in Adder, NEW m \in MAC, AddToTable(u, m) PROVE FilterInv'
  BY <1>1 DEF AddToTable, loopVars
<1>2. ASSUME NEW u \in Adder, AddToBloom(u) PROVE FilterInv'
  BY <1>2 DEF AddToBloom, loopVars
<1>3. ASSUME NEW u \in Adder, TakeSnapshot(u) \/ AssignSnapshot(u)
      PROVE  FilterInv'
  BY <1>3 DEF TakeSnapshot, AssignSnapshot, loopVars, auxVars
<1>4. ASSUME NEW u \in Asker, NEW m \in MAC, BeginContains(u, m) PROVE FilterInv'
  BY <1>4 DEF BeginContains, loopVars
<1>5. ASSUME NEW u \in Asker, TestBloom(u) PROVE FilterInv'
  <2>1. /\ UNCHANGED <<macs, bits, arg, added, sure, possible>>
        /\ answer' \in [Asker -> BOOLEAN] /\ pc[u] = "test"
        /\ \E to \in {"lookup", "idle"} : pc' = [pc EXCEPT ![u] = to]
    BY <1>5 DEF TestBloom, loopVars, auxVars
  <2> QED BY <2>1
<1>6. ASSUME NEW u \in Asker, LookUp(u) PROVE FilterInv'
  BY <1>6 DEF LookUp, InTable, loopVars, auxVars
<1>7. ASSUME NEW u \in Cleaner, ClearTable(u) PROVE FilterInv'
  BY <1>7 DEF ClearTable, loopVars
<1>8. ASSUME NEW u \in Cleaner, ClearBloom(u) PROVE FilterInv'
  BY <1>8 DEF ClearBloom, loopVars, auxVars
<1>9. CASE CaptureLoop
  BY <1>9 DEF CaptureLoop, Admit, LoopTakes, LoopAssigns,
     userVars, auxVars
<1>10. CASE UNCHANGED filterVars
  BY <1>10 DEF filterVars, userVars, loopVars, auxVars
<1> QED
  BY <1>1, <1>2, <1>3, <1>4, <1>5, <1>6, <1>7, <1>8, <1>9, <1>10 DEF FilterNext,
     AddTargetMAC, Add, Clear, CallContains

(* The step that returns: of the filter when it has not all bits of the    *)
(* address, else of the table.                                             *)
LEMMA ExactStep ==
  FilterInv /\ [FilterNext]_filterVars =>
    \A u \in Asker : Returns(u) =>
      IF answer'[u] THEN arg[u] \in possible[u] ELSE arg[u] \notin sure[u]
<1> SUFFICES ASSUME FilterInv, [FilterNext]_filterVars, NEW u \in Asker, Returns(u)
             PROVE  IF answer'[u] THEN arg[u] \in possible[u]
                    ELSE arg[u] \notin sure[u]
  OBVIOUS
<1>1. sure[u] \subseteq added /\ added \subseteq macs /\ macs \subseteq possible[u]
  BY DEF FilterInv, Returns
<1>2. CASE TestBloom(u)
  <2>1. ~Test(arg[u], bits) /\ ~answer'[u]
    BY <1>2 DEF TestBloom, Returns, Step, FilterInv, User
  <2>2. arg[u] \notin added
    BY <2>1 DEF Test, FilterInv, BitsOf
  <2> QED BY <1>1, <2>1, <2>2
<1>3. CASE LookUp(u)
  <2>1. answer'[u] = (arg[u] \in macs)
    BY <1>3 DEF LookUp, InTable, FilterInv
  <2> QED BY <1>1, <2>1
<1>4. TestBloom(u) \/ LookUp(u)
  <2>1. pc'[u] = "idle" /\ pc[u] \in {"test", "lookup"} /\ u \in User
    BY DEF Returns, User
  <2>2. pc'[u] # pc[u]
    BY <2>1
  <2> QED
    BY <2>1, <2>2 DEF FilterNext, AddTargetMAC, CallContains, Add, AddToTable, AddToBloom,
       TakeSnapshot, AssignSnapshot,
       BeginContains, TestBloom, LookUp, Clear, ClearTable, ClearBloom,
       CaptureLoop, Admit, LoopTakes, LoopAssigns, Step, FilterInv, User, filterVars, userVars
<1> QED BY <1>2, <1>3, <1>4

(* Contains says yes only of an address that was in the table during the   *)
(* call, and no only of one whose Add had not ended before the call or     *)
(* that a Clear has begun to remove since (bloomfilter.go:270-304).        *)
THEOREM ContainsIsExact == FilterSpec => ContainsExact
<1>1. FilterSpec => []FilterInv
  BY FilterInvInit, FilterInvNext, PTL DEF FilterSpec
<1>2. FilterInv /\ [FilterNext]_filterVars =>
        [\A u \in Asker : Returns(u) =>
           IF answer'[u] THEN arg[u] \in possible[u] ELSE arg[u] \notin sure[u]]_filterVars
  BY ExactStep
<1> QED BY <1>1, <1>2, PTL DEF FilterSpec, ContainsExact
=============================================================================
