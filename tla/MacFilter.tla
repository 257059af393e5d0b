------------------------------ MODULE MacFilter ------------------------------
(***************************************************************************)
(* internal/capture/bloomfilter.go and its use by high_perf_capture.go:    *)
(* the exact table of MAC addresses, the Bloom filter in front of it, and  *)
(* the snapshot of the filter's bits with which the capture loop tests     *)
(* every frame without a lock.                                             *)
(*                                                                         *)
(* Hash[m] is the set of the k bit positions of an address; two addresses  *)
(* may share some or all of them.  The table is under f.mu, the bits are   *)
(* under bf.mu.  MACExactFilter.Add and Clear take bf.mu inside f.mu, so   *)
(* each is two steps: whoever asks the Bloom filter alone (Contains, the   *)
(* snapshots) may come in between.  An operation of the Bloom filter is    *)
(* one step.                                                               *)
(***************************************************************************)
EXTENDS Integers, FiniteSets

CONSTANTS MAC,          \* addresses (of 6 bytes)
          Position,     \* bits of the filter
          Hash,
          Adder,        \* goroutines that call AddTargetMAC,
          Asker,        \*   Contains,
          Cleaner,      \*   Clear
          Configured    \* config.TargetMACs

ASSUME HashAssumption == Hash \in [MAC -> (SUBSET Position) \ {{}}]
ASSUME AddressAssumption == Configured \subseteq MAC

VARIABLES
  macs,       \* f.macs
  bits,       \* bf.bits, the positions that are 1
  snapshot,   \* c.bloomSnapshot
  pc,         \* where each goroutine is; "bloom" and "wipe" hold f.mu
  arg,        \* the address an Add or a Contains is about
  taken,      \* snapshots taken and not yet assigned to c.bloomSnapshot
  answer,     \* what the last Contains returned
  loop,       \* where the capture loop is
  loopTaken,  \* its snapshot not yet assigned
  added,      \* auxiliary: addresses whose Add has ended, no Clear begun since
  sure,       \* auxiliary: addresses added ever since Contains began
  possible    \* auxiliary: addresses in the table at some time since then

userVars == <<pc, arg, taken, answer>>
User     == Adder \union Asker \union Cleaner
loopVars == <<loop, loopTaken>>
auxVars  == <<added, sure, possible>>
filterVars == <<macs, bits, snapshot, userVars, loopVars, auxVars>>

(* Above some helpers stand slips that no action uses.                     *)
Positions(m) == Hash[m]
BitsOf(S)    == UNION {Positions(m) : m \in S}
Test(m, b)   == Positions(m) \subseteq b

BloomIsEnough(m) == TRUE
InTable(m)       == m \in macs

BitsSnapshot == bits

(* NewHighPerfGOOSECapture, then Start. *)
FilterInit ==
  /\ macs = Configured
  /\ bits = BitsOf(Configured)
  /\ snapshot = BitsOf(Configured)
  /\ pc = [u \in User |-> "idle"]
  /\ arg = [u \in Adder \union Asker |-> CHOOSE m \in MAC : TRUE]
  /\ taken = [u \in Adder |-> {}]
  /\ answer = [u \in Asker |-> FALSE]
  /\ loop = "test" /\ loopTaken = {}
  /\ added = Configured
  /\ sure = [u \in Asker |-> {}] /\ possible = [u \in Asker |-> {}]

Step(u, from, to) == pc[u] = from /\ pc' = [pc EXCEPT ![u] = to]

Inside(u) == pc[u] \in {"bloom", "wipe"}
MuFree    == \A u \in User : ~Inside(u)
-----------------------------------------------------------------------------
(* AddTargetMAC: add to the table and, still under f.mu, to the Bloom      *)
(* filter, then take a snapshot, assign it.                                *)
AddToTable(u, m) ==
  /\ Step(u, "idle", "bloom") /\ MuFree
  /\ macs' = macs \union {m}
  /\ arg' = [arg EXCEPT ![u] = m]
  /\ possible' = [v \in Asker |-> possible[v] \union {m}]
  /\ UNCHANGED <<bits, snapshot, taken, answer, loopVars, added, sure>>

AddToBloom(u) ==
  /\ Step(u, "bloom", "take")
  /\ bits' = bits \union Positions(arg[u])
  /\ added' = added \union {arg[u]}
  /\ UNCHANGED <<macs, snapshot, arg, taken, answer, loopVars, sure, possible>>

TakeSnapshot(u) ==
  /\ Step(u, "take", "assign")
  /\ taken' = [taken EXCEPT ![u] = BitsSnapshot]
  /\ UNCHANGED <<macs, bits, snapshot, arg, answer, loopVars, auxVars>>

AssignSnapshot(u) ==
  /\ Step(u, "assign", "idle")
  /\ snapshot' = taken[u]
  /\ taken' = [taken EXCEPT ![u] = {}]
  /\ UNCHANGED <<macs, bits, arg, answer, loopVars, auxVars>>

(* Contains: the Bloom filter first, then the table, each under its lock.  *)
BeginContains(u, m) ==
  /\ Step(u, "idle", "test")
  /\ arg' = [arg EXCEPT ![u] = m]
  /\ sure' = [sure EXCEPT ![u] = added]
  /\ possible' = [possible EXCEPT ![u] = macs]
  /\ UNCHANGED <<macs, bits, snapshot, taken, answer, loopVars, added>>

TestBloom(u) ==
  /\ IF Test(arg[u], bits)
     THEN Step(u, "test", "lookup") /\ UNCHANGED answer
     ELSE Step(u, "test", "idle") /\ answer' = [answer EXCEPT ![u] = FALSE]
  /\ UNCHANGED <<macs, bits, snapshot, arg, taken, loopVars, auxVars>>

LookUp(u) ==
  /\ Step(u, "lookup", "idle") /\ MuFree
  /\ answer' = [answer EXCEPT ![u] = InTable(arg[u])]
  /\ UNCHANGED <<macs, bits, snapshot, arg, taken, loopVars, auxVars>>

(* MACExactFilter.Clear, the table and then the bits, under f.mu; the      *)
(* snapshot stays as it is.                                                *)
ClearTable(u) ==
  /\ Step(u, "idle", "wipe") /\ MuFree
  /\ macs' = {} /\ added' = {}
  /\ sure' = [v \in Asker |-> {}]
  /\ UNCHANGED <<bits, snapshot, arg, taken, answer, loopVars, possible>>

ClearBloom(u) ==
  /\ Step(u, "wipe", "idle")
  /\ bits' = {}
  /\ UNCHANGED <<macs, snapshot, arg, taken, answer, loopVars, auxVars>>
-----------------------------------------------------------------------------
(* A frame from address m passes fastPreFilter and is queued; the loop     *)
(* then may find that bloomRefresh has elapsed (`refresh`).  A frame that  *)
(* does not pass, or finds the ring buffer full, goes no further.          *)
Admit(m, refresh) ==
  /\ loop = "test"
  /\ Test(m, snapshot)
  /\ loop' = IF refresh THEN "take" ELSE "test"
  /\ UNCHANGED <<macs, bits, snapshot, userVars, loopTaken, auxVars>>

LoopTakes ==
  /\ loop = "take"
  /\ loop' = "assign"
  /\ loopTaken' = BitsSnapshot
  /\ UNCHANGED <<macs, bits, snapshot, userVars, auxVars>>

LoopAssigns ==
  /\ loop = "assign"
  /\ loop' = "test"
  /\ snapshot' = loopTaken
  /\ loopTaken' = {}
  /\ UNCHANGED <<macs, bits, userVars, auxVars>>
-----------------------------------------------------------------------------
Add(u)          == (\E m \in MAC : AddToTable(u, m)) \/ AddToBloom(u)
Clear(u)        == ClearTable(u) \/ ClearBloom(u)
AddTargetMAC(u) == Add(u) \/ TakeSnapshot(u) \/ AssignSnapshot(u)
CallContains(u) == (\E m \in MAC : BeginContains(u, m)) \/ TestBloom(u) \/ LookUp(u)
CaptureLoop     == \/ \E m \in MAC, refresh \in BOOLEAN : Admit(m, refresh)
                   \/ LoopTakes \/ LoopAssigns

FilterNext == \/ \E u \in Adder : AddTargetMAC(u)
              \/ \E u \in Asker : CallContains(u)
              \/ \E u \in Cleaner : Clear(u)
              \/ CaptureLoop

FilterSpec == FilterInit /\ [][FilterNext]_filterVars
-----------------------------------------------------------------------------
TypeOK ==
  /\ macs \subseteq MAC /\ added \subseteq MAC
  /\ bits \subseteq Position /\ snapshot \subseteq Position
  /\ pc \in [User -> {"idle", "bloom", "take", "assign", "test", "lookup", "wipe"}]
  /\ arg \in [Adder \union Asker -> MAC] /\ answer \in [Asker -> BOOLEAN]
  /\ taken \in [Adder -> SUBSET Position]
  /\ loop \in {"test", "take", "assign"} /\ loopTaken \subseteq Position
  /\ sure \in [Asker -> SUBSET MAC] /\ possible \in [Asker -> SUBSET MAC]

(* Contains takes the two locks one after the other while Add and Clear    *)
(* take one inside the other.  It says yes only of an address that was in  *)
(* the table at some time during the call, and no only of one whose Add    *)
(* had not ended when the call began or that a Clear has begun to remove   *)
(* since (bloomfilter.go:270-304).  An address that is in the table but    *)
(* not yet in the Bloom filter may be denied.                              *)
Returns(u) == pc[u] \in {"test", "lookup"} /\ pc'[u] = "idle"
ContainsExact ==
  [][\A u \in Asker : Returns(u) =>
       IF answer'[u] THEN arg[u] \in possible[u] ELSE arg[u] \notin sure[u]]_filterVars
=============================================================================
