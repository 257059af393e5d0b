-------------------------- MODULE DifferentialEngine -------------------------
(***************************************************************************)
(* The line differential protection of pkg/sv: a line with its two zero    *)
(* sequence processors, the DifferentialEngine that hands the result to    *)
(* the protection engine, and what pushes samples: the goroutines of the   *)
(* SVSimulator, or a feed that calls PushSamples or PushBothSides itself.  *)
(* A push is a list of steps in `todo`; the locks taken are z.mu of a side *)
(* (within one step) and dp.mu (from "lock" to "handle").                  *)
(*                                                                         *)
(* Only the zero sequence current of a sample is kept: 0 under load, a     *)
(* sine wave on side M in an internal fault, on both sides in a through    *)
(* fault (the buffers of the three phase currents are written and never    *)
(* read).  The protection engine is the queue of its event loop and the    *)
(* value its graph has for the line's trip node.                           *)
(***************************************************************************)
EXTENDS Phasor, FiniteSets

CONSTANTS Runner,        \* goroutines the simulator can start
          Feed,          \* a caller of PushSamples and PushBothSides
          FaultCurrent,  \* amplitudes of faults,
          CTRatio,       \*   and the ratio, in thousandths
          EventBuffer,
          MaxStarts,     \* bounds: starts of the simulator,
          MaxSamples,    \*   samples begun, by how often it was started,
          MaxChanges     \*   changes of the line's condition

ASSUME DifferentialAssumption ==
  /\ Feed \notin Runner /\ IsFiniteSet(Runner) /\ "free" \notin Runner \union {Feed}
  /\ FaultCurrent \subseteq Nat /\ CTRatio \in Nat /\ EventBuffer \in Nat
  /\ MaxStarts \in Nat /\ MaxSamples \in [0..MaxStarts -> Nat] /\ MaxChanges \in Nat

VARIABLES
  samples,             \* begun so far
  condition, changes,  \* of the line: SimFault for the simulator's lines
  running, chan,       \* SVSimulator.running, and which stopChan it has
  run, sel, idx,       \* per runner: where it is, the channel it selects on
  line, dp,            \* the line is registered; its trip flag and lock
  side,                \* per side: buffer and LastPhasor
  recent,              \* auxiliary: per side, the last cycle of pushes
  todo, sample,        \* per pusher: steps left, the sample being pushed (its
                       \*   number, the auxiliary n, tells it from all others)
  seen,                \* per pusher and side: the phasor evaluate() read
  decided,             \* per pusher: the event's Trip
  events, node, lost   \* the engine's queue, its trip node; the last event
                       \*   was dropped

Pusher    == Runner \union {Feed}
Side      == {"M", "N"}

Load == [kind |-> "load", current |-> 0]
Condition == {Load} \union [kind : {"internal", "through"}, current : FaultCurrent]

simVars  == <<running, chan, run, sel, idx>>
pushVars == <<samples, side, recent, todo, sample, seen, decided>>
outVars  == <<dp, events, node, lost>>
vars == <<condition, changes, simVars, line, pushVars, outVars>>

Current(c, s) == IF c.kind = "internal" /\ s = "N" THEN 0 ELSE c.current

EvaluateSteps == <<"lock", "decide", "handle">>
BothSides  == <<"M", "N">> \o EvaluateSteps
OneByOne   == <<"M">> \o EvaluateSteps \o <<"N">> \o EvaluateSteps

NoSample == [n |-> 0, k |-> 0, condition |-> Load]
NoRead   == [phasor |-> ZeroPhasor, from |-> <<>>]

Init ==
  /\ samples = 0 /\ condition = Load /\ changes = 0
  /\ running = FALSE /\ chan = 0
  /\ run = [r \in Runner |-> "off"] /\ sel = [r \in Runner |-> 0]
  /\ idx = [p \in Pusher |-> 0]
  /\ line = FALSE /\ dp = [trip |-> FALSE, mu |-> "free"]
  /\ side = [s \in Side |-> [buf |-> EmptyBuffer, phasor |-> ZeroPhasor]]
  /\ recent = [s \in Side |-> <<>>]
  /\ todo = [p \in Pusher |-> <<>>] /\ sample = [p \in Pusher |-> NoSample]
  /\ seen = [p \in Pusher |-> [s \in Side |-> NoRead]]
  /\ decided = [p \in Pusher |-> FALSE]
  /\ events = <<>> /\ node = FALSE /\ lost = FALSE

-----------------------------------------------------------------------------
(* ProtectionEngine.UpsertInputNode: the node exists from the first call   *)
(* on; its value goes through the event queue, or is dropped.              *)
Upsert(value) ==
  /\ lost' = (Len(events) >= EventBuffer)
  /\ events' = IF Len(events) < EventBuffer THEN Append(events, value) ELSE events

(* DifferentialEngine.AddLine.  Adding the line again is an error.         *)
AddLine ==
  /\ ~line /\ line' = TRUE
  /\ Upsert(FALSE)
  /\ UNCHANGED <<condition, changes, simVars, pushVars, dp, node>>

(* evaluateWithEvent, as far as the trip node goes.                        *)
EngineLoop ==
  /\ events # <<>>
  /\ node' = Head(events) /\ events' = Tail(events)
  /\ UNCHANGED <<condition, changes, simVars, line, pushVars, dp, lost>>

(* SVSimulator.SetFault and ClearFault; a through fault is the feed's.     *)
Change ==
  /\ changes < MaxChanges
  /\ \E c \in Condition \ {condition} :
       /\ c.kind = "through" => chan = 0
       /\ condition' = c
  /\ changes' = changes + 1
  /\ UNCHANGED <<simVars, line, pushVars, outVars>>

-----------------------------------------------------------------------------
(* SVSimulator: Start makes a new stop channel, Stop closes it, and each   *)
(* runner looks up the channel whenever it comes to its select.            *)

LeftOpen(c) == FALSE
Closed(c)   == c # chan \/ ~running

StartSimulator ==
  /\ ~running /\ chan < MaxStarts /\ todo[Feed] = <<>> /\ condition.kind # "through"
  /\ recent.N = <<>> \/ chan > 0           \* the line has one source
  /\ \E r \in Runner : run[r] = "off"
  /\ LET r == CHOOSE q \in Runner : run[q] = "off"     \* any, they are alike
     IN run' = [run EXCEPT ![r] = "loop"] /\ idx' = [idx EXCEPT ![r] = 0]
  /\ running' = TRUE /\ chan' = chan + 1
  /\ UNCHANGED <<condition, changes, sel, line, pushVars, outVars>>

StopSimulator ==
  /\ running /\ running' = FALSE
  /\ UNCHANGED <<condition, changes, chan, run, sel, idx, line, pushVars, outVars>>

EnterSelect(r) ==
  /\ run[r] = "loop" /\ todo[r] = <<>>
  /\ run' = [run EXCEPT ![r] = "select"]
  /\ sel' = [sel EXCEPT ![r] = chan]
  /\ UNCHANGED <<condition, changes, running, chan, idx, line, pushVars, outVars>>

ExitRunner(r) ==
  /\ run[r] = "select" /\ Closed(sel[r])
  /\ run' = [run EXCEPT ![r] = "off"] /\ sel' = [sel EXCEPT ![r] = 0]
  /\ UNCHANGED <<condition, changes, running, chan, idx, line, pushVars, outVars>>

Begin(p, steps) ==
  /\ samples < MaxSamples[chan] /\ samples' = samples + 1
  /\ todo' = [todo EXCEPT ![p] = steps]
  /\ sample' = [sample EXCEPT ![p] = [n |-> samples', k |-> idx[p], condition |-> condition]]
  /\ idx' = [idx EXCEPT ![p] = (@ + 1) % SamplesPerCycle]

(* Step: the lines and the faults are copied at its start.                 *)
Tick(r) ==
  /\ run[r] = "select"
  /\ run' = [run EXCEPT ![r] = "loop"]
  /\ Begin(r, IF line THEN BothSides ELSE <<>>)
  /\ UNCHANGED <<condition, changes, running, chan, sel, line, side, recent, seen, decided, outVars>>

(* PushBothSides, or PushSamples for one side after the other.             *)
FeedSample ==
  /\ line /\ chan = 0 /\ todo[Feed] = <<>>
  /\ \E steps \in {BothSides, OneByOne} : Begin(Feed, steps)
  /\ UNCHANGED <<condition, changes, running, chan, run, sel, line, side, recent, seen, decided, outVars>>

-----------------------------------------------------------------------------
At(p, step) == todo[p] # <<>> /\ Head(todo[p]) = step
Done(p)     == todo' = [todo EXCEPT ![p] = Tail(@)]

(* ZeroSequenceProcessor.PushSamples.                                      *)
LastCycle(s) == SubSeq(s, Max({1, Len(s) - SamplesPerCycle + 1}), Len(s))

PushSamples(p, s) ==
  LET value == GenerateSineWave(Current(sample[p].condition, s), sample[p].k)
      buf   == Push(side[s].buf, value)
  IN /\ At(p, s) /\ Done(p)
     /\ side' = [side EXCEPT ![s] =
          [buf |-> buf,
           phasor |-> IF AvailableSamples(buf) >= SamplesPerCycle
                      THEN ComputePhasor(GetLastN(buf, SamplesPerCycle)) ELSE @.phasor]]
     /\ recent' = [recent EXCEPT ![s] =
          LastCycle(Append(@, [n |-> sample[p].n, by |-> p, k |-> sample[p].k,
                               condition |-> sample[p].condition, value |-> value]))]
     /\ UNCHANGED <<condition, changes, simVars, line, samples, sample, seen, decided, outVars>>

(* evaluate: nothing before both sides have a cycle; then under dp.mu the  *)
(* phasor of one side, of the other, the decision, and the handler.        *)
Ready == \A s \in Side : AvailableSamples(side[s].buf) >= SamplesPerCycle

Read(p, s) ==
  seen' = [seen EXCEPT ![p][s] = [phasor |-> side[s].phasor, from |-> recent[s]]]

NotReady(p) ==
  /\ At(p, "lock") /\ ~Ready
  /\ todo' = [todo EXCEPT ![p] = SubSeq(@, Len(EvaluateSteps) + 1, Len(@))]
  /\ UNCHANGED <<condition, changes, simVars, line, samples, side, recent, sample, seen, decided, outVars>>

LockAndReadM(p) ==
  /\ At(p, "lock") /\ Ready /\ Done(p)
  /\ dp.mu = "free" /\ dp' = [dp EXCEPT !.mu = p]
  /\ Read(p, "M")
  /\ UNCHANGED <<condition, changes, simVars, line, samples, side, recent, sample, decided,
                 events, node, lost>>

(* The transformers' ratio, in thousandths as the magnitudes.              *)
Idiff(m, n) == CTRatio * Mag(Sub(m, n))
Ires(m, n)  == (CTRatio * (Mag(m) + Mag(n))) \div 2

HolderAfter(p)  == "free"
HolderDuring(p) == p
ReadNAndDecide(p) ==
  LET m == seen[p]["M"].phasor
      n == side["N"].phasor
  IN /\ At(p, "decide") /\ Done(p)
     /\ Read(p, "N")
     /\ decided' = [decided EXCEPT ![p] = CheckRestraint(Idiff(m, n), Ires(m, n))]
     /\ dp' = [trip |-> decided'[p], mu |-> HolderDuring(p)]
     /\ UNCHANGED <<condition, changes, simVars, line, samples, side, recent, sample, events, node, lost>>

(* The handler of createEventHandler, and the unlock.                      *)
Handle(p) ==
  /\ At(p, "handle") /\ Done(p)
  /\ Upsert(decided[p])
  /\ dp' = [dp EXCEPT !.mu = IF @ = p THEN "free" ELSE @]
  /\ seen' = [seen EXCEPT ![p] = [s \in Side |-> NoRead]]     \* its frame ends
  /\ decided' = [decided EXCEPT ![p] = FALSE]
  /\ UNCHANGED <<condition, changes, simVars, line, samples, side, recent, sample, node>>

Push1(p) ==
  \/ \E s \in Side : PushSamples(p, s)
  \/ NotReady(p) \/ LockAndReadM(p) \/ ReadNAndDecide(p) \/ Handle(p)

RunnerStep(r) == EnterSelect(r) \/ ExitRunner(r) \/ Tick(r)

Next == \/ AddLine \/ EngineLoop \/ Change \/ StartSimulator \/ StopSimulator \/ FeedSample
        \/ \E r \in Runner : RunnerStep(r)
        \/ \E p \in Pusher : Push1(p)

(* Goroutines that can go on do.  A select picks at random among the cases *)
(* that are ready, so a closed stop channel is not passed over for ever.   *)
Fairness == /\ WF_vars(EngineLoop)
            /\ \A p \in Pusher : WF_vars(Push1(p))
            /\ \A r \in Runner : WF_vars(EnterSelect(r)) /\ SF_vars(ExitRunner(r))

Spec == Init /\ [][Next]_vars /\ Fairness

-----------------------------------------------------------------------------
Numbers(window) == [i \in DOMAIN window |-> window[i].n]

(* The two windows evaluate() read are the same cycle of the same samples. *)
Aligned(p) == Numbers(seen[p]["M"].from) = Numbers(seen[p]["N"].from)

(* All of a window is in one condition, a cycle from one source.           *)
Whole(window, c) ==
  /\ \A i \in DOMAIN window : window[i].condition = c /\ window[i].by = window[1].by
  /\ \A i \in DOMAIN window \ {1} : window[i].k = (window[i - 1].k + 1) % SamplesPerCycle

(* The phasor of a side is that of the last cycle of samples pushed, in    *)
(* order, however often the ring buffer has wrapped (Push, GetLastN).      *)
PhasorOfLastCycle ==
  \A s \in Side : Len(recent[s]) = SamplesPerCycle =>
    side[s].phasor = ComputePhasor([i \in DOMAIN recent[s] |-> recent[s][i].value])

(* A line trips only if the last cycle has part of an internal fault, or   *)
(* evaluate() compared different cycles of the two sides: load and through *)
(* faults do not trip it by themselves.                                    *)
TripNeedsFaultOrSkew ==
  \A p \in Pusher : At(p, "handle") /\ dp.trip /\ Aligned(p) =>
    \E i \in 1..SamplesPerCycle : seen[p]["M"].from[i].condition.kind = "internal"

(* A full cycle of an internal fault, from one source, trips the line if   *)
(* its current is above the pickup, and not if it is below, although the   *)
(* fault itself restrains: the characteristic never rises faster than the  *)
(* differential current.  (A restart of the simulator, which begins a new  *)
(* wave and may leave the old runner beside the new one, may hide it.)     *)
FaultTrips ==
  \A p \in Pusher, c \in Condition :
    /\ At(p, "handle") /\ Aligned(p)
    /\ c.kind = "internal" /\ Whole(seen[p]["M"].from, c)
    => /\ CTRatio * c.current > MinTrip => dp.trip
       /\ CTRatio * c.current < MinTrip => ~dp.trip

(* When the engine has caught up and no handler is about to be called, its *)
(* trip node has the result of the last evaluation, unless that one's      *)
(* event found the queue full: decision and handler are under one lock, so *)
(* that the results of two pushers reach the engine in the order in which  *)
(* they were decided.                                                      *)
NodeFollowsTrip ==
  line /\ events = <<>> /\ (\A p \in Pusher : ~At(p, "handle")) /\ ~lost =>
    node = dp.trip

(* After the simulator is stopped all its runners end, unless it is        *)
(* started again, also those that missed an earlier stop.                  *)
RunnersEnd ==
  ~running ~> running \/ \A r \in Runner : run[r] = "off"
=============================================================================
