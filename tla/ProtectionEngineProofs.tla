------------------------ MODULE ProtectionEngineProofs ------------------------
(***************************************************************************)
(* Safety of the protection engine, for any number of goroutines, devices, *)
(* handlers, lockouts and events, and for every course of time: lockouts   *)
(* hold and end by their term, trips are signalled, and the average of     *)
(* the evaluation times is over the right number.                          *)
(***************************************************************************)
EXTENDS ProtectionEngine, FiniteSetTheorems, TLAPS

LockoutState == [device : Device, active : BOOLEAN, startTime : Nat, duration : Nat]

EngineType ==
  /\ pc \in [Thread -> PC]
  /\ found \in [Thread -> SUBSET Device] /\ target \in [Thread -> SUBSET Device]
  /\ shield \in [Thread -> SUBSET Device] /\ copied \in [Thread -> SUBSET Handler]
  /\ handlers \subseteq Handler
  /\ lockout \in Seq(LockoutState)
  /\ current \in [Device -> 0..Made]
  /\ \A d \in Device : current[d] # 0 => lockout[current[d]].device = d
  /\ now \in Nat /\ checkTime \in 0..now /\ snapped \in 0..Made
  /\ evalCount \in Nat /\ recorded \in Nat

(* The loop runs only between Start and the end of Stop.                   *)
RunInv ==
  /\ ~running /\ stopper = NoClient => pc[Loop] = "off"
  /\ running => built
  /\ ~built => \A t \in Thread : pc[t] \in {"off", "idle"}

(* What an evaluation holds shielded is locked out; the device it is about *)
(* to trip is not.                                                         *)
ShieldInv ==
  /\ \A t \in Thread : shield[t] \subseteq Shielded
  /\ \A t \in Thread : pc[t] # "fire" => target[t] = {}
  /\ ShieldHolds

(* Every evaluation counted is recorded or about to be.                    *)
Updating == {t \in Thread : pc[t] = "update"}
CountInv ==
  /\ IsFiniteSet(Updating)
  /\ evalCount = recorded + Cardinality(Updating)
  /\ Updating = {} => averagedOver = recorded

(* Until the handlers are copied nothing is done of what an evaluation     *)
(* wants; then the copy has all handlers there were, the devices found,    *)
(* refused and about to be tripped are different ones, and exactly the     *)
(* handlers of the copy were called for the rest.                          *)
SignalType ==
  /\ wanted \in [Thread -> SUBSET Device] /\ refused \in [Thread -> SUBSET Device]
  /\ had \in [Thread -> SUBSET Handler]
  /\ got \in [Thread -> [Handler -> SUBSET Device]]

Before == {"count", "update", "copy"}
During == {"dispatch", "fire"}
Signals(t) ==
  /\ pc[t] \in Before => /\ wanted[t] = found[t] /\ refused[t] = {}
                         /\ got[t] = NoCalls /\ had[t] \subseteq handlers
  /\ pc[t] \in During =>
       /\ had[t] \subseteq copied[t]
       /\ found[t] \union target[t] \subseteq wanted[t]
       /\ found[t] \intersect target[t] = {}
       /\ (found[t] \union target[t]) \intersect refused[t] = {}
       /\ \A h \in Handler : got[t][h] = IF h \in copied[t] THEN Done(t) ELSE {}
SignalInv == SignalType /\ \A t \in Thread : Signals(t)

(* A lockout in the snapshot is still its device's, or a later one is; so  *)
(* what the loop is about to clear is over, or later than the snapshot.    *)
Over(o) == checkTime - lockout[o].startTime >= lockout[o].duration
TimerInv ==
  /\ pc[Loop] \in {"expire", "clear"} =>
       \A o \in snapshot :
         /\ o \in 1..snapped
         /\ current[lockout[o].device] = o \/ current[lockout[o].device] > snapped
  /\ pc[Loop] = "clear" =>
       \A d \in expired : /\ d \in Device /\ current[d] # 0
                          /\ Over(current[d]) \/ current[d] > snapped

EngineInv == EngineType /\ RunInv /\ ShieldInv /\ CountInv /\ SignalInv /\ TimerInv

LEMMA LockoutFields ==
  ASSUME EngineType
  PROVE  \A o \in 1..Made : /\ lockout[o].device \in Device
                            /\ lockout[o].startTime \in Nat
                            /\ lockout[o].duration \in Nat
<1>1. \A o \in 1..Made : lockout[o] \in LockoutState
  BY DEF EngineType, Made
<1> QED BY <1>1 DEF LockoutState

LEMMA ThreadFacts == Loop \in Thread /\ \A c \in Client : c \in Thread /\ c # Loop
BY EngineAssumption DEF Thread

LEMMA EngineInit == Init => EngineInv
<1> SUFFICES ASSUME Init PROVE EngineInv
  OBVIOUS
<1>1. EngineType
  BY DEF Init, EngineType, PC, Made
<1>2. RunInv
  BY ThreadFacts DEF Init, RunInv
<1>3. ShieldInv
  BY DEF Init, ShieldInv, ShieldHolds
<1>4. CountInv
  <2>1. Updating = {}
    BY DEF Init, Updating
  <2> QED BY <2>1, FS_EmptySet DEF Init, CountInv
<1>5. SignalInv
  BY ThreadFacts DEF Init, SignalInv, SignalType, NoCalls, Signals, Before, During
<1>6. TimerInv
  BY ThreadFacts DEF Init, TimerInv
<1> QED BY <1>1, <1>2, <1>3, <1>4, <1>5, <1>6 DEF EngineInv

(* Ending a lockout changes nothing of the others, nor its own term.       *)
LEMMA DeactivateEffect ==
  ASSUME EngineType, NEW d \in Device, Deactivate(d)
  PROVE  /\ lockout' \in Seq(LockoutState) /\ Made' = Made
         /\ \A o \in 1..Made :
              /\ lockout'[o].device = lockout[o].device
              /\ lockout'[o].startTime = lockout[o].startTime
              /\ lockout'[o].duration = lockout[o].duration
              /\ lockout'[o].active = (lockout[o].active /\ o # current[d])
         /\ shield' = [t \in Thread |-> shield[t] \ {d}]
<1>0. /\ lockout \in Seq(LockoutState) /\ Len(lockout) \in Nat
      /\ \A o \in 1..Len(lockout) : lockout[o] \in LockoutState
  BY DEF EngineType
<1>1. CASE current[d] = 0
  <2>1. lockout' = lockout
    BY <1>1 DEF Deactivate
  <2>2. \A o \in 1..Made : lockout[o].active = (lockout[o].active /\ o # current[d])
    BY <1>0, <1>1 DEF Made, LockoutState
  <2> QED BY <1>0, <2>1, <2>2 DEF Made, Deactivate
<1>2. CASE current[d] # 0
  <2> DEFINE i   == current[d]
             off == [lockout[i] EXCEPT !.active = FALSE]
  <2>1. i \in 1..Len(lockout)
    BY <1>2 DEF EngineType, Made
  <2>2. lockout' = [lockout EXCEPT ![i] = off]
    BY <1>2 DEF Deactivate
  <2>3. /\ off \in LockoutState /\ off.device = lockout[i].device /\ off.active = FALSE
        /\ off.startTime = lockout[i].startTime /\ off.duration = lockout[i].duration
    BY <1>0, <2>1 DEF LockoutState
  <2> HIDE DEF i, off
  <2>4. /\ lockout' \in Seq(LockoutState) /\ Len(lockout') = Len(lockout)
        /\ \A o \in 1..Len(lockout) : lockout'[o] = IF o = i THEN off ELSE lockout[o]
    BY <1>0, <2>1, <2>2, <2>3
  <2>5. \A o \in 1..Made :
              /\ lockout'[o].device = lockout[o].device
              /\ lockout'[o].startTime = lockout[o].startTime
              /\ lockout'[o].duration = lockout[o].duration
              /\ lockout'[o].active = (lockout[o].active /\ o # i)
    BY <1>0, <2>3, <2>4 DEF LockoutState, Made
  <2> QED BY <2>4, <2>5 DEF Made, Deactivate, i
<1> QED BY <1>1, <1>2

LEMMA SetLockoutEffect ==
  ASSUME EngineType, NEW c \in Client, NEW d \in Device, NEW dur \in Duration,
         SetLockout(c, d, dur)
  PROVE  /\ lockout' \in Seq(LockoutState) /\ Made' = Made + 1
         /\ \A o \in 1..Made : lockout'[o] = lockout[o]
         /\ lockout'[Made + 1].device = d /\ lockout'[Made + 1].active = TRUE
         /\ current' = [current EXCEPT ![d] = Made + 1]
<1> DEFINE new == [device |-> d, active |-> TRUE, startTime |-> now, duration |-> dur]
<1>1. new \in LockoutState /\ new.device = d /\ new.active = TRUE
  BY EngineAssumption DEF LockoutState, EngineType
<1>2. lockout' = Append(lockout, new) /\ current' = [current EXCEPT ![d] = Made + 1]
  BY DEF SetLockout
<1> HIDE DEF new
<1> QED BY <1>1, <1>2 DEF EngineType, Made

LEMMA TypeNext == EngineType /\ [Next]_vars => EngineType'
<1> SUFFICES ASSUME EngineType, [Next]_vars PROVE EngineType'
  OBVIOUS
<1> USE ThreadFacts
<1>0. ASSUME UNCHANGED lockVars
      PROVE  lockout' \in Seq(LockoutState) /\ Made' = Made /\ UNCHANGED <<lockout, current>>
  BY <1>0 DEF lockVars, Made, EngineType
<1>1. ASSUME NEW c \in Client, NEW h \in Handler, AddTripHandler(c, h) PROVE EngineType'
  BY <1>0, <1>1 DEF AddTripHandler, EngineType, callVars, lockVars, dispatchVars, timerVars,
     evalVars, statVars, tripVars
<1>2. ASSUME NEW c \in Client, Start(c) \/ BeginStop(c) \/ StopAgain(c) \/ EndStop(c)
      PROVE  EngineType'
  <2> USE DEF Goto, PC, EngineType, lockVars, dispatchVars, timerVars, evalVars, statVars,
              tripVars
  <2>1. CASE Start(c)
    BY <1>0, <2>1 DEF Start, SpawnLoop
  <2>2. CASE BeginStop(c) \/ StopAgain(c)
    BY <1>0, <2>2 DEF BeginStop, StopAgain
  <2>3. CASE EndStop(c)
    BY <1>0, <2>3 DEF EndStop
  <2> QED BY <1>2, <2>1, <2>2, <2>3
<1>3. ASSUME NEW c \in Client, NEW e \in Event, SetInput(c, e) PROVE EngineType'
  BY <1>0, <1>3 DEF SetInput, EngineType, lifeVars, lockVars, dispatchVars, timerVars,
     evalVars, statVars, tripVars
<1>4. ASSUME NEW c \in Client, BeginBatch(c) PROVE EngineType'
  BY <1>0, <1>4 DEF BeginBatch, Goto, PC, EngineType, lifeVars, lockVars, dispatchVars,
     timerVars, evalVars, statVars, tripVars
<1>5. ASSUME NEW c \in Client, NEW d \in Device, NEW dur \in Duration, SetLockout(c, d, dur)
      PROVE  EngineType'
  <2>1. /\ lockout' \in Seq(LockoutState) /\ Made' = Made + 1
        /\ \A o \in 1..Made : lockout'[o] = lockout[o]
        /\ lockout'[Made + 1].device = d
        /\ current' = [current EXCEPT ![d] = Made + 1]
    BY <1>5, SetLockoutEffect
  <2>2. Made \in Nat /\ snapped' = snapped
    BY <1>5 DEF EngineType, Made, SetLockout, timerVars
  <2>3. current' \in [Device -> 0..Made'] /\ snapped' \in 0..Made'
    BY <2>1, <2>2 DEF EngineType
  <2>4. \A b \in Device : current'[b] # 0 => lockout'[current'[b]].device = b
    BY <2>1, <2>2 DEF EngineType
  <2> QED
    BY <1>5, <2>1, <2>3, <2>4 DEF SetLockout, EngineType, lifeVars, dispatchVars, timerVars,
       evalVars, statVars, tripVars
<1>6. ASSUME NEW d \in Device, Deactivate(d), current' = current,
             pc' \in [Thread -> PC], checkTime' \in 0..now', snapped' = snapped,
             UNCHANGED <<lifeVars, now, found, copied, target, statVars, tripVars>>
      PROVE  EngineType'
  <2>1. /\ lockout' \in Seq(LockoutState) /\ Made' = Made
        /\ \A o \in 1..Made : lockout'[o].device = lockout[o].device
        /\ shield' \in [Thread -> SUBSET Device]
    BY <1>6, DeactivateEffect DEF EngineType
  <2>2. \A b \in Device : current'[b] # 0 => lockout'[current'[b]].device = b
    BY <1>6, <2>1 DEF EngineType, Made
  <2> QED BY <1>6, <2>1, <2>2 DEF EngineType, lifeVars, statVars, tripVars
<1>7. ASSUME NEW c \in Client, NEW d \in Device, ClearLockout(c, d) PROVE EngineType'
  BY <1>6, <1>7 DEF ClearLockout, timerVars, EngineType
<1>8. ASSUME NEW d \in Device, ClearExpired(d) PROVE EngineType'
  BY <1>6, <1>8 DEF ClearExpired, Goto, PC, EngineType
<1>9. ASSUME NEW t \in Thread, Evaluation(t) PROVE EngineType'
  <2> USE DEF EngineType, lifeVars, lockVars, timerVars, statVars, tripVars, evalVars
  <2>1. Rest(t) \in PC
    BY DEF Rest, PC
  <2>2. ASSUME NEW S \in SUBSET Device, Evaluate(t, S) PROVE EngineType'
    BY <1>0, <2>2 DEF Evaluate, Goto, PC, Shielded
  <2>3. CASE CountEval(t)
    BY <1>0, <2>3 DEF CountEval, Goto, PC
  <2>4. CASE UpdateMetrics(t)
    <3>1. pc' \in [Thread -> PC]
      BY <2>1, <2>4 DEF UpdateMetrics, Goto, PC
    <3> QED BY <1>0, <2>4, <3>1 DEF UpdateMetrics
  <2>5. CASE CopyHandlers(t)
    BY <1>0, <2>5 DEF CopyHandlers, HandlerCopy, Goto, PC
  <2>6. ASSUME NEW d \in Device, SkipLockedOut(t, d) PROVE EngineType'
    BY <1>0, <2>6 DEF SkipLockedOut, Handled
  <2>7. ASSUME NEW d \in Device, PassLockout(t, d) PROVE EngineType'
    BY <1>0, <2>7 DEF PassLockout, Handled, Goto, PC
  <2>8. CASE Fire(t)
    BY <1>0, <2>8 DEF Fire, Goto, PC
  <2>9. CASE EndDispatch(t)
    BY <1>0, <2>1, <2>9 DEF EndDispatch, Goto
  <2> QED BY <1>9, <2>2, <2>3, <2>4, <2>5, <2>6, <2>7, <2>8, <2>9 DEF Evaluation
<1>10. CASE LoopReturns \/ LoopReceives \/ LoopTicks \/ EndTimers
  <2> USE DEF Goto, PC, EngineType, lifeVars, lockVars, dispatchVars, timerVars, evalVars,
              statVars, tripVars
  <2>1. CASE LoopReturns \/ EndTimers
    BY <1>0, <2>1 DEF LoopReturns, EndTimers
  <2>2. CASE LoopReceives
    BY <1>0, <2>2 DEF LoopReceives
  <2>3. CASE LoopTicks
    BY <1>0, <2>3 DEF LoopTicks
  <2> QED BY <1>10, <2>1, <2>2, <2>3
<1>11. CASE TakeSnapshot
  BY <1>0, <1>11 DEF TakeSnapshot, Goto, PC, EngineType, Made, lifeVars, lockVars,
     dispatchVars, evalVars, statVars, tripVars
<1>12. ASSUME NEW o \in 1..MaxLockouts, CheckOne(o) PROVE EngineType'
  BY <1>0, <1>12 DEF CheckOne, Goto, PC, EngineType, lifeVars, lockVars,
     dispatchVars, evalVars, statVars, tripVars
<1>13. CASE Tick
  BY <1>0, <1>13 DEF Tick, EngineType, lifeVars, lockVars, dispatchVars, timerVars,
     evalVars, statVars, tripVars
<1>14. CASE UNCHANGED vars
  BY <1>0, <1>14 DEF vars, EngineType, lifeVars, lockVars, dispatchVars, timerVars,
     evalVars, statVars, tripVars
<1> QED
  BY <1>1, <1>2, <1>3, <1>4, <1>5, <1>7, <1>8, <1>9, <1>10, <1>11, <1>12, <1>13, <1>14
     DEF Next, Calls, LoopSelects, CheckTimers

-----------------------------------------------------------------------------
LEMMA RunNext == EngineType /\ RunInv /\ [Next]_vars => RunInv'
<1> SUFFICES ASSUME EngineType, RunInv, [Next]_vars PROVE RunInv'
  OBVIOUS
<1> USE ThreadFacts
<1>1. ASSUME UNCHANGED <<lifeVars, pc>> PROVE RunInv'
  BY <1>1 DEF RunInv, lifeVars
<1>2. ASSUME NEW t \in Thread, NEW l \in PC, Goto(t, l), UNCHANGED lifeVars,
             pc[t] # "off", built \/ pc[t] # "idle"
      PROVE  RunInv'
  BY <1>2 DEF RunInv, EngineType, Goto, lifeVars
<1>3. ASSUME NEW c \in Client, NEW h \in Handler, AddTripHandler(c, h) PROVE RunInv'
  BY <1>3 DEF AddTripHandler, RunInv
<1>4. ASSUME NEW c \in Client, Start(c) PROVE RunInv'
  BY <1>4 DEF Start, RunInv
<1>5. ASSUME NEW c \in Client, BeginStop(c) PROVE RunInv'
  <2>1. stopper' # NoClient /\ built'
    BY <1>5, EngineAssumption DEF BeginStop, RunInv
  <2> QED BY <1>5, <2>1 DEF BeginStop, RunInv
<1>6. ASSUME NEW c \in Client, StopAgain(c) PROVE RunInv'
  BY <1>6 DEF StopAgain, RunInv
<1>7. ASSUME NEW c \in Client, EndStop(c) PROVE RunInv'
  BY <1>7 DEF EndStop, RunInv, EngineType, Goto
<1>8. ASSUME NEW c \in Client, NEW e \in Event, SetInput(c, e) PROVE RunInv'
  BY <1>1, <1>8 DEF SetInput
<1>9. ASSUME NEW c \in Client, BeginBatch(c) PROVE RunInv'
  BY <1>2, <1>9 DEF BeginBatch, PC
<1>10. /\ \A c \in Client, d \in Device, dur \in Duration : SetLockout(c, d, dur) => RunInv'
       /\ \A c \in Client, d \in Device : ClearLockout(c, d) => RunInv'
  BY <1>1 DEF SetLockout, ClearLockout
<1>11. ASSUME NEW t \in Thread, Evaluation(t) PROVE RunInv'
  <2>1. Rest(t) \in PC
    BY DEF Rest, PC
  <2>2. ASSUME NEW S \in SUBSET Device, Evaluate(t, S) PROVE RunInv'
    BY <1>2, <2>2 DEF Evaluate, PC
  <2>3. CASE CountEval(t)
    BY <1>2, <2>3 DEF CountEval, PC
  <2>4. CASE UpdateMetrics(t)
    <3>1. (IF found[t] = {} THEN Rest(t) ELSE "copy") \in PC
      BY <2>1 DEF PC
    <3> QED BY <1>2, <2>4, <3>1 DEF UpdateMetrics
  <2>5. CASE CopyHandlers(t)
    BY <1>2, <2>5 DEF CopyHandlers, PC
  <2>6. ASSUME NEW d \in Device, SkipLockedOut(t, d) PROVE RunInv'
    BY <1>1, <2>6 DEF SkipLockedOut
  <2>7. ASSUME NEW d \in Device, PassLockout(t, d) PROVE RunInv'
    BY <1>2, <2>7 DEF PassLockout, PC
  <2>8. CASE Fire(t)
    BY <1>2, <2>8 DEF Fire, PC
  <2>9. CASE EndDispatch(t)
    BY <1>2, <2>1, <2>9 DEF EndDispatch
  <2> QED BY <1>11, <2>2, <2>3, <2>4, <2>5, <2>6, <2>7, <2>8, <2>9 DEF Evaluation
<1>12. CASE LoopSelects
  BY <1>2, <1>12 DEF LoopSelects, LoopReturns, LoopReceives, LoopTicks, PC
<1>13. CASE CheckTimers
  <2>1. CASE TakeSnapshot \/ EndTimers
    BY <1>2, <2>1 DEF TakeSnapshot, EndTimers, PC
  <2>2. ASSUME NEW o \in 1..MaxLockouts, CheckOne(o) PROVE RunInv'
    BY <1>1, <1>2, <2>2 DEF CheckOne, PC
  <2>3. ASSUME NEW d \in Device, ClearExpired(d) PROVE RunInv'
    BY <1>2, <2>3 DEF ClearExpired, PC
  <2> QED BY <1>13, <2>1, <2>2, <2>3 DEF CheckTimers
<1>14. CASE Tick \/ UNCHANGED vars
  BY <1>1, <1>14 DEF Tick, vars
<1> QED
  BY <1>3, <1>4, <1>5, <1>6, <1>7, <1>8, <1>9, <1>10, <1>11, <1>12, <1>13, <1>14
     DEF Next, Calls

LEMMA ShieldNext ==
  EngineType /\ RunInv /\ ShieldInv /\ [Next]_vars => ShieldInv'
<1> SUFFICES ASSUME EngineType, RunInv, ShieldInv, [Next]_vars PROVE ShieldInv'
  OBVIOUS
<1> USE ThreadFacts
<1>1. ASSUME UNCHANGED <<lockVars, target, shield>>,
             \A t \in Thread : pc[t] = "fire" => pc'[t] = "fire"
      PROVE  ShieldInv'
  BY <1>1 DEF ShieldInv, ShieldHolds, Shielded, lockVars
<1>2. ASSUME NEW t \in Thread, NEW l, Goto(t, l), pc[t] # "fire",
             UNCHANGED <<lockVars, target, shield>>
      PROVE  ShieldInv'
  BY <1>1, <1>2 DEF Goto, EngineType
<1>3. ASSUME NEW c \in Client, NEW h \in Handler, AddTripHandler(c, h) PROVE ShieldInv'
  BY <1>1, <1>3 DEF AddTripHandler, dispatchVars, evalVars
<1>4. ASSUME NEW c \in Client, Start(c) PROVE ShieldInv'
  <2>1. pc[Loop] = "off"
    BY <1>4 DEF Start, MuFree, RunInv
  <2> QED BY <1>2, <1>4, <2>1 DEF Start, SpawnLoop, dispatchVars, evalVars
<1>5. ASSUME NEW c \in Client, BeginStop(c) PROVE ShieldInv'
  BY <1>2, <1>5 DEF BeginStop, dispatchVars, evalVars
<1>6. ASSUME NEW c \in Client, StopAgain(c) PROVE ShieldInv'
  BY <1>1, <1>6 DEF StopAgain, dispatchVars, evalVars
<1>7. ASSUME NEW c \in Client, EndStop(c) PROVE ShieldInv'
  BY <1>2, <1>7 DEF EndStop, dispatchVars, evalVars
<1>8. ASSUME NEW c \in Client, NEW e \in Event, SetInput(c, e) PROVE ShieldInv'
  BY <1>1, <1>8 DEF SetInput, dispatchVars, evalVars
<1>9. ASSUME NEW c \in Client, BeginBatch(c) PROVE ShieldInv'
  BY <1>2, <1>9 DEF BeginBatch, dispatchVars, evalVars
<1>10. ASSUME NEW c \in Client, NEW d \in Device, NEW dur \in Duration, SetLockout(c, d, dur)
       PROVE  ShieldInv'
  <2>1. /\ \A o \in 1..Made : lockout'[o] = lockout[o]
        /\ lockout'[Made + 1].active = TRUE
        /\ current' = [current EXCEPT ![d] = Made + 1]
    BY <1>10, SetLockoutEffect
  <2>2. Made \in Nat
    BY DEF EngineType, Made
  <2>3. Shielded \subseteq Shielded'
    BY <2>1, <2>2 DEF Shielded, EngineType
  <2> QED BY <1>10, <2>3 DEF SetLockout, ShieldInv, ShieldHolds, dispatchVars, evalVars
<1>11. ASSUME NEW d \in Device, Deactivate(d), current' = current, target' = target,
              \A t \in Thread : pc[t] = "fire" => pc'[t] = "fire"
       PROVE  ShieldInv'
  <2>1. /\ \A o \in 1..Made : lockout'[o].active = (lockout[o].active /\ o # current[d])
        /\ shield' = [t \in Thread |-> shield[t] \ {d}]
    BY <1>11, DeactivateEffect
  <2>2. ASSUME NEW b \in Shielded, b # d PROVE b \in Shielded'
    <3>1. b \in Device /\ current[b] \in 1..Made /\ lockout[current[b]].active
      BY DEF Shielded, EngineType
    <3>2. current[b] # current[d]
      BY <2>2, <3>1 DEF EngineType
    <3> QED BY <1>11, <2>1, <3>1, <3>2 DEF Shielded
  <2> QED BY <1>11, <2>1, <2>2 DEF ShieldInv, ShieldHolds
<1>12. ASSUME NEW c \in Client, NEW d \in Device, ClearLockout(c, d) PROVE ShieldInv'
  BY <1>11, <1>12 DEF ClearLockout
<1>13. ASSUME NEW t \in Thread, Evaluation(t) PROVE ShieldInv'
  <2>2. ASSUME NEW S \in SUBSET Device, Evaluate(t, S) PROVE ShieldInv'
    BY <2>2 DEF Evaluate, ShieldInv, ShieldHolds, Shielded, EngineType, Goto, lockVars
  <2>3. CASE CountEval(t) \/ UpdateMetrics(t) \/ CopyHandlers(t) \/ EndDispatch(t)
    BY <1>2, <2>3 DEF CountEval, UpdateMetrics, CopyHandlers, EndDispatch, evalVars
  <2>4. ASSUME NEW d \in Device, SkipLockedOut(t, d) PROVE ShieldInv'
    BY <1>1, <2>4 DEF SkipLockedOut
  <2>5. ASSUME NEW d \in Device, PassLockout(t, d) PROVE ShieldInv'
    <3>1. /\ target' = [target EXCEPT ![t] = {d}] /\ pc' = [pc EXCEPT ![t] = "fire"]
          /\ UNCHANGED <<current, lockout, shield>>
      BY <2>5 DEF PassLockout, Goto, lockVars
    <3>2. d \notin Shielded
      BY <2>5 DEF PassLockout, LockedOut, Shielded
    <3>3. Shielded' = Shielded
      BY <3>1 DEF Shielded
    <3> QED BY <3>1, <3>2, <3>3 DEF ShieldInv, ShieldHolds, EngineType
  <2>6. CASE Fire(t)
    BY <2>6 DEF Fire, ShieldInv, ShieldHolds, Shielded, EngineType, Goto, lockVars
  <2> QED BY <1>13, <2>2, <2>3, <2>4, <2>5, <2>6 DEF Evaluation
<1>14. CASE LoopSelects
  BY <1>2, <1>14 DEF LoopSelects, LoopReturns, LoopReceives, LoopTicks, dispatchVars, evalVars
<1>15. CASE CheckTimers
  <2>1. CASE TakeSnapshot \/ EndTimers
    BY <1>2, <2>1 DEF TakeSnapshot, EndTimers, dispatchVars, evalVars
  <2>2. ASSUME NEW o \in 1..MaxLockouts, CheckOne(o) PROVE ShieldInv'
    BY <1>1, <1>2, <2>2 DEF CheckOne, dispatchVars, evalVars
  <2>3. ASSUME NEW d \in Device, ClearExpired(d) PROVE ShieldInv'
    BY <1>11, <2>3 DEF ClearExpired, Goto, EngineType
  <2> QED BY <1>15, <2>1, <2>2, <2>3 DEF CheckTimers
<1>16. CASE Tick \/ UNCHANGED vars
  BY <1>1, <1>16 DEF Tick, vars, dispatchVars, evalVars
<1> QED
  BY <1>3, <1>4, <1>5, <1>6, <1>7, <1>8, <1>9, <1>10, <1>12, <1>13, <1>14, <1>15, <1>16
     DEF Next, Calls

LEMMA CountNext ==
  EngineType /\ RunInv /\ CountInv /\ [Next]_vars => CountInv'
<1> SUFFICES ASSUME EngineType, RunInv, CountInv, [Next]_vars PROVE CountInv'
  OBVIOUS
<1> USE ThreadFacts
<1>1. ASSUME UNCHANGED <<pc, statVars>> PROVE CountInv'
  BY <1>1 DEF CountInv, Updating, statVars
<1>2. ASSUME NEW t \in Thread, NEW l, Goto(t, l), pc[t] # "update", l # "update",
             UNCHANGED statVars
      PROVE  CountInv'
  <2>1. Updating' = Updating
    BY <1>2 DEF Updating, Goto, EngineType
  <2> QED BY <1>2, <2>1 DEF CountInv, statVars
<1>3. ASSUME NEW c \in Client, Calls(c) PROVE CountInv'
  <2>1. ASSUME NEW h \in Handler, AddTripHandler(c, h) PROVE CountInv'
    BY <1>1, <2>1 DEF AddTripHandler, dispatchVars
  <2>2. CASE Start(c)
    <3>1. pc[Loop] = "off"
      BY <2>2 DEF Start, MuFree, RunInv
    <3> QED BY <1>2, <2>2, <3>1 DEF Start, SpawnLoop, dispatchVars
  <2>3. CASE BeginStop(c) \/ EndStop(c) \/ BeginBatch(c)
    BY <1>2, <2>3 DEF BeginStop, EndStop, BeginBatch, dispatchVars
  <2>4. CASE StopAgain(c)
    BY <1>1, <2>4 DEF StopAgain, dispatchVars
  <2>5. ASSUME NEW e \in Event, SetInput(c, e) PROVE CountInv'
    BY <1>1, <2>5 DEF SetInput, dispatchVars
  <2>6. ASSUME NEW d \in Device, NEW dur \in Duration, SetLockout(c, d, dur) PROVE CountInv'
    BY <1>1, <2>6 DEF SetLockout, dispatchVars
  <2>7. ASSUME NEW d \in Device, ClearLockout(c, d) PROVE CountInv'
    BY <1>1, <2>7 DEF ClearLockout
  <2> QED BY <1>3, <2>1, <2>2, <2>3, <2>4, <2>5, <2>6, <2>7 DEF Calls
<1>4. ASSUME NEW t \in Thread, Evaluation(t) PROVE CountInv'
  <2>1. Rest(t) # "update"
    BY DEF Rest
  <2>2. ASSUME NEW S \in SUBSET Device, Evaluate(t, S) PROVE CountInv'
    BY <1>2, <2>2 DEF Evaluate
  <2>3. CASE CountEval(t)
    <3>1. t \notin Updating /\ Updating' = Updating \union {t}
      BY <2>3 DEF CountEval, Updating, Goto, EngineType
    <3>2. /\ IsFiniteSet(Updating') /\ Cardinality(Updating') = Cardinality(Updating) + 1
          /\ Updating' # {} /\ Cardinality(Updating) \in Nat
      BY <3>1, FS_AddElement, FS_CardinalityType DEF CountInv
    <3>3. evalCount' = evalCount + 1 /\ recorded' = recorded
      BY <2>3 DEF CountEval
    <3>4. evalCount' = recorded' + Cardinality(Updating')
      BY <3>2, <3>3 DEF CountInv, EngineType
    <3> QED BY <3>2, <3>4 DEF CountInv
  <2>4. CASE UpdateMetrics(t)
    <3>1. t \in Updating /\ Updating' = Updating \ {t}
      BY <2>1, <2>4 DEF UpdateMetrics, Updating, Goto, EngineType
    <3>2. /\ IsFiniteSet(Updating') /\ Cardinality(Updating') = Cardinality(Updating) - 1
          /\ Cardinality(Updating) \in Nat
      BY <3>1, FS_RemoveElement, FS_CardinalityType DEF CountInv
    <3>3. /\ recorded' = recorded + 1 /\ averagedOver' = evalCount /\ evalCount' = evalCount
      BY <2>4 DEF UpdateMetrics, AverageCount
    <3>4. Updating' = {} => Cardinality(Updating') = 0
      BY FS_EmptySet
    <3> QED BY <3>2, <3>3, <3>4 DEF CountInv, EngineType
  <2>5. CASE CopyHandlers(t) \/ Fire(t) \/ EndDispatch(t)
    BY <1>2, <2>1, <2>5 DEF CopyHandlers, Fire, EndDispatch
  <2>6. ASSUME NEW d \in Device, SkipLockedOut(t, d) PROVE CountInv'
    BY <1>1, <2>6 DEF SkipLockedOut
  <2>7. ASSUME NEW d \in Device, PassLockout(t, d) PROVE CountInv'
    BY <1>2, <2>7 DEF PassLockout
  <2> QED BY <1>4, <2>2, <2>3, <2>4, <2>5, <2>6, <2>7 DEF Evaluation
<1>5. CASE LoopSelects
  BY <1>2, <1>5 DEF LoopSelects, LoopReturns, LoopReceives, LoopTicks, dispatchVars
<1>6. CASE CheckTimers
  <2>1. CASE TakeSnapshot \/ EndTimers
    BY <1>2, <2>1 DEF TakeSnapshot, EndTimers, dispatchVars
  <2>2. ASSUME NEW o \in 1..MaxLockouts, CheckOne(o) PROVE CountInv'
    BY <1>1, <1>2, <2>2 DEF CheckOne, dispatchVars
  <2>3. ASSUME NEW d \in Device, ClearExpired(d) PROVE CountInv'
    BY <1>2, <2>3 DEF ClearExpired
  <2> QED BY <1>6, <2>1, <2>2, <2>3 DEF CheckTimers
<1>7. CASE Tick \/ UNCHANGED vars
  BY <1>1, <1>7 DEF Tick, vars, dispatchVars
<1> QED BY <1>3, <1>4, <1>5, <1>6, <1>7 DEF Next

LEMMA SignalTypeNext == EngineType /\ SignalType /\ [Next]_vars => SignalType'
<1> SUFFICES ASSUME EngineType, SignalType, [Next]_vars PROVE SignalType'
  OBVIOUS
<1>1. ASSUME UNCHANGED tripVars PROVE SignalType'
  BY <1>1 DEF SignalType, tripVars
<1>2. ASSUME NEW t \in Thread, Evaluation(t) PROVE SignalType'
  <2>1. ASSUME NEW S \in SUBSET Device, Evaluate(t, S) PROVE SignalType'
    BY <2>1 DEF Evaluate, SignalType, NoCalls, EngineType
  <2>2. CASE CountEval(t) \/ UpdateMetrics(t) \/ CopyHandlers(t)
    BY <1>1, <2>2 DEF CountEval, UpdateMetrics, CopyHandlers
  <2>3. ASSUME NEW d \in Device, SkipLockedOut(t, d) PROVE SignalType'
    BY <2>3 DEF SkipLockedOut, SignalType
  <2>4. ASSUME NEW d \in Device, PassLockout(t, d) PROVE SignalType'
    BY <1>1, <2>4 DEF PassLockout
  <2>5. CASE Fire(t)
    <3>1. target[t] \subseteq Device
      BY DEF EngineType
    <3> QED BY <2>5, <3>1 DEF Fire, SignalType
  <2>6. CASE EndDispatch(t)
    BY <2>6 DEF EndDispatch, SignalType, NoCalls
  <2> QED BY <1>2, <2>1, <2>2, <2>3, <2>4, <2>5, <2>6 DEF Evaluation
<1>3. CASE \E c \in Client : Calls(c)
  BY <1>1, <1>3 DEF Calls, AddTripHandler, Start, BeginStop, StopAgain, EndStop, SetInput,
     BeginBatch, SetLockout, ClearLockout, dispatchVars
<1>4. CASE LoopSelects \/ CheckTimers \/ Tick \/ UNCHANGED vars
  BY <1>1, <1>4 DEF LoopSelects, LoopReturns, LoopReceives, LoopTicks, CheckTimers,
     TakeSnapshot, CheckOne, ClearExpired, EndTimers, Tick, vars, dispatchVars
<1> QED BY <1>1, <1>2, <1>3, <1>4 DEF Next

LEMMA SignalNext ==
  EngineType /\ RunInv /\ ShieldInv /\ SignalInv /\ [Next]_vars => SignalInv'
<1> SUFFICES ASSUME EngineType, RunInv, ShieldInv, SignalInv, [Next]_vars PROVE SignalInv'
  OBVIOUS
<1> USE ThreadFacts
<1>0. SignalType /\ SignalType'
  BY SignalTypeNext DEF SignalInv
<1>1. ASSUME NEW s \in Thread, handlers \subseteq handlers',
             found'[s] = found[s], target'[s] = target[s], copied'[s] = copied[s],
             wanted'[s] = wanted[s], refused'[s] = refused[s], had'[s] = had[s],
             got'[s] = got[s],
             \/ pc'[s] = pc[s] \/ pc'[s] \notin Before \union During
             \/ pc[s] \in Before /\ pc'[s] \in Before
      PROVE  Signals(s)'
  <2>1. Signals(s) /\ Done(s)' = Done(s)
    BY <1>1 DEF SignalInv, Done
  <2> QED BY <1>1, <2>1 DEF Signals, Before, During
<1>2. ASSUME UNCHANGED <<pc, found, target, copied, tripVars>>, handlers \subseteq handlers'
      PROVE  SignalInv'
  BY <1>0, <1>1, <1>2 DEF SignalInv, tripVars
<1>3. ASSUME NEW t \in Thread, NEW l, Goto(t, l),
             l \notin Before \union During \/ (pc[t] \in Before /\ l \in Before),
             UNCHANGED <<handlers, found, target, copied, tripVars>>
      PROVE  SignalInv'
  BY <1>0, <1>1, <1>3 DEF SignalInv, tripVars, Goto, EngineType
<1>4. ASSUME NEW c \in Client, Calls(c) PROVE SignalInv'
  <2> USE DEF lifeVars, dispatchVars, evalVars, Before, During
  <2>1. ASSUME NEW h \in Handler, AddTripHandler(c, h) PROVE SignalInv'
    BY <1>2, <2>1 DEF AddTripHandler
  <2>2. CASE Start(c) \/ BeginStop(c) \/ EndStop(c)
    BY <1>3, <2>2 DEF Start, SpawnLoop, BeginStop, EndStop
  <2>3. CASE StopAgain(c)
    BY <1>2, <2>3 DEF StopAgain
  <2>4. ASSUME NEW e \in Event, SetInput(c, e) PROVE SignalInv'
    BY <1>2, <2>4 DEF SetInput
  <2>5. ASSUME NEW d \in Device, NEW dur \in Duration, SetLockout(c, d, dur) PROVE SignalInv'
    BY <1>2, <2>5 DEF SetLockout
  <2>6. ASSUME NEW d \in Device, ClearLockout(c, d) PROVE SignalInv'
    BY <1>2, <2>6 DEF ClearLockout
  <2>7. CASE BeginBatch(c)
    BY <1>3, <2>7 DEF BeginBatch
  <2> QED BY <1>4, <2>1, <2>2, <2>3, <2>4, <2>5, <2>6, <2>7 DEF Calls
<1>5. ASSUME NEW t \in Thread, Evaluation(t) PROVE SignalInv'
  <2> USE DEF lifeVars
  <2>1. Rest(t) \notin Before \union During
    BY DEF Rest, Before, During
  <2>2. ASSUME NEW S \in SUBSET Device, Evaluate(t, S) PROVE SignalInv'
    <3>1. ASSUME NEW s \in Thread, s # t PROVE Signals(s)'
      BY <1>0, <1>1, <2>2, <3>1 DEF Evaluate, Goto, EngineType, SignalType
    <3>2. Signals(t)'
      BY <1>0, <2>2 DEF Evaluate, Goto, EngineType, SignalType, Signals, Before, During
    <3> QED BY <1>0, <3>1, <3>2 DEF SignalInv
  <2>3. CASE CountEval(t)
    BY <1>3, <2>3 DEF CountEval, evalVars, Before
  <2>4. CASE UpdateMetrics(t)
    BY <1>3, <2>1, <2>4 DEF UpdateMetrics, evalVars, Before
  <2>5. CASE CopyHandlers(t)
    <3>1. /\ copied' = [copied EXCEPT ![t] = handlers] /\ pc' = [pc EXCEPT ![t] = "dispatch"]
          /\ pc[t] = "copy" /\ UNCHANGED <<handlers, found, target, tripVars>>
      BY <2>5 DEF CopyHandlers, HandlerCopy, Goto
    <3>2. ASSUME NEW s \in Thread, s # t PROVE Signals(s)'
      BY <1>1, <3>1, <3>2 DEF tripVars, EngineType
    <3>3. target[t] = {}
      BY <3>1 DEF ShieldInv
    <3>4. Done(t)' = {}
      BY <3>1, <3>3 DEF Done, tripVars, SignalInv, Signals, Before
    <3>5. Signals(t)'
      BY <3>1, <3>3, <3>4 DEF tripVars, EngineType, SignalInv, SignalType, Signals, Before, During, NoCalls
    <3> QED BY <1>0, <3>2, <3>5 DEF SignalInv
  <2>6. ASSUME NEW d \in Device, SkipLockedOut(t, d) PROVE SignalInv'
    <3>1. /\ d \in found[t] /\ found' = [found EXCEPT ![t] = found[t] \ {d}]
          /\ refused' = [refused EXCEPT ![t] = refused[t] \union {d}] /\ pc[t] = "dispatch"
          /\ UNCHANGED <<handlers, pc, copied, target, wanted, had, got>>
      BY <2>6 DEF SkipLockedOut, Handled
    <3>2. ASSUME NEW s \in Thread, s # t PROVE Signals(s)'
      BY <1>0, <1>1, <3>1, <3>2 DEF EngineType, SignalType
    <3>3. Done(t)' = Done(t)
      BY <1>0, <3>1 DEF Done, EngineType, SignalType
    <3>4. Signals(t)'
      BY <3>1, <3>3 DEF EngineType, SignalInv, SignalType, Signals, Before, During
    <3> QED BY <1>0, <3>2, <3>4 DEF SignalInv
  <2>7. ASSUME NEW d \in Device, PassLockout(t, d) PROVE SignalInv'
    <3>1. /\ d \in found[t] /\ found' = [found EXCEPT ![t] = found[t] \ {d}]
          /\ target' = [target EXCEPT ![t] = {d}] /\ pc' = [pc EXCEPT ![t] = "fire"]
          /\ pc[t] = "dispatch" /\ UNCHANGED <<handlers, copied, tripVars>>
      BY <2>7 DEF PassLockout, Handled, Goto
    <3>2. ASSUME NEW s \in Thread, s # t PROVE Signals(s)'
      BY <1>1, <3>1, <3>2 DEF tripVars, EngineType
    <3>3. target[t] = {}
      BY <3>1 DEF ShieldInv
    <3>4. Done(t)' = Done(t)
      BY <3>1, <3>3 DEF Done, EngineType, tripVars
    <3>5. Signals(t)'
      BY <3>1, <3>4 DEF EngineType, tripVars, SignalInv, SignalType, Signals, Before, During
    <3> QED BY <1>0, <3>2, <3>5 DEF SignalInv
  <2>8. CASE Fire(t)
    <3>1. /\ target' = [target EXCEPT ![t] = {}] /\ pc' = [pc EXCEPT ![t] = "dispatch"]
          /\ pc[t] = "fire"
          /\ got' = [got EXCEPT ![t] = [h \in Handler |->
                        got[t][h] \union IF h \in copied[t] THEN target[t] ELSE {}]]
          /\ UNCHANGED <<handlers, found, copied, wanted, refused, had>>
      BY <2>8 DEF Fire, Goto
    <3>2. ASSUME NEW s \in Thread, s # t PROVE Signals(s)'
      BY <1>0, <1>1, <3>1, <3>2 DEF EngineType, SignalType
    <3>3. Done(t)' = Done(t) \union target[t]
      <4>1. /\ found[t] \union target[t] \subseteq wanted[t]
            /\ found[t] \intersect target[t] = {}
            /\ (found[t] \union target[t]) \intersect refused[t] = {}
        BY <3>1 DEF SignalInv, Signals, During
      <4>2. Done(t)' = wanted[t] \ (found[t] \union refused[t])
        BY <3>1 DEF Done, EngineType
      <4> QED BY <4>1, <4>2 DEF Done
    <3>4. \A h \in Handler : got'[t][h] = IF h \in copied[t] THEN Done(t)' ELSE {}
      <4>1. \A h \in Handler :
              got'[t][h] = got[t][h] \union IF h \in copied[t] THEN target[t] ELSE {}
        BY <1>0, <3>1 DEF SignalType
      <4>2. \A h \in Handler : got[t][h] = IF h \in copied[t] THEN Done(t) ELSE {}
        BY <3>1 DEF SignalInv, Signals, During
      <4> QED BY <3>3, <4>1, <4>2
    <3>5. Signals(t)'
      BY <3>1, <3>4 DEF EngineType, SignalInv, SignalType, Signals, Before, During
    <3> QED BY <1>0, <3>2, <3>5 DEF SignalInv
  <2>9. CASE EndDispatch(t)
    <3>1. ASSUME NEW s \in Thread, s # t PROVE Signals(s)'
      BY <1>0, <1>1, <2>9, <3>1 DEF EndDispatch, Goto, EngineType, SignalType
    <3>2. Signals(t)'
      BY <2>1, <2>9 DEF EndDispatch, Goto, EngineType, Signals
    <3> QED BY <1>0, <3>1, <3>2 DEF SignalInv
  <2> QED BY <1>5, <2>2, <2>3, <2>4, <2>5, <2>6, <2>7, <2>8, <2>9 DEF Evaluation
<1>6. CASE LoopSelects
  BY <1>3, <1>6 DEF LoopSelects, LoopReturns, LoopReceives, LoopTicks, dispatchVars,
     lifeVars, evalVars, Before, During
<1>7. CASE CheckTimers
  <2> USE DEF lifeVars, evalVars, Before, During
  <2>1. CASE TakeSnapshot \/ EndTimers
    BY <1>3, <2>1 DEF TakeSnapshot, EndTimers, dispatchVars
  <2>2. ASSUME NEW o \in 1..MaxLockouts, CheckOne(o) PROVE SignalInv'
    BY <1>2, <1>3, <2>2 DEF CheckOne, dispatchVars
  <2>3. ASSUME NEW d \in Device, ClearExpired(d) PROVE SignalInv'
    BY <1>3, <2>3 DEF ClearExpired
  <2> QED BY <1>7, <2>1, <2>2, <2>3 DEF CheckTimers
<1>8. CASE Tick \/ UNCHANGED vars
  BY <1>2, <1>8 DEF Tick, vars, dispatchVars, lifeVars, evalVars
<1> QED BY <1>4, <1>5, <1>6, <1>7, <1>8 DEF Next

LEMMA TimerNext ==
  EngineType /\ RunInv /\ TimerInv /\ [Next]_vars => TimerInv'
<1> SUFFICES ASSUME EngineType, RunInv, TimerInv, [Next]_vars PROVE TimerInv'
  OBVIOUS
<1> USE ThreadFacts
<1>1. ASSUME UNCHANGED <<lockVars, timerVars>>,
             pc'[Loop] = pc[Loop] \/ pc'[Loop] \notin {"expire", "clear"}
      PROVE  TimerInv'
  BY <1>1 DEF TimerInv, Over, lockVars, timerVars
<1>2. ASSUME NEW t \in Thread, NEW l, Goto(t, l), l \notin {"expire", "clear"},
             UNCHANGED <<lockVars, timerVars>>
      PROVE  TimerInv'
  BY <1>1, <1>2 DEF Goto, EngineType
<1>3. ASSUME NEW d \in Device, Deactivate(d), current' = current,
             \/ (pc'[Loop] = pc[Loop] /\ UNCHANGED expired)
             \/ (pc'[Loop] # "clear" /\ pc[Loop] \in {"expire", "clear"}),
             UNCHANGED <<snapshot, checkTime, snapped>>
      PROVE  TimerInv'
  <2>1. \A o \in 1..Made : /\ lockout'[o].device = lockout[o].device
                           /\ lockout'[o].startTime = lockout[o].startTime
                           /\ lockout'[o].duration = lockout[o].duration
    BY <1>3, DeactivateEffect
  <2>2. snapped \in 0..Made /\ Made \in Nat /\ \A b \in Device : current[b] \in 0..Made
    BY DEF EngineType, Made
  <2>3. pc'[Loop] \in {"expire", "clear"} =>
          \A o \in snapshot' :
            /\ o \in 1..snapped'
            /\ current'[lockout'[o].device] = o \/ current'[lockout'[o].device] > snapped'
    BY <1>3, <2>1, <2>2 DEF TimerInv
  <2>4. pc'[Loop] = "clear" =>
          \A b \in expired' : /\ b \in Device /\ current'[b] # 0
                              /\ Over(current[b])' \/ current'[b] > snapped'
    <3> SUFFICES ASSUME pc'[Loop] = "clear", NEW b \in expired'
                 PROVE  /\ b \in Device /\ current'[b] # 0
                        /\ Over(current[b])' \/ current'[b] > snapped'
      OBVIOUS
    <3>1. /\ b \in Device /\ current[b] # 0
          /\ Over(current[b]) \/ current[b] > snapped
      BY <1>3 DEF TimerInv
    <3>2. current[b] \in 1..Made
      BY <2>2, <3>1
    <3>3. Over(current[b])' = Over(current[b])
      BY <1>3, <2>1, <3>2 DEF Over
    <3> QED BY <1>3, <3>1, <3>3
  <2> QED BY <2>3, <2>4 DEF TimerInv
<1>4. ASSUME NEW c \in Client, Calls(c) PROVE TimerInv'
  <2>1. ASSUME NEW h \in Handler, AddTripHandler(c, h) PROVE TimerInv'
    BY <1>1, <2>1 DEF AddTripHandler
  <2>2. CASE Start(c) \/ BeginStop(c) \/ EndStop(c) \/ BeginBatch(c)
    BY <1>2, <2>2 DEF Start, SpawnLoop, BeginStop, EndStop, BeginBatch
  <2>3. CASE StopAgain(c)
    BY <1>1, <2>3 DEF StopAgain
  <2>4. ASSUME NEW e \in Event, SetInput(c, e) PROVE TimerInv'
    BY <1>1, <2>4 DEF SetInput
  <2>5. ASSUME NEW d \in Device, NEW dur \in Duration, SetLockout(c, d, dur) PROVE TimerInv'
    <3>1. /\ \A o \in 1..Made : lockout'[o] = lockout[o]
          /\ current' = [current EXCEPT ![d] = Made + 1]
      BY <2>5, SetLockoutEffect
    <3>2. snapped \in 0..Made /\ Made \in Nat /\ \A b \in Device : current[b] \in 0..Made
      BY DEF EngineType, Made
    <3>3. UNCHANGED <<pc, snapshot, checkTime, expired, snapped>>
      BY <2>5 DEF SetLockout, timerVars
    <3>4. \A b \in Device : current'[b] = current[b] \/ current'[b] > snapped
      BY <3>1, <3>2 DEF EngineType
    <3>5. pc[Loop] \in {"expire", "clear"} => \A o \in snapshot : lockout[o].device \in Device
      <4>1. pc[Loop] \in {"expire", "clear"} => \A o \in snapshot : o \in 1..Made
        BY <3>2 DEF TimerInv
      <4> QED BY <4>1, LockoutFields
    <3>6. pc'[Loop] \in {"expire", "clear"} =>
            \A o \in snapshot' :
              /\ o \in 1..snapped'
              /\ current'[lockout'[o].device] = o \/ current'[lockout'[o].device] > snapped'
      BY <3>1, <3>2, <3>3, <3>4, <3>5 DEF TimerInv
    <3>7. pc'[Loop] = "clear" =>
            \A b \in expired' : /\ b \in Device /\ current'[b] # 0
                                /\ Over(current[b])' \/ current'[b] > snapped'
      <4> SUFFICES ASSUME pc'[Loop] = "clear", NEW b \in expired'
                   PROVE  /\ b \in Device /\ current'[b] # 0
                          /\ Over(current[b])' \/ current'[b] > snapped'
        OBVIOUS
      <4>1. /\ b \in Device /\ current[b] # 0
            /\ Over(current[b]) \/ current[b] > snapped
        BY <3>3 DEF TimerInv
      <4>2. CASE current'[b] > snapped
        BY <3>2, <3>3, <4>1, <4>2
      <4>3. CASE current'[b] = current[b]
        <5>1. current[b] \in 1..Made
          BY <3>2, <4>1
        <5> QED BY <3>1, <3>3, <4>1, <4>3, <5>1 DEF Over
      <4> QED BY <3>4, <4>1, <4>2, <4>3
    <3> QED BY <3>6, <3>7 DEF TimerInv
  <2>6. ASSUME NEW d \in Device, ClearLockout(c, d) PROVE TimerInv'
    <3>1. Deactivate(d) /\ current' = current /\ pc' = pc
      BY <2>6 DEF ClearLockout
    <3>2. UNCHANGED <<snapshot, checkTime, snapped, expired>>
      BY <2>6 DEF ClearLockout, timerVars
    <3> QED BY <1>3, <3>1, <3>2
  <2> QED BY <1>4, <2>1, <2>2, <2>3, <2>4, <2>5, <2>6 DEF Calls
<1>5. ASSUME NEW t \in Thread, Evaluation(t) PROVE TimerInv'
  <2>1. Rest(t) \notin {"expire", "clear"}
    BY DEF Rest
  <2>2. ASSUME NEW S \in SUBSET Device, Evaluate(t, S) PROVE TimerInv'
    BY <1>2, <2>2 DEF Evaluate
  <2>3. CASE CountEval(t) \/ CopyHandlers(t) \/ Fire(t) \/ EndDispatch(t)
    BY <1>2, <2>1, <2>3 DEF CountEval, CopyHandlers, Fire, EndDispatch
  <2>4. CASE UpdateMetrics(t)
    BY <1>2, <2>1, <2>4 DEF UpdateMetrics
  <2>5. ASSUME NEW d \in Device, SkipLockedOut(t, d) PROVE TimerInv'
    BY <1>1, <2>5 DEF SkipLockedOut
  <2>6. ASSUME NEW d \in Device, PassLockout(t, d) PROVE TimerInv'
    BY <1>2, <2>6 DEF PassLockout
  <2> QED BY <1>5, <2>2, <2>3, <2>4, <2>5, <2>6 DEF Evaluation
<1>6. CASE LoopReturns \/ LoopReceives
  BY <1>2, <1>6 DEF LoopReturns, LoopReceives
<1>7. CASE LoopTicks
  BY <1>7 DEF LoopTicks, Goto, TimerInv, EngineType
<1>8. CASE TakeSnapshot
  <2>1. /\ snapshot' = {current[d] : d \in Device} \ {0} /\ snapped' = Made
        /\ UNCHANGED <<lockout, current>> /\ pc'[Loop] = "expire"
    BY <1>8 DEF TakeSnapshot, Goto, EngineType, lockVars
  <2>2. \A o \in snapshot' : o \in 1..Made /\ current[lockout[o].device] = o
    BY <2>1 DEF EngineType, Made
  <2> QED BY <2>1, <2>2 DEF TimerInv
<1>9. ASSUME NEW o \in 1..MaxLockouts, CheckOne(o) PROVE TimerInv'
  <2>1. /\ pc[Loop] = "expire" /\ o \in snapshot /\ snapshot' = snapshot \ {o}
        /\ UNCHANGED <<lockout, current, checkTime, snapped>>
    BY <1>9 DEF CheckOne, lockVars
  <2>2. CASE lockout[o].active /\ TermOver(o)
    <3>1. expired' = {lockout[o].device} /\ pc' = [pc EXCEPT ![Loop] = "clear"]
      BY <1>9, <2>2 DEF CheckOne, Goto
    <3>2. /\ o \in 1..Made /\ o # 0 /\ snapped \in Nat
          /\ current[lockout[o].device] = o \/ current[lockout[o].device] > snapped
      BY <2>1 DEF TimerInv, EngineType, Made
    <3>3. lockout[o].device \in Device
      BY <3>2, LockoutFields
    <3>4. Over(o)
      BY <2>2 DEF Over, TermOver
    <3>5. current[lockout[o].device] # 0
      BY <3>2
    <3> QED BY <2>1, <3>1, <3>2, <3>3, <3>4, <3>5 DEF TimerInv, Over
  <2>3. CASE ~(lockout[o].active /\ TermOver(o))
    <3>1. UNCHANGED <<expired, pc>>
      BY <1>9, <2>3 DEF CheckOne
    <3> QED BY <2>1, <3>1 DEF TimerInv, Over
  <2> QED BY <2>2, <2>3
<1>10. ASSUME NEW d \in Device, ClearExpired(d) PROVE TimerInv'
  BY <1>3, <1>10 DEF ClearExpired, Goto, EngineType
<1>11. CASE EndTimers
  BY <1>2, <1>11 DEF EndTimers
<1>12. CASE Tick \/ UNCHANGED vars
  BY <1>1, <1>12 DEF Tick, vars
<1> QED
  BY <1>4, <1>5, <1>6, <1>7, <1>8, <1>9, <1>10, <1>11, <1>12
     DEF Next, LoopSelects, CheckTimers
-----------------------------------------------------------------------------
THEOREM EngineInvariant == Spec => []EngineInv
<1>1. EngineInv /\ [Next]_vars => EngineInv'
  BY TypeNext, RunNext, ShieldNext, CountNext, SignalNext, TimerNext DEF EngineInv
<1> QED BY EngineInit, <1>1, PTL DEF Spec

(* A device locked out ever since an evaluation is not tripped by it       *)
(* (engine.go:250-255).                                                    *)
THEOREM LockoutsHold == Spec => []ShieldHolds
<1>1. EngineInv => ShieldHolds
  BY DEF EngineInv, ShieldInv
<1> QED BY EngineInvariant, <1>1, PTL

(* The average is over the evaluations recorded (engine.go:223-242).       *)
THEOREM AverageIsExact == Spec => []AverageExact
<1>1. EngineInv => AverageExact
  <2> SUFFICES ASSUME EngineInv, \A t \in Thread : pc[t] # "update"
               PROVE  averagedOver = recorded /\ recorded = evalCount
    BY DEF AverageExact
  <2>1. Updating = {}
    BY DEF Updating
  <2> QED BY <2>1, FS_EmptySet DEF EngineInv, EngineType, CountInv
<1> QED BY EngineInvariant, <1>1, PTL

(* A dispatch calls handlers for the devices its evaluation found that are *)
(* not locked out, and for no other, each of them every handler that was   *)
(* registered when the evaluation was made (engine.go:244-263).            *)
THEOREM EveryTripReachesHandlers == Spec => []EveryTripSignalled
<1>1. EngineInv => EveryTripSignalled
  BY DEF EngineInv, SignalInv, Signals, During, EveryTripSignalled
<1> QED BY EngineInvariant, <1>1, PTL

(* The loop ends a lockout early only if it is later than its snapshot     *)
(* (engine.go:151-166).                                                    *)
THEOREM LockoutsKeepTheirTerm == Spec => NoEarlyExpiry
<1> DEFINE A == \A o \in 1..Made : ClearedByLoop(o) =>
                  \/ now - lockout[o].startTime >= lockout[o].duration
                  \/ o > snapped
<1>1. EngineInv /\ [Next]_vars => [A]_vars
  <2> SUFFICES ASSUME EngineInv, Next, NEW o \in 1..Made, ClearedByLoop(o)
               PROVE  \/ now - lockout[o].startTime >= lockout[o].duration
                      \/ o > snapped
    OBVIOUS
  <2>1. pc[Loop] = "clear" /\ pc'[Loop] = "expire"
    BY DEF ClearedByLoop
  <2>2. PICK d \in Device : ClearExpired(d)
    <3>1. pc \in [Thread -> PC]
      BY DEF EngineInv, EngineType
    <3>2. ASSUME NEW c \in Client, Calls(c) PROVE FALSE
      BY <2>1, <3>1, <3>2, ThreadFacts DEF Calls, AddTripHandler, Start, SpawnLoop, BeginStop,
         StopAgain, EndStop, SetInput, BeginBatch, SetLockout, ClearLockout, Goto
    <3>3. ASSUME NEW t \in Thread, Evaluation(t) PROVE FALSE
      <4>1. Rest(t) # "expire"
        BY DEF Rest
      <4>2. pc' = pc \/ \E l : l # "expire" /\ pc' = [pc EXCEPT ![t] = l]
        <5>1. CASE UpdateMetrics(t)
          BY <4>1, <5>1 DEF UpdateMetrics, Goto
        <5>2. CASE EndDispatch(t)
          BY <4>1, <5>2 DEF EndDispatch, Goto
        <5>3. CASE CountEval(t) \/ CopyHandlers(t) \/ Fire(t)
          BY <5>3 DEF CountEval, CopyHandlers, Fire, Goto
        <5> QED BY <3>3, <5>1, <5>2, <5>3 DEF Evaluation, Evaluate, SkipLockedOut, PassLockout, Goto
      <4> QED BY <2>1, <3>1, <4>2, ThreadFacts
    <3> QED
      BY <2>1, <3>2, <3>3 DEF Next, LoopSelects, LoopReturns, LoopReceives, LoopTicks,
         CheckTimers, TakeSnapshot, CheckOne, EndTimers, Tick
  <2>3. o = current[d]
    <3>1. lockout'[o].active = (lockout[o].active /\ o # current[d])
      BY <2>2, DeactivateEffect DEF ClearExpired, EngineInv
    <3> QED BY <3>1 DEF ClearedByLoop
  <2>4. Over(o) \/ o > snapped
    BY <2>1, <2>2, <2>3 DEF EngineInv, TimerInv, ClearExpired
  <2>5. /\ now \in Nat /\ checkTime \in 0..now
        /\ lockout[o].startTime \in Nat /\ lockout[o].duration \in Nat
    BY LockoutFields DEF EngineInv, EngineType
  <2> QED BY <2>4, <2>5 DEF Over
<1> QED BY EngineInvariant, <1>1, PTL DEF Spec, NoEarlyExpiry
=============================================================================
