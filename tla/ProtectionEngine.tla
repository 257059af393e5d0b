-------------------------- MODULE ProtectionEngine ---------------------------
(***************************************************************************)
(* pkg/logic/engine.go: the event loop, the goroutines that call the       *)
(* engine (Client), and what they share.                                   *)
(*                                                                         *)
(* Lock.  e.mu is held across steps by Stop alone, which waits for the     *)
(* loop while holding it (`stopper`); every other critical section touches *)
(* nothing a blocked goroutine could change and is one step, enabled while *)
(* no Stop holds the lock (MuFree).                                        *)
(*                                                                         *)
(* Graph.  LogicGraph models what an evaluation computes; here one finds   *)
(* an arbitrary set of devices to trip.  An event names a node the graph   *)
(* has as an input ("known") or not ("unknown": SetInput of the graph      *)
(* fails and nothing is evaluated).  Calls that fail without changing the  *)
(* engine (full event buffer, already running, batch with an unknown node  *)
(* or before the topology is built) are not actions.                       *)
(***************************************************************************)
EXTENDS Integers, Sequences, FiniteSets

CONSTANTS Client,       \* goroutines that call the engine
          Loop,         \* the goroutine Start spawns
          NoClient,     \* no Stop under way
          Device,       \* breakers
          Handler,      \* trip handlers
          Duration,     \* lockout durations used
          EventBufferSize,
          MaxTime,      \* bounds: clock,
          MaxEvents,    \*   events accepted,
          MaxBatches,   \*   SetInputsBatch calls,
          MaxLockouts   \*   SetLockout calls

ASSUME EngineAssumption ==
  /\ Loop \notin Client
  /\ NoClient \notin Client
  /\ Duration \subseteq Nat
  /\ EventBufferSize \in Nat
  /\ MaxTime \in Nat /\ MaxEvents \in Nat /\ MaxBatches \in Nat
  /\ MaxLockouts \in Nat

VARIABLES
  running,      \* e.running
  built,        \* the graph has a topology
  stopClosed,   \* e.stopChan is closed
  stopper,      \* the client inside Stop, which holds e.mu
  panicked,     \* close of a closed channel
  eventChan,    \* e.eventChan
  handlers,     \* e.tripHandlers
  current,      \* e.lockoutStates: per device its latest lockout, or 0
  lockout,      \* the LockoutState objects, in order of creation
  now,          \* time.Now()
  pc,           \* where each goroutine is
  found,        \* per goroutine: devices of the trip signals not yet handled
  copied,       \* dispatchTrips: the copy of the handlers
  target,       \* dispatchTrips: the device that passed the lockout check
  snapshot,     \* checkTimers: lockouts not yet looked at
  checkTime,    \* checkTimers: its `now`
  expired,      \* checkTimers: device whose lockout is being cleared
  evalCount, tripCount,
  recorded,     \* evaluations added to totalEvalTime
  averagedOver, \* the count the last avgEvalTime was divided by
  accepted, applied, batches,   \* calls so far
  wanted,       \* auxiliary: per goroutine, devices its evaluation found,
  refused,      \*   those of them that were locked out,
  had,          \*   handlers registered before that evaluation,
  got,          \*   per handler, devices it was called for
  shield,       \* auxiliary: devices locked out ever since the evaluation
  snapped       \* auxiliary: lockouts that existed at the last snapshot

lifeVars  == <<running, built, stopClosed, stopper, panicked, handlers>>
callVars  == <<eventChan, accepted, applied, batches>>
lockVars  == <<current, lockout>>
evalVars  == <<found, copied, target, shield>>
timerVars == <<snapshot, checkTime, expired, snapped>>
statVars  == <<evalCount, recorded, averagedOver>>
tripVars  == <<tripCount, wanted, refused, had, got>>
dispatchVars == <<evalVars, statVars, tripVars>>
vars == <<lifeVars, callVars, lockVars, now, pc, dispatchVars, timerVars>>

Thread == Client \union {Loop}
PC     == {"off", "select", "timers", "expire", "clear", "idle", "wait",
           "evaluate", "count", "update", "copy", "dispatch", "fire"}
Event  == {"known", "unknown"}
Made   == Len(lockout)
MuFree == stopper = NoClient /\ ~panicked

(* isLockedOut looks at Active alone: it takes the loop to end a lockout. *)
NeverLockedOut(d) == FALSE
LockedOut(d)      == current[d] # 0 /\ lockout[current[d]].active
Shielded          == {d \in Device : current[d] # 0 /\ lockout[current[d]].active}

NoCalls == [h \in Handler |-> {}]

Init ==
  /\ running = FALSE /\ built = FALSE /\ stopClosed = FALSE
  /\ stopper = NoClient /\ panicked = FALSE
  /\ eventChan = <<>>
  /\ handlers = {}
  /\ current = [d \in Device |-> 0] /\ lockout = <<>>
  /\ now = 0
  /\ pc = [t \in Thread |-> IF t = Loop THEN "off" ELSE "idle"]
  /\ found = [t \in Thread |-> {}]
  /\ copied = [t \in Thread |-> {}]
  /\ target = [t \in Thread |-> {}]
  /\ snapshot = {} /\ checkTime = 0 /\ expired = {} /\ snapped = 0
  /\ evalCount = 0 /\ recorded = 0 /\ averagedOver = 0
  /\ tripCount = 0
  /\ wanted = [t \in Thread |-> {}] /\ refused = [t \in Thread |-> {}]
  /\ had = [t \in Thread |-> {}] /\ got = [t \in Thread |-> NoCalls]
  /\ accepted = 0 /\ applied = 0 /\ batches = 0
  /\ shield = [t \in Thread |-> {}]

Goto(t, l) == pc' = [pc EXCEPT ![t] = l]

(* Beside some of the helpers below stands a slip a programmer could make  *)
(* in their place; no action uses it.                                      *)
-----------------------------------------------------------------------------
(* Configuration and life cycle. *)
AddTripHandler(c, h) ==
  /\ pc[c] = "idle" /\ MuFree
  /\ h \notin handlers
  /\ handlers' = handlers \union {h}
  /\ UNCHANGED <<running, built, stopClosed, stopper, panicked, callVars,
                 lockVars, now, pc, dispatchVars, timerVars>>

SpawnLoop == Goto(Loop, "select")

(* stopChan is made once, by NewProtectionEngine: a second Start finds it  *)
(* closed.                                                                 *)
Start(c) ==
  /\ pc[c] = "idle" /\ MuFree
  /\ ~running
  /\ running' = TRUE
  /\ built' = TRUE
  /\ SpawnLoop
  /\ UNCHANGED <<stopClosed, stopper, panicked, handlers, callVars,
                 lockVars, now, dispatchVars, timerVars>>

BeginStop(c) ==
  /\ pc[c] = "idle" /\ MuFree
  /\ running
  /\ ~stopClosed
  /\ stopClosed' = TRUE
  /\ running' = FALSE
  /\ stopper' = c
  /\ Goto(c, "wait")
  /\ UNCHANGED <<built, panicked, handlers, callVars, lockVars, now,
                 dispatchVars, timerVars>>

(* close(e.stopChan) of a closed channel ends the program. *)
StopAgain(c) ==
  /\ pc[c] = "idle" /\ MuFree
  /\ running
  /\ stopClosed
  /\ panicked' = TRUE
  /\ UNCHANGED <<running, built, stopClosed, stopper, handlers,
                 callVars, lockVars, now, pc, dispatchVars, timerVars>>

(* e.wg.Wait() *)
EndStop(c) ==
  /\ pc[c] = "wait"
  /\ pc[Loop] = "off"
  /\ stopper' = NoClient
  /\ Goto(c, "idle")
  /\ UNCHANGED <<running, built, stopClosed, panicked, handlers,
                 callVars, lockVars, now, dispatchVars, timerVars>>
-----------------------------------------------------------------------------
(* Events: a client's SetInput and the select of the loop. *)
BufferFree == Len(eventChan) < EventBufferSize

SetInput(c, e) ==
  /\ pc[c] = "idle" /\ ~panicked
  /\ accepted < MaxEvents
  /\ BufferFree
  /\ eventChan' = Append(eventChan, e)
  /\ accepted' = accepted + 1
  /\ UNCHANGED <<lifeVars, applied, batches, lockVars, now, pc, dispatchVars,
                 timerVars>>

LoopReturns ==
  /\ pc[Loop] = "select" /\ ~panicked
  /\ stopClosed
  /\ Goto(Loop, "off")
  /\ UNCHANGED <<lifeVars, callVars, lockVars, now, dispatchVars, timerVars>>

LoopReceives ==
  /\ pc[Loop] = "select" /\ ~panicked
  /\ eventChan # <<>>
  /\ eventChan' = Tail(eventChan)
  /\ applied' = applied + 1
  /\ Goto(Loop, IF Head(eventChan) = "known" THEN "evaluate" ELSE "select")
  /\ UNCHANGED <<lifeVars, accepted, batches, lockVars, now, dispatchVars,
                 timerVars>>

LoopTicks ==
  /\ pc[Loop] = "select" /\ ~panicked
  /\ checkTime' = now
  /\ Goto(Loop, "timers")
  /\ UNCHANGED <<lifeVars, callVars, lockVars, now, dispatchVars, snapshot,
                 expired, snapped>>

BeginBatch(c) ==
  /\ pc[c] = "idle" /\ ~panicked
  /\ built
  /\ batches < MaxBatches
  /\ batches' = batches + 1
  /\ Goto(c, "evaluate")
  /\ UNCHANGED <<lifeVars, eventChan, accepted, applied, lockVars, now,
                 dispatchVars, timerVars>>
-----------------------------------------------------------------------------
(* One evaluation and the dispatch of its trips, in the loop or in a       *)
(* client's SetInputsBatch.                                                *)
LoopDone(t) == IF t = Loop THEN "off" ELSE "idle"
Rest(t)     == IF t = Loop THEN "select" ELSE "idle"

Evaluate(t, S) ==
  /\ pc[t] = "evaluate" /\ ~panicked
  /\ found' = [found EXCEPT ![t] = S]
  /\ shield' = [shield EXCEPT ![t] = Shielded]
  /\ wanted' = [wanted EXCEPT ![t] = S] /\ refused' = [refused EXCEPT ![t] = {}]
  /\ had' = [had EXCEPT ![t] = handlers] /\ got' = [got EXCEPT ![t] = NoCalls]
  /\ Goto(t, "count")
  /\ UNCHANGED <<lifeVars, callVars, lockVars, now, copied, target, statVars,
                 tripCount, timerVars>>

CountEval(t) ==
  /\ pc[t] = "count" /\ ~panicked
  /\ evalCount' = evalCount + 1
  /\ Goto(t, "update")
  /\ UNCHANGED <<lifeVars, callVars, lockVars, now, evalVars, recorded,
                 averagedOver, tripVars, timerVars>>

(* The count is loaded again under the lock: other evaluations may have    *)
(* been counted that are not in totalEvalTime yet.                         *)
CountBeforeLock == recorded
AverageCount    == evalCount

UpdateMetrics(t) ==
  /\ pc[t] = "update" /\ MuFree
  /\ recorded' = recorded + 1
  /\ averagedOver' = AverageCount
  /\ Goto(t, IF found[t] = {} THEN Rest(t) ELSE "copy")
  /\ UNCHANGED <<lifeVars, callVars, lockVars, now, evalVars, evalCount,
                 tripVars, timerVars>>

CopyNothing  == {}
HandlerCopy  == handlers

CopyHandlers(t) ==
  /\ pc[t] = "copy" /\ MuFree
  /\ copied' = [copied EXCEPT ![t] = HandlerCopy]
  /\ Goto(t, "dispatch")
  /\ UNCHANGED <<lifeVars, callVars, lockVars, now, found, target, shield,
                 statVars, tripVars, timerVars>>

StillToDo(t, d) == found[t]
Handled(t, d)   == found[t] \ {d}

SkipLockedOut(t, d) ==
  /\ pc[t] = "dispatch" /\ MuFree
  /\ d \in found[t]
  /\ LockedOut(d)
  /\ found' = [found EXCEPT ![t] = Handled(t, d)]
  /\ refused' = [refused EXCEPT ![t] = refused[t] \union {d}]
  /\ UNCHANGED <<lifeVars, callVars, lockVars, now, pc, copied, target,
                 shield, statVars, tripCount, wanted, had, got, timerVars>>

PassLockout(t, d) ==
  /\ pc[t] = "dispatch" /\ MuFree
  /\ d \in found[t]
  /\ ~LockedOut(d)
  /\ found' = [found EXCEPT ![t] = Handled(t, d)]
  /\ target' = [target EXCEPT ![t] = {d}]
  /\ Goto(t, "fire")
  /\ UNCHANGED <<lifeVars, callVars, lockVars, now, copied, shield, statVars,
                 tripVars, timerVars>>

(* One goroutine per handler; nothing looks at the lockout any more. *)
Fire(t) ==
  /\ pc[t] = "fire" /\ ~panicked
  /\ tripCount' = tripCount + 1
  /\ got' = [got EXCEPT ![t] = [h \in Handler |->
                 got[t][h] \union IF h \in copied[t] THEN target[t] ELSE {}]]
  /\ target' = [target EXCEPT ![t] = {}]
  /\ Goto(t, "dispatch")
  /\ UNCHANGED <<lifeVars, callVars, lockVars, now, found, copied, shield,
                 statVars, wanted, refused, had, timerVars>>

EndDispatch(t) ==
  /\ pc[t] = "dispatch" /\ ~panicked
  /\ found[t] = {}
  /\ copied' = [copied EXCEPT ![t] = {}]
  /\ wanted' = [wanted EXCEPT ![t] = {}] /\ refused' = [refused EXCEPT ![t] = {}]
  /\ had' = [had EXCEPT ![t] = {}] /\ got' = [got EXCEPT ![t] = NoCalls]
  /\ Goto(t, Rest(t))
  /\ UNCHANGED <<lifeVars, callVars, lockVars, now, found, target, shield,
                 statVars, tripCount, timerVars>>

Evaluation(t) ==
  \/ \E S \in SUBSET Device : Evaluate(t, S)
  \/ CountEval(t) \/ UpdateMetrics(t) \/ CopyHandlers(t)
  \/ \E d \in Device : SkipLockedOut(t, d) \/ PassLockout(t, d)
  \/ Fire(t) \/ EndDispatch(t)
-----------------------------------------------------------------------------
(* Lockouts. *)
SetLockout(c, d, dur) ==
  /\ pc[c] = "idle" /\ MuFree
  /\ Made < MaxLockouts
  /\ now + dur <= MaxTime
  /\ lockout' = Append(lockout, [device |-> d, active |-> TRUE,
                                 startTime |-> now, duration |-> dur])
  /\ current' = [current EXCEPT ![d] = Made + 1]
  /\ UNCHANGED <<lifeVars, callVars, now, pc, dispatchVars, timerVars>>

(* ClearLockout(d) without its lock, for the client and for checkTimers. *)
DeactivateCopy(d) == UNCHANGED <<lockout, shield>>
Deactivate(d) ==
  /\ lockout' = IF current[d] = 0 THEN lockout
                ELSE [lockout EXCEPT ![current[d]].active = FALSE]
  /\ shield' = [t \in Thread |-> shield[t] \ {d}]

ClearLockout(c, d) ==
  /\ pc[c] = "idle" /\ MuFree
  /\ LockedOut(d)
  /\ Deactivate(d)
  /\ UNCHANGED <<lifeVars, callVars, current, now, pc, found, copied, target,
                 statVars, tripVars, timerVars>>

(* checkTimers copies the pointers under the lock ... *)
TakeSnapshot ==
  /\ pc[Loop] = "timers" /\ MuFree
  /\ snapshot' = {current[d] : d \in Device} \ {0}
  /\ snapped' = Made
  /\ Goto(Loop, "expire")
  /\ UNCHANGED <<lifeVars, callVars, lockVars, now, dispatchVars, checkTime,
                 expired>>

AlmostOver(o) == checkTime - lockout[o].startTime + 1 >= lockout[o].duration
TermOver(o)   == checkTime - lockout[o].startTime >= lockout[o].duration

(* ... looks at each object without the lock ... *)
CheckOne(o) ==
  /\ pc[Loop] = "expire" /\ ~panicked
  /\ o \in snapshot
  /\ snapshot' = snapshot \ {o}
  /\ IF lockout[o].active /\ TermOver(o)
     THEN expired' = {lockout[o].device} /\ Goto(Loop, "clear")
     ELSE UNCHANGED <<expired, pc>>
  /\ UNCHANGED <<lifeVars, callVars, lockVars, now, dispatchVars, checkTime,
                 snapped>>

(* ... and clears by name whatever lockout the device has by then. *)
ClearExpired(d) ==
  /\ pc[Loop] = "clear" /\ MuFree
  /\ d \in expired
  /\ Deactivate(d)
  /\ expired' = {}
  /\ Goto(Loop, "expire")
  /\ UNCHANGED <<lifeVars, callVars, current, now, found, copied, target,
                 statVars, tripVars, snapshot, checkTime, snapped>>

EndTimers ==
  /\ pc[Loop] = "expire" /\ ~panicked
  /\ snapshot = {}
  /\ Goto(Loop, "select")
  /\ UNCHANGED <<lifeVars, callVars, lockVars, now, dispatchVars, timerVars>>

Tick ==
  /\ now < MaxTime /\ ~panicked
  /\ now' = now + 1
  /\ UNCHANGED <<lifeVars, callVars, lockVars, pc, dispatchVars, timerVars>>
-----------------------------------------------------------------------------
LoopSelects == LoopReturns \/ LoopReceives \/ LoopTicks
CheckTimers == \/ TakeSnapshot
               \/ \E o \in 1..MaxLockouts : CheckOne(o)
               \/ \E d \in Device : ClearExpired(d)
               \/ EndTimers

Calls(c) ==
  \/ \E h \in Handler : AddTripHandler(c, h)
  \/ Start(c) \/ BeginStop(c) \/ StopAgain(c) \/ EndStop(c)
  \/ \E e \in Event : SetInput(c, e)
  \/ BeginBatch(c)
  \/ \E d \in Device, dur \in Duration : SetLockout(c, d, dur)
  \/ \E d \in Device : ClearLockout(c, d)

Next == \/ \E c \in Client : Calls(c)
        \/ \E t \in Thread : Evaluation(t)
        \/ LoopSelects
        \/ CheckTimers
        \/ Tick

Spec == Init /\ [][Next]_vars

(* Goroutines run, time passes, and Go's select picks at random among the  *)
(* ready cases, so a case that is ready again and again is picked.         *)
Fairness ==
  /\ WF_vars(Tick)
  /\ \A t \in Thread : WF_vars(Evaluation(t))
  /\ WF_vars(CheckTimers)
  /\ SF_vars(LoopReturns) /\ SF_vars(LoopReceives) /\ SF_vars(LoopTicks)
  /\ \A c \in Client : WF_vars(EndStop(c))

FairSpec == Spec /\ Fairness
-----------------------------------------------------------------------------
Lockout == [device : Device, active : BOOLEAN, startTime : 0..MaxTime,
            duration : Duration]

TypeOK ==
  /\ running \in BOOLEAN /\ built \in BOOLEAN /\ stopClosed \in BOOLEAN
  /\ stopper \in Client \union {NoClient} /\ panicked \in BOOLEAN
  /\ eventChan \in Seq(Event) /\ Len(eventChan) <= EventBufferSize
  /\ handlers \subseteq Handler
  /\ lockout \in Seq(Lockout)
  /\ current \in [Device -> 0..Made]
  /\ now \in 0..MaxTime
  /\ pc \in [Thread -> PC]
  /\ found \in [Thread -> SUBSET Device]
  /\ copied \in [Thread -> SUBSET Handler]
  /\ target \in [Thread -> SUBSET Device]
  /\ snapshot \subseteq 1..Made /\ snapped \in 0..Made
  /\ checkTime \in 0..MaxTime
  /\ expired \subseteq Device
  /\ evalCount \in Nat /\ recorded \in Nat /\ averagedOver \in Nat
  /\ tripCount \in Nat
  /\ wanted \in [Thread -> SUBSET Device] /\ refused \in [Thread -> SUBSET Device]
  /\ had \in [Thread -> SUBSET Handler]
  /\ got \in [Thread -> [Handler -> SUBSET Device]]
  /\ accepted \in Nat /\ applied \in Nat /\ batches \in Nat
  /\ shield \in [Thread -> SUBSET Device]

(* A device that has been locked out ever since the evaluation that wants  *)
(* to trip it is not tripped by that evaluation, although handlers are     *)
(* called later and elsewhere (engine.go:250-255).                         *)
ShieldHolds == \A t \in Thread : target[t] \intersect shield[t] = {}

(* The loop ends a lockout before its term only if that lockout was set    *)
(* after the loop took its snapshot: a lockout the snapshot holds, and one *)
(* whose device had none before, keep their term (engine.go:151-166).      *)
ClearedByLoop(o) == /\ lockout[o].active /\ ~lockout'[o].active
                    /\ pc[Loop] = "clear" /\ pc'[Loop] = "expire"
NoEarlyExpiry ==
  [][\A o \in 1..Made :
       ClearedByLoop(o) =>
         \/ now - lockout[o].startTime >= lockout[o].duration
         \/ o > snapped]_vars

(* While nobody is between counting an evaluation and recording it, the    *)
(* average is over exactly the evaluations recorded (engine.go:223-242).   *)
AverageExact ==
  (\A t \in Thread : pc[t] # "update") =>
    averagedOver = recorded /\ recorded = evalCount

(* A dispatch calls handlers for no other devices than those that its own  *)
(* evaluation found and that were neither locked out nor are still to come, *)
(* and for all of these every handler that was registered when the         *)
(* evaluation was made, whoever is registered, locked out or evaluated     *)
(* meanwhile (engine.go:244-263).                                          *)
Done(t) == wanted[t] \ (found[t] \union target[t] \union refused[t])
EveryTripSignalled ==
  \A t \in Thread : pc[t] \in {"dispatch", "fire"} =>
    \A h \in Handler : /\ got[t][h] \subseteq Done(t)
                       /\ h \in had[t] => got[t][h] = Done(t)

(* An event that SetInput accepted is applied, unless Stop is called.      *)
EventServed ==
  \A k \in 1..MaxEvents : running /\ accepted >= k ~> applied >= k \/ stopClosed

(* A lockout ends: at the latest some time after its term, as long as the  *)
(* engine runs; nothing else looks at the clock (engine.go:287-295).       *)
LockoutEnds ==
  \A o \in 1..MaxLockouts :
    (running /\ o <= Made) ~>
      \/ o <= Made /\ ~lockout[o].active
      \/ o \notin {current[d] : d \in Device}
      \/ stopClosed

(* An evaluation and its dispatch come to an end, unless a Stop is waiting *)
(* (it holds the lock) or the program has panicked.                        *)
DispatchEnds ==
  \A t \in Thread : pc[t] = "evaluate" ~>
    pc[t] \in {"idle", "select"} \/ stopClosed
=============================================================================
