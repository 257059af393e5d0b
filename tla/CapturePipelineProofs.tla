------------------------ MODULE CapturePipelineProofs -------------------------
(***************************************************************************)
(* The accounting of the high performance capture, the order of its frames *)
(* and the causes of its crashes, for every size of buffer, batch and      *)
(* channel and any number of frames, starts and clients.                   *)
(***************************************************************************)
EXTENDS CapturePipeline, SequenceTheorems, TLAPS

PipeType ==
  /\ queue \in Seq(Nat) /\ delivered \in Seq(Nat)
  /\ batch \in Seq(Nat) /\ channel \in Seq(Nat) /\ out \in Seq(Nat)
  /\ received \in Nat /\ filtered \in Nat /\ lost \in Nat /\ queued \in Nat
  /\ passed \in Nat /\ frame \in Nat /\ starts \in Nat /\ dropped \in Nat
  /\ capture \in {"off", "begin", "loop", "next", "filter", "queued", "full"}
  /\ dispatch \in {"off", "select", "fill", "send"}
  /\ dispatch = "send" => batch # <<>>

(* The life cycle as far as the loops depend on it: they run only between  *)
(* a Start and the end of a Stop, and without a Stop the handle is open.   *)
LifeInv ==
  /\ stopper # NoClient => ~running
  /\ running => handle = "open" /\ starts >= 1
  /\ stopClosed => starts >= 1
  /\ running /\ stopClosed => starts >= 2
  /\ stopper = NoClient /\ ~running => capture = "off" /\ dispatch = "off"

PipeInv == PipeType /\ LifeInv /\ EveryFrameCounted /\ QueuedWaitsOrWasTaken /\ CrashCauses

LEMMA PipeInit == Init => PipeInv
BY DEF Init, FifoInit, PipeInv, PipeType, LifeInv, EveryFrameCounted, InCapture,
       QueuedWaitsOrWasTaken, CrashCauses

LEMMA TypeNext == PipeType /\ [Next]_vars => PipeType'
<1> SUFFICES ASSUME PipeType, [Next]_vars PROVE PipeType'
  OBVIOUS
<1> USE DEF PipeType, lifeVars, fifoVars, loopVars, sendVars, chanVars, statVars,
            CaptureAt, DispatchAt
<1>1. ASSUME NEW c \in Client, Start(c) PROVE PipeType'
  BY <1>1 DEF Start
<1>2. ASSUME NEW c \in Client, BeginStop(c) PROVE PipeType'
  BY <1>2 DEF BeginStop
<1>3. CASE CloseHandle \/ EndStop
  BY <1>3 DEF CloseHandle, EndStop
<1>4. CASE CaptureLoop
  <2>1. CASE BeginCapture
    BY <2>1 DEF BeginCapture
  <2>2. CASE CheckStop
    BY <2>2 DEF CheckStop
  <2>3. CASE NextFails
    BY <2>3 DEF NextFails
  <2>4. CASE Receive
    BY <2>4 DEF Receive
  <2>5. CASE Filter
    BY <2>5 DEF Filter
  <2>6. CASE EnqueueFrame
    BY <2>6 DEF EnqueueFrame, Put
  <2>7. CASE CountQueued
    BY <2>7 DEF CountQueued, CountOfQueued
  <2>8. CASE FindFull
    BY <2>8 DEF FindFull, TurnAway
  <2>9. CASE CountLost
    BY <2>9 DEF CountLost, CountOfLost
  <2> QED BY <1>4, <2>1, <2>2, <2>3, <2>4, <2>5, <2>6, <2>7, <2>8, <2>9 DEF CaptureLoop
<1>5. CASE DispatchReturns
  BY <1>5 DEF DispatchReturns
<1>6. CASE TickerFires
  BY <1>6 DEF TickerFires
<1>7. CASE BatchFilled
  BY <1>7 DEF BatchFilled
<1>8. CASE FillBatch
  <2>1. Head(queue) \in Nat /\ Tail(queue) \in Seq(Nat)
    BY <1>8 DEF FillBatch, Get
  <2> QED BY <1>8, <2>1 DEF FillBatch, Get
<1>9. CASE SendFrame \/ DropFrame
  <2>0. batch # <<>>
    BY <1>9 DEF SendFrame, DropFrame
  <2>1. Head(batch) \in Nat /\ Tail(batch) \in Seq(Nat)
    BY <2>0
  <2>2. dispatch' \in {"select", "send"} /\ (dispatch' = "send" => batch' # <<>>)
    BY <1>9 DEF SendFrame, DropFrame, AfterSend
  <2>3. CASE SendFrame
    BY <2>1, <2>2, <2>3 DEF SendFrame, NextOf
  <2>4. CASE DropFrame
    BY <2>1, <2>2, <2>4 DEF DropFrame
  <2> QED BY <1>9, <2>3, <2>4
<1>10. CASE Read
  <2>1. Head(channel) \in Nat /\ Tail(channel) \in Seq(Nat)
    BY <1>10 DEF Read
  <2> QED BY <1>10, <2>1 DEF Read
<1>11. CASE UNCHANGED vars
  BY <1>11 DEF vars
<1> QED
  BY <1>1, <1>2, <1>3, <1>4, <1>5, <1>6, <1>7, <1>8, <1>9, <1>10, <1>11
     DEF Next, DispatchLoop

(* A batch is taken by a loop that will offer it before it is at its       *)
(* select again.                                                           *)
LEMMA BatchNext ==
  PipeInv /\ [Next]_vars => (dispatch' \in {"off", "select"} => batch' = <<>>)
<1> SUFFICES ASSUME PipeInv, [Next]_vars, dispatch' \in {"off", "select"}
             PROVE  batch' = <<>>
  OBVIOUS
<1>0. dispatch \in {"off", "select"} => batch = <<>>
  BY DEF PipeInv, EveryFrameCounted
<1>1. CASE \E c \in Client : Start(c)
  BY <1>0, <1>1 DEF Start, PipeInv, LifeInv
<1>2. CASE UNCHANGED sendVars
  BY <1>0, <1>2 DEF sendVars
<1>3. CASE DispatchReturns \/ TickerFires \/ FillBatch \/ BatchFilled
  BY <1>0, <1>3 DEF DispatchReturns, TickerFires, FillBatch, BatchFilled, DispatchAt
<1>4. CASE SendFrame \/ DropFrame
  BY <1>4 DEF SendFrame, DropFrame, DispatchAt, AfterSend
<1> QED
  BY <1>1, <1>2, <1>3, <1>4 DEF Next, BeginStop, CloseHandle, EndStop, CaptureLoop,
     BeginCapture, CheckStop, NextFails, Receive, Filter, EnqueueFrame, CountQueued,
     FindFull, CountLost, DispatchLoop, Read, vars, sendVars

LEMMA LifeNext == PipeInv /\ [Next]_vars => LifeInv' /\ CrashCauses'
<1> SUFFICES ASSUME PipeInv, [Next]_vars PROVE LifeInv' /\ CrashCauses'
  OBVIOUS
<1>0. starts \in Nat /\ LifeInv /\ CrashCauses
  BY DEF PipeInv, PipeType
<1> USE <1>0 DEF LifeInv, CrashCauses, Alive
<1>1. ASSUME NEW c \in Client, Start(c) \/ BeginStop(c) PROVE LifeInv' /\ CrashCauses'
  <2>1. CASE Start(c)
    BY <2>1 DEF Start, StoredHandle
  <2>2. CASE BeginStop(c)
    BY <2>2, PipelineAssumption DEF BeginStop, loopVars, sendVars
  <2> QED BY <1>1, <2>1, <2>2
<1>2. CASE CloseHandle \/ EndStop
  <2>1. CASE CloseHandle
    BY <2>1 DEF CloseHandle, loopVars, sendVars
  <2>2. CASE EndStop
    BY <2>2 DEF EndStop, LoopsDone, loopVars, sendVars
  <2> QED BY <1>2, <2>1, <2>2
<1>3. CASE CaptureLoop
  <2>1. capture # "off" /\ Alive
    BY <1>3 DEF CaptureLoop, CaptureAt, BeginCapture, CheckStop, NextFails, Receive,
       Filter, EnqueueFrame, CountQueued, FindFull, CountLost
  <2>2. CASE BeginCapture
    BY <2>1, <2>2 DEF BeginCapture, CaptureAt, sendVars
  <2>3. CASE UNCHANGED lifeVars
    BY <2>1, <2>3 DEF lifeVars
  <2> QED
    BY <1>3, <2>2, <2>3 DEF CaptureLoop, CheckStop, NextFails, Receive, Filter,
       EnqueueFrame, CountQueued, FindFull, CountLost
<1>4. CASE DispatchLoop \/ Read \/ UNCHANGED vars
  <2>1. UNCHANGED <<running, stopClosed, handle, stopper, crash, starts, capture>>
    BY <1>4 DEF DispatchLoop, DispatchReturns, TickerFires, FillBatch, BatchFilled,
       SendFrame, DropFrame, Read, vars, lifeVars, loopVars
  <2>2. dispatch = "off" => dispatch' = "off"
    BY <1>4 DEF DispatchLoop, DispatchReturns, TickerFires, FillBatch, BatchFilled,
       SendFrame, DropFrame, DispatchAt, Read, vars, sendVars
  <2> QED BY <2>1, <2>2
<1> QED BY <1>1, <1>2, <1>3, <1>4 DEF Next

FramesSum ==
  received = filtered + lost + passed + Len(queue) + Len(batch) + InCapture

LEMMA CountsNext ==
  PipeInv /\ [Next]_vars => FramesSum' /\ QueuedWaitsOrWasTaken'
<1> SUFFICES ASSUME PipeInv, [Next]_vars
             PROVE  FramesSum' /\ QueuedWaitsOrWasTaken'
  OBVIOUS
<1>0. /\ PipeType /\ FramesSum /\ QueuedWaitsOrWasTaken
      /\ Len(queue) \in Nat /\ Len(batch) \in Nat /\ Len(delivered) \in Nat
  BY DEF PipeInv, PipeType, EveryFrameCounted, FramesSum
<1> USE <1>0 DEF FramesSum, QueuedWaitsOrWasTaken, InCapture, CaptureAt, DispatchAt,
                 fifoVars, loopVars, sendVars, chanVars, statVars
<1> DEFINE Counts == FramesSum' /\ QueuedWaitsOrWasTaken'
<1>1. ASSUME NEW c \in Client, Start(c) PROVE Counts
  <2>1. capture = "off"
    BY <1>1 DEF Start, PipeInv, LifeInv
  <2> QED BY <1>1, <2>1 DEF Start
<1>2. ASSUME UNCHANGED <<queue, delivered, batch, received, filtered, lost, queued, passed>>,
             capture' = capture \/ {capture, capture'} \subseteq {"off", "begin", "loop", "next"}
      PROVE  Counts
  BY <1>2
<1>3. CASE (\E c \in Client : BeginStop(c)) \/ CloseHandle \/ EndStop \/ DispatchReturns
           \/ TickerFires \/ BatchFilled \/ Read \/ UNCHANGED vars
  BY <1>2, <1>3 DEF BeginStop, CloseHandle, EndStop, DispatchReturns, TickerFires,
     BatchFilled, Read, vars
<1>4. CASE BeginCapture \/ CheckStop \/ NextFails
  BY <1>2, <1>4 DEF BeginCapture, CheckStop, NextFails
<1>5. CASE Receive
  BY <1>5 DEF Receive, PipeType
<1>6. CASE Filter
  BY <1>6 DEF Filter, PipeType
<1>7. CASE EnqueueFrame
  <2>1. Len(queue') = Len(queue) + 1
    BY <1>7 DEF EnqueueFrame, Put, PipeType
  <2> QED BY <1>7, <2>1 DEF EnqueueFrame, Put, PipeType
<1>8. CASE CountQueued
  BY <1>8 DEF CountQueued, CountOfQueued, PipeType
<1>9. CASE FindFull
  BY <1>9 DEF FindFull, TurnAway
<1>10. CASE CountLost
  BY <1>10 DEF CountLost, CountOfLost, PipeType
<1>11. CASE FillBatch
  <2>1. Head(queue) \in Nat /\ Len(queue') = Len(queue) - 1
    BY <1>11 DEF FillBatch, Get, PipeType
  <2>2. Len(batch') = Len(batch) + 1 /\ Len(delivered') = Len(delivered) + 1
    BY <1>11, <2>1 DEF FillBatch, Get, PipeType
  <2>3. UNCHANGED <<received, filtered, lost, passed, queued, capture>>
    BY <1>11 DEF FillBatch
  <2>4. /\ received \in Nat /\ filtered \in Nat /\ lost \in Nat /\ passed \in Nat
        /\ queued \in Nat
    BY DEF PipeType
  <2>5. FramesSum'
    BY <2>1, <2>2, <2>3, <2>4
  <2>6. QueuedWaitsOrWasTaken'
    BY <2>1, <2>2, <2>3, <2>4
  <2> QED BY <2>5, <2>6
<1>12. CASE SendFrame \/ DropFrame
  <2>1. batch # <<>> /\ batch' = Tail(batch)
    BY <1>12 DEF SendFrame, DropFrame, PipeType
  <2>2. Len(batch') = Len(batch) - 1
    BY <2>1 DEF PipeType
  <2>3. CASE SendFrame
    BY <2>2, <2>3 DEF SendFrame, PipeType
  <2>4. CASE DropFrame
    BY <2>2, <2>4 DEF DropFrame, PipeType
  <2> QED BY <1>12, <2>3, <2>4
<1> QED
  BY <1>1, <1>3, <1>4, <1>5, <1>6, <1>7, <1>8, <1>9, <1>10, <1>11, <1>12
     DEF Next, CaptureLoop, DispatchLoop

LEMMA PipeInvariant == Spec => []PipeInv
<1>1. PipeInv /\ [Next]_vars => EveryFrameCounted'
  BY BatchNext, CountsNext DEF EveryFrameCounted, FramesSum
<1>2. PipeInv /\ [Next]_vars => PipeInv'
  BY <1>1, TypeNext, LifeNext, CountsNext DEF PipeInv
<1> QED BY PipeInit, <1>2, PTL DEF Spec

(* Every frame received is filtered, lost, passed on or on its way, and    *)
(* the dispatch loop leaves no batch behind                                *)
(* (high_perf_capture.go:231-245, 306-317).                                *)
THEOREM FramesAddUp == Spec => []EveryFrameCounted
<1>1. PipeInv => EveryFrameCounted
  BY DEF PipeInv
<1> QED BY PipeInvariant, <1>1, PTL

(* The count of queued frames agrees with the ring buffer                  *)
(* (high_perf_capture.go:240-245, 301).                                    *)
THEOREM QueuedAddUp == Spec => []QueuedWaitsOrWasTaken
<1>1. PipeInv => QueuedWaitsOrWasTaken
  BY DEF PipeInv
<1> QED BY PipeInvariant, <1>1, PTL

(* Nothing but an early Stop or a restart ends the program                 *)
(* (high_perf_capture.go:207, 334-339).                                    *)
THEOREM CrashesHaveCauses == Spec => []CrashCauses
<1>1. PipeInv => CrashCauses
  BY DEF PipeInv
<1> QED BY PipeInvariant, <1>1, PTL
-----------------------------------------------------------------------------
(* The order of frames.  Each queue is in order, and all of a queue is      *)
(* older than all of the queues behind it.                                 *)

Sorted(s)   == \A i, j \in DOMAIN s : i < j => s[i] < s[j]
Older(s, t) == \A i \in DOMAIN s, j \in DOMAIN t : s[i] < t[j]
UpTo(s, n)  == \A i \in DOMAIN s : s[i] <= n
Below(s, n) == \A i \in DOMAIN s : s[i] < n

OrderInv ==
  /\ Sorted(out) /\ Sorted(channel) /\ Sorted(batch) /\ Sorted(queue)
  /\ Older(out, channel) /\ Older(out, batch) /\ Older(out, queue)
  /\ Older(channel, batch) /\ Older(channel, queue) /\ Older(batch, queue)
  /\ UpTo(out, received) /\ UpTo(channel, received)
  /\ UpTo(batch, received) /\ UpTo(queue, received)
  /\ capture = "filter" =>
       /\ frame = received
       /\ Below(out, frame) /\ Below(channel, frame)
       /\ Below(batch, frame) /\ Below(queue, frame)

LEMMA InTail ==
  ASSUME NEW q \in Seq(Nat), q # <<>>
  PROVE  /\ Tail(q) \in Seq(Nat) /\ Head(q) = q[1] /\ 1 \in DOMAIN q
         /\ \A i \in DOMAIN Tail(q) : i + 1 \in DOMAIN q /\ Tail(q)[i] = q[i + 1]
         /\ \A i, j \in DOMAIN Tail(q) : i \in Nat /\ j \in Nat
OBVIOUS

LEMMA InAppend ==
  ASSUME NEW p \in Seq(Nat), NEW x \in Nat, NEW i \in DOMAIN Append(p, x)
  PROVE  \/ i \in DOMAIN p /\ Append(p, x)[i] = p[i]
         \/ i = Len(p) + 1 /\ Append(p, x)[i] = x
OBVIOUS

(* A newer item at the end of a queue.                                     *)
LEMMA AppendKeepsOrder ==
  ASSUME NEW p \in Seq(Nat), NEW x \in Nat, Sorted(p), Below(p, x)
  PROVE  Sorted(Append(p, x))
<1> SUFFICES ASSUME NEW i \in DOMAIN Append(p, x), NEW j \in DOMAIN Append(p, x), i < j
             PROVE  Append(p, x)[i] < Append(p, x)[j]
  BY DEF Sorted
<1>1. i \in DOMAIN p /\ Append(p, x)[i] = p[i]
  <2>1. i # Len(p) + 1
    OBVIOUS
  <2> QED BY <2>1, InAppend
<1>2. CASE j \in DOMAIN p /\ Append(p, x)[j] = p[j]
  BY <1>1, <1>2 DEF Sorted
<1>3. CASE j = Len(p) + 1 /\ Append(p, x)[j] = x
  BY <1>1, <1>3 DEF Below
<1> QED BY <1>2, <1>3, InAppend

LEMMA AppendKeepsOlder ==
  ASSUME NEW p \in Seq(Nat), NEW x \in Nat, NEW o \in Seq(Nat)
  PROVE  /\ Older(o, p) /\ Below(o, x) => Older(o, Append(p, x))
         /\ Older(p, o) /\ (\A j \in DOMAIN o : x < o[j]) => Older(Append(p, x), o)
BY InAppend DEF Older, Below

LEMMA AppendKeepsBound ==
  ASSUME NEW p \in Seq(Nat), NEW x \in Nat, NEW n \in Nat
  PROVE  /\ UpTo(p, n) /\ x <= n => UpTo(Append(p, x), n)
         /\ Below(p, n) /\ x < n => Below(Append(p, x), n)
BY InAppend DEF UpTo, Below

(* Without its head a queue keeps its order, the head before the rest.     *)
LEMMA TailKeepsOrder ==
  ASSUME NEW q \in Seq(Nat), q # <<>>, Sorted(q)
  PROVE  Sorted(Tail(q)) /\ \A j \in DOMAIN Tail(q) : Head(q) < Tail(q)[j]
<1>1. ASSUME NEW i \in DOMAIN Tail(q), NEW j \in DOMAIN Tail(q), i < j
      PROVE  Tail(q)[i] < Tail(q)[j]
  BY <1>1, InTail DEF Sorted
<1>2. ASSUME NEW j \in DOMAIN Tail(q)
      PROVE  Head(q) < Tail(q)[j]
  <2>1. 1 < j + 1
    BY <1>2
  <2> QED BY <2>1, InTail DEF Sorted
<1> QED BY <1>1, <1>2 DEF Sorted

LEMMA TailKeepsOlder ==
  ASSUME NEW q \in Seq(Nat), q # <<>>, NEW o \in Seq(Nat)
  PROVE  /\ Older(o, q) => Older(o, Tail(q)) /\ Below(o, Head(q))
         /\ Older(q, o) => Older(Tail(q), o) /\ \A j \in DOMAIN o : Head(q) < o[j]
BY InTail DEF Older, Below

LEMMA TailKeepsBound ==
  ASSUME NEW q \in Seq(Nat), q # <<>>, NEW n \in Nat
  PROVE  /\ UpTo(q, n) => UpTo(Tail(q), n) /\ Head(q) <= n
         /\ Below(q, n) => Below(Tail(q), n) /\ Head(q) < n
BY InTail DEF UpTo, Below

(* The head of a queue moved to the end of the one before it.              *)
LEMMA MoveKeepsOrder ==
  ASSUME NEW p \in Seq(Nat), NEW q \in Seq(Nat), q # <<>>,
         Sorted(p), Sorted(q), Older(p, q)
  PROVE  /\ Sorted(Append(p, Head(q))) /\ Sorted(Tail(q))
         /\ Older(Append(p, Head(q)), Tail(q))
<1>1. Head(q) \in Nat /\ Tail(q) \in Seq(Nat)
  OBVIOUS
<1>2. Below(p, Head(q)) /\ Older(p, Tail(q))
  BY TailKeepsOlder
<1>3. Sorted(Tail(q)) /\ \A j \in DOMAIN Tail(q) : Head(q) < Tail(q)[j]
  BY TailKeepsOrder
<1> QED BY <1>1, <1>2, <1>3, AppendKeepsOrder, AppendKeepsOlder

LEMMA MoveKeepsOlder ==
  ASSUME NEW p \in Seq(Nat), NEW q \in Seq(Nat), q # <<>>, NEW o \in Seq(Nat)
  PROVE  /\ Older(o, p) /\ Older(o, q) =>
              Older(o, Append(p, Head(q))) /\ Older(o, Tail(q))
         /\ Older(p, o) /\ Older(q, o) =>
              Older(Append(p, Head(q)), o) /\ Older(Tail(q), o)
<1>1. Head(q) \in Nat
  OBVIOUS
<1> QED BY <1>1, TailKeepsOlder, AppendKeepsOlder

LEMMA MoveKeepsBound ==
  ASSUME NEW p \in Seq(Nat), NEW q \in Seq(Nat), q # <<>>, NEW n \in Nat
  PROVE  /\ UpTo(p, n) /\ UpTo(q, n) =>
              UpTo(Append(p, Head(q)), n) /\ UpTo(Tail(q), n)
         /\ Below(p, n) /\ Below(q, n) =>
              Below(Append(p, Head(q)), n) /\ Below(Tail(q), n)
<1>1. Head(q) \in Nat
  OBVIOUS
<1> QED BY <1>1, TailKeepsBound, AppendKeepsBound

LEMMA OrderNext == PipeType /\ OrderInv /\ [Next]_vars => OrderInv'
<1> SUFFICES ASSUME PipeType, OrderInv, [Next]_vars PROVE OrderInv'
  OBVIOUS
<1>0. /\ queue \in Seq(Nat) /\ batch \in Seq(Nat) /\ channel \in Seq(Nat) /\ out \in Seq(Nat)
      /\ received \in Nat /\ frame \in Nat
  BY DEF PipeType
<1>2. ASSUME UNCHANGED <<out, channel, batch, queue, received, frame>>,
             capture' = "filter" => capture = "filter"
      PROVE  OrderInv'
  BY <1>2 DEF OrderInv
<1>3. CASE Receive
  <2>1. /\ UNCHANGED <<out, channel, batch, queue>>
        /\ received' = received + 1 /\ frame' = received + 1
    BY <1>3 DEF Receive, fifoVars, sendVars, chanVars
  <2>2. ASSUME NEW s \in Seq(Nat), UpTo(s, received)
        PROVE  UpTo(s, received + 1) /\ Below(s, received + 1)
    BY <1>0, <2>2 DEF UpTo, Below
  <2> QED BY <1>0, <2>1, <2>2 DEF OrderInv
<1>4. CASE EnqueueFrame
  <2>1. /\ queue' = Append(queue, frame) /\ UNCHANGED <<out, channel, batch, received, frame>>
        /\ capture = "filter" /\ capture' = "queued"
    BY <1>4 DEF EnqueueFrame, CaptureAt, Put, sendVars, chanVars, statVars
  <2>2. frame = received
    BY <2>1 DEF OrderInv
  <2>3. Sorted(queue')
    BY <1>0, <2>1, AppendKeepsOrder DEF OrderInv
  <2>4. Older(out, queue') /\ Older(channel, queue') /\ Older(batch, queue')
    BY <1>0, <2>1, AppendKeepsOlder DEF OrderInv
  <2>5. UpTo(queue', received)
    BY <1>0, <2>1, <2>2, AppendKeepsBound DEF OrderInv
  <2> QED BY <2>1, <2>3, <2>4, <2>5 DEF OrderInv
<1>5. CASE FillBatch
  <2>1. /\ queue # <<>> /\ batch' = Append(batch, Head(queue)) /\ queue' = Tail(queue)
        /\ UNCHANGED <<out, channel, received, frame, capture>>
    BY <1>5 DEF FillBatch, Get, chanVars, statVars, loopVars
  <2>2. Sorted(batch') /\ Sorted(queue') /\ Older(batch', queue')
    BY <1>0, <2>1, MoveKeepsOrder DEF OrderInv
  <2>3. /\ Older(out, batch') /\ Older(out, queue')
        /\ Older(channel, batch') /\ Older(channel, queue')
    BY <1>0, <2>1, MoveKeepsOlder DEF OrderInv
  <2>4. UpTo(batch', received) /\ UpTo(queue', received)
    BY <1>0, <2>1, MoveKeepsBound DEF OrderInv
  <2>5. capture = "filter" => Below(batch', frame) /\ Below(queue', frame)
    BY <1>0, <2>1, MoveKeepsBound DEF OrderInv
  <2> QED BY <2>1, <2>2, <2>3, <2>4, <2>5 DEF OrderInv
<1>6. CASE SendFrame
  <2>1. /\ batch # <<>> /\ channel' = Append(channel, Head(batch)) /\ batch' = Tail(batch)
        /\ UNCHANGED <<out, queue, received, frame, capture>>
    BY <1>6 DEF SendFrame, DispatchAt, NextOf, PipeType, fifoVars, loopVars
  <2>2. Sorted(channel') /\ Sorted(batch') /\ Older(channel', batch')
    BY <1>0, <2>1, MoveKeepsOrder DEF OrderInv
  <2>3. /\ Older(out, channel') /\ Older(out, batch')
        /\ Older(channel', queue) /\ Older(batch', queue)
    BY <1>0, <2>1, MoveKeepsOlder DEF OrderInv
  <2>4. UpTo(channel', received) /\ UpTo(batch', received)
    BY <1>0, <2>1, MoveKeepsBound DEF OrderInv
  <2>5. capture = "filter" => Below(channel', frame) /\ Below(batch', frame)
    BY <1>0, <2>1, MoveKeepsBound DEF OrderInv
  <2> QED BY <2>1, <2>2, <2>3, <2>4, <2>5 DEF OrderInv
<1>7. CASE Read
  <2>1. /\ channel # <<>> /\ out' = Append(out, Head(channel)) /\ channel' = Tail(channel)
        /\ UNCHANGED <<batch, queue, received, frame, capture>>
    BY <1>7 DEF Read, fifoVars, loopVars, sendVars, statVars
  <2>2. Sorted(out') /\ Sorted(channel') /\ Older(out', channel')
    BY <1>0, <2>1, MoveKeepsOrder DEF OrderInv
  <2>3. /\ Older(out', batch) /\ Older(channel', batch)
        /\ Older(out', queue) /\ Older(channel', queue)
    BY <1>0, <2>1, MoveKeepsOlder DEF OrderInv
  <2>4. UpTo(out', received) /\ UpTo(channel', received)
    BY <1>0, <2>1, MoveKeepsBound DEF OrderInv
  <2>5. capture = "filter" => Below(out', frame) /\ Below(channel', frame)
    BY <1>0, <2>1, MoveKeepsBound DEF OrderInv
  <2> QED BY <2>1, <2>2, <2>3, <2>4, <2>5 DEF OrderInv
<1>8. CASE DropFrame
  <2>1. /\ batch # <<>> /\ batch' = Tail(batch)
        /\ UNCHANGED <<out, channel, queue, received, frame, capture>>
    BY <1>8 DEF DropFrame, DispatchAt, PipeType, fifoVars, chanVars, loopVars
  <2>2. /\ Sorted(batch') /\ Older(batch', queue)
        /\ Older(out, batch') /\ Older(channel, batch')
    BY <1>0, <2>1, TailKeepsOrder, TailKeepsOlder DEF OrderInv
  <2>3. UpTo(batch', received) /\ (capture = "filter" => Below(batch', frame))
    BY <1>0, <2>1, TailKeepsBound DEF OrderInv
  <2> QED BY <2>1, <2>2, <2>3 DEF OrderInv
<1>9. CASE \/ \E c \in Client : Start(c) \/ BeginStop(c)
           \/ CloseHandle \/ EndStop \/ UNCHANGED vars
  BY <1>2, <1>9 DEF Start, BeginStop, CloseHandle, EndStop, vars, fifoVars, loopVars,
     sendVars, chanVars, statVars
<1>10. CASE \/ BeginCapture \/ CheckStop \/ NextFails \/ Filter \/ CountQueued
            \/ FindFull \/ CountLost
  <2>1. UNCHANGED <<out, channel, batch, queue, received, frame>>
    BY <1>10 DEF BeginCapture, CheckStop, NextFails, Filter, CountQueued, FindFull,
       CountLost, TurnAway, fifoVars, sendVars, chanVars, statVars
  <2>2. capture' # "filter"
    BY <1>10 DEF BeginCapture, CheckStop, NextFails, Filter, CountQueued, FindFull,
       CountLost, CaptureAt
  <2> QED BY <1>2, <2>1, <2>2
<1>11. CASE DispatchReturns \/ TickerFires \/ BatchFilled
  BY <1>2, <1>11 DEF DispatchReturns, TickerFires, BatchFilled, fifoVars, loopVars,
     chanVars, statVars
<1> QED
  BY <1>3, <1>4, <1>5, <1>6, <1>7, <1>8, <1>9, <1>10, <1>11
     DEF Next, CaptureLoop, DispatchLoop

(* Queues in order, one after the other, are one sequence in order.        *)
LEMMA InConcat ==
  ASSUME NEW p \in Seq(Nat), NEW q \in Seq(Nat)
  PROVE  /\ p \o q \in Seq(Nat)
         /\ DOMAIN (p \o q) = 1..(Len(p) + Len(q))
         /\ \A i \in 1..Len(p) : (p \o q)[i] = p[i]
         /\ \A i \in Len(p) + 1..Len(p) + Len(q) : (p \o q)[i] = q[i - Len(p)]
OBVIOUS

LEMMA ConcatInOrder ==
  ASSUME NEW p \in Seq(Nat), NEW q \in Seq(Nat), Sorted(p), Sorted(q), Older(p, q)
  PROVE  Sorted(p \o q)
<1> SUFFICES ASSUME NEW i \in DOMAIN (p \o q), NEW j \in DOMAIN (p \o q), i < j
             PROVE  (p \o q)[i] < (p \o q)[j]
  BY DEF Sorted
<1>0. i \in 1..(Len(p) + Len(q)) /\ j \in 1..(Len(p) + Len(q))
  BY InConcat
<1>1. CASE j <= Len(p)
  BY <1>0, <1>1, InConcat DEF Sorted
<1>2. CASE i <= Len(p) /\ j > Len(p)
  BY <1>0, <1>2, InConcat DEF Older
<1>3. CASE i > Len(p)
  BY <1>0, <1>3, InConcat DEF Sorted
<1> QED BY <1>0, <1>1, <1>2, <1>3

LEMMA ConcatOlder ==
  ASSUME NEW p \in Seq(Nat), NEW q \in Seq(Nat), NEW t \in Seq(Nat),
         Older(p, t), Older(q, t)
  PROVE  Older(p \o q, t)
<1> SUFFICES ASSUME NEW i \in DOMAIN (p \o q), NEW j \in DOMAIN t
             PROVE  (p \o q)[i] < t[j]
  BY DEF Older
<1>0. i \in 1..(Len(p) + Len(q))
  BY InConcat
<1>1. CASE i <= Len(p)
  BY <1>0, <1>1, InConcat DEF Older
<1>2. CASE i > Len(p)
  BY <1>0, <1>2, InConcat DEF Older
<1> QED BY <1>0, <1>1, <1>2

LEMMA OrderInvGivesOrder == PipeType /\ OrderInv => InOrder
<1> SUFFICES ASSUME PipeType, OrderInv PROVE InOrder
  OBVIOUS
<1>0. queue \in Seq(Nat) /\ batch \in Seq(Nat) /\ channel \in Seq(Nat) /\ out \in Seq(Nat)
  BY DEF PipeType
<1> DEFINE two == out \o channel
           three == two \o batch
           four == three \o queue
<1>1. two \in Seq(Nat) /\ Sorted(two) /\ Older(two, batch) /\ Older(two, queue)
  BY <1>0, InConcat, ConcatInOrder, ConcatOlder DEF OrderInv
<1> HIDE DEF two
<1>2. three \in Seq(Nat) /\ Sorted(three) /\ Older(three, queue)
  BY <1>0, <1>1, InConcat, ConcatInOrder, ConcatOlder DEF OrderInv
<1> HIDE DEF three
<1>3. Sorted(four)
  BY <1>0, <1>2, ConcatInOrder DEF OrderInv
<1> QED BY <1>3 DEF InOrder, Sorted, four, three, two

(* The reader gets the frames in the order they arrived, each once         *)
(* (high_perf_capture.go:301-312).                                         *)
THEOREM ReadInOrder == Spec => []InOrder
<1>1. Init => OrderInv
  BY DEF Init, FifoInit, OrderInv, Sorted, Older, UpTo
<1>2. PipeInv /\ OrderInv /\ [Next]_vars => OrderInv'
  BY OrderNext DEF PipeInv
<1>3. PipeInv /\ OrderInv => InOrder
  BY OrderInvGivesOrder DEF PipeInv
<1> QED BY PipeInvariant, <1>1, <1>2, <1>3, PTL DEF Spec
=============================================================================
