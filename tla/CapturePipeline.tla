--------------------------- MODULE CapturePipeline ---------------------------
(***************************************************************************)
(* HighPerfGOOSECapture (internal/capture/high_perf_capture.go): Start and *)
(* Stop, the capture loop, the dispatch loop and the reader of the packet  *)
(* channel.                                                                *)
(*                                                                         *)
(* The ring buffer between the loops is a BoundedFifo, which RingBuffer    *)
(* implements for one producer and one consumer; what was taken out of it  *)
(* and not yet offered to the channel is the dispatch loop's batch.  The   *)
(* filter's answer is arbitrary (MacFilter says what it may be).  Both     *)
(* loops keep their counters atomically; a step ends with each.            *)
(*                                                                         *)
(* c.mu.  Start is one step.  Stop holds the lock while it waits for the   *)
(* loops (`stopper`), which never take it.  Calls that change nothing      *)
(* (Start of a running, Stop of a stopped capture, a Start that fails: no  *)
(* interface, a filter that libpcap refuses) are not actions.  Frames are  *)
(* numbered as they arrive.                                                *)
(***************************************************************************)
EXTENDS BoundedFifo, Integers, FiniteSets

CONSTANTS Client,       \* goroutines that call Start and Stop
          NoClient,
          BatchSize,    \* DefaultBatchSize
          ChannelSize,  \* config.ChannelSize; 0 leaves the channel nil
          MaxFrames,    \* bounds: frames that arrive,
          MaxStarts     \*   calls of Start

ASSUME PipelineAssumption ==
  /\ NoClient \notin Client
  /\ BatchSize \in Nat \ {0} /\ ChannelSize \in Nat
  /\ Room \in Nat /\ MaxFrames \in Nat /\ MaxStarts \in Nat

VARIABLES
  running, stopClosed, \* c.running; c.stopChan is closed
  handle,     \* c.handle: "nil" or "open"
  stopper,    \* the client inside Stop
  crash,      \* the panic that ended the program, or "none"
  starts,     \* calls of Start so far
  capture,    \* where the capture loop is
  frame,      \* the frame it works on
  dispatch,   \* where the dispatch loop is
  batch,      \* its batch: frames not yet offered to the channel
  channel,    \* c.packetChan
  out,        \* frames the reader has received
  received, filtered, lost, queued, passed   \* c.stats: PacketsReceived,
              \* PacketsFiltered, PacketsDropped, PacketsQueued, PacketsSent

fifoVars  == <<queue, delivered, dropped>>
lifeVars  == <<running, stopClosed, handle, stopper, crash, starts>>
loopVars  == <<capture, frame>>
sendVars  == <<dispatch, batch>>
chanVars  == <<channel, out>>
statVars  == <<received, filtered, lost, queued, passed>>
vars == <<fifoVars, lifeVars, loopVars, sendVars, chanVars, statVars>>

Init ==
  /\ FifoInit
  /\ running = FALSE /\ stopClosed = FALSE /\ handle = "nil"
  /\ stopper = NoClient /\ crash = "none" /\ starts = 0
  /\ capture = "off" /\ frame = 0
  /\ dispatch = "off" /\ batch = <<>>
  /\ channel = <<>> /\ out = <<>>
  /\ received = 0 /\ filtered = 0 /\ lost = 0 /\ queued = 0 /\ passed = 0

Alive == crash = "none"

(* Above some helpers stand slips that no action uses.  A signal that is   *)
(* sent and not closed would reach one of the loops only.                  *)
OneReceiver   == stopClosed /\ capture # "off" /\ dispatch # "off"
StopSignalled == stopClosed
-----------------------------------------------------------------------------
NotStored    == handle
StoredHandle == "open"

(* Start after Stop opens a new handle but finds stopChan closed.          *)
Start(c) ==
  /\ Alive /\ stopper = NoClient
  /\ ~running
  /\ starts < MaxStarts
  /\ running' = TRUE /\ handle' = StoredHandle
  /\ starts' = starts + 1
  /\ capture' = "begin" /\ dispatch' = "select"
  /\ UNCHANGED <<fifoVars, stopClosed, stopper, crash, frame, batch, chanVars,
                 statVars>>

BeginStop(c) ==
  /\ Alive /\ stopper = NoClient
  /\ running
  /\ IF stopClosed
     THEN /\ crash' = "close of closed channel"
          /\ UNCHANGED <<running, stopClosed, handle, stopper>>
     ELSE /\ running' = FALSE /\ stopClosed' = TRUE /\ stopper' = c
          /\ UNCHANGED <<handle, crash>>
  /\ UNCHANGED <<fifoVars, starts, loopVars, sendVars, chanVars, statVars>>

CloseHandle ==
  /\ Alive /\ stopper # NoClient
  /\ handle = "open"
  /\ handle' = "nil"
  /\ UNCHANGED <<fifoVars, running, stopClosed, stopper, crash, starts,
                 loopVars, sendVars, chanVars, statVars>>

LoopsDone == capture = "off" /\ dispatch = "off"

EndStop ==
  /\ Alive /\ stopper # NoClient
  /\ handle = "nil"
  /\ LoopsDone
  /\ stopper' = NoClient
  /\ UNCHANGED <<fifoVars, running, stopClosed, handle, crash, starts, loopVars,
                 sendVars, chanVars, statVars>>
-----------------------------------------------------------------------------
(* captureLoop. *)
CaptureAt(from, to) == Alive /\ capture = from /\ capture' = to

(* NewPacketSource(c.handle, c.handle.LinkType()) reads c.handle without   *)
(* the lock, in a goroutine that Stop may have overtaken.                  *)
BeginCapture ==
  /\ CaptureAt("begin", "loop")
  /\ crash' = IF handle = "nil" THEN "nil handle" ELSE crash
  /\ UNCHANGED <<fifoVars, running, stopClosed, handle, stopper, starts, frame,
                 sendVars, chanVars, statVars>>

CheckStop ==
  /\ CaptureAt("loop", IF StopSignalled THEN "off" ELSE "next")
  /\ UNCHANGED <<fifoVars, lifeVars, frame, sendVars, chanVars, statVars>>

(* NextPacket fails on a timeout and on a closed handle.                   *)
NextFails ==
  /\ CaptureAt("next", IF StopSignalled THEN "off" ELSE "loop")
  /\ UNCHANGED <<fifoVars, lifeVars, frame, sendVars, chanVars, statVars>>

Receive ==
  /\ CaptureAt("next", "filter")
  /\ handle = "open"
  /\ received < MaxFrames
  /\ received' = received + 1
  /\ frame' = received + 1
  /\ UNCHANGED <<fifoVars, lifeVars, sendVars, chanVars, filtered, lost, queued,
                 passed>>

Filter ==
  /\ CaptureAt("filter", "loop")
  /\ filtered' = filtered + 1
  /\ UNCHANGED <<fifoVars, lifeVars, frame, sendVars, chanVars, received, lost,
                 queued, passed>>

EnqueueFrame ==
  /\ CaptureAt("filter", "queued")
  /\ Put(frame)
  /\ UNCHANGED <<lifeVars, frame, sendVars, chanVars, statVars>>

CountReceived == received
CountOfQueued == queued + 1

CountQueued ==
  /\ CaptureAt("queued", "loop")
  /\ queued' = CountOfQueued
  /\ UNCHANGED <<fifoVars, lifeVars, frame, sendVars, chanVars, received,
                 filtered, lost, passed>>

FindFull ==
  /\ CaptureAt("filter", "full")
  /\ TurnAway
  /\ UNCHANGED <<lifeVars, frame, sendVars, chanVars, statVars>>

NotCounted  == lost
CountOfLost == lost + 1

CountLost ==
  /\ CaptureAt("full", "loop")
  /\ lost' = CountOfLost
  /\ UNCHANGED <<fifoVars, lifeVars, frame, sendVars, chanVars, received,
                 filtered, queued, passed>>

CaptureLoop == \/ BeginCapture \/ CheckStop \/ NextFails \/ Receive \/ Filter
               \/ EnqueueFrame \/ CountQueued \/ FindFull \/ CountLost
-----------------------------------------------------------------------------
(* dispatchLoop: on a tick, fill a batch, then offer each frame of it.     *)
DispatchAt(from, to) == Alive /\ dispatch = from /\ dispatch' = to

DispatchReturns ==
  /\ DispatchAt("select", "off")
  /\ StopSignalled
  /\ UNCHANGED <<fifoVars, lifeVars, loopVars, batch, chanVars, statVars>>

TickerFires ==
  /\ DispatchAt("select", "fill")
  /\ UNCHANGED <<fifoVars, lifeVars, loopVars, batch, chanVars, statVars>>

BatchRoom == Len(batch) < BatchSize

FillBatch ==
  /\ DispatchAt("fill", "fill")
  /\ BatchRoom
  /\ Get
  /\ batch' = Append(batch, Head(queue))
  /\ UNCHANGED <<lifeVars, loopVars, chanVars, statVars>>

BatchFilled ==
  /\ DispatchAt("fill", IF batch = <<>> THEN "select" ELSE "send")
  /\ ~BatchRoom \/ queue = <<>>
  /\ UNCHANGED <<fifoVars, lifeVars, loopVars, batch, chanVars, statVars>>

LoopEnds(b)  == "off"
AfterSend(b) == IF Tail(b) = <<>> THEN "select" ELSE "send"
NewestFirst(b) == b[Len(b)]
NextOf(b)      == Head(b)

SendFrame ==
  /\ DispatchAt("send", AfterSend(batch))
  /\ Len(channel) < ChannelSize
  /\ channel' = Append(channel, NextOf(batch))
  /\ passed' = passed + 1
  /\ batch' = Tail(batch)
  /\ UNCHANGED <<fifoVars, lifeVars, loopVars, out, received, filtered, lost,
                 queued>>

DropFrame ==
  /\ DispatchAt("send", AfterSend(batch))
  /\ Len(channel) = ChannelSize
  /\ lost' = lost + 1
  /\ batch' = Tail(batch)
  /\ UNCHANGED <<fifoVars, lifeVars, loopVars, chanVars, received, filtered,
                 queued, passed>>

DispatchLoop == \/ DispatchReturns \/ TickerFires \/ FillBatch \/ BatchFilled
                \/ SendFrame \/ DropFrame

Read ==
  /\ Alive /\ channel # <<>>
  /\ out' = Append(out, Head(channel))
  /\ channel' = Tail(channel)
  /\ UNCHANGED <<fifoVars, lifeVars, loopVars, sendVars, statVars>>
-----------------------------------------------------------------------------
Next == \/ \E c \in Client : Start(c) \/ BeginStop(c)
        \/ CloseHandle \/ EndStop
        \/ CaptureLoop \/ DispatchLoop \/ Read

Spec == Init /\ [][Next]_vars

(* The loops run; a select that is made again and again finds each ready   *)
(* case some time; Stop goes on as soon as it can.                         *)
FairSpec == /\ Spec
            /\ WF_vars(CaptureLoop) /\ WF_vars(DispatchLoop)
            /\ SF_vars(DispatchReturns) /\ SF_vars(TickerFires)
            /\ WF_vars(CloseHandle) /\ WF_vars(EndStop)
-----------------------------------------------------------------------------
Frame == 0..MaxFrames

TypeOK ==
  /\ queue \in Seq(Frame) /\ Len(queue) <= Room
  /\ delivered \in Seq(Frame) /\ dropped \in Frame
  /\ running \in BOOLEAN /\ stopClosed \in BOOLEAN
  /\ handle \in {"nil", "open"} /\ stopper \in Client \union {NoClient}
  /\ crash \in {"none", "nil handle", "close of closed channel"}
  /\ starts \in 0..MaxStarts
  /\ capture \in {"off", "begin", "loop", "next", "filter", "queued", "full"}
  /\ frame \in Frame
  /\ dispatch \in {"off", "select", "fill", "send"}
  /\ batch \in Seq(Frame) /\ Len(batch) <= BatchSize
  /\ channel \in Seq(Frame) /\ Len(channel) <= ChannelSize
  /\ out \in Seq(Frame)
  /\ {received, filtered, lost, queued, passed} \subseteq Frame

(* Every frame received is accounted for, across both loops and although   *)
(* one counter is kept by both of them: it was filtered, lost or passed    *)
(* on, or is still on its way (high_perf_capture.go:231-245, 306-317).     *)
(* And no batch is left behind: when the dispatch loop is at its select,   *)
(* or Stop has ended it, what it took out of the ring buffer was offered.  *)
InCapture == IF capture \in {"filter", "full"} THEN 1 ELSE 0
EveryFrameCounted ==
  /\ received = filtered + lost + passed + Len(queue) + Len(batch) + InCapture
  /\ dispatch \in {"off", "select"} => batch = <<>>

(* The count of queued frames agrees with the ring buffer, whose other end *)
(* is emptied meanwhile: each is still in it or was taken out              *)
(* (high_perf_capture.go:240-245, 301).                                    *)
QueuedWaitsOrWasTaken ==
  queued + (IF capture = "queued" THEN 1 ELSE 0) = Len(delivered) + Len(queue)

(* The reader gets frames in the order they arrived, none twice, whatever  *)
(* is filtered or dropped in between (high_perf_capture.go:301-312).       *)
InOrder == LET all == out \o channel \o batch \o queue
           IN  \A i, j \in DOMAIN all : i < j => all[i] < all[j]

(* A frame that was queued is offered to the channel, unless Stop comes    *)
(* (high_perf_capture.go:289-296).                                         *)
QueuedOffered ==
  \A k \in 1..MaxFrames :
    queued >= k ~> passed + lost - dropped >= k \/ stopClosed

(* Stop returns, unless the program crashes: unlike the engine's, the      *)
(* loops it waits for under the lock never take it                         *)
(* (high_perf_capture.go:326-343).                                         *)
StopReturns == stopper # NoClient ~> stopper = NoClient \/ ~Alive

(* Only two things end the program: a Stop that takes the handle away      *)
(* before the capture loop has read it (207, 337-339), and the Stop of a   *)
(* capture that was started again (334).                                   *)
CrashCauses ==
  /\ crash = "nil handle" => stopper # NoClient
  /\ crash = "close of closed channel" => starts >= 2
=============================================================================
