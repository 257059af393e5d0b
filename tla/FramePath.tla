------------------------------ MODULE FramePath ------------------------------
(***************************************************************************)
(* What becomes of one frame on the wire: the kernel's packet filter, the  *)
(* test of the capture or of its reader, and the parser, one element of    *)
(* the PDU at a time.  A frame arrives at one of three places:             *)
(*   "plain"  GOOSECapture and processPacket of the gateway,               *)
(*   "fast"   HighPerfGOOSECapture,  "sv"  HighPerfSVCapture.ProcessPacket.*)
(*                                                                         *)
(* `octets` are those of the APDU behind the frame's Ethernet header.      *)
(* `group` says whether the destination has the prefix 01:0C:CD,           *)
(* `admitted` whether the MAC filter lets the frame in (see MacFilter);    *)
(* the type "none" is that of a frame too short to have a type.            *)
(* `configured` is what config.BPFFilter of the capture is to the frame:   *)
(* "none" if it is empty, else a string that libpcap compiles and that     *)
(* admits or refuses the frame, or one that it does not compile.           *)
(***************************************************************************)
EXTENDS GooseParser, SvParser

CONSTANTS Frames

ASSUME FrameAssumption ==
  \A f \in Frames : /\ f.to \in {"plain", "fast", "sv"}
                    /\ f.configured \in {"none", "admits", "refuses", "broken"}
                    /\ f.octets \in Seq(Octet) /\ Len(f.octets) <= MaxLength

VARIABLES frame,
          stage,    \* "wire", "captured", "pdu", "done", "dropped", "error",
                    \* "missed": on the wire, and no capture has started
          pdu, at,  \* the data and the index of the PDU's iterator
          msg,      \* the message parsed so far
          values    \* GOOSEMessage.DataSetValues

vars == <<frame, stage, pdu, at, msg, values>>

-----------------------------------------------------------------------------
(* Filters, by what libpcap makes of them: whether it compiles them (a     *)
(* load ether[0:n] only for the sizes it knows) and whether they admit the *)
(* frame.                                                                  *)
LoadSizes  == {1, 2, 4}
PrefixSize == 3             \* of 01:0C:CD

EtherProtoFilter(f) == [compiles |-> TRUE, admits |-> f.type = "goose"]

(* BuildGOOSEOnlyFilter and OptimizedBPFString, between which the fast     *)
(* capture chooses by its number of addresses: prefix and ethertype both.  *)
PrefixFilter(f) == [compiles |-> PrefixSize \in LoadSizes,
                    admits   |-> f.group /\ f.type = "goose"]

(* A configured filter is taken as it is.                                  *)
FilterOr(f, default) ==
  IF f.configured = "none" THEN default
  ELSE [compiles |-> f.configured # "broken", admits |-> f.configured = "admits"]

BuildBPFFilter(f) == FilterOr(f, PrefixFilter(f))

KernelFilter(f) ==
  CASE f.to = "plain" -> FilterOr(f, EtherProtoFilter(f))
    [] f.to = "fast"  -> BuildBPFFilter(f)
    [] f.to = "sv"    -> [compiles |-> TRUE, admits |-> TRUE]

IsGOOSEPacket(f) == f.type = "goose"
FastPreFilter(f, type) == f.type = type /\ f.group /\ f.admitted

Accepted(f) ==
  CASE f.to = "plain" -> IsGOOSEPacket(f)
    [] f.to = "fast"  -> FastPreFilter(f, "goose")
    [] f.to = "sv"    -> FastPreFilter(f, "sv")

-----------------------------------------------------------------------------
Init == /\ frame \in Frames
        /\ stage = "wire"
        /\ pdu = <<>> /\ at = 0
        /\ msg = <<>> /\ values = <<>>

(* Start returned an error: the filter could not be set.                   *)
Miss ==
  /\ stage = "wire" /\ ~KernelFilter(frame).compiles
  /\ stage' = "missed"
  /\ UNCHANGED <<frame, pdu, at, msg, values>>

Capture ==
  /\ stage = "wire" /\ KernelFilter(frame).compiles
  /\ stage' = IF KernelFilter(frame).admits /\ Accepted(frame) THEN "captured" ELSE "dropped"
  /\ UNCHANGED <<frame, pdu, at, msg, values>>

(* ParseGOOSE and ParseSV up to the loop over the PDU.  The reader of the  *)
(* fast capture's channel is taken to use GOOSEParser.Parse as well.       *)
APDUTag == IF frame.to = "sv" THEN SVAPDUTag ELSE GOOSEAPDUTag

OpenAPDU ==
  /\ stage = "captured"
  /\ LET e == ParseBER(frame.octets)
     IN IF e.ok /\ e.tag = APDUTag
        THEN /\ stage' = "pdu" /\ pdu' = e.data
             /\ msg' = IF frame.to = "sv" THEN EmptySV ELSE EmptyGoose
        ELSE stage' = "error" /\ UNCHANGED <<pdu, msg>>
  /\ UNCHANGED <<frame, at, values>>

(* BERIterator.Next and the switch on what it returns.                     *)
NextElement ==
  /\ stage = "pdu" /\ at < Len(pdu)
  /\ ParseBER(From(pdu, at + 1)).ok
  /\ LET e == ParseBER(From(pdu, at + 1))
     IN msg' = IF frame.to = "sv" THEN FileSV(msg, e) ELSE FileGoose(msg, e)
  /\ at' = at + GetElementLength(From(pdu, at + 1))
  /\ UNCHANGED <<frame, stage, pdu, values>>

(* An error of the iterator fails the whole message.                       *)
BadElement ==
  /\ stage = "pdu" /\ at < Len(pdu)
  /\ ~ParseBER(From(pdu, at + 1)).ok
  /\ stage' = "error" /\ msg' = <<>>
  /\ UNCHANGED <<frame, pdu, at, values>>

Finish ==
  /\ stage = "pdu" /\ at >= Len(pdu)
  /\ stage' = "done"
  /\ values' = IF frame.to = "sv" THEN values ELSE DataSetValues(msg)
  /\ UNCHANGED <<frame, pdu, at, msg>>

Next == Miss \/ Capture \/ OpenAPDU \/ NextElement \/ BadElement \/ Finish

Spec == Init /\ [][Next]_vars

-----------------------------------------------------------------------------
IsGoose == frame.to # "sv"

(* StNum, SqNum, Test, ConfRev, NdsCom and Simulation of a message are     *)
(* never set, whatever was sent: they are decoded from the element with    *)
(* its context tag, which is not the one the decoder asks for.             *)
HeaderNeverRead ==
  stage \in {"pdu", "done"} /\ IsGoose => \A i \in 4..9 : msg.header[i] = 0
=============================================================================
