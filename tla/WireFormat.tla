---------------------------- MODULE WireFormat -----------------------------
(***************************************************************************)
(* What a frame's sender encoded, and what the path of the frame makes of  *)
(* it.  The sending device is described by what it encodes: `apdu` is an   *)
(* item with its class, number, `body` (the octets of its contents),       *)
(* `parts` (the items those octets encode, none for a primitive), `pad`,   *)
(* the octets of its length beyond the first (0: short form), and          *)
(* `excess`, by how much that length exceeds the contents (a corrupted     *)
(* item).  A frame's octets are Encode of its apdu.                        *)
(***************************************************************************)
EXTENDS FramePath

CONSTANTS Item        \* the items devices send, and those these consist of

(* The length n in base 256, the last digit first.                         *)
LengthDigits(n) ==
  <<n % 256, (n \div 256) % 256, ((n \div 256) \div 256) % 256,
    ((n \div 256) \div 256) \div 256>>

LengthOctets(n, pad) ==
  IF pad = 0 THEN <<n>>
  ELSE <<128 + pad>> \o [i \in 1..pad |-> LengthDigits(n)[pad + 1 - i]]

(* Whether the length n fits the octets it is given.                       *)
Fits(n, pad) ==
  IF pad = 0 THEN n < 128
  ELSE LengthDigits(n)[4] < 256 /\ \A k \in (pad + 1)..4 : LengthDigits(n)[k] = 0

(* A tag number in base 128; all octets but the last have the eighth bit.  *)
NumberOctetsBefore[n \in Nat] ==
  IF n = 0 THEN <<>> ELSE Append(NumberOctetsBefore[n \div 128], 128 + (n % 128))
NumberOctets(n) == Append(NumberOctetsBefore[n \div 128], n % 128)

Identifier(item) ==
  LET first == item.class + IF item.parts # <<>> THEN 32 ELSE 0
  IN IF item.num < 31 THEN <<first + item.num>>
     ELSE <<first + 31>> \o NumberOctets(item.num)

Claimed(item) == Len(item.body) + item.excess

Encode(item) == Identifier(item) \o LengthOctets(Claimed(item), item.pad) \o item.body

EncodedUpTo(items) ==
  LET upto[k \in 0..Len(items)] ==
        IF k = 0 THEN <<>> ELSE upto[k - 1] \o Encode(items[k])
  IN upto
EncodeAll(items) == EncodedUpTo(items)[Len(items)]

ASSUME ItemAssumption ==
  \A x \in Item : /\ x.class \in {0, 64, 128, 192} /\ x.num \in Nat
                  /\ x.body \in Seq(Octet) /\ x.parts \in Seq(Item)
                  /\ x.parts # <<>> => x.body = EncodeAll(x.parts)
                  /\ x.pad \in 0..4 /\ x.excess \in Nat /\ Fits(Claimed(x), x.pad)

(* The contents of such items are items, and nothing else.                 *)
MadeOfParts(item) == item.body = EncodeAll(item.parts)

ASSUME SentAssumption ==
  \A f \in Frames :
    f.apdu \in Item /\ MadeOfParts(f.apdu) /\ f.octets = Encode(f.apdu)

-----------------------------------------------------------------------------
(* What the sender meant.                                                  *)

Items    == frame.apdu.parts
Cut(items) == \E i \in DOMAIN items : items[i].excess > 0
OnlyLastCut(items) ==
  Cut(items) /\ \A i \in DOMAIN items : items[i].excess > 0 => i = Len(items)

(* The number an item has for a receiver that keeps 32 bits of it.         *)
Number(item) == item.num % TagRange

(* The PDU's items with this context number, and what the last one is made *)
(* of.                                                                     *)
Under(num) ==
  {i \in DOMAIN Items : Items[i].class = ClassContext /\ Number(Items[i]) = num}
PartsUnder(num) == IF Under(num) = {} THEN <<>> ELSE Items[Max(Under(num))].parts

(* Those items are made of what they were told to be made of.              *)
Told(num) == \A i \in Under(num) : MadeOfParts(Items[i])

IsStructure(item) ==
  Number(item) = TagSequence \/ (item.class = ClassContext /\ Number(item) = 7)

(* Which items the parser has an attribute for.                            *)
Decodable(item) ==
  LET octets == Len(item.body)
  IN CASE Number(item) = TagBoolean   -> octets = 1
       [] Number(item) = TagInteger   -> octets \in 1..8
       [] Number(item) = TagBitString -> octets >= 1
       [] Number(item) \in {TagOctetString, TagVisibleString} -> TRUE
       [] IsStructure(item) -> ~Cut(item.parts)
       [] item.class = ClassContext /\ Number(item) = 0 -> DecodeUnsigned(item.body).ok
       [] OTHER -> item.class = ClassContext /\ Number(item) \in {5, 8}

Kept(items) == Chosen(items, {i \in DOMAIN items : Decodable(items[i])})
First(item) == IF IsStructure(item) /\ Kept(item.parts) # <<>>
               THEN Kept(item.parts)[1] ELSE item
Truth(item) == Number(First(item)) = TagBoolean

(* Structures are made of parts and cut, if at all, at their end.          *)
WellTold(items) ==
  \A i \in DOMAIN items : IsStructure(items[i]) =>
     MadeOfParts(items[i]) /\ (Cut(items[i].parts) => OnlyLastCut(items[i].parts))

-----------------------------------------------------------------------------
(* No filter on the way is narrower than the next one: a frame of the      *)
(* kind an endpoint is for, sent to the group address and admitted by the  *)
(* MAC filter (the plain capture asks for neither), gets to the parser     *)
(* unless the configured filter refuses it.                                *)
DroppedForCause ==
  stage = "dropped" =>
    \/ frame.to # "sv" /\ frame.configured = "refuses"
    \/ frame.type # IF frame.to = "sv" THEN "sv" ELSE "goose"
    \/ frame.to # "plain" /\ ~(frame.group /\ frame.admitted)

(* A capture does not start when its filter does not compile: one that was *)
(* configured wrongly, and always the fast capture's own                   *)
(* (high_perf_capture.go:185), so that this sees frames only with a filter *)
(* that was configured.                                                    *)
MissedForCause ==
  stage # "wire" =>
    (stage = "missed" <=> \/ frame.to # "sv" /\ frame.configured = "broken"
                          \/ frame.to = "fast" /\ frame.configured = "none")

(* A message is given up only if its APDU or an item is not what it claims *)
(* to be, and always if its last item is cut short.                        *)
RejectedForCause ==
  /\ stage = "error" =>
       \/ frame.apdu.excess > 0 \/ Identifier(frame.apdu)[1] # APDUTag
       \/ Cut(Items)
  /\ stage = "done" => ~OnlyLastCut(Items)

(* The iterator stops exactly where the sender's items begin, whatever the *)
(* form of their tags and lengths.                                         *)
StopsAtItems ==
  stage \in {"pdu", "done"} /\ ~Cut(Items) =>
    \E k \in 0..Len(Items) : /\ at = Len(EncodedUpTo(Items)[k])
                            /\ stage = "done" => k = Len(Items)

(* What was sent is what is parsed: from the filters (buildBPFFilter,      *)
(* fastPreFilter, IsGOOSEPacket) to the iterator, which adds up lengths    *)
(* that GetElementLength reads a second time.                              *)
ParsedAsSent ==
  DroppedForCause /\ MissedForCause /\ RejectedForCause /\ StopsAtItems

(* The i-th name of a data set gets the value of the i-th item that could  *)
(* be decoded, if that is a boolean or a structure that begins with one:   *)
(* an item the parser does not know moves all later values to the name     *)
(* before (parseAllData, ExtractBooleanValues).                            *)
NamesFollowKept ==
  LET data  == PartsUnder(AllDataTag)
      kept  == Kept(data)
      names == NamesOf[DatSet(msg)]
  IN stage = "done" /\ IsGoose /\ ~Cut(Items) /\ Told(AllDataTag) /\ ~Cut(data)
     /\ WellTold(data) /\ (\A i \in DOMAIN data : WellTold(data[i].parts))
     /\ DatSet(msg) \in DOMAIN NamesOf /\ IsInjective(names) =>
       \A i \in DOMAIN names :
          IF i \in DOMAIN kept /\ Truth(kept[i])
          THEN /\ names[i] \in DOMAIN values
               /\ values[names[i]] = (First(kept[i]).body[1] # 0)
          ELSE names[i] \notin DOMAIN values

(* Of a GOOSE data set that is cut short no value is used, not even those  *)
(* before the cut (parseAllData returns nil).                              *)
WholeDataSetOrNone ==
  stage = "done" /\ IsGoose /\ ~Cut(Items) /\ Told(AllDataTag)
  /\ (\A i \in Under(AllDataTag) : OnlyLastCut(Items[i].parts)) =>
    msg.allData = <<>> /\ DOMAIN values = {}

(* Of a sampled value data set that is cut short the measurements before   *)
(* the cut are kept, each at the position it was sent in, an item that is  *)
(* no sample counting as zero (parseSVDataSet).                            *)
SamplesInPlace ==
  LET sent   == PartsUnder(6)
      usable == IF Cut(sent) THEN Front(sent) ELSE sent
  IN stage = "done" /\ ~IsGoose /\ ~Cut(Items)
     /\ Told(6) /\ (Cut(sent) => OnlyLastCut(sent)) =>
       /\ DOMAIN msg.dataSet = DOMAIN usable
       /\ \A i \in DOMAIN usable :
            msg.dataSet[i] =
              IF usable[i].class = ClassContext /\ Number(usable[i]) = 0
                 /\ Len(usable[i].body) >= 4
              THEN TwosComplement(SubSeq(usable[i].body, 1, 4)) ELSE 0
=============================================================================
