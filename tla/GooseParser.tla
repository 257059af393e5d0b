---------------------------- MODULE GooseParser ------------------------------
(***************************************************************************)
(* The message parser of pkg/goose/parser.go: how the elements of a GOOSE  *)
(* PDU are filed in the message, how its data set is decoded, and how the  *)
(* decoded values get their names.  Strings and time stamps are cut down   *)
(* to whether they are there.                                              *)
(***************************************************************************)
EXTENDS Ber

CONSTANTS NamesOf    \* NamesOf[ds]: the names RegisterDataSet gave for ds

GOOSEAPDUTag == 97
AllDataTag   == 10

(* DataAttribute: `num` is the value of a boolean (0, 1) or of an integer, *)
(* the bits of a bit string, else 0; `parts` the attributes of a structure.*)
Attr(type, num)   == [type |-> type, num |-> num, parts |-> <<>>]
Structure(parts)  == [type |-> "structure", num |-> 0, parts |-> parts]
Skipped           == [type |-> "none", num |-> 0, parts |-> <<>>]
AttrOrNull(type, res) == Attr(type, IF res.ok THEN res.num ELSE 0)
AttrOf(type, res)     == IF res.ok THEN Attr(type, res.num) ELSE Skipped

IsAttr(a) == a.type # "none"

(* `nested` is what parseAllData makes of the contents of an element.      *)
StructureOf(nested) == IF nested.ok THEN Structure(nested.attrs) ELSE Skipped

(* decodeContextSpecificAttribute.  Its cases 1 to 4 are not reached:      *)
(* decodeDataAttribute takes these numbers for universal types.            *)
DecodeContextSpecificAttribute(e, nested) ==
  CASE e.num = 0 -> AttrOf("unsigned", DecodeUnsigned(e.data))
    [] e.num = 5 -> Attr("bits", IF e.data = <<>> THEN 0 ELSE Bits(e.data))
    [] e.num = 7 -> StructureOf(nested)
    [] e.num = 8 -> Attr("time", 0)
    [] OTHER     -> Skipped

DecodeDataAttribute(e, nested) ==
  CASE e.num = TagBoolean       -> AttrOf("boolean", DecodeBoolean(e.full))
    [] e.num = TagInteger       -> AttrOf("integer", DecodeInteger(e.full))
    [] e.num = TagBitString     -> AttrOf("bits", DecodeBitString(e.full))
    [] e.num = TagOctetString   -> AttrOf("octets", DecodeString(e.full, e.num))
    [] e.num = TagVisibleString -> AttrOf("string", DecodeString(e.full, e.num))
    [] e.num = TagSequence      -> StructureOf(nested)
    [] OTHER -> IF e.class = ClassContext
                THEN DecodeContextSpecificAttribute(e, nested) ELSE Skipped

(* No data at all when an element is malformed.                            *)
UpToError(ok, attrs)   == [ok |-> TRUE, attrs |-> attrs]
WholeOrNone(ok, attrs) == [ok |-> ok, attrs |-> IF ok THEN attrs ELSE <<>>]

(* The numbers of P up to n in order, and the elements of s at them.       *)
InOrder(P, n) ==
  LET upto[k \in 0..n] ==
        IF k = 0 THEN <<>>
        ELSE IF k \in P THEN Append(upto[k - 1], k) ELSE upto[k - 1]
  IN upto[n]

Chosen(s, P) ==
  LET pos == InOrder(P, Len(s)) IN [i \in DOMAIN pos |-> s[pos[i]]]

(* The elements that could be decoded, in order.                           *)
Attributes(attr) == Chosen(attr, {i \in DOMAIN attr : IsAttr(attr[i])})

ParseAllData[d \in Seq(Octet)] ==
  LET els  == Elements(d)
      attr == [i \in DOMAIN els.seq |->
                 DecodeDataAttribute(els.seq[i], ParseAllData[els.seq[i].data])]
  IN WholeOrNone(els.ok, Attributes(attr))

-----------------------------------------------------------------------------
(* The message.  `header` is StNum, SqNum, Test, ConfRev, NdsCom and       *)
(* Simulation under their tag numbers.                                     *)

EmptyGoose == [text |-> [i \in 0..2 |-> <<>>], t |-> FALSE,
               header |-> [i \in 4..9 |-> 0], allData |-> <<>>]

HeaderField(msg, i, res) ==
  IF res.ok THEN [msg EXCEPT !.header[i] = res.num] ELSE msg

(* One round of the loop of parseGOOSEPDU.  A field that cannot be decoded *)
(* is left as it was.                                                      *)
FileGoose(msg, e) ==
  CASE e.class # ClassContext -> msg
    [] e.class = ClassContext /\ e.num \in 0..2 -> [msg EXCEPT !.text[e.num] = e.data]
    [] e.class = ClassContext /\ e.num = 3 ->
         [msg EXCEPT !.t = @ \/ DecodeTimeStamp(e.full)]
    [] e.class = ClassContext /\ e.num \in {4, 5, 7} ->
         HeaderField(msg, e.num, DecodeUnsigned(e.full))
    [] e.class = ClassContext /\ e.num \in {6, 8, 9} ->
         HeaderField(msg, e.num, DecodeBoolean(e.full))
    [] e.class = ClassContext /\ e.num = AllDataTag ->
         IF ParseAllData[e.data].ok
         THEN [msg EXCEPT !.allData = ParseAllData[e.data].attrs] ELSE msg
    [] OTHER -> msg

DatSet(msg) == msg.text[1]

(* The boolean ExtractBooleanValues finds in an attribute.                 *)
Leaf(a) == IF a.type = "structure" /\ a.parts # <<>> THEN a.parts[1] ELSE a

(* DataSetValues: the names and values of a registered data set.           *)
ExtractBooleanValues(attrs, names) ==
  LET valued == {i \in DOMAIN attrs \intersect DOMAIN names :
                   Leaf(attrs[i]).type = "boolean"}
  IN [n \in {names[i] : i \in valued} |->
        LET i == Max({j \in valued : names[j] = n}) IN Leaf(attrs[i]).num = 1]

DataSetValues(msg) ==
  IF DatSet(msg) \in DOMAIN NamesOf
  THEN ExtractBooleanValues(msg.allData, NamesOf[DatSet(msg)])
  ELSE ExtractBooleanValues(<<>>, <<>>)
=============================================================================
