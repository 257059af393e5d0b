-------------------------------- MODULE Ber ---------------------------------
(***************************************************************************)
(* The BER decoder of internal/decoder/ber.go: operators on sequences of   *)
(* octets (0..255).  A failed call is a record with ok = FALSE; which of   *)
(* the error values it carries is left out, no caller looks at it.         *)
(*                                                                         *)
(* Tag numbers are uint32: they wrap modulo TagRange, which is 2^32.       *)
(* Lengths are clipped at MaxLength: a length is only added to positions   *)
(* and compared with the size of a buffer, which is below that bound.      *)
(***************************************************************************)
EXTENDS Integers, SequencesExt

CONSTANTS TagRange, MaxLength

ASSUME BerAssumption == TagRange \in Nat /\ TagRange >= 32 /\ MaxLength \in Nat

TagBoolean       == 1
TagInteger       == 2
TagBitString     == 3
TagOctetString   == 4
TagSequence      == 16
TagVisibleString == 26
ClassContext     == 128

Octet  == 0..255
Failed == [ok |-> FALSE]

From(d, i) == SubSeq(d, i, Len(d))      \* the Go slice d[i-1:]

-----------------------------------------------------------------------------
(* Header: identifier octets, then one length octet or up to four more.    *)

LongTag(d)   == d[1] % 32 = 31
LastOctets(d) == {i \in 2..Len(d) : d[i] < 128}

(* The position of the last identifier octet, 0 when the data ends first.  *)
TagEnd(d) ==
  IF ~LongTag(d) THEN 1
  ELSE IF LastOctets(d) = {} THEN 0 ELSE Min(LastOctets(d))

(* The number that the identifier octets up to the last one stand for.     *)
NumberUpTo(d, last) ==
  LET number[i \in 1..last] ==
        IF i = 1 THEN 0 ELSE (number[i - 1] * 128 + (d[i] % 128)) % TagRange
  IN number

TagNumber(d) ==
  IF LongTag(d) THEN NumberUpTo(d, TagEnd(d))[TagEnd(d)] ELSE d[1] % 32

(* The length in the `more` octets behind d[p], at most four; those that   *)
(* are not there stand for zeros.                                          *)
Clip(n) == IF n > MaxLength THEN MaxLength ELSE n
LongLength(d, p, more) ==
  LET octet(k) == IF k <= more THEN d[p + more + 1 - k] ELSE 0
  IN Clip(256 * Clip(256 * Clip(256 * octet(4) + octet(3)) + octet(2)) + octet(1))

(* The header as both ParseBER and GetElementLength read it: where the     *)
(* contents start, and the length they claim.                              *)
Header(d) ==
  LET p    == TagEnd(d) + 1
      more == d[p] % 128
  IN IF Len(d) < 2 \/ TagEnd(d) = 0 \/ p > Len(d) THEN Failed
     ELSE IF d[p] < 128 THEN [ok |-> TRUE, start |-> p + 1, length |-> d[p]]
     ELSE IF more = 0 \/ more > 4 \/ p + more > Len(d) THEN Failed
     ELSE [ok |-> TRUE, start |-> p + 1 + more, length |-> LongLength(d, p, more)]

(* Octets from the start of the element to its claimed end.                *)
ShortTagLength(d)   == Header(d).start - TagEnd(d) + Header(d).length
GetElementLength(d) == Header(d).start - 1 + Header(d).length

ParseBER(d) ==
  LET h == Header(d)
  IN IF ~h.ok \/ GetElementLength(d) > Len(d) THEN Failed
     ELSE [ok |-> TRUE, tag |-> d[1], class |-> (d[1] \div 64) * 64,
           num |-> TagNumber(d), full |-> d,
           data |-> SubSeq(d, h.start, GetElementLength(d))]

(* Successive calls of BERIterator.Next from index i: the elements up to   *)
(* the first error, at which the iterator stays, and whether the data was  *)
(* used up.                                                                *)
ElementsFrom(d) ==
  LET from[i \in 0..Len(d)] ==
        LET e == ParseBER(From(d, i + 1))
        IN IF i = Len(d) THEN [ok |-> TRUE, seq |-> <<>>]
           ELSE IF ~e.ok THEN [ok |-> FALSE, seq |-> <<>>]
           ELSE LET rest == from[i + GetElementLength(From(d, i + 1))]
                IN [ok |-> rest.ok, seq |-> <<e>> \o rest.seq]
  IN from

Elements(d) == ElementsFrom(d)[0]

-----------------------------------------------------------------------------
(* Decoders.  Each looks at the tag number only, whatever the class, and   *)
(* sees the first element of the data it is given.                         *)

TwosComplement(bytes) ==
  FoldLeft(LAMBDA n, b : n * 256 + b, IF bytes[1] < 128 THEN 0 ELSE -1, bytes)

AnyPrimitive(d, num) == ParseBER(d)

Primitive(d, num) ==
  LET e == ParseBER(d) IN IF e.ok /\ e.num = num THEN e ELSE Failed

DecodeBoolean(d) ==
  LET e == Primitive(d, TagBoolean)
  IN IF e.ok /\ Len(e.data) = 1
     THEN [ok |-> TRUE, num |-> IF e.data[1] # 0 THEN 1 ELSE 0]
     ELSE Failed

DecodeInteger(d) ==
  LET e == Primitive(d, TagInteger)
  IN IF e.ok /\ Len(e.data) \in 1..8
     THEN [ok |-> TRUE, num |-> TwosComplement(e.data)]
     ELSE Failed

(* DecodeUnsigned is DecodeInteger converted to uint64: the callers modelled *)
(* here keep the low 32 bits or never look at the number.                  *)
DecodeUnsigned(d) == DecodeInteger(d)

(* The number of bits, from the count of unused ones in the first octet.   *)
Bits(data) == (Len(data) - 1) * 8 - data[1]

DecodeBitString(d) ==
  LET e == Primitive(d, TagBitString)
  IN IF e.ok /\ Len(e.data) >= 1
     THEN [ok |-> TRUE, num |-> Bits(e.data)]
     ELSE Failed

(* DecodeOctetString and DecodeVisibleString; the octets are left out.     *)
DecodeString(d, num) ==
  IF Primitive(d, num).ok THEN [ok |-> TRUE, num |-> 0] ELSE Failed

(* The first element holds a time stamp, whatever its tag.                 *)
DecodeTimeStamp(d) == ParseBER(d).ok /\ Len(ParseBER(d).data) >= 8
=============================================================================
