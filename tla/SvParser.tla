------------------------------ MODULE SvParser -------------------------------
(***************************************************************************)
(* The sampled value parser of pkg/sv/parser.go.                           *)
(***************************************************************************)
EXTENDS Ber

SVAPDUTag == 96

(* parseSVUint8/16/32: the first octets, 0 when there are too few.         *)
Unsigned(d, octets) ==
  IF Len(d) >= octets
  THEN FoldLeft(LAMBDA n, b : n * 256 + b, 0, SubSeq(d, 1, octets)) ELSE 0

ParseSVInt32(d) == IF Len(d) >= 4 THEN TwosComplement(SubSeq(d, 1, 4)) ELSE 0

IsSample(e) == e.class = ClassContext /\ e.num = 0

(* parseSVDataSet: one measurement per element that could be read; an      *)
(* element of another kind gives a zero one.  The branch for constructed   *)
(* elements compares the class bits with 0xA0, which no element has.       *)
Measurement(e) == IF IsSample(e) THEN ParseSVInt32(e.data) ELSE 0

ParseSVSamples(d) ==
  LET els == SelectSeq(Elements(d).seq, IsSample)
  IN [i \in DOMAIN els |-> Measurement(els[i])]

ParseSVDataSet(d) ==
  LET els == Elements(d).seq IN [i \in DOMAIN els |-> Measurement(els[i])]

(* parseSVSequenceData drops what is not a sample of four octets.          *)
ParseSVSequenceData(d) ==
  LET els == SelectSeq(Elements(d).seq, LAMBDA e : IsSample(e) /\ Len(e.data) = 4)
  IN [i \in DOMAIN els |-> ParseSVInt32(els[i].data)]

(* `num` holds SmpCnt, ConfRev, SmpSync, SmpRate and SmpMod by tag number. *)
EmptySV == [svid |-> <<>>, refrTm |-> FALSE, num |-> [i \in {1, 2, 4, 5, 7} |-> 0],
            dataSet |-> <<>>, seqData |-> <<>>]

Octets == [i \in {1, 2, 4, 5, 7} |->
             CASE i = 2 -> 4 [] i \in {1, 5} -> 2 [] i \in {4, 7} -> 1]

(* One round of the loop of parseSVPDU.                                    *)
FileSV(msg, e) ==
  CASE e.class # ClassContext -> msg
    [] e.class = ClassContext /\ e.num = 0 -> [msg EXCEPT !.svid = e.data]
    [] e.class = ClassContext /\ e.num \in DOMAIN Octets ->
         [msg EXCEPT !.num[e.num] = Unsigned(e.data, Octets[e.num])]
    [] e.class = ClassContext /\ e.num = 3 ->
         [msg EXCEPT !.refrTm = @ \/ DecodeTimeStamp(e.full)]
    [] e.class = ClassContext /\ e.num = 6 ->
         [msg EXCEPT !.dataSet = ParseSVDataSet(e.data)]
    [] e.class = ClassContext /\ e.num = 8 ->
         [msg EXCEPT !.seqData = ParseSVSequenceData(e.data)]
    [] OTHER -> msg
=============================================================================
