---------------------------- MODULE MCFramePath -----------------------------
(* Frames whose data sets have up to three items of every kind the parsers *)
(* tell apart; data set "1" is registered with three names, "2" is not.    *)
EXTENDS WireFormat

CONSTANTS n1, n2, n3

MCNamesOf == <<1>> :> <<n1, n2, n3>>

Value(class, num, body) == [class |-> class, num |-> num, pad |-> 0, excess |-> 0,
                            body |-> body, parts |-> <<>>]
Group(class, num, parts) == [Value(class, num, EncodeAll(parts)) EXCEPT !.parts = parts]
Longer(item, pad)   == [item EXCEPT !.pad = pad]
TooLong(item)       == [item EXCEPT !.excess = 1]

On  == Value(0, 1, <<255>>)
Off == Value(0, 1, <<0>>)
Minus255   == Value(0, 2, <<255, 1>>)
Plain == {On, Off, Longer(On, 2), Value(0, 1, <<1, 1>>), Minus255,
          Value(128, 3, <<1>>), Value(0, TagRange + 1, <<1>>), Value(0, 16, <<>>),
          Value(0, 4, <<7>>), Value(128, 6, <<1>>), Value(128, 5, <<>>),
          Value(128, 8, <<>>), Group(128, 0, <<Minus255>>), Group(0, 16, <<On, Minus255>>),
          Group(0, 16, <<Value(128, 6, <<1>>), Off>>),
          Group(0, 16, <<On, TooLong(Off)>>), Group(128, 7, <<Minus255, On>>)}
Few   == {On, Off, Value(128, 6, <<1>>), Group(0, 16, <<On, Minus255>>)}

UpTo(S, n) == UNION {[1..k -> S] : k \in 0..n}
DataSets   == UpTo(Plain, 2) \union UpTo(Few, 3)
                \union {Append(d, TooLong(e)) : d \in UpTo(Few, 2), e \in {On, Minus255}}

DatSetItem(n) == Value(128, 1, <<n>>)
Headers == {<<DatSetItem(1)>>, <<DatSetItem(2)>>,
            <<Value(0, 1, <<1>>), Longer(DatSetItem(1), 1), Value(128, 4, <<5>>),
              Value(128, 6, <<255>>), Value(128, 3, [i \in 1..8 |-> 0])>>,
            <<Value(128, 200, <<1>>), DatSetItem(1)>>,
            <<Value(128, 40, <<1>>), TooLong(DatSetItem(1))>>}
GoosePDUs == {Append(h, Group(128, 10, d)) : h \in Headers, d \in DataSets}
               \union {<<DatSetItem(1), TooLong(Group(128, 10, <<On>>))>>, <<>>}

Sample(last) == Value(128, 0, <<255, 255, 255, last>>)
Samples == {Sample(254), Value(128, 0, <<1>>), Value(0, 0, <<0, 0, 0, 9>>),
            Longer(Value(128, 0, <<0, 0, 1, 0, 5>>), 1), Group(128, 1, <<Sample(1)>>)}
SVDataSets == UpTo(Samples, 2) \union {Append(d, TooLong(Sample(0))) : d \in UpTo(Samples, 1)}
SVPDUs == {<<Value(128, 1, <<1, 2>>), Value(128, 2, <<0>>), Group(128, num, d),
             Value(128, 3, <<1>>), Value(0, 7, <<1>>)>> : d \in SVDataSets, num \in {6, 8}}

Frame(to, type, apdu) == [to |-> to, type |-> type, apdu |-> apdu, octets |-> Encode(apdu),
                          group |-> TRUE, admitted |-> TRUE, configured |-> "none"]

MCFrames ==
  {Frame("plain", "goose", Group(64, 1, p)) : p \in GoosePDUs}
    \union {Frame("sv", "sv", Group(64, 0, p)) : p \in SVPDUs}
    \union {[Frame(to, type, apdu) EXCEPT !.group = g, !.admitted = a, !.configured = c] :
              to \in {"plain", "fast", "sv"}, type \in {"goose", "sv", "none"},
              g \in BOOLEAN, a \in BOOLEAN,
              c \in {"none", "admits", "refuses", "broken"},
              apdu \in {Group(64, 1, <<DatSetItem(1)>>), Group(64, 0, <<DatSetItem(1)>>),
                        TooLong(Group(64, 1, <<DatSetItem(1)>>))}}

PartsOf(items) == UNION {Range(x.parts) : x \in items}
Sent   == {f.apdu : f \in MCFrames}
InSent == PartsOf(Sent)
Known  == UNION {Sent, InSent, PartsOf(InSent), PartsOf(PartsOf(InSent))}
MCItem == Known      \* a definition of its own: TLC then computes the set once
=============================================================================
