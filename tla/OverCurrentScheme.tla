------------------------- MODULE OverCurrentScheme ---------------------------
(***************************************************************************)
(* The protection the gateway runs: the logic graph that Initialize        *)
(* (cmd/gateway/main.go) builds from BuildOverCurrentProtection            *)
(* (pkg/config/config.go).  One clock tick stands for 500 ms, the unit of  *)
(* the configured delays.                                                  *)
(***************************************************************************)
EXTENDS LogicGraph

SchemeInput  == {"in_i_start", "in_i1_oper", "in_i2_oper", "in_i3_oper",
                 "in_lockout"}
SchemeTimer  == {"timer_I", "timer_II", "timer_III"}
SchemeOutput == {"out_trip_A", "out_trip_B", "out_trip_C"}

SchemeNode == SchemeInput \union SchemeTimer \union SchemeOutput
              \union {"not_lockout", "trip_enable", "trip_or", "trip_final"}

SchemeType ==
  [n \in SchemeNode |->
     CASE n \in SchemeInput  -> "INPUT"
       [] n \in SchemeTimer  -> "TIMER"
       [] n \in SchemeOutput -> "OUTPUT"
       [] n = "not_lockout"  -> "NOT"
       [] n = "trip_or"      -> "OR"
       [] OTHER              -> "AND"]

SchemeInputs ==
  [n \in SchemeNode |->
     CASE n = "not_lockout"   -> <<"in_lockout">>
       [] n = "trip_enable"   -> <<"in_i_start", "not_lockout">>
       [] n = "timer_I"       -> <<"in_i1_oper">>
       [] n = "timer_II"      -> <<"in_i2_oper">>
       [] n = "timer_III"     -> <<"in_i3_oper">>
       [] n = "trip_or"       -> <<"timer_I", "timer_II", "timer_III">>
       [] n = "trip_final"    -> <<"trip_enable", "trip_or">>
       [] n \in SchemeOutput  -> <<"trip_final">>
       [] OTHER               -> <<>>]

SchemeDelayOn ==
  [n \in SchemeNode |-> CASE n = "timer_II" -> 1 [] n = "timer_III" -> 3
                          [] OTHER -> 0]
SchemeDelayOff == [n \in SchemeNode |-> 0]

(* One of the orders Kahn's queue can produce from the map it ranges over. *)
SchemeOrder ==
  <<"in_i_start", "in_i1_oper", "in_i2_oper", "in_i3_oper", "in_lockout",
    "timer_I", "timer_II", "timer_III", "not_lockout", "trip_or",
    "trip_enable", "trip_final", "out_trip_A", "out_trip_B", "out_trip_C">>

(* The graph is the scheme, in whatever order it was sorted.               *)
IsScheme == /\ Node = SchemeNode /\ Type = SchemeType /\ Inputs = SchemeInputs
            /\ DelayOn = SchemeDelayOn /\ DelayOff = SchemeDelayOff
            /\ TripOutput = SchemeOutput

(* Time passes, and every goroutine walks the graph again and again.  The  *)
(* gateway evaluates only when an input arrives; walking for ever is more  *)
(* than it guarantees, so a trip that this fairness does not bring about   *)
(* never comes.                                                            *)
FairSpec == /\ Spec
            /\ WF_vars(Tick)
            /\ \A c \in Caller : SF_vars(Evaluate(c)) /\ WF_vars(EndReset(c))
-----------------------------------------------------------------------------
AtRest == ~stale /\ \A c \in Caller : ~Evaluating(c)

Permitted == value["in_i_start"] /\ ~value["in_lockout"]
SomeStage == \E n \in {"in_i1_oper", "in_i2_oper", "in_i3_oper"} : value[n]

(* At rest the scheme trips when the overcurrent start and stage I operate *)
(* and no lockout input is present, and never without the start, under     *)
(* lockout, or with no stage operated (config.go:165-198).                 *)
TripCharacteristic ==
  AtRest => \A n \in SchemeOutput :
              /\ Permitted /\ value["in_i1_oper"] => value[n]
              /\ value[n] => Permitted /\ SomeStage

(* Stage II is an overcurrent stage with an operating delay of 500 ms      *)
(* (config.go:152, 175): once the start and stage II inputs are present    *)
(* for good with no lockout, and the graph has been evaluated with them    *)
(* while there is time left for the delay, the breakers are tripped.       *)
StageTwoInput == Permitted /\ value["in_i2_oper"]
StageTwoTrips ==
  <>(AtRest /\ now < MaxTime /\ []StageTwoInput) => <>(value["out_trip_A"])
=============================================================================
