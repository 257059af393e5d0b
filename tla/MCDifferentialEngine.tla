------------------------ MODULE MCDifferentialEngine -------------------------
(* Two runners, one more than the simulator should ever have, and one of   *)
(* two scenarios, each with its bounds.  "line": a buffer of one cycle     *)
(* wraps while there is one source, feed or simulator; faults are just     *)
(* below the pickup of 0.2, just above it, or beyond the first bend.       *)
(* "order": the simulator only, with enough samples after its restart for  *)
(* evaluations by both runners that come out differently.                  *)
EXTENDS DifferentialEngine

VARIABLE scenario

MCMaxSamples == [n \in 0..MaxStarts |-> <<7, 6, 5>>[n + 1]]

MostSamples == [line |-> <<7, 6, 2>>, order |-> <<0, 3, 5>>]
Currents    == [line |-> FaultCurrent, order |-> {1500}]

WithinBounds ==
  /\ samples' > samples => samples' <= MostSamples[scenario][chan + 1]
  /\ condition'.current \in {0} \union Currents[scenario]

MCInit == Init /\ scenario \in DOMAIN MostSamples
MCNext == Next /\ WithinBounds /\ UNCHANGED scenario
MCSpec == MCInit /\ [][MCNext]_<<vars, scenario>> /\ Fairness

(* In "order" the auxiliary variables, on which no step depends, are left  *)
(* out of the view but for the one guard that looks at them: the order of  *)
(* results and the end of the runners, which are what that scenario is     *)
(* for, do not depend on them either.                                      *)
Auxiliary == <<recent, sample, seen>>
NoHistory == <<recent.N = <<>>,
               [p \in Pusher |-> <<sample[p].k, sample[p].condition>>],
               [p \in Pusher |-> [s \in Side |-> seen[p][s].phasor]]>>
MCView == <<scenario, condition, changes, simVars, line, samples, side, todo, decided,
            outVars, IF scenario = "line" THEN Auxiliary ELSE NoHistory>>
=============================================================================
