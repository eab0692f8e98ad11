--------------------------- MODULE MCEventPipeline ---------------------------
(* Instances of EventPipeline for TLC: two events with ids of their own;   *)
(* for the group, the first holds a value of a wrong type and the second a *)
(* null.                                                                   *)
EXTENDS EventPipeline, TLC

CONSTANTS m1, m2, id1, id2, main, g1

MCIdOf == [m \in Msgs |-> IF m = m1 THEN id1 ELSE id2]

MCFate == [m \in Msgs |-> [t \in Targets |->
              IF t = Main THEN "fit" ELSE IF m = m1 THEN "misfit" ELSE "null"]]

Symmetry == Permutations(Workers)
=============================================================================
