--------------------------- MODULE MCMeterRegistry ---------------------------
(* Instances of MeterRegistry for TLC.                                     *)
EXTENDS MeterRegistry

CONSTANTS
    plain,   \* a key that is stored under itself
    colon,   \* a key with a colon in it
    dash     \* the key sanitiseKey makes of it

\* One key on its own and two that share a place in the bucket.
MCSanitiseKey == [k \in Keys |-> IF k = colon THEN dash ELSE k]
==============================================================================
