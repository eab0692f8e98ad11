----------------------------- MODULE ExpiringMap -----------------------------
(***************************************************************************)
(* What a key-value repository with expiry promises: a map whose values    *)
(* change when a caller writes or removes them, and otherwise only         *)
(* disappear - a mortal value when its time is over, and any value of a    *)
(* key that is being swept, because an earlier, mortal value of that key   *)
(* was found expired.  With mortal = hazy = {} this is a plain map.        *)
(***************************************************************************)
CONSTANTS Keys, Data, NoData

VARIABLES
    value,     \* value[k]: what a caller that looks k up is given
    asked,     \* asked[k]: what k may hold going by the callers' calls alone
    mortal,    \* the keys whose last value was written with an expiry
    hazy       \* the keys that a sweep is under way for

vars == <<value, asked, mortal, hazy>>

Init ==
    /\ value = [k \in Keys |-> NoData]
    /\ asked = [k \in Keys |-> {NoData}]
    /\ mortal = {}
    /\ hazy = {}

\* A caller wants d under k.  A call that fails leaves open whether it has
\* come to pass.
Ask(k, d) ==
    \/ /\ asked' = [asked EXCEPT ![k] = {d}]
       /\ value' = [value EXCEPT ![k] = d]
    \/ /\ asked' = [asked EXCEPT ![k] = @ \cup {d}]
       /\ value' \in {value, [value EXCEPT ![k] = d]}

Write(k, d) ==
    /\ Ask(k, d)
    /\ mortal' \in {mortal \cup {k}, mortal \ {k}}
    /\ UNCHANGED hazy

Remove(k) ==
    /\ Ask(k, NoData)
    /\ mortal' \in {mortal, mortal \ {k}}
    /\ UNCHANGED hazy

\* What follows comes without a call: what was asked for is no longer there.
Gone(k) == value' = [value EXCEPT ![k] = NoData] /\ UNCHANGED asked

Perish(k) == k \in mortal /\ Gone(k) /\ UNCHANGED <<mortal, hazy>>

\* Somebody looked up a value that has perished.
Notice(k) ==
    /\ k \in mortal
    /\ value[k] = NoData
    /\ hazy' = hazy \cup {k}
    /\ UNCHANGED <<value, asked, mortal>>

\* A sweep succeeds or fails; another one for the same key may be under way.
Sweep(k) ==
    /\ k \in hazy
    /\ \/ Gone(k) /\ mortal' = mortal \ {k}
       \/ UNCHANGED <<value, asked, mortal>>
    /\ hazy' \in {hazy, hazy \ {k}}

Next ==
    \E k \in Keys :
        \/ \E d \in Data : Write(k, d)
        \/ Remove(k) \/ Perish(k) \/ Notice(k) \/ Sweep(k)

Spec == Init /\ [][Next]_vars
==============================================================================
