---------------------------- MODULE ConsumerLife ----------------------------
(***************************************************************************)
(* What the rest of the program may take for granted about a meter's       *)
(* consumers: one goroutine at a time works for it, for it alone, and      *)
(* another one is started only when that one has been told to stop.  A     *)
(* meter whose removal overtook its goroutine drops out of the promise.    *)
(* Reconciler implements this, and the guards of StartWorker and Cancel in *)
(* EventPipeline are those of Start and Stop.                              *)
(***************************************************************************)
CONSTANTS Meters, Workers

VARIABLES
    live,      \* live[m]: the goroutines that work for meter m
    clear      \* the meters the promise holds for

vars == <<live, clear>>

Init ==
    /\ live = [m \in Meters |-> {}]
    /\ clear = Meters

Start(m, w) ==
    /\ m \in clear
    /\ live[m] = {}
    /\ \A n \in Meters : w \notin live[n]
    /\ live' = [live EXCEPT ![m] = {w}]
    /\ UNCHANGED clear

Stop(m) ==
    /\ live[m] # {}
    /\ live' = [live EXCEPT ![m] = {}]
    /\ UNCHANGED clear

Blur(m) ==
    /\ live' = [live EXCEPT ![m] = {}]
    /\ clear' = clear \ {m}

Next ==
    \E m \in Meters :
        \/ \E w \in Workers : Start(m, w)
        \/ Stop(m) \/ Blur(m)

Spec == Init /\ [][Next]_vars
==============================================================================
