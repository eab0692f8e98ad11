------------------------------- MODULE Metering -------------------------------
(***************************************************************************)
(* What a meter promises about the events of its type, seen from outside.  *)
(* An event that is stored stays stored.  The reading of every target (the *)
(* meter's total and one per groupBy entry) is a bag of stored events: one *)
(* event is added at a time and nothing ever disappears.  An event is      *)
(* settled for good, and not before every target has taken it or failed    *)
(* on it.  EventPipeline implements this with separate reads and writes of *)
(* the reading, several goroutines, redeliveries and crashes.              *)
(***************************************************************************)
EXTENDS Naturals

CONSTANTS
    Msgs,      \* the messages that can be stored in the stream
    Targets    \* the readings a meter keeps

VARIABLES
    stored,    \* the messages in the stream
    reading,   \* reading[t][m]: how often m has been applied to target t
    tried,     \* tried[m]: the targets m has been applied to or has failed on
    settled    \* the messages that are acknowledged

vars == <<stored, reading, tried, settled>>

Init ==
    /\ stored = {}
    /\ reading = [t \in Targets |-> [m \in Msgs |-> 0]]
    /\ tried = [m \in Msgs |-> {}]
    /\ settled = {}

Store(m) ==
    /\ stored' = stored \cup {m}
    /\ UNCHANGED <<reading, tried, settled>>

Apply(m, t) ==
    /\ m \in stored
    /\ reading' = [reading EXCEPT ![t][m] = @ + 1]
    /\ tried' = [tried EXCEPT ![m] = @ \cup {t}]
    /\ UNCHANGED <<stored, settled>>

Fail(m, t) ==
    /\ m \in stored
    /\ tried' = [tried EXCEPT ![m] = @ \cup {t}]
    /\ UNCHANGED <<stored, reading, settled>>

Settle(m) ==
    /\ m \in stored
    /\ tried[m] = Targets
    /\ settled' = settled \cup {m}
    /\ UNCHANGED <<stored, reading, tried>>

Next ==
    \E m \in Msgs :
        \/ Store(m)
        \/ \E t \in Targets : Apply(m, t) \/ Fail(m, t)
        \/ Settle(m)

Spec == Init /\ [][Next]_vars
=============================================================================
