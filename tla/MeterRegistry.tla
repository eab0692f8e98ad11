---------------------------- MODULE MeterRegistry ----------------------------
(***************************************************************************)
(* The meter registry of kloudmeter: the "meters" key-value bucket, the    *)
(* in-memory meterMap kept beside it, the two HTTP handlers that write     *)
(* both (create-meter and delete meter, internal/app/app.go with           *)
(* internal/domain/main.go), and the start-up code that loads the bucket   *)
(* into the map (StartConsumingEvents up to AddMeters).                    *)
(*                                                                         *)
(* Every request runs in a goroutine of its own and nothing is locked: a   *)
(* handler is split at each round trip to the store, so any two handlers,  *)
(* and a handler and the start-up load, interleave at those points.  The   *)
(* process may be killed at any step (an unsynchronised Go map can itself  *)
(* abort it); the bucket is all that survives.                             *)
(***************************************************************************)
EXTENDS FiniteSets

CONSTANTS
    Clients,      \* HTTP requests that can be in flight at the same time
    Keys,         \* meter keys, eventType.aggregation.id, and delete keys
    Defs,         \* what a meter holds beside its key: valueProperty, groupBy
    sanitiseKey,  \* [Keys -> Keys], the key a value is stored under
    NoMeter, NoKey, NoDef

Meter == [key : Keys, def : Defs]

ASSUME KeysAreFinite == IsFiniteSet(Keys)
ASSUME SanitiseIsIdempotent ==
    /\ sanitiseKey \in [Keys -> Keys]
    /\ \A k \in Keys : sanitiseKey[sanitiseKey[k]] = sanitiseKey[k]
ASSUME NoMeterIsNotAMeter == NoMeter \notin Meter
ASSUME NoKeyIsNotAKey == NoKey \notin Keys

VARIABLES
    bucket,     \* the "meters" bucket, what NATS keeps on disk
    meterMap,   \* d.meterMap, by meter key (the code: by the key's md5)
    req,        \* the request each client has in flight
    boot,       \* how far the process has come up
    listed,     \* what List returned to StartConsumingEvents
    disturbed   \* history: keys on which calls overlapped or lost an answer

vars == <<bucket, meterMap, req, boot, listed, disturbed>>

CreateSteps == {"get", "set", "add"}
DeleteSteps == {"drop", "remove"}
Idle == [at |-> "idle", key |-> NoKey, def |-> NoDef]
Request == [at : CreateSteps, key : Keys, def : Defs]
           \cup [at : DeleteSteps, key : Keys, def : {NoDef}]

TypeOK ==
    /\ bucket \in [Keys -> Meter \cup {NoMeter}]
    /\ meterMap \in [Keys -> Meter \cup {NoMeter}]
    /\ req \in [Clients -> Request \cup {Idle}]
    /\ boot \in {"down", "serving", "listed", "consuming", "failed"}
    /\ listed \subseteq Meter
    /\ disturbed \subseteq Keys

Init ==
    /\ bucket = [k \in Keys |-> NoMeter]
    /\ meterMap = [k \in Keys |-> NoMeter]
    /\ req = [c \in Clients |-> Idle]
    /\ boot = "down"
    /\ listed = {}
    /\ disturbed = {}

-----------------------------------------------------------------------------
(* Requests                                                                *)

MeterOf(c) == [key |-> req[c].key, def |-> req[c].def]
StoredAt(c) == sanitiseKey[req[c].key]

\* The requests in flight whose key is stored under kk.
InFlight(kk) == {c \in Clients : req[c] # Idle /\ StoredAt(c) = kk}

Serving == boot # "down"

Goto(c, step) == req' = [req EXCEPT ![c].at = step]

\* Mutant of Answer: the finished request keeps its key and meter.
AnswerForgetsReset(c) == req' = [req EXCEPT ![c].at = "idle"]

Answer(c) == req' = [req EXCEPT ![c] = Idle]

\* A request arrives; disturbed remembers that another one was in flight on
\* the same stored key, or that a delete came in the middle of the load.
Begin(c, r) ==
    LET kk == sanitiseKey[r.key] IN
    /\ Serving
    /\ req[c] = Idle
    /\ req' = [req EXCEPT ![c] = r]
    /\ disturbed' = IF \/ InFlight(kk) # {}
                       \/ r.at = "drop" /\ boot = "listed"
                    THEN disturbed \cup {kk}
                    ELSE disturbed
    /\ UNCHANGED <<bucket, meterMap, boot, listed>>

\* POST /api/create-meter with a meter that passes IsValid.
CreateMeter(c, k, d) == Begin(c, [at |-> "get", key |-> k, def |-> d])

\* Mutant of RegisterGet: the look-up's result is not considered.
RegisterGetUnchecked(c) ==
    /\ req[c].at = "get"
    /\ Goto(c, "set")
    /\ UNCHANGED <<bucket, meterMap, boot, listed, disturbed>>

\* RegisterMeter looks the key up: a found meter (or a store error) ends the
\* request, only a missing one goes on to Set.
RegisterGet(c) ==
    /\ req[c].at = "get"
    /\ \/ bucket[StoredAt(c)] = NoMeter /\ Goto(c, "set")
       \/ Answer(c)
    /\ UNCHANGED <<bucket, meterMap, boot, listed, disturbed>>

\* RegisterMeter stores the meter whatever is stored by now.  A failing Set
\* ends the request, with or without the value having reached the store.
RegisterSet(c) ==
    /\ req[c].at = "set"
    /\ \/ /\ bucket' = [bucket EXCEPT ![StoredAt(c)] = MeterOf(c)]
          /\ Goto(c, "add")
          /\ UNCHANGED disturbed
       \/ /\ bucket' = [bucket EXCEPT ![StoredAt(c)] = MeterOf(c)]
          /\ Answer(c)
          /\ disturbed' = disturbed \cup {StoredAt(c)}
       \/ /\ Answer(c)
          /\ UNCHANGED <<bucket, disturbed>>
    /\ UNCHANGED <<meterMap, boot, listed>>

\* Mutant of AddMeterToConsume: the handler answers without telling it.
AddMeterForgotten(c) ==
    /\ req[c].at = "add"
    /\ Answer(c)
    /\ UNCHANGED <<bucket, meterMap, boot, listed, disturbed>>

\* The handler, once RegisterMeter has succeeded, tells the event consumer.
AddMeterToConsume(c) ==
    /\ req[c].at = "add"
    /\ meterMap' = [meterMap EXCEPT ![req[c].key] = MeterOf(c)]
    /\ Answer(c)
    /\ UNCHANGED <<bucket, boot, listed, disturbed>>

\* DELETE /api/meter?key=k with a non-empty key.
DeleteMeter(c, k) == Begin(c, [at |-> "drop", key |-> k, def |-> NoDef])

\* The bucket's Delete does not look whether there is a value.  A failing one
\* ends the request, with or without the value being gone.
Drop(c) ==
    /\ req[c].at = "drop"
    /\ \/ /\ bucket' = [bucket EXCEPT ![StoredAt(c)] = NoMeter]
          /\ Goto(c, "remove")
          /\ UNCHANGED disturbed
       \/ /\ bucket' = [bucket EXCEPT ![StoredAt(c)] = NoMeter]
          /\ Answer(c)
          /\ disturbed' = disturbed \cup {StoredAt(c)}
       \/ /\ Answer(c)
          /\ UNCHANGED <<bucket, disturbed>>
    /\ UNCHANGED <<meterMap, boot, listed>>

\* The map is indexed by the hash of the key as the client wrote it.
RemoveMeterFromConsume(c) ==
    /\ req[c].at = "remove"
    /\ meterMap' = [meterMap EXCEPT ![req[c].key] = NoMeter]
    /\ Answer(c)
    /\ UNCHANGED <<bucket, boot, listed, disturbed>>

-----------------------------------------------------------------------------
(* Coming up and going down                                                *)

\* Listen is invoked before the OnStart hook: requests are served while
\* StartConsumingEvents has not yet listed the bucket.
StartServing ==
    /\ boot = "down"
    /\ boot' = "serving"
    /\ UNCHANGED <<bucket, meterMap, req, listed, disturbed>>

\* A delete in flight now may have dropped a meter too late for this List and
\* remove it from the map before AddMeters puts it back.
List ==
    /\ boot = "serving"
    /\ \/ /\ boot' = "listed"
          /\ listed' = {bucket[k] : k \in Keys} \ {NoMeter}
          /\ disturbed' = disturbed \cup
                 {StoredAt(c) : c \in {d \in Clients : req[d].at \in DeleteSteps}}
       \/ /\ boot' = "failed"
          /\ UNCHANGED <<listed, disturbed>>
    /\ UNCHANGED <<bucket, meterMap, req>>

ListedUnder(k) == {m \in listed : m.key = k}

\* Mutant of AddMeters: the map starts afresh with what List returned.
AddMetersReplacing ==
    /\ boot = "listed"
    /\ meterMap' = [k \in Keys |-> IF ListedUnder(k) = {}
                                   THEN NoMeter
                                   ELSE CHOOSE m \in ListedUnder(k) : TRUE]
    /\ boot' = "consuming"
    /\ listed' = {}
    /\ UNCHANGED <<bucket, req, disturbed>>

AddMeters ==
    /\ boot = "listed"
    /\ meterMap' = [k \in Keys |-> IF ListedUnder(k) = {}
                                   THEN meterMap[k]
                                   ELSE CHOOSE m \in ListedUnder(k) : TRUE]
    /\ boot' = "consuming"
    /\ listed' = {}
    /\ UNCHANGED <<bucket, req, disturbed>>

\* The process ends at any step.  Requests are cut off, the map is lost; the
\* history starts afresh with the next process.
Crash ==
    /\ boot # "down"
    /\ boot' = "down"
    /\ meterMap' = [k \in Keys |-> NoMeter]
    /\ req' = [c \in Clients |-> Idle]
    /\ listed' = {}
    /\ disturbed' = {}
    /\ UNCHANGED bucket

-----------------------------------------------------------------------------
(* Specification                                                           *)

Handler(c) ==
    \/ RegisterGet(c) \/ RegisterSet(c) \/ AddMeterToConsume(c)
    \/ Drop(c) \/ RemoveMeterFromConsume(c)

Boot == StartServing \/ List \/ AddMeters

Next ==
    \/ \E c \in Clients, k \in Keys, d \in Defs : CreateMeter(c, k, d)
    \/ \E c \in Clients, k \in Keys : DeleteMeter(c, k)
    \/ \E c \in Clients : Handler(c)
    \/ Boot
    \/ Crash

Spec == Init /\ [][Next]_vars

\* The Go scheduler runs every goroutine and every store call ends, with an
\* answer or an error; nothing makes a client send a request or a crash happen.
Fairness ==
    /\ \A c \in Clients : WF_vars(Handler(c))
    /\ WF_vars(Boot)

FairSpec == Spec /\ Fairness

-----------------------------------------------------------------------------
(* Properties                                                              *)

\* No other key of the clients is stored under k's place.
Unaliased(k) == \A j \in Keys : sanitiseKey[j] = sanitiseKey[k] => j = k

\* The calls on k came one after another and were all answered.
Orderly(k) == Unaliased(k) /\ sanitiseKey[k] \notin disturbed

\* The map agrees with the bucket: once the process consumes, a meter whose
\* requests did not overlap each other or the start-up load, and got their
\* answers, is in meterMap exactly as it is in the bucket - whatever
\* happens on other keys, and through any number of restarts.
RegistryAgreement ==
    \A k \in Keys :
        /\ boot = "consuming"
        /\ Orderly(k)
        /\ InFlight(sanitiseKey[k]) = {}
        => meterMap[k] = bucket[sanitiseKey[k]]

\* A registered meter is immutable: RegisterMeter's look-up is still true when
\* its Set runs, so on an orderly key a stored meter never turns into another
\* one; it has to be deleted first.
RegisteredMeterKept ==
    [][\A k \in Keys :
          /\ k \notin disturbed
          /\ bucket[k] # NoMeter
          /\ bucket'[k] # NoMeter
          => bucket'[k] = bucket[k]]_vars

\* The same, of every key: a second create of a stored key is refused, which
\* is what MeterAlreadyExistError announces (internal/domain/api.go:12).
SecondCreateRefused ==
    [][\A k \in Keys :
          bucket[k] # NoMeter /\ bucket'[k] # NoMeter => bucket'[k] = bucket[k]]_vars

\* A stored meter gets watched: it reaches meterMap through its own handler or
\* through the load of the next process, unless it is deleted, the process
\* dies or its List fails (which ends consumption for good).
StoredMeterWatched ==
    \A k \in Keys :
        Orderly(k) /\ bucket[sanitiseKey[k]] # NoMeter
        ~> \/ meterMap[k] # NoMeter /\ meterMap[k] = bucket[sanitiseKey[k]]
           \/ bucket[sanitiseKey[k]] = NoMeter
           \/ boot \in {"down", "failed"}
           \/ ~Orderly(k)
=============================================================================
