----------------------------- MODULE EventIngest -----------------------------
(***************************************************************************)
(* Events and meters meet: register-event decides which events are stored  *)
(* (internal/app/app.go), and each meter's durable consumer, through its   *)
(* filter subject, which of them the meter counts and under which key      *)
(* (internal/domain/events-consumer.go, readings.go).                      *)
(*                                                                         *)
(* Several meters and event types share one stream with one deduplication  *)
(* window and one bucket of readings.  The steps of the handlers and of    *)
(* the load are in MeterRegistry, those of a meter's goroutine in          *)
(* Reconciler, and the order of reads and writes and redelivery of one     *)
(* message in EventPipeline; here each of them is one action, with every   *)
(* outcome it has there.                                                   *)
(***************************************************************************)
EXTENDS Subjects

CONSTANTS
    Meters,      \* the meters that may be created
    Events,      \* the events clients send, each any number of times
    Clients,     \* register-event requests that can be in flight together
    NoEvent,
    MaxStored    \* bound on the messages in the stream

ASSUME MetersAreMeters == Meters \subseteq Meter
\* Meters with one key are one entry of meterMap (MeterRegistry).
ASSUME KeysAreDistinct == \A m, n \in Meters : MeterKey(m) = MeterKey(n) => m = n
ASSUME EventsAreEvents == Events \subseteq Event
ASSUME NoEventIsNotAnEvent == NoEvent \notin Events
ASSUME MaxStoredAssumption == MaxStored \in Nat

VARIABLES
    meters,      \* the "meters" bucket; where meterMap agrees with it
    boot,        \* has StartConsumingEvents listed the bucket yet?
    req,         \* the event each client is about to publish
    stream,      \* the messages under meters.events, in order
    recent,      \* the ids in the stream's deduplication window
    forgotten,   \* history: the ids that have been in the window and left it
    cursor,      \* how far each meter's durable consumer has come
    live,        \* the meters with a goroutine that consumes for them
    stuck,       \* those whose goroutine returned without a consumer
    zombies,     \* those with a cancelled one that goes on consuming
    readings,    \* what has been counted: meter, part and message
    failed,      \* history: the parts a message was not counted in
    accepted     \* history: the ids of the events answered with 202

registry == <<meters, boot>>
goroutines == <<live, stuck, zombies>>
consumption == <<cursor, readings, failed>>

vars == <<registry, req, stream, recent, forgotten, goroutines, consumption, accepted>>

Ids == {stream[i].id : i \in DOMAIN stream}

TypeOK ==
    /\ meters \subseteq Meters
    /\ boot \in {"loading", "running", "ended"}
    /\ req \in [Clients -> Events \cup {NoEvent}]
    /\ stream \in Seq(Events) /\ Len(stream) <= MaxStored
    /\ recent \subseteq Ids /\ forgotten \subseteq Ids
    /\ cursor \in [Meters -> 0..Len(stream)]
    /\ live \subseteq Meters /\ stuck \subseteq Meters /\ zombies \subseteq Meters
    /\ \A r \in readings \cup failed :
           /\ r.meter \in Meters /\ r.part \in Parts(r.meter)
           /\ r.entry \in 1..cursor[r.meter]
    /\ accepted \subseteq {e.id : e \in Events}

Init ==
    /\ meters = {} /\ boot = "loading"
    /\ req = [c \in Clients |-> NoEvent]
    /\ stream = <<>> /\ recent = {} /\ forgotten = {}
    /\ cursor = [m \in Meters |-> 0]
    /\ live = {} /\ stuck = {} /\ zombies = {}
    /\ readings = {} /\ failed = {}
    /\ accepted = {}

-----------------------------------------------------------------------------
(* Meters and their goroutines come and go                                 *)

\* The key of m in the bucket of meters, which m may share with others.
StoredKey(m) == sanitiseKey(MeterKey(m))

\* RegisterMeter finds nothing under the key.
CreateMeter(m) ==
    /\ \A n \in meters : StoredKey(n) # StoredKey(m)
    /\ meters' = meters \cup {m}
    /\ UNCHANGED <<boot, req, stream, recent, forgotten, goroutines, consumption, accepted>>

DeleteMeter(m) ==
    /\ m \in meters
    /\ meters' = meters \ {m}
    /\ UNCHANGED <<boot, req, stream, recent, forgotten, goroutines, consumption, accepted>>

\* The List at the start of StartConsumingEvents: an error ends consumption,
\* and the process serves on.
Load ==
    /\ boot = "loading"
    /\ boot' \in {"running", "ended"}
    /\ UNCHANGED <<meters, req, stream, recent, forgotten, goroutines, consumption, accepted>>

\* Mutant of Attach: the consumer has no durable name and starts again.
AttachEphemeral(m) ==
    /\ boot = "running"
    /\ m \in meters \ (live \cup stuck)
    /\ live' = live \cup {m}
    /\ cursor' = [cursor EXCEPT ![m] = 0]
    /\ UNCHANGED <<registry, req, stream, recent, forgotten, stuck, zombies, readings,
                   failed, accepted>>

\* The durable consumer is named after the meter's key and outlives goroutines
\* and processes; a new one starts with the first message of the stream.  A
\* goroutine that cannot create it, or the stream, returns, and its entry in
\* ctxMap keeps every other one from trying.
Attach(m) ==
    /\ boot = "running"
    /\ m \in meters \ (live \cup stuck)
    /\ \/ live' = live \cup {m} /\ UNCHANGED stuck
       \/ stuck' = stuck \cup {m} /\ UNCHANGED live
    /\ UNCHANGED <<registry, req, stream, recent, forgotten, zombies, consumption, accepted>>

Cancel(m) ==
    /\ m \in (live \cup stuck) \ meters
    /\ live' = live \ {m} /\ stuck' = stuck \ {m}
    /\ zombies' = IF m \in live THEN zombies \cup {m} ELSE zombies
    /\ UNCHANGED <<registry, req, stream, recent, forgotten, consumption, accepted>>

Crash ==
    /\ boot' = "loading"
    /\ live' = {} /\ stuck' = {} /\ zombies' = {}
    /\ req' = [c \in Clients |-> NoEvent]
    /\ UNCHANGED <<meters, stream, recent, forgotten, consumption, accepted>>

-----------------------------------------------------------------------------
(* register-event                                                          *)

\* BodyParser, IsValid and ToJson have no error.
Valid(e) == e.form = "good"

\* Entries of an empty bucket is an error.
ListMetersFails == meters = {}

\* Any meter at all lets the request go on, whatever its type.  A refusal
\* changes nothing.
RegisterEvent(c, e) ==
    /\ req[c] = NoEvent
    /\ ~ListMetersFails
    /\ Valid(e)
    /\ req' = [req EXCEPT ![c] = e]
    /\ UNCHANGED <<registry, stream, recent, forgotten, goroutines, consumption, accepted>>

Store(e) ==
    /\ Len(stream) < MaxStored
    /\ stream' = Append(stream, e)
    /\ recent' = recent \cup {e.id}

\* The stream stores a message, unless it has one with the id in its window.
StreamTakes(e) ==
    \/ e.id \in recent /\ UNCHANGED <<stream, recent>>
    \/ e.id \notin recent /\ Store(e)

\* Mutants of Publish: an error of Produce is logged and the event accepted;
\* the message carries no id.
PublishUnchecked(c) ==
    /\ req[c] # NoEvent
    /\ StreamTakes(req[c]) \/ UNCHANGED <<stream, recent>>
    /\ accepted' = accepted \cup {req[c].id}
    /\ req' = [req EXCEPT ![c] = NoEvent]
    /\ UNCHANGED <<registry, forgotten, goroutines, consumption>>

PublishWithoutId(c) ==
    /\ req[c] # NoEvent
    /\ \/ Store(req[c]) /\ accepted' = accepted \cup {req[c].id}
       \/ Store(req[c]) /\ UNCHANGED accepted
       \/ UNCHANGED <<stream, recent, accepted>>
    /\ req' = [req EXCEPT ![c] = NoEvent]
    /\ UNCHANGED <<registry, forgotten, goroutines, consumption>>

\* Produce with the id as message id: a duplicate is dropped by the stream and
\* accepted all the same, and an error may come after the message was stored.
Publish(c) ==
    /\ req[c] # NoEvent
    /\ \/ StreamTakes(req[c]) /\ accepted' = accepted \cup {req[c].id}
       \/ StreamTakes(req[c]) /\ UNCHANGED accepted
       \/ UNCHANGED <<stream, recent, accepted>>
    /\ req' = [req EXCEPT ![c] = NoEvent]
    /\ UNCHANGED <<registry, forgotten, goroutines, consumption>>

\* The deduplication window has passed.
Forget(id) ==
    /\ id \in recent
    /\ recent' = recent \ {id}
    /\ forgotten' = forgotten \cup {id}
    /\ UNCHANGED <<registry, req, stream, goroutines, consumption, accepted>>

-----------------------------------------------------------------------------
(* Consumption                                                             *)

ForMeter(m, i) == Matches(FilterSubject(m), EventSubject(stream[i]))

Pending(m) == {i \in (cursor[m] + 1)..Len(stream) : ForMeter(m, i)}

\* Message i in the given parts of m.
Shares(m, i, parts) == {[meter |-> m, part |-> g, entry |-> i] : g \in parts}

\* The key in the bucket of readings under which it is counted.
Place(r) == sanitiseKey(ReadingKey(r.meter, stream[r.entry].subject, r.part))

\* A part whose update failed is put down as a dead letter, under the event's
\* id and on the same stream, if that does not fail as well.
DeadLetter(i) == recent' = recent \cup {stream[i].id}

\* Every part has its own Get and Set, and whatever fails is only logged.
Update(m, i, fine) ==
    /\ readings' = readings \cup Shares(m, i, fine)
    /\ failed' = failed \cup Shares(m, i, Parts(m) \ fine)

\* One of the meter's goroutines gets the next message of the durable consumer
\* and acknowledges it, counted or not; a cancelled one can count nothing.
Consume(m) ==
    /\ m \in live \cup zombies
    /\ \E i \in Pending(m) :
           /\ \A j \in Pending(m) : i <= j
           /\ cursor' = [cursor EXCEPT ![m] = i]
           /\ \/ m \in zombies /\ Update(m, i, {}) /\ UNCHANGED recent
              \/ m \in live /\ Update(m, i, Parts(m)) /\ UNCHANGED recent
              \/ /\ m \in live
                 /\ \E fine \in SUBSET Parts(m) : fine # Parts(m) /\ Update(m, i, fine)
                 /\ DeadLetter(i) \/ UNCHANGED recent
    /\ UNCHANGED <<registry, req, stream, forgotten, goroutines, accepted>>

-----------------------------------------------------------------------------
(* Specification                                                           *)

Next ==
    \/ \E m \in Meters :
           CreateMeter(m) \/ DeleteMeter(m) \/ Attach(m) \/ Cancel(m) \/ Consume(m)
    \/ \E c \in Clients : Publish(c) \/ \E e \in Events : RegisterEvent(c, e)
    \/ \E id \in recent : Forget(id)
    \/ Load
    \/ Crash

Spec == Init /\ [][Next]_vars

\* The List returns, a wanted meter's goroutine gets as far as its consumer or
\* gives up (MeterConsumed in Reconciler), and a durable consumer that is
\* pulled from delivers.
Fairness ==
    /\ WF_vars(Load)
    /\ \A m \in Meters : WF_vars(Attach(m)) /\ WF_vars(Consume(m))

FairSpec == Spec /\ Fairness

-----------------------------------------------------------------------------
(* Properties                                                              *)

\* What a client was told is true as far as its id goes: a message with the id
\* of an accepted event is in the stream, through retries, duplicates and
\* errors of Produce.
AcceptedIdIsStored == accepted \subseteq Ids

\* A client that gets no answer, or an error, may send its event again: no
\* meter counts the id twice in one part, unless the deduplication window was
\* over in between (internal/app/app.go:175).
RetryCountsOnce ==
    \A r, s \in readings :
        /\ r.meter = s.meter /\ r.part = s.part
        /\ stream[r.entry].id = stream[s.entry].id
        /\ r.entry # s.entry
        => stream[r.entry].id \in forgotten

\* As many dots in the types and as many in the ids.
SameShape(m, n) == Len(m.type) = Len(n.type) /\ Len(m.id) = Len(n.id)

\* Dots confuse nobody whose names have equally many.  A meter counts no event
\* of another type with as many dots as its own.  Two readings of one meter, or
\* of two meters of the same shape, lie in one place of the bucket only if
\* their subjects are the same, and their groups and their meters' keys are
\* told apart by colons and dashes alone, so that the bucket of meters does not
\* tell these apart either (nats-kv-repo.go:175).
ReadingsApart ==
    \A r \in readings :
        /\ Len(stream[r.entry].type) = Len(r.meter.type) => stream[r.entry].type = r.meter.type
        /\ \A s \in readings :
               SameShape(r.meter, s.meter) /\ Place(r) = Place(s) =>
                   /\ stream[r.entry].subject = stream[s.entry].subject
                   /\ sanitiseKey(r.part) = sanitiseKey(s.part)
                   /\ StoredKey(r.meter) = StoredKey(s.meter)

\* m's goroutine ended without a consumer, or the process without a List.
GivenUp(m) == m \in stuck \/ boot = "ended"

\* Every message of m's type has been counted in every part of m, or has failed there.
CaughtUp(m) ==
    \A i \in DOMAIN stream : stream[i].type = m.type =>
        Parts(m) \subseteq {r.part : r \in {x \in readings \cup failed : x.meter = m /\ x.entry = i}}

\* Several meters on one stream do not take events from each other, and none of
\* them misses one that was there before it: however often meters come and go, a
\* wanted one comes to have had every stored message of its type in every part,
\* unless NATS refuses its consumer or the List, or the process keeps dying.
EveryMeterReached ==
    \/ []<>(boot = "loading")
    \/ \A m \in Meters : []<>(CaughtUp(m) \/ m \notin meters \/ GivenUp(m))
=============================================================================
