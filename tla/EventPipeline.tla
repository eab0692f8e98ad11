---------------------------- MODULE EventPipeline ----------------------------
(***************************************************************************)
(* The way of an event through kloudmeter, for one meter: register-event   *)
(* publishes it with its id for deduplication (internal/app/app.go), the   *)
(* meter's durable JetStream consumer hands it to the goroutines that      *)
(* consume for the meter (pkg/messaging/nats/jetstream-consumer.go), and   *)
(* the goroutine updates one reading per target - the total and each       *)
(* groupBy entry - before it acknowledges (internal/domain/readings.go and *)
(* the callback in events-consumer.go).                                    *)
(*                                                                         *)
(* A reading is updated by a Get and a Set with the new value; nothing     *)
(* guards the time between.  A goroutine whose meter has been deleted is   *)
(* cancelled, which makes its calls fail, but it goes on consuming.  An    *)
(* update that fails is published to meters.event-errors on the same       *)
(* stream, and the message is acknowledged all the same.  JetStream        *)
(* delivers again what is not acknowledged in time.                        *)
(***************************************************************************)
EXTENDS Naturals, Sequences

CONSTANTS
    Msgs,         \* publications to meters.events.<type of the meter>
    Ids,          \* the ids of the events in them
    idOf,         \* [Msgs -> Ids]; a client that retries sends an id again
    Main,         \* the meter's own reading
    Groups,       \* the keys of its groupBy
    fate,         \* what the data holds for a target: a fit value, one that
                  \* dataOnPath reports as an error, or a null
    Workers,      \* goroutines that come to consume for the meter
    NoMsg, NoTarget,
    MaxFaults,    \* bound on errors of NATS, expired AckWaits and crashes
    MaxApplied    \* bound on how often one message is applied to one target

Targets == {Main} \cup Groups

ASSUME MainIsNotAGroup == Main \notin Groups
ASSUME NothingIsNotAMessage == NoMsg \notin Msgs /\ NoTarget \notin Targets
ASSUME EventsHaveIds == idOf \in [Msgs -> Ids]
ASSUME FateOfEveryTarget == fate \in [Msgs -> [Targets -> {"fit", "misfit", "null"}]]
ASSUME BoundsAreNumbers == MaxFaults \in Nat /\ MaxApplied \in Nat

VARIABLES
    stored,       \* the messages in the stream
    recent,       \* the ids in the stream's deduplication window
    ready,        \* stored messages JetStream has yet to deliver (again)
    settled,      \* acknowledged messages
    worker,       \* what each goroutine does, and the deliveries it buffers
    reading,      \* the "readings" bucket, as a bag of messages per target
    dead,         \* the ids of the events under meters.event-errors
    tried,        \* history: the targets a message got to, fitting or not
    troubled,     \* history: messages that met a fault or a cancelled call
    faults,       \* how many faults there have been
    fresh         \* history: messages stored since a consumer was last
                  \* started or cancelled

vars == <<stored, recent, ready, settled, worker, reading, dead, tried, troubled,
          faults, fresh>>

Off == [at |-> "off", msg |-> NoMsg, target |-> NoTarget, todo |-> {},
        copy |-> [m \in Msgs |-> 0], cancelled |-> FALSE, buffer |-> <<>>]

WorkerState ==
    [at : {"off", "idle", "get", "put", "report", "next", "ack"},
     msg : Msgs \cup {NoMsg}, target : Targets \cup {NoTarget},
     todo : SUBSET Groups, copy : [Msgs -> Nat],
     cancelled : BOOLEAN, buffer : Seq(Msgs)]

TypeOK ==
    /\ stored \subseteq Msgs /\ ready \subseteq stored /\ settled \subseteq stored
    /\ recent \subseteq Ids /\ dead \subseteq Ids
    /\ worker \in [Workers -> WorkerState]
    /\ reading \in [Targets -> [Msgs -> Nat]]
    /\ tried \in [Msgs -> SUBSET Targets]
    /\ troubled \subseteq Msgs /\ fresh \subseteq Msgs
    /\ faults \in 0..MaxFaults

Init ==
    /\ stored = {} /\ recent = {} /\ ready = {} /\ settled = {}
    /\ worker = [w \in Workers |-> Off]
    /\ reading = [t \in Targets |-> [m \in Msgs |-> 0]]
    /\ dead = {}
    /\ tried = [m \in Msgs |-> {}]
    /\ troubled = {} /\ fresh = {}
    /\ faults = 0

Live(w) == worker[w].at # "off" /\ ~worker[w].cancelled
Holds(w, m) == worker[w].msg = m \/ \E i \in DOMAIN worker[w].buffer : worker[w].buffer[i] = m
Held(m) == \E w \in Workers : Holds(w, m)

\* An error of NATS, an expired AckWait or a crash, while the bound allows one.
Fault == faults < MaxFaults /\ faults' = faults + 1

-----------------------------------------------------------------------------
(* The HTTP handler and the stream                                         *)

\* Publishing under an id that is in the window is acknowledged to the client
\* and stores nothing.
RegisterEvent(m) ==
    /\ m \notin stored
    /\ idOf[m] \notin recent
    /\ stored' = stored \cup {m}
    /\ ready' = ready \cup {m}
    /\ recent' = recent \cup {idOf[m]}
    /\ fresh' = fresh \cup {m}
    /\ UNCHANGED <<settled, worker, reading, dead, tried, troubled, faults>>

\* The deduplication window, two minutes by default, has passed.
Forget(id) ==
    /\ id \in recent
    /\ recent' = recent \ {id}
    /\ UNCHANGED <<stored, ready, settled, worker, reading, dead, tried, troubled,
                   faults, fresh>>

\* Every goroutine of the meter uses the same durable consumer: any of them may
\* get the message.
Deliver(w, m) ==
    /\ worker[w].at # "off"
    /\ m \in ready
    /\ ready' = ready \ {m}
    /\ worker' = [worker EXCEPT ![w].buffer = Append(@, m)]
    /\ UNCHANGED <<stored, recent, settled, reading, dead, tried, troubled, faults, fresh>>

\* AckWait runs from the delivery, also while a message waits its turn.
AckWaitExpires(m) ==
    /\ m \in stored \ (ready \cup settled)
    /\ Held(m)
    /\ Fault
    /\ ready' = ready \cup {m}
    /\ troubled' = troubled \cup {m}
    /\ UNCHANGED <<stored, recent, settled, worker, reading, dead, tried, fresh>>

\* Nobody has the message any more, and nobody has acknowledged it.
Redeliver(m) ==
    /\ m \in stored \ (ready \cup settled)
    /\ ~Held(m)
    /\ ready' = ready \cup {m}
    /\ troubled' = troubled \cup {m}
    /\ UNCHANGED <<stored, recent, settled, worker, reading, dead, tried, faults, fresh>>

-----------------------------------------------------------------------------
(* Goroutines come and go                                                  *)

\* The reconciler keeps one consumer per meter that is not cancelled
\* (OneTrackedConsumer in Reconciler).
StartWorker(w) ==
    /\ worker[w] = Off
    /\ \A v \in Workers : ~Live(v)
    /\ worker' = [worker EXCEPT ![w].at = "idle"]
    /\ fresh' = {}
    /\ UNCHANGED <<stored, recent, ready, settled, reading, dead, tried, troubled, faults>>

\* The meter is deleted: the goroutine's context ends, its consumption does not.
Cancel(w) ==
    /\ Live(w)
    /\ worker' = [worker EXCEPT ![w].cancelled = TRUE]
    /\ fresh' = {}
    /\ UNCHANGED <<stored, recent, ready, settled, reading, dead, tried, troubled, faults>>

Crash ==
    /\ Fault
    /\ worker' = [w \in Workers |-> Off]
    /\ fresh' = {}
    /\ UNCHANGED <<stored, recent, ready, settled, reading, dead, tried, troubled>>

-----------------------------------------------------------------------------
(* Consuming one message                                                   *)

msg(w) == worker[w].msg
target(w) == worker[w].target

Trouble(w) == troubled' = troubled \cup {msg(w)}

\* Consume's callback takes the next delivery.  InProgress may fail: the
\* message is Nak'ed, or the Nak is lost too and the AckWait runs out.
Begin(w) ==
    LET m == Head(worker[w].buffer)
        rest == Tail(worker[w].buffer) IN
    /\ worker[w].at = "idle"
    /\ worker[w].buffer # <<>>
    /\ \/ /\ worker' = [worker EXCEPT ![w] =
                 [@ EXCEPT !.at = "get", !.msg = m, !.target = Main, !.todo = Groups,
                           !.buffer = rest]]
          /\ UNCHANGED <<troubled, faults>>
       \/ /\ Fault
          /\ worker' = [worker EXCEPT ![w].buffer = rest]
          /\ troubled' = troubled \cup {m}
    /\ UNCHANGED <<stored, recent, ready, settled, reading, dead, tried, fresh>>

\* Mutant of Get: a value that does not fit is counted.
GetCountsMisfit(w) ==
    /\ worker[w].at = "get"
    /\ ~worker[w].cancelled
    /\ fate[msg(w)][target(w)] # "null"
    /\ worker' = [worker EXCEPT ![w].at = "put", ![w].copy = reading[target(w)]]
    /\ UNCHANGED <<stored, recent, ready, settled, reading, dead, tried, troubled,
                   faults, fresh>>

\* upsertReadings reads the reading and updateReading or createReading looks at
\* the value; neither counts a value that does not fit.
Get(w) ==
    /\ worker[w].at = "get"
    /\ ~worker[w].cancelled
    /\ fate[msg(w)][target(w)] # "null"
    /\ worker' = [worker EXCEPT ![w] =
           IF fate[msg(w)][target(w)] = "fit"
           THEN [@ EXCEPT !.at = "put", !.copy = reading[target(w)]]
           ELSE [@ EXCEPT !.at = "report"]]
    /\ UNCHANGED <<stored, recent, ready, settled, reading, dead, tried, troubled,
                   faults, fresh>>

\* The Get fails, because of NATS or because the goroutine is cancelled.
GetFails(w) ==
    /\ worker[w].at = "get"
    /\ \/ worker[w].cancelled /\ UNCHANGED faults
       \/ Fault
    /\ worker' = [worker EXCEPT ![w].at = "report"]
    /\ Trouble(w)
    /\ UNCHANGED <<stored, recent, ready, settled, reading, dead, tried, fresh>>

\* reflect.ValueOf(nil).Type() panics, and no recover is in sight.
GetPanics(w) ==
    /\ worker[w].at = "get"
    /\ ~worker[w].cancelled
    /\ fate[msg(w)][target(w)] = "null"
    /\ worker' = [v \in Workers |-> Off]
    /\ fresh' = {}
    /\ UNCHANGED <<stored, recent, ready, settled, reading, dead, tried, troubled, faults>>

Write(w) ==
    reading' = [reading EXCEPT ![target(w)] =
                   [worker[w].copy EXCEPT ![msg(w)] = @ + 1]]

Try(w) == tried' = [tried EXCEPT ![msg(w)] = @ \cup {target(w)}]

\* Mutant of Put: the Set does not take the goroutine's context.
PutDespiteCancel(w) ==
    /\ worker[w].at = "put"
    /\ worker[w].copy[msg(w)] < MaxApplied
    /\ Write(w)
    /\ Try(w)
    /\ worker' = [worker EXCEPT ![w].at = "next"]
    /\ UNCHANGED <<stored, recent, ready, settled, dead, troubled, faults, fresh>>

\* Set overwrites the reading with the copy and this message's share.
Put(w) ==
    /\ worker[w].at = "put"
    /\ ~worker[w].cancelled
    /\ worker[w].copy[msg(w)] < MaxApplied
    /\ Write(w)
    /\ Try(w)
    /\ worker' = [worker EXCEPT ![w].at = "next"]
    /\ UNCHANGED <<stored, recent, ready, settled, dead, troubled, faults, fresh>>

\* The Set fails; on an error of NATS the reading may have been stored.
PutFails(w) ==
    /\ worker[w].at = "put"
    /\ \/ worker[w].cancelled /\ UNCHANGED <<reading, tried, faults>>
       \/ ~worker[w].cancelled /\ Fault /\ UNCHANGED <<reading, tried>>
       \/ /\ ~worker[w].cancelled
          /\ worker[w].copy[msg(w)] < MaxApplied
          /\ Fault /\ Write(w) /\ Try(w)
    /\ worker' = [worker EXCEPT ![w].at = "report"]
    /\ Trouble(w)
    /\ UNCHANGED <<stored, recent, ready, settled, dead, fresh>>

\* The dead letter goes to the same stream under the same id: while the id is
\* in the window, the stream drops it.
DeadLetter(w) ==
    /\ dead' = IF idOf[msg(w)] \in recent THEN dead ELSE dead \cup {idOf[msg(w)]}
    /\ recent' = recent \cup {idOf[msg(w)]}

\* Mutant of Report: the failed update ends the message without an answer.
ReportWithoutAck(w) ==
    /\ worker[w].at = "report"
    /\ DeadLetter(w)
    /\ Try(w)
    /\ worker' = [worker EXCEPT ![w] =
           [@ EXCEPT !.at = "idle", !.msg = NoMsg, !.target = NoTarget]]
    /\ UNCHANGED <<stored, ready, settled, reading, troubled, faults, fresh>>

\* A failing Produce is logged; on an error of NATS the dead letter may have
\* been stored.
Report(w) ==
    /\ worker[w].at = "report"
    /\ \/ ~worker[w].cancelled /\ DeadLetter(w) /\ UNCHANGED <<troubled, faults>>
       \/ ~worker[w].cancelled /\ Fault /\ Trouble(w) /\ (DeadLetter(w) \/ UNCHANGED <<dead, recent>>)
       \/ worker[w].cancelled /\ Trouble(w) /\ UNCHANGED <<dead, recent, faults>>
    /\ Try(w)
    /\ worker' = [worker EXCEPT ![w].at = "next"]
    /\ UNCHANGED <<stored, ready, settled, reading, fresh>>

\* Mutant of NextTarget: the target just served is queued once more.
NextTargetRequeued(w) ==
    /\ worker[w].at = "next"
    /\ \/ \E g \in worker[w].todo :
             worker' = [worker EXCEPT ![w] =
                 [@ EXCEPT !.at = "get", !.target = g,
                           !.todo = (worker[w].todo \ {g}) \cup {target(w)}]]
       \/ worker[w].todo = {} /\ worker' = [worker EXCEPT ![w].at = "ack"]
    /\ UNCHANGED <<stored, recent, ready, settled, reading, dead, tried, troubled,
                   faults, fresh>>

\* The groups follow the main reading in the order of Go's map iteration; after
\* the last, updateReadings returns nil whatever has happened.
NextTarget(w) ==
    /\ worker[w].at = "next"
    /\ \/ \E g \in worker[w].todo :
             worker' = [worker EXCEPT ![w] =
                 [@ EXCEPT !.at = "get", !.target = g, !.todo = worker[w].todo \ {g}]]
       \/ worker[w].todo = {} /\ worker' = [worker EXCEPT ![w].at = "ack"]
    /\ UNCHANGED <<stored, recent, ready, settled, reading, dead, tried, troubled,
                   faults, fresh>>

\* An acknowledgement needs no context.  It may be lost.
Ack(w) ==
    /\ worker[w].at = "ack"
    /\ \/ /\ settled' = settled \cup {msg(w)}
          /\ ready' = ready \ {msg(w)}
          /\ UNCHANGED faults
       \/ Fault /\ UNCHANGED <<settled, ready>>
    /\ worker' = [worker EXCEPT ![w] =
           [@ EXCEPT !.at = "idle", !.msg = NoMsg, !.target = NoTarget]]
    /\ UNCHANGED <<stored, recent, reading, dead, tried, troubled, fresh>>

Step(w) ==
    \/ Begin(w) \/ Get(w) \/ GetFails(w) \/ GetPanics(w) \/ Put(w) \/ PutFails(w)
    \/ Report(w) \/ NextTarget(w) \/ Ack(w)

-----------------------------------------------------------------------------
(* Specification                                                           *)

Next ==
    \/ \E m \in Msgs : RegisterEvent(m) \/ AckWaitExpires(m) \/ Redeliver(m)
    \/ \E id \in Ids : Forget(id)
    \/ \E w \in Workers, m \in Msgs : Deliver(w, m)
    \/ \E w \in Workers : StartWorker(w) \/ Cancel(w) \/ Step(w)
    \/ Crash

Spec == Init /\ [][Next]_vars

\* JetStream delivers what is ready while somebody pulls, and again what
\* nobody has acknowledged; calls end and goroutines run.
Fairness ==
    /\ \A m \in Msgs : WF_vars(Redeliver(m)) /\ WF_vars(\E w \in Workers : Deliver(w, m))
    /\ \A w \in Workers : WF_vars(Step(w))

FairSpec == Spec /\ Fairness

-----------------------------------------------------------------------------
(* Properties                                                              *)

\* The pipeline implements Metering: updates of a reading by different
\* goroutines, deliveries and processes never lose each other, and a message
\* is acknowledged only when each of its targets has had its turn.
Promise == INSTANCE Metering
ImplementsMetering == Promise!Spec

\* A message that met no fault, no second delivery and no cancelled call is
\* counted exactly once on every target its data fits, and on no other.
ExactlyOnce ==
    \A m \in settled \ troubled, t \in Targets :
        reading[t][m] = IF fate[m][t] = "fit" THEN 1 ELSE 0

\* Where no message holds a null, a reading counts a message once, and once more
\* for each fault at most: goroutines that are cancelled and replaced, buffers
\* that go down with them and redeliveries alone never count it twice.
OvercountNeedsFaults ==
    (\A m \in Msgs, t \in Targets : fate[m][t] # "null") =>
        \A m \in Msgs, t \in Targets : reading[t][m] <= faults + 1

\* Once somebody consumes, every stored message is settled or the process dies.
StoredIsSettled ==
    \A m \in Msgs :
        m \in stored ~> m \in settled \/ \A w \in Workers : worker[w].at = "off"

\* An update that fails without NATS being at fault leaves the event in the
\* dead letter queue (internal/domain/readings.go:62).
FailedUpdateIsDeadLettered ==
    \A m \in settled \ troubled, t \in Targets :
        fate[m][t] = "misfit" => idOf[m] \in dead

\* An event registered after the meter's consumer was started, and not
\* followed by a change of consumers, is metered (README.md:95) once it is
\* acknowledged and NATS has made no error.
RegisteredEventIsMetered ==
    \A m \in settled \cap fresh, t \in Targets :
        faults = 0 /\ fate[m][t] = "fit" /\ (\E w \in Workers : Live(w)) => reading[t][m] > 0

\* A value of another type is an error that dataOnPath returns
\* (internal/domain/readings.go:230): no message stops the process.
OnlyFaultsStopTheProcess ==
    [][(\E w \in Workers : worker[w].at # "off") /\ (\A w \in Workers : worker'[w].at = "off")
       => faults' > faults]_vars
=============================================================================
