------------------------------ MODULE Reconciler ------------------------------
(***************************************************************************)
(* How meterMap becomes running consumers: the polling loop at the end of  *)
(* StartConsumingEvents, the runner of consumerController and the          *)
(* goroutine it starts for every meter that comes up                       *)
(* (internal/domain/events-consumer.go).                                   *)
(*                                                                         *)
(* Three kinds of process share four Go maps without a lock.  The HTTP     *)
(* handlers write meterMap at any moment.  The loop compares it with       *)
(* oldMeterMap every five seconds and hands each difference over an        *)
(* unbuffered channel.  The runner takes a meter that went down out of     *)
(* ctxMap and cancels its goroutine; for a meter that came up it starts a  *)
(* goroutine, which looks at ctxMap and writes to it on its own account.   *)
(***************************************************************************)
EXTENDS Integers, FiniteSets

CONSTANTS
    Meters,       \* the hashes of the meters' keys
    Defs,         \* what AddMeterToConsume can put under a hash
    Workers,      \* the goroutines the runner can start: bounds the ups
    NoDef, NoMeter, NoWorker

ASSUME NoDefIsNotADef == NoDef \notin Defs
ASSUME NoMeterIsNotAMeter == NoMeter \notin Meters
ASSUME NoWorkerIsNotAWorker == NoWorker \notin Workers

VARIABLES
    meterMap,     \* what the handlers want consumed
    oldMeterMap,  \* what the loop has handed over as up and not yet as down
    loop,         \* where the loop is; sending: the meter it blocks on
    runner,       \* where the runner is, and the down it is working on
    ctxMap,       \* whose cancel function is kept for a meter
    worker,       \* every goroutine, with the meter it closed over
    stream,       \* does the NATS stream exist?
    hasty         \* history: meters that went down before their goroutine
                  \* had put its cancel function into ctxMap

vars == <<meterMap, oldMeterMap, loop, runner, ctxMap, worker, stream, hasty>>

Unborn == [at |-> "unborn", meter |-> NoMeter, def |-> NoDef, cancelled |-> FALSE]

Selecting == [at |-> "select", meter |-> NoMeter]

WorkerState ==
    [at : {"start", "checked", "create", "nostream", "retry", "consume", "done"},
     meter : Meters, def : Defs, cancelled : BOOLEAN]

TypeOK ==
    /\ meterMap \in [Meters -> Defs \cup {NoDef}]
    /\ oldMeterMap \in [Meters -> Defs \cup {NoDef}]
    /\ loop \in [at : {"sleep", "ups", "downs", "up", "down"},
                 todo : SUBSET Meters, sending : Meters \cup {NoMeter}]
    /\ runner \in [at : {"cancel", "delete"}, meter : Meters] \cup {Selecting}
    /\ ctxMap \in [Meters -> Workers \cup {NoWorker}]
    /\ worker \in [Workers -> WorkerState \cup {Unborn}]
    /\ stream \in BOOLEAN
    /\ hasty \subseteq Meters

Init ==
    /\ meterMap = [m \in Meters |-> NoDef]
    /\ oldMeterMap = [m \in Meters |-> NoDef]
    /\ loop = [at |-> "sleep", todo |-> {}, sending |-> NoMeter]
    /\ runner = Selecting
    /\ ctxMap = [m \in Meters |-> NoWorker]
    /\ worker = [w \in Workers |-> Unborn]
    /\ stream \in BOOLEAN
    /\ hasty = {}

Has(map, m) == map[m] # NoDef
Held(map) == {m \in Meters : Has(map, m)}

-----------------------------------------------------------------------------
(* The handlers                                                            *)

\* The goroutines left once every meter that waits to come up has got its own.
SpareWorkers ==
    Cardinality({w \in Workers : worker[w] = Unborn})
    - Cardinality(Held(meterMap) \ Held(oldMeterMap))
    - (IF loop.at = "up" THEN 1 ELSE 0)

\* MeterMap.Add, for a handler or the start-up load.  A key that is there is
\* overwritten in place.  The first conjunct bounds the model: Workers is
\* finite and the runner never lacks a goroutine.
AddMeterToConsume(m, d) ==
    /\ Has(meterMap, m) \/ Has(oldMeterMap, m) \/ SpareWorkers > 0
    /\ meterMap' = [meterMap EXCEPT ![m] = d]
    /\ UNCHANGED <<oldMeterMap, loop, runner, ctxMap, worker, stream, hasty>>

\* MeterMap.RemoveMeter.  A range that has not reached the key will not, even
\* if it comes back.
RemoveMeterFromConsume(m) ==
    /\ Has(meterMap, m)
    /\ meterMap' = [meterMap EXCEPT ![m] = NoDef]
    /\ loop' = IF loop.at \in {"ups", "up"}
               THEN [loop EXCEPT !.todo = @ \ {m}]
               ELSE loop
    /\ UNCHANGED <<oldMeterMap, runner, ctxMap, worker, stream, hasty>>

-----------------------------------------------------------------------------
(* The loop                                                                *)

\* Sleep is over; Go's range will yield every key that is there now and stays,
\* in any order, and may yield keys that are added while it runs.
StartRange ==
    /\ loop.at = "sleep"
    /\ loop' = [at |-> "ups", todo |-> Held(meterMap), sending |-> NoMeter]
    /\ UNCHANGED <<meterMap, oldMeterMap, runner, ctxMap, worker, stream, hasty>>

\* Mutant of FindUp: the meter is sent without being remembered.
FindUpUnremembered(m) ==
    /\ loop.at = "ups"
    /\ Has(meterMap, m) /\ ~Has(oldMeterMap, m)
    /\ oldMeterMap' = oldMeterMap
    /\ loop' = [at |-> "up", todo |-> loop.todo \ {m}, sending |-> m]
    /\ UNCHANGED <<meterMap, runner, ctxMap, worker, stream, hasty>>

FindUp(m) ==
    /\ loop.at = "ups"
    /\ Has(meterMap, m) /\ ~Has(oldMeterMap, m)
    /\ oldMeterMap' = [oldMeterMap EXCEPT ![m] = meterMap[m]]
    /\ loop' = [at |-> "up", todo |-> loop.todo \ {m}, sending |-> m]
    /\ UNCHANGED <<meterMap, runner, ctxMap, worker, stream, hasty>>

\* The first range has yielded all it must; the second is over oldMeterMap.
EndUps ==
    /\ loop.at = "ups"
    /\ \A m \in loop.todo : Has(oldMeterMap, m)
    /\ loop' = [at |-> "downs", todo |-> Held(oldMeterMap), sending |-> NoMeter]
    /\ UNCHANGED <<meterMap, oldMeterMap, runner, ctxMap, worker, stream, hasty>>

\* Mutant of FindDown: the meter is forgotten without being sent.
FindDownUnsent(m) ==
    /\ loop.at = "downs"
    /\ m \in loop.todo
    /\ loop' = [loop EXCEPT !.todo = @ \ {m}]
    /\ oldMeterMap' = IF Has(meterMap, m) THEN oldMeterMap
                      ELSE [oldMeterMap EXCEPT ![m] = NoDef]
    /\ UNCHANGED <<meterMap, runner, ctxMap, worker, stream, hasty>>

FindDown(m) ==
    /\ loop.at = "downs"
    /\ m \in loop.todo
    /\ IF Has(meterMap, m)
       THEN /\ loop' = [loop EXCEPT !.todo = @ \ {m}]
            /\ UNCHANGED oldMeterMap
       ELSE /\ loop' = [at |-> "down", todo |-> loop.todo \ {m}, sending |-> m]
            /\ oldMeterMap' = [oldMeterMap EXCEPT ![m] = NoDef]
    /\ UNCHANGED <<meterMap, runner, ctxMap, worker, stream, hasty>>

EndDowns ==
    /\ loop.at = "downs"
    /\ loop.todo = {}
    /\ loop' = [loop EXCEPT !.at = "sleep"]
    /\ UNCHANGED <<meterMap, oldMeterMap, runner, ctxMap, worker, stream, hasty>>

Loop == StartRange \/ EndUps \/ EndDowns \/ \E m \in Meters : FindUp(m) \/ FindDown(m)

-----------------------------------------------------------------------------
(* The runner of consumerController                                        *)

\* Mutant of ReceiveUp: the goroutine looks its meter up in meterMap.
ReceiveUpLate(w) ==
    /\ loop.at = "up"
    /\ runner = Selecting
    /\ worker[w] = Unborn
    /\ worker' = [worker EXCEPT ![w] =
           [at |-> "start", meter |-> loop.sending, def |-> meterMap[loop.sending],
            cancelled |-> FALSE]]
    /\ loop' = [loop EXCEPT !.at = "ups", !.sending = NoMeter]
    /\ UNCHANGED <<meterMap, oldMeterMap, runner, ctxMap, stream, hasty>>

\* The send on upCh meets the select: a goroutine starts with the meter the
\* loop has put into oldMeterMap.
ReceiveUp(w) ==
    /\ loop.at = "up"
    /\ runner = Selecting
    /\ worker[w] = Unborn
    /\ worker' = [worker EXCEPT ![w] =
           [at |-> "start", meter |-> loop.sending, def |-> oldMeterMap[loop.sending],
            cancelled |-> FALSE]]
    /\ loop' = [loop EXCEPT !.at = "ups", !.sending = NoMeter]
    /\ UNCHANGED <<meterMap, oldMeterMap, runner, ctxMap, stream, hasty>>

ReceiveDown ==
    /\ loop.at = "down"
    /\ runner = Selecting
    /\ runner' = [at |-> "cancel", meter |-> loop.sending]
    /\ loop' = [loop EXCEPT !.at = "downs", !.sending = NoMeter]
    /\ UNCHANGED <<meterMap, oldMeterMap, ctxMap, worker, stream, hasty>>

\* Mutant of CancelConsumer: the entry goes and nobody is cancelled.
CancelNothing ==
    LET m == runner.meter IN
    /\ runner.at = "cancel"
    /\ runner' = IF ctxMap[m] = NoWorker THEN Selecting ELSE [runner EXCEPT !.at = "delete"]
    /\ hasty' = IF \E w \in Workers :
                      worker[w].meter = m /\ worker[w].at \in {"start", "checked"}
                THEN hasty \cup {m}
                ELSE hasty
    /\ UNCHANGED <<meterMap, oldMeterMap, loop, ctxMap, worker, stream>>

\* A missing entry means there is nothing to cancel - or not yet.
CancelConsumer ==
    LET m == runner.meter IN
    /\ runner.at = "cancel"
    /\ IF ctxMap[m] = NoWorker
       THEN /\ runner' = Selecting
            /\ UNCHANGED worker
       ELSE /\ worker' = [worker EXCEPT ![ctxMap[m]].cancelled = TRUE]
            /\ runner' = [runner EXCEPT !.at = "delete"]
    /\ hasty' = IF \E w \in Workers :
                      worker[w].meter = m /\ worker[w].at \in {"start", "checked"}
                THEN hasty \cup {m}
                ELSE hasty
    /\ UNCHANGED <<meterMap, oldMeterMap, loop, ctxMap, stream>>

\* Mutants of DeleteConsumer: the cancelled goroutine's entry stays; or the
\* runner returns instead of going on to the next select.
DeleteConsumerForgotten ==
    /\ runner.at = "delete"
    /\ runner' = Selecting
    /\ UNCHANGED <<meterMap, oldMeterMap, loop, ctxMap, worker, stream, hasty>>

DeleteConsumerReturning ==
    /\ runner.at = "delete"
    /\ ctxMap' = [ctxMap EXCEPT ![runner.meter] = NoWorker]
    /\ UNCHANGED <<meterMap, oldMeterMap, loop, runner, worker, stream, hasty>>

DeleteConsumer ==
    /\ runner.at = "delete"
    /\ ctxMap' = [ctxMap EXCEPT ![runner.meter] = NoWorker]
    /\ runner' = Selecting
    /\ UNCHANGED <<meterMap, oldMeterMap, loop, worker, stream, hasty>>

Runner == (\E w \in Workers : ReceiveUp(w)) \/ ReceiveDown \/ CancelConsumer \/ DeleteConsumer

-----------------------------------------------------------------------------
(* A goroutine                                                             *)

GoTo(w, step) == worker' = [worker EXCEPT ![w].at = step]

\* The check and the write are two accesses to ctxMap with nothing between
\* them but the scheduler.
CheckRunning(w) ==
    /\ worker[w].at = "start"
    /\ IF ctxMap[worker[w].meter] # NoWorker THEN GoTo(w, "done") ELSE GoTo(w, "checked")
    /\ UNCHANGED <<meterMap, oldMeterMap, loop, runner, ctxMap, stream, hasty>>

KeepCancel(w) ==
    /\ worker[w].at = "checked"
    /\ ctxMap' = [ctxMap EXCEPT ![worker[w].meter] = w]
    /\ GoTo(w, "create")
    /\ UNCHANGED <<meterMap, oldMeterMap, loop, runner, stream, hasty>>

\* NewJetstreamConsumer and then Consume, which returns only at the end of the
\* process: cancelling the context stops the calls, not the consumption.  A
\* failure leaves the entry in ctxMap.
CreateConsumer(w) ==
    /\ worker[w].at \in {"create", "retry"}
    /\ \/ stream /\ ~worker[w].cancelled /\ GoTo(w, "consume")
       \/ ~stream /\ ~worker[w].cancelled /\ worker[w].at = "create" /\ GoTo(w, "nostream")
       \/ GoTo(w, "done")
    /\ UNCHANGED <<meterMap, oldMeterMap, loop, runner, ctxMap, stream, hasty>>

\* CreateStream is content with a stream that has come up meanwhile.
CreateStream(w) ==
    /\ worker[w].at = "nostream"
    /\ \/ ~worker[w].cancelled /\ stream' = TRUE /\ GoTo(w, "retry")
       \/ UNCHANGED stream /\ GoTo(w, "done")
    /\ UNCHANGED <<meterMap, oldMeterMap, loop, runner, ctxMap, hasty>>

Goroutine(w) == CheckRunning(w) \/ KeepCancel(w) \/ CreateConsumer(w) \/ CreateStream(w)

-----------------------------------------------------------------------------
(* Specification                                                           *)

Next ==
    \/ \E m \in Meters, d \in Defs : AddMeterToConsume(m, d)
    \/ \E m \in Meters : RemoveMeterFromConsume(m)
    \/ Loop
    \/ Runner
    \/ \E w \in Workers : Goroutine(w)

Spec == Init /\ [][Next]_vars

\* Sleeps and NATS calls end and the Go scheduler runs every goroutine; no
\* request need ever come.
Fairness ==
    /\ WF_vars(Loop)
    /\ WF_vars(Runner)
    /\ \A w \in Workers : WF_vars(Goroutine(w))

FairSpec == Spec /\ Fairness

-----------------------------------------------------------------------------
(* Properties                                                              *)

\* The goroutines of m that nothing has told to stop.
Live(m) == {w \in Workers : worker[w].meter = m /\ ~worker[w].cancelled}

\* m's way down is not over yet.
GoingDown(m) == runner.meter = m \/ (loop.at = "down" /\ loop.sending = m)

\* A removed meter is silenced: once the loop has forgotten it and the runner
\* has heard of it, every goroutine it ever had is cancelled, except when the
\* down overtook a goroutine on its way to ctxMap.
RemovedMeterSilenced ==
    \A m \in Meters \ hasty :
        ~Has(oldMeterMap, m) /\ ~GoingDown(m) => Live(m) = {}

\* A meter has one goroutine at most that is not cancelled, however often it
\* is removed and created again; past its write to ctxMap it is the one whose
\* cancel function is kept there, and it works with the definition the loop
\* has in oldMeterMap.
OneTrackedConsumer ==
    \A m \in Meters \ hasty, w \in Workers :
        w \in Live(m) =>
            /\ Live(m) = {w}
            /\ worker[w].at \notin {"start", "checked"} => ctxMap[m] = w
            /\ ~GoingDown(m) => worker[w].def = oldMeterMap[m]

\* A meter the loop has handed over and not taken back has a goroutine that
\* nobody has told to stop, and that ctxMap does not turn away: nothing of an
\* earlier goroutine of the meter is there when it checks, and past KeepCancel
\* the entry is its own (events-consumer.go:93 and 170).
HandedOverIsServed ==
    \A m \in Meters \ hasty :
        Has(oldMeterMap, m) /\ ~(loop.at = "up" /\ loop.sending = m) =>
            \E w \in Live(m) :
                ctxMap[m] = IF worker[w].at \in {"start", "checked"} THEN NoWorker ELSE w

\* One goroutine at a time, and none before the last one is told to stop: what
\* EventPipeline takes from this module.
Tracked(m) == IF m \in hasty THEN {} ELSE Live(m)

Life == INSTANCE ConsumerLife WITH
    live <- [m \in Meters |-> Tracked(m)],
    clear <- Meters \ hasty
ImplementsConsumerLife == Life!Spec

\* m's consumer works with definition d.
Consumed(m, d) == \E w \in Live(m) : worker[w].at = "consume" /\ worker[w].def = d

\* The goroutine of m failed and its entry stays: nothing tries again.
GivenUp(m) == \E w \in Live(m) : worker[w].at = "done" /\ ctxMap[m] = w

\* m was given another definition after the loop had handed it over; the loop
\* compares keys only (events-consumer.go:56) and will not notice.
Outdated(m) == Has(oldMeterMap, m) /\ oldMeterMap[m] # meterMap[m]

\* Every wanted meter gets a consumer with its definition, unless it is removed
\* or redefined, NATS refuses, or it is one of the hasty ones.
MeterConsumed ==
    \A m \in Meters, d \in Defs :
        meterMap[m] = d ~>
            Consumed(m, d) \/ meterMap[m] # d \/ Outdated(m) \/ GivenUp(m) \/ m \in hasty

\* Every unwanted meter loses its consumer.
RemovalHeard ==
    \A m \in Meters :
        ~Has(meterMap, m) ~> Live(m) = {} \/ Has(meterMap, m) \/ m \in hasty

\* The loop and the runner never wait for each other for good.
LoopReturns == []<>(loop.at = "sleep")
=============================================================================
