# kloudmeter in TLA+

kloudmeter is a usage-metering service: a *meter* says which events to count and
how, a client registers *events*, and the service keeps one *reading* per meter,
subject and group. Everything durable is in NATS JetStream: three key-value
buckets and one stream. This directory holds TLA+ models of its core, the TLC
configurations that check them on small instances and the proofs that TLAPS
checks for every instance. The source, under `src/`, is the reference: it has no
tests, so the models are read from the code alone.

## 1. Inventory

| Component | Source | State | Operations |
|---|---|---|---|
| Meter registry | `internal/app/app.go` (create-meter, delete meter), `internal/domain/main.go`, `entities/meter.go`, `pkg/kv/nats-kv-repo.go`, the map half of `internal/domain/events-consumer.go` | the `meters` bucket; `meterMap` in memory | RegisterMeter (Get, Set), AddMeterToConsume, DeleteMeter (Drop), RemoveMeterFromConsume, the start-up List and AddMeters |
| Start-up | `main.go`, `internal/framework`, `internal/app`, `pkg/http-server/http-server.go`, `pkg/nats/client.go`, the constructor of `pkg/kv` | how far the process is, its link to NATS, its server; the buckets in NATS | NewClient, bucket lookup and creation, routes, Listen, OnStart |
| Reconciler | `internal/domain/events-consumer.go` | `oldMeterMap`, `ctxMap`, two unbuffered channels, one goroutine per meter | the five-second loop, the `select` of `consumerController`, check / keep / create in the goroutine, CreateStream |
| Event pipeline | register-event in `app.go`, `pkg/messaging/nats/*`, the callback in `events-consumer.go`, the Get/Set part of `internal/domain/readings.go` | the stream, the durable consumer, the `readings` bucket | Publish with an id, deliver, InProgress, upsertReadings per target, dead letter, Ack |
| Event ingest | register-event in `app.go`, `entities/events.go`, the filter in `events-consumer.go`, the keys in `readings.go` | the stream and its deduplication window; one cursor per meter | list meters, validate, publish; attach, consume per meter |
| Readings arithmetic | `createReading`, `updateReading`, `dataOnPath` in `readings.go` | one reading | one step per accepted value |
| Key-value repository | `pkg/kv` | a bucket; the cleanup goroutines under way | Get, Set, SetWithExpiry, Drop, cleanup; List, Entries, Keys |
| Session middleware | `pkg/http-server/http-session.go` | the bucket of sessions, the browsers' cookies, a session per request | read and full middleware, set-session, delete-session |
| Subjects and keys | `entities/*.go`, `readings.go` | none | meter, event and reading keys, subject filters |
| Read endpoints | `app.go` | none | meters, meter, reading, readings, healthy |
| Producer, rest of HTTP server and NATS client, support packages, examples | `pkg/*` | see PROJECT.json | |

How they interact. An HTTP handler writes the bucket and then `meterMap`. The loop
compares `meterMap` with `oldMeterMap` and sends each difference over a channel to
the runner, which starts a goroutine (up) or cancels one (down). The goroutine
attaches to the meter's durable JetStream consumer, whose name is a function of
the meter's key, and runs a callback per message. The callback reads and
writes the `readings` bucket, publishes failures back to the same stream and
acknowledges. Nothing in the program is locked: handlers, loop, runner and
goroutines share four Go maps, and the buckets are read and written by separate
calls with no revision check.

What is hard, and the property each component owes:

* **Registry**: two handlers, or a handler and the start-up load, interleave
  between bucket and map; store calls fail with or without effect; the bucket
  is keyed by the sanitised key and the map by the raw one. It owes *agreement*
  of map and bucket and *immutability* of a registered meter.
* **Reconciler**: the goroutine's check of `ctxMap` and its write race with the
  runner's cancel and delete; loop and runner block on each other. It owes *at most
  one consumer per meter*, *silence of a removed meter* and *progress*.
* **Pipeline**: read-modify-write of a reading by several goroutines of one durable
  consumer, cancelled goroutines that go on consuming, redelivery, crashes between
  two targets, deduplication that also swallows dead letters. It owes *no lost
  update*, *exactly once when nothing goes wrong* and *everything gets acknowledged*.
* **Ingest**: several meters and event types share one stream and one bucket of
  readings, told apart by names joined with dots; ids deduplicate across all of
  them. It owes *what was accepted is stored*, *what is sent again counts once*, *each
  meter is given all events of its type* and *readings of equally dotted names apart*.
* **Repository**: the goroutine that deletes an expired value is detached and deletes
  whatever the key holds by then; NATS knows nothing of the expiry. It owes *an
  expiring map*, and *a plain map* where nobody writes an expiry.
* **Session middleware**: repository and cookie change at different times, failing
  calls are only printed, two browsers may share a session. It owes *a cookie that
  names a stored session*.
* **Start-up**: replicas race for the buckets, every call may fail, the server's error
  is read for one second only. It owes *no request before everything it needs is
  there*, *an early error ends the process*, as far as the code can keep that, and *a
  decision*.
* **Readings**: first value, negative values, running average, accepted types. It
  owes *the aggregate of exactly the accepted values*.

All hazards, with their lines and the properties that catch them, are in
`PROJECT.json` under `hazards`.

## 2. Modules

| Module | What it is |
|---|---|
| `MeterRegistry` | bucket, map, handlers, start-up load, crashes |
| `MeterRegistry_proofs` | its inductive invariant and theorems |
| `ConsumerLife` | abstract: the goroutines the rest of the program may count on |
| `Reconciler` | loop, channels, runner, goroutines; implements `ConsumerLife` |
| `Reconciler_proofs` | the refinement and its invariants, proved |
| `Metering` | abstract: what a meter promises about its events |
| `EventPipeline` | one meter's events end to end; implements `Metering` |
| `EventPipeline_proofs` | the refinement, proved |
| `ExactlyOnce_proofs` | how often a message counts, with trouble and without, proved |
| `Subjects` | subjects, filters and keys as sequences of tokens |
| `EventIngest` | many meters and event types on one stream |
| `EventIngest_proofs` | the algebra of keys and filters and four theorems |
| `Readings` | what one reading holds |
| `Readings_proofs` | its theorems |
| `ExpiringMap` | abstract: a map whose values may perish |
| `KVRepo` | a repository of `pkg/kv`; implements `ExpiringMap` twice |
| `Sessions` | the session middleware over a `KVRepo` |
| `Sessions_proofs` | both refinements and the backing of cookies, proved |
| `Startup` | processes that come up and share the buckets |
| `Startup_proofs` | its safety properties and that each call decides, proved |
| `MC*` | the instances for TLC |

Definitions with "Mutant of" in their comment are not part of a model:
each is a plausible bug of the definition it precedes, and swapping it in makes
one property fail (`mutants` in PROJECT.json), which shows that the property can.

### MeterRegistry

`bucket`, `meterMap` and `req` (one record per request in flight) follow the code;
`boot` is how far the process is up. Each action is what runs between two round
trips to the store:

| Action | Code |
|---|---|
| `CreateMeter`, `DeleteMeter` | a handler starts (`app.go`) |
| `RegisterGet`, `RegisterSet` | the two halves of `RegisterMeter` (`main.go`) |
| `AddMeterToConsume`, `RemoveMeterFromConsume` | `MeterMap` in `events-consumer.go` |
| `Drop` | `DeleteMeter`, `natsKVRepo.Drop` |
| `StartServing`, `List`, `AddMeters` | `Listen` before `OnStart`; the start of `StartConsumingEvents` |
| `Crash` | the process ends: interrupt, panic, concurrent map access |

A failing store call has both outcomes, the value stored or not. `sanitiseKey` is
a constant function, assumed idempotent, because only whether two keys
share a place matters. `disturbed` is history: the stored keys on which calls
overlapped, lost their answer, or deleted in the middle of the load. The code
promises nothing there, and the properties say exactly this (`Orderly`).
A delete that races the load really does bring the meter back: List has read it,
the delete removes it from map and bucket, AddMeters adds it again.

### Reconciler and ConsumerLife

`loop.at` is the statement the loop is at, with `up` and `down` for blocked sends;
`runner.at` likewise. A Go `range` over a map that changes is modelled by what the
language says: keys present throughout are yielded (`todo`), keys removed before
they are reached are not, keys added may be. `CheckRunning` and `KeepCancel` are
the two unlocked accesses to `ctxMap`. A meter is `hasty` once its down reached
the runner while its goroutine was still before `KeepCancel`: nothing was there to
cancel and the consumer stays. The five seconds between two passes make this
unlikely and nothing excludes it, so the properties except those meters
by name. A torn or aborting map access is `MeterRegistry!Crash`.

The loop looks at the keys of the two maps only; what the maps hold under them, and
`worker[w].def`, is the definition. A meter whose definition changes between
two passes is not picked up; it is `Outdated`, and `MeterConsumed` says that
every other meter in the map comes to be consumed with its own definition.
`HandedOverIsServed` is the part of it that holds at every moment: from the send to
the runner on, a meter has a goroutine, and `ctxMap` holds nothing left over from
an earlier one that would make it give up.

`ConsumerLife` is what the other modules take from this one: at most one goroutine
per meter that is not cancelled, working for that meter alone, and the next one
only after that one was told to stop. Its `Start` and `Stop` are the guards of
`StartWorker` and `Cancel` in `EventPipeline`. The mapping shows the live goroutines
of every meter that is not hasty (`Tracked`); becoming hasty is `Blur`.

### EventPipeline and Metering

One meter, its total (`Main`) and its `Groups`. A reading is abstracted to a bag: how
often each message was counted in it, which is all that lost, doubled and
missing updates show (what the numbers do is `Readings`). A goroutine goes `idle,
get, put | report, next, ..., ack`; its `copy` is the Go variable that holds the
reading between Get and Set. `fate` says whether the data at a target's path is
fit, of another type, or null. `tried`, `troubled` and `fresh` are history.

External, modelled from their use: the stream, its deduplication window (`recent`,
which forgets at any time), the durable consumer (`ready`, `settled`, delivery to
any attached goroutine, AckWait). `StartWorker` takes from the reconciler that no
other goroutine of the meter is live; for a hasty meter this does not hold.

`Metering` keeps four of the variables: an event is stored; one application to, or
one failure on, one target at a time; settled only when every target was tried.
The mapping is the identity on these, so that a write of a stale copy, which undoes
another update, is no step of `Metering`.

### Subjects and EventIngest

A name is a sequence of tokens, since nothing keeps dots out of event types, ids
and groupBy keys. `sanitiseKey` is what the repositories do to every key: a dash for
each colon. `dashed` does it to a token, whatever the tokens are, so that names that
differ in colons and dashes alone do share a `StoredKey` or a `Place`. Wildcards in
names are left out: no key of a bucket holds one.

`RegisterEvent` is everything the handler does before it publishes: a refusal changes
nothing. `Publish` has three outcomes: stored or dropped as a duplicate, and accepted;
the same with the answer lost; an error without effect. `Load` is the List of
`StartConsumingEvents`, whose error ends consumption while the process serves on.
`Attach` is a meter's goroutine up to its consumer, or up to the error after which it
returns; its `ctxMap` entry stays and nobody tries again (`stuck`). Each meter has a
`cursor`, its durable consumer, that outlives goroutines and processes. `Consume` is one
message from delivery to acknowledgement: `readings` gains the parts (the meter's own
and one for each group) whose update succeeds, `failed` those whose update does not,
which the code only logs. Such a part leaves a dead letter under the event's own id,
which touches nothing here but the deduplication window. The cancelled goroutines that
go on consuming (`zombies`) count nothing. `forgotten` is history: the ids that have left
the window. Which value `meterMap` holds when handlers overlap is `MeterRegistry`; here
it agrees with the bucket. How Gets, Puts and redelivery of one message interleave is
`EventPipeline`.

### KVRepo and ExpiringMap

`store` is the bucket, each value with an expiry that is none, to come or over;
`dropping[k]` counts the goroutines that `Get` has started for `k` and whose
`Delete` is to come. Every call has its answer as last parameter and may fail with or
without effect. The typed and the binary repository differ in encoding, and in
`sanitiseKey`: `Keys` are keys as they stand in the bucket. `Fleeting` are the keys some
caller writes with an expiry. The listings (`List`, `Entries`, `Keys`) change
nothing; they return expired values too, which is why the mapping to
`ExpiringMap` speaks of what `Get` shows (`Visible`). The listing that
matters, the one at start-up, is `List` of `MeterRegistry`.

`asked[k]` is history: what `k` may hold going by the callers' calls and their answers
alone. It tells a value that somebody removed from one that vanished, and without
it the refinements would say nothing. `ExpiringMap` says when a value may disappear by itself: because its own time is
over, or because a sweep is under way that a lookup of an expired value started
(`hazy`) - and this may hit a value just written. With nothing mortal or hazy
it is a plain map, which is what `MeterRegistry` and `EventPipeline` assume of the
buckets of meters and readings.

### Sessions

`jar` is the cookie of each browser, `req` the requests between the middleware's
lookup and the response. `LookUp` is the repository's `Get` and what the middleware makes of
its answer; `SetSession` and `DeleteSession` are the two functions handed to the
handler, called in any order and number; `Respond` is the moment the cookie arrives.
`Around` is what happens beside: a login that stores a session with an expiry,
cleanup, time. `troubled` is history. kloudmeter's own routes do not mount this
middleware: it is a library of the repository, modelled on its own.

### Startup

`proc[p].at` is the statement `main` is at, from `NewClient` (`Connect`) over
the two repositories (`LookUpBucket`, `CreateBucket`, `LookUpAgain`: the three calls of
the constructor), the routes, `Listen` and its `select`, to the hook. `server` is the
goroutine in `Listen`, `link` the connection, which NATS reconnects for ever. Any
process may be interrupted at any time and started again. `late` and `overslept` are
history: the server failed after `Listen`'s second; `main` reached the `select` only when
that second was over. In the second case both channels may be ready and Go takes either,
which is why `EarlyErrorEndsProcess` excepts it. `Left` is how many
calls `main` has before it at most; `EachCallDecides`, that each of them makes it less and that
nobody else makes it more, so that `StartDecides` needs no more than that calls return. What happens after the hook is
`MeterRegistry` and `Reconciler`.

### Readings

Floats are integers and the average an exact fraction, so rounding is left out.
`seen` is the history of accepted values that `ReadingIsAggregate` defines the
right result from. `range` and `func` are valid aggregations for which
`updateReading` and `createReading` have no case: no event is ever accepted.

## 3. Runs

| Run | Instance | Shows |
|---|---|---|
| `registry` | 2 requests, 3 keys of which 2 share a place, 1 definition | `TypeOK`, `RegistryAgreement`, `RegisteredMeterKept`, `StoredMeterWatched` |
| `registry_second_create` | 2 requests, 1 key, 2 definitions | `SecondCreateRefused` is violated |
| `reconciler` | 2 meters, 2 definitions, 2 goroutines | `TypeOK`, `RemovedMeterSilenced`, `OneTrackedConsumer`, `HandedOverIsServed`, `ImplementsConsumerLife`, `MeterConsumed`, `RemovalHeard`, `LoopReturns` |
| `pipeline_safety` | 2 events, 2 targets, 2 goroutines, 1 fault | `TypeOK`, `ExactlyOnce`, `ImplementsMetering` |
| `pipeline_live` | 1 event, 2 faults | `OvercountNeedsFaults`, `StoredIsSettled` |
| `pipeline_dead_letter`, `pipeline_metered`, `pipeline_null` | small | the three divergences below |
| `ingest` | 2 meters, one with a group, the type of one going on from the other's; 3 events, 2 of one id; 2 messages | `TypeOK`, `AcceptedIdIsStored`, `RetryCountsOnce`, `ReadingsApart`, `EveryMeterReached` |
| `readings` | numbers -2..2, 2 strings, 4 events, every aggregation | `TypeOK`, `ReadingIsAggregate`, `ExtremeIsAttained` |
| `sessions` | 2 browsers, 2 requests, 2 sessions of which 1 is stored with an expiry, 2 cleanups per key | `TypeOK`, `CookieBacked`, `ImplementsExpiringMap`, `ImplementsPlainMap` |
| `startup` | 2 processes | `TypeOK`, `ServesWithBuckets`, `EarlyErrorEndsProcess`, `EachCallDecides`, `StartDecides` |

Why the bounds are enough. Two requests are what a race needs, two keys in one place what a
confusion of places needs (their meters differ in the key), and a third key is there for
what must stay undisturbed; crashes and restarts are unbounded. In the
reconciler a meter needs two goroutines to be confused with its former self, and two
meters compete for one loop, one runner and one pool of goroutines; more of each are left
to the proof. The number of goroutines is the bound (`SpareWorkers` in the
guard of `AddMeterToConsume`): it never makes the runner wait for one, which
`RunnerCanReceive` proves for any number. In the pipeline two goroutines, one cancelled, and two events make every pair of conflicting
accesses; `MaxFaults` bounds errors, expired AckWaits and crashes, `MaxApplied` how
often redelivery counts one message; two faults can make that three times, so the
four of `pipeline_live` never bite. Two types of which one goes on
from the other are what a filter can confuse, and a group what a key can; two messages
with one id in different windows what a duplicate needs. Names told apart by colons and
dashes, meters with equally many dots and more messages are left to the proof, which
bounds nothing. Two browsers that share a session and two requests of one browser
are the two ways in which one user of a session can delete it under another; one
session with and one without an expiry tell the two refinements apart; `MaxDropping`
lets a second cleanup of a key start before the first has ended. Two processes race
for each bucket between lookup and creation. Four events exercise first, second and later updates of an average. Runs in which the system may stop for want of input say
`CHECK_DEADLOCK FALSE`: the pipeline (every event settled) and readings (bound
reached).

Fairness. Weak fairness of the program's own steps: goroutines are scheduled by Go
and every NATS call returns, with an answer or an error. Weak fairness of delivery
and redelivery while somebody pulls, which is what a durable consumer with AckWait
does. Nothing is assumed of clients, faults or crashes, and no strong fairness is
used. `EveryMeterReached` rests on fair `Load`, `Attach` and `Consume`: the List returns,
the reconciler starts a stored meter (`MeterConsumed` there) and a durable consumer that
is pulled from delivers. The first two may return with an error, which nothing retries;
the property excepts that meter, or that process, by name (`GivenUp`), and makes no claim
for a process that dies again and again.
At start-up `Main` alone is fair: its calls return, with a timeout if need be, and the
second of `Listen` passes; the link, the server's error and signals are not.
`pipeline_live` allows a crash and says so in the property.

## 4. What disagrees with the code's own words

* `SecondCreateRefused` (`internal/domain/main.go:40`): two creates of a key that
  both look it up first are both accepted; the second meter replaces the first.
* `FailedUpdateIsDeadLettered` (`readings.go:60`): the dead letter carries the
  event's own id on the same stream, and is dropped as its duplicate.
* `RegisteredEventIsMetered` (`jetstream-consumer.go:83`): `Consume` ends with the
  process and not with its context; after delete and create the cancelled goroutine
  takes events from the shared durable consumer, fails them and acknowledges.
* `OnlyFaultsStopTheProcess` (`readings.go:234`): a null at a meter's path makes
  `reflect.ValueOf(nil).Type()` panic, again at each redelivery.

What the models also show, with no run of its own because no text in the repository
states the contrary precisely:

* The loop compares keys only (`events-consumer.go:56`): a meter deleted and created
  again with another definition between two passes goes on being consumed with the
  old one (`Outdated` in `MeterConsumed`, which fails without that exception).
* The cleanup goroutine (`nats-kv-repo.go:160`) may delete a value just stored in the
  place of the expired one (`Sweep` of `ExpiringMap`), and the listings return
  expired values as if they were alive.
* The full session middleware declares its result `var get any`
  (`http-session.go:63`): without a stored session the handler is given a nil
  `*AuthSession` as a present one (session `"nil"` in `LookUp`). A failing Set or Drop is
  printed, and the cookie sent all the same; `delete-session` drops the session of the
  request's cookie, not the one `set-session` has just stored.
* An error of `Listen` that comes in time may be overlooked if `main` reaches the `select`
  only after the second (`overslept` in `EarlyErrorEndsProcess`), and one
  after its first second is sent to a channel nobody reads any
  more (`http-server.go:56`): the process runs on, consuming, without its server.
* register-event accepts an event of a type no meter has, as soon as any meter exists
  (`app.go:155`, `RegisterEvent` of `EventIngest`), although line 156 words its
  refusal "no meter found with provided event type".
* Ids deduplicate across types and subjects (`app.go:175`): the second event is
  answered 202 and dropped (`StreamTakes`), which is why `AcceptedIdIsStored` speaks
  of ids.
* A meter's filter is a prefix (`events-consumer.go:109`): a meter of type `t` counts
  events of type `t.u`, and keys of names with dots coincide, which is why
  `ReadingsApart` speaks of names with equally many dots.
* Names that differ in colons and dashes alone share a place in the bucket
  (`nats-kv-repo.go:175`). Two meters so named are refused, the second as existing; two groups
  of one meter, which nothing compares, count into one reading (`ReadingsApart`).
* A message whose updates all fail is acknowledged and counted nowhere
  (`events-consumer.go:150`), and a goroutine whose consumer cannot be created returns
  for good (`events-consumer.go:138`): `failed` and `GivenUp` in `EveryMeterReached`.

## 5. Proofs

TLAPS checks every step; there is no axiom and no omitted proof.

* **MeterRegistry_proofs** (any sets of clients, keys, definitions; `Keys` finite,
  `sanitiseKey` idempotent, sentinels distinct): `TypeCorrect`, `Agreement`,
  `Immutable`. Agreement is not inductive: it speaks of moments when no request
  is in flight. `IInv` adds what each in-flight request knows: on an orderly key
  at most one request is in flight, at `get` and `drop` map and bucket agree, at `set`
  the bucket is still empty, at `add` it holds the request's meter, at `remove` it is
  empty; and what was listed is in the bucket unless its key is disturbed. The
  proof has one lemma per action.
* **Reconciler_proofs** (any meters, definitions, goroutines): `TypeCorrect`,
  `Silenced`, `OneTracked`, `Served`, `RunnerCanReceive` and `Refinement`,
  `Spec => ImplementsConsumerLife`. A goroutine counts from the moment the runner starts it, long before `ctxMap` knows
  it. So `MeterInv` derives from the loop and the runner where the goroutine of a meter
  that is not hasty stands: handed over and not yet going down, there is exactly one,
  kept in `ctxMap` once it is past `KeepCancel` (`RunBy`); otherwise nobody works for
  it and `ctxMap` is empty (`Quiet`). `LoopInv` says what the loop blocks on;
  `CancelledLate`, that only goroutines past `KeepCancel` are ever cancelled.
  `RunnerCanReceive`, for finitely many goroutines, counts: there is a free one for each
  meter that has yet to come up and for the one being sent (`Enough`).
* **Sessions_proofs** (any keys, browsers, requests, bound): `RepoExpires` and
  `RepoPlain` of `KVRepo` by itself, `Spec => ImplementsExpiringMap` and
  `ImplementsPlainMap` of the middleware above it, `TypeCorrect` and `Backed`. The plain
  map rests on `PlainKeys`: outside `Fleeting` nothing expires, hence nothing is
  swept. `Backed` needs to look into requests: a cookie about to be sent is stored
  (`ReplyBacked`), a session looked up was (`LookedUp`), a sweep is under way only for
  ids that have expired (`SweptExpired`), all up to `troubled`.
* **Startup_proofs** (any processes): `TypeCorrect`, `ServesComplete`, `EarlyErrorEnds`
  and `CallsDecide`, which is `EachCallDecides`: every call of `main` uses up some of the at most twelve
  that are left (`MainDecides`), and neither NATS, nor the server, nor another process gives any
  back (`NothingSendsBack`, `OneMoves`). It is the safety half of `StartDecides`.
  `ProcInv` says of each place in `main` which buckets exist and what the server may be
  doing; it survives the other processes because buckets are never removed
  (`OthersKeep`).
* **EventPipeline_proofs** (any events, groups, goroutines, bounds): `TypeCorrect`
  and `Refinement`, `Spec => ImplementsMetering`. The step that needs an
  invariant is `Put`: it writes a copy, and is an `Apply` only if the copy is still
  the reading (`CopyCurrent`), which holds because at most one goroutine is not
  cancelled (`OneLive`) and a cancelled one cannot write. `Ack` needs `Accounted`:
  targets tried, at hand and to do are always all targets. One lemma
  (`WorkerMoved`) carries all three through any step of one goroutine.
* **ExactlyOnce_proofs** (the same): `CountedOnce` and `CountedByFaults`. `Metering` lets a message be counted
  again and again, so this proof follows one message: unless it is troubled, it is in one
  place at a time (ready, one buffer, one goroutine's hands, settled), and `Once` says
  for each place which targets have counted it once and which have yet to (`Left`).
  Two lemmas carry it: a step of a goroutine leaves every message but the one in its
  hands alone (`BystanderOnce`), and moves that one by one target (`HandOnce`).
  A troubled message may be in many places, buffers of cancelled goroutines among them.
  `CountedByFaults` bounds what comes of it: times counted, plus the `Places` it may yet
  be counted from, plus one if it waits for delivery (`Loose`), never exceed the faults
  plus one (`CInv`), because only a fault frees a message that somebody holds. That the
  places are finitely many is part of the invariant, since goroutines may be any set.
  Nulls are excepted: the panic they cause frees a message and is no fault.
* **EventIngest_proofs** (any meters with distinct keys, events, clients, bound, and
  any set of tokens that has the fixed ones, any dashing of them): `TypeCorrect`,
  `AcceptedStored`, `RetriedOnce`, `MetersApart`. `SplitSanitised`: two concatenations of
  equally long fronts with one stored form have fronts and tails with one stored form.
  Applied twice it gives `PlacesApart`, that one place means one subject (which has no
  colon), one stored group and one stored key of the meter, dots counted alike;
  `FilterTellsTypes`, that a filter tells types of equal length. `Sourced`, that a
  reading was counted from a message its filter lets through, carries the latter to all
  reachable states, since the stream only grows (`StreamStep`, `MessagesStay`).
  `RetriedOnce` is not inductive: it needs to know of ids that were never forgotten that
  they are still in the window and in the stream once (`Windowed`), which dead letters, being
  published under an id that is there already, leave so.
* **Readings_proofs** (any numbers and strings, any bound): `TypeCorrect`, `Extremes`
  and `Aggregates`. A step compares two values; that the winner bounds *all* values
  needs that those counted were numbers (`OnlyNumbers`) and that no reading means
  no history (`ReadingIffSeen`). `Aggregates` needs what the sum of a history is,
  for histories of every length: `SetInduction` is induction over the numbers stated
  with a set in place of a predicate, from the well-foundedness of finite sets, and gives
  that the prefix sums exist (`SumsExist`), are unique (`SumsAgree`) and grow by the value
  appended (`TotalOfAppend`). Together with how often a string occurs
  (`PositionsOfAppend`) and the average times its count (`AverageOfMore`), each
  aggregation is then one step from the aggregate of the shorter history
  (`FirstAggregates`, `LaterAggregates`).

Only model-checked: everything temporal (the provers handle neither fairness nor
ENABLED) - `StoredMeterWatched`, `MeterConsumed`, `RemovalHeard`, `LoopReturns`,
`StoredIsSettled`, `EveryMeterReached`, `StartDecides`. What three of them rest on in single
states and steps is proved: `HandedOverIsServed` for `MeterConsumed`, that the runner can
always receive for `LoopReturns`, and
`EachCallDecides` for `StartDecides`.

## 6. Plan

1. *Done*: MeterRegistry, Reconciler, EventPipeline with Metering, Readings, Subjects,
   EventIngest; then KVRepo with ExpiringMap, Sessions, Startup, ConsumerLife; proofs of
   every safety invariant and every refinement the runs check.
2. *Left*: `MeterService`, registry and reconciler sharing one `meterMap` - today each
   has the other's steps as its environment: `AddMeterToConsume` and
   `RemoveMeterFromConsume` of `Reconciler` may happen at any time, which covers what
   `MeterRegistry` does to the map. What a hasty meter's two consumers do to a reading
   (the guard of `StartWorker` would not hold).

Not modelled and why:

* the read endpoints (`meters`, `meter`, `reading`, `readings`, `healthy`): one read of a
  bucket each, no state; what they would be told of expired values is under `KVRepo`;
* `JetstreamConsumer` beyond what the program uses of it: `Consume` with `Nak` after a
  failed `InProgress` and `Ack` after the callback is in `EventPipeline`. The callback's
  error and `OnError` are left out: the callback fails only if `ParseBytes` does, the
  stream's `meters.events.` subjects hold what register-event encoded with `ToJson`, and
  the `OnError` the program sets (`events-consumer.go:156`) returns nil, so that such a
  message would be acknowledged all the same. Nobody calls its `Stop`;
* `ProduceAsync` and `Stop` of the producer, `Close` of the HTTP server and the wrappers
  of `pkg/nats` for buckets: nobody calls them;
* errors, logging, functions, encoding, configuration and wiring: no state of their own;
* the examples under `pkg/messaging/examples`: other programs.
