-------------------------------- MODULE KVRepo --------------------------------
(***************************************************************************)
(* The key-value repositories of pkg/kv: a NATS bucket whose values carry  *)
(* an optional expiry.  NATS knows nothing of it; Get looks at the clock,  *)
(* refuses a value whose time is over and starts a goroutine that deletes  *)
(* the key.  Nobody waits for that goroutine, and it deletes whatever the  *)
(* key holds by then.  The typed repository (nats-kv-repo.go) and the      *)
(* binary one (nats-kv-binary-repo.go) differ in their encoding only, and  *)
(* in sanitiseKey: Keys are keys as they are in the bucket.                *)
(***************************************************************************)
EXTENDS Naturals

CONSTANTS
    Keys, Data, NoData,
    Fleeting,     \* the keys that callers write with SetWithExpiry
    MaxDropping   \* bounds the goroutines that are about to delete one key

ASSUME NoDataIsNotData == NoData \notin Data
ASSUME FleetingKeys == Fleeting \subseteq Keys
ASSUME MaxDroppingIsNat == MaxDropping \in Nat

VARIABLES
    store,        \* the bucket
    dropping,     \* dropping[k]: how many goroutines are about to delete k
    asked         \* history, asked[k]: what k may hold going by the calls of
                  \* Set, SetWithExpiry and Drop and their answers

repo == <<store, dropping, asked>>

\* ExpiresAt is the zero time, still to come, or over.
Value == [data : Data, expires : {"never", "later", "past"}]
Nothing == [data |-> NoData, expires |-> "never"]

RepoTypeOK ==
    /\ store \in [Keys -> Value \cup {Nothing}]
    /\ dropping \in [Keys -> 0..MaxDropping]
    /\ asked \in [Keys -> SUBSET (Data \cup {NoData})]

RepoInit ==
    /\ store = [k \in Keys |-> Nothing]
    /\ dropping = [k \in Keys |-> 0]
    /\ asked = [k \in Keys |-> {NoData}]

-----------------------------------------------------------------------------
(* The calls.  What a call answers is its last parameter; one that answers *)
(* with an error may have had its effect.                                  *)

Put(k, v, result) ==
    /\ \/ store' = [store EXCEPT ![k] = v]
       \/ result = "error" /\ UNCHANGED store
    /\ asked' = [asked EXCEPT ![k] = {v.data} \cup IF result = "error" THEN @ ELSE {}]
    /\ UNCHANGED dropping

Set(k, d, result) == Put(k, [data |-> d, expires |-> "never"], result)

SetWithExpiry(k, d, result) ==
    /\ k \in Fleeting
    /\ Put(k, [data |-> d, expires |-> "later"], result)

\* A key without a value can be deleted, too.
Drop(k, result) == Put(k, Nothing, result)

\* Mutants of isExpired: without the test for the zero time, which is long
\* past; with the comparison the wrong way round.
isExpiredAtZero(v) == v # Nothing /\ v.expires \in {"never", "past"}
isExpiredBefore(v) == v.expires = "later"

isExpired(v) == v.expires = "past"

\* Get answers with the data, with ErrKeyNotFound (NoData) or another error.
Get(k, result) ==
    /\ UNCHANGED <<store, asked>>
    /\ IF isExpired(store[k])
       THEN /\ result = "error"
            /\ dropping[k] < MaxDropping
            /\ dropping' = [dropping EXCEPT ![k] = @ + 1]
       ELSE /\ result \in {store[k].data, "error"}
            /\ UNCHANGED dropping

\* The goroutine's Delete is carried out or fails, and it ends.
Cleanup(k) ==
    /\ dropping[k] > 0
    /\ dropping' = [dropping EXCEPT ![k] = @ - 1]
    /\ store' \in {store, [store EXCEPT ![k] = Nothing]}
    /\ UNCHANGED asked

\* Time passes.
Expire(k) ==
    /\ store[k].expires = "later"
    /\ store' = [store EXCEPT ![k].expires = "past"]
    /\ UNCHANGED <<dropping, asked>>

\* Whatever the callers call.
RepoNext ==
    \E k \in Keys :
        \/ \E r \in {"ok", "error"} :
               \/ \E d \in Data : Set(k, d, r) \/ SetWithExpiry(k, d, r)
               \/ Drop(k, r)
        \/ \E r \in Data \cup {NoData, "error"} : Get(k, r)
        \/ Cleanup(k)
        \/ Expire(k)

RepoSpec == RepoInit /\ [][RepoNext]_repo

-----------------------------------------------------------------------------
(* Properties                                                              *)

Visible == [k \in Keys |-> IF store[k].expires = "past" THEN NoData ELSE store[k].data]

\* The repository is an expiring map: whatever calls, goroutines and time do,
\* a value that is not written or removed by a caller disappears only when
\* its own time is over or while a goroutine is under way that a Get has
\* started for an expired value (nats-kv-repo.go:160) - and in that last case
\* it may be a value just stored.
Expiring == INSTANCE ExpiringMap WITH
    value <- Visible,
    mortal <- {k \in Keys : store[k].expires # "never"},
    hazy <- {k \in Keys : dropping[k] > 0}
ImplementsExpiringMap == Expiring!Spec

\* On the keys that nobody writes with an expiry it is a plain map: a value is
\* there until a caller asks for something else.  MeterRegistry and EventPipeline
\* rely on it for the buckets of meters and readings.
Plain == INSTANCE ExpiringMap WITH
    Keys <- Keys \ Fleeting,
    value <- [k \in Keys \ Fleeting |-> store[k].data],
    asked <- [k \in Keys \ Fleeting |-> asked[k]],
    mortal <- {},
    hazy <- {}
ImplementsPlainMap == Plain!Spec
==============================================================================
