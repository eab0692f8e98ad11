------------------------ MODULE MeterRegistry_proofs ------------------------
(***************************************************************************)
(* Proofs about the meter registry: TypeOK, RegistryAgreement and          *)
(* RegisteredMeterKept hold for any number of clients, keys and meters.    *)
(***************************************************************************)
EXTENDS MeterRegistry, TLAPS

-----------------------------------------------------------------------------
(* The inductive invariant                                                 *)

\* A stored meter lies where sanitiseKey puts its own key.
StoredInPlace ==
    \A kk \in Keys : bucket[kk] # NoMeter => sanitiseKey[bucket[kk].key] = kk

\* Two requests in flight on one stored key have disturbed it.
OneAtATime ==
    \A c, d \in Clients :
        /\ req[c] # Idle
        /\ req[d] # Idle
        /\ StoredAt(c) = StoredAt(d)
        /\ StoredAt(c) \notin disturbed
        => c = d

\* What a handler found or did is still so at its next step.
HandlerViewHolds ==
    \A c \in Clients :
        req[c] # Idle /\ StoredAt(c) \notin disturbed =>
            /\ req[c].at \in {"set", "remove"} => bucket[StoredAt(c)] = NoMeter
            /\ req[c].at = "add" => bucket[StoredAt(c)] = MeterOf(c)
            /\ req[c].at \in DeleteSteps => boot # "listed"

\* A dead process holds nothing.
DownIsEmpty ==
    boot = "down" =>
        /\ \A c \in Clients : req[c] = Idle
        /\ \A k \in Keys : meterMap[k] = NoMeter

\* What List returned is still what the bucket holds.
ListedHolds ==
    boot = "listed" =>
        \A m \in listed :
            sanitiseKey[m.key] \notin disturbed => bucket[sanitiseKey[m.key]] = m

At(step, kk) == \E c \in Clients : req[c].at = step /\ StoredAt(c) = kk

\* The map holds nothing the bucket does not, a delete half done apart.
MapInBucket ==
    \A k \in Keys :
        /\ Orderly(k)
        /\ meterMap[k] # NoMeter
        => meterMap[k] = bucket[sanitiseKey[k]] \/ At("remove", sanitiseKey[k])

\* The bucket holds nothing the map does not, or will not, a create half done
\* apart.
BucketInMap ==
    \A k \in Keys :
        /\ boot \in {"listed", "consuming"}
        /\ Orderly(k)
        /\ bucket[sanitiseKey[k]] # NoMeter
        => \/ meterMap[k] = bucket[sanitiseKey[k]]
           \/ boot = "listed" /\ bucket[sanitiseKey[k]] \in listed
           \/ At("add", sanitiseKey[k])

IInv ==
    /\ TypeOK
    /\ StoredInPlace
    /\ OneAtATime
    /\ HandlerViewHolds
    /\ DownIsEmpty
    /\ ListedHolds
    /\ MapInBucket
    /\ BucketInMap

-----------------------------------------------------------------------------
(* What a step of a handler does to the request it serves                  *)

\* The fields of a request in flight, and of an idle client.
LEMMA RequestShape ==
    ASSUME TypeOK, NEW c \in Clients
    PROVE  /\ req[c] = Idle <=> req[c].at = "idle"
           /\ req[c].at \in CreateSteps \cup DeleteSteps \cup {"idle"}
           /\ req[c] # Idle => req[c].key \in Keys /\ StoredAt(c) \in Keys
           /\ req[c].at \in CreateSteps => MeterOf(c) \in Meter
           /\ req[c].at \in CreateSteps =>
                 req[c] = [at |-> req[c].at, key |-> req[c].key, def |-> req[c].def]
<1>1. CASE req[c] = Idle
  BY <1>1 DEF Idle, CreateSteps, DeleteSteps
<1>2. CASE req[c] \in [at : CreateSteps, key : Keys, def : Defs]
  BY <1>2, SanitiseIsIdempotent DEF Idle, CreateSteps, DeleteSteps, StoredAt, MeterOf, Meter
<1>3. CASE req[c] \in [at : DeleteSteps, key : Keys, def : {NoDef}]
  BY <1>3, SanitiseIsIdempotent DEF Idle, CreateSteps, DeleteSteps, StoredAt, MeterOf, Meter
<1> QED
  BY <1>1, <1>2, <1>3 DEF TypeOK, Request

\* Moving on keeps everything of the request but its step.
LEMMA GotoEffect ==
    ASSUME TypeOK, NEW c \in Clients, req[c] # Idle,
           NEW step \in CreateSteps \cup DeleteSteps,
           step \in CreateSteps <=> req[c].at \in CreateSteps,
           Goto(c, step)
    PROVE  /\ req' \in [Clients -> Request \cup {Idle}]
           /\ req'[c] # Idle
           /\ req'[c].at = step
           /\ StoredAt(c)' = StoredAt(c)
           /\ MeterOf(c)' = MeterOf(c)
           /\ \A d \in Clients \ {c} : req'[d] = req[d]
<1>1. req' = [req EXCEPT ![c] = [req[c] EXCEPT !.at = step]]
  BY DEF Goto
<1>2. /\ req'[c] = [req[c] EXCEPT !.at = step]
      /\ \A d \in Clients \ {c} : req'[d] = req[d]
  BY <1>1 DEF TypeOK
<1>3. CASE req[c] \in [at : CreateSteps, key : Keys, def : Defs]
  <2>1. req'[c] \in [at : CreateSteps, key : Keys, def : Defs]
    BY <1>2, <1>3 DEF CreateSteps, DeleteSteps
  <2>2. req'[c].at = step /\ req'[c].key = req[c].key /\ req'[c].def = req[c].def
    BY <1>2, <1>3
  <2> QED
    BY <1>1, <1>2, <2>1, <2>2 DEF TypeOK, Request, Idle, CreateSteps, DeleteSteps, StoredAt, MeterOf
<1>4. CASE req[c] \in [at : DeleteSteps, key : Keys, def : {NoDef}]
  <2>1. req'[c] \in [at : DeleteSteps, key : Keys, def : {NoDef}]
    BY <1>2, <1>4 DEF CreateSteps, DeleteSteps
  <2>2. req'[c].at = step /\ req'[c].key = req[c].key /\ req'[c].def = req[c].def
    BY <1>2, <1>4
  <2> QED
    BY <1>1, <1>2, <2>1, <2>2 DEF TypeOK, Request, Idle, CreateSteps, DeleteSteps, StoredAt, MeterOf
<1> QED
  BY <1>3, <1>4 DEF TypeOK, Request

\* Answering leaves the client idle and touches no other request.
LEMMA AnswerEffect ==
    ASSUME TypeOK, NEW c \in Clients, Answer(c)
    PROVE  /\ req' \in [Clients -> Request \cup {Idle}]
           /\ req'[c] = Idle
           /\ req'[c].at = "idle"
           /\ \A d \in Clients \ {c} : req'[d] = req[d]
  BY DEF TypeOK, Answer, Idle

\* A request that arrives at an idle client.
LEMMA BeginEffect ==
    ASSUME TypeOK, NEW c \in Clients, NEW r \in Request, Begin(c, r)
    PROVE  /\ req' \in [Clients -> Request \cup {Idle}]
           /\ req'[c] = r
           /\ \A d \in Clients \ {c} : req'[d] = req[d]
  BY DEF TypeOK, Begin

\* A client that is not at a step cannot be its witness: the others stay.
LEMMA AtKept ==
    ASSUME NEW c \in Clients, NEW step, NEW kk, req[c].at # step,
           \A d \in Clients \ {c} : req'[d] = req[d]
    PROVE  At(step, kk) => At(step, kk)'
  BY DEF At, StoredAt

\* A key that is orderly after a step was so before it.
LEMMA OrderlyKept ==
    ASSUME disturbed \subseteq disturbed', NEW k, Orderly(k)'
    PROVE  Orderly(k)
  BY DEF Orderly, Unaliased

-----------------------------------------------------------------------------
(* Every step preserves the invariant                                      *)

LEMMA InitEstablishes == Init => IInv
<1> SUFFICES ASSUME Init PROVE IInv
  OBVIOUS
<1> QED
  BY DEF Init, IInv, TypeOK, StoredInPlace, OneAtATime, HandlerViewHolds, DownIsEmpty,
         ListedHolds, MapInBucket, BucketInMap

LEMMA BeginPreserves ==
    ASSUME IInv, NEW c \in Clients, NEW r \in Request,
           r.at \in {"get", "drop"}, Begin(c, r)
    PROVE  IInv'
<1> DEFINE kk == sanitiseKey[r.key]
<1>1. /\ req' \in [Clients -> Request \cup {Idle}]
      /\ req'[c] = r
      /\ \A d \in Clients \ {c} : req'[d] = req[d]
  BY BeginEffect DEF IInv
<1>2. /\ r # Idle /\ r.key \in Keys /\ kk \in Keys
      /\ StoredAt(c)' = kk
      /\ \A d \in Clients \ {c} : StoredAt(d)' = StoredAt(d) /\ MeterOf(d)' = MeterOf(d)
  BY <1>1, SanitiseIsIdempotent
     DEF Request, CreateSteps, DeleteSteps, Idle, StoredAt, MeterOf
<1>3. /\ boot # "down" /\ req[c] = Idle
      /\ UNCHANGED <<bucket, meterMap, boot, listed>>
      /\ disturbed \subseteq disturbed'
      /\ disturbed' \subseteq disturbed \cup {kk}
      /\ InFlight(kk) # {} => kk \in disturbed'
      /\ r.at = "drop" /\ boot = "listed" => kk \in disturbed'
  BY DEF Begin, Serving
<1>4. TypeOK'
  BY <1>1, <1>2, <1>3 DEF IInv, TypeOK
<1>5. OneAtATime'
  <2>1. ASSUME NEW d \in Clients, d # c, req[d] # Idle, StoredAt(d) = kk
        PROVE  kk \in disturbed'
    BY <1>3, <2>1 DEF InFlight
  <2> QED
    BY <1>1, <1>2, <1>3, <2>1 DEF IInv, OneAtATime
<1>6. HandlerViewHolds'
  BY <1>1, <1>2, <1>3 DEF IInv, HandlerViewHolds, DeleteSteps
<1>7. \A k \in Keys : /\ At("add", k) => At("add", k)'
                      /\ At("remove", k) => At("remove", k)'
  BY <1>1, <1>3, AtKept DEF Idle
<1>8. StoredInPlace' /\ DownIsEmpty' /\ ListedHolds'
  BY <1>3 DEF IInv, StoredInPlace, DownIsEmpty, ListedHolds
<1>9. MapInBucket' /\ BucketInMap'
  BY <1>3, <1>7, OrderlyKept, SanitiseIsIdempotent DEF IInv, MapInBucket, BucketInMap
<1> QED
  BY <1>4, <1>5, <1>6, <1>8, <1>9 DEF IInv

\* A request that ends without having done anything, and one whose store call
\* fails: the key counts as disturbed if the value has changed all the same.
LEMMA AnswerPreserves ==
    ASSUME IInv, NEW c \in Clients, Answer(c),
           req[c].at \in {"get", "set", "drop"},
           UNCHANGED <<meterMap, boot, listed>>,
           NEW m \in Meter \cup {NoMeter},
           m # NoMeter => sanitiseKey[m.key] = StoredAt(c),
           \/ UNCHANGED <<bucket, disturbed>>
           \/ /\ bucket' = [bucket EXCEPT ![StoredAt(c)] = m]
              /\ disturbed' = disturbed \cup {StoredAt(c)}
    PROVE  IInv'
<1>1. /\ req' \in [Clients -> Request \cup {Idle}]
      /\ req'[c] = Idle
      /\ \A d \in Clients \ {c} : req'[d] = req[d]
  BY AnswerEffect DEF IInv
<1>2. /\ StoredAt(c) \in Keys /\ req[c] # Idle
      /\ \A d \in Clients \ {c} : StoredAt(d)' = StoredAt(d) /\ MeterOf(d)' = MeterOf(d)
  BY <1>1, RequestShape DEF IInv, CreateSteps, DeleteSteps, StoredAt, MeterOf
<1>3. /\ disturbed \subseteq disturbed'
      /\ bucket' \in [Keys -> Meter \cup {NoMeter}]
      /\ \A k \in Keys : k \notin disturbed' => bucket'[k] = bucket[k]
      /\ \A k \in Keys : bucket'[k] = bucket[k] \/ (k = StoredAt(c) /\ bucket'[k] = m)
  BY <1>2 DEF IInv, TypeOK
<1>4. TypeOK'
  BY <1>1, <1>2, <1>3 DEF IInv, TypeOK
<1>5. StoredInPlace'
  BY <1>3 DEF IInv, StoredInPlace
<1>6. OneAtATime'
  BY <1>1, <1>2, <1>3 DEF IInv, OneAtATime
<1>7. HandlerViewHolds'
  <2> SUFFICES ASSUME NEW d \in Clients, req'[d] # Idle, StoredAt(d)' \notin disturbed'
               PROVE  /\ req'[d].at \in {"set", "remove"} => bucket'[StoredAt(d)'] = NoMeter
                      /\ req'[d].at = "add" => bucket'[StoredAt(d)'] = MeterOf(d)'
                      /\ req'[d].at \in DeleteSteps => boot' # "listed"
    BY DEF HandlerViewHolds
  <2>1. d # c /\ req'[d] = req[d] /\ StoredAt(d) \in Keys
    BY <1>1, RequestShape DEF IInv
  <2> QED
    BY <1>2, <1>3, <2>1 DEF IInv, HandlerViewHolds
<1>8. DownIsEmpty'
  BY <1>1 DEF IInv, DownIsEmpty
<1>9. ListedHolds'
  BY <1>3, SanitiseIsIdempotent DEF IInv, ListedHolds, TypeOK, Meter
<1>10. \A k \in Keys : /\ At("add", k) => At("add", k)'
                       /\ At("remove", k) => At("remove", k)'
  BY <1>1, AtKept
<1>11. MapInBucket' /\ BucketInMap'
  <2>1. \A k \in Keys : Orderly(k)' => Orderly(k) /\ sanitiseKey[k] \notin disturbed'
    BY <1>3, OrderlyKept DEF Orderly
  <2>2. \A k \in Keys : Orderly(k)' => bucket'[sanitiseKey[k]] = bucket[sanitiseKey[k]]
    BY <1>3, <2>1, SanitiseIsIdempotent
  <2> QED
    BY <1>3, <1>10, <2>1, <2>2, SanitiseIsIdempotent DEF IInv, MapInBucket, BucketInMap
<1> QED
  BY <1>4, <1>5, <1>6, <1>7, <1>8, <1>9, <1>11 DEF IInv

LEMMA RegisterGetPreserves ==
    ASSUME IInv, NEW c \in Clients, RegisterGet(c)
    PROVE  IInv'
<1>1. CASE Answer(c)
  BY <1>1, AnswerPreserves DEF RegisterGet
<1>2. CASE bucket[StoredAt(c)] = NoMeter /\ Goto(c, "set")
  <2>1. req[c].at = "get" /\ UNCHANGED <<bucket, meterMap, boot, listed, disturbed>>
    BY DEF RegisterGet
  <2>2. /\ req' \in [Clients -> Request \cup {Idle}]
        /\ req'[c] # Idle /\ req[c] # Idle /\ req'[c].at = "set"
        /\ \A d \in Clients : StoredAt(d)' = StoredAt(d) /\ MeterOf(d)' = MeterOf(d)
        /\ \A d \in Clients \ {c} : req'[d] = req[d]
    BY <1>2, <2>1, GotoEffect, RequestShape
       DEF IInv, CreateSteps, DeleteSteps, StoredAt, MeterOf
  <2>3. TypeOK' /\ StoredInPlace' /\ OneAtATime' /\ DownIsEmpty' /\ ListedHolds'
    BY <2>1, <2>2 DEF IInv, TypeOK, StoredInPlace, OneAtATime, DownIsEmpty, ListedHolds
  <2>4. HandlerViewHolds'
    BY <1>2, <2>1, <2>2 DEF IInv, HandlerViewHolds, DeleteSteps
  <2>5. \A k \in Keys : /\ At("add", k) => At("add", k)'
                        /\ At("remove", k) => At("remove", k)'
    BY <2>1, <2>2, AtKept
  <2>6. MapInBucket' /\ BucketInMap'
    BY <2>1, <2>5, OrderlyKept, SanitiseIsIdempotent DEF IInv, MapInBucket, BucketInMap
  <2> QED
    BY <2>3, <2>4, <2>6 DEF IInv
<1> QED
  BY <1>1, <1>2 DEF RegisterGet

\* The store call of a create or a delete that succeeds: m is what it leaves.
LEMMA StorePreserves ==
    ASSUME IInv, NEW c \in Clients, NEW m \in Meter \cup {NoMeter},
           \/ req[c].at = "set" /\ m = MeterOf(c) /\ Goto(c, "add")
           \/ req[c].at = "drop" /\ m = NoMeter /\ Goto(c, "remove"),
           bucket' = [bucket EXCEPT ![StoredAt(c)] = m],
           UNCHANGED <<meterMap, boot, listed, disturbed>>
    PROVE  IInv'
<1>1. /\ req' \in [Clients -> Request \cup {Idle}]
      /\ req'[c] # Idle /\ req[c] # Idle /\ StoredAt(c) \in Keys
      /\ \A d \in Clients : StoredAt(d)' = StoredAt(d) /\ MeterOf(d)' = MeterOf(d)
      /\ \A d \in Clients \ {c} : req'[d] = req[d]
      /\ \/ m = MeterOf(c) /\ m \in Meter /\ req[c].at = "set" /\ req'[c].at = "add"
         \/ m = NoMeter /\ req[c].at = "drop" /\ req'[c].at = "remove"
  BY GotoEffect, RequestShape DEF IInv, CreateSteps, DeleteSteps, StoredAt, MeterOf
<1>2. /\ bucket' \in [Keys -> Meter \cup {NoMeter}]
      /\ bucket'[StoredAt(c)] = m
      /\ \A k \in Keys : k # StoredAt(c) => bucket'[k] = bucket[k]
  BY <1>1 DEF IInv, TypeOK
<1>3. TypeOK' /\ OneAtATime' /\ DownIsEmpty'
  BY <1>1, <1>2 DEF IInv, TypeOK, OneAtATime, DownIsEmpty
<1>4. StoredInPlace'
  BY <1>1, <1>2 DEF IInv, StoredInPlace, MeterOf, StoredAt
<1>5. \A d \in Clients : req[d] # Idle => StoredAt(d) \in Keys
  BY RequestShape DEF IInv
<1>6. HandlerViewHolds'
  <2> SUFFICES ASSUME NEW d \in Clients, req'[d] # Idle, StoredAt(d)' \notin disturbed'
               PROVE  /\ req'[d].at \in {"set", "remove"} => bucket'[StoredAt(d)'] = NoMeter
                      /\ req'[d].at = "add" => bucket'[StoredAt(d)'] = MeterOf(d)'
                      /\ req'[d].at \in DeleteSteps => boot' # "listed"
    BY DEF HandlerViewHolds
  <2>1. CASE d = c
    BY <1>1, <1>2, <2>1 DEF IInv, HandlerViewHolds, DeleteSteps
  <2>2. CASE d # c
    <3>1. StoredAt(d) # StoredAt(c)
      BY <1>1, <2>2 DEF IInv, OneAtATime
    <3> QED
      BY <1>1, <1>2, <1>5, <2>2, <3>1 DEF IInv, HandlerViewHolds
  <2> QED
    BY <2>1, <2>2
<1>7. \A k \in Keys : k \notin disturbed /\ bucket'[k] # bucket[k] => k = StoredAt(c)
  BY <1>2
<1>8. \A k \in Keys : k = StoredAt(c) =>
          /\ m = NoMeter => At("remove", k)'
          /\ m # NoMeter => At("add", k)'
  BY <1>1, NoMeterIsNotAMeter DEF At
<1>9. \A k \in Keys : /\ At("add", k) => At("add", k)'
                      /\ At("remove", k) => At("remove", k)'
  BY <1>1, AtKept
<1>10. ListedHolds'
  <2>1. boot = "listed" => req[c].at # "drop" \/ StoredAt(c) \in disturbed
    BY <1>1 DEF IInv, HandlerViewHolds, DeleteSteps
  <2>2. req[c].at = "set" /\ StoredAt(c) \notin disturbed => bucket[StoredAt(c)] = NoMeter
    BY <1>1 DEF IInv, HandlerViewHolds
  <2>3. \A n \in listed : n \in Meter /\ n # NoMeter /\ sanitiseKey[n.key] \in Keys
    BY SanitiseIsIdempotent, NoMeterIsNotAMeter DEF IInv, TypeOK, Meter
  <2> QED
    BY <1>1, <1>2, <2>1, <2>2, <2>3 DEF IInv, ListedHolds
<1>11. MapInBucket'
  <2> SUFFICES ASSUME NEW k \in Keys, Orderly(k), meterMap[k] # NoMeter
               PROVE  meterMap[k] = bucket'[sanitiseKey[k]] \/ At("remove", sanitiseKey[k])'
    BY OrderlyKept DEF MapInBucket
  <2>1. meterMap[k] = bucket[sanitiseKey[k]] \/ At("remove", sanitiseKey[k])
    BY DEF IInv, MapInBucket
  <2>2. CASE sanitiseKey[k] # StoredAt(c)
    BY <1>2, <1>9, <2>1, <2>2, SanitiseIsIdempotent
  <2>3. CASE sanitiseKey[k] = StoredAt(c) /\ m # NoMeter
    <3>1. bucket[sanitiseKey[k]] = NoMeter
      BY <1>1, <2>3 DEF IInv, HandlerViewHolds, Orderly
    <3> QED
      BY <1>9, <2>1, <3>1, SanitiseIsIdempotent
  <2>4. CASE sanitiseKey[k] = StoredAt(c) /\ m = NoMeter
    BY <1>8, <2>4, SanitiseIsIdempotent
  <2> QED
    BY <2>2, <2>3, <2>4
<1>12. BucketInMap'
  <2> SUFFICES ASSUME NEW k \in Keys, boot \in {"listed", "consuming"}, Orderly(k),
                      bucket'[sanitiseKey[k]] # NoMeter
               PROVE  \/ meterMap[k] = bucket'[sanitiseKey[k]]
                      \/ boot = "listed" /\ bucket'[sanitiseKey[k]] \in listed
                      \/ At("add", sanitiseKey[k])'
    BY <1>1, OrderlyKept DEF BucketInMap
  <2>1. CASE sanitiseKey[k] # StoredAt(c)
    BY <1>2, <1>9, <2>1, SanitiseIsIdempotent DEF IInv, BucketInMap
  <2>2. CASE sanitiseKey[k] = StoredAt(c)
    BY <1>2, <1>8, <2>2, SanitiseIsIdempotent
  <2> QED
    BY <2>1, <2>2
<1> QED
  BY <1>3, <1>4, <1>6, <1>10, <1>11, <1>12 DEF IInv

LEMMA RegisterSetPreserves ==
    ASSUME IInv, NEW c \in Clients, RegisterSet(c)
    PROVE  IInv'
<1>1. /\ req[c].at = "set" /\ MeterOf(c) \in Meter
      /\ sanitiseKey[MeterOf(c).key] = StoredAt(c)
  BY RequestShape DEF RegisterSet, IInv, CreateSteps, MeterOf, StoredAt
<1>2. CASE Goto(c, "add")
  BY <1>1, <1>2, StorePreserves, AnswerPreserves DEF RegisterSet
<1>3. CASE Answer(c)
  BY <1>1, <1>3, StorePreserves, AnswerPreserves DEF RegisterSet
<1> QED
  BY <1>2, <1>3 DEF RegisterSet

LEMMA DropPreserves ==
    ASSUME IInv, NEW c \in Clients, Drop(c)
    PROVE  IInv'
<1>1. CASE Goto(c, "remove")
  BY <1>1, StorePreserves, AnswerPreserves DEF Drop
<1>2. CASE Answer(c)
  BY <1>2, StorePreserves, AnswerPreserves DEF Drop
<1> QED
  BY <1>1, <1>2 DEF Drop

\* The last step of either handler: the map takes what the bucket holds.
LEMMA MapPreserves ==
    ASSUME IInv, NEW c \in Clients, Answer(c),
           NEW m \in Meter \cup {NoMeter},
           \/ req[c].at = "add" /\ m = MeterOf(c)
           \/ req[c].at = "remove" /\ m = NoMeter,
           meterMap' = [meterMap EXCEPT ![req[c].key] = m],
           UNCHANGED <<bucket, boot, listed, disturbed>>
    PROVE  IInv'
<1>1. /\ req' \in [Clients -> Request \cup {Idle}]
      /\ req'[c] = Idle
      /\ \A d \in Clients \ {c} : req'[d] = req[d]
  BY AnswerEffect DEF IInv
<1>2. /\ req[c].key \in Keys /\ req[c] # Idle
      /\ StoredAt(c) \in Keys
      /\ \A d \in Clients \ {c} : StoredAt(d)' = StoredAt(d) /\ MeterOf(d)' = MeterOf(d)
  BY <1>1, RequestShape DEF IInv, CreateSteps, DeleteSteps, StoredAt, MeterOf
<1>3. /\ meterMap' \in [Keys -> Meter \cup {NoMeter}]
      /\ meterMap'[req[c].key] = m
      /\ \A k \in Keys : k # req[c].key => meterMap'[k] = meterMap[k]
  BY <1>2 DEF IInv, TypeOK
<1>4. boot # "down"
  BY <1>2 DEF IInv, DownIsEmpty
<1>5. TypeOK' /\ StoredInPlace' /\ OneAtATime' /\ DownIsEmpty' /\ ListedHolds'
  BY <1>1, <1>2, <1>3, <1>4
     DEF IInv, TypeOK, StoredInPlace, OneAtATime, DownIsEmpty, ListedHolds
<1>6. HandlerViewHolds'
  BY <1>1, <1>2 DEF IInv, HandlerViewHolds
<1>7. StoredAt(c) \notin disturbed => m = bucket[StoredAt(c)]
  BY <1>2 DEF IInv, HandlerViewHolds
<1>8. \A k \in Keys : k # StoredAt(c) =>
          /\ At("add", k) => At("add", k)'
          /\ At("remove", k) => At("remove", k)'
  BY <1>1 DEF At, StoredAt
<1>9. ASSUME NEW k \in Keys, Orderly(k)
      PROVE  \/ k = req[c].key /\ meterMap'[k] = bucket[sanitiseKey[k]]
             \/ k # req[c].key /\ sanitiseKey[k] # StoredAt(c) /\ meterMap'[k] = meterMap[k]
  BY <1>2, <1>3, <1>7, <1>9 DEF Orderly, Unaliased, StoredAt
<1>10. \A k \in Keys : Orderly(k)' => Orderly(k)
  BY DEF Orderly, Unaliased
<1>11. MapInBucket'
  BY <1>8, <1>9, <1>10, SanitiseIsIdempotent DEF IInv, MapInBucket
<1>12. BucketInMap'
  BY <1>8, <1>9, <1>10, SanitiseIsIdempotent DEF IInv, BucketInMap
<1> QED
  BY <1>5, <1>6, <1>11, <1>12 DEF IInv

LEMMA AddMeterToConsumePreserves ==
    ASSUME IInv, NEW c \in Clients, AddMeterToConsume(c)
    PROVE  IInv'
<1>1. MeterOf(c) \in Meter
  BY RequestShape DEF AddMeterToConsume, IInv, CreateSteps
<1> QED
  BY <1>1, MapPreserves DEF AddMeterToConsume

LEMMA RemoveMeterFromConsumePreserves ==
    ASSUME IInv, NEW c \in Clients, RemoveMeterFromConsume(c)
    PROVE  IInv'
  BY MapPreserves DEF RemoveMeterFromConsume

LEMMA StartServingPreserves == ASSUME IInv, StartServing PROVE IInv'
<1>1. /\ TypeOK' /\ StoredInPlace' /\ OneAtATime' /\ HandlerViewHolds'
      /\ DownIsEmpty' /\ ListedHolds'
  BY DEF StartServing, IInv, TypeOK, StoredInPlace, OneAtATime, HandlerViewHolds,
         DownIsEmpty, ListedHolds, StoredAt, MeterOf
<1>2. MapInBucket' /\ BucketInMap'
  BY DEF StartServing, IInv, DownIsEmpty, MapInBucket, BucketInMap
<1> QED
  BY <1>1, <1>2 DEF IInv

LEMMA ListPreserves == ASSUME IInv, List PROVE IInv'
<1>1. /\ boot = "serving" /\ boot' \in {"listed", "failed"}
      /\ UNCHANGED <<bucket, meterMap, req>>
      /\ boot' = "listed" =>
            /\ listed' = {bucket[k] : k \in Keys} \ {NoMeter}
            /\ disturbed' = disturbed \cup
                  {StoredAt(c) : c \in {d \in Clients : req[d].at \in DeleteSteps}}
      /\ boot' = "failed" => UNCHANGED <<listed, disturbed>>
  BY DEF List
<1>2. \A c \in Clients : req[c].at \in DeleteSteps => StoredAt(c) \in Keys
  BY RequestShape DEF IInv, DeleteSteps, Idle
<1>3. disturbed \subseteq disturbed' /\ disturbed' \subseteq Keys
  BY <1>1, <1>2 DEF IInv, TypeOK
<1>4. listed' \subseteq Meter
  BY <1>1 DEF IInv, TypeOK
<1>5. TypeOK' /\ StoredInPlace' /\ OneAtATime' /\ DownIsEmpty'
  BY <1>1, <1>3, <1>4 DEF IInv, TypeOK, StoredInPlace, OneAtATime, DownIsEmpty, StoredAt
<1>6. HandlerViewHolds'
  BY <1>1, <1>3 DEF IInv, HandlerViewHolds, StoredAt, MeterOf, DeleteSteps
<1>7. ListedHolds'
  BY <1>1 DEF IInv, StoredInPlace, ListedHolds
<1>8. MapInBucket'
  BY <1>1, <1>3 DEF IInv, MapInBucket, Orderly, Unaliased, At, StoredAt
<1>9. BucketInMap'
  BY <1>1, SanitiseIsIdempotent DEF BucketInMap
<1> QED
  BY <1>5, <1>6, <1>7, <1>8, <1>9 DEF IInv

LEMMA AddMetersPreserves == ASSUME IInv, AddMeters PROVE IInv'
<1>1. /\ boot = "listed" /\ boot' = "consuming" /\ listed' = {}
      /\ UNCHANGED <<bucket, req, disturbed>>
  BY DEF AddMeters
<1>2. ASSUME NEW k \in Keys
      PROVE  \/ ListedUnder(k) = {} /\ meterMap'[k] = meterMap[k]
             \/ meterMap'[k] \in ListedUnder(k)
  BY DEF AddMeters
<1>3. meterMap' \in [Keys -> Meter \cup {NoMeter}]
  BY DEF AddMeters, ListedUnder, IInv, TypeOK
<1>4. TypeOK' /\ StoredInPlace' /\ OneAtATime' /\ DownIsEmpty' /\ ListedHolds'
  BY <1>1, <1>3
     DEF IInv, TypeOK, StoredInPlace, OneAtATime, DownIsEmpty, ListedHolds, StoredAt
<1>5. HandlerViewHolds'
  BY <1>1 DEF IInv, HandlerViewHolds, StoredAt, MeterOf
<1>6. ASSUME NEW k \in Keys, Orderly(k), ListedUnder(k) # {}
      PROVE  meterMap'[k] = bucket[sanitiseKey[k]]
  BY <1>1, <1>2, <1>6 DEF IInv, ListedHolds, ListedUnder, Orderly
<1>7. MapInBucket'
  BY <1>1, <1>2, <1>6 DEF IInv, MapInBucket, Orderly, Unaliased, At, StoredAt
<1>8. BucketInMap'
  <2> SUFFICES ASSUME NEW k \in Keys, Orderly(k), bucket[sanitiseKey[k]] # NoMeter
               PROVE  meterMap'[k] = bucket[sanitiseKey[k]] \/ At("add", sanitiseKey[k])
    BY <1>1 DEF BucketInMap, Orderly, Unaliased, At, StoredAt
  <2>1. CASE bucket[sanitiseKey[k]] \in listed
    <3>1. /\ bucket[sanitiseKey[k]].key \in Keys
          /\ sanitiseKey[bucket[sanitiseKey[k]].key] = sanitiseKey[k]
      BY <2>1, SanitiseIsIdempotent DEF IInv, TypeOK, Meter, StoredInPlace
    <3>2. bucket[sanitiseKey[k]].key = k
      BY <3>1 DEF Orderly, Unaliased
    <3>3. ListedUnder(k) # {}
      BY <2>1, <3>2 DEF ListedUnder
    <3> QED
      BY <1>6, <3>3
  <2>2. CASE bucket[sanitiseKey[k]] \notin listed
    BY <1>1, <1>2, <1>6, <2>2 DEF IInv, BucketInMap
  <2> QED
    BY <2>1, <2>2
<1> QED
  BY <1>4, <1>5, <1>7, <1>8 DEF IInv

LEMMA CrashPreserves == ASSUME IInv, Crash PROVE IInv'
<1>1. TypeOK' /\ StoredInPlace' /\ OneAtATime' /\ HandlerViewHolds'
  BY DEF Crash, IInv, TypeOK, StoredInPlace, OneAtATime, HandlerViewHolds
<1>2. DownIsEmpty' /\ ListedHolds' /\ MapInBucket' /\ BucketInMap'
  BY DEF Crash, DownIsEmpty, ListedHolds, MapInBucket, BucketInMap
<1> QED
  BY <1>1, <1>2 DEF IInv

LEMMA StutterPreserves == ASSUME IInv, UNCHANGED vars PROVE IInv'
<1>1. /\ TypeOK' /\ StoredInPlace' /\ OneAtATime' /\ HandlerViewHolds'
      /\ DownIsEmpty' /\ ListedHolds'
  BY DEF vars, IInv, TypeOK, StoredInPlace, OneAtATime, HandlerViewHolds,
         DownIsEmpty, ListedHolds, StoredAt, MeterOf
<1>2. MapInBucket' /\ BucketInMap'
  BY DEF vars, IInv, MapInBucket, BucketInMap, Orderly, Unaliased, At, StoredAt
<1> QED
  BY <1>1, <1>2 DEF IInv

LEMMA NextPreserves == IInv /\ [Next]_vars => IInv'
<1> SUFFICES ASSUME IInv, [Next]_vars PROVE IInv'
  OBVIOUS
<1>1. CASE \E c \in Clients, k \in Keys, d \in Defs : CreateMeter(c, k, d)
  <2>1. PICK c \in Clients, k \in Keys, d \in Defs : CreateMeter(c, k, d)
    BY <1>1
  <2>2. [at |-> "get", key |-> k, def |-> d] \in Request
    BY DEF Request, CreateSteps
  <2> QED
    BY <2>1, <2>2, BeginPreserves DEF CreateMeter
<1>2. CASE \E c \in Clients, k \in Keys : DeleteMeter(c, k)
  <2>1. PICK c \in Clients, k \in Keys : DeleteMeter(c, k)
    BY <1>2
  <2>2. [at |-> "drop", key |-> k, def |-> NoDef] \in Request
    BY DEF Request, DeleteSteps
  <2> QED
    BY <2>1, <2>2, BeginPreserves DEF DeleteMeter
<1>3. CASE \E c \in Clients : Handler(c)
  BY <1>3, RegisterGetPreserves, RegisterSetPreserves, AddMeterToConsumePreserves,
     DropPreserves, RemoveMeterFromConsumePreserves DEF Handler
<1>4. CASE Boot
  BY <1>4, StartServingPreserves, ListPreserves, AddMetersPreserves DEF Boot
<1>5. CASE Crash
  BY <1>5, CrashPreserves
<1>6. CASE UNCHANGED vars
  BY <1>6, StutterPreserves
<1> QED
  BY <1>1, <1>2, <1>3, <1>4, <1>5, <1>6 DEF Next

\* The inductive invariant holds in every reachable state.
THEOREM Invariant == Spec => []IInv
<1>1. Init => IInv
  BY InitEstablishes
<1>2. IInv /\ [Next]_vars => IInv'
  BY NextPreserves
<1> QED
  BY <1>1, <1>2, PTL DEF Spec

-----------------------------------------------------------------------------
(* What it shows                                                           *)

\* Every variable keeps its type, whatever requests and crashes happen.
THEOREM TypeCorrect == Spec => []TypeOK
<1>1. IInv => TypeOK
  BY DEF IInv
<1> QED
  BY <1>1, Invariant, PTL

\* meterMap and the bucket agree on every meter that is not being changed, for
\* any number of clients, keys and meters and through any number of restarts.
THEOREM Agreement == Spec => []RegistryAgreement
<1>1. IInv => RegistryAgreement
  <2> SUFFICES ASSUME IInv, NEW k \in Keys, boot = "consuming", Orderly(k),
                      InFlight(sanitiseKey[k]) = {}
               PROVE  meterMap[k] = bucket[sanitiseKey[k]]
    BY DEF RegistryAgreement
  <2>1. ~At("add", sanitiseKey[k]) /\ ~At("remove", sanitiseKey[k])
    BY DEF At, InFlight, Idle
  <2>2. meterMap[k] # NoMeter => meterMap[k] = bucket[sanitiseKey[k]]
    BY <2>1 DEF IInv, MapInBucket
  <2>3. bucket[sanitiseKey[k]] # NoMeter => meterMap[k] = bucket[sanitiseKey[k]]
    BY <2>1 DEF IInv, BucketInMap
  <2> QED
    BY <2>2, <2>3
<1> QED
  BY <1>1, Invariant, PTL

\* A stored meter is never replaced by another one on an undisturbed key.
THEOREM Immutable == Spec => RegisteredMeterKept
<1>1. IInv /\ [Next]_vars =>
        [\A k \in Keys :
            /\ k \notin disturbed
            /\ bucket[k] # NoMeter
            /\ bucket'[k] # NoMeter
            => bucket'[k] = bucket[k]]_vars
  <2> SUFFICES ASSUME IInv, Next, NEW k \in Keys, k \notin disturbed,
                      bucket[k] # NoMeter, bucket'[k] # bucket[k]
               PROVE  bucket'[k] = NoMeter
    BY DEF vars
  <2>1. CASE \E c \in Clients : Handler(c)
    <3>1. PICK c \in Clients : Handler(c)
      BY <2>1
    <3>2. CASE RegisterSet(c)
      <4>1. req[c].at = "set" /\ req[c] # Idle /\ k = StoredAt(c)
        BY <3>2, RequestShape DEF RegisterSet, IInv, TypeOK
      <4> QED
        BY <4>1 DEF IInv, HandlerViewHolds
    <3>3. CASE Drop(c)
      BY <3>3 DEF Drop, IInv, TypeOK
    <3> QED
      BY <3>1, <3>2, <3>3
         DEF Handler, RegisterGet, AddMeterToConsume, RemoveMeterFromConsume
  <2>2. CASE ~\E c \in Clients : Handler(c)
    BY <2>2 DEF Next, CreateMeter, DeleteMeter, Begin, Boot, StartServing, List,
                AddMeters, Crash
  <2> QED
    BY <2>1, <2>2
<1> QED
  BY <1>1, Invariant, PTL DEF Spec, RegisteredMeterKept
=============================================================================
