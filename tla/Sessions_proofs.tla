---------------------------- MODULE Sessions_proofs ----------------------------
(***************************************************************************)
(* The repository is an expiring map, and a plain one on the keys nobody   *)
(* writes with an expiry; the middleware uses it as its callers may, and   *)
(* backs the cookies it hands out.                                         *)
(***************************************************************************)
EXTENDS Sessions, TLAPS

-----------------------------------------------------------------------------
(* The repository                                                          *)

Mortal == {k \in Keys : store[k].expires # "never"}
Hazy == {k \in Keys : dropping[k] > 0}

LEMMA PutTypes ==
    ASSUME RepoTypeOK, NEW k \in Keys, NEW v \in Value \cup {Nothing}, NEW result,
           Put(k, v, result)
    PROVE  RepoTypeOK'
<1>1. v.data \in Data \cup {NoData}
  BY DEF Value, Nothing
<1>2. asked' \in [Keys -> SUBSET (Data \cup {NoData})]
  BY <1>1 DEF RepoTypeOK, Put
<1> QED
  BY <1>2 DEF RepoTypeOK, Put

LEMMA RepoTypes == RepoTypeOK /\ [RepoNext]_repo => RepoTypeOK'
<1> SUFFICES ASSUME RepoTypeOK, [RepoNext]_repo PROVE RepoTypeOK'
  OBVIOUS
<1>1. ASSUME NEW k \in Keys, NEW d \in Data, NEW r, Set(k, d, r) \/ SetWithExpiry(k, d, r)
      PROVE  RepoTypeOK'
  <2>1. /\ [data |-> d, expires |-> "never"] \in Value
        /\ [data |-> d, expires |-> "later"] \in Value
    BY <1>1 DEF Value
  <2> QED
    BY <1>1, <2>1, PutTypes DEF Set, SetWithExpiry
<1>2. ASSUME NEW k \in Keys, NEW r, Drop(k, r) PROVE RepoTypeOK'
  BY <1>2, PutTypes DEF Drop
<1>3. ASSUME NEW k \in Keys, NEW r, Get(k, r) PROVE RepoTypeOK'
  BY <1>3, MaxDroppingIsNat DEF Get, RepoTypeOK
<1>4. ASSUME NEW k \in Keys, Cleanup(k) PROVE RepoTypeOK'
  BY <1>4, MaxDroppingIsNat DEF Cleanup, RepoTypeOK
<1>5. ASSUME NEW k \in Keys, Expire(k) PROVE RepoTypeOK'
  <2>1. store[k] \in Value
    BY <1>5 DEF Expire, RepoTypeOK, Nothing
  <2>2. [store[k] EXCEPT !.expires = "past"] \in Value
    BY <2>1 DEF Value
  <2> QED
    BY <1>5, <2>2 DEF Expire, RepoTypeOK
<1>6. CASE UNCHANGED repo
  BY <1>6 DEF repo, RepoTypeOK
<1> QED
  BY <1>1, <1>2, <1>3, <1>4, <1>5, <1>6 DEF RepoNext

\* A value as callers put it is visible at once.
LEMMA PutShows ==
    ASSUME RepoTypeOK, NEW k \in Keys, NEW d, NEW e \in {"never", "later"},
           store' = [store EXCEPT ![k] = [data |-> d, expires |-> e]]
    PROVE  /\ Visible' = [Visible EXCEPT ![k] = d]
           /\ Mortal' = IF e = "never" THEN Mortal \ {k} ELSE Mortal \cup {k}
<1>1. /\ store'[k].data = d /\ store'[k].expires = e
      /\ \A n \in Keys \ {k} : store'[n] = store[n]
  BY DEF RepoTypeOK
<1>2. Visible' = [Visible EXCEPT ![k] = d]
  <2>1. store'[k].expires # "past"
    BY <1>1
  <2>2. Visible' = [n \in Keys |-> IF n = k THEN d ELSE Visible[n]]
    BY <1>1, <2>1 DEF Visible
  <2> QED
    BY <2>2 DEF Visible
<1>3. Mortal' = IF e = "never" THEN Mortal \ {k} ELSE Mortal \cup {k}
  BY <1>1 DEF Mortal
<1> QED
  BY <1>2, <1>3

\* What a call does to asked, and what it may do to the value.
LEMMA PutAsks ==
    ASSUME RepoTypeOK, NEW k \in Keys, NEW v, NEW result, Put(k, v, result)
    PROVE  /\ UNCHANGED dropping
           /\ \/ asked' = [asked EXCEPT ![k] = {v.data}] /\ store' = [store EXCEPT ![k] = v]
              \/ /\ asked' = [asked EXCEPT ![k] = @ \cup {v.data}]
                 /\ store' = store \/ store' = [store EXCEPT ![k] = v]
<1>1. CASE result = "error"
  <2>1. asked' = [asked EXCEPT ![k] = @ \cup {v.data}]
    BY <1>1 DEF Put
  <2> QED
    BY <2>1 DEF Put
<1>2. CASE result # "error"
  <2>1. asked' = [asked EXCEPT ![k] = {v.data}]
    BY <1>2 DEF Put
  <2> QED
    BY <1>2, <2>1 DEF Put
<1> QED
  BY <1>1, <1>2

LEMMA RepoStepExpires ==
    RepoTypeOK /\ [RepoNext]_repo => [Expiring!Next]_(Expiring!vars)
<1> SUFFICES ASSUME RepoTypeOK, [RepoNext]_repo
             PROVE  Expiring!Next \/ UNCHANGED <<Visible, asked, Mortal, Hazy>>
  BY DEF Expiring!vars, Mortal, Hazy
<1>1. CASE UNCHANGED repo
  BY <1>1 DEF repo, Visible, Mortal, Hazy
<1>2. ASSUME NEW k \in Keys, NEW d, NEW e \in {"never", "later"}, NEW r,
             Put(k, [data |-> d, expires |-> e], r)
      PROVE  /\ Expiring!Ask(k, d) /\ UNCHANGED Hazy
             /\ Mortal' \in {Mortal, IF e = "never" THEN Mortal \ {k} ELSE Mortal \cup {k}}
  <2>1. UNCHANGED Hazy
    BY <1>2, PutAsks DEF Hazy
  <2>2. CASE store' = [store EXCEPT ![k] = [data |-> d, expires |-> e]]
    <3>1. /\ Visible' = [Visible EXCEPT ![k] = d]
          /\ Mortal' = IF e = "never" THEN Mortal \ {k} ELSE Mortal \cup {k}
      BY <2>2, PutShows
    <3> QED
      BY <1>2, <2>1, <3>1, PutAsks DEF Expiring!Ask
  <2>3. CASE store' = store /\ asked' = [asked EXCEPT ![k] = @ \cup {d}]
    <3>1. UNCHANGED <<Visible, Mortal>>
      BY <2>3 DEF Visible, Mortal
    <3> QED
      BY <2>1, <2>3, <3>1 DEF Expiring!Ask
  <2> QED
    BY <1>2, <2>2, <2>3, PutAsks
<1>3. ASSUME NEW k \in Keys, NEW d \in Data, NEW r, Set(k, d, r) \/ SetWithExpiry(k, d, r)
      PROVE  Expiring!Next
  <2>1. PICK e \in {"never", "later"} : Put(k, [data |-> d, expires |-> e], r)
    BY <1>3 DEF Set, SetWithExpiry
  <2>2. Mortal' \in {Mortal \cup {k}, Mortal \ {k}}
    BY <1>2, <2>1
  <2>3. Expiring!Write(k, d)
    BY <1>2, <2>1, <2>2 DEF Expiring!Write, Mortal, Hazy
  <2> QED
    BY <2>3 DEF Expiring!Next
<1>4. ASSUME NEW k \in Keys, NEW r, Drop(k, r) PROVE Expiring!Next
  <2>1. Put(k, [data |-> NoData, expires |-> "never"], r)
    BY <1>4 DEF Drop, Nothing
  <2>2. Expiring!Remove(k)
    BY <1>2, <2>1 DEF Expiring!Remove, Mortal, Hazy
  <2> QED
    BY <2>2 DEF Expiring!Next
<1>5. ASSUME NEW k \in Keys, NEW r, Get(k, r)
      PROVE  Expiring!Next \/ UNCHANGED <<Visible, asked, Mortal, Hazy>>
  <2>1. CASE isExpired(store[k])
    <3>1. /\ Hazy' = Hazy \cup {k}
          /\ UNCHANGED <<Visible, asked, Mortal>>
          /\ k \in Mortal /\ Visible[k] = NoData
      BY <1>5, <2>1, MaxDroppingIsNat DEF Get, isExpired, RepoTypeOK, Visible, Mortal, Hazy
    <3>2. Expiring!Notice(k)
      BY <3>1 DEF Expiring!Notice, Mortal, Hazy
    <3> QED
      BY <3>2 DEF Expiring!Next
  <2>2. CASE ~isExpired(store[k])
    BY <1>1, <1>5, <2>2 DEF Get, repo
  <2> QED
    BY <2>1, <2>2
<1>6. ASSUME NEW k \in Keys, Cleanup(k) PROVE Expiring!Next
  <2>1. k \in Hazy /\ Hazy' \in {Hazy, Hazy \ {k}} /\ UNCHANGED asked
    BY <1>6, MaxDroppingIsNat DEF Cleanup, RepoTypeOK, Hazy
  <2>2. \/ UNCHANGED <<Visible, Mortal>>
        \/ Visible' = [Visible EXCEPT ![k] = NoData] /\ Mortal' = Mortal \ {k}
    <3>1. CASE UNCHANGED store
      BY <3>1 DEF Visible, Mortal
    <3>2. CASE store' = [store EXCEPT ![k] = Nothing]
      BY <3>2, PutShows DEF Nothing
    <3> QED
      BY <1>6, <3>1, <3>2 DEF Cleanup
  <2>3. Expiring!Sweep(k)
    BY <2>1, <2>2 DEF Expiring!Sweep, Expiring!Gone, Mortal, Hazy
  <2> QED
    BY <2>3 DEF Expiring!Next
<1>7. ASSUME NEW k \in Keys, Expire(k) PROVE Expiring!Next
  <2>1. /\ k \in Mortal /\ UNCHANGED <<asked, Mortal, Hazy>>
        /\ Visible' = [Visible EXCEPT ![k] = NoData]
    <3>1. store[k] \in Value
      BY <1>7 DEF Expire, RepoTypeOK, Nothing
    <3>2. /\ store'[k].expires = "past"
          /\ \A n \in Keys \ {k} : store'[n] = store[n]
      BY <1>7, <3>1 DEF Expire, RepoTypeOK, Value
    <3> QED
      BY <1>7, <3>2 DEF Expire, RepoTypeOK, Visible, Mortal, Hazy
  <2>2. Expiring!Perish(k)
    BY <2>1 DEF Expiring!Perish, Expiring!Gone, Mortal, Hazy
  <2> QED
    BY <2>2 DEF Expiring!Next
<1> QED
  BY <1>1, <1>3, <1>4, <1>5, <1>6, <1>7 DEF RepoNext

\* Nothing that expires or is swept is stored under a plain key.
PlainKeys ==
    \A k \in Keys \ Fleeting : store[k].expires = "never" /\ dropping[k] = 0

RepoInv == RepoTypeOK /\ PlainKeys

PlainData == [k \in Keys \ Fleeting |-> store[k].data]
PlainAsked == [k \in Keys \ Fleeting |-> asked[k]]

LEMMA PutPlain ==
    ASSUME RepoInv, NEW k \in Keys, NEW d, NEW e \in {"never", "later"}, NEW r,
           k \in Fleeting \/ e = "never",
           Put(k, [data |-> d, expires |-> e], r)
    PROVE  /\ PlainKeys'
           /\ k \notin Fleeting => Plain!Ask(k, d)
           /\ k \in Fleeting => UNCHANGED <<PlainData, PlainAsked>>
<1>1. /\ UNCHANGED dropping
      /\ \/ /\ asked' = [asked EXCEPT ![k] = {d}]
            /\ store' = [store EXCEPT ![k] = [data |-> d, expires |-> e]]
         \/ /\ asked' = [asked EXCEPT ![k] = @ \cup {d}]
            /\ store' = store \/ store' = [store EXCEPT ![k] = [data |-> d, expires |-> e]]
  BY PutAsks DEF RepoInv
<1>2. /\ \A n \in Keys \ {k} : store'[n] = store[n] /\ asked'[n] = asked[n]
      /\ store'[k] = store[k] \/ (store'[k].data = d /\ store'[k].expires = e)
  BY <1>1 DEF RepoInv, RepoTypeOK
<1>3. PlainKeys'
  BY <1>1, <1>2 DEF RepoInv, PlainKeys
<1>4. ASSUME k \notin Fleeting PROVE Plain!Ask(k, d)
  <2>1. ASSUME store' = [store EXCEPT ![k] = [data |-> d, expires |-> e]]
        PROVE  PlainData' = [PlainData EXCEPT ![k] = d]
    <3>1. store'[k].data = d
      BY <2>1 DEF RepoInv, RepoTypeOK
    <3>2. PlainData' = [n \in Keys \ Fleeting |-> IF n = k THEN d ELSE PlainData[n]]
      BY <1>2, <3>1 DEF PlainData
    <3> QED
      BY <3>2 DEF PlainData
  <2>2. ASSUME NEW S, asked' = [asked EXCEPT ![k] = S]
        PROVE  PlainAsked' = [PlainAsked EXCEPT ![k] = S]
    <3>1. PlainAsked' = [n \in Keys \ Fleeting |-> IF n = k THEN S ELSE PlainAsked[n]]
      BY <2>2 DEF PlainAsked, RepoInv, RepoTypeOK
    <3> QED
      BY <3>1 DEF PlainAsked
  <2>3. store' = store => PlainData' = PlainData
    BY DEF PlainData
  <2>4. PlainAsked[k] = asked[k]
    BY <1>4 DEF PlainAsked
  <2> QED
    BY <1>1, <2>1, <2>2, <2>3, <2>4 DEF Plain!Ask, PlainData, PlainAsked
<1>5. k \in Fleeting => UNCHANGED <<PlainData, PlainAsked>>
  BY <1>2 DEF PlainData, PlainAsked
<1> QED
  BY <1>3, <1>4, <1>5

LEMMA RepoStepPlain ==
    RepoInv /\ [RepoNext]_repo => PlainKeys' /\ [Plain!Next]_(Plain!vars)
<1> SUFFICES ASSUME RepoInv, [RepoNext]_repo
             PROVE  PlainKeys' /\ (Plain!Next \/ UNCHANGED <<PlainData, PlainAsked>>)
  BY DEF Plain!vars, PlainData, PlainAsked
<1>1. CASE UNCHANGED repo
  BY <1>1 DEF repo, RepoInv, PlainKeys, PlainData, PlainAsked
<1>2. ASSUME NEW k \in Keys, NEW d \in Data, NEW r, Set(k, d, r)
      PROVE  PlainKeys' /\ (Plain!Next \/ UNCHANGED <<PlainData, PlainAsked>>)
  <2>1. Put(k, [data |-> d, expires |-> "never"], r)
    BY <1>2 DEF Set
  <2>2. k \notin Fleeting => Plain!Next
    BY <2>1, PutPlain DEF Plain!Write, Plain!Next
  <2> QED
    BY <2>1, <2>2, PutPlain
<1>3. ASSUME NEW k \in Keys, NEW d \in Data, NEW r, SetWithExpiry(k, d, r)
      PROVE  PlainKeys' /\ UNCHANGED <<PlainData, PlainAsked>>
  BY <1>3, PutPlain DEF SetWithExpiry
<1>4. ASSUME NEW k \in Keys, NEW r, Drop(k, r)
      PROVE  PlainKeys' /\ (Plain!Next \/ UNCHANGED <<PlainData, PlainAsked>>)
  <2>1. Put(k, [data |-> NoData, expires |-> "never"], r)
    BY <1>4 DEF Drop, Nothing
  <2>2. k \notin Fleeting => Plain!Next
    BY <2>1, PutPlain DEF Plain!Remove, Plain!Next
  <2> QED
    BY <2>1, <2>2, PutPlain
<1>5. ASSUME NEW k \in Keys, NEW r, Get(k, r)
      PROVE  PlainKeys' /\ UNCHANGED <<PlainData, PlainAsked>>
  <2>1. UNCHANGED <<store, asked>>
    BY <1>5 DEF Get
  <2>2. k \in Fleeting \/ UNCHANGED dropping
    BY <1>5 DEF Get, isExpired, RepoInv, PlainKeys
  <2>3. \A n \in Keys \ {k} : dropping'[n] = dropping[n]
    BY <1>5 DEF Get, RepoInv, RepoTypeOK
  <2> QED
    BY <2>1, <2>2, <2>3 DEF RepoInv, PlainKeys, PlainData, PlainAsked
<1>6. ASSUME NEW k \in Keys, Cleanup(k) \/ Expire(k)
      PROVE  PlainKeys' /\ UNCHANGED <<PlainData, PlainAsked>>
  <2>1. k \in Fleeting /\ UNCHANGED asked
    BY <1>6 DEF Cleanup, Expire, RepoInv, PlainKeys
  <2>2. \A n \in Keys \ {k} : store'[n] = store[n] /\ dropping'[n] = dropping[n]
    BY <1>6 DEF Cleanup, Expire, RepoInv, RepoTypeOK
  <2> QED
    BY <2>1, <2>2 DEF RepoInv, PlainKeys, PlainData, PlainAsked
<1> QED
  BY <1>1, <1>2, <1>3, <1>4, <1>5, <1>6 DEF RepoNext

LEMMA RepoInvariant == RepoSpec => []RepoInv
<1>1. RepoInit => RepoInv
  BY MaxDroppingIsNat DEF RepoInit, RepoInv, RepoTypeOK, PlainKeys, Nothing
<1>2. RepoInv /\ [RepoNext]_repo => RepoInv'
  BY RepoTypes, RepoStepPlain DEF RepoInv
<1> QED
  BY <1>1, <1>2, PTL DEF RepoSpec

\* For any keys, data and number of sweeps, the repository is an expiring map.
THEOREM RepoExpires == RepoSpec => ImplementsExpiringMap
<1>1. RepoInit => Expiring!Init
  BY DEF RepoInit, Expiring!Init, Visible, Nothing
<1>2. RepoInv /\ [RepoNext]_repo => [Expiring!Next]_(Expiring!vars)
  BY RepoStepExpires DEF RepoInv
<1> QED
  BY <1>1, <1>2, RepoInvariant, PTL DEF RepoSpec, ImplementsExpiringMap, Expiring!Spec

\* On the keys that nobody writes with an expiry it is a plain map.
THEOREM RepoPlain == RepoSpec => ImplementsPlainMap
<1>1. RepoInit => Plain!Init
  BY DEF RepoInit, Plain!Init, Nothing
<1>2. RepoInv /\ [RepoNext]_repo => [Plain!Next]_(Plain!vars)
  BY RepoStepPlain
<1> QED
  BY <1>1, <1>2, RepoInvariant, PTL DEF RepoSpec, ImplementsPlainMap, Plain!Spec

-----------------------------------------------------------------------------
(* The middleware                                                          *)

\* A request is looked up with a cookie, before it has a reply.
LookedUp ==
    \A r \in Requests :
        req[r].at = "lookup" => req[r].cookie \in Keys /\ req[r].reply = "same"

\* Only a session that has expired is ever swept.
SweptExpired ==
    \A k \in Keys : dropping[k] > 0 \/ store[k].expires = "past" => k \in troubled

\* A cookie on its way to a browser names a stored session.
ReplyBacked ==
    \A r \in Requests :
        req[r] # Idle /\ req[r].reply \in Keys \ troubled => store[req[r].reply] # Nothing

\* r is about to take b's cookie away, or to replace it.
Replaces(r, b) == req[r] # Idle /\ req[r].browser = b /\ req[r].reply # "same"

JarBacked ==
    \A b \in Browsers :
        jar[b] \in Keys \ troubled =>
            store[jar[b]] # Nothing \/ \E r \in Requests : Replaces(r, b)

IInv == TypeOK /\ LookedUp /\ SweptExpired /\ ReplyBacked /\ JarBacked

\* The middleware calls the repository as RepoNext allows, or not at all.
LEMMA StepCalls == IInv /\ [Next]_vars => [RepoNext]_repo
<1> SUFFICES ASSUME IInv, [Next]_vars PROVE RepoNext \/ UNCHANGED repo
  OBVIOUS
<1>1. ASSUME NEW r \in Requests, LookUp(r) PROVE RepoNext
  <2>1. PICK result \in Keys \cup {NoData, "error"} : Get(req[r].cookie, result)
    BY <1>1 DEF LookUp
  <2>2. req[r].cookie \in Keys
    BY <1>1 DEF LookUp, IInv, LookedUp
  <2> QED
    BY <2>1, <2>2, SessionsUnderTheirIds DEF RepoNext
<1>2. ASSUME NEW r \in Requests, NEW id \in Keys, SetSession(r, id) PROVE RepoNext
  BY <1>2, SessionsUnderTheirIds DEF SetSession, RepoNext
<1>3. ASSUME NEW r \in Requests, DeleteSession(r) PROVE RepoNext \/ UNCHANGED repo
  <2>1. CASE req[r].cookie = NoData
    BY <1>3, <2>1 DEF DeleteSession
  <2>2. CASE req[r].cookie # NoData
    <3>1. req[r].cookie \in Keys
      BY <1>3, <2>2 DEF DeleteSession, IInv, TypeOK, InFlight, Idle
    <3> QED
      BY <1>3, <2>2, <3>1 DEF DeleteSession, RepoNext
  <2> QED
    BY <2>1, <2>2
<1>4. ASSUME NEW id \in Keys, Around(id) PROVE RepoNext
  BY <1>4, SessionsUnderTheirIds DEF Around, RepoNext
<1>5. ASSUME NEW r \in Requests,
             Respond(r) \/ \E b \in Browsers, full \in BOOLEAN : Arrive(r, b, full)
      PROVE  UNCHANGED repo
  BY <1>5 DEF Respond, Arrive
<1>6. CASE UNCHANGED vars
  BY <1>6 DEF vars
<1> QED
  BY <1>1, <1>2, <1>3, <1>4, <1>5, <1>6 DEF Next

LEMMA InitInv == Init => IInv
<1> SUFFICES ASSUME Init PROVE IInv
  OBVIOUS
<1>1. TypeOK /\ LookedUp
  BY MaxDroppingIsNat DEF Init, RepoInit, TypeOK, RepoTypeOK, LookedUp, Idle, Nothing
<1>2. SweptExpired
  BY DEF Init, RepoInit, SweptExpired, Nothing
<1>3. ReplyBacked
  BY DEF Init, ReplyBacked
<1>4. JarBacked
  BY NoDataIsNotData, SessionsUnderTheirIds DEF Init, JarBacked
<1> QED
  BY <1>1, <1>2, <1>3, <1>4 DEF IInv

\* The types of a step's requests, jars and history; StepCalls has the rest.
LEMMA StepTypes == IInv /\ [Next]_vars => TypeOK'
<1> SUFFICES ASSUME IInv, [Next]_vars PROVE TypeOK'
  OBVIOUS
<1>1. RepoTypeOK'
  BY StepCalls, RepoTypes DEF IInv, TypeOK
<1>2. ASSUME NEW r \in Requests, NEW b \in Browsers, NEW full \in BOOLEAN, Arrive(r, b, full)
      PROVE  TypeOK'
  BY <1>1, <1>2 DEF Arrive, IInv, TypeOK, InFlight
<1>3. ASSUME NEW r \in Requests, LookUp(r) PROVE TypeOK'
  <2>1. req[r] \in InFlight
    BY <1>3 DEF LookUp, IInv, TypeOK, Idle
  <2>2. PICK result \in Keys \cup {NoData, "error"} :
            req' = [req EXCEPT ![r] =
                  IF result = "error" THEN Idle
                  ELSE [req[r] EXCEPT !.at = "handle",
                                 !.session = IF result = NoData /\ req[r].full
                                             THEN "nil" ELSE result]]
    BY <1>3 DEF LookUp
  <2>3. req'[r] \in InFlight \cup {Idle}
    BY <2>1, <2>2 DEF IInv, TypeOK, InFlight
  <2> QED
    BY <1>1, <1>3, <2>2, <2>3 DEF LookUp, IInv, TypeOK
<1>4. ASSUME NEW r \in Requests, NEW id \in Keys, SetSession(r, id) PROVE TypeOK'
  <2>1. req[r] \in InFlight
    BY <1>4 DEF SetSession, IInv, TypeOK, Idle
  <2>2. [req[r] EXCEPT !.reply = id] \in InFlight
    BY <2>1 DEF InFlight
  <2> QED
    BY <1>1, <1>4, <2>2 DEF SetSession, IInv, TypeOK
<1>5. ASSUME NEW r \in Requests, DeleteSession(r) PROVE TypeOK'
  <2>1. req[r] \in InFlight
    BY <1>5 DEF DeleteSession, IInv, TypeOK, Idle
  <2>2. [req[r] EXCEPT !.reply = "expired"] \in InFlight
    BY <2>1 DEF InFlight
  <2>3. troubled' \subseteq Keys
    BY <1>5, <2>1 DEF DeleteSession, IInv, TypeOK, InFlight
  <2> QED
    BY <1>1, <1>5, <2>2, <2>3 DEF DeleteSession, IInv, TypeOK
<1>6. ASSUME NEW r \in Requests, Respond(r) PROVE TypeOK'
  <2>1. req[r] \in InFlight
    BY <1>6 DEF Respond, IInv, TypeOK, Idle
  <2> QED
    BY <1>1, <1>6, <2>1 DEF Respond, IInv, TypeOK, InFlight
<1>7. ASSUME NEW id \in Keys, Around(id) PROVE TypeOK'
  BY <1>1, <1>7 DEF Around, IInv, TypeOK
<1>8. CASE UNCHANGED vars
  BY <1>1, <1>8 DEF vars, IInv, TypeOK
<1> QED
  BY <1>2, <1>3, <1>4, <1>5, <1>6, <1>7, <1>8 DEF Next

LEMMA PutSwept ==
    ASSUME IInv, NEW k \in Keys, NEW v, v.expires # "past", NEW result, Put(k, v, result),
           troubled \subseteq troubled'
    PROVE  SweptExpired'
<1>1. \A n \in Keys : store'[n] = store[n] \/ (n = k /\ store'[n] = v)
  BY DEF Put, IInv, TypeOK, RepoTypeOK
<1>2. UNCHANGED dropping
  BY DEF Put
<1> QED
  BY <1>1, <1>2 DEF IInv, SweptExpired

LEMMA StepSwept == IInv /\ [Next]_vars => SweptExpired'
<1> SUFFICES ASSUME IInv, [Next]_vars PROVE SweptExpired'
  OBVIOUS
<1>1. ASSUME NEW r \in Requests, LookUp(r) PROVE SweptExpired'
  <2>1. /\ UNCHANGED <<store, troubled>>
        /\ \A k \in Keys : dropping'[k] = dropping[k] \/ store[k].expires = "past"
    BY <1>1 DEF LookUp, Get, isExpired, IInv, TypeOK, RepoTypeOK
  <2> QED
    BY <2>1 DEF IInv, SweptExpired
<1>2. ASSUME NEW r \in Requests, NEW id \in Keys, SetSession(r, id) PROVE SweptExpired'
  BY <1>2, PutSwept DEF SetSession, Set
<1>3. ASSUME NEW r \in Requests, DeleteSession(r) PROVE SweptExpired'
  <2>1. CASE req[r].cookie = NoData
    BY <1>3, <2>1 DEF DeleteSession, IInv, SweptExpired, repo
  <2>2. CASE req[r].cookie # NoData
    <3>1. req[r].cookie \in Keys
      BY <1>3, <2>2 DEF DeleteSession, IInv, TypeOK, InFlight, Idle
    <3> QED
      BY <1>3, <2>2, <3>1, PutSwept DEF DeleteSession, Drop, Nothing
  <2> QED
    BY <2>1, <2>2
<1>4. ASSUME NEW id \in Keys, NEW result, SetWithExpiry(id, id, result), UNCHANGED troubled
      PROVE  SweptExpired'
  BY <1>4, PutSwept DEF SetWithExpiry
<1>5. ASSUME NEW id \in Keys, Cleanup(id), UNCHANGED troubled PROVE SweptExpired'
  <2>1. /\ \A k \in Keys \ {id} : store'[k] = store[k] /\ dropping'[k] = dropping[k]
        /\ id \in troubled
    BY <1>5 DEF Cleanup, IInv, TypeOK, RepoTypeOK, SweptExpired
  <2> QED
    BY <1>5, <2>1 DEF IInv, SweptExpired
<1>6. ASSUME NEW id \in Keys, Expire(id), troubled' = troubled \cup {id} PROVE SweptExpired'
  <2>1. \A k \in Keys \ {id} : store'[k] = store[k] /\ dropping'[k] = dropping[k]
    BY <1>6 DEF Expire, IInv, TypeOK, RepoTypeOK
  <2> QED
    BY <1>6, <2>1 DEF IInv, SweptExpired
<1>7. ASSUME UNCHANGED <<store, dropping, troubled>> PROVE SweptExpired'
  BY <1>7 DEF IInv, SweptExpired
<1> QED
  BY <1>1, <1>2, <1>3, <1>4, <1>5, <1>6, <1>7 DEF Next, Around, Arrive, Respond, vars, repo

\* A stored session is stored after the step, unless it is troubled then.
Keeps(k) == store[k] # Nothing /\ k \notin troubled' => store'[k] # Nothing

LEMMA KeepersBack ==
    ASSUME IInv, \A k \in Keys : Keeps(k), troubled \subseteq troubled', UNCHANGED <<jar, req>>
    PROVE  ReplyBacked' /\ JarBacked'
<1>1. ReplyBacked'
  BY DEF Keeps, IInv, ReplyBacked
<1>2. JarBacked'
  BY DEF Keeps, IInv, JarBacked, Replaces
<1> QED
  BY <1>1, <1>2

LEMMA AroundBacks ==
    ASSUME IInv, NEW id \in Keys, Around(id)
    PROVE  LookedUp' /\ ReplyBacked' /\ JarBacked'
<1>1. troubled \subseteq troubled' /\ UNCHANGED <<jar, req>>
  BY DEF Around
<1>2. \A k \in Keys : Keeps(k)
  <2>1. ASSUME NEW result \in {"ok", "error"}, SetWithExpiry(id, id, result)
        PROVE  \A k \in Keys : Keeps(k)
    <3>1. \A k \in Keys : store'[k] = store[k] \/ store'[k] = [data |-> id, expires |-> "later"]
      BY <2>1 DEF SetWithExpiry, Put, IInv, TypeOK, RepoTypeOK
    <3> QED
      BY <3>1 DEF Keeps, Nothing
  <2>2. ASSUME Cleanup(id), UNCHANGED troubled PROVE \A k \in Keys : Keeps(k)
    <3>1. id \in troubled /\ \A k \in Keys \ {id} : store'[k] = store[k]
      BY <2>2 DEF Cleanup, IInv, TypeOK, RepoTypeOK, SweptExpired
    <3> QED
      BY <2>2, <3>1 DEF Keeps
  <2>3. ASSUME Expire(id), troubled' = troubled \cup {id} PROVE \A k \in Keys : Keeps(k)
    <3>1. \A k \in Keys \ {id} : store'[k] = store[k]
      BY <2>3 DEF Expire, IInv, TypeOK, RepoTypeOK
    <3> QED
      BY <2>3, <3>1 DEF Keeps
  <2> QED
    BY <2>1, <2>2, <2>3 DEF Around
<1> QED
  BY <1>1, <1>2, KeepersBack DEF IInv, LookedUp

LEMMA ArriveBacks ==
    ASSUME IInv, NEW r \in Requests, NEW b \in Browsers, NEW full \in BOOLEAN,
           Arrive(r, b, full)
    PROVE  LookedUp' /\ ReplyBacked' /\ JarBacked'
<1>1. /\ req[r] = Idle /\ UNCHANGED <<store, jar, troubled>>
      /\ \A q \in Requests \ {r} : req'[q] = req[q]
      /\ req'[r].reply = "same" /\ req'[r].cookie = jar[b]
      /\ req'[r].at = "lookup" => jar[b] \in Keys
  BY DEF Arrive, IInv, TypeOK, repo
<1>2. LookedUp'
  BY <1>1 DEF IInv, LookedUp
<1>3. ReplyBacked'
  BY <1>1, MarksAreNotIds DEF IInv, ReplyBacked
<1>4. JarBacked'
  BY <1>1 DEF IInv, JarBacked, Replaces
<1> QED
  BY <1>2, <1>3, <1>4

LEMMA LookUpBacks ==
    ASSUME IInv, NEW r \in Requests, LookUp(r)
    PROVE  LookedUp' /\ ReplyBacked' /\ JarBacked'
<1>1. req[r] \in InFlight /\ req[r].reply = "same"
  BY DEF LookUp, IInv, TypeOK, Idle, LookedUp
<1>2. /\ UNCHANGED <<store, jar, troubled>>
      /\ \A q \in Requests \ {r} : req'[q] = req[q]
      /\ req'[r] = Idle \/ (req'[r].reply = "same" /\ req'[r].at = "handle")
  BY <1>1 DEF LookUp, Get, IInv, TypeOK, InFlight
<1>3. LookedUp'
  BY <1>2 DEF IInv, LookedUp, Idle
<1>4. ReplyBacked'
  BY <1>2, MarksAreNotIds DEF IInv, ReplyBacked
<1>5. JarBacked'
  BY <1>1, <1>2 DEF IInv, JarBacked, Replaces
<1> QED
  BY <1>3, <1>4, <1>5

LEMMA SetSessionBacks ==
    ASSUME IInv, NEW r \in Requests, NEW id \in Keys, SetSession(r, id)
    PROVE  LookedUp' /\ ReplyBacked' /\ JarBacked'
<1>1. /\ req[r] \in InFlight /\ req[r].at = "handle"
      /\ UNCHANGED jar /\ troubled \subseteq troubled'
  BY DEF SetSession, IInv, TypeOK, Idle
<1>2. /\ \A q \in Requests \ {r} : req'[q] = req[q]
      /\ req'[r] # Idle /\ req'[r].reply = id
      /\ req'[r].browser = req[r].browser /\ req'[r].at = "handle"
  BY <1>1 DEF SetSession, IInv, TypeOK, InFlight, Idle
<1>3. PICK result \in {"ok", "error"} :
          /\ Put(id, [data |-> id, expires |-> "never"], result)
          /\ troubled' = IF result = "ok" THEN troubled ELSE troubled \cup {id}
  BY DEF SetSession, Set
<1>4. \A k \in Keys : store'[k] = store[k] \/ store'[k] = [data |-> id, expires |-> "never"]
  BY <1>3 DEF Put, IInv, TypeOK, RepoTypeOK
<1>5. id # NoData
  BY NoDataIsNotData, SessionsUnderTheirIds
<1>6. \A k \in Keys : Keeps(k)
  BY <1>4, <1>5 DEF Keeps, Nothing
<1>7. id \notin troubled' => store'[id] # Nothing
  BY <1>3, <1>5 DEF Put, Nothing, IInv, TypeOK, RepoTypeOK
<1>8. LookedUp'
  BY <1>2 DEF IInv, LookedUp
<1>9. ReplyBacked'
  BY <1>1, <1>2, <1>6, <1>7 DEF IInv, ReplyBacked, Keeps
<1>10. \A q \in Requests, b \in Browsers : Replaces(q, b) => Replaces(q, b)'
  BY <1>2, MarksAreNotIds DEF Replaces
<1>11. JarBacked'
  BY <1>1, <1>6, <1>10 DEF IInv, JarBacked, Keeps
<1> QED
  BY <1>8, <1>9, <1>11

LEMMA DeleteSessionBacks ==
    ASSUME IInv, NEW r \in Requests, DeleteSession(r)
    PROVE  LookedUp' /\ ReplyBacked' /\ JarBacked'
<1>1. /\ req[r] \in InFlight /\ req[r].at = "handle" /\ req[r] # Idle
      /\ UNCHANGED jar /\ troubled \subseteq troubled'
  BY DEF DeleteSession, IInv, TypeOK, Idle
<1>2. /\ \A q \in Requests \ {r} : req'[q] = req[q]
      /\ req'[r] # Idle /\ req'[r].reply = "expired"
      /\ req'[r].browser = req[r].browser /\ req'[r].at = "handle"
  BY <1>1 DEF DeleteSession, IInv, TypeOK, InFlight, Idle
<1>3. \A k \in Keys : k # req[r].cookie \/ k \in troubled' => Keeps(k)
  BY DEF DeleteSession, Drop, Put, Keeps, IInv, TypeOK, RepoTypeOK, repo
<1>4. req[r].cookie \in Keys /\ UsedElsewhere(r, req[r].cookie) => req[r].cookie \in troubled'
  BY NoDataIsNotData, SessionsUnderTheirIds DEF DeleteSession
<1>5. LookedUp'
  BY <1>2 DEF IInv, LookedUp
<1>6. ReplyBacked'
  <2> SUFFICES ASSUME NEW q \in Requests, req'[q] # Idle, req'[q].reply \in Keys \ troubled'
               PROVE  store'[req'[q].reply] # Nothing
    BY DEF ReplyBacked
  <2>1. q # r /\ req'[q] = req[q]
    BY <1>2, MarksAreNotIds
  <2>2. req[q].reply = req[r].cookie => UsedElsewhere(r, req[r].cookie)
    BY <2>1 DEF UsedElsewhere
  <2>3. Keeps(req[q].reply)
    BY <1>3, <1>4, <2>1, <2>2
  <2> QED
    BY <1>1, <2>1, <2>3 DEF Keeps, IInv, ReplyBacked
<1>7. JarBacked'
  <2> SUFFICES ASSUME NEW b \in Browsers, jar[b] \in Keys \ troubled'
               PROVE  store'[jar[b]] # Nothing \/ \E q \in Requests : Replaces(q, b)'
    BY <1>1 DEF JarBacked
  <2>1. CASE b = req[r].browser
    BY <1>2, <2>1 DEF Replaces
  <2>2. CASE b # req[r].browser
    <3>1. jar[b] = req[r].cookie => UsedElsewhere(r, req[r].cookie)
      BY <2>2 DEF UsedElsewhere
    <3>2. Keeps(jar[b])
      BY <1>3, <1>4, <3>1
    <3>3. \A q \in Requests : Replaces(q, b) => Replaces(q, b)'
      BY <1>2 DEF Replaces
    <3> QED
      BY <1>1, <3>2, <3>3 DEF Keeps, IInv, JarBacked
  <2> QED
    BY <2>1, <2>2
<1> QED
  BY <1>5, <1>6, <1>7

LEMMA RespondBacks ==
    ASSUME IInv, NEW r \in Requests, Respond(r)
    PROVE  LookedUp' /\ ReplyBacked' /\ JarBacked'
<1>1. /\ req[r] \in InFlight /\ req[r] # Idle /\ UNCHANGED <<store, troubled>>
      /\ \A q \in Requests \ {r} : req'[q] = req[q]
      /\ req'[r] = Idle
  BY DEF Respond, IInv, TypeOK, Idle, repo
<1>2. /\ \A b \in Browsers \ {req[r].browser} : jar'[b] = jar[b]
      /\ req[r].reply = "same" => jar' = jar
      /\ req[r].reply = "expired" => jar'[req[r].browser] = NoData
      /\ req[r].reply \notin {"same", "expired"} => jar'[req[r].browser] = req[r].reply
  BY <1>1 DEF Respond, IInv, TypeOK, InFlight
<1>3. LookedUp'
  BY <1>1 DEF IInv, LookedUp, Idle
<1>4. ReplyBacked'
  BY <1>1 DEF IInv, ReplyBacked
<1>5. JarBacked'
  <2> SUFFICES ASSUME NEW b \in Browsers, jar'[b] \in Keys \ troubled
               PROVE  store[jar'[b]] # Nothing \/ \E q \in Requests : Replaces(q, b)'
    BY <1>1 DEF JarBacked
  <2>1. CASE b = req[r].browser /\ req[r].reply # "same"
    <3>1. req[r].reply # "expired"
      BY <1>2, <2>1, NoDataIsNotData, SessionsUnderTheirIds
    <3>2. jar'[b] = req[r].reply
      BY <1>2, <2>1, <3>1
    <3> QED
      BY <1>1, <3>2 DEF IInv, ReplyBacked
  <2>2. CASE b # req[r].browser \/ req[r].reply = "same"
    <3>1. jar'[b] = jar[b]
      BY <1>2, <2>2
    <3>2. \A q \in Requests : Replaces(q, b) => Replaces(q, b)'
      BY <1>1, <2>2 DEF Replaces
    <3> QED
      BY <3>1, <3>2 DEF IInv, JarBacked
  <2> QED
    BY <2>1, <2>2
<1> QED
  BY <1>3, <1>4, <1>5

-----------------------------------------------------------------------------
(* The theorems                                                            *)

LEMMA NextInv == IInv /\ [Next]_vars => IInv'
<1> SUFFICES ASSUME IInv, [Next]_vars PROVE IInv'
  OBVIOUS
<1>1. LookedUp' /\ ReplyBacked' /\ JarBacked'
  <2>1. CASE UNCHANGED vars
    BY <2>1 DEF vars, IInv, LookedUp, ReplyBacked, JarBacked, Replaces, repo
  <2> QED
    BY <2>1, ArriveBacks, LookUpBacks, SetSessionBacks, DeleteSessionBacks, RespondBacks,
       AroundBacks DEF Next
<1> QED
  BY <1>1, StepTypes, StepSwept DEF IInv

LEMMA Invariant == Spec => []IInv
<1> QED
  BY InitInv, NextInv, PTL DEF Spec

\* The jars, the requests and the repository keep their types.
THEOREM TypeCorrect == Spec => []TypeOK
<1>1. IInv => TypeOK
  BY DEF IInv
<1> QED
  BY <1>1, Invariant, PTL

\* A cookie whose session had no trouble names a stored session once no
\* request of its browser is in flight.
THEOREM Backed == Spec => []CookieBacked
<1>1. IInv => CookieBacked
  <2> SUFFICES ASSUME IInv, NEW b \in Browsers, jar[b] \notin troubled \cup {NoData},
                      \A r \in Requests : req[r] # Idle => req[r].browser # b
               PROVE  store[jar[b]] # Nothing
    BY DEF CookieBacked
  <2>1. jar[b] \in Keys \ troubled
    BY DEF IInv, TypeOK
  <2> QED
    BY <2>1 DEF IInv, JarBacked, Replaces
<1> QED
  BY <1>1, Invariant, PTL

\* The middleware is a client of the repository like any other, whatever its
\* browsers do.
LEMMA UsesRepo == Spec => RepoSpec
<1>1. Init => RepoInit
  BY DEF Init
<1> QED
  BY <1>1, StepCalls, Invariant, PTL DEF Spec, RepoSpec

\* Its sessions therefore live in an expiring map...
THEOREM SessionsExpire == Spec => ImplementsExpiringMap
<1> QED
  BY UsesRepo, RepoExpires

\* ...and those stored without an expiry in a plain one.
THEOREM SessionsPlain == Spec => ImplementsPlainMap
<1> QED
  BY UsesRepo, RepoPlain
==============================================================================
