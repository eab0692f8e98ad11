-------------------------- MODULE EventIngest_proofs --------------------------
(* Proofs about EventIngest and the keys of Subjects.                      *)
EXTENDS EventIngest, SequenceTheorems, TLAPS

\* What concatenation does to places.
LEMMA Concat ==
    ASSUME NEW a \in Seq(Token), NEW b \in Seq(Token)
    PROVE  /\ a \o b \in Seq(Token)
           /\ Len(a) \in Nat /\ Len(b) \in Nat
           /\ Len(a \o b) = Len(a) + Len(b)
           /\ \A i \in 1..Len(a) : (a \o b)[i] = a[i]
           /\ \A i \in 1..Len(b) : (a \o b)[Len(a) + i] = b[i]
<1>1. /\ a \o b \in Seq(Token) /\ Len(a \o b) = Len(a) + Len(b)
      /\ \A i \in 1..Len(a) + Len(b) :
             (a \o b)[i] = IF i <= Len(a) THEN a[i] ELSE b[i - Len(a)]
  BY ConcatProperties
<1>2. Len(a) \in Nat /\ Len(b) \in Nat
  OBVIOUS
<1>3. \A i \in 1..Len(b) : (a \o b)[Len(a) + i] = b[i]
  <2>1. ASSUME NEW i \in 1..Len(b) PROVE (a \o b)[Len(a) + i] = b[i]
    <3>. DEFINE j == Len(a) + i
    <3>1. j \in 1..Len(a) + Len(b) /\ ~(j <= Len(a)) /\ j - Len(a) = i
      BY <1>2
    <3>. HIDE DEF j
    <3>2. (a \o b)[j] = b[j - Len(a)]
      BY <1>1, <3>1
    <3>3. (a \o b)[j] = b[i]
      BY <3>1, <3>2
    <3>. QED BY <3>3 DEF j
  <2>. QED BY <2>1
<1>4. \A i \in 1..Len(a) : (a \o b)[i] = a[i]
  BY <1>1, <1>2
<1>. QED BY <1>1, <1>2, <1>3, <1>4

\* A token by itself is a sequence of one.
LEMMA Single ==
    ASSUME NEW x \in Token
    PROVE  <<x>> \in Seq(Token) /\ Len(<<x>>) = 1 /\ <<x>>[1] = x
OBVIOUS

-----------------------------------------------------------------------------
(* Keys and filters                                                        *)

\* Where two keys that a repository does not tell apart split at the same
\* place, it tells neither their beginnings apart nor their ends.
LEMMA SplitSanitised ==
    ASSUME NEW a \in Seq(Token), NEW b \in Seq(Token),
           NEW c \in Seq(Token), NEW d \in Seq(Token),
           Len(a) = Len(c), sanitiseKey(a \o b) = sanitiseKey(c \o d)
    PROVE  sanitiseKey(a) = sanitiseKey(c) /\ sanitiseKey(b) = sanitiseKey(d)
<1>. DEFINE x == a \o b
            y == c \o d
<1>1. /\ x \in Seq(Token) /\ Len(x) = Len(a) + Len(b) /\ Len(a) \in Nat /\ Len(b) \in Nat
      /\ \A i \in 1..Len(a) : x[i] = a[i]
      /\ \A i \in 1..Len(b) : x[Len(a) + i] = b[i]
  BY Concat
<1>2. /\ y \in Seq(Token) /\ Len(y) = Len(c) + Len(d) /\ Len(c) \in Nat /\ Len(d) \in Nat
      /\ \A i \in 1..Len(c) : y[i] = c[i]
      /\ \A i \in 1..Len(d) : y[Len(c) + i] = d[i]
  BY Concat
<1>3. sanitiseKey(x) = sanitiseKey(y)
  OBVIOUS
<1>. HIDE DEF x, y
<1>4. DOMAIN x = 1..Len(x) /\ DOMAIN y = 1..Len(y) /\ Len(x) \in Nat /\ Len(y) \in Nat
  BY <1>1, <1>2
<1>5. DOMAIN x = DOMAIN y /\ \A i \in DOMAIN x : dashed[x[i]] = dashed[y[i]]
  <2>1. DOMAIN sanitiseKey(x) = DOMAIN x /\ DOMAIN sanitiseKey(y) = DOMAIN y
    BY DEF sanitiseKey
  <2>2. \A i \in DOMAIN x : sanitiseKey(x)[i] = dashed[x[i]]
    BY DEF sanitiseKey
  <2>3. \A i \in DOMAIN y : sanitiseKey(y)[i] = dashed[y[i]]
    BY DEF sanitiseKey
  <2>. QED BY <1>3, <2>1, <2>2, <2>3
<1>6. Len(x) = Len(y) /\ Len(b) = Len(d)
  <2>1. \A k \in Nat : k \in 1..Len(x) <=> k \in 1..Len(y)
    BY <1>4, <1>5
  <2>2. Len(x) <= Len(y) /\ Len(y) <= Len(x)
    BY <1>4, <2>1
  <2>. QED BY <2>2, <1>1, <1>2, <1>4
<1>7. \A i \in 1..Len(a) : dashed[a[i]] = dashed[c[i]]
  <2>1. ASSUME NEW i \in 1..Len(a) PROVE dashed[a[i]] = dashed[c[i]]
    <3>1. i \in DOMAIN x /\ i \in 1..Len(c)
      BY <1>1, <1>4
    <3>2. x[i] = a[i] /\ y[i] = c[i]
      BY <1>1, <1>2, <3>1
    <3>. QED BY <1>5, <3>1, <3>2
  <2>. QED BY <2>1
<1>8. \A i \in 1..Len(b) : dashed[b[i]] = dashed[d[i]]
  <2>1. ASSUME NEW i \in 1..Len(b) PROVE dashed[b[i]] = dashed[d[i]]
    <3>. DEFINE j == Len(a) + i
    <3>1. j \in 1..Len(x) /\ i \in 1..Len(d)
      BY <1>1, <1>6
    <3>2. x[j] = b[i] /\ y[j] = d[i]
      BY <1>1, <1>2, <3>1
    <3>. HIDE DEF j
    <3>3. j \in DOMAIN x
      BY <1>4, <3>1
    <3>. QED BY <1>5, <3>2, <3>3
  <2>. QED BY <2>1
<1>9. /\ DOMAIN a = 1..Len(a) /\ DOMAIN b = 1..Len(b)
      /\ DOMAIN c = 1..Len(a) /\ DOMAIN d = 1..Len(b)
  BY <1>6
<1>. QED BY <1>7, <1>8, <1>9 DEF sanitiseKey

\* A meter's key is as long as its shape.
LEMMA MeterKeyLength ==
    ASSUME NEW m \in Meter
    PROVE  /\ MeterKey(m) \in Seq(Token)
           /\ Len(m.type) \in Nat /\ Len(m.id) \in Nat
           /\ Len(MeterKey(m)) = Len(m.type) + 1 + Len(m.id)
<1>. DEFINE a == m.type
            b == <<m.agg>>
            c == m.id
<1>1. a \in Seq(Token) /\ b \in Seq(Token) /\ c \in Seq(Token) /\ Len(b) = 1
  BY Single DEF Meter, Name
<1>2. MeterKey(m) = (a \o b) \o c
  BY DEF MeterKey
<1>. HIDE DEF a, b, c
<1>3. a \o b \in Seq(Token) /\ Len(a \o b) = Len(a) + 1 /\ Len(a) \in Nat
  <2>1. a \o b \in Seq(Token) /\ Len(a \o b) = Len(a) + Len(b) /\ Len(a) \in Nat
    BY <1>1, Concat
  <2>. QED BY <1>1, <2>1
<1>4. /\ (a \o b) \o c \in Seq(Token) /\ Len(c) \in Nat
      /\ Len((a \o b) \o c) = Len(a \o b) + Len(c)
  BY <1>1, <1>3, Concat
<1>5. Len((a \o b) \o c) = Len(a) + 1 + Len(c)
  BY <1>3, <1>4
<1>. QED BY <1>2, <1>3, <1>4, <1>5 DEF a, c

\* Two readings of meters of one shape lie in one place only if the subjects
\* are the same and neither the groups nor the meters' keys are told apart.
LEMMA PlacesApart ==
    ASSUME NEW m \in Meter, NEW s \in SubjectToken, NEW g \in Seq(Token),
           NEW n \in Meter, NEW u \in SubjectToken, NEW h \in Seq(Token),
           SameShape(m, n),
           sanitiseKey(ReadingKey(m, s, g)) = sanitiseKey(ReadingKey(n, u, h))
    PROVE  /\ s = u
           /\ sanitiseKey(g) = sanitiseKey(h)
           /\ sanitiseKey(MeterKey(m)) = sanitiseKey(MeterKey(n))
<1>. DEFINE a == MeterKey(m)
            b == <<s>>
            c == MeterKey(n)
            d == <<u>>
<1>1. a \in Seq(Token) /\ c \in Seq(Token) /\ Len(a) = Len(c) /\ Len(a) \in Nat
  <2>1. /\ a \in Seq(Token) /\ Len(a) = Len(m.type) + 1 + Len(m.id)
        /\ Len(m.type) \in Nat /\ Len(m.id) \in Nat
    BY MeterKeyLength
  <2>2. c \in Seq(Token) /\ Len(c) = Len(n.type) + 1 + Len(n.id)
    BY MeterKeyLength
  <2>3. Len(m.type) = Len(n.type) /\ Len(m.id) = Len(n.id)
    BY DEF SameShape
  <2>. DEFINE i == Len(m.type)
              j == Len(m.id)
  <2>4. i \in Nat /\ j \in Nat /\ Len(a) = i + 1 + j /\ Len(c) = i + 1 + j
    BY <2>1, <2>2, <2>3
  <2>5. a \in Seq(Token) /\ c \in Seq(Token)
    BY <2>1, <2>2
  <2>. HIDE DEF a, c, i, j
  <2>6. i + 1 + j \in Nat
    BY <2>4
  <2>. QED BY <2>4, <2>5, <2>6, Zenon
<1>2. b \in Seq(Token) /\ d \in Seq(Token) /\ Len(b) = 1 /\ Len(d) = 1
  BY Single DEF SubjectToken
<1>3. sanitiseKey((a \o b) \o g) = sanitiseKey((c \o d) \o h)
  BY DEF ReadingKey
<1>4. dashed[b[1]] = s /\ dashed[d[1]] = u
  BY DEF SubjectToken
<1>. HIDE DEF a, b, c, d
<1>5. a \o b \in Seq(Token) /\ c \o d \in Seq(Token) /\ Len(a \o b) = Len(c \o d)
  <2>1. a \o b \in Seq(Token) /\ Len(a \o b) = Len(a) + Len(b)
    BY <1>1, <1>2, Concat
  <2>2. c \o d \in Seq(Token) /\ Len(c \o d) = Len(c) + Len(d)
    BY <1>1, <1>2, Concat
  <2>. QED BY <1>1, <1>2, <2>1, <2>2
<1>6. sanitiseKey(a \o b) = sanitiseKey(c \o d) /\ sanitiseKey(g) = sanitiseKey(h)
  <2>. DEFINE x == a \o b
              y == c \o d
  <2>1. /\ x \in Seq(Token) /\ y \in Seq(Token) /\ Len(x) = Len(y)
        /\ sanitiseKey(x \o g) = sanitiseKey(y \o h)
    BY <1>3, <1>5
  <2>. HIDE DEF x, y
  <2>2. sanitiseKey(x) = sanitiseKey(y) /\ sanitiseKey(g) = sanitiseKey(h)
    BY <2>1, SplitSanitised
  <2>. QED BY <2>2 DEF x, y
<1>7. sanitiseKey(a) = sanitiseKey(c) /\ sanitiseKey(b) = sanitiseKey(d)
  BY <1>1, <1>2, <1>6, SplitSanitised
<1>8. 1 \in DOMAIN b /\ 1 \in DOMAIN d
  BY <1>2
<1>9. sanitiseKey(b)[1] = s /\ sanitiseKey(d)[1] = u
  BY <1>4, <1>8 DEF sanitiseKey
<1>. QED BY <1>6, <1>7, <1>9 DEF a, c

\* A filter lets no event of another type through that has as many dots.
LEMMA FilterTellsTypes ==
    ASSUME NEW m \in Meter, NEW e \in Event, Len(e.type) = Len(m.type),
           Matches(FilterSubject(m), EventSubject(e))
    PROVE  e.type = m.type
<1>. DEFINE root == <<"meters", "events">>
            tail == <<">">>
            mid == <<e.subject>>
            p == root \o m.type
            q == root \o e.type
            f == FilterSubject(m)
            x == EventSubject(e)
<1>1. /\ root \in Seq(Token) /\ Len(root) = 2
      /\ tail \in Seq(Token) /\ Len(tail) = 1 /\ tail[1] = ">"
  <2>1. "meters" \in Token /\ "events" \in Token /\ ">" \in Token
    BY TokenAssumption
  <2>. QED BY <2>1
<1>2. /\ m.type \in Seq(Token) /\ e.type \in Seq(Token) /\ e.id \in Seq(Token)
      /\ mid \in Seq(Token)
  BY Single DEF Meter, Event, Name, SubjectToken
<1>3. f = p \o tail /\ x = (q \o mid) \o e.id /\ Matches(f, x)
  BY DEF FilterSubject, EventSubject
<1>. HIDE DEF root, tail, mid, f, x
<1>4. /\ p \in Seq(Token) /\ Len(p) = 2 + Len(m.type) /\ Len(m.type) \in Nat
      /\ \A i \in 1..Len(m.type) : p[2 + i] = m.type[i]
  <2>. DEFINE a == m.type
  <2>1. a \in Seq(Token)
    BY <1>2
  <2>. HIDE DEF a
  <2>2. /\ root \o a \in Seq(Token) /\ Len(root \o a) = Len(root) + Len(a) /\ Len(a) \in Nat
        /\ \A i \in 1..Len(a) : (root \o a)[Len(root) + i] = a[i]
    BY <1>1, <2>1, Concat
  <2>3. /\ root \o a \in Seq(Token) /\ Len(root \o a) = 2 + Len(a) /\ Len(a) \in Nat
        /\ \A i \in 1..Len(a) : (root \o a)[2 + i] = a[i]
    BY <1>1, <2>2
  <2>. QED BY <2>3 DEF a
<1>5. /\ q \in Seq(Token) /\ Len(q) = 2 + Len(m.type)
      /\ \A i \in 1..Len(m.type) : q[2 + i] = e.type[i]
  <2>. DEFINE a == e.type
  <2>1. a \in Seq(Token) /\ Len(a) = Len(m.type)
    BY <1>2
  <2>. HIDE DEF a
  <2>2. /\ root \o a \in Seq(Token) /\ Len(root \o a) = Len(root) + Len(a)
        /\ \A i \in 1..Len(a) : (root \o a)[Len(root) + i] = a[i]
    BY <1>1, <2>1, Concat
  <2>3. /\ root \o a \in Seq(Token) /\ Len(root \o a) = 2 + Len(m.type)
        /\ \A i \in 1..Len(m.type) : (root \o a)[2 + i] = a[i]
    BY <1>1, <2>1, <2>2
  <2>. QED BY <2>3 DEF a
<1>. HIDE DEF p, q
<1>6. /\ f \in Seq(Token) /\ Len(f) = Len(p) + 1 /\ f[Len(f)] = ">"
      /\ \A i \in 1..Len(p) : f[i] = p[i]
  <2>1. /\ f \in Seq(Token) /\ Len(f) = Len(p) + Len(tail)
        /\ \A i \in 1..Len(p) : f[i] = p[i]
        /\ f[Len(p) + 1] = tail[1]
    <3>1. /\ p \o tail \in Seq(Token) /\ Len(p \o tail) = Len(p) + Len(tail)
          /\ \A i \in 1..Len(p) : (p \o tail)[i] = p[i]
          /\ \A i \in 1..Len(tail) : (p \o tail)[Len(p) + i] = tail[i]
      BY <1>1, <1>4, Concat
    <3>2. (p \o tail)[Len(p) + 1] = tail[1]
      BY <1>1, <3>1
    <3>. QED BY <1>3, <3>1, <3>2
  <2>. QED BY <2>1, <1>1
<1>7. x \in Seq(Token) /\ \A i \in 1..Len(q) : x[i] = q[i]
  <2>. DEFINE y == q \o mid
  <2>1. y \in Seq(Token) /\ Len(q) <= Len(y) /\ \A i \in 1..Len(q) : y[i] = q[i]
    BY <1>2, <1>5, Concat
  <2>2. Len(q) \in Nat /\ Len(y) \in Nat
    BY <1>5, <2>1
  <2>. HIDE DEF y
  <2>3. x = y \o e.id
    BY <1>3 DEF y
  <2>4. x \in Seq(Token) /\ \A i \in 1..Len(y) : x[i] = y[i]
    BY <1>2, <2>1, <2>3, Concat
  <2>. QED BY <2>1, <2>2, <2>4
<1>8. Len(x) >= Len(f) /\ SubSeq(x, 1, Len(p)) = SubSeq(f, 1, Len(p))
  <2>1. Len(x) >= Len(f) /\ SubSeq(x, 1, Len(f) - 1) = SubSeq(f, 1, Len(f) - 1)
    BY <1>3, <1>6 DEF Matches
  <2>2. Len(f) - 1 = Len(p)
    BY <1>4, <1>6
  <2>. QED BY <2>1, <2>2
<1>9. \A i \in 1..Len(p) : x[i] = f[i]
  <2>1. ASSUME NEW i \in 1..Len(p) PROVE x[i] = f[i]
    <3>1. SubSeq(x, 1, Len(p))[i] = x[i] /\ SubSeq(f, 1, Len(p))[i] = f[i]
      BY <1>4, <1>6, <1>7, <1>8
    <3>. QED BY <1>8, <3>1
  <2>. QED BY <2>1
<1>10. ASSUME NEW i \in 1..Len(m.type) PROVE e.type[i] = m.type[i]
  <2>. DEFINE j == 2 + i
  <2>1. j \in 1..Len(p) /\ j \in 1..Len(q)
    BY <1>4, <1>5
  <2>2. p[j] = m.type[i] /\ q[j] = e.type[i]
    BY <1>4, <1>5
  <2>. HIDE DEF j
  <2>. QED BY <1>6, <1>7, <1>9, <2>1, <2>2
<1>. QED BY <1>2, <1>10

-----------------------------------------------------------------------------
(* Types                                                                   *)

\* What the stream does to its messages and their ids.
LEMMA StreamGrows ==
    ASSUME TypeOK, NEW e \in Events, StreamTakes(e)
    PROVE  /\ stream' \in Seq(Events) /\ Len(stream') <= MaxStored
           /\ Len(stream) <= Len(stream')
           /\ \A i \in DOMAIN stream : i \in DOMAIN stream' /\ stream'[i] = stream[i]
           /\ recent \subseteq recent' /\ recent' \subseteq recent \cup {e.id}
           /\ e.id \in recent'
           /\ Ids \subseteq Ids' /\ e.id \in Ids'
           /\ \A i \in DOMAIN stream' \ DOMAIN stream :
                  i = Len(stream) + 1 /\ stream'[i].id = e.id /\ e.id \notin recent
<1>1. /\ stream \in Seq(Events) /\ Len(stream) <= MaxStored /\ Len(stream) \in Nat
      /\ recent \subseteq Ids
  BY DEF TypeOK
<1>2. CASE e.id \in recent
  <2>1. stream' = stream /\ recent' = recent
    BY <1>2 DEF StreamTakes, Store
  <2>2. Ids' = Ids
    BY <2>1 DEF Ids
  <2>. QED BY <1>1, <1>2, <2>1, <2>2
<1>3. CASE e.id \notin recent
  <2>1. /\ Len(stream) < MaxStored
        /\ stream' = Append(stream, e)
        /\ recent' = recent \cup {e.id}
    BY <1>3 DEF StreamTakes, Store
  <2>2. /\ stream' \in Seq(Events) /\ Len(stream') = Len(stream) + 1
        /\ \A i \in 1..Len(stream) : stream'[i] = stream[i]
        /\ stream'[Len(stream) + 1] = e
    BY <1>1, <2>1
  <2>3. DOMAIN stream = 1..Len(stream) /\ DOMAIN stream' = 1..(Len(stream) + 1)
    BY <1>1, <2>2
  <2>4. Len(stream) + 1 \in DOMAIN stream' /\ stream'[Len(stream) + 1].id = e.id
    BY <1>1, <2>2, <2>3
  <2>5. \A i \in DOMAIN stream : i \in DOMAIN stream' /\ stream'[i] = stream[i]
    BY <1>1, <2>2, <2>3
  <2>6. Ids \subseteq Ids' /\ e.id \in Ids'
    BY <2>4, <2>5 DEF Ids
  <2>7. Len(stream') <= MaxStored /\ Len(stream) <= Len(stream')
    BY <1>1, <2>1, <2>2, MaxStoredAssumption
  <2>8. \A i \in DOMAIN stream' \ DOMAIN stream : i = Len(stream) + 1
    BY <1>1, <2>3
  <2>. QED BY <1>3, <2>1, <2>2, <2>4, <2>5, <2>6, <2>7, <2>8
<1>. QED BY <1>2, <1>3

\* A step that leaves the stream and what was counted in it alone.
LEMMA TypeQuiet ==
    ASSUME TypeOK, UNCHANGED <<stream, recent, forgotten, consumption, accepted>>,
           meters' \subseteq Meters, boot' \in {"loading", "running", "ended"},
           live' \subseteq Meters, stuck' \subseteq Meters, zombies' \subseteq Meters,
           req' \in [Clients -> Events \cup {NoEvent}]
    PROVE  TypeOK'
<1>1. UNCHANGED <<stream, recent, forgotten, cursor, readings, failed, accepted>>
  BY DEF consumption
<1>2. Ids' = Ids
  BY <1>1 DEF Ids
<1>3. \A r : r \in (readings \cup failed)' <=> r \in readings \cup failed
  BY <1>1
<1>. QED BY <1>1, <1>2, <1>3 DEF TypeOK

LEMMA TypeInductive ==
    ASSUME TypeOK, [Next]_vars
    PROVE  TypeOK'
<1>1. ASSUME NEW m \in Meters, CreateMeter(m) PROVE TypeOK'
  BY <1>1, TypeQuiet DEF CreateMeter, goroutines, TypeOK
<1>2. ASSUME NEW m \in Meters, DeleteMeter(m) PROVE TypeOK'
  BY <1>2, TypeQuiet DEF DeleteMeter, goroutines, TypeOK
<1>3. CASE Load
  BY <1>3, TypeQuiet DEF Load, goroutines, TypeOK
<1>4. ASSUME NEW m \in Meters, Attach(m) PROVE TypeOK'
  BY <1>4, TypeQuiet DEF Attach, registry, TypeOK
<1>5. ASSUME NEW m \in Meters, Cancel(m) PROVE TypeOK'
  BY <1>5, TypeQuiet DEF Cancel, registry, TypeOK
<1>6. CASE Crash
  BY <1>6, TypeQuiet DEF Crash, TypeOK
<1>7. ASSUME NEW c \in Clients, NEW e \in Events, RegisterEvent(c, e) PROVE TypeOK'
  BY <1>7, TypeQuiet DEF RegisterEvent, registry, goroutines, TypeOK
<1>8. ASSUME NEW c \in Clients, Publish(c) PROVE TypeOK'
  <2>1. /\ req[c] \in Events /\ req' \in [Clients -> Events \cup {NoEvent}]
        /\ accepted' \subseteq accepted \cup {req[c].id}
        /\ UNCHANGED <<registry, forgotten, goroutines, consumption>>
    BY <1>8 DEF Publish, TypeOK
  <2>2. accepted' \subseteq {e.id : e \in Events}
    BY <2>1 DEF TypeOK
  <2>3. /\ stream' \in Seq(Events) /\ Len(stream') <= MaxStored
        /\ Len(stream) <= Len(stream') /\ Ids \subseteq Ids'
        /\ recent' \subseteq Ids'
    <3>1. CASE StreamTakes(req[c])
      <4>1. /\ stream' \in Seq(Events) /\ Len(stream') <= MaxStored
            /\ Len(stream) <= Len(stream') /\ Ids \subseteq Ids'
            /\ req[c].id \in Ids' /\ recent' \subseteq recent \cup {req[c].id}
        BY <2>1, <3>1, StreamGrows
      <4>2. recent \subseteq Ids
        BY DEF TypeOK
      <4>. QED BY <4>1, <4>2
    <3>2. CASE UNCHANGED <<stream, recent>>
      <4>1. Ids' = Ids
        BY <3>2 DEF Ids
      <4>2. stream \in Seq(Events) /\ Len(stream) <= MaxStored /\ Len(stream) \in Nat
            /\ recent \subseteq Ids
        BY DEF TypeOK
      <4>. QED BY <3>2, <4>1, <4>2
    <3>. QED BY <1>8, <3>1, <3>2 DEF Publish
  <2>4. cursor' \in [Meters -> 0..Len(stream')]
    <3>1. Len(stream) \in Nat /\ Len(stream') \in Nat
      BY <2>3 DEF TypeOK
    <3>2. 0..Len(stream) \subseteq 0..Len(stream')
      BY <2>3, <3>1
    <3>3. cursor' = cursor /\ cursor \in [Meters -> 0..Len(stream)]
      BY <2>1 DEF consumption, TypeOK
    <3>. QED BY <3>2, <3>3
  <2>5. UNCHANGED <<meters, boot, forgotten, live, stuck, zombies, cursor, readings, failed>>
    BY <2>1 DEF registry, goroutines, consumption
  <2>6. \A r \in (readings \cup failed)' :
            /\ r.meter \in Meters /\ r.part \in Parts(r.meter)
            /\ r.entry \in 1..cursor'[r.meter]
    BY <2>5 DEF TypeOK
  <2>7. forgotten' \subseteq Ids'
    BY <2>3, <2>5 DEF TypeOK
  <2>8. /\ meters' \subseteq Meters /\ boot' \in {"loading", "running", "ended"}
        /\ live' \subseteq Meters /\ stuck' \subseteq Meters /\ zombies' \subseteq Meters
    BY <2>5 DEF TypeOK
  <2>. QED BY <2>1, <2>2, <2>3, <2>4, <2>6, <2>7, <2>8 DEF TypeOK
<1>9. ASSUME NEW id \in recent, Forget(id) PROVE TypeOK'
  <2>1. /\ UNCHANGED <<meters, boot, req, stream, live, stuck, zombies, cursor, readings,
                        failed, accepted>>
        /\ recent' \subseteq recent /\ forgotten' = forgotten \cup {id}
    BY <1>9 DEF Forget, registry, goroutines, consumption
  <2>2. Ids' = Ids
    BY <2>1 DEF Ids
  <2>3. recent' \subseteq Ids' /\ forgotten' \subseteq Ids'
    BY <2>1, <2>2 DEF TypeOK
  <2>. QED BY <2>1, <2>3 DEF TypeOK
<1>10. ASSUME NEW m \in Meters, Consume(m) PROVE TypeOK'
  <2>1. PICK i \in Pending(m) :
            /\ cursor' = [cursor EXCEPT ![m] = i]
            /\ \E fine \in SUBSET Parts(m) : Update(m, i, fine)
            /\ recent' = recent \/ recent' = recent \cup {stream[i].id}
    <3>1. {} \in SUBSET Parts(m) /\ Parts(m) \in SUBSET Parts(m)
      OBVIOUS
    <3>. QED BY <1>10, <3>1 DEF Consume, DeadLetter
  <2>2. /\ stream \in Seq(Events) /\ Len(stream) \in Nat /\ DOMAIN stream = 1..Len(stream)
        /\ cursor[m] \in 0..Len(stream) /\ cursor \in [Meters -> 0..Len(stream)]
    BY DEF TypeOK
  <2>3. i \in Nat /\ i \in 1..Len(stream) /\ cursor[m] < i
    BY <2>2 DEF Pending
  <2>4. cursor' \in [Meters -> 0..Len(stream)] /\ cursor'[m] = i
    BY <2>1, <2>2, <2>3
  <2>5. \A n \in Meters : cursor[n] \in Nat /\ cursor'[n] \in Nat /\ cursor[n] <= cursor'[n]
    BY <2>1, <2>2, <2>3, <2>4
  <2>6. UNCHANGED <<meters, boot, req, stream, forgotten, live, stuck, zombies, accepted>>
    BY <1>10 DEF Consume, registry, goroutines
  <2>7. ASSUME NEW r \in (readings \cup failed)'
        PROVE  r.meter \in Meters /\ r.part \in Parts(r.meter) /\ r.entry \in 1..cursor'[r.meter]
    <3>1. PICK fine \in SUBSET Parts(m) : Update(m, i, fine)
      BY <2>1
    <3>2. CASE r \in readings \cup failed
      <4>1. r.meter \in Meters /\ r.part \in Parts(r.meter) /\ r.entry \in 1..cursor[r.meter]
        BY <3>2 DEF TypeOK
      <4>. QED BY <4>1, <2>5
    <3>3. CASE r \in Shares(m, i, fine) \cup Shares(m, i, Parts(m) \ fine)
      <4>1. r.meter = m /\ r.part \in Parts(m) /\ r.entry = i
        BY <3>3 DEF Shares
      <4>. QED BY <4>1, <2>3, <2>4
    <3>. QED BY <3>1, <3>2, <3>3 DEF Update
  <2>8. Ids' = Ids
    BY <2>6 DEF Ids
  <2>9. recent' \subseteq Ids' /\ forgotten' \subseteq Ids'
    <3>1. stream[i].id \in Ids
      BY <2>2, <2>3 DEF Ids
    <3>. QED BY <2>1, <2>6, <2>8, <3>1 DEF TypeOK
  <2>10. cursor' \in [Meters -> 0..Len(stream')]
    BY <2>4, <2>6
  <2>. QED BY <2>6, <2>7, <2>9, <2>10 DEF TypeOK
<1>11. CASE UNCHANGED vars
  BY <1>11, TypeQuiet DEF vars, registry, goroutines, TypeOK
<1>. QED
  BY <1>1, <1>2, <1>3, <1>4, <1>5, <1>6, <1>7, <1>8, <1>9, <1>10, <1>11 DEF Next

\* Every variable keeps its type, for any meters, events, clients and bound: in
\* particular no reading counts a message its consumer has not passed.
THEOREM TypeCorrect == Spec => []TypeOK
<1>1. Init => TypeOK
  BY MaxStoredAssumption DEF Init, TypeOK
<1>. QED BY <1>1, TypeInductive, PTL DEF Spec
-----------------------------------------------------------------------------
(* What was accepted is stored                                             *)

\* A step either leaves the stream alone or lets it take one event.
LEMMA StreamStep ==
    ASSUME TypeOK, [Next]_vars
    PROVE  \/ stream' = stream /\ accepted' = accepted
           \/ \E e \in Events :
                  StreamTakes(e) /\ accepted' \subseteq accepted \cup {e.id} /\ forgotten' = forgotten
<1>1. ASSUME NEW c \in Clients, Publish(c)
      PROVE  \/ stream' = stream /\ accepted' = accepted
             \/ \E e \in Events :
                    StreamTakes(e) /\ accepted' \subseteq accepted \cup {e.id} /\ forgotten' = forgotten
  <2>1. req[c] \in Events
    BY <1>1 DEF Publish, TypeOK
  <2>. QED BY <1>1, <2>1 DEF Publish
<1>2. (stream' = stream /\ accepted' = accepted) \/ \E c \in Clients : Publish(c)
  BY DEF Next, vars, CreateMeter, DeleteMeter, Load, Attach, Cancel, Consume, RegisterEvent,
         Forget, Crash
<1>. QED BY <1>1, <1>2

\* A message keeps its place in the stream.
LEMMA MessagesStay ==
    ASSUME TypeOK, [Next]_vars
    PROVE  Ids \subseteq Ids' /\ \A i \in DOMAIN stream : i \in DOMAIN stream' /\ stream'[i] = stream[i]
BY StreamStep, StreamGrows DEF Ids

\* A client that got 202 finds its event's id in the stream, whatever was
\* duplicated, forgotten or answered with an error in between.
THEOREM AcceptedStored == Spec => []AcceptedIdIsStored
<1>1. Init => AcceptedIdIsStored
  BY DEF Init, AcceptedIdIsStored
<1>2. TypeOK /\ AcceptedIdIsStored /\ [Next]_vars => AcceptedIdIsStored'
  <2>. SUFFICES ASSUME TypeOK, AcceptedIdIsStored, [Next]_vars
                PROVE  AcceptedIdIsStored'
    OBVIOUS
  <2>1. CASE stream' = stream /\ accepted' = accepted
    BY <2>1 DEF AcceptedIdIsStored, Ids
  <2>2. ASSUME NEW e \in Events, StreamTakes(e), accepted' \subseteq accepted \cup {e.id}
        PROVE  AcceptedIdIsStored'
    <3>1. Ids \subseteq Ids' /\ e.id \in Ids'
      BY <2>2, StreamGrows
    <3>. QED BY <2>2, <3>1 DEF AcceptedIdIsStored
  <2>. QED BY <2>1, <2>2, StreamStep
<1>. QED BY <1>1, <1>2, TypeCorrect, PTL DEF Spec

-----------------------------------------------------------------------------
(* What is sent again is counted once                                      *)

\* Every id in the stream is in the window or has left it, and one that is
\* there twice has left it.
Windowed ==
    /\ \A i \in DOMAIN stream : stream[i].id \in recent \cup forgotten
    /\ \A i, j \in DOMAIN stream : stream[i].id = stream[j].id /\ i # j => stream[i].id \in forgotten

LEMMA WindowedInductive ==
    ASSUME TypeOK, Windowed, [Next]_vars
    PROVE  Windowed'
<1>1. CASE stream' = stream
  <2>1. /\ recent \cup forgotten \subseteq recent' \cup forgotten'
        /\ forgotten \subseteq forgotten'
    <3>1. ASSUME NEW c \in Clients, Publish(c)
          PROVE  recent \subseteq recent' /\ forgotten' = forgotten
      BY <3>1 DEF Publish, StreamTakes, Store
    <3>2. ASSUME NEW id \in recent, Forget(id)
          PROVE  /\ recent \cup forgotten \subseteq recent' \cup forgotten'
                 /\ forgotten \subseteq forgotten'
      BY <3>2 DEF Forget
    <3>3. ASSUME NEW m \in Meters, Consume(m)
          PROVE  recent \subseteq recent' /\ forgotten' = forgotten
      BY <3>3 DEF Consume, DeadLetter
    <3>4. \/ recent' = recent /\ forgotten' = forgotten
          \/ \E c \in Clients : Publish(c)
          \/ \E id \in recent : Forget(id)
          \/ \E m \in Meters : Consume(m)
      BY DEF Next, vars, CreateMeter, DeleteMeter, Load, Attach, Cancel, RegisterEvent, Crash
    <3>. QED BY <3>1, <3>2, <3>3, <3>4
  <2>. QED BY <1>1, <2>1 DEF Windowed
<1>2. ASSUME NEW e \in Events, StreamTakes(e), forgotten' = forgotten
      PROVE  Windowed'
  <2>1. /\ recent \subseteq recent' /\ e.id \in recent'
        /\ \A i \in DOMAIN stream : i \in DOMAIN stream' /\ stream'[i] = stream[i]
        /\ \A i \in DOMAIN stream' \ DOMAIN stream :
               i = Len(stream) + 1 /\ stream'[i].id = e.id /\ e.id \notin recent
    BY <1>2, StreamGrows
  <2>2. ASSUME NEW i \in DOMAIN stream' PROVE stream'[i].id \in recent' \cup forgotten'
    BY <1>2, <2>1 DEF Windowed
  <2>3. ASSUME NEW i \in DOMAIN stream', NEW j \in DOMAIN stream',
               stream'[i].id = stream'[j].id, i # j
        PROVE  stream'[i].id \in forgotten'
    <3>1. CASE i \in DOMAIN stream /\ j \in DOMAIN stream
      BY <1>2, <2>1, <2>3, <3>1 DEF Windowed
    <3>2. CASE i \in DOMAIN stream /\ j \notin DOMAIN stream
      <4>1. stream[i].id = e.id /\ e.id \notin recent /\ stream'[i].id = e.id
        BY <2>1, <2>3, <3>2
      <4>. QED BY <1>2, <3>2, <4>1 DEF Windowed
    <3>3. CASE i \notin DOMAIN stream /\ j \in DOMAIN stream
      <4>1. stream[j].id = e.id /\ e.id \notin recent /\ stream'[i].id = e.id
        BY <2>1, <2>3, <3>3
      <4>. QED BY <1>2, <3>3, <4>1 DEF Windowed
    <3>4. CASE i \notin DOMAIN stream /\ j \notin DOMAIN stream
      BY <2>1, <2>3, <3>4
    <3>. QED BY <3>1, <3>2, <3>3, <3>4
  <2>. QED BY <2>2, <2>3 DEF Windowed
<1>. QED BY <1>1, <1>2, StreamStep

\* However often a client sends an event again, no meter counts its id twice in
\* one part, unless the deduplication window was over in between.
THEOREM RetriedOnce == Spec => []RetryCountsOnce
<1>1. Init => Windowed
  BY DEF Init, Windowed
<1>2. TypeOK /\ Windowed => RetryCountsOnce
  <2>. SUFFICES ASSUME TypeOK, Windowed, NEW r \in readings, NEW s \in readings,
                       stream[r.entry].id = stream[s.entry].id, r.entry # s.entry
                PROVE  stream[r.entry].id \in forgotten
    BY DEF RetryCountsOnce
  <2>1. r.entry \in DOMAIN stream /\ s.entry \in DOMAIN stream
    <3>1. ASSUME NEW x \in readings PROVE x.entry \in DOMAIN stream
      <4>1. x.meter \in Meters /\ x.entry \in 1..cursor[x.meter]
        BY DEF TypeOK
      <4>2. /\ DOMAIN stream = 1..Len(stream) /\ Len(stream) \in Nat
            /\ cursor[x.meter] \in 0..Len(stream)
        BY <4>1 DEF TypeOK
      <4>. QED BY <4>1, <4>2
    <3>. QED BY <3>1
  <2>. QED BY <2>1 DEF Windowed
<1>. QED BY <1>1, <1>2, WindowedInductive, TypeCorrect, PTL DEF Spec

-----------------------------------------------------------------------------
(* Readings apart                                                          *)

\* A reading was counted from a message its meter's filter lets through.
Sourced ==
    \A r \in readings : r.entry \in DOMAIN stream /\ ForMeter(r.meter, r.entry)

LEMMA SourcedInductive ==
    ASSUME TypeOK, Sourced, [Next]_vars
    PROVE  Sourced'
<1>. SUFFICES ASSUME NEW r \in readings'
              PROVE  /\ r.entry \in DOMAIN stream'
                     /\ Matches(FilterSubject(r.meter), EventSubject(stream'[r.entry]))
  BY DEF Sourced, ForMeter
<1>1. CASE r \in readings
  BY <1>1, MessagesStay DEF Sourced, ForMeter
<1>2. ASSUME NEW m \in Meters, Consume(m), r \notin readings
      PROVE  /\ r.entry \in DOMAIN stream'
             /\ Matches(FilterSubject(r.meter), EventSubject(stream'[r.entry]))
  <2>1. PICK i \in Pending(m) : \E fine \in SUBSET Parts(m) : r \in Shares(m, i, fine)
    BY <1>2 DEF Consume, Update
  <2>2. i \in (cursor[m] + 1)..Len(stream) /\ ForMeter(m, i)
    BY DEF Pending
  <2>3. i \in DOMAIN stream
    <3>1. cursor[m] \in Nat /\ DOMAIN stream = 1..Len(stream) /\ Len(stream) \in Nat
      BY DEF TypeOK
    <3>. QED BY <3>1, <2>2
  <2>4. r.meter = m /\ r.entry = i
    BY <2>1 DEF Shares
  <2>5. stream' = stream
    BY <1>2 DEF Consume
  <2>. QED BY <2>2, <2>3, <2>4, <2>5 DEF ForMeter
<1>3. readings' = readings \/ \E m \in Meters : Consume(m)
  BY DEF Next, vars, consumption, CreateMeter, DeleteMeter, Load, Attach, Cancel, Publish,
         RegisterEvent, Forget, Crash
<1>. QED BY <1>1, <1>2, <1>3

\* Readings of one meter, or of meters with equally many dots in their names,
\* lie in one place only if nothing but colons and dashes tells them apart, and
\* no meter counts events of another type with as many dots, for any names.
THEOREM MetersApart == Spec => []ReadingsApart
<1>1. Init => Sourced
  BY DEF Init, Sourced
<1>2. TypeOK /\ Sourced => ReadingsApart
  <2>. SUFFICES ASSUME TypeOK, Sourced, NEW r \in readings
                PROVE  /\ Len(stream[r.entry].type) = Len(r.meter.type) =>
                              stream[r.entry].type = r.meter.type
                       /\ \A x \in readings :
                              SameShape(r.meter, x.meter) /\ Place(r) = Place(x) =>
                                  /\ stream[r.entry].subject = stream[x.entry].subject
                                  /\ sanitiseKey(r.part) = sanitiseKey(x.part)
                                  /\ StoredKey(r.meter) = StoredKey(x.meter)
    BY DEF ReadingsApart
  <2>1. ASSUME NEW x \in readings
        PROVE  /\ x.meter \in Meter /\ x.part \in Seq(Token)
               /\ stream[x.entry] \in Event /\ stream[x.entry].subject \in SubjectToken
    <3>1. x.meter \in Meters /\ x.part \in Parts(x.meter)
      BY DEF TypeOK
    <3>2. x.meter \in Meter
      BY <3>1, MetersAreMeters
    <3>3. x.meter.groups \subseteq Name
      BY <3>2 DEF Meter
    <3>4. x.part \in Seq(Token)
      <4>1. NoGroup \in Seq(Token) /\ Name \subseteq Seq(Token)
        BY DEF NoGroup, Name
      <4>2. x.part = NoGroup \/ x.part \in x.meter.groups
        BY <3>1 DEF Parts
      <4>. QED BY <3>3, <4>1, <4>2
    <3>5. stream[x.entry] \in Event
      BY EventsAreEvents DEF TypeOK, Sourced
    <3>. QED BY <3>2, <3>4, <3>5 DEF Event
  <2>2. Len(stream[r.entry].type) = Len(r.meter.type) => stream[r.entry].type = r.meter.type
    BY <2>1, FilterTellsTypes DEF Sourced, ForMeter
  <2>3. ASSUME NEW x \in readings, SameShape(r.meter, x.meter), Place(r) = Place(x)
        PROVE  /\ stream[r.entry].subject = stream[x.entry].subject
               /\ sanitiseKey(r.part) = sanitiseKey(x.part)
               /\ StoredKey(r.meter) = StoredKey(x.meter)
    <3>1. sanitiseKey(ReadingKey(r.meter, stream[r.entry].subject, r.part))
              = sanitiseKey(ReadingKey(x.meter, stream[x.entry].subject, x.part))
      BY <2>3 DEF Place
    <3>. QED BY <2>1, <2>3, <3>1, PlacesApart DEF StoredKey
  <2>. QED BY <2>2, <2>3
<1>. QED BY <1>1, <1>2, SourcedInductive, TypeCorrect, PTL DEF Spec
=============================================================================
