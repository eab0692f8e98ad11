--------------------------- MODULE Readings_proofs ---------------------------
(***************************************************************************)
(* Proofs about Readings, for every set of numbers and strings and every   *)
(* number of events.  A maximum is compared with what is stored, so that   *)
(* it bounds the values counted before only because those are numbers too, *)
(* and createReading may ignore the history only because there is none     *)
(* when there is no reading: the inductive invariant adds both facts.      *)
(*                                                                         *)
(* That a reading is the aggregate of its whole history is an induction    *)
(* over that history, twice: the definition of Total is recursive, and so  *)
(* has to be shown to be a sum at all.  The induction is over sets of      *)
(* numbers (SetInduction), which first-order provers can do.               *)
(***************************************************************************)
EXTENDS Readings, FiniteSetTheorems, WellFoundedInduction, TLAPS

OnlyNumbers == agg \in Numeric => seen \in Seq(Numbers)
ReadingIffSeen == reading = NoReading <=> seen = <<>>

\* The first conjunct of ReadingIsAggregate: every event accepted is counted.
EveryEventCounted == reading # NoReading /\ agg # "unique" => reading.count = Len(seen)

IInv == TypeOK /\ OnlyNumbers /\ ReadingIffSeen /\ EveryEventCounted /\ ExtremeIsAttained

-----------------------------------------------------------------------------
(* Sums over a sequence                                                    *)

\* A set of numbers that has 0 and with each number the next one has them all:
\* otherwise 0..k, for the numbers k it lacks, would be a family of finite
\* sets without a smallest one.
LEMMA SetInduction ==
    ASSUME NEW S, S \subseteq Nat, 0 \in S, \A n \in S : n + 1 \in S
    PROVE  S = Nat
  <1> SUFFICES ASSUME NEW n \in Nat, n \notin S PROVE FALSE
    OBVIOUS
  <1> DEFINE T == {0..k : k \in Nat \ S}
  <1>1. T \subseteq FiniteSubsetsOf(Nat) /\ T # {}
    <2>1. \A k \in Nat : IsFiniteSet(0..k) /\ 0..k \in SUBSET Nat
      BY FS_Interval
    <2> QED
      BY <2>1 DEF FiniteSubsetsOf
  <1>2. PICK x \in T : \A y \in T : <<y, x>> \notin StrictSubsetOrdering(Nat)
    <2> HIDE DEF T
    <2> QED
      BY <1>1, FS_StrictSubsetOrderingWellFounded, WFMin
  <1>3. PICK k \in Nat \ S : x = 0..k
    OBVIOUS
  <1>4. k - 1 \in Nat \ S
    BY <1>3
  <1>5. 0..(k - 1) \in T
    BY <1>4
  <1>6. <<0..(k - 1), x>> \in StrictSubsetOrdering(Nat)
    BY <1>3, <1>4 DEF StrictSubsetOrdering
  <1> QED
    BY <1>2, <1>5, <1>6

\* f holds the sums of the first 0, 1, ..., k members of s.
PrefixSums(s, k, f) ==
    f = [n \in 0..k |-> IF n = 0 THEN 0 ELSE f[n - 1] + s[n]]

\* The recursive definition in Total defines something.
LEMMA SumsExist ==
    ASSUME NEW s, NEW k \in Nat
    PROVE  \E f : PrefixSums(s, k, f)
  <1> DEFINE S == {n \in Nat : \E f : PrefixSums(s, n, f)}
  <1>1. 0 \in S
    <2> DEFINE f == [n \in 0..0 |-> 0]
    <2>1. f = [n \in 0..0 |-> IF n = 0 THEN 0 ELSE f[n - 1] + s[n]]
      OBVIOUS
    <2> QED
      BY <2>1 DEF PrefixSums
  <1>2. ASSUME NEW n \in S PROVE n + 1 \in S
    <2>1. PICK f : f = [i \in 0..n |-> IF i = 0 THEN 0 ELSE f[i - 1] + s[i]]
      BY DEF PrefixSums
    <2> DEFINE g == [i \in 0..(n + 1) |-> IF i = n + 1 THEN f[n] + s[n + 1] ELSE f[i]]
    <2>2. n \in Nat
      OBVIOUS
    <2>3. ASSUME NEW i \in 0..(n + 1)
          PROVE  g[i] = IF i = 0 THEN 0 ELSE g[i - 1] + s[i]
      <3>1. CASE i = n + 1
        BY <2>1, <2>2, <3>1
      <3>2. CASE i \in 0..n
        BY <2>1, <2>2, <3>2
      <3> QED
        BY <2>2, <3>1, <3>2
    <2>4. g = [i \in 0..(n + 1) |-> IF i = 0 THEN 0 ELSE g[i - 1] + s[i]]
      BY <2>3
    <2>5. PrefixSums(s, n + 1, g)
      BY <2>4 DEF PrefixSums
    <2> QED
      <3> HIDE DEF g
      <3> QED
        BY <2>2, <2>5
  <1>3. S = Nat
    <2> HIDE DEF S
    <2> QED
      BY <1>1, <1>2, SetInduction DEF S
  <1> QED
    BY <1>3

\* Sequences that agree up to n have the same sum up to there.
LEMMA SumsAgree ==
    ASSUME NEW s, NEW t, NEW j \in Nat, NEW k \in Nat, NEW f, NEW g,
           PrefixSums(s, j, f), PrefixSums(t, k, g),
           NEW n \in Nat, n <= j, n <= k, \A i \in 1..n : s[i] = t[i]
    PROVE  f[n] = g[n]
  <1> DEFINE S == {i \in Nat : i <= n => f[i] = g[i]}
  <1>1. 0 \in S
    BY DEF PrefixSums
  <1>2. ASSUME NEW i \in S PROVE i + 1 \in S
    BY DEF PrefixSums
  <1>3. S = Nat
    <2> HIDE DEF S
    <2> QED
      BY <1>1, <1>2, SetInduction DEF S
  <1> QED
    BY <1>3

LEMMA SumsAreIntegers ==
    ASSUME NEW s \in Seq(Int), NEW f, PrefixSums(s, Len(s), f)
    PROVE  f[Len(s)] \in Int
  <1> DEFINE S == {i \in Nat : i <= Len(s) => f[i] \in Int}
  <1>1. 0 \in S
    BY DEF PrefixSums
  <1>2. ASSUME NEW i \in S PROVE i + 1 \in S
    BY DEF PrefixSums
  <1>3. S = Nat
    <2> HIDE DEF S
    <2> QED
      BY <1>1, <1>2, SetInduction DEF S
  <1> QED
    BY <1>3

LEMMA TotalIsSum ==
    ASSUME NEW s, Len(s) \in Nat, NEW f, PrefixSums(s, Len(s), f)
    PROVE  Total(s) = f[Len(s)]
  <1> DEFINE upTo == CHOOSE g : g = [n \in 0..Len(s) |-> IF n = 0 THEN 0 ELSE g[n - 1] + s[n]]
  <1>1. PrefixSums(s, Len(s), upTo)
    BY DEF PrefixSums
  <1>2. Total(s) = upTo[Len(s)]
    BY DEF Total
  <1> QED
    <2> HIDE DEF upTo
    <2> QED
      BY <1>1, <1>2, SumsAgree

\* What the model needs to know of Total.
LEMMA TotalOfAppend ==
    ASSUME NEW s \in Seq(Int), NEW v \in Int
    PROVE  /\ Total(s) \in Int
           /\ Total(Append(s, v)) = Total(s) + v
           /\ s = <<>> => Total(s) = 0
  <1>1. PICK t : t = Append(s, v)
    OBVIOUS
  <1>2. /\ Len(s) \in Nat /\ Len(t) \in Nat /\ Len(t) = Len(s) + 1
        /\ t[Len(t)] = v /\ \A i \in 1..Len(s) : s[i] = t[i]
    BY <1>1
  <1>3. PICK f : PrefixSums(s, Len(s), f)
    BY <1>2, SumsExist
  <1>4. PICK g : PrefixSums(t, Len(t), g)
    BY <1>2, SumsExist
  <1>5. Total(s) = f[Len(s)] /\ f[Len(s)] \in Int
    BY <1>2, <1>3, TotalIsSum, SumsAreIntegers
  <1>6. Total(t) = g[Len(t)]
    BY <1>2, <1>4, TotalIsSum
  <1>7. g[Len(t)] = g[Len(s)] + v
    BY <1>2, <1>4 DEF PrefixSums
  <1>8. f[Len(s)] = g[Len(s)]
    <2>1. Len(s) \in Nat /\ Len(t) \in Nat /\ Len(s) <= Len(s) /\ Len(s) <= Len(t)
      BY <1>2
    <2> QED
      BY <1>2, <1>3, <1>4, <2>1, SumsAgree
  <1>9. s = <<>> => f[Len(s)] = 0
    BY <1>3 DEF PrefixSums
  <1> QED
    BY <1>1, <1>5, <1>6, <1>7, <1>8, <1>9

LEMMA PositionsOfAppend ==
    ASSUME NEW s \in Seq(Values), NEW v \in Values, NEW w
    PROVE  /\ Cardinality(Positions(s, w)) \in Nat
           /\ Cardinality(Positions(Append(s, v), w)) =
                  IF v = w THEN Cardinality(Positions(s, w)) + 1
                  ELSE Cardinality(Positions(s, w))
           /\ s = <<>> => Cardinality(Positions(s, w)) = 0
  <1>1. Len(s) \in Nat /\ DOMAIN s = 1..Len(s)
    OBVIOUS
  <1>2. IsFiniteSet(Positions(s, w))
    <2>1. IsFiniteSet(1..Len(s))
      BY <1>1, FS_Interval
    <2>2. Positions(s, w) \in SUBSET (1..Len(s))
      BY <1>1 DEF Positions
    <2> QED
      BY <2>1, <2>2, FS_Subset
  <1>3. Len(s) + 1 \notin Positions(s, w)
    BY <1>1 DEF Positions
  <1>4. Positions(Append(s, v), w) =
            IF v = w THEN Positions(s, w) \cup {Len(s) + 1} ELSE Positions(s, w)
    BY <1>1 DEF Positions
  <1>5. s = <<>> => Positions(s, w) = {}
    BY DEF Positions
  <1>6. Cardinality(Positions(s, w)) \in Nat
    BY <1>2, FS_CardinalityType
  <1>7. Cardinality(Positions(s, w) \cup {Len(s) + 1}) = Cardinality(Positions(s, w)) + 1
    BY <1>2, <1>3, FS_AddElement
  <1> QED
    BY <1>4, <1>5, <1>6, <1>7, FS_EmptySet

-----------------------------------------------------------------------------
(* One event                                                               *)

\* What is accepted has the type the aggregation computes with.
LEMMA AcceptedType ==
    ASSUME NEW a \in Aggregations, NEW v \in Values, Accepts(a, v)
    PROVE  /\ a \in Numeric => v \in Numbers
           /\ a = "unique" => v \in Strings
           /\ a \in {"count", "sum", "avg", "max", "min", "unique"}
  BY DEF Accepts, Aggregations, Numeric

\* createReading stores a reading that counts one event, and starts an extreme
\* from the value itself.
LEMMA CreateType ==
    ASSUME NEW a \in Aggregations, NEW v \in Values, Accepts(a, v)
    PROVE  /\ createReading(a, v) \in Reading
           /\ createReading(a, v).count = 1
           /\ a = "max" => createReading(a, v).max = v
           /\ a = "min" => createReading(a, v).min = v
  <1>1. Blank \in Reading /\ Blank.count = 1
    BY DEF Blank, Reading, Fraction
  <1>2. CASE a = "count"
    BY <1>1, <1>2 DEF createReading
  <1>3. CASE a = "sum"
    BY <1>1, <1>3, AcceptedType, NumbersAreIntegers DEF createReading, Reading, Numeric
  <1>4. CASE a = "avg"
    BY <1>1, <1>4, AcceptedType, NumbersAreIntegers
       DEF createReading, Reading, Numeric, Fraction
  <1>5. CASE a = "max"
    BY <1>1, <1>5, AcceptedType, NumbersAreIntegers DEF createReading, Reading, Numeric
  <1>6. CASE a = "min"
    BY <1>1, <1>6, AcceptedType, NumbersAreIntegers DEF createReading, Reading, Numeric
  <1>7. CASE a = "unique"
    BY <1>1, <1>7 DEF createReading, Reading
  <1> QED
    BY <1>2, <1>3, <1>4, <1>5, <1>6, <1>7, AcceptedType

\* updateReading keeps a reading a reading, counts the event unless the
\* aggregation is unique, and moves an extreme only to the event's value.
LEMMA UpdateType ==
    ASSUME NEW a \in Aggregations, NEW v \in Values, Accepts(a, v), NEW r \in Reading
    PROVE  /\ updateReading(a, r, v) \in Reading
           /\ a # "unique" => updateReading(a, r, v).count = r.count + 1
           /\ a = "max" => updateReading(a, r, v).max = IF r.max < v THEN v ELSE r.max
           /\ a = "min" => updateReading(a, r, v).min = IF r.min > v THEN v ELSE r.min
  <1> DEFINE counted == [r EXCEPT !.count = @ + 1]
  <1>1. counted \in Reading /\ counted.count = r.count + 1
        /\ counted.max = r.max /\ counted.min = r.min /\ counted.sum = r.sum
    BY DEF Reading
  <1>2. CASE a = "count"
    BY <1>1, <1>2 DEF updateReading
  <1>3. CASE a = "sum"
    <2>1. v \in Int
      BY <1>3, AcceptedType, NumbersAreIntegers DEF Numeric
    <2>2. updateReading(a, r, v) = [counted EXCEPT !.sum = r.sum + v]
      BY <1>1, <1>3 DEF updateReading
    <2>3. r.sum + v \in Int
      BY <2>1 DEF Reading
    <2>4. updateReading(a, r, v) \in Reading
      BY <1>1, <2>2, <2>3 DEF Reading
    <2>5. updateReading(a, r, v).count = counted.count
      BY <1>1, <2>2 DEF Reading
    <2> QED
      BY <1>1, <1>3, <2>4, <2>5
  <1>4. CASE a = "avg"
    <2>1. v \in Int
      BY <1>4, AcceptedType, NumbersAreIntegers DEF Numeric
    <2>2. NewAverage(r, v) \in Fraction
      BY <2>1 DEF NewAverage, Reading, Fraction
    <2>3. updateReading(a, r, v) = [counted EXCEPT !.avg = NewAverage(r, v)]
      BY <1>4 DEF updateReading
    <2> QED
      BY <1>1, <1>4, <2>2, <2>3 DEF Reading
  <1>5. CASE a = "max"
    <2>1. v \in Int
      BY <1>5, AcceptedType, NumbersAreIntegers DEF Numeric
    <2>2. updateReading(a, r, v) = [counted EXCEPT !.max = IF @ < v THEN v ELSE @]
      BY <1>5 DEF updateReading
    <2> QED
      BY <1>1, <1>5, <2>1, <2>2 DEF Reading
  <1>6. CASE a = "min"
    <2>1. v \in Int
      BY <1>6, AcceptedType, NumbersAreIntegers DEF Numeric
    <2>2. updateReading(a, r, v) = [counted EXCEPT !.min = IF @ > v THEN v ELSE @]
      BY <1>6 DEF updateReading
    <2> QED
      BY <1>1, <1>6, <2>1, <2>2 DEF Reading
  <1>7. CASE a = "unique"
    BY <1>7, AcceptedType DEF updateReading, Reading
  <1> QED
    BY <1>2, <1>3, <1>4, <1>5, <1>6, <1>7, AcceptedType

\* What the other aggregations make of the first and of a later event.
LEMMA CreateValue ==
    ASSUME NEW a \in Aggregations, NEW v \in Values, Accepts(a, v)
    PROVE  /\ a = "sum" => createReading(a, v).sum = v
           /\ a = "avg" => createReading(a, v).avg = [num |-> v, den |-> 1]
           /\ a = "unique" => \A s \in Strings :
                  createReading(a, v).unique[s] = IF v = s THEN 1 ELSE 0
  BY AcceptedType DEF createReading, Blank

LEMMA UpdateValue ==
    ASSUME NEW a \in Aggregations, NEW v \in Values, Accepts(a, v), NEW r \in Reading
    PROVE  /\ a = "sum" => updateReading(a, r, v).sum = r.sum + v
           /\ a = "avg" => updateReading(a, r, v).avg = NewAverage(r, v)
           /\ a = "unique" => \A s \in Strings :
                  updateReading(a, r, v).unique[s] =
                      IF v = s THEN r.unique[s] + 1 ELSE r.unique[s]
  <1>1. CASE a = "sum"
    BY <1>1 DEF updateReading, Reading
  <1>2. CASE a = "avg"
    BY <1>2 DEF updateReading, Reading
  <1>3. CASE a = "unique"
    BY <1>3, AcceptedType DEF updateReading, Reading
  <1> QED
    BY <1>1, <1>2, <1>3

\* The heart of the running average: if n times p/q is the sum of n values,
\* then n + 1 times the new average is the sum of n + 1 of them.
LEMMA AverageOfMore ==
    ASSUME NEW p \in Int, NEW q \in Int, q > 0, NEW n \in Nat, NEW sum \in Int,
           NEW v \in Int, p * n = sum * q
    PROVE  /\ q * (n + 1) > 0
           /\ (p * n + v * q) * (n + 1) = (sum + v) * (q * (n + 1))
  <1>1. p * n + v * q = (sum + v) * q
    OBVIOUS
  <1>2. (sum + v) * q * (n + 1) = (sum + v) * (q * (n + 1))
    OBVIOUS
  <1>3. q * (n + 1) > 0
    OBVIOUS
  <1> QED
    BY <1>1, <1>2, <1>3

-----------------------------------------------------------------------------
(* The invariants                                                          *)

LEMMA InitEstablishes == Init => IInv
  BY DEF Init, IInv, TypeOK, OnlyNumbers, ReadingIffSeen, EveryEventCounted,
         ExtremeIsAttained

\* An accepted event disturbs every part; the first one finds no reading and
\* an empty history.
LEMMA AcceptedPreserves ==
    ASSUME IInv, NEW v \in Values, upsertReadings(v), Accepts(agg, v)
    PROVE  IInv'
  <1>1. agg \in Aggregations /\ agg' = agg
    BY DEF IInv, TypeOK, upsertReadings
  <1>2. seen' = Append(seen, v) /\ seen \in Seq(Values)
    BY DEF IInv, TypeOK, upsertReadings
  <1>3. /\ DOMAIN seen' = 1..(Len(seen) + 1)
        /\ Len(seen') = Len(seen) + 1 /\ Len(seen) \in Nat
        /\ seen'[Len(seen) + 1] = v
        /\ \A i \in DOMAIN seen : seen'[i] = seen[i] /\ i \in 1..Len(seen)
        /\ DOMAIN seen = 1..Len(seen)
    BY <1>2
  <1>4. agg \in Numeric => v \in Int /\ \A i \in DOMAIN seen : seen[i] \in Int
    <2> SUFFICES ASSUME agg \in Numeric
                 PROVE  v \in Int /\ \A i \in DOMAIN seen : seen[i] \in Int
      OBVIOUS
    <2>1. v \in Numbers
      BY <1>1, AcceptedType, Accepts(agg, v)
    <2>2. seen \in Seq(Numbers)
      BY DEF IInv, OnlyNumbers
    <2>3. \A i \in DOMAIN seen : seen[i] \in Numbers
      BY <2>2
    <2> QED
      BY <2>1, <2>3, NumbersAreIntegers
  <1>5. OnlyNumbers'
    BY <1>1, <1>2, AcceptedType DEF IInv, OnlyNumbers
  <1>6. CASE reading = NoReading
    <2>1. reading' = createReading(agg, v) /\ seen = <<>>
      BY <1>6 DEF upsertReadings, IInv, ReadingIffSeen
    <2>2. reading' \in Reading /\ reading' # NoReading
      BY <1>1, <2>1, CreateType, NoReadingIsNotAReading
    <2>3. TypeOK'
      BY <1>1, <1>2, <2>2 DEF TypeOK
    <2>4. ReadingIffSeen'
      BY <1>3, <2>2 DEF ReadingIffSeen
    <2>5. EveryEventCounted'
      BY <1>1, <1>3, <2>1, CreateType DEF EveryEventCounted
    <2>6. DOMAIN seen' = {1} /\ seen'[1] = v
      BY <1>3, <2>1
    <2>7. ExtremeIsAttained'
      BY <1>1, <1>4, <2>1, <2>6, CreateType DEF ExtremeIsAttained, Numeric
    <2> QED
      BY <1>5, <2>3, <2>4, <2>5, <2>7 DEF IInv
  <1>7. CASE reading # NoReading
    <2>1. reading' = updateReading(agg, reading, v) /\ reading \in Reading
      BY <1>7 DEF upsertReadings, IInv, TypeOK
    <2>2. reading' \in Reading /\ reading' # NoReading
      BY <1>1, <2>1, UpdateType, NoReadingIsNotAReading
    <2>3. TypeOK'
      BY <1>1, <1>2, <2>2 DEF TypeOK
    <2>4. ReadingIffSeen'
      BY <1>3, <2>2 DEF ReadingIffSeen
    <2>5. EveryEventCounted'
      BY <1>1, <1>3, <1>7, <2>1, UpdateType DEF EveryEventCounted, IInv
    <2>6. ASSUME agg = "max"
          PROVE  /\ \E i \in DOMAIN seen' : seen'[i] = reading'.max
                 /\ \A i \in DOMAIN seen' : seen'[i] <= reading'.max
      <3>1. reading'.max = (IF reading.max < v THEN v ELSE reading.max)
            /\ reading.max \in Int
        BY <1>1, <2>1, <2>6, UpdateType DEF Reading
      <3>2. v \in Int /\ \A i \in DOMAIN seen : seen[i] \in Int
        BY <1>4, <2>6 DEF Numeric
      <3>3. /\ \E i \in DOMAIN seen : seen[i] = reading.max
            /\ \A i \in DOMAIN seen : seen[i] <= reading.max
        BY <1>7, <2>6 DEF IInv, ExtremeIsAttained
      <3> QED
        BY <1>3, <3>1, <3>2, <3>3
    <2>7. ASSUME agg = "min"
          PROVE  /\ \E i \in DOMAIN seen' : seen'[i] = reading'.min
                 /\ \A i \in DOMAIN seen' : seen'[i] >= reading'.min
      <3>1. reading'.min = (IF reading.min > v THEN v ELSE reading.min)
            /\ reading.min \in Int
        BY <1>1, <2>1, <2>7, UpdateType DEF Reading
      <3>2. v \in Int /\ \A i \in DOMAIN seen : seen[i] \in Int
        BY <1>4, <2>7 DEF Numeric
      <3>3. /\ \E i \in DOMAIN seen : seen[i] = reading.min
            /\ \A i \in DOMAIN seen : seen[i] >= reading.min
        BY <1>7, <2>7 DEF IInv, ExtremeIsAttained
      <3> QED
        BY <1>3, <3>1, <3>2, <3>3
    <2>8. ExtremeIsAttained'
      BY <1>1, <2>6, <2>7 DEF ExtremeIsAttained
    <2> QED
      BY <1>5, <2>3, <2>4, <2>5, <2>8 DEF IInv
  <1> QED
    BY <1>6, <1>7

LEMMA NextPreserves == IInv /\ [Next]_vars => IInv'
  <1> SUFFICES ASSUME IInv, [Next]_vars PROVE IInv'
    OBVIOUS
  <1>1. ASSUME NEW v \in Values, upsertReadings(v), Accepts(agg, v) PROVE IInv'
    BY <1>1, AcceptedPreserves
  <1>2. ASSUME UNCHANGED vars PROVE IInv'
    BY <1>2 DEF vars, IInv, TypeOK, OnlyNumbers, ReadingIffSeen, EveryEventCounted,
                ExtremeIsAttained
  <1>3. ASSUME NEW v \in Values, upsertReadings(v), ~Accepts(agg, v) PROVE IInv'
    BY <1>2, <1>3 DEF upsertReadings, vars
  <1> QED
    BY <1>1, <1>2, <1>3 DEF Next

THEOREM Invariant == Spec => []IInv
  <1>1. Init => IInv
    BY InitEstablishes
  <1>2. IInv /\ [Next]_vars => IInv'
    BY NextPreserves
  <1> QED
    BY <1>1, <1>2, PTL DEF Spec

\* A reading keeps its shape through every aggregation, whatever the values.
THEOREM TypeCorrect == Spec => []TypeOK
  <1>1. IInv => TypeOK
    BY DEF IInv
  <1> QED
    BY <1>1, Invariant, PTL

\* For events without end and any numbers: a max or min reading is a value that
\* was counted, and bounds them all, although each step compares two of them.
THEOREM Extremes == Spec => []ExtremeIsAttained
  <1>1. IInv => ExtremeIsAttained
    BY DEF IInv
  <1> QED
    BY <1>1, Invariant, PTL

-----------------------------------------------------------------------------
(* The reading and its history                                             *)

\* The first event of a subject: createReading ignores the history, which is
\* right because there is none.
LEMMA FirstAggregates ==
    ASSUME IInv, NEW v \in Values, upsertReadings(v), Accepts(agg, v), reading = NoReading
    PROVE  ReadingIsAggregate'
  <1>1. /\ agg \in Aggregations /\ agg' = agg /\ seen = <<>> /\ seen \in Seq(Values)
        /\ seen' = Append(seen, v) /\ reading' = createReading(agg, v)
    BY DEF IInv, TypeOK, ReadingIffSeen, upsertReadings
  <1>2. seen' # <<>> /\ Len(seen') = 1
    BY <1>1
  <1>3. agg \in Numeric => v \in Int /\ Total(seen') = v
    <2> SUFFICES ASSUME agg \in Numeric PROVE v \in Int /\ Total(seen') = v
      OBVIOUS
    <2>1. v \in Int
      BY <1>1, AcceptedType, NumbersAreIntegers
    <2>2. seen \in Seq(Int)
      BY <1>1
    <2>3. Total(seen) = 0 /\ Total(Append(seen, v)) = Total(seen) + v
      BY <1>1, <2>1, <2>2, TotalOfAppend
    <2>4. Total(Append(seen, v)) = v
      BY <2>1, <2>3
    <2> QED
      BY <1>1, <2>1, <2>4, Zenon
  <1>4. agg # "unique" => reading'.count = Len(seen')
    BY <1>1, <1>2, CreateType
  <1>5. agg = "sum" => reading'.sum = Total(seen')
    BY <1>1, <1>3, CreateValue DEF Numeric
  <1>6. ASSUME agg = "avg"
        PROVE  /\ reading'.avg.den > 0
               /\ reading'.avg.num * Len(seen') = Total(seen') * reading'.avg.den
    <2>1. v \in Int /\ Total(seen') = v
      BY <1>3, <1>6 DEF Numeric
    <2>2. reading'.avg = [num |-> v, den |-> 1]
      BY <1>1, <1>6, CreateValue
    <2>3. reading'.avg.num = v /\ reading'.avg.den = 1
      BY <2>2
    <2> QED
      BY <1>2, <2>1, <2>3
  <1>7. ASSUME agg = "unique", NEW s \in Strings
        PROVE  reading'.unique[s] = Cardinality(Positions(seen', s))
    <2>1. reading'.unique[s] = IF v = s THEN 1 ELSE 0
      BY <1>1, <1>7, CreateValue
    <2>2. Cardinality(Positions(seen, s)) = 0
      BY <1>1, PositionsOfAppend
    <2>3. Cardinality(Positions(Append(seen, v), s)) = IF v = s THEN 0 + 1 ELSE 0
      BY <1>1, <2>2, PositionsOfAppend
    <2>4. Cardinality(Positions(seen', s)) = Cardinality(Positions(Append(seen, v), s))
      BY <1>1, Zenon
    <2> QED
      BY <2>1, <2>3, <2>4
  <1> QED
    BY <1>1, <1>2, <1>4, <1>5, <1>6, <1>7 DEF ReadingIsAggregate

\* Every later one adds its share to what the history adds up to.
LEMMA LaterAggregates ==
    ASSUME IInv, ReadingIsAggregate, NEW v \in Values, upsertReadings(v), Accepts(agg, v),
           reading # NoReading
    PROVE  ReadingIsAggregate'
  <1>1. /\ agg \in Aggregations /\ agg' = agg /\ seen # <<>> /\ seen \in Seq(Values)
        /\ seen' = Append(seen, v) /\ reading \in Reading
        /\ reading' = updateReading(agg, reading, v)
    BY DEF IInv, TypeOK, ReadingIffSeen, upsertReadings
  <1>2. seen' # <<>> /\ Len(seen') = Len(seen) + 1 /\ Len(seen) \in Nat
    BY <1>1
  <1>3. agg \in Numeric =>
            v \in Int /\ Total(seen) \in Int /\ Total(seen') = Total(seen) + v
    <2> SUFFICES ASSUME agg \in Numeric
                 PROVE  v \in Int /\ Total(seen) \in Int /\ Total(seen') = Total(seen) + v
      OBVIOUS
    <2>1. v \in Int
      BY <1>1, AcceptedType, NumbersAreIntegers
    <2>2. seen \in Seq(Int)
      <3>1. seen \in Seq(Numbers)
        BY DEF IInv, OnlyNumbers
      <3>2. \A i \in 1..Len(seen) : seen[i] \in Numbers
        BY <3>1
      <3>3. \A i \in 1..Len(seen) : seen[i] \in Int
        BY <3>2, NumbersAreIntegers
      <3> QED
        BY <3>1, <3>3
    <2>3. Total(seen) \in Int /\ Total(Append(seen, v)) = Total(seen) + v
      BY <2>1, <2>2, TotalOfAppend
    <2>4. Total(seen') = Total(Append(seen, v))
      BY <1>1, Zenon
    <2> QED
      BY <2>1, <2>3, <2>4
  <1>4. agg # "unique" => reading'.count = Len(seen')
    BY <1>1, <1>2, UpdateType DEF IInv, EveryEventCounted
  <1>5. agg = "sum" => reading'.sum = Total(seen')
    BY <1>1, <1>3, UpdateValue DEF ReadingIsAggregate, Numeric
  <1>6. ASSUME agg = "avg"
        PROVE  /\ reading'.avg.den > 0
               /\ reading'.avg.num * Len(seen') = Total(seen') * reading'.avg.den
    <2>1. /\ reading.avg.num \in Int /\ reading.avg.den \in Int
          /\ reading.count = Len(seen)
          /\ reading.avg.den > 0
          /\ reading.avg.num * Len(seen) = Total(seen) * reading.avg.den
      BY <1>1, <1>6 DEF ReadingIsAggregate, Reading, Fraction
    <2>2. v \in Int /\ Total(seen) \in Int /\ Total(seen') = Total(seen) + v
      BY <1>3, <1>6 DEF Numeric
    <2>3. /\ reading'.avg.num = reading.avg.num * Len(seen) + v * reading.avg.den
          /\ reading'.avg.den = reading.avg.den * (Len(seen) + 1)
      <3>1. reading'.avg = NewAverage(reading, v)
        BY <1>1, <1>6, UpdateValue
      <3>2. /\ reading'.avg.num =
                  reading.avg.num * reading.count + v * reading.avg.den
            /\ reading'.avg.den = reading.avg.den * (reading.count + 1)
        BY <3>1 DEF NewAverage
      <3> QED
        BY <2>1, <3>2, Zenon
    <2>4. /\ reading.avg.den * (Len(seen) + 1) > 0
          /\ (reading.avg.num * Len(seen) + v * reading.avg.den) * (Len(seen) + 1) =
                 (Total(seen) + v) * (reading.avg.den * (Len(seen) + 1))
      BY <1>2, <2>1, <2>2, AverageOfMore
    <2> QED
      BY <1>2, <2>2, <2>3, <2>4
  <1>7. ASSUME agg = "unique", NEW s \in Strings
        PROVE  reading'.unique[s] = Cardinality(Positions(seen', s))
    <2>1. reading'.unique[s] = IF v = s THEN reading.unique[s] + 1 ELSE reading.unique[s]
      BY <1>1, <1>7, UpdateValue
    <2>2. reading.unique[s] = Cardinality(Positions(seen, s))
      BY <1>1, <1>7 DEF ReadingIsAggregate
    <2> QED
      BY <1>1, <2>1, <2>2, PositionsOfAppend
  <1> QED
    BY <1>1, <1>2, <1>4, <1>5, <1>6, <1>7 DEF ReadingIsAggregate

\* For events without end: the reading counts every accepted value once - the
\* sum is their sum, the average times their number is their sum, and each
\* string was seen as often as unique says.
THEOREM Aggregates == Spec => []ReadingIsAggregate
  <1>1. Init => ReadingIsAggregate
    BY DEF Init, ReadingIsAggregate
  <1>2. IInv /\ ReadingIsAggregate /\ [Next]_vars => ReadingIsAggregate'
    <2> SUFFICES ASSUME IInv, ReadingIsAggregate, [Next]_vars PROVE ReadingIsAggregate'
      OBVIOUS
    <2>1. ASSUME UNCHANGED vars PROVE ReadingIsAggregate'
      BY <2>1 DEF vars, ReadingIsAggregate
    <2>2. ASSUME NEW v \in Values, upsertReadings(v), ~Accepts(agg, v)
          PROVE  ReadingIsAggregate'
      BY <2>1, <2>2 DEF upsertReadings, vars
    <2>3. ASSUME NEW v \in Values, upsertReadings(v), Accepts(agg, v)
          PROVE  ReadingIsAggregate'
      BY <2>3, FirstAggregates, LaterAggregates
    <2> QED
      BY <2>1, <2>2, <2>3 DEF Next
  <1> QED
    BY <1>1, <1>2, Invariant, PTL DEF Spec
=============================================================================
