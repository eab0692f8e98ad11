------------------------------- MODULE Readings -------------------------------
(***************************************************************************)
(* What one reading holds: createReading for the first event of a subject  *)
(* (and group), updateReading for every later one, and dataOnPath, which   *)
(* takes the value out of the event's data (internal/domain/readings.go).  *)
(* The store and the concurrency around them are in EventPipeline.         *)
(*                                                                         *)
(* A float64 is an integer here, except for the average, which is kept as  *)
(* an exact fraction: rounding is not modelled.                            *)
(***************************************************************************)
EXTENDS Integers, Sequences, FiniteSets

CONSTANTS
    Numbers,     \* the JSON numbers events carry
    Strings,     \* the JSON strings events carry
    NoValue,     \* a path that leads nowhere, or to a value of another type
    NoReading,
    MaxEvents    \* bound on the events counted

ASSUME NumbersAreIntegers == Numbers \subseteq Int

Numeric == {"sum", "avg", "max", "min"}
Aggregations == Numeric \cup {"count", "unique", "range", "func"}
Values == Numbers \cup Strings \cup {NoValue}

VARIABLES
    agg,        \* the meter's aggregation
    reading,    \* the stored reading, or NoReading
    seen        \* history: the values counted in it, in order

vars == <<agg, reading, seen>>

Fraction == [num : Int, den : Int]

Reading ==
    [count : Int, sum : Int, avg : Fraction, max : Int, min : Int,
     unique : [Strings -> Int]]

ASSUME NoReadingIsNotAReading == NoReading \notin Reading

TypeOK ==
    /\ agg \in Aggregations
    /\ reading \in Reading \cup {NoReading}
    /\ seen \in Seq(Values)

\* The reading's zero value and the count a new one starts with.
Blank ==
    [count |-> 1, sum |-> 0, avg |-> [num |-> 0, den |-> 1], max |-> 0, min |-> 0,
     unique |-> [s \in Strings |-> 0]]

Init ==
    /\ agg \in Aggregations
    /\ reading = NoReading
    /\ seen = <<>>

-----------------------------------------------------------------------------
(* The code                                                                *)

\* Mutant of Accepts: the type of the value is not compared.
AcceptsAnyType(a, v) ==
    \/ a = "count"
    \/ a \in Numeric \cup {"unique"} /\ v # NoValue

\* dataOnPath, as each aggregation calls it: count takes no value at all, a
\* number does not convert to a string nor a string to a number, and for
\* range and func there is no case.
Accepts(a, v) ==
    \/ a = "count"
    \/ a \in Numeric /\ v \in Numbers
    \/ a = "unique" /\ v \in Strings

\* Mutant of createReading: a minimum starts from zero.
createReadingFromZero(a, v) ==
    CASE a \in {"count", "min"} -> Blank
      [] a = "sum" -> [Blank EXCEPT !.sum = v]
      [] a = "avg" -> [Blank EXCEPT !.avg = [num |-> v, den |-> 1]]
      [] a = "max" -> [Blank EXCEPT !.max = v]
      [] a = "unique" -> [Blank EXCEPT !.unique[v] = 1]

createReading(a, v) ==
    CASE a = "count" -> Blank
      [] a = "sum" -> [Blank EXCEPT !.sum = v]
      [] a = "avg" -> [Blank EXCEPT !.avg = [num |-> v, den |-> 1]]
      [] a = "max" -> [Blank EXCEPT !.max = v]
      [] a = "min" -> [Blank EXCEPT !.min = v]
      [] a = "unique" -> [Blank EXCEPT !.unique[v] = 1]

\* Mutant of NewAverage: the new event is missing from the divisor.
NewAverageOffByOne(r, v) ==
    [num |-> r.avg.num * r.count + v * r.avg.den, den |-> r.avg.den * r.count]

\* (avg * count + v) / (count + 1)
NewAverage(r, v) ==
    [num |-> r.avg.num * r.count + v * r.avg.den, den |-> r.avg.den * (r.count + 1)]

\* Every aggregation but unique counts the event.
updateReading(a, r, v) ==
    LET counted == [r EXCEPT !.count = @ + 1] IN
    CASE a = "count" -> counted
      [] a = "sum" -> [counted EXCEPT !.sum = @ + v]
      [] a = "avg" -> [counted EXCEPT !.avg = NewAverage(r, v)]
      [] a = "max" -> [counted EXCEPT !.max = IF @ < v THEN v ELSE @]
      [] a = "min" -> [counted EXCEPT !.min = IF @ > v THEN v ELSE @]
      [] a = "unique" -> [r EXCEPT !.unique[v] = @ + 1]

\* An event that is not accepted leaves the reading as it is, and creates none.
upsertReadings(v) ==
    /\ Len(seen) < MaxEvents
    /\ IF Accepts(agg, v)
       THEN /\ reading' = IF reading = NoReading
                          THEN createReading(agg, v)
                          ELSE updateReading(agg, reading, v)
            /\ seen' = Append(seen, v)
       ELSE UNCHANGED <<reading, seen>>
    /\ UNCHANGED agg

Next == \E v \in Values : upsertReadings(v)

Spec == Init /\ [][Next]_vars

-----------------------------------------------------------------------------
(* What the values add up to, by definition                                *)

Positions(s, v) == {i \in DOMAIN s : s[i] = v}

Total(s) ==
    LET upTo[n \in 0..Len(s)] == IF n = 0 THEN 0 ELSE upTo[n - 1] + s[n]
    IN  upTo[Len(s)]

\* The reading is the aggregate of exactly the values accepted since it was
\* created, in whatever order they came: the first event, which createReading
\* handles, counts like the others, and so do negative values and repeats.
ReadingIsAggregate ==
    IF seen = <<>> THEN reading = NoReading
    ELSE /\ agg # "unique" => reading.count = Len(seen)
         /\ agg = "sum" => reading.sum = Total(seen)
         /\ agg = "avg" => /\ reading.avg.den > 0
                           /\ reading.avg.num * Len(seen) = Total(seen) * reading.avg.den
         /\ agg = "unique" =>
                \A s \in Strings : reading.unique[s] = Cardinality(Positions(seen, s))

\* A max (min) reading is one of the values counted, and none is beyond it.
ExtremeIsAttained ==
    reading # NoReading =>
        /\ agg = "max" => /\ \E i \in DOMAIN seen : seen[i] = reading.max
                          /\ \A i \in DOMAIN seen : seen[i] <= reading.max
        /\ agg = "min" => /\ \E i \in DOMAIN seen : seen[i] = reading.min
                          /\ \A i \in DOMAIN seen : seen[i] >= reading.min
=============================================================================
