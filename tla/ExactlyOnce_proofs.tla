-------------------------- MODULE ExactlyOnce_proofs --------------------------
(***************************************************************************)
(* A message that meets no trouble is counted exactly once on each target  *)
(* it fits, for any number of events, groups, goroutines and faults.       *)
(*                                                                         *)
(* Metering promises that no update is lost, but not that a message comes  *)
(* only once.  So this proof follows one message: it is in one place at a  *)
(* time - not yet stored, ready, in one buffer, in one goroutine's hands,  *)
(* settled, or lost until it is redelivered and hence troubled - and in    *)
(* each place the targets that have yet to count it are known (Once).      *)
(*                                                                         *)
(* The last part is about messages in trouble: several deliveries of one   *)
(* message may be under way, and each of them costs a fault (CInv).        *)
(***************************************************************************)
EXTENDS EventPipeline_proofs, FiniteSetTheorems

Due(m, t) == IF fate[m][t] = "fit" THEN 1 ELSE 0

\* m is counted on every target but those in S, which have yet to count it.
Counted(m, S) == \A t \in Targets : reading[t][m] = IF t \in S THEN 0 ELSE Due(m, t)

\* The targets that a goroutine with state r has yet to serve.
Left(r) == IF r.at \in {"get", "put", "report"} THEN r.todo \cup {r.target} ELSE r.todo

In(s, m) == \E i \in DOMAIN s : s[i] = m
OnceIn(s, m) == \A i, j \in DOMAIN s : s[i] = m /\ s[j] = m => i = j

Once(m) ==
    /\ m \in ready \/ m \notin stored => Counted(m, Targets) /\ m \notin settled /\ ~Held(m)
    /\ m \in settled => Counted(m, {}) /\ ~Held(m)
    /\ \A w \in Workers :
           /\ In(worker[w].buffer, m) => Counted(m, Targets) /\ worker[w].msg # m
           /\ worker[w].msg = m => Counted(m, Left(worker[w]))
           /\ OnceIn(worker[w].buffer, m)
    /\ \A v, w \in Workers : Holds(v, m) /\ Holds(w, m) => v = w

\* What Left rests on, of a goroutine with state r; tr stands for troubled,
\* which only grows.
Shape(r, tr) ==
    /\ r.at \in {"off", "idle"} => r.msg = NoMsg
    /\ r.at = "off" => r.buffer = <<>>
    /\ r.at \in {"get", "put", "report"} => r.target \notin r.todo
    /\ r.at = "put" => fate[r.msg][r.target] = "fit"
    /\ r.at = "report" /\ r.msg \notin tr => fate[r.msg][r.target] # "fit"
    /\ r.at = "ack" => r.todo = {}

Shaped == \A w \in Workers : Shape(worker[w], troubled)

AllOnce == \A m \in Msgs \ troubled : Once(m)

OInv == Shaped /\ AllOnce

-----------------------------------------------------------------------------
(* Sequences                                                               *)

LEMMA TailIn ==
    ASSUME NEW S, NEW s \in Seq(S), s # <<>>, NEW m
    PROVE  /\ In(s, Head(s))
           /\ In(Tail(s), m) => In(s, m)
           /\ OnceIn(s, m) => OnceIn(Tail(s), m)
           /\ OnceIn(s, m) /\ m = Head(s) => ~In(Tail(s), m)
  <1>1. /\ DOMAIN s = 1..Len(s) /\ Len(s) \in Nat \ {0}
        /\ DOMAIN Tail(s) = 1..(Len(s) - 1)
        /\ \A i \in 1..(Len(s) - 1) : Tail(s)[i] = s[i + 1]
        /\ Head(s) = s[1]
    OBVIOUS
  <1>2. \A i \in DOMAIN Tail(s) : i + 1 \in DOMAIN s /\ i + 1 # 1 /\ Tail(s)[i] = s[i + 1]
    BY <1>1
  <1>3. \A i, j \in DOMAIN Tail(s) : i + 1 = j + 1 => i = j
    BY <1>1
  <1>4. 1 \in DOMAIN s
    BY <1>1
  <1>5. OnceIn(s, m) => OnceIn(Tail(s), m)
    BY <1>2, <1>3 DEF OnceIn
  <1>6. OnceIn(s, m) /\ m = Head(s) => ~In(Tail(s), m)
    BY <1>1, <1>2, <1>4 DEF OnceIn, In
  <1> QED
    BY <1>1, <1>2, <1>4, <1>5, <1>6 DEF In

LEMMA AppendIn ==
    ASSUME NEW S, NEW s \in Seq(S), NEW m \in S, NEW n
    PROVE  /\ In(Append(s, m), n) => In(s, n) \/ n = m
           /\ OnceIn(s, n) /\ (n # m \/ ~In(s, n)) => OnceIn(Append(s, m), n)
  <1>1. /\ DOMAIN s = 1..Len(s) /\ Len(s) \in Nat
        /\ DOMAIN Append(s, m) = 1..(Len(s) + 1)
        /\ \A i \in 1..Len(s) : Append(s, m)[i] = s[i]
        /\ Append(s, m)[Len(s) + 1] = m
    OBVIOUS
  <1>2. \A i \in DOMAIN Append(s, m) :
            (i \in DOMAIN s /\ Append(s, m)[i] = s[i])
            \/ (i = Len(s) + 1 /\ Append(s, m)[i] = m)
    BY <1>1
  <1> QED
    BY <1>2 DEF In, OnceIn

-----------------------------------------------------------------------------
(* What a step leaves alone                                                *)

LEMMA ShapeKept ==
    ASSUME NEW r, NEW tr, NEW tr2, tr \subseteq tr2, Shape(r, tr)
    PROVE  Shape(r, tr2)
  BY DEF Shape

\* A step in which no goroutine and no reading changes.
LEMMA StreamKeepsOnce ==
    ASSUME OInv, UNCHANGED <<worker, reading>>, troubled \subseteq troubled',
           NEW m \in Msgs \ troubled',
           m \in settled' <=> m \in settled,
           m \in ready' \/ m \notin stored' => m \in ready \/ m \notin stored
    PROVE  Once(m)'
  <1>1. Once(m)
    BY DEF OInv, AllOnce
  <1> QED
    BY <1>1 DEF Once, Counted, Held, Holds

\* A step in which one goroutine becomes r and m keeps its place or loses it.
LEMMA BystanderOnce ==
    ASSUME OInv, IInv, troubled \subseteq troubled', NEW m \in Msgs \ troubled',
           NEW w \in Workers, NEW r, worker' = [worker EXCEPT ![w] = r],
           stored' = stored, m \in ready' => m \in ready, m \in settled' <=> m \in settled,
           \A t \in Targets : reading'[t][m] = reading[t][m],
           r.msg = m => worker[w].msg = m /\ Left(r) = Left(worker[w]),
           In(r.buffer, m) => In(worker[w].buffer, m),
           OnceIn(worker[w].buffer, m) => OnceIn(r.buffer, m)
    PROVE  Once(m)'
  <1>1. Once(m)
    BY DEF OInv, AllOnce
  <1>2. worker'[w] = r /\ \A v \in Workers \ {w} : worker'[v] = worker[v]
    BY DEF IInv, TypeOK
  <1>3. \A v \in Workers : Holds(v, m)' => Holds(v, m)
    BY <1>2 DEF Holds, In
  <1>4. \A S : Counted(m, S) => Counted(m, S)'
    BY DEF Counted
  <1>5. /\ m \in ready' \/ m \notin stored' =>
               Counted(m, Targets)' /\ m \notin settled' /\ ~Held(m)'
        /\ m \in settled' => Counted(m, {})' /\ ~Held(m)'
    BY <1>1, <1>3, <1>4 DEF Once, Held
  <1>6. ASSUME NEW v \in Workers
        PROVE  (/\ In(worker[v].buffer, m) => Counted(m, Targets) /\ worker[v].msg # m
                /\ worker[v].msg = m => Counted(m, Left(worker[v]))
                /\ OnceIn(worker[v].buffer, m))'
    <2>1. CASE v = w
      <3>1. In(r.buffer, m) => In(worker[w].buffer, m) /\ Counted(m, Targets)' /\ r.msg # m
        BY <1>1, <1>4 DEF Once
      <3>2. r.msg = m => Counted(m, Left(worker[w])) /\ Left(r) = Left(worker[w])
        BY <1>1 DEF Once
      <3>3. ASSUME r.msg = m PROVE \A t \in Targets : reading'[t][m] = IF t \in Left(r) THEN 0 ELSE Due(m, t)
        BY <3>2, <3>3 DEF Counted
      <3>4. OnceIn(r.buffer, m)
        BY <1>1 DEF Once
      <3> QED
        BY <1>2, <2>1, <3>1, <3>3, <3>4 DEF Counted, Left, Due, In, OnceIn
    <2>2. CASE v # w
      <3>1. worker'[v] = worker[v]
        BY <1>2, <2>2
      <3>2. worker[v].msg = m => \A t \in Targets : reading'[t][m] = IF t \in Left(worker[v]) THEN 0 ELSE Due(m, t)
        BY <1>1 DEF Once, Counted
      <3>3. /\ In(worker[v].buffer, m) => Counted(m, Targets)' /\ worker[v].msg # m
            /\ OnceIn(worker[v].buffer, m)
        BY <1>1, <1>4 DEF Once
      <3> QED
        BY <3>1, <3>2, <3>3 DEF Counted, Left, In, OnceIn
    <2> QED
      BY <2>1, <2>2
  <1>7. \A u, v \in Workers : Holds(u, m)' /\ Holds(v, m)' => u = v
    BY <1>1, <1>3 DEF Once
  <1> QED
    BY <1>5, <1>6, <1>7 DEF Once

LEMMA ShapedMoves ==
    ASSUME OInv, IInv, troubled \subseteq troubled',
           NEW w \in Workers, NEW r, worker' = [worker EXCEPT ![w] = r],
           Shape(r, troubled')
    PROVE  Shaped'
  <1>1. worker'[w] = r /\ \A v \in Workers \ {w} : worker'[v] = worker[v]
    BY DEF IInv, TypeOK
  <1>2. ASSUME NEW v \in Workers PROVE Shape(worker'[v], troubled')
    BY <1>1, ShapeKept DEF OInv, Shaped
  <1> QED
    BY <1>2 DEF Shaped

-----------------------------------------------------------------------------
(* The stream and the handler                                              *)

LEMMA StreamOnce ==
    ASSUME OInv, NEW m \in Msgs,
           RegisterEvent(m) \/ AckWaitExpires(m) \/ Redeliver(m)
    PROVE  OInv'
  <1>1. UNCHANGED <<worker, reading, settled>> /\ troubled \subseteq troubled'
    BY DEF RegisterEvent, AckWaitExpires, Redeliver
  <1>2. Shaped'
    BY <1>1, ShapeKept DEF OInv, Shaped
  <1>3. ASSUME NEW n \in Msgs \ troubled' PROVE Once(n)'
    <2>1. n \in ready' \/ n \notin stored' => n \in ready \/ n \notin stored
      BY <1>3 DEF RegisterEvent, AckWaitExpires, Redeliver
    <2> QED
      BY <1>1, <2>1, StreamKeepsOnce
  <1> QED
    BY <1>2, <1>3 DEF OInv, AllOnce

LEMMA ForgetOnce ==
    ASSUME OInv, NEW id \in Ids, Forget(id)
    PROVE  OInv'
  <1>1. UNCHANGED <<worker, reading, settled, ready, stored, troubled>>
    BY DEF Forget
  <1>2. Shaped'
    BY <1>1 DEF OInv, Shaped
  <1>3. ASSUME NEW n \in Msgs \ troubled' PROVE Once(n)'
    BY <1>1, StreamKeepsOnce
  <1> QED
    BY <1>2, <1>3 DEF OInv, AllOnce

\* The message leaves ready and has one place, in w's buffer.
LEMMA DeliverOnce ==
    ASSUME OInv, IInv, NEW w \in Workers, NEW m \in Msgs, Deliver(w, m)
    PROVE  OInv'
  <1> DEFINE r == [worker[w] EXCEPT !.buffer = Append(@, m)]
  <1>1. /\ UNCHANGED <<stored, settled, reading, troubled>>
        /\ ready' = ready \ {m} /\ m \in ready /\ worker[w].at # "off"
        /\ worker' = [worker EXCEPT ![w] = r]
    BY DEF Deliver
  <1>2. worker[w] \in WorkerState /\ worker[w].buffer \in Seq(Msgs)
    BY DEF IInv, TypeOK, WorkerState
  <1>3. /\ r.at = worker[w].at /\ r.msg = worker[w].msg /\ r.target = worker[w].target
        /\ r.todo = worker[w].todo /\ r.buffer = Append(worker[w].buffer, m)
    BY <1>2 DEF WorkerState
  <1>4. \A n : /\ In(r.buffer, n) => In(worker[w].buffer, n) \/ n = m
               /\ OnceIn(worker[w].buffer, n) /\ (n # m \/ ~In(worker[w].buffer, n))
                  => OnceIn(r.buffer, n)
    BY <1>2, <1>3, AppendIn
  <1> HIDE DEF r
  <1>5. Shaped'
    BY <1>1, <1>3, ShapedMoves DEF OInv, Shaped, Shape
  <1>6. ASSUME NEW n \in Msgs \ troubled' PROVE Once(n)'
    <2>1. CASE n # m
      BY <1>1, <1>3, <1>4, <2>1, BystanderOnce DEF Left
    <2>2. CASE n = m
      <3>1. Once(m)
        BY <1>1, <1>6, <2>2 DEF OInv, AllOnce
      <3>2. /\ Counted(m, Targets)' /\ m \notin settled' /\ m \notin ready' /\ m \in stored'
            /\ \A v \in Workers : ~Holds(v, m)
        BY <1>1, <3>1 DEF Once, Counted, Held, IInv, TypeOK
      <3>3. worker'[w] = r /\ \A v \in Workers \ {w} : worker'[v] = worker[v]
        BY <1>1 DEF IInv, TypeOK
      <3>4. \A v \in Workers : worker[v].msg # m /\ ~In(worker[v].buffer, m)
        BY <3>2 DEF Holds, In
      <3>5. /\ \A v \in Workers : worker'[v].msg # m
            /\ \A v \in Workers \ {w} : ~Holds(v, m)'
        BY <1>3, <3>2, <3>3, <3>4 DEF Holds
      <3>6. \A v \in Workers : OnceIn(worker[v].buffer, m)
        BY <3>1 DEF Once
      <3>7. \A v \in Workers : OnceIn(worker'[v].buffer, m)
        BY <1>4, <3>3, <3>4, <3>6
      <3> QED
        BY <2>2, <3>2, <3>5, <3>7 DEF Once
    <2> QED
      BY <2>1, <2>2
  <1> QED
    BY <1>5, <1>6 DEF OInv, AllOnce

-----------------------------------------------------------------------------
(* Goroutines come and go                                                  *)

LEMMA StartWorkerOnce ==
    ASSUME OInv, IInv, NEW w \in Workers, StartWorker(w)
    PROVE  OInv'
  <1> DEFINE r == [worker[w] EXCEPT !.at = "idle"]
  <1>1. /\ UNCHANGED <<stored, ready, settled, reading, troubled>>
        /\ worker' = [worker EXCEPT ![w] = r]
    BY DEF StartWorker
  <1>2. /\ worker[w] \in WorkerState /\ worker[w].at = "off" /\ worker[w].msg = NoMsg
    <2>1. Off.at = "off" /\ Off.msg = NoMsg
      BY DEF Off
    <2> QED
      BY <2>1 DEF StartWorker, IInv, TypeOK
  <1>3. /\ r.at = "idle" /\ r.msg = NoMsg /\ r.buffer = worker[w].buffer
    BY <1>2 DEF WorkerState
  <1> HIDE DEF r
  <1>4. Shaped'
    BY <1>1, <1>3, ShapedMoves DEF Shape
  <1>5. ASSUME NEW n \in Msgs \ troubled' PROVE Once(n)'
    BY <1>1, <1>3, BystanderOnce, NothingIsNotAMessage
  <1> QED
    BY <1>4, <1>5 DEF OInv, AllOnce

LEMMA CancelOnce ==
    ASSUME OInv, IInv, NEW w \in Workers, Cancel(w)
    PROVE  OInv'
  <1> DEFINE r == [worker[w] EXCEPT !.cancelled = TRUE]
  <1>1. /\ UNCHANGED <<stored, ready, settled, reading, troubled>>
        /\ worker' = [worker EXCEPT ![w] = r]
    BY DEF Cancel
  <1>2. worker[w] \in WorkerState
    BY DEF IInv, TypeOK
  <1>3. /\ r.at = worker[w].at /\ r.msg = worker[w].msg /\ r.target = worker[w].target
        /\ r.todo = worker[w].todo /\ r.buffer = worker[w].buffer
    BY <1>2 DEF WorkerState
  <1> HIDE DEF r
  <1>4. Shaped'
    BY <1>1, <1>3, ShapedMoves DEF OInv, Shaped, Shape
  <1>5. ASSUME NEW n \in Msgs \ troubled' PROVE Once(n)'
    BY <1>1, <1>3, BystanderOnce DEF Left
  <1> QED
    BY <1>4, <1>5 DEF OInv, AllOnce

\* What the goroutines held is in no place any more.
LEMMA AllOffOnce ==
    ASSUME OInv, worker' = [v \in Workers |-> Off],
           UNCHANGED <<stored, ready, settled, reading, troubled>>
    PROVE  OInv'
  <1>1. Off.msg = NoMsg /\ Off.buffer = <<>> /\ Off.at = "off"
    BY DEF Off
  <1>2. \A w \in Workers : worker'[w] = Off
    OBVIOUS
  <1>3. Shaped'
    BY <1>1, <1>2 DEF Shaped, Shape
  <1>4. ASSUME NEW m \in Msgs \ troubled' PROVE Once(m)'
    <2>1. Once(m)
      BY DEF OInv, AllOnce
    <2>2. \A w \in Workers :
              /\ worker'[w].msg # m /\ ~In(worker'[w].buffer, m) /\ OnceIn(worker'[w].buffer, m)
              /\ ~Holds(w, m)'
      BY <1>1, <1>2, NothingIsNotAMessage DEF In, OnceIn, Holds
    <2> QED
      BY <2>1, <2>2 DEF Once, Counted, Held
  <1> QED
    BY <1>3, <1>4 DEF OInv, AllOnce

LEMMA CrashOnce ==
    ASSUME OInv, Crash \/ \E w \in Workers : GetPanics(w)
    PROVE  OInv'
  BY AllOffOnce DEF Crash, GetPanics

-----------------------------------------------------------------------------
(* Consuming one message                                                   *)

\* Two ways to hold a message: in hand and in the buffer.
LEMMA HoldsIn == \A w, m : Holds(w, m) <=> worker[w].msg = m \/ In(worker[w].buffer, m)
  BY DEF Holds, In

\* The goroutine takes the message from its buffer, or goes on with it.
LEMMA HandOnce ==
    ASSUME IInv, NEW m \in Msgs, Once(m), UNCHANGED <<stored, ready, settled>>,
           NEW w \in Workers, Holds(w, m),
           NEW r, worker' = [worker EXCEPT ![w] = r], r.msg = m, ~In(r.buffer, m),
           \A t \in Targets : reading'[t][m] = IF t \in Left(r) THEN 0 ELSE Due(m, t)
    PROVE  Once(m)'
  <1>1. worker'[w] = r /\ \A v \in Workers \ {w} : worker'[v] = worker[v]
    BY DEF IInv, TypeOK
  <1>2. m \in stored' /\ m \notin ready' /\ m \notin settled'
    BY DEF Once, Held
  <1>3. \A v \in Workers : Holds(v, m) => v = w
    BY DEF Once
  <1>4. \A v \in Workers : Holds(v, m)' => v = w
    BY <1>1, <1>3 DEF Holds
  <1>5. \A v \in Workers : ~In(worker'[v].buffer, m) /\ OnceIn(worker'[v].buffer, m)
    <2>1. \A v \in Workers : ~In(worker'[v].buffer, m)
      BY <1>1, <1>3, HoldsIn
    <2> QED
      BY <2>1 DEF In, OnceIn
  <1>6. \A v \in Workers : (worker[v].msg = m => Counted(m, Left(worker[v])))'
    <2> SUFFICES ASSUME NEW v \in Workers, worker'[v].msg = m
                 PROVE  Counted(m, Left(worker[v]))'
      OBVIOUS
    <2>1. v = w
      BY <1>4 DEF Holds
    <2> QED
      BY <1>1, <2>1 DEF Counted, Left, Due
  <1> QED
    BY <1>2, <1>4, <1>5, <1>6 DEF Once

\* The head of the buffer gets into hand; nobody else holds it.
LEMMA BeginOnce ==
    ASSUME OInv, IInv, NEW w \in Workers, Begin(w)
    PROVE  OInv'
  <1> DEFINE h == Head(worker[w].buffer)
             rest == Tail(worker[w].buffer)
             busy == [worker[w] EXCEPT !.at = "get", !.msg = h, !.target = Main,
                                       !.todo = Groups, !.buffer = rest]
             naked == [worker[w] EXCEPT !.buffer = rest]
  <1>1. /\ UNCHANGED <<stored, ready, settled, reading>> /\ troubled \subseteq troubled'
        /\ worker[w].at = "idle"
        /\ \/ worker' = [worker EXCEPT ![w] = busy]
           \/ worker' = [worker EXCEPT ![w] = naked] /\ troubled' = troubled \cup {h}
    BY DEF Begin
  <1>2. worker[w] \in WorkerState /\ worker[w].buffer \in Seq(Msgs)
    BY DEF IInv, TypeOK, WorkerState
  <1>3. /\ worker[w].msg = NoMsg
        /\ h \in Msgs /\ In(worker[w].buffer, h)
        /\ \A n : /\ In(rest, n) => In(worker[w].buffer, n)
                  /\ OnceIn(worker[w].buffer, n) => OnceIn(rest, n)
                  /\ OnceIn(worker[w].buffer, n) /\ n = h => ~In(rest, n)
    BY <1>1, <1>2, TailIn DEF Begin, OInv, Shaped, Shape
  <1> HIDE DEF h, rest
  <1>4. /\ busy.at = "get" /\ busy.msg = h /\ busy.target = Main /\ busy.todo = Groups
        /\ busy.buffer = rest
        /\ naked.at = "idle" /\ naked.msg = NoMsg /\ naked.buffer = rest
    BY <1>1, <1>2, <1>3 DEF WorkerState
  <1> HIDE DEF busy, naked
  <1>5. CASE worker' = [worker EXCEPT ![w] = naked] /\ troubled' = troubled \cup {h}
    <2>1. Shaped'
      BY <1>1, <1>4, <1>5, ShapedMoves DEF Shape
    <2>2. ASSUME NEW n \in Msgs \ troubled' PROVE Once(n)'
      BY <1>1, <1>3, <1>4, <1>5, BystanderOnce, NothingIsNotAMessage
    <2> QED
      BY <2>1, <2>2 DEF OInv, AllOnce
  <1>6. CASE worker' = [worker EXCEPT ![w] = busy]
    <2>1. Shaped'
      BY <1>1, <1>4, <1>6, MainIsNotAGroup, ShapedMoves DEF Shape
    <2>2. ASSUME NEW n \in Msgs \ troubled' PROVE Once(n)'
      <3>1. CASE n # h
        BY <1>1, <1>3, <1>4, <1>6, <3>1, BystanderOnce
      <3>2. CASE n = h
        <4>1. Once(n) /\ In(worker[w].buffer, n)
          BY <1>1, <1>3, <2>2, <3>2 DEF OInv, AllOnce
        <4>2. Counted(n, Targets) /\ ~In(busy.buffer, n) /\ Left(busy) = Targets /\ Holds(w, n)
          BY <1>3, <1>4, <3>2, <4>1, HoldsIn DEF Once, Left, Targets
        <4> QED
          BY <1>1, <1>4, <1>6, <3>2, <4>1, <4>2, HandOnce DEF Counted
      <3> QED
        BY <3>1, <3>2
    <2> QED
      BY <2>1, <2>2 DEF OInv, AllOnce
  <1> QED
    BY <1>1, <1>5, <1>6

\* A goroutine that fails troubles its message; the others do not notice.
LEMMA TroubleOnce ==
    ASSUME OInv, IInv, NEW w \in Workers, worker[w].at \in {"get", "put", "report"},
           UNCHANGED <<stored, ready, settled>>, Trouble(w),
           NEW r \in {[worker[w] EXCEPT !.at = "report"], [worker[w] EXCEPT !.at = "next"]},
           worker' = [worker EXCEPT ![w] = r],
           \A t \in Targets, n \in Msgs \ {msg(w)} : reading'[t][n] = reading[t][n]
    PROVE  OInv'
  <1>1. worker[w] \in WorkerState
    BY AtWork
  <1>2. /\ r.at \in {"report", "next"} /\ r.msg = msg(w) /\ r.buffer = worker[w].buffer
        /\ r.target = worker[w].target /\ r.todo = worker[w].todo
    BY <1>1 DEF WorkerState, msg
  <1>3. troubled \subseteq troubled' /\ msg(w) \in troubled'
    BY DEF Trouble
  <1>4. Shaped'
    BY <1>2, <1>3, ShapedMoves DEF OInv, Shaped, Shape
  <1>5. ASSUME NEW n \in Msgs \ troubled' PROVE Once(n)'
    BY <1>2, <1>3, BystanderOnce
  <1> QED
    BY <1>4, <1>5 DEF OInv, AllOnce

\* What a goroutine that works on a message knows about it.
LEMMA InHand ==
    ASSUME OInv, IInv, NEW w \in Workers,
           worker[w].at \in {"get", "put", "report", "next", "ack"}
    PROVE  /\ worker[w] \in WorkerState /\ Shape(worker[w], troubled)
           /\ msg(w) \in Msgs /\ msg(w) # NoMsg /\ target(w) \in Targets /\ Holds(w, msg(w))
           /\ msg(w) \notin troubled =>
                  /\ Once(msg(w)) /\ ~In(worker[w].buffer, msg(w))
                  /\ Counted(msg(w), Left(worker[w]))
  <1>1. /\ worker[w] \in WorkerState /\ Shape(worker[w], troubled)
        /\ msg(w) \in Msgs /\ msg(w) # NoMsg /\ target(w) \in Targets
    BY AtWork, NothingIsNotAMessage DEF OInv, Shaped
  <1>2. Holds(w, msg(w))
    BY HoldsIn DEF msg
  <1>3. msg(w) \notin troubled => Once(msg(w))
    BY <1>1 DEF OInv, AllOnce
  <1> QED
    BY <1>1, <1>2, <1>3 DEF Once, msg

LEMMA GetOnce ==
    ASSUME OInv, IInv, NEW w \in Workers, Get(w)
    PROVE  OInv'
  <1> DEFINE r == IF fate[msg(w)][target(w)] = "fit"
                  THEN [worker[w] EXCEPT !.at = "put", !.copy = reading[target(w)]]
                  ELSE [worker[w] EXCEPT !.at = "report"]
  <1>1. /\ UNCHANGED <<stored, ready, settled, reading, troubled>>
        /\ worker[w].at = "get" /\ worker' = [worker EXCEPT ![w] = r]
    BY DEF Get
  <1>2. /\ r.at = IF fate[msg(w)][target(w)] = "fit" THEN "put" ELSE "report"
        /\ r.msg = msg(w) /\ r.target = target(w)
        /\ r.todo = worker[w].todo /\ r.buffer = worker[w].buffer
    BY <1>1, InHand DEF WorkerState, msg, target
  <1> HIDE DEF r
  <1>3. Shaped'
    BY <1>1, <1>2, InHand, ShapedMoves DEF Shape, msg, target
  <1>4. Left(r) = Left(worker[w])
    BY <1>1, <1>2 DEF Left, target
  <1>5. ASSUME NEW n \in Msgs \ troubled' PROVE Once(n)'
    BY <1>1, <1>2, <1>4, BystanderOnce DEF msg
  <1> QED
    BY <1>3, <1>5 DEF OInv, AllOnce

LEMMA GetFailsOnce ==
    ASSUME OInv, IInv, NEW w \in Workers, GetFails(w)
    PROVE  OInv'
  BY TroubleOnce DEF GetFails

\* The target at hand counts the message, which is no longer left to it.
LEMMA PutOnce ==
    ASSUME OInv, IInv, NEW w \in Workers, Put(w)
    PROVE  OInv'
  <1> DEFINE r == [worker[w] EXCEPT !.at = "next"]
  <1>1. /\ UNCHANGED <<stored, ready, settled, troubled>> /\ Write(w) /\ Live(w)
        /\ worker[w].at = "put" /\ worker' = [worker EXCEPT ![w] = r]
    BY DEF Put, Live
  <1>2. /\ r.at = "next" /\ r.msg = msg(w) /\ r.target = target(w)
        /\ r.todo = worker[w].todo /\ r.buffer = worker[w].buffer
    BY <1>1, InHand DEF WorkerState, msg, target
  <1> HIDE DEF r
  <1>3. \A t \in Targets, n \in Msgs :
            reading'[t][n] = IF t = target(w) /\ n = msg(w) THEN reading[t][n] + 1
                                                            ELSE reading[t][n]
    BY <1>1, InHand, WriteEffect DEF IInv, TypeOK
  <1>4. Shaped'
    BY <1>1, <1>2, ShapedMoves DEF Shape
  <1>5. ASSUME NEW n \in Msgs \ troubled' PROVE Once(n)'
    <2>1. CASE n # msg(w)
      BY <1>1, <1>2, <1>3, <2>1, BystanderOnce DEF msg
    <2>2. CASE n = msg(w)
      <3>1. /\ Once(n) /\ ~In(r.buffer, n) /\ Holds(w, n)
            /\ Counted(n, worker[w].todo \cup {target(w)})
            /\ target(w) \notin r.todo /\ target(w) \in Targets
            /\ fate[n][target(w)] = "fit"
        BY <1>1, <1>2, <2>2, InHand DEF Left, Shape, msg, target
      <3>2. \A t \in Targets : reading'[t][n] = IF t \in r.todo THEN 0 ELSE Due(n, t)
        BY <1>2, <1>3, <2>2, <3>1 DEF Counted, Due
      <3>3. \A t \in Targets : reading'[t][n] = IF t \in Left(r) THEN 0 ELSE Due(n, t)
        BY <1>2, <3>2 DEF Left
      <3>4. r.msg = n /\ n \in Msgs
        BY <1>2, <2>2
      <3> QED
        BY <1>1, <3>1, <3>3, <3>4, HandOnce
    <2> QED
      BY <2>1, <2>2
  <1> QED
    BY <1>4, <1>5 DEF OInv, AllOnce

LEMMA PutFailsOnce ==
    ASSUME OInv, IInv, NEW w \in Workers, PutFails(w)
    PROVE  OInv'
  <1>1. worker[w].at = "put" /\ (reading' = reading \/ (Live(w) /\ Write(w)))
    BY DEF PutFails, Live
  <1>2. \A t \in Targets, n \in Msgs \ {msg(w)} : reading'[t][n] = reading[t][n]
    BY <1>1, InHand, WriteEffect DEF IInv, TypeOK
  <1> QED
    BY <1>1, <1>2, TroubleOnce DEF PutFails

\* A value that does not fit is due on no target.
LEMMA ReportOnce ==
    ASSUME OInv, IInv, NEW w \in Workers, Report(w)
    PROVE  OInv'
  <1> DEFINE r == [worker[w] EXCEPT !.at = "next"]
  <1>1. /\ UNCHANGED <<stored, ready, settled, reading>>
        /\ worker[w].at = "report" /\ worker' = [worker EXCEPT ![w] = r]
    BY DEF Report
  <1>2. CASE Trouble(w)
    BY <1>1, <1>2, TroubleOnce
  <1>3. CASE UNCHANGED troubled
    <2>1. /\ r.at = "next" /\ r.msg = msg(w) /\ r.target = target(w)
          /\ r.todo = worker[w].todo /\ r.buffer = worker[w].buffer
      BY <1>1, InHand DEF WorkerState, msg, target
    <2> HIDE DEF r
    <2>2. Shaped'
      BY <1>1, <1>3, <2>1, ShapedMoves DEF Shape
    <2>3. ASSUME NEW n \in Msgs \ troubled' PROVE Once(n)'
      <3>1. CASE n # msg(w)
        BY <1>1, <1>3, <2>1, <3>1, BystanderOnce DEF msg
      <3>2. CASE n = msg(w)
        <4>1. /\ Once(n) /\ ~In(r.buffer, n) /\ Holds(w, n)
              /\ Counted(n, worker[w].todo \cup {target(w)})
              /\ fate[n][target(w)] # "fit"
          BY <1>1, <1>3, <2>1, <2>3, <3>2, InHand DEF Left, Shape, msg, target
        <4>2. \A t \in Targets : reading'[t][n] = IF t \in r.todo THEN 0 ELSE Due(n, t)
          BY <1>1, <2>1, <4>1 DEF Counted, Due
        <4>3. \A t \in Targets : reading'[t][n] = IF t \in Left(r) THEN 0 ELSE Due(n, t)
          BY <2>1, <4>2 DEF Left
        <4>4. r.msg = n /\ n \in Msgs
          BY <2>1, <3>2
        <4> QED
          BY <1>1, <4>1, <4>3, <4>4, HandOnce
      <3> QED
        BY <3>1, <3>2
    <2> QED
      BY <2>2, <2>3 DEF OInv, AllOnce
  <1> QED
    BY <1>2, <1>3 DEF Report

LEMMA NextTargetOnce ==
    ASSUME OInv, IInv, NEW w \in Workers, NextTarget(w)
    PROVE  OInv'
  <1>1. /\ UNCHANGED <<stored, ready, settled, reading, troubled>> /\ worker[w].at = "next"
    BY DEF NextTarget
  <1>2. ASSUME NEW r, worker' = [worker EXCEPT ![w] = r],
               r.msg = worker[w].msg, r.buffer = worker[w].buffer,
               Left(r) = Left(worker[w]), Shape(r, troubled)
        PROVE  OInv'
    <2>1. Shaped'
      BY <1>1, <1>2, ShapedMoves
    <2>2. ASSUME NEW n \in Msgs \ troubled' PROVE Once(n)'
      BY <1>1, <1>2, BystanderOnce
    <2> QED
      BY <2>1, <2>2 DEF OInv, AllOnce
  <1>3. ASSUME NEW g \in worker[w].todo,
               worker' = [worker EXCEPT ![w] =
                   [@ EXCEPT !.at = "get", !.target = g, !.todo = worker[w].todo \ {g}]]
        PROVE  OInv'
    <2> DEFINE r == [worker[w] EXCEPT !.at = "get", !.target = g, !.todo = worker[w].todo \ {g}]
    <2>1. /\ worker' = [worker EXCEPT ![w] = r]
          /\ r.at = "get" /\ r.msg = worker[w].msg /\ r.target = g
          /\ r.todo = worker[w].todo \ {g} /\ r.buffer = worker[w].buffer
      BY <1>1, <1>3, InHand DEF WorkerState
    <2> HIDE DEF r
    <2>2. Left(r) = Left(worker[w]) /\ Shape(r, troubled)
      BY <1>1, <2>1 DEF Left, Shape
    <2> QED
      BY <1>2, <2>1, <2>2
  <1>4. ASSUME worker[w].todo = {}, worker' = [worker EXCEPT ![w].at = "ack"]
        PROVE  OInv'
    <2> DEFINE r == [worker[w] EXCEPT !.at = "ack"]
    <2>1. /\ worker' = [worker EXCEPT ![w] = r]
          /\ r.at = "ack" /\ r.msg = worker[w].msg
          /\ r.todo = worker[w].todo /\ r.buffer = worker[w].buffer
      BY <1>1, <1>4, InHand DEF WorkerState
    <2> HIDE DEF r
    <2>2. Left(r) = Left(worker[w]) /\ Shape(r, troubled)
      BY <1>1, <1>4, <2>1 DEF Left, Shape
    <2> QED
      BY <1>2, <2>1, <2>2
  <1> QED
    BY <1>3, <1>4 DEF NextTarget

\* A message that is settled has left its last place.
LEMMA AckOnce ==
    ASSUME OInv, IInv, NEW w \in Workers, Ack(w)
    PROVE  OInv'
  <1> DEFINE r == [worker[w] EXCEPT !.at = "idle", !.msg = NoMsg, !.target = NoTarget]
  <1>1. /\ UNCHANGED <<stored, reading, troubled>>
        /\ worker[w].at = "ack" /\ worker' = [worker EXCEPT ![w] = r]
        /\ \/ settled' = settled \cup {msg(w)} /\ ready' = ready \ {msg(w)}
           \/ UNCHANGED <<settled, ready>>
    BY DEF Ack
  <1>2. /\ r.at = "idle" /\ r.msg = NoMsg /\ r.buffer = worker[w].buffer
    BY <1>1, InHand DEF WorkerState
  <1> HIDE DEF r
  <1>3. Shaped'
    BY <1>1, <1>2, ShapedMoves DEF Shape
  <1>4. ASSUME NEW n \in Msgs \ troubled' PROVE Once(n)'
    <2>1. CASE n # msg(w) \/ UNCHANGED settled
      <3>1. n \in settled' <=> n \in settled
        BY <1>1, <2>1
      <3> QED
        BY <1>1, <1>2, <1>4, <3>1, BystanderOnce, NothingIsNotAMessage
    <2>2. CASE n = msg(w) /\ settled' = settled \cup {msg(w)} /\ ready' = ready \ {msg(w)}
      <3>1. /\ Once(n) /\ ~In(worker[w].buffer, n) /\ Holds(w, n)
            /\ Counted(n, {}) /\ n # NoMsg /\ n \in Msgs
        BY <1>1, <1>4, <2>2, InHand DEF Left, Shape
      <3>2. n \in stored' /\ n \notin ready' /\ \A v \in Workers : Holds(v, n) => v = w
        BY <1>1, <2>2, <3>1 DEF Once, Held
      <3>3. worker'[w] = r /\ \A v \in Workers \ {w} : worker'[v] = worker[v]
        BY <1>1 DEF IInv, TypeOK
      <3>4. \A v \in Workers : worker'[v].msg # n /\ ~In(worker'[v].buffer, n)
        BY <1>2, <3>1, <3>2, <3>3, HoldsIn
      <3>5. \A v \in Workers : ~Holds(v, n)'
        BY <3>4, HoldsIn DEF Holds, In
      <3>6. \A v \in Workers : OnceIn(worker'[v].buffer, n)
        BY <3>4 DEF In, OnceIn
      <3>7. Counted(n, {})'
        BY <1>1, <3>1 DEF Counted
      <3> QED
        BY <3>2, <3>4, <3>5, <3>6, <3>7 DEF Once, Held
    <2> QED
      BY <1>1, <2>1, <2>2
  <1> QED
    BY <1>3, <1>4 DEF OInv, AllOnce

-----------------------------------------------------------------------------
(* The theorem                                                             *)

LEMMA InitOnce == Init => OInv
  <1> SUFFICES ASSUME Init PROVE OInv
    OBVIOUS
  <1>1. Off.at = "off" /\ Off.msg = NoMsg /\ Off.buffer = <<>>
    BY DEF Off
  <1>2. Shaped
    BY <1>1 DEF Init, Shaped, Shape
  <1>3. ASSUME NEW m \in Msgs PROVE Once(m)
    BY <1>1, NothingIsNotAMessage DEF Init, Once, Counted, Held, Holds, In, OnceIn
  <1> QED
    BY <1>2, <1>3 DEF OInv, AllOnce

LEMMA NextOnce == OInv /\ IInv /\ [Next]_vars => OInv'
  <1> SUFFICES ASSUME OInv, IInv, [Next]_vars PROVE OInv'
    OBVIOUS
  <1>1. ASSUME NEW w \in Workers, Step(w) PROVE OInv'
    BY <1>1, BeginOnce, GetOnce, GetFailsOnce, CrashOnce, PutOnce, PutFailsOnce,
       ReportOnce, NextTargetOnce, AckOnce DEF Step
  <1>2. CASE UNCHANGED vars
    <2>1. UNCHANGED <<worker, reading, settled, ready, stored, troubled>>
      BY <1>2 DEF vars
    <2>2. Shaped'
      BY <2>1 DEF OInv, Shaped
    <2>3. ASSUME NEW n \in Msgs \ troubled' PROVE Once(n)'
      BY <2>1, StreamKeepsOnce
    <2> QED
      BY <2>2, <2>3 DEF OInv, AllOnce
  <1> QED
    BY <1>1, <1>2, StreamOnce, ForgetOnce, DeliverOnce, StartWorkerOnce, CancelOnce,
       CrashOnce DEF Next

\* A message that met no fault, no second delivery and no cancelled call is
\* counted exactly once on every target its data fits and on no other, when it
\* is acknowledged.
THEOREM CountedOnce == Spec => []ExactlyOnce
  <1>1. Init => OInv
    BY InitOnce
  <1>2. OInv /\ IInv /\ [Next]_vars => OInv'
    BY NextOnce
  <1>3. OInv /\ IInv => ExactlyOnce
    <2> SUFFICES ASSUME OInv, IInv, NEW m \in settled \ troubled, NEW t \in Targets
                 PROVE  reading[t][m] = IF fate[m][t] = "fit" THEN 1 ELSE 0
      BY DEF ExactlyOnce
    <2>1. Once(m)
      BY DEF OInv, AllOnce, IInv, TypeOK
    <2> QED
      BY <2>1 DEF Once, Counted, Due
  <1> QED
    BY <1>1, <1>2, <1>3, Invariant, PTL DEF Spec

-----------------------------------------------------------------------------
(* Counted again only after faults                                         *)

\* The targets that a goroutine with state r may yet count its message on.
Uncounted(r) == IF r.at \in {"get", "put"} THEN r.todo \cup {r.target} ELSE r.todo

\* A goroutine with state r may count m on t: because m is in its hands (place 0)
\* or in its buffer at i.
May(r, i, m, t) ==
    \/ i = 0 /\ r.msg = m /\ t \in Uncounted(r)
    \/ i \in DOMAIN r.buffer /\ r.buffer[i] = m

\* The places from which m may still come to be counted on t.
Places(m, t) == {p \in Workers \X Nat : May(worker[p[1]], p[2], m, t)}

\* m waits to be delivered, or will wait again because nobody holds it.
Loose(m) == IF m \in ready \/ (m \in stored \ settled /\ ~Held(m)) THEN 1 ELSE 0

Bounded(m, t) ==
    /\ IsFiniteSet(Places(m, t))
    /\ reading[t][m] + Cardinality(Places(m, t)) + Loose(m) <= faults + 1

\* What has been counted and what may yet be are paid for by faults.
CInv ==
    \A m \in Msgs, t \in Targets :
        Bounded(m, t) /\ (m \notin stored => reading[t][m] = 0)

NoNull == \A m \in Msgs, t \in Targets : fate[m][t] # "null"

LEMMA Numbers ==
    ASSUME IInv
    PROVE  /\ faults \in Nat /\ \A m : Loose(m) \in {0, 1}
           /\ \A m \in Msgs, t \in Targets : reading[t][m] \in Nat
  BY BoundsAreNumbers DEF IInv, TypeOK, Loose

\* A step that counts nothing, and after which there are no more places than
\* before.  If it adds a loose message, a fault pays for it.
LEMMA NoMorePlaces ==
    ASSUME IInv, IInv', CInv, reading' = reading, stored \subseteq stored',
           NEW m \in Msgs, NEW t \in Targets,
           IsFiniteSet(Places(m, t)'),
           Cardinality(Places(m, t)') <= Cardinality(Places(m, t)),
           \/ faults' = faults /\ Loose(m)' <= Loose(m)
           \/ faults' = faults + 1
    PROVE  Bounded(m, t)' /\ (m \notin stored => reading[t][m] = 0)'
  <1>1. /\ faults \in Nat /\ Loose(m) \in {0, 1} /\ Loose(m)' \in {0, 1}
        /\ reading[t][m] \in Nat /\ reading'[t][m] = reading[t][m]
    BY Numbers DEF Loose
  <1>2. IsFiniteSet(Places(m, t)) /\ reading[t][m] + Cardinality(Places(m, t)) + Loose(m) <= faults + 1
    BY DEF CInv, Bounded
  <1>3. Cardinality(Places(m, t)) \in Nat /\ Cardinality(Places(m, t)') \in Nat
    BY <1>2, FS_CardinalityType
  <1>4. reading'[t][m] + Cardinality(Places(m, t)') + Loose(m)' <= faults' + 1
    BY <1>1, <1>2, <1>3
  <1>5. m \notin stored' => reading'[t][m] = 0
    BY DEF CInv
  <1> QED
    BY <1>4, <1>5 DEF Bounded

\* The usual case: places only disappear.
LEMMA FewerPlaces ==
    ASSUME IInv, IInv', CInv, reading' = reading, stored \subseteq stored',
           \A m \in Msgs, t \in Targets : Places(m, t)' \subseteq Places(m, t),
           \A m \in Msgs : \/ faults' = faults /\ Loose(m)' <= Loose(m)
                           \/ faults' = faults + 1
    PROVE  CInv'
  <1>1. ASSUME NEW m \in Msgs, NEW t \in Targets
        PROVE  Bounded(m, t)' /\ (m \notin stored => reading[t][m] = 0)'
    <2>1. IsFiniteSet(Places(m, t))
      BY DEF CInv, Bounded
    <2>2. IsFiniteSet(Places(m, t)') /\ Cardinality(Places(m, t)') <= Cardinality(Places(m, t))
      BY <2>1, FS_Subset
    <2> QED
      BY <2>2, NoMorePlaces
  <1> QED
    BY <1>1 DEF CInv

\* One goroutine moves and every place it has, it had before.
LEMMA PlacesOfMover ==
    ASSUME IInv, NEW w \in Workers, NEW r, worker' = [worker EXCEPT ![w] = r],
           NEW m, NEW t,
           \A i \in Nat : May(r, i, m, t) => May(worker[w], i, m, t)
    PROVE  Places(m, t)' \subseteq Places(m, t)
  <1>1. worker'[w] = r /\ \A v \in Workers \ {w} : worker'[v] = worker[v]
    BY DEF IInv, TypeOK
  <1>2. ASSUME NEW p \in Workers \X Nat, May(worker'[p[1]], p[2], m, t)
        PROVE  May(worker[p[1]], p[2], m, t)
    BY <1>1, <1>2
  <1>3. Places(m, t)' = {p \in Workers \X Nat : May(worker'[p[1]], p[2], m, t)}
    BY DEF Places, May, Uncounted
  <1> QED
    BY <1>2, <1>3 DEF Places

LEMMA LooseOfMover ==
    ASSUME IInv, NEW w \in Workers, NEW r, worker' = [worker EXCEPT ![w] = r],
           UNCHANGED <<stored, ready, settled>>,
           NEW m, Holds(w, m) => r.msg = m \/ In(r.buffer, m)
    PROVE  Loose(m)' <= Loose(m)
  <1>1. worker'[w] = r /\ \A v \in Workers \ {w} : worker'[v] = worker[v]
    BY DEF IInv, TypeOK
  <1>2. Held(m) => Held(m)'
    BY <1>1 DEF Held, Holds, In
  <1> QED
    BY <1>2 DEF Loose

\* The stream and the handler.
LEMMA RegisterCounts ==
    ASSUME IInv, IInv', OInv, CInv, NEW n \in Msgs, RegisterEvent(n)
    PROVE  CInv'
  <1>1. /\ UNCHANGED <<worker, reading, settled, faults>>
        /\ n \notin stored /\ stored' = stored \cup {n} /\ ready' = ready \cup {n}
    BY DEF RegisterEvent
  <1>2. ASSUME NEW m \in Msgs, NEW t \in Targets
        PROVE  Bounded(m, t)' /\ (m \notin stored => reading[t][m] = 0)'
    <2>1. Places(m, t)' = Places(m, t) /\ IsFiniteSet(Places(m, t))
      BY <1>1 DEF Places, May, Uncounted, CInv, Bounded
    <2>2. CASE m # n
      <3>1. Loose(m)' = Loose(m) /\ Cardinality(Places(m, t)) \in Nat
        BY <1>1, <2>1, <2>2, FS_CardinalityType DEF Loose, Held, Holds
      <3>2. Loose(m) \in {0, 1}
        BY Numbers
      <3> QED
        BY <1>1, <2>1, <3>1, <3>2, NoMorePlaces
    <2>3. CASE m = n
      <3>1. ASSUME NEW p \in Places(m, t) PROVE FALSE
        <4>1. p \in Workers \X Nat /\ May(worker[p[1]], p[2], m, t)
          BY <3>1 DEF Places
        <4>2. PICK w \in Workers : \E i \in Nat : May(worker[w], i, m, t)
          BY <4>1
        <4>3. worker[w] \in WorkerState /\ Accounted(worker[w], stored, tried) /\ Shape(worker[w], troubled)
          BY AtWork DEF OInv, Shaped
        <4>4. worker[w].msg # m
          BY <1>1, <2>3, <4>3, NothingIsNotAMessage DEF Accounted, Shape, WorkerState
        <4>5. \A i \in DOMAIN worker[w].buffer : worker[w].buffer[i] # m
          BY <1>1, <2>3, <4>3 DEF Accounted
        <4> QED
          BY <4>2, <4>4, <4>5 DEF May
      <3>2. Places(m, t)' = {} /\ reading'[t][m] = 0
        BY <1>1, <2>1, <2>3, <3>1 DEF CInv
      <3>3. /\ Cardinality(Places(m, t)') = 0 /\ IsFiniteSet(Places(m, t)')
            /\ Loose(m)' = 1 /\ faults' \in Nat
        BY <1>1, <2>3, <3>2, FS_EmptySet, Numbers DEF Loose
      <3>4. reading'[t][m] + Cardinality(Places(m, t)') + Loose(m)' <= faults' + 1
        BY <3>2, <3>3
      <3>5. m \notin stored' => reading'[t][m] = 0
        BY <3>2
      <3> QED
        BY <3>3, <3>4, <3>5 DEF Bounded
    <2> QED
      BY <2>2, <2>3
  <1> QED
    BY <1>2 DEF CInv

\* An expired AckWait makes one message wait that somebody may hold; a
\* redelivery starts from one that nobody holds.
LEMMA StreamCounts ==
    ASSUME IInv, IInv', CInv, NEW n \in Msgs, AckWaitExpires(n) \/ Redeliver(n)
    PROVE  CInv'
  <1>1. UNCHANGED <<stored, worker, reading, settled>> /\ ready' = ready \cup {n}
    BY DEF AckWaitExpires, Redeliver
  <1>2. ASSUME NEW m \in Msgs, NEW t \in Targets PROVE Places(m, t)' = Places(m, t)
    BY <1>1 DEF Places, May, Uncounted
  <1>3. \A m \in Msgs : Loose(m) \in {0, 1} /\ Loose(m)' \in {0, 1}
    BY DEF Loose
  <1>4. \A m \in Msgs : \/ faults' = faults /\ Loose(m)' <= Loose(m)
                        \/ faults' = faults + 1
    <2>1. CASE AckWaitExpires(n)
      BY <2>1 DEF AckWaitExpires, Fault
    <2>2. CASE Redeliver(n)
      <3>1. Loose(n) = 1 /\ faults' = faults
        BY <2>2 DEF Redeliver, Loose
      <3>2. \A m \in Msgs \ {n} : Loose(m)' = Loose(m)
        BY <1>1 DEF Loose, Held, Holds
      <3> QED
        BY <1>3, <3>1, <3>2
    <2> QED
      BY <2>1, <2>2
  <1> QED
    BY <1>1, <1>2, <1>4, FewerPlaces

\* A message that waits becomes one that is in a buffer.
LEMMA DeliverCounts ==
    ASSUME IInv, IInv', CInv, NEW w \in Workers, NEW n \in Msgs, Deliver(w, n)
    PROVE  CInv'
  <1> DEFINE r == [worker[w] EXCEPT !.buffer = Append(@, n)]
             k == Len(worker[w].buffer) + 1
  <1>1. /\ UNCHANGED <<stored, settled, reading, faults>>
        /\ n \in ready /\ ready' = ready \ {n} /\ worker' = [worker EXCEPT ![w] = r]
    BY DEF Deliver
  <1>2. worker[w] \in WorkerState /\ worker[w].buffer \in Seq(Msgs)
    BY AtWork DEF WorkerState
  <1>3. /\ r.msg = worker[w].msg /\ Uncounted(r) = Uncounted(worker[w])
        /\ r.buffer = Append(worker[w].buffer, n)
    BY <1>2 DEF WorkerState, Uncounted
  <1>4. /\ DOMAIN worker[w].buffer \subseteq DOMAIN r.buffer /\ k \in Nat \ {0}
        /\ k \in DOMAIN r.buffer /\ r.buffer[k] = n
        /\ \A i \in DOMAIN r.buffer :
               i # k => i \in DOMAIN worker[w].buffer
        /\ \A i \in DOMAIN worker[w].buffer : r.buffer[i] = worker[w].buffer[i]
    BY <1>2, <1>3
  <1> HIDE DEF r, k
  <1>5. worker'[w] = r /\ \A v \in Workers \ {w} : worker'[v] = worker[v]
    BY <1>1 DEF IInv, TypeOK
  <1>6. \A m, t : \A i \in Nat : May(r, i, m, t) => May(worker[w], i, m, t) \/ (i = k /\ m = n)
    BY <1>3, <1>4 DEF May
  <1>7. ASSUME NEW m \in Msgs, NEW t \in Targets
        PROVE  Bounded(m, t)' /\ (m \notin stored => reading[t][m] = 0)'
    <2>1. IsFiniteSet(Places(m, t)) /\ Cardinality(Places(m, t)) \in Nat
      BY FS_CardinalityType DEF CInv, Bounded
    <2>2. Loose(m) \in {0, 1} /\ Loose(m)' \in {0, 1}
      BY DEF Loose
    <2>3. CASE m # n
      <3>1. Places(m, t)' \subseteq Places(m, t)
        BY <1>1, <1>6, <2>3, PlacesOfMover
      <3>2. Held(m) => Held(m)'
        BY <1>3, <1>4, <1>5 DEF Held, Holds
      <3>3. Loose(m)' <= Loose(m)
        BY <1>1, <2>3, <3>2 DEF Loose
      <3> QED
        BY <1>1, <2>1, <3>1, <3>3, FS_Subset, NoMorePlaces
    <2>4. CASE m = n
      <3>1. \A p \in Workers \X Nat : May(worker'[p[1]], p[2], m, t) =>
                May(worker[p[1]], p[2], m, t) \/ p = <<w, k>>
        BY <1>5, <1>6
      <3>2. Places(m, t)' = {p \in Workers \X Nat : May(worker'[p[1]], p[2], m, t)}
        BY DEF Places, May, Uncounted
      <3>3. Places(m, t)' \subseteq Places(m, t) \cup {<<w, k>>}
        BY <3>1, <3>2 DEF Places
      <3>4. /\ IsFiniteSet(Places(m, t) \cup {<<w, k>>})
            /\ Cardinality(Places(m, t) \cup {<<w, k>>}) <= Cardinality(Places(m, t)) + 1
            /\ Cardinality(Places(m, t) \cup {<<w, k>>}) \in Nat
        <4> DEFINE S == Places(m, t)
                   x == <<w, k>>
        <4>1. IsFiniteSet(S) /\ Cardinality(S) \in Nat
          BY <2>1
        <4> HIDE DEF S, x
        <4>2. /\ IsFiniteSet(S \cup {x})
              /\ Cardinality(S \cup {x}) = IF x \in S THEN Cardinality(S) ELSE Cardinality(S) + 1
          BY <4>1, FS_AddElement
        <4>3. Cardinality(S \cup {x}) <= Cardinality(S) + 1 /\ Cardinality(S \cup {x}) \in Nat
          BY <4>1, <4>2
        <4> QED
          BY <4>2, <4>3 DEF S, x
      <3>5. /\ IsFiniteSet(Places(m, t)')
            /\ Cardinality(Places(m, t)') <= Cardinality(Places(m, t)) + 1
            /\ Cardinality(Places(m, t)') \in Nat
        BY <2>1, <3>3, <3>4, FS_Subset, FS_CardinalityType
      <3>6. Held(m)'
        BY <1>4, <1>5, <2>4 DEF Held, Holds
      <3>7. Loose(m) = 1 /\ Loose(m)' = 0
        BY <1>1, <2>4, <3>6 DEF Loose
      <3>8. /\ reading[t][m] \in Nat /\ reading' = reading /\ faults \in Nat /\ faults' = faults
            /\ reading[t][m] + Cardinality(Places(m, t)) + Loose(m) <= faults + 1
        BY <1>1, Numbers DEF CInv, Bounded
      <3>9. reading'[t][m] + Cardinality(Places(m, t)') + Loose(m)' <= faults' + 1
        BY <2>1, <3>5, <3>7, <3>8
      <3> QED
        BY <1>1, <3>5, <3>9 DEF Bounded, CInv
    <2> QED
      BY <2>3, <2>4
  <1> QED
    BY <1>7 DEF CInv

\* One goroutine becomes r, holds what it held and has no target more to count
\* its message on.
LEMMA MoverCounts ==
    ASSUME IInv, IInv', CInv, reading' = reading,
           UNCHANGED <<stored, ready, settled>>,
           faults' \in {faults, faults + 1},
           NEW w \in Workers, NEW r, worker' = [worker EXCEPT ![w] = r],
           r.msg = worker[w].msg, r.buffer = worker[w].buffer,
           r.msg \in Msgs => Uncounted(r) \subseteq Uncounted(worker[w])
    PROVE  CInv'
  <1>1. ASSUME NEW m \in Msgs, NEW t \in Targets
        PROVE  Places(m, t)' \subseteq Places(m, t)
    <2>1. \A i \in Nat : May(r, i, m, t) => May(worker[w], i, m, t)
      BY DEF May
    <2> QED
      BY <2>1, PlacesOfMover
  <1>2. \A m \in Msgs : Loose(m)' <= Loose(m)
    BY LooseOfMover DEF Holds, In
  <1> QED
    BY <1>1, <1>2, FewerPlaces

LEMMA StartCounts ==
    ASSUME IInv, IInv', CInv, NEW w \in Workers, StartWorker(w) \/ Cancel(w)
    PROVE  CInv'
  <1>1. /\ UNCHANGED <<stored, ready, settled, reading, faults>>
        /\ worker[w] \in WorkerState
    BY AtWork DEF StartWorker, Cancel
  <1>2. CASE StartWorker(w)
    <2> DEFINE r == [worker[w] EXCEPT !.at = "idle"]
    <2>1. worker' = [worker EXCEPT ![w] = r] /\ worker[w].msg = NoMsg
      BY <1>2 DEF StartWorker, Off
    <2>2. r.msg = worker[w].msg /\ r.buffer = worker[w].buffer
      BY <1>1 DEF WorkerState
    <2> HIDE DEF r
    <2> QED
      BY <1>1, <2>1, <2>2, MoverCounts, NothingIsNotAMessage
  <1>3. CASE Cancel(w)
    <2> DEFINE r == [worker[w] EXCEPT !.cancelled = TRUE]
    <2>1. worker' = [worker EXCEPT ![w] = r]
      BY <1>3 DEF Cancel
    <2>2. /\ r.msg = worker[w].msg /\ r.buffer = worker[w].buffer
          /\ Uncounted(r) = Uncounted(worker[w])
      BY <1>1 DEF WorkerState, Uncounted
    <2> HIDE DEF r
    <2> QED
      BY <1>1, <2>1, <2>2, MoverCounts
  <1> QED
    BY <1>2, <1>3

\* After a crash every place is gone; what was held is loose once more, and
\* the crash is the fault that pays for it.
LEMMA CrashCounts ==
    ASSUME IInv, IInv', CInv, Crash
    PROVE  CInv'
  <1>1. /\ UNCHANGED <<stored, reading>> /\ faults' = faults + 1
        /\ \A w \in Workers : worker'[w] = Off
    BY DEF Crash, Fault
  <1>2. Off.msg = NoMsg /\ Off.buffer = <<>>
    BY DEF Off
  <1>3. ASSUME NEW m \in Msgs, NEW t \in Targets PROVE Places(m, t)' = {}
    <2>1. \A w \in Workers, i \in Nat : ~May(worker'[w], i, m, t)
      BY <1>1, <1>2, NothingIsNotAMessage DEF May
    <2>2. Places(m, t)' = {p \in Workers \X Nat : May(worker'[p[1]], p[2], m, t)}
      BY DEF Places, May, Uncounted
    <2> QED
      BY <2>1, <2>2
  <1> QED
    BY <1>1, <1>3, FewerPlaces

\* The steps between two writes.
LEMMA HandCounts ==
    ASSUME IInv, IInv', OInv, CInv, NEW w \in Workers,
           \/ Get(w) \/ GetFails(w) \/ Report(w) \/ NextTarget(w)
           \/ PutFails(w) /\ UNCHANGED reading
    PROVE  CInv'
  <1>1. /\ UNCHANGED <<stored, ready, settled, reading>> /\ faults' \in {faults, faults + 1}
        /\ worker[w].at \in {"get", "put", "report", "next"}
    BY DEF Get, GetFails, Report, NextTarget, PutFails, Fault
  <1>2. worker[w] \in WorkerState /\ Shape(worker[w], troubled)
    BY <1>1, InHand
  <1>3. ASSUME NEW r, worker' = [worker EXCEPT ![w] = r],
               r.msg = worker[w].msg, r.buffer = worker[w].buffer,
               Uncounted(r) \subseteq Uncounted(worker[w])
        PROVE  CInv'
    BY <1>1, <1>3, MoverCounts
  <1>4. CASE Get(w)
    <2> DEFINE r == IF fate[msg(w)][target(w)] = "fit"
                    THEN [worker[w] EXCEPT !.at = "put", !.copy = reading[target(w)]]
                    ELSE [worker[w] EXCEPT !.at = "report"]
    <2>1. worker' = [worker EXCEPT ![w] = r] /\ worker[w].at = "get"
      BY <1>4 DEF Get
    <2>2. /\ r.at \in {"put", "report"} /\ r.msg = worker[w].msg /\ r.buffer = worker[w].buffer
          /\ r.target = worker[w].target /\ r.todo = worker[w].todo
      BY <1>2 DEF WorkerState
    <2> HIDE DEF r
    <2>3. Uncounted(r) \subseteq Uncounted(worker[w])
      BY <2>1, <2>2 DEF Uncounted
    <2> QED
      BY <1>3, <2>1, <2>2, <2>3
  <1>5. CASE GetFails(w) \/ PutFails(w) \/ Report(w)
    <2>1. PICK a \in {"report", "next"} : worker' = [worker EXCEPT ![w] = [worker[w] EXCEPT !.at = a]]
      BY <1>5 DEF GetFails, PutFails, Report
    <2> DEFINE r == [worker[w] EXCEPT !.at = a]
    <2>2. /\ r.at \in {"report", "next"} /\ r.msg = worker[w].msg /\ r.buffer = worker[w].buffer
          /\ r.target = worker[w].target /\ r.todo = worker[w].todo
      BY <1>2 DEF WorkerState
    <2>3. worker' = [worker EXCEPT ![w] = r]
      BY <2>1
    <2> HIDE DEF r
    <2>4. Uncounted(r) \subseteq Uncounted(worker[w])
      BY <2>2 DEF Uncounted
    <2> QED
      BY <1>3, <2>2, <2>3, <2>4
  <1>6. CASE NextTarget(w)
    <2>1. ASSUME NEW g \in worker[w].todo,
                 worker' = [worker EXCEPT ![w] =
                     [@ EXCEPT !.at = "get", !.target = g, !.todo = worker[w].todo \ {g}]]
          PROVE  CInv'
      <3> DEFINE r == [worker[w] EXCEPT !.at = "get", !.target = g, !.todo = worker[w].todo \ {g}]
      <3>1. /\ worker' = [worker EXCEPT ![w] = r]
            /\ r.at = "get" /\ r.msg = worker[w].msg /\ r.buffer = worker[w].buffer
            /\ r.target = g /\ r.todo = worker[w].todo \ {g}
        BY <1>2, <2>1 DEF WorkerState
      <3> HIDE DEF r
      <3>2. Uncounted(r) \subseteq Uncounted(worker[w])
        BY <2>1, <3>1 DEF Uncounted
      <3> QED
        BY <1>3, <3>1, <3>2
    <2>2. ASSUME worker[w].todo = {}, worker' = [worker EXCEPT ![w].at = "ack"]
          PROVE  CInv'
      <3> DEFINE r == [worker[w] EXCEPT !.at = "ack"]
      <3>1. /\ worker' = [worker EXCEPT ![w] = r]
            /\ r.at = "ack" /\ r.msg = worker[w].msg /\ r.buffer = worker[w].buffer
            /\ r.todo = worker[w].todo
        BY <1>2, <2>2 DEF WorkerState
      <3> HIDE DEF r
      <3>2. Uncounted(r) \subseteq Uncounted(worker[w])
        BY <2>2, <3>1 DEF Uncounted
      <3> QED
        BY <1>3, <3>1, <3>2
    <2> QED
      BY <1>6, <2>1, <2>2 DEF NextTarget
  <1> QED
    BY <1>4, <1>5, <1>6

\* A write counts the message once and takes the target from the goroutine's
\* hands: a place becomes a count.
LEMMA WriteCounts ==
    ASSUME IInv, IInv', OInv, CInv, NEW w \in Workers,
           worker[w].at = "put", Live(w), Write(w),
           UNCHANGED <<stored, ready, settled>>, faults' \in {faults, faults + 1},
           NEW a \in {"report", "next"},
           worker' = [worker EXCEPT ![w] = [worker[w] EXCEPT !.at = a]]
    PROVE  CInv'
  <1> DEFINE r == [worker[w] EXCEPT !.at = a]
             h == msg(w)
             g == target(w)
  <1>1. /\ worker[w] \in WorkerState /\ h \in Msgs /\ g \in Targets
        /\ g \notin worker[w].todo /\ worker[w].msg = h /\ worker[w].target = g
        /\ h \in stored
    BY InHand, AtWork DEF Shape, msg, target
  <1>2. /\ r.at = a /\ r.msg = h /\ r.buffer = worker[w].buffer /\ r.todo = worker[w].todo
        /\ worker' = [worker EXCEPT ![w] = r]
    BY <1>1 DEF WorkerState
  <1>3. \A t \in Targets, m \in Msgs :
            reading'[t][m] = IF t = g /\ m = h THEN reading[t][m] + 1 ELSE reading[t][m]
    BY <1>1, WriteEffect DEF IInv, TypeOK
  <1>4. Uncounted(r) = worker[w].todo /\ Uncounted(worker[w]) = worker[w].todo \cup {g}
    BY <1>1, <1>2 DEF Uncounted
  <1> HIDE DEF r, h, g
  <1>5. ASSUME NEW m \in Msgs, NEW t \in Targets
        PROVE  Bounded(m, t)' /\ (m \notin stored => reading[t][m] = 0)'
    <2>1. Places(m, t)' \subseteq Places(m, t)
      <3>1. \A i \in Nat : May(r, i, m, t) => May(worker[w], i, m, t)
        BY <1>1, <1>2, <1>4 DEF May
      <3> QED
        BY <1>2, <3>1, PlacesOfMover
    <2>2. Loose(m)' <= Loose(m) /\ Loose(m) \in {0, 1} /\ Loose(m)' \in {0, 1}
      <3>1. Holds(w, m) => r.msg = m \/ In(r.buffer, m)
        BY <1>1, <1>2 DEF Holds, In
      <3> QED
        BY <1>2, <3>1, LooseOfMover DEF Loose
    <2>3. /\ IsFiniteSet(Places(m, t)) /\ Cardinality(Places(m, t)) \in Nat
          /\ reading[t][m] + Cardinality(Places(m, t)) + Loose(m) <= faults + 1
          /\ reading[t][m] \in Nat /\ faults \in Nat
      BY FS_CardinalityType, Numbers DEF CInv, Bounded
    <2>4. /\ IsFiniteSet(Places(m, t)') /\ Cardinality(Places(m, t)') \in Nat
          /\ Cardinality(Places(m, t)') <= Cardinality(Places(m, t))
      BY <2>1, <2>3, FS_Subset, FS_CardinalityType
    <2>5. CASE t = g /\ m = h
      <3>1. <<w, 0>> \in Places(m, t)
        BY <1>1, <1>4, <2>5 DEF Places, May
      <3>2. <<w, 0>> \notin Places(m, t)'
        <4>1. worker'[w] = r
          BY <1>2 DEF IInv, TypeOK
        <4>2. 0 \notin DOMAIN r.buffer
          BY <1>1, <1>2 DEF WorkerState
        <4>3. ~May(r, 0, m, t)
          BY <1>1, <1>4, <2>5, <4>2 DEF May
        <4> QED
          BY <4>1, <4>3 DEF Places, May, Uncounted
      <3>3. Cardinality(Places(m, t)') < Cardinality(Places(m, t))
        BY <2>1, <2>3, <2>4, <3>1, <3>2, FS_Subset
      <3>4. reading'[t][m] = reading[t][m] + 1
        BY <1>3, <2>5
      <3>5. reading'[t][m] + Cardinality(Places(m, t)') + Loose(m)' <= faults' + 1
        BY <2>2, <2>3, <2>4, <3>3, <3>4
      <3> QED
        BY <1>1, <2>4, <2>5, <3>5 DEF Bounded
    <2>6. CASE ~(t = g /\ m = h)
      <3>1. reading'[t][m] = reading[t][m]
        BY <1>3, <2>6
      <3>2. reading'[t][m] + Cardinality(Places(m, t)') + Loose(m)' <= faults' + 1
        BY <2>2, <2>3, <2>4, <3>1
      <3> QED
        BY <2>4, <3>1, <3>2 DEF Bounded, CInv
    <2> QED
      BY <2>5, <2>6
  <1> QED
    BY <1>5 DEF CInv

LEMMA PutCounts ==
    ASSUME IInv, IInv', OInv, CInv, NEW w \in Workers, Put(w) \/ PutFails(w)
    PROVE  CInv'
  <1>1. CASE Put(w)
    <2>1. worker' = [worker EXCEPT ![w] = [worker[w] EXCEPT !.at = "next"]]
      BY <1>1 DEF Put
    <2> QED
      BY <1>1, <2>1, WriteCounts DEF Put, Live
  <1>2. CASE PutFails(w) /\ UNCHANGED reading
    BY <1>2, HandCounts
  <1>3. CASE PutFails(w) /\ ~UNCHANGED reading
    <2>1. worker' = [worker EXCEPT ![w] = [worker[w] EXCEPT !.at = "report"]]
      BY <1>3 DEF PutFails
    <2>2. Live(w) /\ Write(w) /\ faults' = faults + 1
      BY <1>3 DEF PutFails, Live, Fault
    <2> QED
      BY <1>3, <2>1, <2>2, WriteCounts DEF PutFails
  <1> QED
    BY <1>1, <1>2, <1>3

\* The callback takes the first delivery in hand, which moves every place in
\* the buffer up by one, or a fault takes it away.
LEMMA BeginCounts ==
    ASSUME IInv, IInv', OInv, CInv, NEW w \in Workers, Begin(w)
    PROVE  CInv'
  <1> DEFINE h == Head(worker[w].buffer)
             rest == Tail(worker[w].buffer)
             busy == [worker[w] EXCEPT !.at = "get", !.msg = h, !.target = Main,
                                       !.todo = Groups, !.buffer = rest]
             naked == [worker[w] EXCEPT !.buffer = rest]
             up == [p \in Workers \X Nat |-> IF p[1] = w THEN <<w, p[2] - 1>> ELSE p]
  <1>1. /\ UNCHANGED <<stored, ready, settled, reading>>
        /\ worker[w].at = "idle" /\ worker[w].buffer # <<>>
        /\ \/ worker' = [worker EXCEPT ![w] = busy] /\ faults' = faults
           \/ worker' = [worker EXCEPT ![w] = naked] /\ faults' = faults + 1
    BY DEF Begin, Fault
  <1>2. worker[w] \in WorkerState /\ worker[w].buffer \in Seq(Msgs) /\ worker[w].msg = NoMsg
    BY <1>1, AtWork DEF WorkerState, OInv, Shaped, Shape
  <1>3. /\ h = worker[w].buffer[1] /\ 1 \in DOMAIN worker[w].buffer
        /\ \A i \in DOMAIN rest : /\ i + 1 \in DOMAIN worker[w].buffer
                                  /\ i \in Nat \ {0}
                                  /\ rest[i] = worker[w].buffer[i + 1]
    BY <1>1, <1>2
  <1>4. \A i \in DOMAIN worker[w].buffer :
            i = 1 \/ (i - 1 \in DOMAIN rest /\ rest[i - 1] = worker[w].buffer[i])
    BY <1>1, <1>2
  <1> HIDE DEF h, rest
  <1>5. /\ busy.msg = h /\ busy.buffer = rest /\ naked.msg = NoMsg /\ naked.buffer = rest
    BY <1>2 DEF WorkerState
  <1> HIDE DEF busy, naked
  <1>6. PICK r : /\ worker' = [worker EXCEPT ![w] = r] /\ r.buffer = rest
                 /\ \/ r.msg = h /\ faults' = faults
                    \/ r.msg = NoMsg /\ faults' = faults + 1
    BY <1>1, <1>5
  <1>7. worker'[w] = r /\ \A v \in Workers \ {w} : worker'[v] = worker[v]
    BY <1>6 DEF IInv, TypeOK
  <1>8. ASSUME NEW m \in Msgs, NEW t \in Targets, NEW i \in Nat, May(r, i, m, t)
        PROVE  i + 1 \in Nat /\ May(worker[w], i + 1, m, t)
    <2>1. CASE i = 0 /\ r.msg = m
      <3>1. m = h
        BY <1>6, <2>1, NothingIsNotAMessage
      <3> QED
        BY <1>3, <2>1, <3>1 DEF May
    <2>2. CASE i \in DOMAIN r.buffer /\ r.buffer[i] = m
      BY <1>3, <1>6, <2>2 DEF May
    <2> QED
      BY <1>8, <2>1, <2>2 DEF May
  <1>9. ASSUME NEW m \in Msgs, NEW t \in Targets
        PROVE  /\ IsFiniteSet(Places(m, t)')
               /\ Cardinality(Places(m, t)') <= Cardinality(Places(m, t))
    <2> DEFINE Q == {p \in Workers \X Nat : p \in Places(m, t) /\ up[p] \in Places(m, t)'}
               f == [p \in Q |-> up[p]]
    <2>1. Places(m, t)' = {p \in Workers \X Nat : May(worker'[p[1]], p[2], m, t)}
      BY DEF Places, May, Uncounted
    <2>2. ASSUME NEW p \in Places(m, t)'
          PROVE  \E q \in Places(m, t) : q \in Workers \X Nat /\ up[q] = p
      <3>1. p \in Workers \X Nat /\ p = <<p[1], p[2]>> /\ p[2] \in Nat /\ May(worker'[p[1]], p[2], m, t)
        BY <2>1, <2>2
      <3>2. CASE p[1] = w
        <4> DEFINE q == <<w, p[2] + 1>>
        <4>1. May(worker[w], p[2] + 1, m, t)
          BY <1>7, <1>8, <3>1, <3>2
        <4>2. q \in Workers \X Nat /\ q[1] = w /\ q[2] = p[2] + 1
          BY <3>1
        <4>3. q \in Places(m, t)
          BY <4>1, <4>2 DEF Places
        <4>4. up[q] = <<w, p[2]>>
          BY <3>1, <4>2
        <4> QED
          BY <3>1, <3>2, <4>2, <4>3, <4>4
      <3>3. CASE p[1] # w
        <4>1. p \in Places(m, t) /\ up[p] = p
          BY <1>7, <3>1, <3>3 DEF Places
        <4> QED
          BY <3>1, <4>1
      <3> QED
        BY <3>2, <3>3
    <2> HIDE DEF up
    <2>3. Q \subseteq Places(m, t) /\ IsFiniteSet(Places(m, t))
      BY DEF CInv, Bounded
    <2>4. f \in Surjection(Q, Places(m, t)')
      <3>1. f \in [Q -> Places(m, t)']
        OBVIOUS
      <3>2. \A p \in Places(m, t)' : \E q \in Q : f[q] = p
        BY <2>2
      <3> QED
        BY <3>1, <3>2 DEF Surjection
    <2> HIDE DEF Q, f
    <2>5. IsFiniteSet(Q) /\ Cardinality(Q) <= Cardinality(Places(m, t))
      BY <2>3, FS_Subset
    <2>6. IsFiniteSet(Places(m, t)') /\ Cardinality(Places(m, t)') <= Cardinality(Q)
      BY <2>4, <2>5, FS_Surjection
    <2> QED
      BY <2>3, <2>5, <2>6, FS_CardinalityType
  <1>10. ASSUME NEW m \in Msgs
         PROVE  faults' = faults + 1 \/ (faults' = faults /\ Loose(m)' <= Loose(m))
    <2> SUFFICES ASSUME r.msg = h, faults' = faults PROVE Loose(m)' <= Loose(m)
      BY <1>6
    <2>1. Holds(w, m) => r.msg = m \/ In(r.buffer, m)
      BY <1>2, <1>3, <1>4, <1>6, NothingIsNotAMessage DEF Holds, In
    <2> QED
      BY <1>1, <1>6, <2>1, LooseOfMover
  <1>11. ASSUME NEW m \in Msgs, NEW t \in Targets
         PROVE  Bounded(m, t)' /\ (m \notin stored => reading[t][m] = 0)'
    BY <1>1, <1>9, <1>10, NoMorePlaces
  <1> QED
    BY <1>11 DEF CInv

\* An acknowledged message is never loose again; a lost acknowledgement is a
\* fault.
LEMMA AckCounts ==
    ASSUME IInv, IInv', OInv, CInv, NEW w \in Workers, Ack(w)
    PROVE  CInv'
  <1> DEFINE r == [worker[w] EXCEPT !.at = "idle", !.msg = NoMsg, !.target = NoTarget]
  <1>1. /\ UNCHANGED <<stored, reading>> /\ worker[w].at = "ack"
        /\ worker' = [worker EXCEPT ![w] = r]
        /\ \/ /\ settled' = settled \cup {msg(w)} /\ ready' = ready \ {msg(w)}
              /\ faults' = faults
           \/ UNCHANGED <<settled, ready>> /\ faults' = faults + 1
    BY DEF Ack, Fault
  <1>2. r.msg = NoMsg /\ r.buffer = worker[w].buffer
    BY <1>1, InHand DEF WorkerState
  <1> HIDE DEF r
  <1>3. ASSUME NEW m \in Msgs, NEW t \in Targets
        PROVE  Places(m, t)' \subseteq Places(m, t)
    <2>1. \A i \in Nat : May(r, i, m, t) => May(worker[w], i, m, t)
      BY <1>2, NothingIsNotAMessage DEF May
    <2> QED
      BY <1>1, <2>1, PlacesOfMover
  <1>4. worker'[w] = r /\ \A v \in Workers \ {w} : worker'[v] = worker[v]
    BY <1>1 DEF IInv, TypeOK
  <1>5. ASSUME NEW m \in Msgs, faults' = faults PROVE Loose(m)' <= Loose(m)
    <2>1. /\ settled' = settled \cup {msg(w)} /\ ready' = ready \ {msg(w)}
          /\ faults \in Nat
      BY <1>1, <1>5, Numbers
    <2>2. CASE m = msg(w)
      BY <2>1, <2>2 DEF Loose
    <2>3. CASE m # msg(w)
      <3>1. Held(m) => Held(m)'
        BY <1>2, <1>4, <2>3 DEF Held, Holds, msg
      <3> QED
        BY <1>1, <2>1, <2>3, <3>1 DEF Loose
    <2> QED
      BY <2>2, <2>3
  <1> QED
    BY <1>1, <1>3, <1>5, FewerPlaces

-----------------------------------------------------------------------------

LEMMA InitCounts == Init => CInv
  <1> SUFFICES ASSUME Init, NEW m \in Msgs, NEW t \in Targets
               PROVE  Bounded(m, t) /\ (m \notin stored => reading[t][m] = 0)
    BY DEF CInv
  <1>1. Off.msg = NoMsg /\ Off.buffer = <<>>
    BY DEF Off
  <1>2. \A w \in Workers, i \in Nat : ~May(worker[w], i, m, t)
    BY <1>1, NothingIsNotAMessage DEF Init, May
  <1>3. Places(m, t) = {} /\ Loose(m) = 0 /\ reading[t][m] = 0 /\ faults = 0
    BY <1>2 DEF Init, Places, Loose
  <1> QED
    BY <1>3, FS_EmptySet DEF Bounded

LEMMA NextCounts == NoNull /\ CInv /\ OInv /\ IInv /\ [Next]_vars => CInv'
  <1> SUFFICES ASSUME NoNull, CInv, OInv, IInv, [Next]_vars PROVE CInv'
    OBVIOUS
  <1>1. IInv'
    BY NextPreserves
  <1>2. ASSUME NEW w \in Workers, GetPanics(w) PROVE FALSE
    BY <1>2, InHand DEF GetPanics, NoNull
  <1>3. ASSUME NEW w \in Workers, Step(w) PROVE CInv'
    BY <1>1, <1>2, <1>3, BeginCounts, HandCounts, PutCounts, AckCounts DEF Step
  <1>4. CASE UNCHANGED vars \/ \E id \in Ids : Forget(id)
    <2>1. UNCHANGED <<worker, reading, settled, ready, stored, faults>>
      BY <1>4 DEF vars, Forget
    <2>2. \A m, t : Places(m, t)' = Places(m, t) /\ Loose(m)' = Loose(m)
      BY <2>1 DEF Places, May, Uncounted, Loose, Held, Holds
    <2>3. \A m \in Msgs : Loose(m)' <= Loose(m)
      BY <2>2 DEF Loose
    <2> QED
      BY <1>1, <2>1, <2>2, <2>3, FewerPlaces
  <1> QED
    BY <1>1, <1>3, <1>4, RegisterCounts, StreamCounts, DeliverCounts, StartCounts,
       CrashCounts DEF Next

\* Where no message holds a null, a reading counts a message at most once more
\* than there were errors of NATS, expired AckWaits and crashes: a change of
\* consumers, a buffer that a cancelled goroutine keeps and the redeliveries that
\* follow a fault count it no further.
THEOREM CountedByFaults == Spec => []OvercountNeedsFaults
  <1>1. CASE ~NoNull
    <2>1. OvercountNeedsFaults
      BY <1>1 DEF OvercountNeedsFaults, NoNull
    <2> QED
      BY <2>1, PTL
  <1>2. CASE NoNull
    <2>1. Init => CInv
      BY InitCounts
    <2>2. CInv /\ OInv /\ IInv /\ [Next]_vars => CInv'
      BY <1>2, NextCounts
    <2>3. Init => OInv
      BY InitOnce
    <2>4. OInv /\ IInv /\ [Next]_vars => OInv'
      BY NextOnce
    <2>5. CInv /\ IInv => OvercountNeedsFaults
      <3> SUFFICES ASSUME CInv, IInv, NEW m \in Msgs, NEW t \in Targets
                   PROVE  reading[t][m] <= faults + 1
        BY DEF OvercountNeedsFaults
      <3>1. /\ Cardinality(Places(m, t)) \in Nat
            /\ reading[t][m] + Cardinality(Places(m, t)) + Loose(m) <= faults + 1
        BY FS_CardinalityType DEF CInv, Bounded
      <3> QED
        BY <3>1, Numbers
    <2> QED
      BY <2>1, <2>2, <2>3, <2>4, <2>5, Invariant, PTL DEF Spec
  <1> QED
    BY <1>1, <1>2
=============================================================================
