-------------------------- MODULE Reconciler_proofs --------------------------
(***************************************************************************)
(* The reconciler keeps its invariants and implements ConsumerLife, for    *)
(* any meters, definitions and goroutines.                                 *)
(***************************************************************************)
EXTENDS Reconciler, FiniteSetTheorems, TLAPS

\* The loop is blocked on upCh, or on downCh, with m.
SendingUp(m) == loop.at = "up" /\ loop.sending = m
SendingDown(m) == loop.at = "down" /\ loop.sending = m

Early(w) == worker[w].at \in {"start", "checked"}

\* Nobody works for m, and nothing of an earlier goroutine is left.
Quiet(m) == Live(m) = {} /\ ctxMap[m] = NoWorker

\* w alone works for m; ctxMap holds it from KeepCancel on and nobody before.
RunBy(m, w) ==
    /\ Live(m) = {w}
    /\ Early(w) => ctxMap[m] = NoWorker
    /\ ~Early(w) => ctxMap[m] = w

Wanted(m) == (Has(oldMeterMap, m) /\ ~SendingUp(m)) \/ SendingDown(m)

\* A meter that is not hasty: where its goroutine stands follows from what the
\* loop and the runner have done about it.
MeterInv(m) ==
    /\ runner.meter = m /\ runner.at = "cancel" => \E w \in Workers : RunBy(m, w)
    /\ runner.meter = m /\ runner.at = "delete" => Live(m) = {}
    /\ runner.meter # m /\ Wanted(m) => \E w \in Workers : RunBy(m, w)
    /\ runner.meter # m /\ ~Wanted(m) => Quiet(m)
    /\ runner.meter # m /\ Has(oldMeterMap, m) /\ ~SendingUp(m) =>
           \A w \in Live(m) : worker[w].def = oldMeterMap[m]

LoopInv ==
    /\ loop.at = "up" => loop.sending \in Meters /\ Has(oldMeterMap, loop.sending)
    /\ loop.at = "down" => loop.sending \in Meters /\ ~Has(oldMeterMap, loop.sending)
    /\ loop.at \in {"downs", "down"} => loop.todo \subseteq Held(oldMeterMap)
    /\ runner.meter \in Meters => ~Wanted(runner.meter)

\* ctxMap[m] is a goroutine of m that has come to KeepCancel, and only such a
\* goroutine is ever cancelled.
CancelledLate ==
    /\ \A w \in Workers : worker[w].cancelled => ~Early(w)
    /\ \A m \in Meters : ctxMap[m] # NoWorker =>
           worker[ctxMap[m]].meter = m /\ ~Early(ctxMap[m])

IInv == TypeOK /\ LoopInv /\ CancelledLate /\ \A m \in Meters \ hasty : MeterInv(m)

-----------------------------------------------------------------------------
(* Steps of the loop                                                       *)

\* What MeterInv looks at, beside loop and oldMeterMap.
Rest == <<runner, ctxMap, worker>>

\* A step that leaves a meter's side of the loop alone leaves its invariant.
LEMMA SameMeter ==
    ASSUME NEW m \in Meters, MeterInv(m), UNCHANGED Rest,
           SendingUp(m)' <=> SendingUp(m), SendingDown(m)' <=> SendingDown(m),
           oldMeterMap'[m] = oldMeterMap[m]
    PROVE  MeterInv(m)'
  BY DEF MeterInv, Rest, RunBy, Quiet, Live, Early, Wanted, Has

\* The loop goes from one statement to the next without a send.
LEMMA LoopMoves ==
    ASSUME IInv, UNCHANGED <<oldMeterMap, ctxMap, worker, runner, hasty>>,
           meterMap' \in [Meters -> Defs \cup {NoDef}], stream' \in BOOLEAN,
           loop' \in [at : {"sleep", "ups", "downs", "up", "down"},
                      todo : SUBSET Meters, sending : Meters \cup {NoMeter}],
           \A m \in Meters : SendingUp(m)' <=> SendingUp(m),
           \A m \in Meters : SendingDown(m)' <=> SendingDown(m),
           loop'.at = "up" <=> loop.at = "up",
           loop'.at = "down" <=> loop.at = "down",
           loop'.at \in {"downs", "down"} => loop'.todo \subseteq Held(oldMeterMap)
    PROVE  IInv'
<1>1. TypeOK'
  BY DEF IInv, TypeOK
<1>2. LoopInv'
  BY DEF IInv, LoopInv, TypeOK, SendingUp, SendingDown, Wanted, Has, Held
<1>3. CancelledLate'
  BY DEF IInv, CancelledLate, Early
<1>4. ASSUME NEW m \in Meters \ hasty'
      PROVE  MeterInv(m)'
  BY <1>4, SameMeter DEF IInv, Rest
<1> QED
  BY <1>1, <1>2, <1>3, <1>4 DEF IInv

LEMMA Handlers ==
    ASSUME IInv, NEW m \in Meters,
           (\E d \in Defs : AddMeterToConsume(m, d)) \/ RemoveMeterFromConsume(m)
    PROVE  IInv'
<1>1. CASE \E d \in Defs : AddMeterToConsume(m, d)
  <2>1. /\ UNCHANGED <<oldMeterMap, loop, ctxMap, worker, runner, stream, hasty>>
        /\ meterMap' \in [Meters -> Defs \cup {NoDef}]
    BY <1>1 DEF AddMeterToConsume, IInv, TypeOK
  <2> QED
    BY <2>1, LoopMoves DEF SendingUp, SendingDown, IInv, TypeOK, LoopInv, Held, Has
<1>2. CASE RemoveMeterFromConsume(m)
  <2>1. /\ UNCHANGED <<oldMeterMap, ctxMap, worker, runner, stream, hasty>>
        /\ meterMap' \in [Meters -> Defs \cup {NoDef}]
    BY <1>2 DEF RemoveMeterFromConsume, IInv, TypeOK
  <2>2. /\ loop' \in [at : {"sleep", "ups", "downs", "up", "down"},
                      todo : SUBSET Meters, sending : Meters \cup {NoMeter}]
        /\ loop'.at = loop.at /\ loop'.sending = loop.sending
        /\ loop'.todo \subseteq loop.todo
    BY <1>2 DEF RemoveMeterFromConsume, IInv, TypeOK
  <2> QED
    BY <2>1, <2>2, LoopMoves DEF SendingUp, SendingDown, IInv, TypeOK, LoopInv, Held, Has
<1> QED
  BY <1>1, <1>2

LEMMA Ranges ==
    ASSUME IInv, StartRange \/ EndUps \/ EndDowns
    PROVE  IInv'
<1>1. UNCHANGED <<meterMap, oldMeterMap, ctxMap, worker, runner, stream, hasty>>
  BY DEF StartRange, EndUps, EndDowns
<1>2. /\ loop' \in [at : {"sleep", "ups", "downs", "up", "down"},
                    todo : SUBSET Meters, sending : Meters \cup {NoMeter}]
      /\ loop.at \notin {"up", "down"} /\ loop'.at \notin {"up", "down"}
      /\ loop'.at = "downs" => loop'.todo \subseteq Held(oldMeterMap)
  BY DEF StartRange, EndUps, EndDowns, IInv, TypeOK, Held, Has
<1> QED
  BY <1>1, <1>2, LoopMoves DEF SendingUp, SendingDown, IInv, TypeOK

LEMMA FindsUp ==
    ASSUME IInv, NEW m \in Meters, FindUp(m)
    PROVE  IInv'
<1>1. /\ UNCHANGED <<meterMap, ctxMap, worker, runner, stream, hasty>>
      /\ loop.at = "ups" /\ ~Has(oldMeterMap, m)
      /\ oldMeterMap' \in [Meters -> Defs \cup {NoDef}]
      /\ oldMeterMap'[m] \in Defs
      /\ \A n \in Meters \ {m} : oldMeterMap'[n] = oldMeterMap[n]
      /\ loop' = [at |-> "up", todo |-> loop.todo \ {m}, sending |-> m]
  BY DEF FindUp, IInv, TypeOK, Has
<1>2. TypeOK'
  BY <1>1 DEF IInv, TypeOK
<1>3. LoopInv'
  BY <1>1, NoDefIsNotADef DEF IInv, LoopInv, TypeOK, SendingUp, SendingDown, Wanted, Has, Held
<1>4. CancelledLate'
  BY <1>1 DEF IInv, CancelledLate, Early
<1>5. ASSUME NEW n \in Meters \ hasty'
      PROVE  MeterInv(n)'
  <2>1. CASE n = m
    BY <1>1, <2>1 DEF IInv, MeterInv, RunBy, Quiet, Live, Early, Wanted, SendingUp, SendingDown, Has
  <2>2. CASE n # m
    BY <1>1, <2>2, SameMeter DEF IInv, Rest, SendingUp, SendingDown
  <2> QED
    BY <2>1, <2>2
<1> QED
  BY <1>2, <1>3, <1>4, <1>5 DEF IInv

LEMMA FindsDown ==
    ASSUME IInv, NEW m \in Meters, FindDown(m)
    PROVE  IInv'
<1>1. CASE Has(meterMap, m)
  <2>1. /\ UNCHANGED <<meterMap, oldMeterMap, ctxMap, worker, runner, stream, hasty>>
        /\ loop.at = "downs" /\ loop'.at = "downs"
        /\ loop' \in [at : {"sleep", "ups", "downs", "up", "down"},
                      todo : SUBSET Meters, sending : Meters \cup {NoMeter}]
        /\ loop'.todo \subseteq loop.todo
    BY <1>1 DEF FindDown, IInv, TypeOK
  <2> QED
    BY <2>1, LoopMoves DEF SendingUp, SendingDown, IInv, TypeOK, LoopInv
<1>2. CASE ~Has(meterMap, m)
  <2>1. /\ UNCHANGED <<meterMap, ctxMap, worker, runner, stream, hasty>>
        /\ loop.at = "downs" /\ Has(oldMeterMap, m) /\ loop.todo \subseteq Held(oldMeterMap)
        /\ oldMeterMap' \in [Meters -> Defs \cup {NoDef}]
        /\ oldMeterMap'[m] = NoDef
        /\ \A n \in Meters \ {m} : oldMeterMap'[n] = oldMeterMap[n]
        /\ loop' = [at |-> "down", todo |-> loop.todo \ {m}, sending |-> m]
    BY <1>2 DEF FindDown, IInv, LoopInv, TypeOK, Has, Held
  <2>2. TypeOK'
    BY <2>1 DEF IInv, TypeOK
  <2>3. LoopInv'
    BY <2>1 DEF IInv, LoopInv, TypeOK, SendingUp, SendingDown, Wanted, Has, Held
  <2>4. CancelledLate'
    BY <2>1 DEF IInv, CancelledLate, Early
  <2>5. ASSUME NEW n \in Meters \ hasty'
        PROVE  MeterInv(n)'
    <3>1. CASE n = m
      <4>1. runner.meter # m
        BY <2>1 DEF IInv, LoopInv, Wanted, SendingUp
      <4> QED
        BY <2>1, <3>1, <4>1 DEF IInv, MeterInv, RunBy, Quiet, Live, Early, Wanted, SendingUp, SendingDown, Has
    <3>2. CASE n # m
      BY <2>1, <3>2, SameMeter DEF IInv, Rest, SendingUp, SendingDown
    <3> QED
      BY <3>1, <3>2
  <2> QED
    BY <2>2, <2>3, <2>4, <2>5 DEF IInv
<1> QED
  BY <1>1, <1>2

-----------------------------------------------------------------------------
(* Steps of the runner                                                     *)

LEMMA ReceivesUp ==
    ASSUME IInv, NEW w \in Workers, ReceiveUp(w)
    PROVE  IInv'
<1> DEFINE m == loop.sending
           born == [at |-> "start", meter |-> m, def |-> oldMeterMap[m], cancelled |-> FALSE]
<1>1. /\ UNCHANGED <<meterMap, oldMeterMap, runner, ctxMap, stream, hasty>>
      /\ m \in Meters /\ oldMeterMap[m] \in Defs
      /\ loop.at = "up" /\ runner = Selecting /\ worker[w] = Unborn
      /\ worker' = [worker EXCEPT ![w] = born]
      /\ loop' = [loop EXCEPT !.at = "ups", !.sending = NoMeter]
  BY DEF ReceiveUp, IInv, LoopInv, TypeOK, Has
<1>2. born \in WorkerState
  BY <1>1 DEF WorkerState
<1>3. /\ worker' \in [Workers -> WorkerState \cup {Unborn}]
      /\ worker'[w] = born
      /\ \A v \in Workers \ {w} : worker'[v] = worker[v]
      /\ loop'.at = "ups"
      /\ loop' \in [at : {"sleep", "ups", "downs", "up", "down"},
                    todo : SUBSET Meters, sending : Meters \cup {NoMeter}]
  BY <1>1, <1>2 DEF IInv, TypeOK
<1>4. runner.meter \notin Meters
  BY <1>1, NoMeterIsNotAMeter DEF Selecting
<1> HIDE DEF born
<1>5. TypeOK'
  BY <1>1, <1>3 DEF IInv, TypeOK
<1>6. LoopInv'
  BY <1>1, <1>3, <1>4 DEF LoopInv
<1>7. CancelledLate'
  BY <1>1, <1>3, NoMeterIsNotAMeter DEF IInv, TypeOK, CancelledLate, Early, born, Unborn
<1>8. ASSUME NEW n \in Meters \ hasty'
      PROVE  MeterInv(n)'
  <2>1. MeterInv(n)
    BY <1>1, <1>8 DEF IInv
  <2>2. CASE n = m
    <3>1. Quiet(n)
      BY <1>1, <1>4, <2>1, <2>2 DEF MeterInv, Wanted, SendingUp, SendingDown
    <3>2. Live(n)' = {w}
      BY <1>3, <2>2, <3>1 DEF Live, Quiet, born
    <3>3. RunBy(n, w)'
      BY <1>1, <1>3, <3>1, <3>2 DEF RunBy, Early, Quiet, born
    <3>4. worker'[w].def = oldMeterMap'[n]
      BY <1>1, <1>3, <2>2 DEF born
    <3> QED
      BY <1>1, <1>3, <1>4, <2>2, <3>2, <3>3, <3>4, NoDefIsNotADef
         DEF MeterInv, Wanted, SendingUp, SendingDown, Has
  <2>3. CASE n # m
    <3>1. /\ Live(n)' = Live(n)
          /\ \A v \in Live(n) : worker'[v] = worker[v]
      BY <1>1, <1>3, <2>3, NoMeterIsNotAMeter DEF Live, born, Unborn
    <3>2. Wanted(n)' <=> Wanted(n)
      BY <1>1, <1>3, <2>3 DEF Wanted, SendingUp, SendingDown, Has
    <3>3. \A v \in Workers : RunBy(n, v) => RunBy(n, v)'
      BY <1>1, <3>1 DEF RunBy, Early
    <3> QED
      BY <1>1, <1>3, <1>4, <2>1, <2>3, <3>1, <3>2, <3>3
         DEF MeterInv, SendingUp, Has, Quiet
  <2> QED
    BY <2>2, <2>3
<1> QED
  BY <1>5, <1>6, <1>7, <1>8 DEF IInv

LEMMA ReceivesDown ==
    ASSUME IInv, ReceiveDown
    PROVE  IInv'
<1> DEFINE m == loop.sending
<1>1. /\ UNCHANGED <<meterMap, oldMeterMap, ctxMap, worker, stream, hasty>>
      /\ m \in Meters /\ ~Has(oldMeterMap, m)
      /\ loop.at = "down" /\ runner = Selecting
      /\ runner' = [at |-> "cancel", meter |-> m]
      /\ loop'.at = "downs" /\ loop'.todo = loop.todo
      /\ loop' \in [at : {"sleep", "ups", "downs", "up", "down"},
                    todo : SUBSET Meters, sending : Meters \cup {NoMeter}]
  BY DEF ReceiveDown, IInv, LoopInv, TypeOK
<1>2. runner.meter \notin Meters
  BY <1>1, NoMeterIsNotAMeter DEF Selecting
<1>3. TypeOK'
  BY <1>1 DEF IInv, TypeOK
<1>4. LoopInv'
  BY <1>1 DEF IInv, LoopInv, Wanted, SendingUp, SendingDown, Has, Held
<1>5. CancelledLate'
  BY <1>1 DEF IInv, CancelledLate, Early
<1>6. ASSUME NEW n \in Meters \ hasty'
      PROVE  MeterInv(n)'
  <2>1. MeterInv(n)
    BY <1>1, <1>6 DEF IInv
  <2>2. CASE n = m
    <3>1. PICK w \in Workers : RunBy(n, w)
      BY <1>1, <1>2, <2>1, <2>2 DEF MeterInv, Wanted, SendingDown
    <3>2. RunBy(n, w)'
      BY <1>1, <3>1 DEF RunBy, Live, Early
    <3> QED
      BY <1>1, <2>2, <3>2 DEF MeterInv
  <2>3. CASE n # m
    BY <1>1, <1>2, <2>1, <2>3
       DEF MeterInv, RunBy, Quiet, Live, Early, Wanted, SendingUp, SendingDown, Has
  <2> QED
    BY <2>2, <2>3
<1> QED
  BY <1>3, <1>4, <1>5, <1>6 DEF IInv

\* The runner works on a down: m's entry in ctxMap is missing, or it is the
\* goroutine that is cancelled.
LEMMA CancelEffect ==
    ASSUME IInv, CancelConsumer,
           NEW m, m = runner.meter, NEW none \in BOOLEAN, none <=> ctxMap[m] = NoWorker
    PROVE  /\ UNCHANGED <<meterMap, oldMeterMap, ctxMap, loop, stream>>
           /\ m \in Meters /\ runner.at = "cancel"
           /\ hasty' \in {hasty, hasty \cup {m}}
           /\ m \notin hasty' => \A w \in Workers : worker[w].meter = m => ~Early(w)
           /\ none => runner' = Selecting /\ worker' = worker
           /\ ~none => /\ runner' = [at |-> "delete", meter |-> m]
                       /\ ctxMap[m] \in Workers
                       /\ worker[ctxMap[m]].meter = m
                       /\ ~Early(ctxMap[m])
           /\ worker' \in [Workers -> WorkerState \cup {Unborn}]
           /\ \A w \in Workers :
                  /\ worker'[w].meter = worker[w].meter
                  /\ worker'[w].at = worker[w].at
                  /\ worker'[w].def = worker[w].def
                  /\ worker'[w].cancelled <=> worker[w].cancelled \/ (~none /\ w = ctxMap[m])
<1>1. /\ UNCHANGED <<meterMap, oldMeterMap, ctxMap, loop, stream>>
      /\ m \in Meters /\ runner.at = "cancel"
      /\ hasty' \in {hasty, hasty \cup {m}}
      /\ m \notin hasty' => \A w \in Workers : worker[w].meter = m => ~Early(w)
      /\ none => runner' = Selecting /\ worker' = worker
      /\ ~none => /\ runner' = [at |-> "delete", meter |-> m]
                  /\ ctxMap[m] \in Workers
                  /\ worker' = [worker EXCEPT ![ctxMap[m]].cancelled = TRUE]
  BY NoMeterIsNotAMeter DEF CancelConsumer, IInv, TypeOK, Early, Selecting
<1>2. ASSUME ~none
      PROVE  /\ worker[ctxMap[m]] \in WorkerState
             /\ worker[ctxMap[m]].meter = m
             /\ ~Early(ctxMap[m])
  BY <1>1, <1>2, NoMeterIsNotAMeter DEF IInv, TypeOK, CancelledLate, Unborn
<1>3. /\ worker' \in [Workers -> WorkerState \cup {Unborn}]
      /\ \A w \in Workers :
             /\ worker'[w].meter = worker[w].meter
             /\ worker'[w].at = worker[w].at
             /\ worker'[w].def = worker[w].def
             /\ worker'[w].cancelled <=> worker[w].cancelled \/ (~none /\ w = ctxMap[m])
  <2>1. CASE none
    BY <1>1, <2>1 DEF IInv, TypeOK
  <2>2. CASE ~none
    <3> DEFINE c == ctxMap[m]
    <3>1. [worker[c] EXCEPT !.cancelled = TRUE] \in WorkerState
      BY <1>2, <2>2 DEF WorkerState
    <3>2. /\ c \in Workers
          /\ worker' = [worker EXCEPT ![c] = [worker[c] EXCEPT !.cancelled = TRUE]]
      BY <1>1, <2>2
    <3>3. worker' \in [Workers -> WorkerState \cup {Unborn}]
      BY <3>1, <3>2 DEF IInv, TypeOK
    <3>4. ASSUME NEW w \in Workers
          PROVE  /\ worker'[w].meter = worker[w].meter
                 /\ worker'[w].at = worker[w].at
                 /\ worker'[w].def = worker[w].def
                 /\ worker'[w].cancelled <=> worker[w].cancelled \/ w = c
      <4>1. CASE w = c
        BY <1>2, <2>2, <3>2, <4>1 DEF IInv, TypeOK, WorkerState
      <4>2. CASE w # c
        BY <3>2, <4>2 DEF IInv, TypeOK
      <4> QED
        BY <4>1, <4>2
    <3> QED
      BY <2>2, <3>3, <3>4
  <2> QED
    BY <2>1, <2>2
<1> QED
  BY <1>1, <1>2, <1>3

LEMMA Cancels ==
    ASSUME IInv, CancelConsumer
    PROVE  IInv'
<1> DEFINE m == runner.meter
           none == ctxMap[m] = NoWorker
<1>1. /\ UNCHANGED <<meterMap, oldMeterMap, ctxMap, loop, stream>>
      /\ m \in Meters /\ runner.at = "cancel"
      /\ hasty' \in {hasty, hasty \cup {m}}
      /\ m \notin hasty' => \A w \in Workers : worker[w].meter = m => ~Early(w)
      /\ none => runner' = Selecting
      /\ ~none => runner' = [at |-> "delete", meter |-> m]
  BY CancelEffect
<1>2. ~none => /\ ctxMap[m] \in Workers
               /\ worker[ctxMap[m]].meter = m
               /\ ~Early(ctxMap[m])
  BY CancelEffect
<1>3. /\ worker' \in [Workers -> WorkerState \cup {Unborn}]
      /\ \A w \in Workers :
             /\ worker'[w].meter = worker[w].meter
             /\ worker'[w].at = worker[w].at
             /\ worker'[w].def = worker[w].def
             /\ worker'[w].cancelled <=> worker[w].cancelled \/ (~none /\ w = ctxMap[m])
  BY CancelEffect
<1>4. TypeOK'
  BY <1>1, <1>3 DEF IInv, TypeOK, Selecting
<1>5. LoopInv'
  <2>1. runner'.meter \in Meters => runner'.meter = m
    BY <1>1, NoMeterIsNotAMeter DEF Selecting
  <2> QED
    BY <1>1, <2>1 DEF IInv, LoopInv, Wanted, SendingUp, SendingDown, Has, Held
<1>6. CancelledLate'
  BY <1>1, <1>2, <1>3 DEF IInv, CancelledLate, Early, TypeOK
<1>7. ASSUME NEW n \in Meters \ hasty'
      PROVE  MeterInv(n)'
  <2>1. MeterInv(n) /\ ~Wanted(m)
    BY <1>1, <1>7 DEF IInv, LoopInv
  <2>2. CASE n = m
    <3>1. PICK w \in Workers : RunBy(n, w)
      BY <1>1, <2>1, <2>2 DEF MeterInv
    <3>2. w \in Live(n)
      BY <3>1 DEF RunBy
    <3>3. ctxMap[n] = w
      BY <1>1, <1>7, <2>2, <3>1, <3>2 DEF RunBy, Live
    <3>4. ~none /\ Live(n)' = {}
      BY <1>1, <1>3, <2>2, <3>1, <3>3, NoWorkerIsNotAWorker DEF RunBy, Live
    <3> QED
      BY <1>1, <2>2, <3>4 DEF MeterInv
  <2>3. CASE n # m
    <3>1. Live(n)' = Live(n)
      BY <1>2, <1>3, <2>3 DEF Live
    <3>2. \A v \in Workers : RunBy(n, v) => RunBy(n, v)'
      BY <1>1, <1>3, <3>1 DEF RunBy, Early
    <3>3. runner.meter # n /\ runner'.meter # n
      BY <1>1, <2>3, NoMeterIsNotAMeter DEF Selecting
    <3>4. (Wanted(n)' <=> Wanted(n)) /\ (SendingUp(n)' <=> SendingUp(n))
      BY <1>1 DEF Wanted, SendingUp, SendingDown, Has
    <3>5. Live(n) \subseteq Workers
      BY DEF Live
    <3> QED
      BY <1>1, <1>3, <2>1, <3>1, <3>2, <3>3, <3>4, <3>5 DEF MeterInv, Has, Quiet
  <2> QED
    BY <2>2, <2>3
<1> QED
  BY <1>1, <1>4, <1>5, <1>6, <1>7 DEF IInv

LEMMA Deletes ==
    ASSUME IInv, DeleteConsumer
    PROVE  IInv'
<1> DEFINE m == runner.meter
<1>1. /\ UNCHANGED <<meterMap, oldMeterMap, loop, worker, stream, hasty>>
      /\ m \in Meters /\ runner.at = "delete"
      /\ runner' = Selecting
      /\ ctxMap' \in [Meters -> Workers \cup {NoWorker}]
      /\ ctxMap'[m] = NoWorker
      /\ \A n \in Meters \ {m} : ctxMap'[n] = ctxMap[n]
  BY DEF DeleteConsumer, IInv, TypeOK, Selecting
<1>2. runner'.meter \notin Meters
  BY <1>1, NoMeterIsNotAMeter DEF Selecting
<1>3. TypeOK'
  BY <1>1 DEF IInv, TypeOK
<1>4. LoopInv'
  BY <1>1, <1>2 DEF IInv, LoopInv, Has, Held
<1>5. CancelledLate'
  BY <1>1 DEF IInv, CancelledLate, Early
<1>6. ASSUME NEW n \in Meters \ hasty'
      PROVE  MeterInv(n)'
  <2>1. MeterInv(n) /\ ~Wanted(m)
    BY <1>1, <1>6 DEF IInv, LoopInv
  <2>2. (Wanted(n)' <=> Wanted(n)) /\ (SendingUp(n)' <=> SendingUp(n)) /\ Live(n)' = Live(n)
    BY <1>1 DEF Wanted, SendingUp, SendingDown, Has, Live
  <2>3. CASE n = m
    BY <1>1, <1>2, <2>1, <2>2, <2>3 DEF MeterInv, Quiet, Wanted
  <2>4. CASE n # m
    BY <1>1, <1>2, <2>1, <2>2, <2>4 DEF MeterInv, Quiet, RunBy, Early, Has
  <2> QED
    BY <2>3, <2>4
<1> QED
  BY <1>3, <1>4, <1>5, <1>6 DEF IInv

-----------------------------------------------------------------------------
(* Steps of a goroutine                                                    *)

\* A goroutine goes on: nothing but its place in the code changes.
LEMMA GoesOn ==
    ASSUME IInv, NEW w \in Workers, NEW step, worker[w] # Unborn, GoTo(w, step),
           step \in {"checked", "create", "nostream", "retry", "consume", "done"}
    PROVE  /\ worker' \in [Workers -> WorkerState \cup {Unborn}]
           /\ worker'[w].at = step
           /\ \A v \in Workers \ {w} : worker'[v] = worker[v]
           /\ \A v \in Workers : /\ worker'[v].meter = worker[v].meter
                                 /\ worker'[v].def = worker[v].def
                                 /\ worker'[v].cancelled = worker[v].cancelled
           /\ \A m \in Meters : Live(m)' = Live(m)
<1>1. worker[w] \in WorkerState
  BY DEF IInv, TypeOK
<1>2. [worker[w] EXCEPT !.at = step] \in WorkerState
  BY <1>1 DEF WorkerState
<1>3. worker' = [worker EXCEPT ![w] = [worker[w] EXCEPT !.at = step]]
  BY DEF GoTo
<1>4. worker' \in [Workers -> WorkerState \cup {Unborn}]
  BY <1>2, <1>3 DEF IInv, TypeOK
<1>5. /\ worker'[w].at = step
      /\ worker'[w].meter = worker[w].meter
      /\ worker'[w].def = worker[w].def
      /\ worker'[w].cancelled = worker[w].cancelled
  BY <1>1, <1>3 DEF IInv, TypeOK, WorkerState
<1>6. \A v \in Workers \ {w} : worker'[v] = worker[v]
  BY <1>3 DEF IInv, TypeOK
<1>7. \A v \in Workers : /\ worker'[v].meter = worker[v].meter
                         /\ worker'[v].def = worker[v].def
                         /\ worker'[v].cancelled = worker[v].cancelled
  BY <1>5, <1>6
<1>8. \A m \in Meters : Live(m)' = Live(m)
  BY <1>7 DEF Live
<1> QED
  BY <1>4, <1>5, <1>6, <1>7, <1>8

\* The goroutines' steps on one side, ctxMap of one meter on the other.
LEMMA Goes ==
    ASSUME IInv, NEW w \in Workers, Goroutine(w)
    PROVE  IInv'
<1> DEFINE k == worker[w].meter
<1>1. /\ UNCHANGED <<meterMap, oldMeterMap, loop, runner, hasty>>
      /\ stream' \in BOOLEAN
      /\ worker[w].at \in {"start", "checked", "create", "nostream", "retry"}
  BY DEF Goroutine, CheckRunning, KeepCancel, CreateConsumer, CreateStream, IInv, TypeOK
<1>2. worker[w] # Unborn /\ worker[w] \in WorkerState /\ k \in Meters
  BY <1>1 DEF IInv, TypeOK, Unborn, WorkerState
<1>3. PICK step \in {"checked", "create", "nostream", "retry", "consume", "done"} :
          /\ GoTo(w, step)
          /\ step = "checked" => worker[w].at = "start"
          /\ worker[w].at = "start" /\ step # "checked" => ctxMap[k] # NoWorker
          /\ worker[w].at = "start" => step \in {"checked", "done"}
          /\ worker[w].at = "checked" => ctxMap' = [ctxMap EXCEPT ![k] = w]
          /\ worker[w].at # "checked" => ctxMap' = ctxMap
  BY <1>1 DEF Goroutine, CheckRunning, KeepCancel, CreateConsumer, CreateStream
<1>4. /\ worker' \in [Workers -> WorkerState \cup {Unborn}]
      /\ worker'[w].at = step
      /\ \A v \in Workers \ {w} : worker'[v] = worker[v]
      /\ \A v \in Workers : /\ worker'[v].meter = worker[v].meter
                            /\ worker'[v].def = worker[v].def
                            /\ worker'[v].cancelled = worker[v].cancelled
      /\ \A m \in Meters : Live(m)' = Live(m)
  BY <1>2, <1>3, GoesOn
<1>5. /\ ctxMap' \in [Meters -> Workers \cup {NoWorker}]
      /\ \A m \in Meters \ {k} : ctxMap'[m] = ctxMap[m]
      /\ worker[w].at = "checked" => ctxMap'[k] = w
      /\ worker[w].at # "checked" => ctxMap'[k] = ctxMap[k]
  BY <1>2, <1>3 DEF IInv, TypeOK
<1>6. TypeOK'
  BY <1>1, <1>4, <1>5 DEF IInv, TypeOK
<1>7. LoopInv'
  BY <1>1 DEF IInv, LoopInv, Wanted, SendingUp, SendingDown, Has, Held
<1>8. CancelledLate'
  BY <1>1, <1>2, <1>3, <1>4, <1>5 DEF IInv, CancelledLate, Early, TypeOK
<1>9. ASSUME NEW n \in Meters \ hasty'
      PROVE  MeterInv(n)'
  <2>1. MeterInv(n)
    BY <1>1, <1>9 DEF IInv
  <2>2. /\ Wanted(n)' <=> Wanted(n)
        /\ SendingUp(n)' <=> SendingUp(n)
        /\ oldMeterMap'[n] = oldMeterMap[n]
        /\ Has(oldMeterMap, n)' <=> Has(oldMeterMap, n)
        /\ Live(n)' = Live(n) /\ Live(n) \subseteq Workers
    BY <1>1, <1>4 DEF Wanted, SendingUp, SendingDown, Has, Live
  <2>3. CASE n = k
    <3>1. CASE w \in Live(n)
      <4>1. RunBy(n, w)
        <5>1. runner.meter = n => runner.at \in {"cancel", "delete"}
          BY <1>9, NoMeterIsNotAMeter DEF IInv, TypeOK, Selecting
        <5>2. \E v \in Workers : RunBy(n, v)
          BY <2>1, <3>1, <5>1 DEF MeterInv, Quiet
        <5> QED
          BY <3>1, <5>2 DEF RunBy
      <4>2. RunBy(n, w)'
        BY <1>1, <1>3, <1>4, <1>5, <2>2, <2>3, <4>1 DEF RunBy, Early
      <4> QED
        BY <1>1, <1>4, <2>1, <2>2, <3>1, <4>2 DEF MeterInv, Quiet
    <3>2. CASE w \notin Live(n)
      <4>1. ~Early(w) /\ worker[w].cancelled
        BY <2>3, <3>2 DEF IInv, CancelledLate, Live
      <4>2. ctxMap'[n] = ctxMap[n]
        BY <1>5, <2>3, <4>1 DEF Early
      <4>3. \A v \in Workers : RunBy(n, v) => RunBy(n, v)'
        BY <1>4, <2>2, <3>2, <4>2 DEF RunBy, Early
      <4> QED
        BY <1>1, <1>4, <2>1, <2>2, <4>2, <4>3 DEF MeterInv, Quiet
    <3> QED
      BY <3>1, <3>2
  <2>4. CASE n # k
    <3>1. w \notin Live(n)
      BY <2>4 DEF Live
    <3>2. \A v \in Workers : RunBy(n, v) => RunBy(n, v)'
      BY <1>4, <1>5, <2>2, <2>4, <3>1 DEF RunBy, Early
    <3> QED
      BY <1>1, <1>4, <1>5, <2>1, <2>2, <2>4, <3>2 DEF MeterInv, Quiet
  <2> QED
    BY <2>3, <2>4
<1> QED
  BY <1>1, <1>6, <1>7, <1>8, <1>9 DEF IInv

-----------------------------------------------------------------------------
(* The invariants                                                          *)

LEMMA InitInv == Init => IInv
<1> SUFFICES ASSUME Init PROVE IInv
  OBVIOUS
<1>1. TypeOK /\ LoopInv /\ CancelledLate
  BY NoMeterIsNotAMeter
     DEF Init, TypeOK, LoopInv, CancelledLate, Selecting, Unborn, Wanted, Has, SendingDown
<1>2. ASSUME NEW m \in Meters PROVE MeterInv(m)
  <2>1. Quiet(m) /\ ~Wanted(m) /\ runner.meter # m /\ ~Has(oldMeterMap, m)
    BY NoMeterIsNotAMeter
       DEF Init, Quiet, Live, Unborn, Wanted, SendingDown, Has, Selecting
  <2> QED
    BY <2>1 DEF MeterInv
<1> QED
  BY <1>1, <1>2 DEF IInv

LEMMA NextInv == IInv /\ [Next]_vars => IInv'
<1> SUFFICES ASSUME IInv, [Next]_vars PROVE IInv'
  OBVIOUS
<1>1. CASE UNCHANGED vars
  BY <1>1 DEF vars, IInv, TypeOK, LoopInv, CancelledLate, MeterInv, Held, Has, Wanted,
     SendingUp, SendingDown, RunBy, Quiet, Live, Early
<1>2. CASE Loop
  BY <1>2, Ranges, FindsUp, FindsDown DEF Loop
<1>3. CASE Runner
  BY <1>3, ReceivesUp, ReceivesDown, Cancels, Deletes DEF Runner
<1> QED
  BY <1>1, <1>2, <1>3, Handlers, Goes DEF Next

THEOREM Invariant == Spec => []IInv
<1> QED
  BY InitInv, NextInv, PTL DEF Spec

\* Every variable of the reconciler keeps its type; in particular the loop
\* hands over only meters it has a definition for.
THEOREM TypeCorrect == Spec => []TypeOK
<1>1. IInv => TypeOK
  BY DEF IInv
<1> QED
  BY <1>1, Invariant, PTL

\* A removed meter has no goroutine left that nobody has told to stop.
THEOREM Silenced == Spec => []RemovedMeterSilenced
<1>1. IInv => RemovedMeterSilenced
  BY DEF IInv, MeterInv, RemovedMeterSilenced, GoingDown, Wanted, SendingDown, Quiet
<1> QED
  BY <1>1, Invariant, PTL

\* A meter has at most one goroutine that is not cancelled, which is the one
\* in ctxMap and works with the definition the loop holds.
THEOREM OneTracked == Spec => []OneTrackedConsumer
<1>1. IInv => OneTrackedConsumer
  <2> SUFFICES ASSUME IInv, NEW m \in Meters \ hasty, NEW w \in Live(m)
               PROVE  /\ Live(m) = {w}
                      /\ worker[w].at \notin {"start", "checked"} => ctxMap[m] = w
                      /\ ~GoingDown(m) => worker[w].def = oldMeterMap[m]
    BY DEF OneTrackedConsumer
  <2>1. MeterInv(m)
    BY DEF IInv
  <2>2. runner.meter = m => runner.at \in {"cancel", "delete"}
    BY NoMeterIsNotAMeter DEF IInv, TypeOK, Selecting
  <2>3. PICK v \in Workers : RunBy(m, v)
    BY <2>1, <2>2 DEF MeterInv, Quiet
  <2>4. v = w
    BY <2>3 DEF RunBy
  <2>5. ~GoingDown(m) => runner.meter # m /\ Has(oldMeterMap, m) /\ ~SendingUp(m)
    BY <2>1, <2>2 DEF GoingDown, MeterInv, Quiet, Wanted, SendingDown
  <2> QED
    BY <2>1, <2>3, <2>4, <2>5 DEF RunBy, Early, MeterInv
<1> QED
  BY <1>1, Invariant, PTL

\* A meter that was handed over has its goroutine, which ctxMap never turns away.
THEOREM Served == Spec => []HandedOverIsServed
<1>1. IInv => HandedOverIsServed
  <2> SUFFICES ASSUME IInv, NEW m \in Meters \ hasty, Has(oldMeterMap, m), ~SendingUp(m)
               PROVE  \E w \in Live(m) :
                          ctxMap[m] = IF worker[w].at \in {"start", "checked"} THEN NoWorker ELSE w
    BY DEF HandedOverIsServed, SendingUp
  <2>1. Wanted(m) /\ runner.meter # m
    BY DEF IInv, LoopInv, Wanted
  <2>2. PICK w \in Workers : RunBy(m, w)
    BY <2>1 DEF IInv, MeterInv
  <2> QED
    BY <2>2 DEF RunBy, Early
<1> QED
  BY <1>1, Invariant, PTL

-----------------------------------------------------------------------------
(* The bound on goroutines                                                 *)

Free == {w \in Workers : worker[w] = Unborn}
Coming == Held(meterMap) \ Held(oldMeterMap)

\* There is a goroutine for every meter still to come up.
EnoughFor(coming, free) ==
    /\ IsFiniteSet(coming) /\ IsFiniteSet(free)
    /\ Cardinality(coming) + (IF loop.at = "up" THEN 1 ELSE 0) <= Cardinality(free)

Enough == EnoughFor(Coming, Free)

\* Fewer meters to come, and the goroutines stay free.
LEMMA FewerComing ==
    ASSUME Enough, Free' = Free, Coming' \subseteq Coming, loop'.at = "up" <=> loop.at = "up"
    PROVE  Enough'
<1>1. IsFiniteSet(Coming') /\ Cardinality(Coming') <= Cardinality(Coming)
  BY FS_Subset DEF Enough, EnoughFor
<1>2. Cardinality(Coming) \in Nat /\ Cardinality(Coming') \in Nat /\ Cardinality(Free) \in Nat
  BY <1>1, FS_CardinalityType DEF Enough, EnoughFor
<1>3. Cardinality(Coming') + (IF loop'.at = "up" THEN 1 ELSE 0) <= Cardinality(Free)
  BY <1>1, <1>2 DEF Enough, EnoughFor
<1> QED
  BY <1>1, <1>3 DEF Enough, EnoughFor

\* A new meter comes only when a goroutine is to spare.
LEMMA AddsToSpare ==
    ASSUME TypeOK, Enough, NEW m \in Meters, NEW d \in Defs, AddMeterToConsume(m, d)
    PROVE  Enough'
<1>1. /\ UNCHANGED <<oldMeterMap, loop, worker>>
      /\ meterMap' = [meterMap EXCEPT ![m] = d] /\ d # NoDef
      /\ Has(meterMap, m) \/ Has(oldMeterMap, m) \/ SpareWorkers > 0
  BY NoDefIsNotADef DEF AddMeterToConsume
<1>2. Free' = Free
  BY <1>1 DEF Free
<1>3. Coming' = IF Has(oldMeterMap, m) THEN Coming ELSE Coming \cup {m}
  BY <1>1 DEF Coming, Held, Has, TypeOK
<1>4. CASE Has(meterMap, m) \/ Has(oldMeterMap, m)
  <2>1. Coming' \subseteq Coming
    BY <1>3, <1>4 DEF Coming, Held
  <2> QED
    BY <1>1, <1>2, <2>1, FewerComing
<1>5. CASE SpareWorkers > 0 /\ ~Has(oldMeterMap, m) /\ ~Has(meterMap, m)
  <2>1. /\ IsFiniteSet(Coming) /\ IsFiniteSet(Free)
        /\ Cardinality(Free) - Cardinality(Coming) - (IF loop.at = "up" THEN 1 ELSE 0) > 0
    BY <1>5 DEF Enough, EnoughFor, SpareWorkers, Free, Coming
  <2>2. /\ IsFiniteSet(Coming \cup {m})
        /\ Cardinality(Coming \cup {m}) = Cardinality(Coming) + 1
    <3>1. m \notin Coming
      BY <1>5 DEF Coming, Held
    <3> QED
      BY <2>1, <3>1, FS_AddElement
  <2>3. Cardinality(Coming) \in Nat /\ Cardinality(Free) \in Nat
    BY <2>1, FS_CardinalityType
  <2>4. Cardinality(Coming \cup {m}) + (IF loop.at = "up" THEN 1 ELSE 0) <= Cardinality(Free)
    BY <2>1, <2>2, <2>3
  <2>5. Coming' = Coming \cup {m} /\ loop' = loop
    BY <1>1, <1>3, <1>5
  <2> QED
    BY <1>2, <2>1, <2>2, <2>4, <2>5 DEF Enough, EnoughFor
<1> QED
  BY <1>1, <1>4, <1>5

\* A meter the loop sends no longer comes, and the loop waits with it.
LEMMA SentOnce ==
    ASSUME TypeOK, Enough, NEW m \in Meters, FindUp(m)
    PROVE  Enough'
<1>1. /\ loop.at = "ups" /\ loop'.at = "up" /\ Free' = Free
      /\ Has(meterMap, m) /\ ~Has(oldMeterMap, m) /\ meterMap' = meterMap
      /\ oldMeterMap' = [oldMeterMap EXCEPT ![m] = meterMap[m]]
  BY DEF FindUp, Free
<1>2. m \in Coming /\ Coming' = Coming \ {m}
  BY <1>1 DEF Coming, Held, Has, TypeOK
<1>3. /\ IsFiniteSet(Coming \ {m})
      /\ Cardinality(Coming \ {m}) = Cardinality(Coming) - 1
  BY <1>2, FS_RemoveElement DEF Enough, EnoughFor
<1>4. /\ Cardinality(Coming) \in Nat /\ Cardinality(Free) \in Nat
      /\ Cardinality(Coming) <= Cardinality(Free) /\ IsFiniteSet(Free)
  BY <1>1, FS_CardinalityType DEF Enough, EnoughFor
<1>5. Cardinality(Coming \ {m}) + 1 <= Cardinality(Free)
  BY <1>3, <1>4
<1> QED
  BY <1>1, <1>2, <1>3, <1>4, <1>5 DEF Enough, EnoughFor

\* The runner takes the goroutine that was kept for the meter.
LEMMA TakesOne ==
    ASSUME TypeOK, Enough, NEW w \in Workers, ReceiveUp(w)
    PROVE  Enough'
<1>1. /\ loop.at = "up" /\ loop'.at = "ups" /\ Coming' = Coming
      /\ worker[w] = Unborn /\ worker' \in [Workers -> {worker'[v] : v \in Workers}]
      /\ worker'[w] # Unborn /\ \A v \in Workers \ {w} : worker'[v] = worker[v]
  BY DEF ReceiveUp, Coming, Unborn, TypeOK
<1>2. w \in Free /\ Free' = Free \ {w}
  BY <1>1 DEF Free
<1>3. /\ IsFiniteSet(Free \ {w})
      /\ Cardinality(Free \ {w}) = Cardinality(Free) - 1
  BY <1>2, FS_RemoveElement DEF Enough, EnoughFor
<1>4. /\ Cardinality(Coming) \in Nat /\ Cardinality(Free) \in Nat
      /\ Cardinality(Coming) + 1 <= Cardinality(Free) /\ IsFiniteSet(Coming)
  BY <1>1, FS_CardinalityType DEF Enough, EnoughFor
<1>5. Cardinality(Coming) <= Cardinality(Free \ {w})
  BY <1>3, <1>4
<1>6. Cardinality(Coming) + 0 <= Cardinality(Free \ {w})
  BY <1>4, <1>5
<1> QED
  BY <1>1, <1>2, <1>3, <1>4, <1>6 DEF Enough, EnoughFor

\* Nobody is born by a cancel or by a step of a goroutine, and nobody unborn
\* takes one.
LEMMA NobodyBorn ==
    ASSUME IInv, CancelConsumer \/ \E w \in Workers : Goroutine(w)
    PROVE  Free' = Free
<1>1. \A v \in WorkerState \cup {Unborn} : v = Unborn <=> v.at = "unborn"
  BY DEF WorkerState, Unborn
<1>2. ASSUME CancelConsumer PROVE Free' = Free
  <2>1. /\ worker' \in [Workers -> WorkerState \cup {Unborn}]
        /\ \A w \in Workers : worker'[w].at = worker[w].at
    BY <1>2, CancelEffect
  <2>2. worker \in [Workers -> WorkerState \cup {Unborn}]
    BY DEF IInv, TypeOK
  <2> QED
    BY <1>1, <2>1, <2>2 DEF Free
<1>3. ASSUME NEW w \in Workers, Goroutine(w) PROVE Free' = Free
  <2>1. worker[w].at \in {"start", "checked", "create", "nostream", "retry"}
    BY <1>3 DEF Goroutine, CheckRunning, KeepCancel, CreateConsumer, CreateStream
  <2>2. PICK step \in {"checked", "create", "nostream", "retry", "consume", "done"} :
            GoTo(w, step)
    BY <1>3 DEF Goroutine, CheckRunning, KeepCancel, CreateConsumer, CreateStream
  <2>3. worker[w] # Unborn
    BY <2>1 DEF Unborn
  <2>4. /\ worker'[w].at = step
        /\ \A v \in Workers \ {w} : worker'[v] = worker[v]
    BY <2>2, <2>3, GoesOn
  <2>5. worker'[w] # Unborn
    BY <2>4 DEF Unborn
  <2> QED
    BY <2>3, <2>4, <2>5 DEF Free
<1> QED
  BY <1>2, <1>3

LEMMA EnoughInductive == IInv /\ Enough /\ [Next]_vars => Enough'
<1> SUFFICES ASSUME IInv, Enough, [Next]_vars PROVE Enough'
  OBVIOUS
<1>1. TypeOK
  BY DEF IInv
<1>2. ASSUME Free' = Free, meterMap' = meterMap, oldMeterMap' = oldMeterMap,
             loop'.at = "up" <=> loop.at = "up"
      PROVE  Enough'
  <2>1. Coming' = Coming
    BY <1>2 DEF Coming
  <2> QED
    BY <1>2, <2>1, FewerComing
<1>3. CASE UNCHANGED vars
  BY <1>2, <1>3 DEF vars, Free
<1>4. ASSUME NEW m \in Meters, RemoveMeterFromConsume(m) PROVE Enough'
  <2>1. /\ Free' = Free /\ oldMeterMap' = oldMeterMap
        /\ meterMap' = [meterMap EXCEPT ![m] = NoDef]
        /\ loop'.at = loop.at
    BY <1>1, <1>4 DEF RemoveMeterFromConsume, Free, TypeOK
  <2>2. Coming' \subseteq Coming
    BY <1>1, <2>1 DEF Coming, Held, Has, TypeOK
  <2> QED
    BY <2>1, <2>2, FewerComing
<1>5. ASSUME NEW m \in Meters, FindDown(m) PROVE Enough'
  <2>1. /\ Free' = Free /\ meterMap' = meterMap
        /\ loop.at # "up" /\ loop'.at # "up"
        /\ \/ oldMeterMap' = oldMeterMap
           \/ oldMeterMap' = [oldMeterMap EXCEPT ![m] = NoDef] /\ ~Has(meterMap, m)
    BY <1>1, <1>5 DEF FindDown, Free, TypeOK
  <2>2. Coming' \subseteq Coming
    BY <1>1, <2>1 DEF Coming, Held, Has, TypeOK
  <2> QED
    BY <2>1, <2>2, FewerComing
<1>6. CASE StartRange \/ EndUps \/ EndDowns
  BY <1>1, <1>2, <1>6 DEF StartRange, EndUps, EndDowns, Free, TypeOK
<1>7. CASE ReceiveDown \/ DeleteConsumer
  BY <1>1, <1>2, <1>7 DEF ReceiveDown, DeleteConsumer, Free, TypeOK
<1>8. CASE CancelConsumer \/ \E w \in Workers : Goroutine(w)
  <2>1. /\ meterMap' = meterMap /\ oldMeterMap' = oldMeterMap /\ loop' = loop
    BY <1>8 DEF CancelConsumer, Goroutine, CheckRunning, KeepCancel, CreateConsumer, CreateStream
  <2> QED
    BY <1>2, <1>8, <2>1, NobodyBorn
<1> QED
  BY <1>1, <1>3, <1>4, <1>5, <1>6, <1>7, <1>8, AddsToSpare, SentOnce, TakesOne
     DEF Next, Loop, Runner

\* The number of goroutines, which is the bound of the model, never makes the
\* runner wait: when a meter is sent to it and it selects, it can receive.
THEOREM RunnerCanReceive ==
    ASSUME IsFiniteSet(Workers)
    PROVE  Spec => [](loop.at = "up" => \E w \in Workers : worker[w] = Unborn)
<1>1. Init => Enough
  <2> SUFFICES ASSUME Init PROVE Enough
    OBVIOUS
  <2>1. Coming = {} /\ loop.at # "up"
    BY DEF Init, Coming, Held, Has
  <2>2. IsFiniteSet(Free)
    BY FS_Subset DEF Free
  <2>3. Cardinality(Free) \in Nat
    BY <2>2, FS_CardinalityType
  <2>4. IsFiniteSet(Coming) /\ Cardinality(Coming) = 0
    BY <2>1, FS_EmptySet
  <2>5. Cardinality(Coming) + 0 <= Cardinality(Free)
    BY <2>3, <2>4
  <2> QED
    BY <2>1, <2>2, <2>4, <2>5 DEF Enough, EnoughFor
<1>2. Enough => (loop.at = "up" => \E w \in Workers : worker[w] = Unborn)
  <2> SUFFICES ASSUME Enough, loop.at = "up", Free = {} PROVE FALSE
    BY DEF Free
  <2>1. Cardinality(Coming) \in Nat /\ Cardinality(Coming) + 1 <= Cardinality(Free)
    BY FS_CardinalityType DEF Enough, EnoughFor
  <2>2. Cardinality(Free) = 0
    BY FS_EmptySet
  <2> QED
    BY <2>1, <2>2
<1> QED
  BY <1>1, <1>2, EnoughInductive, Invariant, PTL DEF Spec

-----------------------------------------------------------------------------
(* Refinement                                                              *)

\* A step that starts and cancels nobody does not show.
LEMMA NoLifeStep ==
    ASSUME \A m \in Meters : Live(m)' = Live(m), hasty' = hasty
    PROVE  UNCHANGED Life!vars
<1>1. \A m \in Meters : Tracked(m)' = Tracked(m)
  BY DEF Tracked
<1> QED
  BY <1>1 DEF Life!vars

\* A step that shows changes what is tracked for one meter.
LEMMA OneLifeChanges ==
    ASSUME NEW m \in Meters, NEW S,
           \A n \in Meters \ {m} : Live(n)' = Live(n),
           \A n \in Meters \ {m} : n \in hasty' <=> n \in hasty,
           Tracked(m)' = S
    PROVE  [n \in Meters |-> Tracked(n)]' =
               [[n \in Meters |-> Tracked(n)] EXCEPT ![m] = S]
<1>1. \A n \in Meters \ {m} : Tracked(n)' = Tracked(n)
  BY DEF Tracked
<1> QED
  BY <1>1

LEMMA ReceiveUpStarts ==
    ASSUME IInv, NEW w \in Workers, ReceiveUp(w), NEW m, m = loop.sending
    PROVE  Life!Next \/ UNCHANGED Life!vars
<1>1. /\ hasty' = hasty
      /\ m \in Meters /\ SendingUp(m) /\ runner.meter \notin Meters
      /\ worker[w] = Unborn
      /\ worker'[w].meter = m /\ worker'[w].cancelled = FALSE
      /\ \A v \in Workers \ {w} : worker'[v] = worker[v]
  BY NoMeterIsNotAMeter DEF ReceiveUp, IInv, LoopInv, TypeOK, SendingUp, Selecting
<1>2. \A n \in Meters : w \notin Live(n)
  BY <1>1, NoMeterIsNotAMeter DEF Live, Unborn
<1>3. \A n \in Meters \ {m} : Live(n)' = Live(n)
  BY <1>1, <1>2 DEF Live
<1>4. CASE m \in hasty
  <2>1. Tracked(m)' = {} /\ Tracked(m) = {}
    BY <1>1, <1>4 DEF Tracked
  <2>2. \A n \in Meters \ {m} : Tracked(n)' = Tracked(n)
    BY <1>1, <1>3 DEF Tracked
  <2> QED
    BY <1>1, <2>1, <2>2 DEF Life!vars
<1>5. CASE m \notin hasty
  <2>1. Live(m) = {}
    BY <1>1, <1>5 DEF IInv, MeterInv, Wanted, SendingUp, SendingDown, Quiet
  <2>2. Tracked(m)' = {w}
    BY <1>1, <1>5, <2>1 DEF Tracked, Live
  <2>3. [n \in Meters |-> Tracked(n)]' =
            [[n \in Meters |-> Tracked(n)] EXCEPT ![m] = {w}]
    BY <1>1, <1>3, <2>2, OneLifeChanges
  <2>4. Tracked(m) = {} /\ \A n \in Meters : w \notin Tracked(n)
    BY <1>2, <2>1 DEF Tracked
  <2>5. Life!Start(m, w)
    BY <1>1, <1>5, <2>3, <2>4 DEF Life!Start
  <2> QED
    BY <1>1, <2>5 DEF Life!Next
<1> QED
  BY <1>4, <1>5

LEMMA CancelStops ==
    ASSUME IInv, CancelConsumer,
           NEW m, m = runner.meter, NEW none \in BOOLEAN, none <=> ctxMap[m] = NoWorker
    PROVE  Life!Next \/ UNCHANGED Life!vars
<1>1. /\ m \in Meters /\ runner.at = "cancel"
      /\ hasty' \in {hasty, hasty \cup {m}}
      /\ m \notin hasty' => \A w \in Workers : worker[w].meter = m => ~Early(w)
      /\ ~none => ctxMap[m] \in Workers /\ worker[ctxMap[m]].meter = m
  BY CancelEffect
<1>2. \A w \in Workers :
          /\ worker'[w].meter = worker[w].meter
          /\ worker'[w].cancelled <=> worker[w].cancelled \/ (~none /\ w = ctxMap[m])
  BY CancelEffect
<1>3. \A n \in Meters \ {m} : Live(n)' = Live(n)
  BY <1>1, <1>2 DEF Live
<1>4. \A n \in Meters \ {m} : n \in hasty' <=> n \in hasty
  BY <1>1
<1>5. CASE m \in hasty
  <2>1. hasty' = hasty
    BY <1>1, <1>5
  <2>2. Tracked(m)' = {} /\ Tracked(m) = {}
    BY <1>5, <2>1 DEF Tracked
  <2>3. \A n \in Meters \ {m} : Tracked(n)' = Tracked(n)
    BY <1>3, <2>1 DEF Tracked
  <2> QED
    BY <1>1, <2>1, <2>2, <2>3 DEF Life!vars
<1>6. CASE m \notin hasty /\ m \in hasty'
  <2>1. Tracked(m)' = {}
    BY <1>6 DEF Tracked
  <2>2. [n \in Meters |-> Tracked(n)]' =
            [[n \in Meters |-> Tracked(n)] EXCEPT ![m] = {}]
    BY <1>1, <1>3, <1>4, <2>1, OneLifeChanges
  <2>3. (Meters \ hasty)' = (Meters \ hasty) \ {m}
    BY <1>1, <1>6
  <2>4. Life!Blur(m)
    BY <2>2, <2>3 DEF Life!Blur
  <2> QED
    BY <1>1, <2>4 DEF Life!Next
<1>7. CASE m \notin hasty'
  <2>1. m \notin hasty /\ hasty' = hasty
    BY <1>1, <1>7
  <2>2. PICK w \in Workers : RunBy(m, w)
    BY <1>1, <2>1 DEF IInv, MeterInv
  <2>3. Live(m) = {w} /\ worker[w].meter = m
    BY <2>2 DEF RunBy, Live
  <2>4. ctxMap[m] = w
    BY <1>1, <1>7, <2>2, <2>3 DEF RunBy
  <2>5. ~none
    BY <2>4, NoWorkerIsNotAWorker
  <2>6. \A v \in Workers : worker'[v].meter = m => worker'[v].cancelled
    BY <1>2, <2>3, <2>4, <2>5 DEF Live
  <2>7. Tracked(m)' = {}
    BY <2>6 DEF Tracked, Live
  <2>8. [n \in Meters |-> Tracked(n)]' =
            [[n \in Meters |-> Tracked(n)] EXCEPT ![m] = {}]
    BY <1>1, <1>3, <1>4, <2>7, OneLifeChanges
  <2>9. Tracked(m) # {}
    BY <2>1, <2>3 DEF Tracked
  <2>10. Life!Stop(m)
    BY <1>1, <2>1, <2>8, <2>9 DEF Life!Stop
  <2> QED
    BY <1>1, <2>10 DEF Life!Next
<1> QED
  BY <1>1, <1>5, <1>6, <1>7

LEMMA NextLife == IInv /\ [Next]_vars => [Life!Next]_(Life!vars)
<1> SUFFICES ASSUME IInv, [Next]_vars PROVE Life!Next \/ UNCHANGED Life!vars
  OBVIOUS
<1>1. CASE UNCHANGED <<worker, hasty>>
  <2>1. \A m \in Meters : Live(m)' = Live(m)
    BY <1>1 DEF Live
  <2> QED
    BY <1>1, <2>1, NoLifeStep
<1>2. ASSUME NEW w \in Workers, Goroutine(w)
      PROVE  UNCHANGED Life!vars
  <2>1. worker[w].at \in {"start", "checked", "create", "nostream", "retry"} /\ hasty' = hasty
    BY <1>2 DEF Goroutine, CheckRunning, KeepCancel, CreateConsumer, CreateStream
  <2>2. PICK step \in {"checked", "create", "nostream", "retry", "consume", "done"} :
            GoTo(w, step)
    BY <1>2 DEF Goroutine, CheckRunning, KeepCancel, CreateConsumer, CreateStream
  <2>3. worker[w] # Unborn
    BY <2>1 DEF Unborn
  <2> QED
    BY <2>1, <2>2, <2>3, GoesOn, NoLifeStep
<1>3. CASE Runner
  <2>1. CASE ReceiveDown \/ DeleteConsumer
    BY <1>1, <2>1 DEF ReceiveDown, DeleteConsumer
  <2> QED
    BY <1>3, <2>1, ReceiveUpStarts, CancelStops DEF Runner
<1>4. CASE Loop
  BY <1>1, <1>4 DEF Loop, StartRange, EndUps, EndDowns, FindUp, FindDown
<1>5. CASE \E m \in Meters : (\E d \in Defs : AddMeterToConsume(m, d)) \/ RemoveMeterFromConsume(m)
  BY <1>1, <1>5 DEF AddMeterToConsume, RemoveMeterFromConsume
<1>6. CASE UNCHANGED vars
  BY <1>1, <1>6 DEF vars
<1> QED
  BY <1>2, <1>3, <1>4, <1>5, <1>6 DEF Next

\* The reconciler is a ConsumerLife: it starts a goroutine for a meter only
\* when every earlier one has been told to stop.
THEOREM Refinement == Spec => ImplementsConsumerLife
<1>1. Init => Life!Init
  <2> SUFFICES ASSUME Init PROVE Life!Init
    OBVIOUS
  <2>1. \A m \in Meters : Tracked(m) = {}
    BY NoMeterIsNotAMeter DEF Init, Tracked, Live, Unborn
  <2> QED
    BY <2>1 DEF Init, Life!Init
<1>2. IInv /\ [Next]_vars => [Life!Next]_(Life!vars)
  BY NextLife
<1> QED
  BY <1>1, <1>2, Invariant, PTL DEF Spec, ImplementsConsumerLife, Life!Spec
==============================================================================
