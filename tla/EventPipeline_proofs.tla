------------------------ MODULE EventPipeline_proofs ------------------------
(***************************************************************************)
(* EventPipeline implements Metering, for any number of events, groups,    *)
(* goroutines and faults.                                                  *)
(*                                                                         *)
(* Nothing guards the time between the Get and the Set of a reading.  What *)
(* keeps updates from losing each other is that at most one goroutine of a *)
(* meter is not cancelled (OneLive) and that a cancelled one cannot write: *)
(* so the copy a goroutine is about to write back is still the reading     *)
(* (CopyCurrent).  An acknowledgement comes after every target's turn      *)
(* because the targets tried, the one at hand and the ones to do are       *)
(* always all targets (Accounted).                                         *)
(***************************************************************************)
EXTENDS EventPipeline, TLAPS

\* Of a goroutine with state r: what it works on is stored, and every target
\* has been tried, is at hand or is still to do.  s and t stand for stored and
\* tried, which only grow (AccountedGrows).
Accounted(r, s, t) ==
    /\ r.buffer \in Seq(s)
    /\ r.at \in {"get", "put", "report", "next", "ack"} => r.msg \in s /\ r.target \in Targets
    /\ r.at \in {"get", "put", "report"} => Targets \subseteq t[r.msg] \cup {r.target} \cup r.todo
    /\ r.at = "next" => Targets \subseteq t[r.msg] \cup r.todo
    /\ r.at = "ack" => Targets \subseteq t[r.msg]

AllAccounted == \A w \in Workers : Accounted(worker[w], stored, tried)

OneLive == \A v, w \in Workers : Live(v) /\ Live(w) => v = w

CopyCurrent ==
    \A w \in Workers :
        worker[w].at = "put" /\ ~worker[w].cancelled => worker[w].copy = reading[target(w)]

IInv == TypeOK /\ AllAccounted /\ OneLive /\ CopyCurrent

\* What a step does to stored and tried.
Grow == stored \subseteq stored' /\ \A m \in Msgs : tried[m] \subseteq tried'[m]

-----------------------------------------------------------------------------

LEMMA AccountedGrows ==
    ASSUME NEW r \in WorkerState, NEW s, NEW s2, NEW t, NEW t2,
           s \subseteq s2, s2 \subseteq Msgs, \A m \in Msgs : t[m] \subseteq t2[m],
           Accounted(r, s, t)
    PROVE  Accounted(r, s2, t2)
  <1>1. r.buffer \in Seq(s2)
    BY DEF Accounted
  <1>2. r.at \in {"get", "put", "report", "next", "ack"} =>
            r.msg \in s2 /\ r.msg \in Msgs /\ t[r.msg] \subseteq t2[r.msg]
    BY DEF Accounted
  <1> QED
    BY <1>1, <1>2 DEF Accounted

LEMMA OffIsSound ==
    /\ Off \in WorkerState /\ Off.at = "off"
    /\ \A s, t : Accounted(Off, s, t)
  <1>1. Off \in WorkerState /\ Off.at = "off"
    BY DEF Off, WorkerState
  <1>2. \A s : Off.buffer \in Seq(s)
    BY DEF Off
  <1> QED
    BY <1>1, <1>2 DEF Accounted

\* A step that leaves the goroutines and the readings alone disturbs nothing but
\* types.
LEMMA WorkersKept ==
    ASSUME IInv, Grow, TypeOK', worker' = worker, reading' = reading
    PROVE  IInv'
  <1>1. AllAccounted'
    <2> SUFFICES ASSUME NEW w \in Workers PROVE Accounted(worker'[w], stored', tried')
      BY DEF AllAccounted
    <2>1. worker[w] \in WorkerState /\ stored' \subseteq Msgs
      BY DEF IInv, TypeOK
    <2> QED
      BY <2>1, AccountedGrows DEF IInv, AllAccounted, Grow
  <1>2. OneLive'
    BY DEF IInv, OneLive, Live
  <1>3. CopyCurrent'
    BY DEF IInv, CopyCurrent, target
  <1> QED
    BY <1>1, <1>2, <1>3 DEF IInv

\* A step of one goroutine, which becomes r.  If it writes, it is the one that
\* is not cancelled, and no other holds a copy it could still write.
LEMMA WorkerMoved ==
    ASSUME IInv, Grow, stored' \subseteq Msgs,
           NEW w \in Workers, NEW r \in WorkerState,
           worker' = [worker EXCEPT ![w] = r],
           Accounted(r, stored', tried'),
           r.at # "off" /\ ~r.cancelled => Live(w),
           reading' = reading \/ Live(w),
           r.at = "put" /\ ~r.cancelled => r.copy = reading'[r.target]
    PROVE  /\ worker' \in [Workers -> WorkerState]
           /\ AllAccounted' /\ OneLive' /\ CopyCurrent'
  <1>1. worker \in [Workers -> WorkerState]
    BY DEF IInv, TypeOK
  <1>2. worker'[w] = r /\ \A v \in Workers \ {w} : worker'[v] = worker[v]
    BY <1>1
  <1>3. AllAccounted'
    <2> SUFFICES ASSUME NEW v \in Workers PROVE Accounted(worker'[v], stored', tried')
      BY DEF AllAccounted
    <2>1. CASE v = w
      BY <1>2, <2>1
    <2>2. CASE v # w
      BY <1>1, <1>2, <2>2, AccountedGrows DEF IInv, AllAccounted, Grow
    <2> QED
      BY <2>1, <2>2
  <1>4. OneLive'
    BY <1>2 DEF IInv, OneLive, Live
  <1>5. CopyCurrent'
    <2> SUFFICES ASSUME NEW v \in Workers, worker'[v].at = "put", ~worker'[v].cancelled
                 PROVE  worker'[v].copy = reading'[worker'[v].target]
      BY DEF CopyCurrent, target
    <2>1. CASE v = w
      BY <1>2, <2>1
    <2>2. CASE v # w
      <3>1. worker[v].at = "put" /\ ~worker[v].cancelled /\ worker'[v] = worker[v]
        BY <1>2, <2>2
      <3>2. ~Live(w)
        BY <2>2, <3>1 DEF IInv, OneLive, Live
      <3> QED
        BY <3>1, <3>2 DEF IInv, CopyCurrent, target
    <2> QED
      BY <2>1, <2>2
  <1> QED
    BY <1>1, <1>3, <1>4, <1>5

LEMMA AllOff ==
    ASSUME IInv, worker' = [v \in Workers |-> Off]
    PROVE  /\ worker' \in [Workers -> WorkerState]
           /\ AllAccounted' /\ OneLive' /\ CopyCurrent'
  BY OffIsSound DEF AllAccounted, OneLive, CopyCurrent, Live, target

LEMMA InitEstablishes == Init => IInv
  <1> SUFFICES ASSUME Init PROVE IInv
    OBVIOUS
  <1>1. TypeOK
    BY OffIsSound, BoundsAreNumbers DEF Init, TypeOK
  <1>2. AllAccounted /\ OneLive /\ CopyCurrent
    BY OffIsSound DEF Init, AllAccounted, OneLive, CopyCurrent, Live, target
  <1> QED
    BY <1>1, <1>2 DEF IInv

-----------------------------------------------------------------------------
(* The stream and the handler disturb no goroutine.                        *)

LEMMA StreamPreserves ==
    ASSUME IInv, NEW m \in Msgs,
           RegisterEvent(m) \/ AckWaitExpires(m) \/ Redeliver(m)
    PROVE  IInv'
  <1>1. TypeOK' /\ worker' = worker /\ reading' = reading /\ Grow
    <2>1. CASE RegisterEvent(m)
      BY <2>1, EventsHaveIds DEF RegisterEvent, IInv, TypeOK, Grow
    <2>2. CASE AckWaitExpires(m)
      BY <2>2, BoundsAreNumbers DEF AckWaitExpires, Fault, IInv, TypeOK, Grow
    <2>3. CASE Redeliver(m)
      BY <2>3 DEF Redeliver, IInv, TypeOK, Grow
    <2> QED
      BY <2>1, <2>2, <2>3
  <1> QED
    BY <1>1, WorkersKept

LEMMA ForgetPreserves ==
    ASSUME IInv, NEW id \in Ids, Forget(id)
    PROVE  IInv'
  <1>1. TypeOK' /\ worker' = worker /\ reading' = reading /\ Grow
    BY DEF Forget, IInv, TypeOK, Grow
  <1> QED
    BY <1>1, WorkersKept

LEMMA DeliverPreserves ==
    ASSUME IInv, NEW w \in Workers, NEW m \in Msgs, Deliver(w, m)
    PROVE  IInv'
  <1> DEFINE r == [worker[w] EXCEPT !.buffer = Append(@, m)]
  <1>1. worker[w] \in WorkerState /\ Accounted(worker[w], stored, tried)
    BY DEF IInv, TypeOK, AllAccounted
  <1>2. m \in stored /\ stored' = stored /\ tried' = tried /\ reading' = reading /\ Grow
    BY DEF Deliver, IInv, TypeOK, Grow
  <1>3. r \in WorkerState /\ Accounted(r, stored, tried)
    <2>1. /\ worker[w].buffer \in Seq(Msgs) /\ worker[w].buffer \in Seq(stored)
      BY <1>1 DEF WorkerState, Accounted
    <2>2. /\ Append(worker[w].buffer, m) \in Seq(Msgs)
          /\ Append(worker[w].buffer, m) \in Seq(stored)
      BY <1>2, <2>1
    <2> QED
      BY <1>1, <2>2 DEF WorkerState, Accounted
  <1>4. worker' = [worker EXCEPT ![w] = r]
    BY DEF Deliver
  <1>5. /\ r.at # "off" /\ ~r.cancelled => Live(w)
        /\ r.at = "put" /\ ~r.cancelled => r.copy = reading[r.target]
    BY <1>1 DEF WorkerState, Live, IInv, CopyCurrent, target
  <1>6. /\ worker' \in [Workers -> WorkerState]
        /\ AllAccounted' /\ OneLive' /\ CopyCurrent'
    <2> HIDE DEF r
    <2> QED
      BY <1>2, <1>3, <1>4, <1>5, WorkerMoved DEF IInv, TypeOK
  <1> QED
    BY <1>6 DEF Deliver, IInv, TypeOK

-----------------------------------------------------------------------------
(* Goroutines come and go.                                                 *)

\* A goroutine starts only when no other is live: this is where OneLive rests
\* on the reconciler.
LEMMA StartWorkerPreserves ==
    ASSUME IInv, NEW w \in Workers, StartWorker(w)
    PROVE  IInv'
  <1>1. worker \in [Workers -> WorkerState]
    BY DEF IInv, TypeOK
  <1> DEFINE r == [Off EXCEPT !.at = "idle"]
  <1>2. r \in WorkerState /\ r.at = "idle" /\ Accounted(r, stored', tried')
    <2>1. Off \in WorkerState /\ Off.buffer = <<>>
      BY OffIsSound DEF Off
    <2>2. r \in WorkerState /\ r.at = "idle" /\ r.buffer = <<>>
      BY <2>1 DEF WorkerState
    <2> HIDE DEF r
    <2>3. r.buffer \in Seq(stored')
      BY <2>2
    <2> QED
      BY <2>2, <2>3 DEF Accounted
  <1>3. worker' = [worker EXCEPT ![w] = r]
    BY <1>1 DEF StartWorker
  <1>4. worker'[w] = r /\ \A v \in Workers \ {w} : worker'[v] = worker[v] /\ ~Live(v)
    BY <1>1, <1>3 DEF StartWorker
  <1>5. worker' \in [Workers -> WorkerState]
    BY <1>1, <1>2, <1>3
  <1>6. AllAccounted'
    BY <1>2, <1>4 DEF StartWorker, IInv, AllAccounted
  <1>7. OneLive'
    BY <1>4 DEF OneLive, Live
  <1>8. CopyCurrent'
    BY <1>2, <1>4 DEF CopyCurrent, StartWorker, IInv, target
  <1> QED
    BY <1>5, <1>6, <1>7, <1>8 DEF StartWorker, IInv, TypeOK

LEMMA CancelPreserves ==
    ASSUME IInv, NEW w \in Workers, Cancel(w)
    PROVE  IInv'
  <1> DEFINE r == [worker[w] EXCEPT !.cancelled = TRUE]
  <1>1. worker[w] \in WorkerState /\ Accounted(worker[w], stored, tried)
    BY DEF IInv, TypeOK, AllAccounted
  <1>2. stored' = stored /\ tried' = tried /\ reading' = reading /\ Grow /\ stored \subseteq Msgs
    BY DEF Cancel, IInv, TypeOK, Grow
  <1>3. r \in WorkerState /\ Accounted(r, stored, tried) /\ r.cancelled
    BY <1>1 DEF WorkerState, Accounted
  <1>4. worker' = [worker EXCEPT ![w] = r]
    BY DEF Cancel
  <1>5. /\ worker' \in [Workers -> WorkerState]
        /\ AllAccounted' /\ OneLive' /\ CopyCurrent'
    <2> HIDE DEF r
    <2> QED
      BY <1>2, <1>3, <1>4, WorkerMoved
  <1> QED
    BY <1>5 DEF Cancel, IInv, TypeOK

LEMMA CrashPreserves ==
    ASSUME IInv, Crash
    PROVE  IInv'
  <1>1. /\ worker' \in [Workers -> WorkerState]
        /\ AllAccounted' /\ OneLive' /\ CopyCurrent'
    BY AllOff DEF Crash
  <1> QED
    BY <1>1, BoundsAreNumbers DEF Crash, Fault, IInv, TypeOK
-----------------------------------------------------------------------------
(* Consuming one message.                                                  *)

\* What a goroutine that works on a message knows about it.
LEMMA AtWork ==
    ASSUME IInv, NEW w \in Workers
    PROVE  /\ worker[w] \in WorkerState /\ Accounted(worker[w], stored, tried)
           /\ stored \subseteq Msgs
           /\ worker[w].at \in {"get", "put", "report", "next", "ack"} =>
                  msg(w) \in stored /\ msg(w) \in Msgs /\ target(w) \in Targets
  BY DEF IInv, TypeOK, AllAccounted, Accounted, msg, target

LEMMA BeginPreserves ==
    ASSUME IInv, NEW w \in Workers, Begin(w)
    PROVE  IInv'
  <1> DEFINE m == Head(worker[w].buffer)
             rest == Tail(worker[w].buffer)
             busy == [worker[w] EXCEPT !.at = "get", !.msg = m, !.target = Main,
                                       !.todo = Groups, !.buffer = rest]
             naked == [worker[w] EXCEPT !.buffer = rest]
  <1>1. /\ stored' = stored /\ tried' = tried /\ reading' = reading /\ Grow
        /\ stored \subseteq Msgs /\ worker[w].at = "idle"
    BY DEF Begin, IInv, TypeOK, Grow
  <1>2. /\ m \in stored /\ m \in Msgs
        /\ rest \in Seq(stored) /\ rest \in Seq(Msgs)
    BY <1>1, AtWork DEF Begin, WorkerState, Accounted
  <1>3. worker[w] \in WorkerState
    BY AtWork
  <1>4. busy \in WorkerState /\ busy.at = "get" /\ Accounted(busy, stored, tried)
        /\ (~busy.cancelled => Live(w))
    <2> HIDE DEF m, rest
    <2>1. busy \in WorkerState
      BY <1>2, <1>3 DEF WorkerState, Targets
    <2>2. /\ busy.at = "get" /\ busy.msg = m /\ busy.target = Main
          /\ busy.todo = Groups /\ busy.buffer = rest
          /\ busy.cancelled = worker[w].cancelled
      BY <1>3 DEF WorkerState
    <2> QED
      BY <1>1, <1>2, <2>1, <2>2 DEF Accounted, Targets, Live
  <1>5. naked \in WorkerState /\ naked.at = "idle" /\ Accounted(naked, stored, tried)
        /\ (~naked.cancelled => Live(w))
    <2> HIDE DEF m, rest
    <2> QED
      BY <1>1, <1>2, <1>3 DEF WorkerState, Accounted, Live
  <1>6. \/ worker' = [worker EXCEPT ![w] = busy]
        \/ worker' = [worker EXCEPT ![w] = naked]
    BY <1>1 DEF Begin
  <1>7. /\ worker' \in [Workers -> WorkerState]
        /\ AllAccounted' /\ OneLive' /\ CopyCurrent'
    <2> HIDE DEF busy, naked
    <2> QED
      BY <1>1, <1>4, <1>5, <1>6, WorkerMoved
  <1>8. troubled' \subseteq Msgs /\ faults' \in 0..MaxFaults
    <2> HIDE DEF rest
    <2> QED
      BY <1>2, BoundsAreNumbers DEF Begin, Fault, IInv, TypeOK
  <1> QED
    BY <1>7, <1>8 DEF Begin, IInv, TypeOK

LEMMA GetPreserves ==
    ASSUME IInv, NEW w \in Workers, Get(w)
    PROVE  IInv'
  <1> DEFINE r == IF fate[msg(w)][target(w)] = "fit"
                  THEN [worker[w] EXCEPT !.at = "put", !.copy = reading[target(w)]]
                  ELSE [worker[w] EXCEPT !.at = "report"]
  <1>1. /\ stored' = stored /\ tried' = tried /\ reading' = reading /\ Grow
        /\ worker[w].at = "get" /\ Live(w)
    BY DEF Get, Live, IInv, TypeOK, Grow
  <1>2. /\ worker[w] \in WorkerState /\ Accounted(worker[w], stored, tried)
        /\ stored \subseteq Msgs /\ reading[target(w)] \in [Msgs -> Nat]
    BY <1>1, AtWork DEF IInv, TypeOK
  <1>3. r \in WorkerState
    BY <1>2 DEF WorkerState
  <1>4. /\ r.at \in {"put", "report"} /\ r.msg = worker[w].msg
        /\ r.target = worker[w].target /\ r.todo = worker[w].todo
        /\ r.buffer = worker[w].buffer
        /\ r.at = "put" => r.copy = reading[target(w)]
    BY <1>2 DEF WorkerState
  <1>5. worker' = [worker EXCEPT ![w] = r]
    BY DEF Get
  <1>6. /\ worker' \in [Workers -> WorkerState]
        /\ AllAccounted' /\ OneLive' /\ CopyCurrent'
    <2> HIDE DEF r
    <2>1. Accounted(r, stored, tried)
      BY <1>1, <1>2, <1>4 DEF Accounted
    <2> QED
      BY <1>1, <1>2, <1>3, <1>4, <1>5, <2>1, WorkerMoved DEF target
  <1> QED
    BY <1>6 DEF Get, IInv, TypeOK

LEMMA GetFailsPreserves ==
    ASSUME IInv, NEW w \in Workers, GetFails(w)
    PROVE  IInv'
  <1> DEFINE r == [worker[w] EXCEPT !.at = "report"]
  <1>1. /\ stored' = stored /\ tried' = tried /\ reading' = reading /\ Grow
        /\ worker[w].at = "get"
    BY DEF GetFails, IInv, TypeOK, Grow
  <1>2. /\ worker[w] \in WorkerState /\ Accounted(worker[w], stored, tried)
        /\ stored \subseteq Msgs /\ msg(w) \in Msgs
    BY <1>1, AtWork
  <1>3. r \in WorkerState /\ r.at = "report" /\ Accounted(r, stored, tried)
        /\ (~r.cancelled => Live(w))
    BY <1>1, <1>2 DEF WorkerState, Accounted, Live
  <1>4. worker' = [worker EXCEPT ![w] = r]
    BY DEF GetFails
  <1>5. /\ worker' \in [Workers -> WorkerState]
        /\ AllAccounted' /\ OneLive' /\ CopyCurrent'
    <2> HIDE DEF r
    <2> QED
      BY <1>1, <1>2, <1>3, <1>4, WorkerMoved
  <1>6. troubled' \subseteq Msgs /\ faults' \in 0..MaxFaults
    BY <1>2, BoundsAreNumbers DEF GetFails, Fault, Trouble, IInv, TypeOK
  <1> QED
    BY <1>5, <1>6 DEF GetFails, IInv, TypeOK

LEMMA GetPanicsPreserves ==
    ASSUME IInv, NEW w \in Workers, GetPanics(w)
    PROVE  IInv'
  <1>1. /\ worker' \in [Workers -> WorkerState]
        /\ AllAccounted' /\ OneLive' /\ CopyCurrent'
    BY AllOff DEF GetPanics
  <1> QED
    BY <1>1 DEF GetPanics, IInv, TypeOK

\* A goroutine that may write stores the reading it finds, with this message
\* counted once more: the copy is the reading.
LEMMA WriteEffect ==
    ASSUME IInv, NEW w \in Workers, Live(w), worker[w].at = "put", Write(w)
    PROVE  /\ reading' = [reading EXCEPT ![target(w)][msg(w)] = @ + 1]
           /\ reading' \in [Targets -> [Msgs -> Nat]]
  <1>1. worker[w].copy = reading[target(w)]
    BY DEF IInv, CopyCurrent, Live
  <1>2. reading \in [Targets -> [Msgs -> Nat]] /\ target(w) \in Targets /\ msg(w) \in Msgs
    BY AtWork DEF IInv, TypeOK
  <1> DEFINE bag == [reading[target(w)] EXCEPT ![msg(w)] = reading[target(w)][msg(w)] + 1]
  <1>3. reading' = [reading EXCEPT ![target(w)] = bag]
    BY <1>1 DEF Write
  <1>4. bag \in [Msgs -> Nat]
    BY <1>2
  <1>5. reading' = [reading EXCEPT ![target(w)][msg(w)] = @ + 1]
    BY <1>2, <1>3
  <1>6. reading' \in [Targets -> [Msgs -> Nat]]
    <2> HIDE DEF bag
    <2> QED
      BY <1>2, <1>3, <1>4
  <1> QED
    BY <1>5, <1>6

\* The target at hand has had its turn.
LEMMA TryEffect ==
    ASSUME IInv, NEW w \in Workers, worker[w].at \in {"put", "report"}, Try(w)
    PROVE  /\ tried' \in [Msgs -> SUBSET Targets]
           /\ tried'[msg(w)] = tried[msg(w)] \cup {target(w)}
           /\ \A m \in Msgs : tried[m] \subseteq tried'[m]
  BY AtWork DEF Try, IInv, TypeOK

LEMMA PutPreserves ==
    ASSUME IInv, NEW w \in Workers, Put(w)
    PROVE  IInv'
  <1> DEFINE r == [worker[w] EXCEPT !.at = "next"]
  <1>1. /\ stored' = stored /\ worker[w].at = "put" /\ Live(w)
        /\ Write(w) /\ Try(w) /\ stored \subseteq Msgs
    BY DEF Put, Live, IInv, TypeOK
  <1>2. worker[w] \in WorkerState /\ Accounted(worker[w], stored, tried)
    BY AtWork
  <1>3. Grow
    BY <1>1, TryEffect DEF Grow
  <1>4. /\ r \in WorkerState /\ r.at = "next" /\ r.msg = msg(w) /\ r.target = target(w)
        /\ r.todo = worker[w].todo /\ r.buffer = worker[w].buffer
    BY <1>2 DEF WorkerState, msg, target
  <1>5. worker' = [worker EXCEPT ![w] = r]
    BY DEF Put
  <1>6. /\ worker' \in [Workers -> WorkerState]
        /\ AllAccounted' /\ OneLive' /\ CopyCurrent'
    <2> HIDE DEF r
    <2>1. Accounted(r, stored', tried')
      BY <1>1, <1>2, <1>4, TryEffect DEF Accounted, msg, target
    <2> QED
      BY <1>1, <1>3, <1>4, <1>5, <2>1, WorkerMoved
  <1>7. reading' \in [Targets -> [Msgs -> Nat]] /\ tried' \in [Msgs -> SUBSET Targets]
    BY <1>1, WriteEffect, TryEffect
  <1> QED
    BY <1>6, <1>7 DEF Put, IInv, TypeOK

LEMMA PutFailsPreserves ==
    ASSUME IInv, NEW w \in Workers, PutFails(w)
    PROVE  IInv'
  <1> DEFINE r == [worker[w] EXCEPT !.at = "report"]
  <1>1. /\ stored' = stored /\ worker[w].at = "put" /\ stored \subseteq Msgs
        /\ \/ UNCHANGED <<reading, tried>>
           \/ Live(w) /\ Write(w) /\ Try(w)
    BY DEF PutFails, Live, IInv, TypeOK
  <1>2. worker[w] \in WorkerState /\ Accounted(worker[w], stored, tried) /\ msg(w) \in Msgs
    BY <1>1, AtWork
  <1>3. Grow
    BY <1>1, TryEffect DEF Grow
  <1>4. /\ r \in WorkerState /\ r.at = "report" /\ r.msg = msg(w) /\ r.target = target(w)
        /\ r.todo = worker[w].todo /\ r.buffer = worker[w].buffer
        /\ (~r.cancelled => Live(w))
    BY <1>1, <1>2 DEF WorkerState, msg, target, Live
  <1>5. worker' = [worker EXCEPT ![w] = r]
    BY DEF PutFails
  <1>6. /\ worker' \in [Workers -> WorkerState]
        /\ AllAccounted' /\ OneLive' /\ CopyCurrent'
    <2> HIDE DEF r
    <2>1. Accounted(r, stored', tried')
      BY <1>1, <1>2, <1>4, TryEffect DEF Accounted, msg, target
    <2> QED
      BY <1>1, <1>3, <1>4, <1>5, <2>1, WorkerMoved
  <1>7. reading' \in [Targets -> [Msgs -> Nat]] /\ tried' \in [Msgs -> SUBSET Targets]
    BY <1>1, WriteEffect, TryEffect DEF IInv, TypeOK
  <1>8. troubled' \subseteq Msgs /\ faults' \in 0..MaxFaults
    BY <1>2, BoundsAreNumbers DEF PutFails, Fault, Trouble, IInv, TypeOK
  <1> QED
    BY <1>6, <1>7, <1>8 DEF PutFails, IInv, TypeOK

LEMMA ReportPreserves ==
    ASSUME IInv, NEW w \in Workers, Report(w)
    PROVE  IInv'
  <1> DEFINE r == [worker[w] EXCEPT !.at = "next"]
  <1>1. /\ stored' = stored /\ reading' = reading /\ worker[w].at = "report"
        /\ Try(w) /\ stored \subseteq Msgs
    BY DEF Report, IInv, TypeOK
  <1>2. worker[w] \in WorkerState /\ Accounted(worker[w], stored, tried) /\ msg(w) \in Msgs
    BY <1>1, AtWork
  <1>3. Grow
    BY <1>1, TryEffect DEF Grow
  <1>4. /\ r \in WorkerState /\ r.at = "next" /\ r.msg = msg(w) /\ r.target = target(w)
        /\ r.todo = worker[w].todo /\ r.buffer = worker[w].buffer
        /\ (~r.cancelled => Live(w))
    BY <1>1, <1>2 DEF WorkerState, msg, target, Live
  <1>5. worker' = [worker EXCEPT ![w] = r]
    BY DEF Report
  <1>6. /\ worker' \in [Workers -> WorkerState]
        /\ AllAccounted' /\ OneLive' /\ CopyCurrent'
    <2> HIDE DEF r
    <2>1. Accounted(r, stored', tried')
      BY <1>1, <1>2, <1>4, TryEffect DEF Accounted, msg, target
    <2> QED
      BY <1>1, <1>3, <1>4, <1>5, <2>1, WorkerMoved
  <1>7. tried' \in [Msgs -> SUBSET Targets]
    BY <1>1, TryEffect
  <1>8. /\ troubled' \subseteq Msgs /\ faults' \in 0..MaxFaults
        /\ recent' \subseteq Ids /\ dead' \subseteq Ids
    <2>1. /\ recent \subseteq Ids /\ dead \subseteq Ids /\ troubled \subseteq Msgs
          /\ faults \in 0..MaxFaults /\ idOf[msg(w)] \in Ids
      BY <1>2, EventsHaveIds DEF IInv, TypeOK
    <2>2. DeadLetter(w) \/ UNCHANGED <<dead, recent>>
      BY DEF Report
    <2>3. recent' \subseteq Ids /\ dead' \subseteq Ids
      BY <2>1, <2>2 DEF DeadLetter
    <2>4. troubled' \subseteq Msgs
      BY <1>2, <2>1 DEF Report, Trouble
    <2>5. faults' \in 0..MaxFaults
      BY <2>1, BoundsAreNumbers DEF Report, Fault
    <2> QED
      BY <2>3, <2>4, <2>5
  <1> QED
    BY <1>6, <1>7, <1>8 DEF Report, IInv, TypeOK

LEMMA NextTargetPreserves ==
    ASSUME IInv, NEW w \in Workers, NextTarget(w)
    PROVE  IInv'
  <1> DEFINE serve(g) == [worker[w] EXCEPT !.at = "get", !.target = g, !.todo = @ \ {g}]
             done == [worker[w] EXCEPT !.at = "ack"]
  <1>1. /\ stored' = stored /\ reading' = reading /\ tried' = tried
        /\ worker[w].at = "next" /\ stored \subseteq Msgs /\ Grow
    BY DEF NextTarget, IInv, TypeOK, Grow
  <1>2. worker[w] \in WorkerState /\ Accounted(worker[w], stored, tried)
    BY AtWork
  <1>3. ASSUME NEW g \in worker[w].todo
        PROVE  /\ serve(g) \in WorkerState /\ serve(g).at = "get"
               /\ serve(g).msg = worker[w].msg /\ serve(g).target = g
               /\ serve(g).todo = worker[w].todo \ {g}
               /\ serve(g).buffer = worker[w].buffer
               /\ (~serve(g).cancelled => Live(w))
               /\ g \in Targets
    BY <1>1, <1>2 DEF WorkerState, Live, Targets
  <1>4. ASSUME NEW g \in worker[w].todo
        PROVE  Accounted(serve(g), stored, tried)
    <2> HIDE DEF serve
    <2> QED
      BY <1>1, <1>2, <1>3 DEF Accounted
  <1>5. /\ done \in WorkerState /\ done.at = "ack"
        /\ done.msg = worker[w].msg /\ done.target = worker[w].target
        /\ done.buffer = worker[w].buffer
        /\ (~done.cancelled => Live(w))
    BY <1>1, <1>2 DEF WorkerState, Live
  <1>6. worker[w].todo = {} => Accounted(done, stored, tried)
    <2> HIDE DEF done
    <2> QED
      BY <1>1, <1>2, <1>5 DEF Accounted
  <1>7. \/ \E g \in worker[w].todo : worker' = [worker EXCEPT ![w] = serve(g)]
        \/ worker[w].todo = {} /\ worker' = [worker EXCEPT ![w] = done]
    <2>1. CASE worker[w].todo = {} /\ worker' = [worker EXCEPT ![w].at = "ack"]
      BY <2>1
    <2>2. ASSUME NEW g \in worker[w].todo,
                 worker' = [worker EXCEPT ![w] =
                     [@ EXCEPT !.at = "get", !.target = g, !.todo = worker[w].todo \ {g}]]
          PROVE  worker' = [worker EXCEPT ![w] = serve(g)]
      BY <2>2
    <2> HIDE DEF serve, done
    <2> QED
      BY <2>1, <2>2 DEF NextTarget
  <1>8. /\ worker' \in [Workers -> WorkerState]
        /\ AllAccounted' /\ OneLive' /\ CopyCurrent'
    <2> HIDE DEF serve, done
    <2>1. CASE worker[w].todo = {} /\ worker' = [worker EXCEPT ![w] = done]
      BY <1>1, <1>5, <1>6, <2>1, WorkerMoved
    <2>2. ASSUME NEW g \in worker[w].todo, worker' = [worker EXCEPT ![w] = serve(g)]
          PROVE  /\ worker' \in [Workers -> WorkerState]
                 /\ AllAccounted' /\ OneLive' /\ CopyCurrent'
      BY <1>1, <1>3, <1>4, <2>2, WorkerMoved
    <2> QED
      BY <1>7, <2>1, <2>2
  <1> QED
    BY <1>8 DEF NextTarget, IInv, TypeOK

LEMMA AckPreserves ==
    ASSUME IInv, NEW w \in Workers, Ack(w)
    PROVE  IInv'
  <1> DEFINE r == [worker[w] EXCEPT !.at = "idle", !.msg = NoMsg, !.target = NoTarget]
  <1>1. /\ stored' = stored /\ reading' = reading /\ tried' = tried
        /\ worker[w].at = "ack" /\ stored \subseteq Msgs /\ Grow
    BY DEF Ack, IInv, TypeOK, Grow
  <1>2. /\ worker[w] \in WorkerState /\ Accounted(worker[w], stored, tried)
        /\ msg(w) \in stored
    BY <1>1, AtWork
  <1>3. /\ r \in WorkerState /\ r.at = "idle" /\ r.buffer = worker[w].buffer
        /\ (~r.cancelled => Live(w))
    BY <1>1, <1>2 DEF WorkerState, Live
  <1>4. worker' = [worker EXCEPT ![w] = r]
    BY DEF Ack
  <1>5. /\ worker' \in [Workers -> WorkerState]
        /\ AllAccounted' /\ OneLive' /\ CopyCurrent'
    <2> HIDE DEF r
    <2>1. Accounted(r, stored, tried)
      BY <1>2, <1>3 DEF Accounted
    <2> QED
      BY <1>1, <1>3, <1>4, <2>1, WorkerMoved
  <1>6. settled' \subseteq stored /\ ready' \subseteq stored /\ faults' \in 0..MaxFaults
    BY <1>2, BoundsAreNumbers DEF Ack, Fault, IInv, TypeOK
  <1> QED
    BY <1>5, <1>6 DEF Ack, IInv, TypeOK

-----------------------------------------------------------------------------

LEMMA NextPreserves == IInv /\ [Next]_vars => IInv'
  <1> SUFFICES ASSUME IInv, [Next]_vars PROVE IInv'
    OBVIOUS
  <1>1. ASSUME NEW w \in Workers, Step(w) PROVE IInv'
    BY <1>1, BeginPreserves, GetPreserves, GetFailsPreserves, GetPanicsPreserves,
       PutPreserves, PutFailsPreserves, ReportPreserves, NextTargetPreserves,
       AckPreserves DEF Step
  <1>2. ASSUME UNCHANGED vars PROVE IInv'
    <2>1. TypeOK' /\ worker' = worker /\ reading' = reading /\ Grow
      BY <1>2 DEF vars, IInv, TypeOK, Grow
    <2> QED
      BY <2>1, WorkersKept
  <1> QED
    BY <1>1, <1>2, StreamPreserves, ForgetPreserves, DeliverPreserves,
       StartWorkerPreserves, CancelPreserves, CrashPreserves DEF Next

THEOREM Invariant == Spec => []IInv
  <1>1. Init => IInv
    BY InitEstablishes
  <1>2. IInv /\ [Next]_vars => IInv'
    BY NextPreserves
  <1> QED
    BY <1>1, <1>2, PTL DEF Spec

\* Every variable of the pipeline keeps its type: a reading stays a bag of
\* messages, and only stored messages are ready or acknowledged.
THEOREM TypeCorrect == Spec => []TypeOK
  <1>1. IInv => TypeOK
    BY DEF IInv
  <1> QED
    BY <1>1, Invariant, PTL

-----------------------------------------------------------------------------
(* Refinement                                                              *)

\* A step of a goroutine is a step of Metering or changes nothing it shows.
LEMMA StepImplements ==
    ASSUME IInv, NEW w \in Workers, Step(w)
    PROVE  Promise!Next \/ UNCHANGED <<stored, reading, tried, settled>>
  <1>1. worker[w].at \in {"get", "put", "report", "next", "ack"} =>
            msg(w) \in stored /\ msg(w) \in Msgs /\ target(w) \in Targets
    BY AtWork
  <1>2. ASSUME Live(w), worker[w].at = "put", Write(w), Try(w), UNCHANGED <<stored, settled>>
        PROVE  Promise!Next
    <2>1. Promise!Apply(msg(w), target(w))
      BY <1>1, <1>2, WriteEffect DEF Promise!Apply, Try
    <2> QED
      BY <1>1, <1>2, <2>1 DEF Promise!Next
  <1>3. CASE Put(w)
    BY <1>2, <1>3 DEF Put, Live
  <1>4. CASE PutFails(w)
    <2>1. UNCHANGED <<stored, settled>> /\ worker[w].at = "put"
      BY <1>4 DEF PutFails
    <2>2. \/ UNCHANGED <<reading, tried>>
          \/ ~worker[w].cancelled /\ Write(w) /\ Try(w)
      BY <1>4 DEF PutFails
    <2> QED
      BY <1>2, <2>1, <2>2 DEF Live
  <1>5. CASE Report(w)
    <2>1. Promise!Fail(msg(w), target(w))
      BY <1>1, <1>5 DEF Report, Try, Promise!Fail
    <2> QED
      BY <1>1, <1>5, <2>1 DEF Promise!Next, Report
  <1>6. CASE Ack(w)
    <2>1. worker[w].at = "ack" /\ UNCHANGED <<stored, reading, tried>>
      BY <1>6 DEF Ack
    <2>2. tried[msg(w)] = Targets
      BY <1>1, <2>1, AtWork DEF Accounted, msg, IInv, TypeOK
    <2>3. CASE settled' = settled \cup {msg(w)}
      <3>1. Promise!Settle(msg(w))
        BY <1>1, <2>1, <2>2, <2>3 DEF Promise!Settle
      <3> QED
        BY <1>1, <2>1, <3>1 DEF Promise!Next
    <2>4. CASE UNCHANGED settled
      BY <2>1, <2>4
    <2> QED
      BY <1>6, <2>3, <2>4 DEF Ack
  <1>7. CASE Begin(w) \/ Get(w) \/ GetFails(w) \/ GetPanics(w) \/ NextTarget(w)
    BY <1>7 DEF Begin, Get, GetFails, GetPanics, NextTarget
  <1> QED
    BY <1>3, <1>4, <1>5, <1>6, <1>7 DEF Step

LEMMA NextImplements == IInv /\ [Next]_vars => [Promise!Next]_(Promise!vars)
  <1> SUFFICES ASSUME IInv, [Next]_vars
               PROVE  Promise!Next \/ UNCHANGED <<stored, reading, tried, settled>>
    BY DEF Promise!vars
  <1>1. ASSUME NEW m \in Msgs, RegisterEvent(m) PROVE Promise!Next
    BY <1>1 DEF RegisterEvent, Promise!Next, Promise!Store
  <1>2. ASSUME NEW m \in Msgs, AckWaitExpires(m) \/ Redeliver(m)
        PROVE  UNCHANGED <<stored, reading, tried, settled>>
    BY <1>2 DEF AckWaitExpires, Redeliver
  <1>3. ASSUME NEW id \in Ids, Forget(id)
        PROVE  UNCHANGED <<stored, reading, tried, settled>>
    BY <1>3 DEF Forget
  <1>4. ASSUME NEW w \in Workers, NEW m \in Msgs, Deliver(w, m)
        PROVE  UNCHANGED <<stored, reading, tried, settled>>
    BY <1>4 DEF Deliver
  <1>5. ASSUME NEW w \in Workers, StartWorker(w) \/ Cancel(w)
        PROVE  UNCHANGED <<stored, reading, tried, settled>>
    BY <1>5 DEF StartWorker, Cancel
  <1>6. CASE Crash
    BY <1>6 DEF Crash
  <1>7. CASE UNCHANGED vars
    BY <1>7 DEF vars
  <1> QED
    BY <1>1, <1>2, <1>3, <1>4, <1>5, <1>6, <1>7, StepImplements DEF Next

\* The pipeline keeps the promise of Metering: no update of a reading is lost,
\* none is undone, and no event is acknowledged before every target had its turn,
\* through every interleaving of goroutines, redeliveries, faults and crashes.
THEOREM Refinement == Spec => ImplementsMetering
  <1>1. Init => Promise!Init
    BY DEF Init, Promise!Init
  <1>2. IInv /\ [Next]_vars => [Promise!Next]_(Promise!vars)
    BY NextImplements
  <1> QED
    BY <1>1, <1>2, Invariant, PTL DEF Spec, ImplementsMetering, Promise!Spec
=============================================================================
