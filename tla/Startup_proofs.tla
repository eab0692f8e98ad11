---------------------------- MODULE Startup_proofs ----------------------------
(***************************************************************************)
(* However many processes come up, fail half-way and race for the buckets: *)
(* who serves has its routes and both buckets, and whose server fails in   *)
(* time ends, unless it overslept the second.                              *)
(***************************************************************************)
EXTENDS Startup, TLAPS

Up == {"enter", "select", "failed", "hooks", "ready"}

\* What is behind a process at each step of its way.
ProcInv(p) ==
    /\ At(p, "bucket") \/ At(p, "create") \/ At(p, "again") =>
           \/ proc[p].repos = Repos
           \/ proc[p].repos = <<"readings">> /\ "meters" \in buckets
    /\ proc[p].at \in {"routes", "listen"} \cup Up => buckets = Buckets
    /\ proc[p].at \in {"listen"} \cup Up => proc[p].routes
    /\ proc[p].server # "none" => proc[p].at \in Up
    /\ proc[p].at \in {"hooks", "ready"} => proc[p].fired
    /\ At(p, "select") => proc[p].server # "error"
    /\ proc[p].server = "error" /\ proc[p].at \in {"hooks", "ready"} =>
           proc[p].late \/ proc[p].overslept

IInv == TypeOK /\ \A p \in Procs : ProcInv(p)

ProcState ==
    [at : {"down", "connect", "bucket", "create", "again", "routes", "listen",
           "enter", "select", "failed", "hooks", "ready"},
     repos : {<<>>, <<"readings">>, Repos},
     link : BOOLEAN, routes : BOOLEAN,
     server : {"none", "starting", "serving", "error"},
     fired : BOOLEAN, late : BOOLEAN, overslept : BOOLEAN, consuming : BOOLEAN]

\* The buckets stay, so what is behind the others stays behind them.
LEMMA OthersKeep ==
    ASSUME IInv, NEW p \in Procs, NEW rec \in ProcState,
           proc' = [proc EXCEPT ![p] = rec],
           buckets \subseteq buckets', buckets' \subseteq Buckets, ProcInv(p)'
    PROVE  IInv'
<1>1. TypeOK'
  BY DEF IInv, TypeOK, ProcState
<1>2. ASSUME NEW q \in Procs \ {p} PROVE ProcInv(q)'
  <2>1. proc'[q] = proc[q]
    BY DEF IInv, TypeOK
  <2>2. buckets = Buckets => buckets' = Buckets
    BY DEF Buckets
  <2> QED
    BY <2>1, <2>2 DEF IInv, ProcInv, At
<1> QED
  BY <1>1, <1>2 DEF IInv

\* The same for a step that leaves the buckets alone.
LEMMA BecomesKeeps ==
    ASSUME IInv, NEW p \in Procs, NEW rec \in ProcState, Becomes(p, rec),
           rec.at \in {"bucket", "create", "again"} =>
               \/ rec.repos = Repos
               \/ rec.repos = <<"readings">> /\ "meters" \in buckets,
           rec.at \in {"routes", "listen"} \cup Up => buckets = Buckets,
           rec.at \in {"listen"} \cup Up => rec.routes,
           rec.server # "none" => rec.at \in Up,
           rec.at \in {"hooks", "ready"} => rec.fired,
           rec.at = "select" => rec.server # "error",
           rec.server = "error" /\ rec.at \in {"hooks", "ready"} => rec.late \/ rec.overslept
    PROVE  IInv'
<1>1. proc'[p] = rec /\ proc' = [proc EXCEPT ![p] = rec] /\ UNCHANGED buckets
  BY DEF Becomes, IInv, TypeOK
<1>2. ProcInv(p)'
  BY <1>1 DEF ProcInv, At
<1> QED
  BY <1>1, <1>2, OthersKeep DEF IInv, TypeOK

LEMMA Exits == ASSUME IInv, NEW p \in Procs, Exit(p) PROVE IInv'
<1>1. Down \in ProcState
  BY DEF Down, ProcState
<1> QED
  BY <1>1, BecomesKeeps DEF Exit, Down, Up

LEMMA Provides ==
    ASSUME IInv, NEW p \in Procs, Bucket(p) \in buckets, Provided(p),
           proc[p].at \in {"bucket", "again"}
    PROVE  IInv'
<1> DEFINE rec == [proc[p] EXCEPT !.repos = Tail(@),
                                  !.at = IF Len(proc[p].repos) = 1 THEN "routes" ELSE "bucket"]
<1>1. proc[p] \in ProcState /\ ProcInv(p) /\ buckets \subseteq Buckets
  BY DEF IInv, TypeOK, ProcState
<1>2. proc[p].server = "none"
  BY <1>1 DEF ProcInv, Up, ProcState
<1>3. CASE proc[p].repos = Repos
  <2>1. "meters" \in buckets /\ Tail(proc[p].repos) = <<"readings">> /\ Len(proc[p].repos) = 2
    BY <1>3 DEF Repos, Bucket
  <2>2. rec \in ProcState
    BY <1>1, <2>1 DEF ProcState
  <2>3. rec.at = "bucket" /\ rec.repos = <<"readings">> /\ rec.server = "none"
    BY <1>1, <1>2, <2>1 DEF ProcState
  <2> HIDE DEF rec
  <2> QED
    BY <2>1, <2>2, <2>3, BecomesKeeps DEF Provided, rec, Up
<1>4. CASE proc[p].repos = <<"readings">> /\ "meters" \in buckets
  <2>1. "readings" \in buckets /\ Tail(proc[p].repos) = <<>> /\ Len(proc[p].repos) = 1
    BY <1>4 DEF Bucket
  <2>2. buckets = Buckets
    BY <1>1, <1>4, <2>1 DEF Buckets
  <2>3. rec \in ProcState
    BY <1>1, <2>1 DEF ProcState
  <2>4. rec.at = "routes" /\ rec.server = "none"
    BY <1>1, <1>2, <2>1 DEF ProcState
  <2> QED
    BY <2>2, <2>3, <2>4, BecomesKeeps DEF Provided, Up
<1> QED
  BY <1>1, <1>3, <1>4 DEF ProcInv, At

LEMMA LooksUp ==
    ASSUME IInv, NEW p \in Procs, LookUpBucket(p) \/ LookUpAgain(p)
    PROVE  IInv'
<1>1. proc[p] \in ProcState /\ ProcInv(p)
  BY DEF IInv, TypeOK, ProcState
<1>2. ASSUME Goto(p, "create"), At(p, "bucket") PROVE IInv'
  <2> DEFINE rec == [proc[p] EXCEPT !.at = "create"]
  <2>1. /\ rec \in ProcState /\ rec.at = "create" /\ rec.repos = proc[p].repos
        /\ rec.server = proc[p].server
    BY <1>1 DEF ProcState
  <2>2. Becomes(p, rec)
    BY <1>2 DEF Goto
  <2>3. rec.server = "none"
    BY <1>1, <1>2, <2>1 DEF ProcInv, At, Up, ProcState
  <2> HIDE DEF rec
  <2> QED
    BY <1>1, <1>2, <2>1, <2>2, <2>3, BecomesKeeps DEF ProcInv, At, Up
<1> QED
  BY <1>2, Exits, Provides DEF LookUpBucket, LookUpAgain, At

LEMMA Creates == ASSUME IInv, NEW p \in Procs, CreateBucket(p) PROVE IInv'
<1>1. proc[p] \in ProcState /\ ProcInv(p) /\ proc[p].at = "create" /\ buckets \subseteq Buckets
  BY DEF IInv, TypeOK, ProcState, CreateBucket, At
<1>2. proc[p].server = "none" /\ Bucket(p) \in Buckets
  BY <1>1 DEF ProcInv, At, Up, ProcState, Bucket, Repos, Buckets
<1>3. CASE Exit(p)
  BY <1>3, Exits
<1>4. ASSUME NEW rec \in {[proc[p] EXCEPT !.at = "again"], Down},
             proc' = [proc EXCEPT ![p] = rec], buckets' = buckets \cup {Bucket(p)}
      PROVE  IInv'
  <2>1. /\ rec \in ProcState /\ rec.server = "none"
        /\ rec.at = "down" \/ (rec.at = "again" /\ rec.repos = proc[p].repos)
    <3>1. CASE rec = [proc[p] EXCEPT !.at = "again"]
      BY <1>1, <1>2, <3>1 DEF ProcState
    <3>2. CASE rec = Down
      BY <3>2 DEF ProcState, Down
    <3> QED
      BY <1>4, <3>1, <3>2
  <2>2. proc'[p] = rec
    BY <1>4 DEF IInv, TypeOK
  <2>3. ProcInv(p)'
    BY <1>1, <1>4, <2>1, <2>2 DEF ProcInv, At, Up
  <2> QED
    BY <1>1, <1>2, <1>4, <2>1, <2>3, OthersKeep
<1> QED
  BY <1>3, <1>4 DEF CreateBucket

LEMMA Serves ==
    ASSUME IInv, NEW p \in Procs,
           \/ LinkChanges(p) \/ RegisterRoutes(p) \/ Listen(p) \/ Bind(p)
           \/ TimerFires(p) \/ EnterSelect(p) \/ OnStart(p) \/ ServerFails(p)
    PROVE  IInv'
<1>1. proc[p] \in ProcState /\ ProcInv(p)
  BY DEF IInv, TypeOK, ProcState
<1>2. PICK rec \in ProcState : Becomes(p, rec)
  <2>1. ASSUME LinkChanges(p) PROVE \E rec \in ProcState : Becomes(p, rec)
    BY <1>1, <2>1 DEF LinkChanges, ProcState
  <2>2. ASSUME RegisterRoutes(p) PROVE \E rec \in ProcState : Becomes(p, rec)
    BY <1>1, <2>2 DEF RegisterRoutes, ProcState
  <2>3. ASSUME Listen(p) PROVE \E rec \in ProcState : Becomes(p, rec)
    BY <1>1, <2>3 DEF Listen, ProcState
  <2>4. ASSUME Bind(p) PROVE \E rec \in ProcState : Becomes(p, rec)
    BY <1>1, <2>4 DEF Bind, ProcState
  <2>5. ASSUME TimerFires(p) PROVE \E rec \in ProcState : Becomes(p, rec)
    BY <1>1, <2>5 DEF TimerFires, ProcState
  <2>6. ASSUME OnStart(p) PROVE \E rec \in ProcState : Becomes(p, rec)
    BY <1>1, <2>6 DEF OnStart, ProcState
  <2>7. ASSUME ServerFails(p) PROVE \E rec \in ProcState : Becomes(p, rec)
    BY <1>1, <2>7 DEF ServerFails, ProcState
  <2>8. ASSUME EnterSelect(p) PROVE \E rec \in ProcState : Becomes(p, rec)
    BY <1>1, <2>8 DEF EnterSelect, Goto, ProcState
  <2> QED
    BY <2>1, <2>2, <2>3, <2>4, <2>5, <2>6, <2>7, <2>8
<1>3. proc'[p] = rec /\ proc' = [proc EXCEPT ![p] = rec] /\ UNCHANGED buckets
  BY <1>2 DEF Becomes, IInv, TypeOK
<1>4. ProcInv(p)'
  <2>1. CASE LinkChanges(p)
    BY <1>1, <2>1 DEF LinkChanges, Becomes, ProcInv, At, Up, ProcState, IInv, TypeOK
  <2>2. CASE RegisterRoutes(p)
    BY <1>1, <2>2 DEF RegisterRoutes, Becomes, ProcInv, At, Up, ProcState, IInv, TypeOK
  <2>3. CASE Listen(p)
    BY <1>1, <2>3 DEF Listen, Becomes, ProcInv, At, Up, ProcState, IInv, TypeOK
  <2>4. CASE Bind(p)
    BY <1>1, <2>4 DEF Bind, Becomes, ProcInv, At, Up, ProcState, IInv, TypeOK
  <2>5. CASE TimerFires(p)
    BY <1>1, <2>5 DEF TimerFires, Becomes, ProcInv, At, Up, ProcState, IInv, TypeOK
  <2>6. CASE EnterSelect(p)
    <3>1. CASE proc[p].server = "error" /\ Goto(p, "failed")
      BY <1>1, <2>6, <3>1 DEF EnterSelect, Goto, Becomes, ProcInv, At, Up, ProcState, IInv, TypeOK
    <3>2. CASE proc[p].fired /\ Becomes(p, [proc[p] EXCEPT !.at = "hooks", !.overslept = TRUE])
      BY <1>1, <2>6, <3>2 DEF EnterSelect, Becomes, ProcInv, At, Up, ProcState, IInv, TypeOK
    <3>3. CASE proc[p].server # "error" /\ ~proc[p].fired /\ Goto(p, "select")
      BY <1>1, <2>6, <3>3 DEF EnterSelect, Goto, Becomes, ProcInv, At, Up, ProcState, IInv, TypeOK
    <3> QED
      BY <2>6, <3>1, <3>2, <3>3 DEF EnterSelect
  <2>7. CASE OnStart(p)
    BY <1>1, <2>7 DEF OnStart, Becomes, ProcInv, At, Up, ProcState, IInv, TypeOK
  <2>8. CASE ServerFails(p)
    BY <1>1, <2>8 DEF ServerFails, Becomes, ProcInv, At, Up, ProcState, IInv, TypeOK
  <2> QED
    BY <2>1, <2>2, <2>3, <2>4, <2>5, <2>6, <2>7, <2>8
<1> QED
  BY <1>2, <1>3, <1>4, OthersKeep DEF IInv, TypeOK

LEMMA Begins ==
    ASSUME IInv, NEW p \in Procs, Launch(p) \/ Connect(p)
    PROVE  IInv'
<1>1. proc[p] \in ProcState /\ ProcInv(p) /\ proc[p].at \in {"down", "connect"}
  BY DEF IInv, TypeOK, ProcState, Launch, Connect, At
<1>2. proc[p].server = "none"
  BY <1>1 DEF ProcInv, Up, ProcState
<1>3. CASE Exit(p)
  BY <1>3, Exits
<1>4. ASSUME NEW rec, Becomes(p, rec),
             \/ rec = [proc[p] EXCEPT !.at = "connect"]
             \/ \E up \in BOOLEAN :
                    rec = [proc[p] EXCEPT !.at = "bucket", !.repos = Repos, !.link = up]
      PROVE  IInv'
  <2>1. /\ rec \in ProcState /\ rec.server = "none"
        /\ rec.at = "connect" \/ (rec.at = "bucket" /\ rec.repos = Repos)
    BY <1>1, <1>2, <1>4 DEF ProcState
  <2> QED
    BY <1>4, <2>1, BecomesKeeps DEF Up
<1> QED
  BY <1>3, <1>4 DEF Launch, Connect, Goto

-----------------------------------------------------------------------------
(* The theorems                                                            *)

LEMMA NextInv == IInv /\ [Next]_vars => IInv'
<1> SUFFICES ASSUME IInv, [Next]_vars PROVE IInv'
  OBVIOUS
<1>1. CASE UNCHANGED vars
  BY <1>1 DEF vars, IInv, TypeOK, ProcInv, At, Bucket
<1>2. ASSUME NEW p \in Procs, Interrupt(p) \/ ListenFails(p) PROVE IInv'
  BY <1>2, Exits DEF Interrupt, ListenFails
<1> QED
  BY <1>1, <1>2, Begins, LooksUp, Creates, Serves DEF Next, Main

LEMMA Invariant == Spec => []IInv
<1>1. Init => IInv
  BY DEF Init, IInv, TypeOK, ProcInv, At, Down, Up, Buckets
<1> QED
  BY <1>1, NextInv, PTL DEF Spec

\* Every process record and the set of buckets keep their types.
THEOREM TypeCorrect == Spec => []TypeOK
<1>1. IInv => TypeOK
  BY DEF IInv
<1> QED
  BY <1>1, Invariant, PTL

\* A process that serves has its routes and both buckets.
THEOREM ServesComplete == Spec => []ServesWithBuckets
<1>1. IInv => ServesWithBuckets
  BY DEF IInv, ProcInv, ServesWithBuckets, Up
<1> QED
  BY <1>1, Invariant, PTL

\* An error within Listen's second ends the process, unless main got to the
\* select only when the second was over.
THEOREM EarlyErrorEnds == Spec => []EarlyErrorEndsProcess
<1>1. IInv => EarlyErrorEndsProcess
  BY DEF IInv, ProcInv, EarlyErrorEndsProcess
<1> QED
  BY <1>1, Invariant, PTL

-----------------------------------------------------------------------------
(* Every call decides                                                      *)

\* The repositories still to be built, as far as Left counts them.
LEMMA RepoCount ==
    ASSUME IInv, NEW p \in Procs
    PROVE  /\ proc[p] \in ProcState /\ Len(proc[p].repos) \in 0..2
           /\ proc[p].at \in {"bucket", "create", "again"} => Len(proc[p].repos) > 0
           /\ Len(proc[p].repos) > 0 => Len(Tail(proc[p].repos)) = Len(proc[p].repos) - 1
<1>1. proc[p] \in ProcState /\ ProcInv(p)
  BY DEF IInv, TypeOK, ProcState
<1>2. CASE proc[p].repos = <<>>
  <2>1. proc[p].at \notin {"bucket", "create", "again"}
    BY <1>1, <1>2 DEF ProcInv, At, Repos
  <2> QED
    BY <1>1, <1>2, <2>1
<1>3. CASE proc[p].repos = <<"readings">>
  BY <1>1, <1>3
<1>4. CASE proc[p].repos = Repos
  BY <1>1, <1>4 DEF Repos
<1> QED
  BY <1>1, <1>2, <1>3, <1>4 DEF ProcState

\* Left is a number, whatever the place.
LEMMA LeftNat == IInv => \A p \in Procs : Left(p) \in Nat
<1> SUFFICES ASSUME IInv, NEW p \in Procs PROVE Left(p) \in Nat
  OBVIOUS
<1>1. proc[p] \in ProcState /\ Len(proc[p].repos) \in Nat
  BY RepoCount
<1> QED
  BY <1>1 DEF Left, ProcState

LEMMA ExitDecides ==
    ASSUME IInv, NEW p \in Procs, proc' = [proc EXCEPT ![p] = Down]
    PROVE  /\ proc[p].at \notin {"down", "ready"} => Left(p)' < Left(p)
           /\ Left(p)' <= Left(p)
<1>1. proc'[p] = Down
  BY DEF IInv, TypeOK
<1>2. Left(p)' = 0
  BY <1>1 DEF Left, Down
<1>3. /\ Left(p) \in Nat
      /\ proc[p].at \notin {"down", "ready"} => Left(p) > 0
  BY RepoCount DEF Left, ProcState
<1> QED
  BY <1>2, <1>3

LEMMA ProvidedDecides ==
    ASSUME IInv, NEW p \in Procs, Provided(p), proc[p].at \in {"bucket", "again"}
    PROVE  Left(p)' < Left(p)
<1> DEFINE n == Len(proc[p].repos)
<1>1. /\ proc[p] \in ProcState /\ n \in 1..2
      /\ Len(Tail(proc[p].repos)) = n - 1
  BY RepoCount
<1>2. /\ Len(proc'[p].repos) = n - 1
      /\ proc'[p].at = IF n = 1 THEN "routes" ELSE "bucket"
  BY <1>1 DEF Provided, Becomes, IInv, TypeOK, ProcState
<1>3. Left(p) >= 3 * n + 3
  BY <1>1 DEF Left
<1>4. Left(p)' = 3 * (n - 1) + 5
  BY <1>2 DEF Left
<1>5. n \in Nat
  BY <1>1
<1> HIDE DEF n
<1> QED
  BY <1>3, <1>4, <1>5, LeftNat

LEMMA MainDecides == ASSUME IInv, NEW p \in Procs, Main(p) PROVE Left(p)' < Left(p)
<1>1. proc[p] \in ProcState /\ Len(proc[p].repos) \in Nat
  BY RepoCount
<1>2. ASSUME Exit(p), ~At(p, "down"), ~At(p, "ready") PROVE Left(p)' < Left(p)
  BY <1>2, ExitDecides DEF Exit, Becomes, At
<1>3. CASE Connect(p)
  <2>1. ASSUME NEW up \in BOOLEAN,
               Becomes(p, [proc[p] EXCEPT !.at = "bucket", !.repos = Repos, !.link = up])
        PROVE  Left(p)' < Left(p)
    <3>1. proc'[p].at = "bucket" /\ proc'[p].repos = Repos
      BY <1>1, <2>1 DEF Becomes, IInv, TypeOK, ProcState
    <3>2. Left(p)' = 11
      BY <3>1 DEF Left, Repos
    <3>3. Left(p) >= 12
      <4>1. proc[p].at = "connect"
        BY <1>3 DEF Connect, At
      <4>2. Left(p) = 3 * Len(proc[p].repos) + 12
        BY <4>1 DEF Left
      <4> QED
        BY <1>1, <4>2
    <3>4. Left(p) \in Nat
      BY LeftNat
    <3> QED
      BY <3>2, <3>3, <3>4
  <2> QED
    BY <1>2, <1>3, <2>1 DEF Connect, At
<1>4. CASE LookUpBucket(p)
  <2>1. CASE Goto(p, "create")
    <3>1. Len(proc'[p].repos) = Len(proc[p].repos) /\ proc'[p].at = "create"
      BY <1>1, <2>1 DEF Goto, Becomes, IInv, TypeOK, ProcState
    <3> QED
      BY <1>1, <1>4, <3>1 DEF LookUpBucket, At, Left
  <2> QED
    BY <1>2, <1>4, <2>1, ProvidedDecides DEF LookUpBucket, At
<1>5. CASE CreateBucket(p)
  <2>1. CASE proc' = [proc EXCEPT ![p].at = "again"]
    <3>1. Len(proc'[p].repos) = Len(proc[p].repos) /\ proc'[p].at = "again"
      BY <1>1, <2>1 DEF IInv, TypeOK, ProcState
    <3> QED
      BY <1>1, <1>5, <3>1 DEF CreateBucket, At, Left
  <2>2. CASE proc' = [proc EXCEPT ![p] = Down]
    BY <1>5, <2>2, ExitDecides DEF CreateBucket, At
  <2> QED
    BY <1>2, <1>5, <2>1, <2>2 DEF CreateBucket, At
<1>6. CASE LookUpAgain(p)
  BY <1>2, <1>6, ProvidedDecides DEF LookUpAgain, At
<1>7. CASE RegisterRoutes(p)
  <2>1. Len(proc'[p].repos) = Len(proc[p].repos) /\ proc'[p].at = "listen"
    BY <1>1, <1>7 DEF RegisterRoutes, Becomes, IInv, TypeOK, ProcState
  <2> QED
    BY <1>1, <1>7, <2>1 DEF RegisterRoutes, At, Left
<1>8. CASE Listen(p)
  <2>1. Len(proc'[p].repos) = Len(proc[p].repos) /\ proc'[p].at = "enter"
    BY <1>1, <1>8 DEF Listen, Becomes, IInv, TypeOK, ProcState
  <2> QED
    <3>1. proc[p].at = "listen"
      BY <1>8 DEF Listen, At
    <3>2. Left(p) = 3 * Len(proc[p].repos) + 4
      BY <3>1 DEF Left
    <3>3. Left(p)' = 3 * Len(proc[p].repos) + 2 \/ Left(p)' = 3 * Len(proc[p].repos) + 3
      BY <2>1 DEF Left
    <3> QED
      BY <1>1, <3>2, <3>3
<1>9. CASE TimerFires(p)
  <2>1. /\ Len(proc'[p].repos) = Len(proc[p].repos) /\ proc'[p].fired
        /\ proc'[p].at = IF proc[p].at = "select" THEN "hooks" ELSE proc[p].at
    BY <1>1, <1>9 DEF TimerFires, Becomes, IInv, TypeOK, ProcState
  <2> QED
    BY <1>1, <1>9, <2>1 DEF TimerFires, Left
<1>10. CASE EnterSelect(p)
  <2>1. /\ Len(proc'[p].repos) = Len(proc[p].repos)
        /\ \/ proc'[p].at \in {"failed", "hooks"}
           \/ proc'[p].at = "select" /\ ~proc[p].fired
    <3>1. CASE Goto(p, "failed")
      BY <1>1, <3>1 DEF Goto, Becomes, IInv, TypeOK, ProcState
    <3>2. CASE Becomes(p, [proc[p] EXCEPT !.at = "hooks", !.overslept = TRUE])
      BY <1>1, <3>2 DEF Becomes, IInv, TypeOK, ProcState
    <3>3. CASE Goto(p, "select") /\ ~proc[p].fired
      BY <1>1, <3>3 DEF Goto, Becomes, IInv, TypeOK, ProcState
    <3> QED
      BY <1>10, <3>1, <3>2, <3>3 DEF EnterSelect
  <2> QED
    <3>1. proc[p].at = "enter"
      BY <1>10 DEF EnterSelect, At
    <3>2. \/ Left(p) = 3 * Len(proc[p].repos) + 2 /\ proc[p].fired
          \/ Left(p) = 3 * Len(proc[p].repos) + 3
      BY <3>1 DEF Left
    <3>3. CASE proc'[p].at \in {"failed", "hooks"}
      <4>1. Left(p)' = 3 * Len(proc[p].repos) + 1
        BY <2>1, <3>3 DEF Left
      <4> QED
        BY <1>1, <3>2, <4>1
    <3>4. CASE proc'[p].at = "select" /\ ~proc[p].fired
      <4>1. Left(p)' = 3 * Len(proc[p].repos) + 2
        BY <2>1, <3>4 DEF Left
      <4> QED
        BY <1>1, <3>2, <3>4, <4>1
    <3> QED
      BY <2>1, <3>3, <3>4
<1>11. CASE ListenFails(p)
  BY <1>2, <1>11 DEF ListenFails, At
<1>12. CASE OnStart(p)
  <2>1. Len(proc'[p].repos) = Len(proc[p].repos) /\ proc'[p].at = "ready"
    BY <1>1, <1>12 DEF OnStart, Becomes, IInv, TypeOK, ProcState
  <2> QED
    BY <1>1, <1>12, <2>1 DEF OnStart, At, Left
<1> QED
  BY <1>3, <1>4, <1>5, <1>6, <1>7, <1>8, <1>9, <1>10, <1>11, <1>12 DEF Main

\* Neither NATS nor the server sends a process back.
LEMMA NothingSendsBack ==
    ASSUME IInv, NEW p \in Procs, Interrupt(p) \/ LinkChanges(p) \/ Bind(p) \/ ServerFails(p)
    PROVE  Left(p)' <= Left(p)
<1>1. proc[p] \in ProcState /\ Len(proc[p].repos) \in Nat
  BY RepoCount
<1>2. CASE Interrupt(p)
  BY <1>2, ExitDecides DEF Interrupt, Exit, Becomes
<1>3. ASSUME Len(proc'[p].repos) = Len(proc[p].repos), proc'[p].fired = proc[p].fired,
             proc'[p].at = proc[p].at \/ (proc[p].at = "select" /\ proc'[p].at = "failed")
      PROVE  Left(p)' <= Left(p)
  BY <1>1, <1>3 DEF Left, ProcState
<1>4. CASE LinkChanges(p)
  BY <1>1, <1>3, <1>4 DEF LinkChanges, Becomes, IInv, TypeOK, ProcState
<1>5. CASE Bind(p)
  BY <1>1, <1>3, <1>5 DEF Bind, Becomes, IInv, TypeOK, ProcState
<1>6. CASE ServerFails(p)
  BY <1>1, <1>3, <1>6 DEF ServerFails, Becomes, IInv, TypeOK, ProcState
<1> QED
  BY <1>2, <1>4, <1>5, <1>6

\* A step of one process leaves the others' records alone.
LEMMA OneMoves ==
    ASSUME IInv, NEW p \in Procs, NEW q \in Procs \ {p},
           \/ Launch(q) \/ Interrupt(q) \/ LinkChanges(q) \/ Main(q) \/ Bind(q)
           \/ ServerFails(q)
    PROVE  proc'[p] = proc[p]
<1>1. \A rec : Becomes(q, rec) => proc'[p] = proc[p]
  BY DEF Becomes, IInv, TypeOK
<1>2. CreateBucket(q) => proc'[p] = proc[p]
  BY <1>1 DEF CreateBucket, Exit, IInv, TypeOK
<1> QED
  BY <1>1, <1>2 DEF Launch, Interrupt, LinkChanges, Main, Bind, ServerFails, Connect,
     LookUpBucket, LookUpAgain, RegisterRoutes, Listen, TimerFires, EnterSelect,
     ListenFails, OnStart, Provided, Goto, Exit

\* Each call of main leaves fewer to make, and nothing else adds to them: a
\* launched process is ready or gone after twelve calls, however many others
\* there are.
THEOREM CallsDecide == Spec => EachCallDecides
<1>0. IInv /\ [Next]_vars => \A p \in Procs : Left(p)' \in Nat
  <2>1. (IInv => \A p \in Procs : Left(p) \in Nat)'
    BY LeftNat, PTL
  <2> QED
    BY <2>1, NextInv
<1>1. ASSUME IInv, [Next]_vars, NEW p \in Procs, ~At(p, "down")
      PROVE  Left(p)' <= Left(p)
  <2>1. Left(p) \in Nat
    BY <1>1, LeftNat
  <2>2. CASE proc'[p] = proc[p]
    <3>1. Left(p)' = Left(p)
      BY <2>2 DEF Left
    <3> QED
      BY <2>1, <3>1
  <2>3. CASE Main(p)
    <3>1. Left(p)' < Left(p)
      BY <1>1, <2>3, MainDecides
    <3>2. Left(p)' \in Nat
      BY <1>1, <1>0
    <3> QED
      BY <2>1, <3>1, <3>2
  <2>4. CASE Interrupt(p) \/ LinkChanges(p) \/ Bind(p) \/ ServerFails(p)
    BY <1>1, <2>4, NothingSendsBack
  <2>5. ~Launch(p)
    BY <1>1 DEF Launch
  <2> QED
    BY <1>1, <2>2, <2>3, <2>4, <2>5, OneMoves DEF Next, vars
<1>2. IInv /\ [Next]_vars =>
          [\A p \in Procs :
               /\ Main(p) => Left(p)' < Left(p)
               /\ ~At(p, "down") => Left(p)' <= Left(p)]_vars
  BY <1>1, MainDecides
<1> QED
  BY <1>2, Invariant, PTL DEF Spec, EachCallDecides
==============================================================================
