------------------------------- MODULE Startup -------------------------------
(***************************************************************************)
(* How a kloudmeter process comes up (main.go, framework.go, app.go): fx   *)
(* builds the NATS client and the two repositories because the invocations *)
(* need them, the routes are registered, Listen starts the HTTP server and *)
(* watches it for a second, and the OnStart hook starts consumption.  An   *)
(* error on the way ends the process; it may also be interrupted at any    *)
(* time.  Several processes (replicas, or the old and the new one of a     *)
(* restart) share the buckets.                                             *)
(***************************************************************************)
EXTENDS Naturals, Sequences

CONSTANT Procs

VARIABLES
    buckets,      \* the key-value buckets that exist in NATS
    proc          \* proc[p]: the process

vars == <<buckets, proc>>

\* The parameters of domain.Module that fx resolves to a bucket, in order.
Repos == <<"meters", "readings">>
Buckets == {"meters", "readings"}

\* at: where main is; repos: the repositories still to be built; link: is the
\* client connected?; server: what App.Listen is doing; fired: is Listen's
\* second over?; late: history, it was when the server failed; overslept:
\* history, it was when main got to the select.
Down == [at |-> "down", repos |-> <<>>, link |-> FALSE, routes |-> FALSE,
         server |-> "none", fired |-> FALSE, late |-> FALSE,
         overslept |-> FALSE, consuming |-> FALSE]

TypeOK ==
    /\ buckets \subseteq Buckets
    /\ proc \in [Procs ->
           [at : {"down", "connect", "bucket", "create", "again", "routes", "listen",
                  "enter", "select", "failed", "hooks", "ready"},
            repos : {<<>>, <<"readings">>, Repos},
            link : BOOLEAN, routes : BOOLEAN,
            server : {"none", "starting", "serving", "error"},
            fired : BOOLEAN, late : BOOLEAN, overslept : BOOLEAN, consuming : BOOLEAN]]

Init ==
    /\ buckets = {}
    /\ proc = [p \in Procs |-> Down]

At(p, step) == proc[p].at = step

\* p's record becomes rec, and NATS keeps its buckets.
Becomes(p, rec) == proc' = [proc EXCEPT ![p] = rec] /\ UNCHANGED buckets
Goto(p, step) == Becomes(p, [proc[p] EXCEPT !.at = step])

\* Start reports an error and main calls os.Exit.
Exit(p) == Becomes(p, Down)

-----------------------------------------------------------------------------
(* The environment                                                         *)

Launch(p) == At(p, "down") /\ Goto(p, "connect")

\* A signal: main returns, nothing is shut down in order.
Interrupt(p) == ~At(p, "down") /\ Exit(p)

\* The link is lost and found again; MaxReconnect is -1, and the client's
\* callbacks only write to the log.
LinkChanges(p) ==
    /\ proc[p].at \notin {"down", "connect"}
    /\ Becomes(p, [proc[p] EXCEPT !.link = ~@])

-----------------------------------------------------------------------------
(* Providing the repositories                                              *)

\* RetryOnFailedConnect: a client is there whether NATS is or not.
Connect(p) ==
    /\ At(p, "connect")
    /\ \/ \E up \in BOOLEAN :
              Becomes(p, [proc[p] EXCEPT !.at = "bucket", !.repos = Repos, !.link = up])
       \/ Exit(p)

Bucket(p) == Head(proc[p].repos)

\* Mutant of Provided: the repository is built once more.
ProvidedAgain(p) ==
    Becomes(p, [proc[p] EXCEPT !.repos = <<Head(@)>> \o @, !.at = "bucket"])

Provided(p) ==
    Becomes(p, [proc[p] EXCEPT !.repos = Tail(@),
                               !.at = IF Len(proc[p].repos) = 1 THEN "routes" ELSE "bucket"])

\* Mutants of LookUpBucket: a missing bucket is not created; the call waits
\* until NATS can be reached.
LookUpBucketOnly(p) ==
    /\ At(p, "bucket")
    /\ \/ proc[p].link /\ Provided(p)
       \/ Exit(p)

LookUpBucketWaiting(p) ==
    /\ At(p, "bucket")
    /\ proc[p].link
    /\ \/ Bucket(p) \in buckets /\ Provided(p)
       \/ Bucket(p) \notin buckets /\ Goto(p, "create")

\* Only ErrBucketNotFound leads to Create; a call without a link times out.
LookUpBucket(p) ==
    /\ At(p, "bucket")
    /\ \/ proc[p].link /\ Bucket(p) \in buckets /\ Provided(p)
       \/ proc[p].link /\ Bucket(p) \notin buckets /\ Goto(p, "create")
       \/ Exit(p)

\* Another process may have created the bucket since; NATS takes the same
\* configuration twice.
CreateBucket(p) ==
    /\ At(p, "create")
    /\ \/ /\ proc[p].link
          /\ buckets' = buckets \cup {Bucket(p)}
          /\ \/ proc' = [proc EXCEPT ![p].at = "again"]
             \/ proc' = [proc EXCEPT ![p] = Down]
       \/ Exit(p)

LookUpAgain(p) ==
    /\ At(p, "again")
    /\ \/ proc[p].link /\ Bucket(p) \in buckets /\ Provided(p)
       \/ Exit(p)

-----------------------------------------------------------------------------
(* Serving                                                                 *)

\* fx runs the invocations of the inner module, app, before framework's.
RegisterRoutes(p) ==
    /\ At(p, "routes")
    /\ Becomes(p, [proc[p] EXCEPT !.at = "listen", !.routes = TRUE])

Listen(p) ==
    /\ At(p, "listen")
    /\ Becomes(p, [proc[p] EXCEPT !.at = "enter", !.server = "starting"])

Bind(p) ==
    /\ proc[p].server = "starting"
    /\ Becomes(p, [proc[p] EXCEPT !.server = "serving"])

\* Mutant of ServerFails: the error goes to the log and not to the channel.
ServerFailsUnsent(p) ==
    /\ proc[p].server \in {"starting", "serving"}
    /\ Becomes(p, [proc[p] EXCEPT !.server = "error", !.late = proc[p].fired])

\* App.Listen returns.  Its error is received at once by a waiting select, and
\* kept in the channel's buffer otherwise.
ServerFails(p) ==
    /\ proc[p].server \in {"starting", "serving"}
    /\ Becomes(p, [proc[p] EXCEPT !.server = "error", !.late = proc[p].fired,
                                  !.at = IF @ = "select" THEN "failed" ELSE @])

\* The second is over, which ends a waiting select without an error.
TimerFires(p) ==
    /\ proc[p].at \in {"enter", "select"} /\ ~proc[p].fired
    /\ Becomes(p, [proc[p] EXCEPT !.fired = TRUE, !.at = IF @ = "select" THEN "hooks" ELSE @])

\* The select finds what is there already; of two, Go takes any.
EnterSelect(p) ==
    /\ At(p, "enter")
    /\ \/ proc[p].server = "error" /\ Goto(p, "failed")
       \/ proc[p].fired /\ Becomes(p, [proc[p] EXCEPT !.at = "hooks", !.overslept = TRUE])
       \/ proc[p].server # "error" /\ ~proc[p].fired /\ Goto(p, "select")

ListenFails(p) == At(p, "failed") /\ Exit(p)

OnStart(p) ==
    /\ At(p, "hooks")
    /\ Becomes(p, [proc[p] EXCEPT !.at = "ready", !.consuming = TRUE])

Main(p) ==
    \/ Connect(p) \/ LookUpBucket(p) \/ CreateBucket(p) \/ LookUpAgain(p)
    \/ RegisterRoutes(p) \/ Listen(p) \/ TimerFires(p) \/ EnterSelect(p)
    \/ ListenFails(p) \/ OnStart(p)

Next ==
    \E p \in Procs :
        Launch(p) \/ Interrupt(p) \/ LinkChanges(p) \/ Main(p) \/ Bind(p) \/ ServerFails(p)

Spec == Init /\ [][Next]_vars

\* Calls return, with an answer or an error, and time passes.
FairSpec == Spec /\ \A p \in Procs : WF_vars(Main(p))

-----------------------------------------------------------------------------
(* Properties                                                              *)

\* A request never meets a server without its routes or without the buckets
\* behind them, however many processes come up, fail half-way and race for
\* the buckets: everything a handler needs is there before Listen.
ServesWithBuckets ==
    \A p \in Procs :
        proc[p].server = "serving" => proc[p].routes /\ buckets = Buckets

\* An error of the server within Listen's second ends the process
\* (http-server.go:56), before the select as well as in it.  The exception is a
\* process that got to the select only when the second was over: with an answer
\* in both channels Go takes either, and the error may be left unread.
EarlyErrorEndsProcess ==
    \A p \in Procs :
        proc[p].server = "error" /\ ~proc[p].late /\ ~proc[p].overslept =>
            proc[p].at \notin {"hooks", "ready"}

\* The calls main may still have to make before p is ready or gone: at most
\* three for each repository, and twelve in all.
Left(p) ==
    LET at == proc[p].at IN
    3 * Len(proc[p].repos) +
    CASE at \in {"down", "ready"} -> 0
      [] at \in {"failed", "hooks"} -> 1
      [] at = "select" -> 2
      [] at = "enter" -> IF proc[p].fired THEN 2 ELSE 3
      [] at = "again" -> 3
      [] at \in {"listen", "create"} -> 4
      [] at \in {"routes", "bucket"} -> 5
      [] at = "connect" -> 12

\* Main never goes round in circles (nats-kv-repo.go:203, http-server.go:56):
\* each of its calls, failed ones included, brings the process closer to being
\* ready or gone, and neither NATS, nor its own server, nor any other process
\* sends it back.
EachCallDecides ==
    [][\A p \in Procs :
           /\ Main(p) => Left(p)' < Left(p)
           /\ ~At(p, "down") => Left(p)' <= Left(p)]_vars

\* A launched process comes to a decision, ready or gone, whether NATS can be
\* reached or not.
StartDecides == \A p \in Procs : ~At(p, "down") ~> At(p, "ready") \/ At(p, "down")
==============================================================================
