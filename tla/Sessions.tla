------------------------------- MODULE Sessions -------------------------------
(***************************************************************************)
(* The session middleware of pkg/http-server over a repository: a request  *)
(* that carries a cookie has its session looked up and handed on; the full *)
(* middleware also hands the handler two functions, set-session and        *)
(* delete-session, which change the repository at once and the browser's   *)
(* cookie when the response arrives.  Both report a failing call nowhere.  *)
(***************************************************************************)
EXTENDS KVRepo

CONSTANTS
    Browsers,
    Requests      \* the requests that can be in flight at the same time

\* The keys are the session ids, and an id stands for the session.  NoData is
\* no cookie, and no session.
ASSUME SessionsUnderTheirIds == Data = Keys
ASSUME MarksAreNotIds == "same" \notin Keys /\ "expired" \notin Keys

VARIABLES
    jar,          \* jar[b]: the cookie browser b holds
    req,          \* the requests in flight
    troubled      \* history: the ids a call failed on, that expired, or that
                  \* were deleted while somebody else was using them

vars == <<repo, jar, req, troubled>>

Idle == [at |-> "idle"]

\* session "nil" is a session in the context that is a nil pointer; reply is
\* the cookie in the response, "same" when it has none.
InFlight ==
    [at : {"lookup", "handle"}, browser : Browsers, full : BOOLEAN,
     cookie : Keys \cup {NoData}, session : Keys \cup {NoData, "nil"},
     reply : Keys \cup {"same", "expired"}]

TypeOK ==
    /\ RepoTypeOK
    /\ jar \in [Browsers -> Keys \cup {NoData}]
    /\ req \in [Requests -> InFlight \cup {Idle}]
    /\ troubled \subseteq Keys

Init ==
    /\ RepoInit
    /\ jar = [b \in Browsers |-> NoData]
    /\ req = [r \in Requests |-> Idle]
    /\ troubled = {}

-----------------------------------------------------------------------------
\* A browser sends what its jar holds; a request without a cookie goes
\* straight to the handler.
Arrive(r, b, full) ==
    /\ req[r] = Idle
    /\ req' = [req EXCEPT ![r] =
           [at |-> IF jar[b] = NoData THEN "handle" ELSE "lookup", browser |-> b,
            full |-> full, cookie |-> jar[b], session |-> NoData, reply |-> "same"]]
    /\ UNCHANGED <<repo, jar, troubled>>

\* A missing session is no error: the request goes on without one - in the
\* full middleware with a nil one, since "get" is an interface there.  Any
\* other error, that of an expired session included, refuses the request.
LookUp(r) ==
    /\ req[r].at = "lookup"
    /\ \E result \in Keys \cup {NoData, "error"} :
           /\ Get(req[r].cookie, result)
           /\ req' = [req EXCEPT ![r] =
                  IF result = "error" THEN Idle
                  ELSE [@ EXCEPT !.at = "handle",
                                 !.session = IF result = NoData /\ req[r].full
                                             THEN "nil" ELSE result]]
    /\ UNCHANGED <<jar, troubled>>

\* Mutant of SetSession: the cookie promises a session that is not stored.
SetSessionLater(r, id) ==
    /\ req[r].at = "handle" /\ req[r].full
    /\ req' = [req EXCEPT ![r].reply = id]
    /\ UNCHANGED <<repo, jar, troubled>>

\* set-session: the cookie is sent whether the Set has succeeded or not.
SetSession(r, id) ==
    /\ req[r].at = "handle" /\ req[r].full
    /\ \E result \in {"ok", "error"} :
           /\ Set(id, id, result)
           /\ troubled' = IF result = "ok" THEN troubled ELSE troubled \cup {id}
    /\ req' = [req EXCEPT ![r].reply = id]
    /\ UNCHANGED jar

\* Somebody but request r and its browser uses id: another browser, or
\* another request that has it as its cookie or is about to hand it out.
UsedElsewhere(r, id) ==
    \/ \E b \in Browsers \ {req[r].browser} : jar[b] = id
    \/ \E q \in Requests \ {r} : req[q] # Idle /\ id \in {req[q].cookie, req[q].reply}

\* delete-session: the session of the request's cookie is dropped, which is
\* not the one that set-session has just stored.
DeleteSession(r) ==
    /\ req[r].at = "handle" /\ req[r].full
    /\ IF req[r].cookie = NoData
       THEN UNCHANGED <<repo, troubled>>
       ELSE /\ \E result \in {"ok", "error"} : Drop(req[r].cookie, result)
            /\ troubled' = IF UsedElsewhere(r, req[r].cookie)
                           THEN troubled \cup {req[r].cookie} ELSE troubled
    /\ req' = [req EXCEPT ![r].reply = "expired"]
    /\ UNCHANGED jar

\* Mutant of Respond: the cookie's past expiry is forgotten, and its value
\* "expired" kept like an id.
RespondUnexpired(r) ==
    /\ req[r].at = "handle"
    /\ jar' = [jar EXCEPT ![req[r].browser] =
           IF req[r].reply = "same" THEN @ ELSE req[r].reply]
    /\ req' = [req EXCEPT ![r] = Idle]
    /\ UNCHANGED <<repo, troubled>>

Respond(r) ==
    /\ req[r].at = "handle"
    /\ jar' = [jar EXCEPT ![req[r].browser] =
           CASE req[r].reply = "same" -> @
             [] req[r].reply = "expired" -> NoData
             [] OTHER -> req[r].reply]
    /\ req' = [req EXCEPT ![r] = Idle]
    /\ UNCHANGED <<repo, troubled>>

\* Beside the middleware: the program that stores sessions with an expiry, the
\* goroutines that Get has started, and time.
Around(id) ==
    /\ \/ \E result \in {"ok", "error"} : SetWithExpiry(id, id, result)
          /\ UNCHANGED troubled
       \/ Cleanup(id) /\ UNCHANGED troubled
       \/ Expire(id) /\ troubled' = troubled \cup {id}
    /\ UNCHANGED <<jar, req>>

Next ==
    \/ \E r \in Requests :
           \/ \E b \in Browsers, full \in BOOLEAN : Arrive(r, b, full)
           \/ LookUp(r) \/ DeleteSession(r) \/ Respond(r)
           \/ \E id \in Keys : SetSession(r, id)
    \/ \E id \in Keys : Around(id)

Spec == Init /\ [][Next]_vars

-----------------------------------------------------------------------------
(* Properties                                                              *)

\* A browser's cookie names a stored session, although the middleware tells
\* neither browser nor handler of a failure: while no request of the browser
\* is in flight, its cookie is good unless a call on that session failed, the
\* session expired, or somebody deleted it under the eyes of another user.
CookieBacked ==
    \A b \in Browsers :
        /\ jar[b] \notin troubled \cup {NoData}
        /\ \A r \in Requests : req[r] # Idle => req[r].browser # b
        => store[jar[b]] # Nothing
==============================================================================
