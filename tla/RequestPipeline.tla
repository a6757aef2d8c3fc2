--------------------------- MODULE RequestPipeline --------------------------
(***************************************************************************)
(* A request's way through the gin engine of pkg/server/server.go: down    *)
(* the chain of middleware its route was registered with, through the      *)
(* handler, and up again, by return or by panic.  The handlers are those   *)
(* of pkg/server/handlers/server that have no module of their own.         *)
(*                                                                         *)
(* A call to a cluster is one step.  The logger, which only logs, is left  *)
(* out; a panic stands for any a handler may raise while it works on an    *)
(* answer, as listPodOfDeployment does on a nil list.                      *)
(*                                                                         *)
(* A definition marked "fault:" is a mutated form of the next one, kept to *)
(* show that a property can fail; no specification uses it.                *)
(***************************************************************************)
EXTENDS Naturals, Sequences, FiniteSets, Functions

CONSTANTS
    Requests,   \* the HTTP requests of one run of the server
    NoRoute     \* a request that has not arrived yet

VARIABLES
    route,      \* route[q]: the route q matches, NoRoute before it arrives
    authorized, \* authorized[q]: does it carry the configured user
    at,         \* at[q]: how many functions of the chain are on the stack
    mode,       \* mode[q]: "down" or "up" the chain, "panic", or the call
                \* its handler makes
    status,     \* status[q]: the status of its response writer
    bodies,     \* bodies[q]: how many bodies were written to it
    calls,      \* history: how its calls to the cluster came out
    reqCount    \* the counter: by route and status

vars == <<route, authorized, at, mode, status, bodies, calls, reqCount>>

Api    == {"listNamespaceOfNode", "proxyCluster", "podNetConnectServer"}
Routes == Api \cup {"ping", "metrics", "unknown"}

ASSUME NoRouteAssumption == NoRoute \notin Routes

HandlerSteps == {"lookup", "listNamespaceOfNode", "proxyCluster",
                 "podNetConnectServer", "fallback"}
Modes == HandlerSteps \cup {"idle", "down", "up", "panic", "done"}

\* 409 stands for any status a cluster's API server answers an error with.
Statuses == {200, 400, 401, 404, 409, 500}

\* A Status of the API server, the exit code of a command, or a call that
\* fails without either.
Outcomes == {"ok", "apistatus", "exit", "fault"}

ChainWithoutRecovery(r) ==     \* fault: Use(prom) alone
    CASE r = "ping"    -> <<"recovery", "handler">>
      [] r = "metrics" -> <<"recovery", "prom", "handler">>
      [] r = "unknown" -> <<"recovery", "prom">>
      [] r \in Api     -> <<"recovery", "prom", "auth", "handler">>

ChainOfNew(r) ==     \* fault: gin.New in place of Default, and Use(prom) alone
    SelectSeq(ChainWithoutRecovery(r), LAMBDA f : f # "recovery")

\* gin.Default and Use: a route has the middleware that was in use when it
\* was registered, and no route what is in use in the end.
Chain(r) ==
    CASE r = "ping"    -> <<"recovery", "handler">>
      [] r = "metrics" -> <<"recovery", "prom", "recovery", "handler">>
      [] r = "unknown" -> <<"recovery", "prom", "recovery">>
      [] r \in Api     -> <<"recovery", "prom", "recovery", "auth", "handler">>

Init ==
    /\ route = [q \in Requests |-> NoRoute]
    /\ authorized = [q \in Requests |-> FALSE]
    /\ at = [q \in Requests |-> 0]
    /\ mode = [q \in Requests |-> "idle"]
    /\ status = [q \in Requests |-> 200]
    /\ bodies = [q \in Requests |-> 0]
    /\ calls = [q \in Requests |-> <<>>]
    /\ reqCount = [rs \in Routes \X Statuses |-> 0]
-----------------------------------------------------------------------------
(***************************************************************************)
(* The engine.                                                             *)
(***************************************************************************)
Arrive(q) ==
    /\ mode[q] = "idle"
    /\ \E r \in Routes, ok \in BOOLEAN :
         /\ route' = [route EXCEPT ![q] = r]
         /\ authorized' = [authorized EXCEPT ![q] = ok]
         /\ status' = [status EXCEPT ![q] = IF r = "unknown" THEN 404 ELSE @]
    /\ mode' = [mode EXCEPT ![q] = "down"]
    /\ UNCHANGED <<at, bodies, calls, reqCount>>

Top(q) == Chain(route[q])[at[q]]

ForbidAndGoOn(q) ==     \* fault: AbortWithStatus without the Abort
    /\ status' = [status EXCEPT ![q] = 401]
    /\ mode' = [mode EXCEPT ![q] = "down"]

\* auth.MultiAuth of a request without the right user.
Forbid(q) ==
    /\ status' = [status EXCEPT ![q] = 401]
    /\ mode' = [mode EXCEPT ![q] = "up"]

\* The next function of the chain, or the way back when there is none.
Enter(q) ==
    /\ mode[q] = "down"
    /\ IF at[q] = Len(Chain(route[q]))
       THEN mode' = [mode EXCEPT ![q] = "up"] /\ UNCHANGED <<at, status>>
       ELSE LET next == Chain(route[q])[at[q] + 1]
            IN  /\ at' = [at EXCEPT ![q] = @ + 1]
                /\ IF next = "auth" /\ ~authorized[q]
                   THEN Forbid(q)
                   ELSE /\ mode' = [mode EXCEPT ![q] =
                                       IF next = "handler" THEN "lookup"
                                                           ELSE "down"]
                        /\ UNCHANGED status
    /\ UNCHANGED <<route, authorized, bodies, calls, reqCount>>

\* PromMiddleware after c.Next.
Count(q) ==
    reqCount' = IF Top(q) = "prom" /\ route[q] # "metrics"
                THEN [reqCount EXCEPT ![<<route[q], status[q]>>] = @ + 1]
                ELSE reqCount

Leave(q) ==
    /\ mode[q] = "up"
    /\ IF at[q] = 0
       THEN mode' = [mode EXCEPT ![q] = "done"] /\ UNCHANGED <<at, reqCount>>
       ELSE /\ at' = [at EXCEPT ![q] = @ - 1]
            /\ Count(q)
            /\ UNCHANGED mode
    /\ UNCHANGED <<route, authorized, status, bodies, calls>>

\* A panic passes by what does not recover; Recovery answers 500 and aborts.
Unwind(q) ==
    /\ mode[q] = "panic" /\ at[q] > 0
    /\ at' = [at EXCEPT ![q] = @ - 1]
    /\ IF Top(q) = "recovery"
       THEN /\ mode' = [mode EXCEPT ![q] = "up"]
            /\ status' = [status EXCEPT ![q] = 500]
       ELSE UNCHANGED <<mode, status>>
    /\ UNCHANGED <<route, authorized, bodies, calls, reqCount>>
-----------------------------------------------------------------------------
(***************************************************************************)
(* The handlers.                                                           *)
(***************************************************************************)
RespondSilently(q, s, n) ==     \* fault: returns without a body
    /\ mode' = [mode EXCEPT ![q] = "up"]
    /\ status' = [status EXCEPT ![q] = s]
    /\ UNCHANGED bodies

\* n bodies, the first under status s, and the return of the handler.
Respond(q, s, n) ==
    /\ mode' = [mode EXCEPT ![q] = "up"]
    /\ status' = [status EXCEPT ![q] = s]
    /\ bodies' = [bodies EXCEPT ![q] = @ + n]

\* servererror.HandleError: a Status keeps its code.
HandleError(q, s, outcome) == Respond(q, IF outcome = "apistatus" THEN 409 ELSE s, 1)

\* /ping and /metrics answer at once; a connect without a server is refused;
\* all others look their cluster up.
Lookup(q) ==
    /\ mode[q] = "lookup"
    /\ IF route[q] \notin Api
       THEN Respond(q, 200, 1)
       ELSE \/ route[q] = "podNetConnectServer" /\ Respond(q, 400, 1)
            \/ Respond(q, 500, 1)
            \/ /\ mode' = [mode EXCEPT ![q] = route[q]]
               /\ UNCHANGED <<status, bodies>>
    /\ UNCHANGED <<route, authorized, at, calls, reqCount>>

ListNamespaceOfNode(q, outcome) ==
    /\ mode[q] = "listNamespaceOfNode"
    /\ outcome # "exit"
    /\ IF outcome = "ok" THEN Respond(q, 200, 1) ELSE HandleError(q, 500, outcome)

\* After an error the handler does not return: c.Data writes the body of the
\* API server's answer behind the error, or nothing when there was none.
ProxyCluster(q, outcome) ==
    /\ mode[q] = "proxyCluster"
    /\ \/ outcome = "ok" /\ Respond(q, 200, 1)
       \/ outcome = "apistatus" /\ Respond(q, 409, 2)
       \/ outcome = "fault" /\ Respond(q, 500, 1)

PodNetConnectServerGoesOn(q, outcome) ==     \* fault: no return after HandleError
    /\ mode[q] = "podNetConnectServer"
    /\ IF outcome = "ok"
       THEN Respond(q, 200, 1)
       ELSE /\ mode' = [mode EXCEPT ![q] = "fallback"]
            /\ bodies' = [bodies EXCEPT ![q] = IF outcome = "apistatus" THEN 1 ELSE 0]
            /\ UNCHANGED status

\* curl; when it could be started and failed, nc or ping.
PodNetConnectServer(q, outcome) ==
    /\ mode[q] = "podNetConnectServer"
    /\ \/ outcome = "ok" /\ Respond(q, 200, 1)
       \/ outcome = "apistatus" /\ HandleError(q, 500, outcome)
       \/ /\ outcome \in {"exit", "fault"}
          /\ mode' = [mode EXCEPT ![q] = "fallback"]
          /\ UNCHANGED <<status, bodies>>

FallbackAnyway(q, outcome) ==     \* fault: the inner err shadows the outer
    /\ mode[q] = "fallback"
    /\ Respond(q, 200, 1)

Fallback(q, outcome) ==
    /\ mode[q] = "fallback"
    /\ IF outcome = "ok" THEN Respond(q, 200, 1) ELSE HandleError(q, 400, outcome)

Call(q) ==
    /\ \E outcome \in Outcomes :
         /\ calls' = [calls EXCEPT ![q] = Append(@, outcome)]
         /\ \/ ListNamespaceOfNode(q, outcome) \/ ProxyCluster(q, outcome)
            \/ PodNetConnectServer(q, outcome) \/ Fallback(q, outcome)
    /\ UNCHANGED <<route, authorized, at, reqCount>>

Panic(q) ==
    /\ mode[q] \in HandlerSteps \ {"lookup"}
    /\ mode' = [mode EXCEPT ![q] = "panic"]
    /\ UNCHANGED <<route, authorized, at, status, bodies, calls, reqCount>>

Serve(q) ==
    Enter(q) \/ Lookup(q) \/ Call(q) \/ Panic(q) \/ Unwind(q) \/ Leave(q)

Next == \E q \in Requests : Arrive(q) \/ Serve(q)

Spec == Init /\ [][Next]_vars

\* The goroutine of a request runs, and its calls return.
FairSpec == Spec /\ \A q \in Requests : WF_vars(Serve(q))
-----------------------------------------------------------------------------
(***************************************************************************)
(* Properties.                                                             *)
(***************************************************************************)
Done(q) == mode[q] = "done"

\* The type invariant; an answer of a handler has a body.
TypeOK ==
    /\ route \in [Requests -> Routes \cup {NoRoute}]
    /\ authorized \in [Requests -> BOOLEAN]
    /\ mode \in [Requests -> Modes]
    /\ status \in [Requests -> Statuses]
    /\ bodies \in [Requests -> 0 .. 2]
    /\ calls \in [Requests -> Seq(Outcomes)]
    /\ reqCount \in [Routes \X Statuses -> Nat]
    /\ \A q \in Requests :
         /\ at[q] \in 0 .. 5
         /\ mode[q] = "idle" <=> route[q] = NoRoute
         /\ mode[q] \in HandlerSteps => Top(q) = "handler"
         /\ Done(q) /\ status[q] \notin {401, 404, 500} => bodies[q] > 0

\* The counter tells the truth: when no request is under way, it holds for
\* every route and status as many requests as were answered so, be it by a
\* handler, by auth, by no route or by the recovery from a panic.  /ping,
\* registered before the middleware, and /metrics are never counted.
CountersMatch ==
    (\A q \in Requests : mode[q] \in {"idle", "done"}) =>
        \A r \in Routes, s \in Statuses :
            reqCount[<<r, s>>] =
                IF r \in {"ping", "metrics"} THEN 0
                ELSE Cardinality({q \in Requests :
                                     Done(q) /\ route[q] = r /\ status[q] = s})

\* A request without the right user is answered 401 and reaches no cluster.
UnauthorizedCallsNothing ==
    \A q \in Requests : route[q] \in Api /\ ~authorized[q] =>
        /\ calls[q] = <<>>
        /\ Done(q) => status[q] = 401 /\ bodies[q] = 0

\* The connectivity test says 200 exactly when one of its two commands ended
\* well in the pod, and passes on what the API server refused.
ConnectTellsTheTruth ==
    \A q \in Requests :
        Done(q) /\ route[q] = "podNetConnectServer" =>
            /\ status[q] = 200 <=> "ok" \in Range(calls[q])
            /\ status[q] = 409 <=> "apistatus" \in Range(calls[q])

\* Every request that arrives is answered, whatever panics.
EveryRequestEnds == \A q \in Requests : route[q] # NoRoute ~> Done(q)

\* A response has one body, whatever failed on the way to it, but for one: the
\* error of a proxied cluster, after which proxyCluster does not return.
OneBody ==
    \A q \in Requests :
        bodies[q] > 1 => route[q] = "proxyCluster" /\ calls[q] = <<"apistatus">>
=============================================================================
