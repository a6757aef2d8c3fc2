------------------------ MODULE RequestPipelineProofs -----------------------
(***************************************************************************)
(* Proofs about RequestPipeline, for any set of requests:                  *)
(*                                                                         *)
(*   TypeCorrect     Spec => []TypeOK                                      *)
(*   NothingUnasked  Spec => []UnauthorizedCallsNothing                    *)
(*   ConnectIsTrue   Spec => []ConnectTellsTheTruth                        *)
(*   AtMostOneBody   Spec => []OneBody                                     *)
(*   CountersTell    Spec => []CountersMatch                               *)
(*                                                                         *)
(* The inductive invariant says of each request what holds at each place   *)
(* of its way down the chain, through the handler and up again (Sound),    *)
(* and that the counter counts those that are past the prom middleware on  *)
(* their way up (Tallied).  The requests that have arrived are finitely    *)
(* many at any time, so that nothing need be assumed of Requests.          *)
(***************************************************************************)
EXTENDS RequestPipeline, SequenceTheorems, FiniteSetTheorems, TLAPS

Fields ==
    /\ route \in [Requests -> Routes \cup {NoRoute}]
    /\ authorized \in [Requests -> BOOLEAN]
    /\ at \in [Requests -> 0 .. 5]
    /\ mode \in [Requests -> Modes]
    /\ status \in [Requests -> Statuses]
    /\ bodies \in [Requests -> 0 .. 2]
    /\ calls \in [Requests -> Seq(Outcomes)]

\* How many functions of r's chain come before the handler.
Middleware(r) ==
    IF r = "ping" THEN 1 ELSE IF r \in Api THEN 4 ELSE 3

\* No call has come out in a way that decides the answer.
Undecided(c) == Range(c) \subseteq {"exit", "fault"}

\* Before the handler.
Fresh(q) == bodies[q] = 0 /\ calls[q] = <<>>

SoundDown(q) ==
    /\ route[q] \in Routes /\ Fresh(q)
    /\ at[q] \in 0 .. Middleware(route[q])
    /\ status[q] = (IF route[q] = "unknown" THEN 404 ELSE 200)
    /\ route[q] \in Api /\ at[q] = 4 => authorized[q]

\* In the handler.
SoundHandler(q) ==
    /\ route[q] \in Routes \ {"unknown"}
    /\ at[q] = Middleware(route[q]) + 1
    /\ bodies[q] = 0 /\ status[q] = 200
    /\ route[q] \in Api => authorized[q]
    /\ mode[q] = "lookup" => calls[q] = <<>>
    /\ mode[q] \in Api => route[q] = mode[q] /\ calls[q] = <<>>
    /\ mode[q] = "fallback" =>
         route[q] = "podNetConnectServer" /\ Undecided(calls[q])

\* A panic is on its way from the handler to the inner recovery.
SoundPanic(q) ==
    /\ route[q] \in Api /\ authorized[q]
    /\ at[q] \in 3 .. 5
    /\ bodies[q] = 0 /\ Undecided(calls[q])

\* The response is what it will be.
SoundAnswer(q) ==
    /\ route[q] \in Routes
    /\ status[q] \notin {401, 404, 500} => bodies[q] > 0
    /\ bodies[q] > 1 => route[q] = "proxyCluster" /\ calls[q] = <<"apistatus">>
    /\ route[q] \in Api /\ ~authorized[q] =>
         Fresh(q) /\ status[q] = 401
    /\ route[q] = "podNetConnectServer" =>
         /\ status[q] = 200 <=> "ok" \in Range(calls[q])
         /\ status[q] = 409 <=> "apistatus" \in Range(calls[q])

SoundIdle(q) ==
    /\ route[q] = NoRoute /\ at[q] = 0 /\ status[q] = 200 /\ Fresh(q)

Sound(q) ==
    /\ mode[q] = "idle" => SoundIdle(q)
    /\ mode[q] = "down" => SoundDown(q)
    /\ mode[q] \in HandlerSteps => SoundHandler(q)
    /\ mode[q] = "panic" => SoundPanic(q)
    /\ mode[q] \in {"up", "done"} => SoundAnswer(q)
    /\ mode[q] = "up" => at[q] <= Len(Chain(route[q]))
    /\ mode[q] = "done" => at[q] = 0

\* On its way up, q is past the prom of its chain, if that has one.
Passed(q) == mode[q] \in {"up", "done"} /\ at[q] < 2

Tally(r, s) ==
    {q \in Requests : Passed(q) /\ route[q] = r /\ status[q] = s}

Arrived == {q \in Requests : mode[q] # "idle"}

Tallied ==
    /\ IsFiniteSet(Arrived)
    /\ reqCount \in [Routes \X Statuses -> Nat]
    /\ \A r \in Routes, s \in Statuses :
         reqCount[<<r, s>>] = IF r \in {"ping", "metrics"} THEN 0
                          ELSE Cardinality(Tally(r, s))

IInv == Fields /\ (\A q \in Requests : Sound(q)) /\ Tallied
-----------------------------------------------------------------------------
(***************************************************************************)
(* Lemmas.                                                                 *)
(***************************************************************************)
\* The chain of every kind of route.
LEMMA Chains ==
    /\ Chain("ping") = <<"recovery", "handler">>
    /\ Chain("metrics") = <<"recovery", "prom", "recovery", "handler">>
    /\ Chain("unknown") = <<"recovery", "prom", "recovery">>
    /\ \A r \in Api :
         Chain(r) = <<"recovery", "prom", "recovery", "auth", "handler">>
  BY DEF Chain, Api

\* Where the functions of a chain are.
LEMMA Places ==
    ASSUME NEW r \in Routes
    PROVE  /\ Middleware(r) \in 1 .. 4
           /\ Len(Chain(r)) = IF r = "unknown" THEN 3 ELSE Middleware(r) + 1
           /\ r # "unknown" => Chain(r)[Middleware(r) + 1] = "handler"
           /\ \A i \in 1 .. Middleware(r) :
                /\ Chain(r)[i] # "handler"
                /\ Chain(r)[i] = "auth" <=> r \in Api /\ i = 4
           /\ r \in Api => Middleware(r) = 4
           /\ r = "unknown" => Middleware(r) = 3
           /\ \A i \in 1 .. 5 : i <= Len(Chain(r)) =>
                (Chain(r)[i] = "prom" <=> r # "ping" /\ i = 2)
           /\ r \in Api => \A i \in 3 .. 5 :
                Chain(r)[i] = "recovery" <=> i = 3
  <1>1. CASE r = "ping"
    <2>1. /\ Middleware(r) = 1 /\ r \notin Api
          /\ r # "unknown"
      BY <1>1 DEF Middleware, Api
    <2>2. Chain(r) = <<"recovery", "handler">>
      BY <1>1, Chains
    <2>3. /\ Len(Chain(r)) = 2 /\ Chain(r)[2] = "handler"
          /\ \A i \in 1 .. 2 : Chain(r)[i] \notin {"prom", "auth"}
          /\ Chain(r)[1] # "handler"
      BY <2>2
    <2>4. \A i \in 1 .. Middleware(r) :
            /\ Chain(r)[i] # "handler"
            /\ Chain(r)[i] = "auth" <=> r \in Api /\ i = 4
      BY <2>1, <2>3
    <2>5. \A i \in 1 .. 5 : i <= Len(Chain(r)) => Chain(r)[i] # "prom"
      BY <2>3
    <2>6. \A i \in 1 .. 5 : i <= Len(Chain(r)) =>
            (Chain(r)[i] = "prom" <=> r # "ping" /\ i = 2)
      BY <1>1, <2>5, Zenon
    <2>7. Middleware(r) \in 1 .. 4 /\ Chain(r)[Middleware(r) + 1] = "handler"
      BY <2>1, <2>3
    <2> QED
      BY <2>1, <2>3, <2>4, <2>6, <2>7
  <1>2. CASE r = "metrics"
    <2>1. /\ Middleware(r) = 3 /\ r \notin Api
          /\ r # "unknown" /\ r # "ping"
      BY <1>2 DEF Middleware, Api
    <2>2. Chain(r) = <<"recovery", "prom", "recovery", "handler">>
      BY <1>2, Chains
    <2> QED
      BY <2>1, <2>2
  <1>3. CASE r = "unknown"
    <2>1. /\ Middleware(r) = 3 /\ r \notin Api
          /\ r # "ping"
      BY <1>3 DEF Middleware, Api
    <2>2. Chain(r) = <<"recovery", "prom", "recovery">>
      BY <1>3, Chains
    <2> QED
      BY <1>3, <2>1, <2>2
  <1>4. CASE r \in Api
    <2>1. Middleware(r) = 4 /\ r # "unknown" /\ r # "ping"
      BY <1>4 DEF Middleware, Api
    <2>2. Chain(r) = <<"recovery", "prom", "recovery", "auth", "handler">>
      BY <1>4, Chains
    <2> QED
      BY <1>4, <2>1, <2>2
  <1> QED
    BY <1>1, <1>2, <1>3, <1>4 DEF Routes

\* The modes are what their names say.
LEMMA ModeNames ==
    /\ HandlerSteps \subseteq Modes
    /\ \A m \in HandlerSteps : m \notin {"idle", "down", "up", "panic", "done"}
    /\ Api \subseteq HandlerSteps \ {"lookup", "fallback"}
    /\ HandlerSteps = Api \cup {"lookup", "fallback"}
    /\ {"idle", "down", "up", "panic", "done"} \subseteq Modes
  BY DEF HandlerSteps, Modes, Api

\* What one call more leaves of the outcomes.
LEMMA OneMore ==
    ASSUME NEW c \in Seq(Outcomes), NEW outcome \in Outcomes
    PROVE  /\ Append(c, outcome) \in Seq(Outcomes)
           /\ Range(Append(c, outcome)) = Range(c) \cup {outcome}
  <1> DEFINE d == Append(c, outcome)
  <1>1. /\ d \in Seq(Outcomes) /\ Len(c) \in Nat /\ Len(d) = Len(c) + 1
        /\ \A i \in 1 .. Len(c) : d[i] = c[i]
        /\ d[Len(c) + 1] = outcome
    BY AppendProperties
  <1>2. DOMAIN c = 1 .. Len(c) /\ DOMAIN d = 1 .. Len(d)
    BY <1>1, LenProperties
  <1> HIDE DEF d
  <1>3. Range(d) = Range(c) \cup {outcome}
    <2>1. ASSUME NEW x \in Range(d)
          PROVE  x \in Range(c) \cup {outcome}
      <3>1. PICK i \in 1 .. Len(c) + 1 : x = d[i]
        BY <1>1, <1>2, <2>1 DEF Range
      <3>2. CASE i \in 1 .. Len(c)
        BY <1>1, <1>2, <3>1, <3>2 DEF Range
      <3>3. CASE i = Len(c) + 1
        BY <1>1, <3>1, <3>3
      <3> QED
        BY <1>1, <3>2, <3>3
    <2>2. ASSUME NEW x \in Range(c)
          PROVE  x \in Range(d)
      <3>1. PICK i \in 1 .. Len(c) : x = c[i]
        BY <1>2, <2>2 DEF Range
      <3> QED
        BY <1>1, <1>2, <3>1 DEF Range
    <2>3. outcome \in Range(d)
      <3>1. Len(c) + 1 \in 1 .. Len(d)
        BY <1>1
      <3> QED
        BY <1>1, <1>2, <3>1 DEF Range
    <2> QED
      BY <2>1, <2>2, <2>3
  <1> QED
    BY <1>1, <1>3 DEF d

\* Before the first call nothing is decided.
LEMMA NoCallYet ==
    /\ Range(<<>>) = {} /\ Undecided(<<>>)
    /\ \A outcome : Append(<<>>, outcome) = <<outcome>>
  BY DEF Range, Undecided
-----------------------------------------------------------------------------
(***************************************************************************)
(* The steps of a request, but for Leave.                                  *)
(***************************************************************************)
\* A step of q touches no other request.
Others(q) ==
    \A x \in Requests \ {q} :
        /\ route'[x] = route[x] /\ authorized'[x] = authorized[x]
        /\ at'[x] = at[x] /\ mode'[x] = mode[x] /\ status'[x] = status[x]
        /\ bodies'[x] = bodies[x] /\ calls'[x] = calls[x]

\* A step of q that keeps the types, touches no other request, and neither
\* counts q nor takes it past the prom.
Uncounted(q) ==
    /\ Fields' /\ Others(q) /\ mode'[q] # "idle"
    /\ ~Passed(q) /\ ~Passed(q)' /\ UNCHANGED reqCount

\* What a handler's response changes, and what it leaves alone.
LEMMA Responds ==
    ASSUME Fields, NEW q \in Requests, NEW s \in Statuses, NEW n \in 1 .. 2,
           bodies[q] = 0, Respond(q, s, n)
    PROVE  /\ mode' \in [Requests -> Modes]
           /\ status' \in [Requests -> Statuses]
           /\ bodies' \in [Requests -> 0 .. 2]
           /\ mode'[q] = "up" /\ status'[q] = s /\ bodies'[q] = n
           /\ \A x \in Requests \ {q} :
                /\ mode'[x] = mode[x] /\ status'[x] = status[x]
                /\ bodies'[x] = bodies[x]
  BY ModeNames DEF Respond, Fields

\* The same for a move within the chain or the handler.
LEMMA ModeMoves ==
    ASSUME Fields, NEW q \in Requests, NEW m \in Modes,
           mode' = [mode EXCEPT ![q] = m]
    PROVE  /\ mode' \in [Requests -> Modes] /\ mode'[q] = m
           /\ \A x \in Requests \ {q} : mode'[x] = mode[x]
  BY DEF Fields

\* A request arrives.
LEMMA ArriveStep ==
    ASSUME Fields, NEW q \in Requests, Sound(q), Arrive(q)
    PROVE  Uncounted(q) /\ Sound(q)'
  <1>1. /\ SoundIdle(q) /\ mode[q] = "idle"
        /\ mode' = [mode EXCEPT ![q] = "down"]
        /\ UNCHANGED <<at, bodies, calls, reqCount>>
    BY DEF Arrive, Sound
  <1>2. PICK r \in Routes, ok \in BOOLEAN :
          /\ route' = [route EXCEPT ![q] = r]
          /\ authorized' = [authorized EXCEPT ![q] = ok]
          /\ status' = [status EXCEPT ![q] = IF r = "unknown" THEN 404 ELSE @]
    BY DEF Arrive
  <1>3. /\ mode' \in [Requests -> Modes] /\ mode'[q] = "down"
        /\ \A x \in Requests \ {q} : mode'[x] = mode[x]
    BY <1>1, ModeMoves, ModeNames
  <1>4. /\ route' \in [Requests -> Routes \cup {NoRoute}]
        /\ authorized' \in [Requests -> BOOLEAN]
        /\ route'[q] = r
        /\ \A x \in Requests \ {q} :
             route'[x] = route[x] /\ authorized'[x] = authorized[x]
    BY <1>2 DEF Fields
  <1>5. /\ status' \in [Requests -> Statuses]
        /\ status'[q] = (IF r = "unknown" THEN 404 ELSE 200)
        /\ \A x \in Requests \ {q} : status'[x] = status[x]
    BY <1>1, <1>2 DEF Fields, Statuses, SoundIdle
  <1>6. Uncounted(q)
    BY <1>1, <1>3, <1>4, <1>5 DEF Uncounted, Others, Passed, Fields
  <1>7. SoundDown(q)'
    <2>1. 0 \in 0 .. Middleware(r)
      BY Places
    <2> QED
      BY <1>1, <1>4, <1>5, <2>1 DEF SoundDown, SoundIdle, Fresh
  <1> QED
    BY <1>3, <1>6, <1>7, ModeNames DEF Sound

\* The next function of the chain is entered, or there is none.
LEMMA EnterStep ==
    ASSUME Fields, NEW q \in Requests, Sound(q), Enter(q)
    PROVE  Uncounted(q) /\ Sound(q)'
  <1> DEFINE r == route[q]
             n == at[q]
  <1>1. /\ SoundDown(q) /\ mode[q] = "down"
        /\ UNCHANGED <<route, authorized, bodies, calls, reqCount>>
    BY DEF Enter, Sound
  <1>2. /\ r \in Routes /\ Fresh(q) /\ n \in 0 .. Middleware(r)
        /\ status[q] = (IF r = "unknown" THEN 404 ELSE 200)
        /\ r \in Api /\ n = 4 => authorized[q]
    BY <1>1 DEF SoundDown
  <1>3. /\ Middleware(r) \in 1 .. 4
        /\ Len(Chain(r)) = IF r = "unknown" THEN 3 ELSE Middleware(r) + 1
        /\ r = "unknown" => Middleware(r) = 3
        /\ r \in Api => Middleware(r) = 4
    BY <1>2, Places
  <1>4. "unknown" \notin Api
    BY DEF Api
  <1> HIDE DEF r, n
  <1>5. CASE n = Len(Chain(r))
    <2>1. r = "unknown" /\ n = 3
      BY <1>2, <1>3, <1>5
    <2>2. mode' = [mode EXCEPT ![q] = "up"] /\ UNCHANGED <<at, status>>
      BY <1>5 DEF Enter, r, n
    <2>3. /\ mode' \in [Requests -> Modes] /\ mode'[q] = "up"
          /\ \A x \in Requests \ {q} : mode'[x] = mode[x]
      BY <2>2, ModeMoves, ModeNames
    <2>4. Uncounted(q)
      BY <1>1, <2>1, <2>2, <2>3 DEF Uncounted, Others, Passed, Fields, n
    <2>5. SoundAnswer(q)'
      BY <1>1, <1>2, <1>4, <2>1, <2>2 DEF SoundAnswer, Fresh, r
    <2> QED
      BY <1>1, <1>3, <2>1, <2>2, <2>3, <2>4, <2>5, ModeNames DEF Sound, r, n
  <1>6. CASE n # Len(Chain(r))
    <2> DEFINE next == Chain(r)[n + 1]
    <2>1. /\ at' = [at EXCEPT ![q] = n + 1]
          /\ IF next = "auth" /\ ~authorized[q]
             THEN Forbid(q)
             ELSE /\ mode' = [mode EXCEPT ![q] = IF next = "handler"
                                                 THEN "lookup" ELSE "down"]
                  /\ UNCHANGED status
      BY <1>6 DEF Enter, r, n
    <2>2. n + 1 \in 1 .. Middleware(r) \/ (n = Middleware(r) /\ r # "unknown")
      BY <1>2, <1>3, <1>6
    <2>3. /\ next = "handler" <=> n = Middleware(r)
          /\ next = "handler" => r # "unknown"
          /\ next = "auth" <=> r \in Api /\ n = 3
      <3>1. CASE n + 1 \in 1 .. Middleware(r)
        BY <1>2, <1>3, <3>1, Places
      <3>2. CASE n = Middleware(r) /\ r # "unknown"
        <4>1. next = "handler"
          BY <1>2, <3>2, Places
        <4> QED
          BY <1>3, <3>2, <4>1
      <3> QED
        BY <2>2, <3>1, <3>2
    <2>4. /\ at' \in [Requests -> 0 .. 5] /\ at'[q] = n + 1
          /\ n + 1 \in 1 .. Middleware(r) + 1
          /\ \A x \in Requests \ {q} : at'[x] = at[x]
      <3>1. n + 1 \in 0 .. 5 /\ n + 1 \in 1 .. Middleware(r) + 1
        BY <1>2, <1>3
      <3> QED
        BY <2>1, <3>1 DEF Fields
    <2> HIDE DEF next
    <2>5. CASE next = "auth" /\ ~authorized[q]
      <3>1. /\ mode' = [mode EXCEPT ![q] = "up"]
            /\ status' = [status EXCEPT ![q] = 401]
        BY <2>1, <2>5 DEF Forbid
      <3>2. /\ mode' \in [Requests -> Modes] /\ mode'[q] = "up"
            /\ \A x \in Requests \ {q} : mode'[x] = mode[x]
        BY <3>1, ModeMoves, ModeNames
      <3>3. /\ status' \in [Requests -> Statuses] /\ status'[q] = 401
            /\ \A x \in Requests \ {q} : status'[x] = status[x]
        BY <3>1 DEF Fields, Statuses
      <3>4. n = 3 /\ r \in Api
        BY <2>3, <2>5
      <3>5. Uncounted(q)
        BY <1>1, <2>4, <3>2, <3>3, <3>4
        DEF Uncounted, Others, Passed, Fields
      <3>6. SoundAnswer(q)'
        BY <1>1, <1>2, <3>3, NoCallYet DEF SoundAnswer, Fresh, r
      <3> QED
        <4>1. at'[q] <= Len(Chain(route'[q]))
          BY <1>1, <1>3, <1>4, <2>4, <3>4 DEF r
        <4> QED
          BY <3>2, <3>5, <3>6, <4>1, ModeNames DEF Sound
    <2>6. CASE ~(next = "auth" /\ ~authorized[q]) /\ next = "handler"
      <3>1. mode' = [mode EXCEPT ![q] = "lookup"] /\ UNCHANGED status
        BY <2>1, <2>6
      <3>2. /\ mode' \in [Requests -> Modes] /\ mode'[q] = "lookup"
            /\ \A x \in Requests \ {q} : mode'[x] = mode[x]
            /\ "lookup" \in HandlerSteps /\ "lookup" \notin Api
        BY <3>1, ModeMoves, ModeNames
      <3>3. Uncounted(q)
        BY <1>1, <2>4, <3>1, <3>2 DEF Uncounted, Others, Passed, Fields
      <3>4. SoundHandler(q)'
        BY <1>1, <1>2, <1>3, <2>3, <2>4, <2>6, <3>1, <3>2
        DEF SoundHandler, Fresh, r
      <3> QED
        BY <3>2, <3>3, <3>4, ModeNames DEF Sound
    <2>7. CASE ~(next = "auth" /\ ~authorized[q]) /\ next # "handler"
      <3>1. mode' = [mode EXCEPT ![q] = "down"] /\ UNCHANGED status
        BY <2>1, <2>7
      <3>2. /\ mode' \in [Requests -> Modes] /\ mode'[q] = "down"
            /\ \A x \in Requests \ {q} : mode'[x] = mode[x]
        BY <3>1, ModeMoves, ModeNames
      <3>3. Uncounted(q)
        BY <1>1, <2>4, <3>1, <3>2 DEF Uncounted, Others, Passed, Fields
      <3>4. /\ n + 1 \in 0 .. Middleware(r)
            /\ r \in Api /\ n + 1 = 4 => authorized[q]
        BY <1>2, <1>3, <2>2, <2>3, <2>7
      <3>5. SoundDown(q)'
        BY <1>1, <1>2, <2>4, <3>1, <3>4 DEF SoundDown, Fresh, r
      <3> QED
        BY <3>2, <3>3, <3>5, ModeNames DEF Sound
    <2> QED
      BY <2>5, <2>6, <2>7
  <1> QED
    BY <1>5, <1>6

\* The handler answers at once, or goes on to its call.
LEMMA LookupStep ==
    ASSUME Fields, NEW q \in Requests, Sound(q), Lookup(q)
    PROVE  Uncounted(q) /\ Sound(q)'
  <1>1. /\ SoundHandler(q) /\ mode[q] = "lookup"
        /\ UNCHANGED <<route, authorized, at, calls, reqCount>>
    BY ModeNames DEF Lookup, Sound
  <1>2. /\ route[q] \in Routes \ {"unknown"} /\ bodies[q] = 0
        /\ status[q] = 200 /\ calls[q] = <<>>
        /\ at[q] = Middleware(route[q]) + 1
        /\ route[q] \in Api => authorized[q]
        /\ Middleware(route[q]) \in 1 .. 4
    BY <1>1, Places DEF SoundHandler
  <1>3. CASE \E s \in {200, 400, 500} :
               Respond(q, s, 1) /\
               (s = 200 => route[q] # "podNetConnectServer")
    <2>1. PICK s \in {200, 400, 500} :
            Respond(q, s, 1) /\ (s = 200 => route[q] # "podNetConnectServer")
      BY <1>3
    <2>2. s \in Statuses
      BY DEF Statuses
    <2>3. /\ mode' \in [Requests -> Modes]
          /\ status' \in [Requests -> Statuses]
          /\ bodies' \in [Requests -> 0 .. 2]
          /\ mode'[q] = "up" /\ status'[q] = s /\ bodies'[q] = 1
          /\ \A x \in Requests \ {q} :
                /\ mode'[x] = mode[x] /\ status'[x] = status[x]
                /\ bodies'[x] = bodies[x]
      BY <1>2, <2>1, <2>2, Responds
    <2>4. Uncounted(q)
      BY <1>1, <1>2, <2>3 DEF Uncounted, Others, Passed, Fields
    <2>5. SoundAnswer(q)'
      BY <1>1, <1>2, <2>1, <2>3, NoCallYet DEF SoundAnswer
    <2> QED
      <3>1. at'[q] <= Len(Chain(route'[q]))
        <4>1. Len(Chain(route[q])) = Middleware(route[q]) + 1
          BY <1>2, Places
        <4> QED
          BY <1>1, <1>2, <4>1
      <3> QED
        BY <2>3, <2>4, <2>5, <3>1, ModeNames DEF Sound
  <1>4. CASE /\ route[q] \in Api
             /\ mode' = [mode EXCEPT ![q] = route[q]]
             /\ UNCHANGED <<status, bodies>>
    <2>1. /\ mode' \in [Requests -> Modes] /\ mode'[q] = route[q]
          /\ \A x \in Requests \ {q} : mode'[x] = mode[x]
      BY <1>4, ModeMoves, ModeNames
    <2>2. Uncounted(q)
      BY <1>1, <1>4, <2>1, ModeNames DEF Uncounted, Others, Passed, Fields
    <2>3. SoundHandler(q)'
      BY <1>1, <1>2, <1>4, <2>1, ModeNames DEF SoundHandler
    <2> QED
      BY <1>4, <2>1, <2>2, <2>3, ModeNames DEF Sound
  <1> QED
    <2>1. CASE route[q] \notin Api /\ Respond(q, 200, 1)
      BY <1>3, <2>1 DEF Api
    <2>2. CASE route[q] = "podNetConnectServer" /\ Respond(q, 400, 1)
      BY <1>3, <2>2
    <2>3. CASE Respond(q, 500, 1)
      BY <1>3, <2>3
    <2> QED
      BY <1>4, <2>1, <2>2, <2>3 DEF Lookup

\* What is true of a handler that is at its calls.
LEMMA AtCall ==
    ASSUME Fields, NEW q \in Requests, Sound(q),
           mode[q] \in HandlerSteps \ {"lookup"}
    PROVE  /\ route[q] \in Api /\ authorized[q] /\ at[q] = 5 /\ bodies[q] = 0
           /\ mode[q] \in Api => route[q] = mode[q] /\ calls[q] = <<>>
           /\ mode[q] = "fallback" => route[q] = "podNetConnectServer"
           /\ Undecided(calls[q]) /\ calls[q] \in Seq(Outcomes)
  <1>1. SoundHandler(q)
    BY DEF Sound
  <1>2. route[q] \in Api
    BY <1>1, ModeNames DEF SoundHandler, Api
  <1>3. Middleware(route[q]) = 4
    BY <1>2, Places DEF Routes
  <1>4. Undecided(calls[q])
    BY <1>1, ModeNames, NoCallYet DEF SoundHandler
  <1> QED
    BY <1>1, <1>2, <1>3, <1>4 DEF SoundHandler, Fields

\* n bodies under status s answer a call that came out so.
Answers(q, outcome, s, n) ==
    /\ s \in {200, 400, 409, 500} /\ n \in 1 .. 2 /\ Respond(q, s, n)
    /\ n > 1 => mode[q] = "proxyCluster" /\ outcome = "apistatus"
    /\ route[q] = "podNetConnectServer" =>
         /\ s = 200 <=> outcome = "ok"
         /\ s = 409 <=> outcome = "apistatus"

\* A call that the handler answers after: the answer tells of the outcomes.
LEMMA CallAnswers ==
    ASSUME Fields, NEW q \in Requests, Sound(q),
           mode[q] \in HandlerSteps \ {"lookup"}, NEW outcome \in Outcomes,
           calls' = [calls EXCEPT ![q] = Append(@, outcome)],
           UNCHANGED <<route, authorized, at, reqCount>>,
           NEW s, NEW n, Answers(q, outcome, s, n)
    PROVE  Uncounted(q) /\ Sound(q)'
  <1>0. /\ s \in {200, 400, 409, 500} /\ n \in 1 .. 2 /\ Respond(q, s, n)
        /\ n > 1 => mode[q] = "proxyCluster" /\ outcome = "apistatus"
        /\ route[q] = "podNetConnectServer" =>
             /\ s = 200 <=> outcome = "ok"
             /\ s = 409 <=> outcome = "apistatus"
    BY DEF Answers
  <1>1. /\ route[q] \in Api /\ authorized[q] /\ at[q] = 5 /\ bodies[q] = 0
        /\ mode[q] \in Api => route[q] = mode[q] /\ calls[q] = <<>>
        /\ Undecided(calls[q]) /\ calls[q] \in Seq(Outcomes)
    BY AtCall
  <1>2. s \in Statuses
    BY <1>0 DEF Statuses
  <1>3. /\ mode' \in [Requests -> Modes]
        /\ status' \in [Requests -> Statuses]
        /\ bodies' \in [Requests -> 0 .. 2]
        /\ mode'[q] = "up" /\ status'[q] = s /\ bodies'[q] = n
        /\ \A x \in Requests \ {q} :
              /\ mode'[x] = mode[x] /\ status'[x] = status[x]
              /\ bodies'[x] = bodies[x]
    BY <1>0, <1>1, <1>2, Responds
  <1>4. /\ Append(calls[q], outcome) \in Seq(Outcomes)
        /\ Range(Append(calls[q], outcome)) = Range(calls[q]) \cup {outcome}
    BY <1>1, OneMore
  <1>5. /\ calls' \in [Requests -> Seq(Outcomes)]
        /\ calls'[q] = Append(calls[q], outcome)
        /\ \A x \in Requests \ {q} : calls'[x] = calls[x]
    BY <1>4 DEF Fields
  <1>6. Uncounted(q)
    BY <1>1, <1>3, <1>5, ModeNames DEF Uncounted, Others, Passed, Fields
  <1>7. "ok" \in Range(calls'[q]) <=> outcome = "ok"
    BY <1>1, <1>4, <1>5 DEF Undecided
  <1>8. "apistatus" \in Range(calls'[q]) <=> outcome = "apistatus"
    BY <1>1, <1>4, <1>5 DEF Undecided
  <1>9. n > 1 => route[q] = "proxyCluster" /\ calls'[q] = <<"apistatus">>
    <2> SUFFICES ASSUME n > 1
                 PROVE  route[q] = "proxyCluster" /\ calls'[q] = <<"apistatus">>
      OBVIOUS
    <2>1. "proxyCluster" \in Api
      BY DEF Api
    <2>2. route[q] = "proxyCluster" /\ calls[q] = <<>> /\ outcome = "apistatus"
      BY <1>0, <1>1, <2>1
    <2> QED
      BY <1>5, <2>2, NoCallYet
  <1>10. SoundAnswer(q)'
    <2>1. /\ route'[q] \in Routes
          /\ route'[q] = route[q] /\ authorized'[q] = authorized[q]
      BY <1>1 DEF Routes
    <2> QED
      BY <1>0, <1>1, <1>3, <1>7, <1>8, <1>9, <2>1 DEF SoundAnswer
  <1>11. at'[q] <= Len(Chain(route'[q]))
    BY <1>1, Places DEF Routes
  <1> QED
    BY <1>3, <1>6, <1>10, <1>11, ModeNames DEF Sound

\* curl ends in an exit code or a failure without one: on to nc or ping.
LEMMA CallFallsBack ==
    ASSUME Fields, NEW q \in Requests, Sound(q),
           mode[q] = "podNetConnectServer", NEW outcome \in {"exit", "fault"},
           calls' = [calls EXCEPT ![q] = Append(@, outcome)],
           mode' = [mode EXCEPT ![q] = "fallback"],
           UNCHANGED <<route, authorized, at, status, bodies, reqCount>>
    PROVE  Uncounted(q) /\ Sound(q)'
  <1>1. /\ mode[q] \in HandlerSteps \ {"lookup"} /\ mode[q] \in Api
        /\ outcome \in Outcomes /\ "fallback" \in HandlerSteps
        /\ "fallback" \notin Api /\ "fallback" # "lookup"
    BY DEF HandlerSteps, Api, Outcomes
  <1>2. /\ route[q] \in Api /\ authorized[q] /\ at[q] = 5 /\ bodies[q] = 0
        /\ route[q] = "podNetConnectServer" /\ calls[q] = <<>>
        /\ Undecided(calls[q]) /\ calls[q] \in Seq(Outcomes)
    BY <1>1, AtCall
  <1>3. /\ Append(calls[q], outcome) \in Seq(Outcomes)
        /\ Range(Append(calls[q], outcome)) = Range(calls[q]) \cup {outcome}
    BY <1>1, <1>2, OneMore
  <1>4. /\ calls' \in [Requests -> Seq(Outcomes)]
        /\ calls'[q] = Append(calls[q], outcome)
        /\ \A x \in Requests \ {q} : calls'[x] = calls[x]
    BY <1>3 DEF Fields
  <1>5. /\ mode' \in [Requests -> Modes] /\ mode'[q] = "fallback"
        /\ \A x \in Requests \ {q} : mode'[x] = mode[x]
    BY <1>1, ModeMoves, ModeNames
  <1>6. Uncounted(q)
    BY <1>1, <1>2, <1>4, <1>5, ModeNames
    DEF Uncounted, Others, Passed, Fields
  <1>7. Undecided(calls'[q])
    BY <1>2, <1>3, <1>4 DEF Undecided
  <1>8. SoundHandler(q)
    BY <1>1 DEF Sound
  <1>9. SoundHandler(q)'
    BY <1>1, <1>2, <1>5, <1>7, <1>8 DEF SoundHandler
  <1> QED
    BY <1>1, <1>5, <1>6, <1>9, ModeNames DEF Sound

\* A handler's call to the cluster.
LEMMA CallStep ==
    ASSUME Fields, NEW q \in Requests, Sound(q), Call(q)
    PROVE  Uncounted(q) /\ Sound(q)'
  <1>1. PICK outcome \in Outcomes :
          /\ calls' = [calls EXCEPT ![q] = Append(@, outcome)]
          /\ \/ ListNamespaceOfNode(q, outcome) \/ ProxyCluster(q, outcome)
             \/ PodNetConnectServer(q, outcome) \/ Fallback(q, outcome)
    BY DEF Call
  <1>2. UNCHANGED <<route, authorized, at, reqCount>>
    BY DEF Call
  <1>3. {"listNamespaceOfNode", "proxyCluster", "podNetConnectServer",
         "fallback"} = HandlerSteps \ {"lookup"}
    BY DEF HandlerSteps
  <1>4. 1 \in 1 .. 2
    OBVIOUS
  <1>5. CASE \E s, n : /\ mode[q] \in HandlerSteps \ {"lookup"}
                       /\ Answers(q, outcome, s, n)
    BY <1>1, <1>2, <1>5, CallAnswers
  <1>6. CASE ListNamespaceOfNode(q, outcome)
    <2>1. mode[q] \in HandlerSteps \ {"lookup"} /\ mode[q] \in Api
      BY <1>3, <1>6 DEF ListNamespaceOfNode, Api
    <2>2. route[q] = "listNamespaceOfNode"
      BY <1>6, <2>1, AtCall DEF ListNamespaceOfNode
    <2>3. PICK s \in {200, 400, 409, 500} : Respond(q, s, 1)
      BY <1>6 DEF ListNamespaceOfNode, HandleError
    <2>4. Answers(q, outcome, s, 1)
      BY <1>4, <2>2, <2>3 DEF Answers
    <2> QED
      BY <1>5, <2>1, <2>4
  <1>7. CASE ProxyCluster(q, outcome)
    <2>1. mode[q] \in HandlerSteps \ {"lookup"} /\ mode[q] \in Api
      BY <1>3, <1>7 DEF ProxyCluster, Api
    <2>2. mode[q] = "proxyCluster" /\ route[q] = "proxyCluster"
      BY <1>7, <2>1, AtCall DEF ProxyCluster
    <2>3. PICK s \in {200, 400, 409, 500}, n \in 1 .. 2 :
            Respond(q, s, n) /\ (n > 1 => outcome = "apistatus")
      BY <1>7 DEF ProxyCluster
    <2>4. Answers(q, outcome, s, n)
      BY <1>4, <2>2, <2>3 DEF Answers
    <2> QED
      BY <1>5, <2>1, <2>4
  <1>8. CASE PodNetConnectServer(q, outcome)
    <2>1. mode[q] \in HandlerSteps \ {"lookup"}
      BY <1>3, <1>8 DEF PodNetConnectServer
    <2>2. CASE outcome \in {"exit", "fault"}
      <3>1. /\ mode[q] = "podNetConnectServer"
            /\ mode' = [mode EXCEPT ![q] = "fallback"]
            /\ UNCHANGED <<status, bodies>>
        BY <1>8, <2>2 DEF PodNetConnectServer
      <3> QED
        BY <1>1, <1>2, <2>2, <3>1, CallFallsBack
    <2>3. CASE outcome \notin {"exit", "fault"}
      <3>1. PICK s \in {200, 400, 409, 500} :
              /\ Respond(q, s, 1)
              /\ s = 200 <=> outcome = "ok"
              /\ s = 409 <=> outcome = "apistatus"
        BY <1>8, <2>3 DEF PodNetConnectServer, HandleError
      <3>2. Answers(q, outcome, s, 1)
        BY <1>4, <3>1 DEF Answers
      <3> QED
        BY <1>5, <2>1, <3>2
    <2> QED
      BY <2>2, <2>3
  <1>9. CASE Fallback(q, outcome)
    <2>1. mode[q] \in HandlerSteps \ {"lookup"}
      BY <1>3, <1>9 DEF Fallback
    <2>2. PICK s \in {200, 400, 409, 500} :
            /\ Respond(q, s, 1)
            /\ s = 200 <=> outcome = "ok"
            /\ s = 409 <=> outcome = "apistatus"
      BY <1>9 DEF Fallback, HandleError
    <2>3. Answers(q, outcome, s, 1)
      BY <1>4, <2>2 DEF Answers
    <2> QED
      BY <1>5, <2>1, <2>3
  <1> QED
    BY <1>1, <1>6, <1>7, <1>8, <1>9

\* A handler panics while it works on its answer.
LEMMA PanicStep ==
    ASSUME Fields, NEW q \in Requests, Sound(q), Panic(q)
    PROVE  Uncounted(q) /\ Sound(q)'
  <1>1. /\ mode[q] \in HandlerSteps \ {"lookup"}
        /\ mode' = [mode EXCEPT ![q] = "panic"]
        /\ UNCHANGED <<route, authorized, at, status, bodies, calls, reqCount>>
    BY DEF Panic
  <1>2. /\ mode' \in [Requests -> Modes] /\ mode'[q] = "panic"
        /\ \A x \in Requests \ {q} : mode'[x] = mode[x]
    BY <1>1, ModeMoves, ModeNames
  <1>3. Uncounted(q)
    BY <1>1, <1>2, ModeNames DEF Uncounted, Others, Passed, Fields
  <1>4. SoundPanic(q)'
    BY <1>1, AtCall DEF SoundPanic
  <1> QED
    BY <1>2, <1>3, <1>4, ModeNames DEF Sound

\* A panic passes by auth, and the inner recovery catches it: before it has
\* passed the prom, which therefore counts the request.
LEMMA UnwindStep ==
    ASSUME Fields, NEW q \in Requests, Sound(q), Unwind(q)
    PROVE  Uncounted(q) /\ Sound(q)'
  <1>1. /\ SoundPanic(q) /\ mode[q] = "panic"
        /\ at' = [at EXCEPT ![q] = at[q] - 1]
        /\ UNCHANGED <<route, authorized, bodies, calls, reqCount>>
    BY DEF Unwind, Sound
  <1>2. /\ route[q] \in Api /\ authorized[q] /\ at[q] \in 3 .. 5
        /\ bodies[q] = 0 /\ Undecided(calls[q])
    BY <1>1 DEF SoundPanic
  <1>3. Top(q) = "recovery" <=> at[q] = 3
    BY <1>2, Places DEF Top, Routes
  <1>4. /\ at' \in [Requests -> 0 .. 5] /\ at'[q] = at[q] - 1
        /\ \A x \in Requests \ {q} : at'[x] = at[x]
    BY <1>1, <1>2 DEF Fields
  <1>5. CASE at[q] = 3
    <2>1. /\ mode' = [mode EXCEPT ![q] = "up"]
          /\ status' = [status EXCEPT ![q] = 500]
      BY <1>3, <1>5 DEF Unwind
    <2>2. /\ mode' \in [Requests -> Modes] /\ mode'[q] = "up"
          /\ \A x \in Requests \ {q} : mode'[x] = mode[x]
      BY <2>1, ModeMoves, ModeNames
    <2>3. /\ status' \in [Requests -> Statuses] /\ status'[q] = 500
          /\ \A x \in Requests \ {q} : status'[x] = status[x]
      BY <2>1 DEF Fields, Statuses
    <2>4. Uncounted(q)
      BY <1>1, <1>4, <1>5, <2>2, <2>3 DEF Uncounted, Others, Passed, Fields
    <2>5. SoundAnswer(q)'
      BY <1>1, <1>2, <2>3 DEF SoundAnswer, Undecided, Routes
    <2>6. at'[q] <= Len(Chain(route'[q]))
      BY <1>1, <1>2, <1>4, <1>5, Places DEF Routes
    <2> QED
      BY <2>2, <2>4, <2>5, <2>6, ModeNames DEF Sound
  <1>6. CASE at[q] # 3
    <2>1. UNCHANGED <<mode, status>>
      BY <1>3, <1>6 DEF Unwind
    <2>2. Uncounted(q)
      BY <1>1, <1>4, <2>1 DEF Uncounted, Others, Passed, Fields
    <2>3. SoundPanic(q)'
      BY <1>1, <1>2, <1>4, <1>6 DEF SoundPanic
    <2> QED
      BY <1>1, <2>1, <2>2, <2>3, ModeNames DEF Sound
  <1> QED
    BY <1>5, <1>6
-----------------------------------------------------------------------------
(***************************************************************************)
(* The way up, and the counter.                                            *)
(***************************************************************************)
\* A step of q that keeps the types and touches no other request, and by
\* which q, with the status it has, comes past the prom of its chain.
Counted(q) ==
    /\ Fields' /\ Others(q)
    /\ mode[q] = "up" /\ mode'[q] = "up"
    /\ ~Passed(q) /\ Passed(q)'
    /\ route'[q] = route[q] /\ status'[q] = status[q]
    /\ reqCount' = IF route[q] \in {"ping", "metrics"} THEN reqCount
                   ELSE [reqCount EXCEPT ![<<route[q], status[q]>>] = @ + 1]

\* The same of a step that leaves q where it was, before the prom or past it.
Unmoved(q) ==
    /\ Fields' /\ Others(q)
    /\ mode[q] # "idle" /\ mode'[q] # "idle"
    /\ Passed(q)' <=> Passed(q)
    /\ route'[q] = route[q] /\ status'[q] = status[q]
    /\ UNCHANGED reqCount

\* A function of the chain returns, or the last of them has.
LEMMA LeaveStep ==
    ASSUME Fields, NEW q \in Requests, Sound(q), Leave(q)
    PROVE  (Counted(q) \/ Unmoved(q)) /\ Sound(q)'
  <1>1. /\ mode[q] = "up" /\ SoundAnswer(q)
        /\ at[q] <= Len(Chain(route[q]))
        /\ UNCHANGED <<route, authorized, status, bodies, calls>>
    BY DEF Leave, Sound
  <1>2. at[q] \in 0 .. 5 /\ route[q] \in Routes
    BY <1>1 DEF Fields, SoundAnswer
  <1>3. SoundAnswer(q)'
    BY <1>1 DEF SoundAnswer, Fresh
  <1>4. CASE at[q] = 0
    <2>1. mode' = [mode EXCEPT ![q] = "done"] /\ UNCHANGED <<at, reqCount>>
      BY <1>4 DEF Leave
    <2>2. /\ mode' \in [Requests -> Modes] /\ mode'[q] = "done"
          /\ \A x \in Requests \ {q} : mode'[x] = mode[x]
      BY <2>1, ModeMoves, ModeNames
    <2>3. Unmoved(q)
      BY <1>1, <1>4, <2>1, <2>2 DEF Unmoved, Others, Passed, Fields
    <2> QED
      BY <1>3, <1>4, <2>1, <2>2, <2>3, ModeNames DEF Sound
  <1>5. CASE at[q] # 0
    <2>1. /\ at' = [at EXCEPT ![q] = at[q] - 1]
          /\ Count(q) /\ UNCHANGED mode
      BY <1>5 DEF Leave
    <2>2. /\ at' \in [Requests -> 0 .. 5] /\ at'[q] = at[q] - 1
          /\ \A x \in Requests \ {q} : at'[x] = at[x]
      BY <1>2, <1>5, <2>1 DEF Fields
    <2>3. Fields' /\ Others(q)
      BY <1>1, <2>1, <2>2 DEF Others, Fields
    <2>4. Top(q) = "prom" <=> route[q] # "ping" /\ at[q] = 2
      BY <1>1, <1>2, <1>5, Places DEF Top
    <2>5. Sound(q)'
      <3>1. Len(Chain(route[q])) \in Nat
        BY <1>2, Places
      <3>2. at'[q] <= Len(Chain(route'[q]))
        BY <1>1, <1>2, <2>2, <3>1
      <3> QED
        BY <1>1, <1>3, <2>1, <3>2, ModeNames DEF Sound
    <2>6. CASE at[q] = 2
      <3>1. reqCount' = IF route[q] \in {"ping", "metrics"} THEN reqCount
                        ELSE [reqCount EXCEPT
                                 ![<<route[q], status[q]>>] = @ + 1]
        BY <2>1, <2>4, <2>6 DEF Count
      <3> QED
        BY <1>1, <2>1, <2>2, <2>3, <2>5, <2>6, <3>1 DEF Counted, Passed
    <2>7. CASE at[q] # 2
      <3>1. UNCHANGED reqCount
        BY <2>1, <2>4, <2>7 DEF Count
      <3> QED
        BY <1>1, <1>2, <1>5, <2>1, <2>2, <2>3, <2>5, <2>7, <3>1
        DEF Unmoved, Passed
    <2> QED
      BY <2>6, <2>7
  <1> QED
    BY <1>4, <1>5

\* What is true of a request that a step does not touch stays true.
LEMMA UntouchedIsSound ==
    ASSUME NEW q \in Requests, Others(q), NEW x \in Requests \ {q}, Sound(x)
    PROVE  Sound(x)'
  <1>1. /\ route'[x] = route[x] /\ authorized'[x] = authorized[x]
        /\ at'[x] = at[x] /\ mode'[x] = mode[x] /\ status'[x] = status[x]
        /\ bodies'[x] = bodies[x] /\ calls'[x] = calls[x]
    BY DEF Others
  <1>2. /\ SoundIdle(x) => SoundIdle(x)'
        /\ SoundDown(x) => SoundDown(x)'
        /\ SoundHandler(x) => SoundHandler(x)'
        /\ SoundPanic(x) => SoundPanic(x)'
        /\ SoundAnswer(x) => SoundAnswer(x)'
    BY <1>1 DEF SoundIdle, SoundDown, SoundHandler, SoundPanic, SoundAnswer,
                Fresh
  <1> QED
    BY <1>1, <1>2 DEF Sound

\* Those that have arrived stay finitely many, when one more does.
LEMMA ArrivedIsFinite ==
    ASSUME NEW q \in Requests, Others(q), IsFiniteSet(Arrived)
    PROVE  IsFiniteSet(Arrived')
  <1>1. IsFiniteSet(Arrived \cup {q})
    BY FS_AddElement
  <1>2. Arrived' \subseteq Arrived \cup {q}
    BY DEF Arrived, Others
  <1> QED
    BY <1>1, <1>2, FS_Subset

\* The counter stays true by a step that takes no request past the prom.
LEMMA TalliedAsBefore ==
    ASSUME NEW q \in Requests, Others(q), Tallied, UNCHANGED reqCount,
           \/ ~Passed(q) /\ ~Passed(q)'
           \/ /\ Passed(q)' <=> Passed(q)
              /\ route'[q] = route[q] /\ status'[q] = status[q]
    PROVE  Tallied'
  <1>1. ASSUME NEW r \in Routes, NEW s \in Statuses
        PROVE  Tally(r, s)' = Tally(r, s)
    <2>1. ASSUME NEW x \in Requests \ {q}
          PROVE  /\ Passed(x)' <=> Passed(x)
                 /\ route'[x] = route[x] /\ status'[x] = status[x]
      BY DEF Others, Passed
    <2> QED
      BY <2>1 DEF Tally
  <1> QED
    BY <1>1, ArrivedIsFinite DEF Tallied

\* It stays true by a step that does.
LEMMA TalliedOneMore ==
    ASSUME Fields, NEW q \in Requests, route[q] \in Routes, Tallied, Counted(q)
    PROVE  Tallied'
  <1>0. PICK r \in Routes, s \in Statuses : route[q] = r /\ status[q] = s
    BY DEF Fields
  <1> DEFINE unseen == r \in {"ping", "metrics"}
  <1>1. /\ Others(q) /\ ~Passed(q) /\ Passed(q)'
        /\ route'[q] = r /\ status'[q] = s
        /\ reqCount' = IF unseen THEN reqCount
                       ELSE [reqCount EXCEPT ![<<r, s>>] = @ + 1]
    BY <1>0 DEF Counted
  <1>2. /\ reqCount \in [Routes \X Statuses -> Nat]
        /\ IsFiniteSet(Arrived)
    BY DEF Tallied
  <1>3. IsFiniteSet(Arrived')
    BY <1>1, <1>2, ArrivedIsFinite
  <1>4. reqCount' \in [Routes \X Statuses -> Nat]
    BY <1>1, <1>2
  <1>5. ASSUME NEW x \in Requests \ {q}
        PROVE  /\ Passed(x)' <=> Passed(x)
               /\ route'[x] = route[x] /\ status'[x] = status[x]
    BY <1>1 DEF Others, Passed
  <1>6. Tally(r, s)' = Tally(r, s) \cup {q} /\ q \notin Tally(r, s)
    BY <1>1, <1>5 DEF Tally
  <1>7. ASSUME NEW t \in Routes, NEW c \in Statuses, <<t, c>> # <<r, s>>
        PROVE  Tally(t, c)' = Tally(t, c)
    <2>1. ~(t = r /\ c = s)
      BY <1>7
    <2> QED
      BY <1>1, <1>5, <2>1 DEF Tally
  <1>8. Cardinality(Tally(r, s)') = Cardinality(Tally(r, s)) + 1
    <2>1. Tally(r, s) \subseteq Arrived
      BY DEF Tally, Arrived, Passed
    <2>2. IsFiniteSet(Tally(r, s))
      BY <1>2, <2>1, FS_Subset
    <2> QED
      BY <1>6, <2>2, FS_AddElement
  <1>9. ASSUME NEW t \in Routes, NEW c \in Statuses
        PROVE  reqCount'[<<t, c>>] = IF t \in {"ping", "metrics"} THEN 0
                                     ELSE Cardinality(Tally(t, c)')
    <2>1. reqCount[<<t, c>>] = IF t \in {"ping", "metrics"} THEN 0
                               ELSE Cardinality(Tally(t, c))
      BY DEF Tallied
    <2>2. CASE <<t, c>> = <<r, s>>
      <3>1. t = r /\ c = s
        BY <2>2
      <3>2. CASE unseen
        BY <1>1, <2>1, <3>1, <3>2
      <3>3. CASE ~unseen
        <4>1. reqCount'[<<r, s>>] = reqCount[<<r, s>>] + 1
          BY <1>1, <1>2, <3>3
        <4> QED
          BY <1>8, <2>1, <3>1, <3>3, <4>1
      <3> QED
        BY <3>2, <3>3
    <2>3. CASE <<t, c>> # <<r, s>>
      <3>1. reqCount'[<<t, c>>] = reqCount[<<t, c>>]
        BY <1>1, <1>2, <2>3
      <3> QED
        BY <1>7, <2>1, <2>3, <3>1
    <2> QED
      BY <2>2, <2>3
  <1> QED
    BY <1>3, <1>4, <1>9 DEF Tallied
-----------------------------------------------------------------------------
(***************************************************************************)
(* The inductive invariant.                                                *)
(***************************************************************************)
LEMMA InitIInv == Init => IInv
  <1> SUFFICES ASSUME Init
               PROVE  IInv
    OBVIOUS
  <1>1. Fields
    <2>1. <<>> \in Seq(Outcomes)
      BY EmptySeq
    <2> QED
      BY <2>1, ModeNames DEF Init, Fields, Statuses
  <1>2. ASSUME NEW q \in Requests
        PROVE  Sound(q)
    BY <1>2, ModeNames DEF Init, Sound, SoundIdle, Fresh
  <1>3. Tallied
    <2>1. Arrived = {} /\ IsFiniteSet({})
      BY FS_EmptySet DEF Init, Arrived
    <2>2. ASSUME NEW r \in Routes, NEW s \in Statuses
          PROVE  Tally(r, s) = {}
      BY DEF Init, Tally, Passed
    <2>3. Cardinality({}) = 0
      BY FS_EmptySet
    <2> QED
      BY <2>1, <2>2, <2>3 DEF Init, Tallied
  <1> QED
    BY <1>1, <1>2, <1>3 DEF IInv

\* What every step of a request comes down to.
LEMMA EveryStep ==
    ASSUME Fields, NEW q \in Requests, Sound(q), Arrive(q) \/ Serve(q)
    PROVE  (Uncounted(q) \/ Counted(q) \/ Unmoved(q)) /\ Sound(q)'
  BY ArriveStep, EnterStep, LookupStep, CallStep, PanicStep, UnwindStep,
     LeaveStep
  DEF Serve

LEMMA NextIInv == IInv /\ [Next]_vars => IInv'
  <1> SUFFICES ASSUME IInv, [Next]_vars
               PROVE  IInv'
    OBVIOUS
  <1>1. Fields /\ Tallied /\ \A q \in Requests : Sound(q)
    BY DEF IInv
  <1>2. CASE Next
    <2>1. PICK q \in Requests : Arrive(q) \/ Serve(q)
      BY <1>2 DEF Next
    <2>2. (Uncounted(q) \/ Counted(q) \/ Unmoved(q)) /\ Sound(q)'
      BY <1>1, <2>1, EveryStep
    <2>3. Fields' /\ Others(q)
      BY <2>2 DEF Uncounted, Counted, Unmoved
    <2>4. \A x \in Requests : Sound(x)'
      BY <1>1, <2>2, <2>3, UntouchedIsSound
    <2>5. Tallied'
      <3>1. CASE Counted(q)
        <4>1. route[q] \in Routes
          BY <1>1, <3>1 DEF Counted, Sound, SoundAnswer
        <4> QED
          BY <1>1, <3>1, <4>1, TalliedOneMore
      <3>2. CASE Uncounted(q)
        BY <1>1, <2>3, <3>2, TalliedAsBefore DEF Uncounted
      <3>3. CASE Unmoved(q)
        BY <1>1, <2>3, <3>3, TalliedAsBefore DEF Unmoved
      <3> QED
        BY <2>2, <3>1, <3>2, <3>3
    <2> QED
      BY <2>3, <2>4, <2>5 DEF IInv
  <1>3. CASE UNCHANGED vars
    <2>1. Fields'
      BY <1>1, <1>3 DEF Fields, vars
    <2>2. ASSUME NEW q \in Requests
          PROVE  Sound(q)'
      <3>1. Sound(q)
        BY <1>1
      <3> QED
        BY <1>3, <3>1
        DEF Sound, SoundIdle, SoundDown, SoundHandler, SoundPanic,
            SoundAnswer, Fresh, vars
    <2>3. Tallied'
      <3>1. Arrived' = Arrived
        BY <1>3 DEF Arrived, vars
      <3>2. ASSUME NEW r \in Routes, NEW s \in Statuses
            PROVE  Tally(r, s)' = Tally(r, s)
        BY <1>3 DEF Tally, Passed, vars
      <3> QED
        BY <1>1, <1>3, <3>1, <3>2 DEF Tallied, vars
    <2> QED
      BY <2>1, <2>2, <2>3 DEF IInv
  <1> QED
    BY <1>2, <1>3

\* The inductive invariant holds in every state.
THEOREM Invariance == Spec => []IInv
  BY InitIInv, NextIInv, PTL DEF Spec
-----------------------------------------------------------------------------
(***************************************************************************)
(* What it implies.                                                        *)
(***************************************************************************)
LEMMA ImpliesTypeOK == IInv => TypeOK
  <1> SUFFICES ASSUME IInv
               PROVE  TypeOK
    OBVIOUS
  <1>1. Fields /\ Tallied /\ \A q \in Requests : Sound(q)
    BY DEF IInv
  <1>2. ASSUME NEW q \in Requests
        PROVE  /\ at[q] \in 0 .. 5
               /\ mode[q] = "idle" <=> route[q] = NoRoute
               /\ mode[q] \in HandlerSteps => Top(q) = "handler"
               /\ Done(q) /\ status[q] \notin {401, 404, 500} => bodies[q] > 0
    <2>1. at[q] \in 0 .. 5 /\ mode[q] \in Modes /\ Sound(q)
      BY <1>1, <1>2 DEF Fields
    <2>2. mode[q] = "idle" => route[q] = NoRoute
      BY <2>1 DEF Sound, SoundIdle
    <2>3. mode[q] # "idle" => route[q] \in Routes
      BY <2>1 DEF Modes, Sound, SoundDown, SoundHandler, SoundPanic,
                  SoundAnswer, Routes
    <2>4. mode[q] \in HandlerSteps => Top(q) = "handler"
      <3>1. SUFFICES ASSUME mode[q] \in HandlerSteps
                     PROVE  Top(q) = "handler"
        OBVIOUS
      <3>2. /\ route[q] \in Routes \ {"unknown"}
            /\ at[q] = Middleware(route[q]) + 1
        BY <2>1, <3>1 DEF Sound, SoundHandler
      <3> QED
        BY <3>2, Places DEF Top
    <2>5. Done(q) /\ status[q] \notin {401, 404, 500} => bodies[q] > 0
      BY <2>1 DEF Done, Sound, SoundAnswer
    <2> QED
      BY <2>1, <2>2, <2>3, <2>4, <2>5, NoRouteAssumption
  <1> QED
    BY <1>1, <1>2 DEF TypeOK, Fields, Tallied

\* TypeOK: the types, and that an answer of a handler has a body.
THEOREM TypeCorrect == Spec => []TypeOK
  BY Invariance, ImpliesTypeOK, PTL

LEMMA ImpliesUnasked == IInv => UnauthorizedCallsNothing
  <1> SUFFICES ASSUME IInv, NEW q \in Requests, route[q] \in Api, ~authorized[q]
               PROVE  /\ calls[q] = <<>>
                      /\ Done(q) => status[q] = 401 /\ bodies[q] = 0
    BY DEF UnauthorizedCallsNothing
  <1>1. Sound(q) /\ mode[q] \in Modes
    BY DEF IInv, Fields
  <1>2. mode[q] # "idle" /\ mode[q] # "panic" /\ mode[q] \notin HandlerSteps
    BY <1>1, NoRouteAssumption
    DEF Sound, SoundIdle, SoundPanic, SoundHandler, Routes
  <1>3. CASE mode[q] = "down"
    BY <1>1, <1>3 DEF Sound, SoundDown, Fresh, Done
  <1>4. CASE mode[q] \in {"up", "done"}
    BY <1>1, <1>4 DEF Sound, SoundAnswer, Fresh
  <1> QED
    BY <1>1, <1>2, <1>3, <1>4 DEF Modes

\* UnauthorizedCallsNothing: a request without the right user reaches no
\* cluster, and is answered 401.
THEOREM NothingUnasked == Spec => []UnauthorizedCallsNothing
  BY Invariance, ImpliesUnasked, PTL

LEMMA ImpliesConnect == IInv => ConnectTellsTheTruth
  BY DEF IInv, ConnectTellsTheTruth, Done, Sound, SoundAnswer

\* ConnectTellsTheTruth: the connectivity test says 200 exactly when one of
\* its commands ended well, and 409 exactly when the API server refused one.
THEOREM ConnectIsTrue == Spec => []ConnectTellsTheTruth
  BY Invariance, ImpliesConnect, PTL

LEMMA ImpliesOneBody == IInv => OneBody
  <1> SUFFICES ASSUME IInv, NEW q \in Requests, bodies[q] > 1
               PROVE  route[q] = "proxyCluster" /\ calls[q] = <<"apistatus">>
    BY DEF OneBody
  <1>1. Sound(q) /\ mode[q] \in Modes
    BY DEF IInv, Fields
  <1>2. mode[q] \notin {"idle", "down", "panic"} /\ mode[q] \notin HandlerSteps
    BY <1>1 DEF Sound, SoundIdle, SoundDown, SoundPanic, SoundHandler, Fresh
  <1> QED
    BY <1>1, <1>2 DEF Modes, Sound, SoundAnswer

\* OneBody: a response has one body, but for the error of a proxied cluster.
THEOREM AtMostOneBody == Spec => []OneBody
  BY Invariance, ImpliesOneBody, PTL

LEMMA ImpliesCounters == IInv => CountersMatch
  <1> SUFFICES ASSUME IInv, \A q \in Requests : mode[q] \in {"idle", "done"},
                      NEW r \in Routes, NEW s \in Statuses
               PROVE  reqCount[<<r, s>>] =
                        IF r \in {"ping", "metrics"} THEN 0
                        ELSE Cardinality({q \in Requests :
                               Done(q) /\ route[q] = r /\ status[q] = s})
    BY DEF CountersMatch
  <1>1. ASSUME NEW q \in Requests
        PROVE  Passed(q) <=> Done(q)
    BY <1>1 DEF IInv, Sound, Passed, Done
  <1>2. Tally(r, s) =
          {q \in Requests : Done(q) /\ route[q] = r /\ status[q] = s}
    BY <1>1 DEF Tally
  <1> QED
    BY <1>2 DEF IInv, Tallied

\* CountersMatch: when no request is under way, the counter holds for every
\* route and status as many requests as were answered so.
THEOREM CountersTell == Spec => []CountersMatch
  BY Invariance, ImpliesCounters, PTL
=============================================================================
