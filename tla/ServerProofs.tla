--------------------------- MODULE ServerProofs ---------------------------
(***************************************************************************)
(* Proofs about Server for every width of the word, every limit and every  *)
(* environment: what a start and an answer promise.                        *)
(***************************************************************************)
EXTENDS Server, TLAPS

---------------------------------------------------------------------------
(* config.Parse.                                                           *)

\* The recursion of Parse over the variables has a solution.
LEMMA ParseExists ==
    ASSUME NEW e
    PROVE  \E g : g = [i \in 0..6 |->
                          IF i = 0 THEN "none" ELSE assign(e, Variables[i], g[i - 1])]
<1> DEFINE v(i) == Variables[i]
           e1 == assign(e, v(1), "none")
           e2 == assign(e, v(2), e1)
           e3 == assign(e, v(3), e2)
           e4 == assign(e, v(4), e3)
           e5 == assign(e, v(5), e4)
           e6 == assign(e, v(6), e5)
           g == [i \in 0..6 |-> IF i = 0 THEN "none" ELSE <<e1, e2, e3, e4, e5, e6>>[i]]
<1>1. /\ g[0] = "none" /\ g[1] = e1 /\ g[2] = e2 /\ g[3] = e3
      /\ g[4] = e4 /\ g[5] = e5 /\ g[6] = e6
    OBVIOUS
<1>2. ASSUME NEW i \in 0..6
      PROVE  g[i] = IF i = 0 THEN "none" ELSE assign(e, Variables[i], g[i - 1])
    <2> HIDE DEF g
    <2> QED BY <1>1
<1>3. g = [i \in 0..6 |-> g[i]]
    OBVIOUS
<1>4. g = [i \in 0..6 |-> IF i = 0 THEN "none" ELSE assign(e, Variables[i], g[i - 1])]
    <2> HIDE DEF g
    <2> QED BY <1>2, <1>3
<1> QED BY <1>4

\* Parse goes through the variables one after the other.
LEMMA ParseUnfolds ==
    ASSUME NEW e
    PROVE  \E g : /\ ParseError(e) = g[6] /\ g[0] = "none"
                  /\ \A i \in 1..6 : g[i] = assign(e, Variables[i], g[i - 1])
<1> DEFINE Solves(g) == g = [i \in 0..6 |-> IF i = 0 THEN "none"
                                 ELSE assign(e, Variables[i], g[i - 1])]
           err == CHOOSE g : Solves(g)
<1>1. Len(Variables) = 6
    BY DEF Variables
<1>2. ParseError(e) = err[6]
    BY <1>1 DEF ParseError
<1>3. Solves(err)
    BY ParseExists, Zenon
<1> HIDE DEF err
<1>4. ASSUME NEW i \in 0..6
      PROVE  err[i] = IF i = 0 THEN "none" ELSE assign(e, Variables[i], err[i - 1])
    BY <1>3, Zenon
<1> QED BY <1>2, <1>4

\* The variable at place i is invalid.
Invalid(e, i) == e.raw[Variables[i]] = "invalid"

\* x is the error after i variables, given what they are.
ErrorAfter(e, i, x) ==
    \/ x = "none" /\ \A j \in 1..i : ~Invalid(e, j)
    \/ \E n \in 1..i : /\ x = Variables[n] /\ Invalid(e, n)
                      /\ \A j \in 1..(n - 1) : ~Invalid(e, j)

\* One more variable: the err that the closures share is passed on and never
\* taken for an error of the next variable.
LEMMA AssignNext ==
    ASSUME NEW e, NEW i \in 0..5, NEW x, ErrorAfter(e, i, x)
    PROVE  ErrorAfter(e, i + 1, assign(e, Variables[i + 1], x))
<1>1. CASE x = "none" /\ \A j \in 1..i : ~Invalid(e, j)
    <2>1. CASE Invalid(e, i + 1)
        <3>1. assign(e, Variables[i + 1], x) = Variables[i + 1]
            BY <1>1, <2>1 DEF assign, SetFails, Invalid
        <3> QED BY <1>1, <2>1, <3>1 DEF ErrorAfter
    <2>2. CASE ~Invalid(e, i + 1)
        <3>1. assign(e, Variables[i + 1], x) = "none"
            BY <1>1, <2>2 DEF assign, SetFails, Invalid
        <3>2. \A j \in 1..(i + 1) : ~Invalid(e, j)
            BY <1>1, <2>2
        <3> QED BY <3>1, <3>2 DEF ErrorAfter
    <2> QED BY <2>1, <2>2
<1>2. CASE \E n \in 1..i : /\ x = Variables[n] /\ Invalid(e, n)
                          /\ \A j \in 1..(n - 1) : ~Invalid(e, j)
    <2>1. PICK n \in 1..i : /\ x = Variables[n] /\ Invalid(e, n)
                            /\ \A j \in 1..(n - 1) : ~Invalid(e, j)
        BY <1>2
    <2>2. x # "none"
        <3>1. n \in 1..6
            OBVIOUS
        <3> QED BY <2>1, <3>1 DEF Variables
    <2>3. assign(e, Variables[i + 1], x) = x
        BY <2>2 DEF assign
    <2>4. n \in 1..(i + 1)
        OBVIOUS
    <2> QED BY <2>1, <2>3, <2>4 DEF ErrorAfter
<1> QED BY <1>1, <1>2 DEF ErrorAfter

\* Parse returns the first variable that is invalid, and none if there is none.
LEMMA ParseNamesFirst ==
    ASSUME NEW e
    PROVE  ErrorAfter(e, 6, ParseError(e))
<1>1. PICK g : /\ ParseError(e) = g[6] /\ g[0] = "none"
               /\ \A i \in 1..6 : g[i] = assign(e, Variables[i], g[i - 1])
    BY ParseUnfolds
<1>2. ErrorAfter(e, 0, g[0])
    BY <1>1 DEF ErrorAfter
<1>3. ASSUME NEW i \in 0..5, ErrorAfter(e, i, g[i])
      PROVE  ErrorAfter(e, i + 1, g[i + 1])
    <2>1. g[i + 1] = assign(e, Variables[i + 1], g[i])
        BY <1>1
    <2> QED BY <1>3, <2>1, AssignNext
<1>4. ErrorAfter(e, 1, g[1]) /\ ErrorAfter(e, 2, g[2])
    BY <1>2, <1>3
<1>5. ErrorAfter(e, 3, g[3]) /\ ErrorAfter(e, 4, g[4])
    BY <1>4, <1>3
<1>6. ErrorAfter(e, 5, g[5]) /\ ErrorAfter(e, 6, g[6])
    BY <1>5, <1>3
<1> QED BY <1>1, <1>6

---------------------------------------------------------------------------
(* The inductive invariant.                                                *)

\* Where nobody has answered yet.
Working == Handling \ {"log"}

\* Where the store has been called.
Called == {"got", "stored", "failed"}

\* Where the request has passed requireAPIKey.
Inside == {"key", "get", "got", "body", "mode", "put", "stored", "failed"}

\* Before the first request nothing has been sent, and the settings are those
\* of the environment.
Started ==
    /\ stage \in {"start", "refused", "loaded"} =>
          inFlight = 0 /\ resp = NoResponse /\ calls = <<>>
    /\ stage = "start" => env \in Environment
    /\ stage = "refused" => settings.error = ParseError(env) /\ ParseError(env) # "none"
    /\ stage = "loaded" =>
          /\ ParseError(env) = "none" /\ env \in Environment
          /\ settings.memory = MemoryCacheBytes(env)
          /\ settings.limit = evictionLimit(settings.memory)

\* Until the answer is written nothing of the request is visible, and it is on
\* the gauge until it leaves the access log.
OnItsWay ==
    /\ stage \in Working => inFlight = 1 /\ resp = NoResponse /\ metered = <<>>
    /\ stage \in Working \ Called => calls = <<>>
    /\ stage = "log" =>
          inFlight = 1 /\ resp.status # 0 /\ rec = resp.status /\ metered = <<>>
    /\ stage = "recover" =>
          inFlight = 0 /\ metered = <<>> /\ (resp = NoResponse \/ resp.status # 0)
    /\ RequestAccounted

\* What a request has shown by the time that it is routed.
LetIn ==
    /\ stage = "route" => Authorized
    /\ stage \in Inside => (settings.secured => req.apiKey = "right")

\* The mode that servePost passes on, and has passed on.
Resolved ==
    /\ stage \in {"put", "stored"} =>
          /\ downgraded = Downgrade(Requested)
          /\ mode = IF Downgrade(Requested) THEN "sync" ELSE Requested
    /\ stage = "stored" => calls = <<StoreMode(mode)>>

\* EchoIsContract and StoreIsGuarded, from the moment that the answer is out.
Echoed ==
    resp.status \in {201, 202} =>
        /\ calls = <<resp.mode>>
        /\ resp.status = 202 <=> resp.mode = "async"
        /\ resp.warning <=> resp.mode # Requested

Guarded ==
    /\ calls # <<>> => (settings.secured => req.apiKey = "right")
    /\ resp.status \in {400, 401, 405, 413, 429} => calls = <<>>

RequestInv == Started /\ OnItsWay /\ LetIn /\ Resolved /\ Echoed /\ Guarded

\* Nothing is started and no request is there.
LEMMA InitHolds == Init => RequestInv
BY DEF Init, RequestInv, Started, OnItsWay, LetIn, Resolved, Echoed, Guarded, Working,
       Inside, Handling, NoResponse, RequestAccounted, Over, Called

---------------------------------------------------------------------------
(* The steps.                                                              *)

\* A middleware that passes the request on to one that asks no more of it.
LEMMA PassStep ==
    ASSUME NEW n \in Working \ Called, RequestInv, stage \in Working \ Called, Pass(n),
           n \in Inside => (settings.secured => req.apiKey = "right"), n # "put",
           n = "route" => Authorized
    PROVE  RequestInv'
BY DEF Pass, Authorized, RequestInv, Started, OnItsWay, LetIn, Resolved, Echoed, Guarded, Working,
       Inside, Handling, NoResponse, RequestAccounted, Over, Called, process,
       request, Requested, Caches

\* A handler that returns: the status that the client gets is the one that is
\* counted.
LEMMA RespondStep ==
    ASSUME NEW a, NEW s, RequestInv, stage \in Working, Respond(a, s), s[1] # 0,
           a = [status |-> 0, mode |-> a.mode, warning |-> a.warning],
           Echoed', Guarded'
    PROVE  RequestInv'
BY DEF Respond, WriteHeader, RequestInv, Started, OnItsWay, LetIn, Resolved, Working,
       Inside, Handling, NoResponse, RequestAccounted, Over, Called, process

\* One that answers with an error of the client, or says nothing of a mode.
LEMMA AnswerStep ==
    ASSUME NEW s, RequestInv, stage \in Working, Answer(s), s # 0, s \notin {201, 202},
           calls' # <<>> => /\ settings.secured => req.apiKey = "right"
                          /\ s \notin {400, 401, 405, 413, 429}
    PROVE  RequestInv'
<1>1. Respond(NoResponse, <<s>>) /\ UNCHANGED <<req, mode, downgraded>>
    BY DEF Answer
<1>2. resp'.status = s /\ settings' = settings
    BY <1>1 DEF Respond, NoResponse, process
<1>3. Echoed' /\ Guarded'
    BY <1>1, <1>2 DEF Echoed, Guarded
<1> QED BY <1>1, <1>3, RespondStep DEF NoResponse

\* The start, and the next request.
LEMMA LoadStep == RequestInv /\ Load => RequestInv'
<1> SUFFICES ASSUME RequestInv, Load PROVE RequestInv'
    OBVIOUS
<1>1. /\ stage = "start" /\ UNCHANGED <<env, req, mode, downgraded, calls, resp, rec>>
      /\ UNCHANGED <<inFlight, metered>>
    BY DEF Load, request
<1>2. \/ /\ stage' = "refused" /\ settings'.error = ParseError(env)
         /\ ParseError(env) # "none"
      \/ /\ stage' = "loaded" /\ ParseError(env) = "none"
         /\ settings'.memory = MemoryCacheBytes(env)
         /\ settings'.limit = evictionLimit(settings'.memory)
    BY DEF Load, NoSettings
<1>3. ParseError(env)' = ParseError(env) /\ MemoryCacheBytes(env)' = MemoryCacheBytes(env)
    BY <1>1 DEF ParseError, MemoryCacheBytes
<1>4. inFlight = 0 /\ resp = NoResponse /\ calls = <<>> /\ env \in Environment
    BY <1>1 DEF RequestInv, Started
<1>5. Started'
    BY <1>1, <1>2, <1>3, <1>4 DEF Started
<1>6. OnItsWay' /\ LetIn' /\ Resolved'
    BY <1>2 DEF OnItsWay, LetIn, Resolved, Working, Handling, Inside, RequestAccounted, Over, Called
<1>7. Echoed' /\ Guarded'
    BY <1>1, <1>4 DEF Echoed, Guarded, NoResponse
<1> QED BY <1>5, <1>6, <1>7 DEF RequestInv

\* The access log counts a new request in.
LEMMA EnterStep == RequestInv /\ Enter => RequestInv'
<1> SUFFICES ASSUME RequestInv, Enter PROVE RequestInv'
    OBVIOUS
<1>1. inFlight = 0
    BY DEF Enter, RequestInv, Started, OnItsWay, RequestAccounted, Over, Called
<1>2. /\ stage' = "rateLimit" /\ resp' = NoResponse /\ calls' = <<>> /\ metered' = <<>>
      /\ inFlight' = 1
    BY <1>1 DEF Enter
<1> QED BY <1>2 DEF RequestInv, Started, OnItsWay, LetIn, Resolved, Echoed, Guarded, Working,
            Inside, Handling, NoResponse, RequestAccounted, Over, Called

\* The middlewares and the checks of the request.
LEMMA RateLimitStep == RequestInv /\ RateLimit => RequestInv'
<1> SUFFICES ASSUME RequestInv, RateLimit PROVE RequestInv'
    OBVIOUS
<1>1. stage \in Working \ Called /\ calls = <<>> /\ "auth" \in Working \ (Inside \cup Called)
    BY DEF RateLimit, RequestInv, OnItsWay, Working, Called, Handling, Inside
<1>2. CASE Pass("auth")
    BY <1>1, <1>2, PassStep
<1>3. CASE Answer(429) /\ UNCHANGED calls
    BY <1>1, <1>3, AnswerStep
<1> QED BY <1>2, <1>3 DEF RateLimit

\* requireAPIKey lets a request pass or answers it.
LEMMA AuthStep == RequestInv /\ Auth => RequestInv'
<1> SUFFICES ASSUME RequestInv, Auth PROVE RequestInv'
    OBVIOUS
<1>1. stage \in Working \ Called /\ calls = <<>> /\ "route" \in Working \ (Inside \cup Called)
    BY DEF Auth, RequestInv, OnItsWay, Working, Called, Handling, Inside
<1>2. CASE Authorized /\ Pass("route")
    BY <1>1, <1>2, PassStep
<1>3. CASE Answer(401) /\ UNCHANGED calls
    BY <1>1, <1>3, AnswerStep
<1> QED BY <1>2, <1>3 DEF Auth

\* route goes on to the key, or serveUI answers.
LEMMA RouteStep == RequestInv /\ Route => RequestInv'
<1> SUFFICES ASSUME RequestInv, Route PROVE RequestInv'
    OBVIOUS
<1>1. stage \in Working \ Called /\ calls = <<>> /\ "key" \in Working \ Called
    BY DEF Route, RequestInv, OnItsWay, Working, Called, Handling
<1>2. CASE req.path # "ui" /\ Pass("key")
    <2>1. settings.secured => req.apiKey = "right"
        BY <1>2 DEF Route, RequestInv, LetIn, Authorized
    <2> QED BY <1>1, <1>2, <2>1, PassStep
<1>3. CASE /\ \E s \in {<<200>>, <<500>>, <<200, 500>>, <<405>>} : Respond(NoResponse, s)
           /\ UNCHANGED request
    <2>1. PICK s \in {<<200>>, <<500>>, <<200, 500>>, <<405>>} : Respond(NoResponse, s)
        BY <1>3
    <2>2. s[1] \in {200, 500, 405}
        OBVIOUS
    <2>3. resp'.status = s[1]
        BY <2>1 DEF Respond, NoResponse
    <2>4. Echoed' /\ Guarded'
        BY <1>1, <1>3, <2>2, <2>3 DEF Echoed, Guarded, request
    <2> QED BY <1>1, <2>1, <2>2, <2>4, RespondStep DEF NoResponse
<1>4. CASE req.path = "ui"
    <2>1. PICK s \in (IF req.method = "GET" THEN {<<200>>, <<500>>, <<200, 500>>}
                      ELSE {<<405>>}) : Respond(NoResponse, s)
        BY <1>4 DEF Route
    <2>2. s \in {<<200>>, <<500>>, <<200, 500>>, <<405>>}
        OBVIOUS
    <2>3. UNCHANGED request
        BY <1>4, Zenon DEF Route
    <2> QED BY <1>3, <2>1, <2>2, <2>3, Zenon
<1> QED BY <1>2, <1>4, Zenon DEF Route

\* A key that is too long or a method that is not served is answered.
LEMMA ServeKeyStep == RequestInv /\ ServeKeyDirect => RequestInv'
<1> SUFFICES ASSUME RequestInv, ServeKeyDirect PROVE RequestInv'
    OBVIOUS
<1>1. /\ stage \in Working \ Called /\ calls = <<>>
      /\ "get" \in Working \ Called /\ "body" \in Working \ Called
      /\ settings.secured => req.apiKey = "right"
    BY DEF ServeKeyDirect, RequestInv, OnItsWay, LetIn, Working, Called, Handling, Inside
<1>2. CASE Pass("get") \/ Pass("body")
    BY <1>1, <1>2, PassStep
<1>3. CASE (Answer(400) \/ Answer(405)) /\ UNCHANGED calls
    BY <1>1, <1>3, AnswerStep
<1> QED BY <1>2, <1>3 DEF ServeKeyDirect

\* A call of the store: from here the request has been seen by it.
LEMMA CallStep ==
    ASSUME NEW c, NEW n \in Called, RequestInv, stage \in Inside \ Called, Call(c, n),
           n = "stored" => stage = "put" /\ c = StoreMode(mode)
    PROVE  RequestInv'
<1>1. /\ inFlight = 1 /\ resp = NoResponse /\ metered = <<>> /\ calls = <<>>
      /\ settings.secured => req.apiKey = "right"
    BY DEF RequestInv, OnItsWay, LetIn, Working, Handling, Inside, Called
<1>2. /\ UNCHANGED <<settings, req, mode, downgraded, resp, inFlight, metered>>
      /\ stage' = n /\ calls' = <<c>>
    BY <1>1 DEF Call, process
<1>3. Resolved'
    BY <1>2 DEF RequestInv, Resolved, Called, Downgrade, Requested, Caches, StoreMode
<1> QED BY <1>1, <1>2, <1>3 DEF RequestInv, Started, OnItsWay, LetIn, Echoed, Guarded, Working,
            Handling, Inside, NoResponse, RequestAccounted, Over, Called

\* serveGet asks the store and answers.
LEMMA ServeGetStep == RequestInv /\ (ServeGet \/ AnswerGet) => RequestInv'
<1> SUFFICES ASSUME RequestInv, ServeGet \/ AnswerGet PROVE RequestInv'
    OBVIOUS
<1>1. CASE ServeGet
    BY <1>1, CallStep DEF ServeGet, Inside, Called
<1>2. CASE AnswerGet
    <2>1. stage \in Working /\ (settings.secured => req.apiKey = "right")
        BY <1>2 DEF AnswerGet, RequestInv, LetIn, Working, Handling, Inside
    <2>2. PICK s \in {200, 404, 500} : Answer(s)
        BY <1>2 DEF AnswerGet
    <2> QED BY <2>1, <2>2, AnswerStep
<1> QED BY <1>1, <1>2

\* servePost reads the body or refuses it.
LEMMA ReadBodyStep == RequestInv /\ ReadBody => RequestInv'
<1> SUFFICES ASSUME RequestInv, ReadBody PROVE RequestInv'
    OBVIOUS
<1>1. /\ stage \in Working \ Called /\ calls = <<>> /\ "mode" \in Working \ Called
      /\ settings.secured => req.apiKey = "right"
    BY DEF ReadBody, RequestInv, OnItsWay, LetIn, Working, Called, Handling, Inside
<1>2. CASE Pass("mode")
    BY <1>1, <1>2, PassStep
<1>3. CASE (Answer(413) \/ Answer(400)) /\ UNCHANGED calls
    BY <1>1, <1>3, AnswerStep
<1> QED BY <1>2, <1>3 DEF ReadBody

\* The mode, and the call of the store: both decide on the downgrade, and
\* decide the same.
LEMMA ResolveStep == RequestInv /\ ResolveMode => RequestInv'
<1> SUFFICES ASSUME RequestInv, ResolveMode PROVE RequestInv'
    OBVIOUS
<1>1. /\ stage = "mode" /\ calls = <<>> /\ inFlight = 1 /\ resp = NoResponse /\ metered = <<>>
      /\ settings.secured => req.apiKey = "right"
    BY DEF ResolveMode, RequestInv, OnItsWay, LetIn, Working, Called, Handling, Inside
<1>2. CASE Answer(400) /\ UNCHANGED calls
    BY <1>1, <1>2, AnswerStep DEF Working, Called, Handling
<1>3. CASE /\ downgraded' = Downgrade(Requested)
           /\ mode' = IF Downgrade(Requested) THEN "sync" ELSE Requested
           /\ stage' = "put"
           /\ UNCHANGED <<process, req, resp, rec, inFlight, metered, calls>>
    <2>1. UNCHANGED <<settings, req, resp, calls, inFlight, metered>>
        BY <1>3 DEF process
    <2>2. Resolved'
        BY <1>3, <2>1 DEF Resolved, Downgrade, Requested, Caches
    <2>3. Started' /\ OnItsWay' /\ LetIn' /\ Echoed' /\ Guarded'
        BY <1>1, <1>3, <2>1 DEF Started, OnItsWay, LetIn, Echoed, Guarded, Working, Called,
           Handling, NoResponse, RequestAccounted, Over, Called
    <2> QED BY <2>2, <2>3 DEF RequestInv
<1> QED BY <1>2, <1>3 DEF ResolveMode

\* servePost calls the store.
LEMMA ServePutStep == RequestInv /\ ServePut => RequestInv'
BY CallStep DEF ServePut, Inside, Called

\* servePost answers: what it echoes is what the store was called with.
LEMMA AnswerPutStep == RequestInv /\ AnswerPut => RequestInv'
<1> SUFFICES ASSUME RequestInv, AnswerPut PROVE RequestInv'
    OBVIOUS
<1>1. /\ stage \in Working /\ (settings.secured => req.apiKey = "right")
      /\ UNCHANGED calls
    BY DEF AnswerPut, RequestInv, LetIn, Working, Handling, Inside
<1>2. CASE Answer(500)
    BY <1>1, <1>2, AnswerStep
<1>3. CASE /\ stage = "stored"
           /\ Respond([status |-> 0, mode |-> mode, warning |-> downgraded],
                       <<IF mode = "async" THEN 202 ELSE 201>>)
           /\ UNCHANGED <<req, mode, downgraded>>
    <2>1. /\ resp'.status = IF mode = "async" THEN 202 ELSE 201
          /\ resp'.mode = mode /\ resp'.warning = downgraded /\ settings' = settings
        BY <1>3 DEF Respond, process
    <2>2. /\ downgraded = Downgrade(Requested)
          /\ mode = IF Downgrade(Requested) THEN "sync" ELSE Requested
          /\ calls = <<StoreMode(mode)>>
        BY <1>3 DEF RequestInv, Resolved
    <2>3. StoreMode(mode) = mode
        BY <2>2 DEF StoreMode, Downgrade
    <2>4. downgraded <=> mode # Requested
        BY <2>2 DEF Downgrade
    <2>5. Requested' = Requested
        BY <1>3 DEF Requested
    <2>6. Echoed'
        BY <1>1, <2>1, <2>2, <2>3, <2>4, <2>5 DEF Echoed
    <2>7. Guarded'
        BY <1>1, <1>3, <2>1 DEF Guarded
    <2> QED BY <1>1, <1>3, <2>6, <2>7, RespondStep
<1> QED BY <1>2, <1>3 DEF AnswerPut

\* The way back.
LEMMA ReturnStep == RequestInv /\ (AccessLog \/ Panic \/ Recover) => RequestInv'
<1> SUFFICES ASSUME RequestInv, AccessLog \/ Panic \/ Recover PROVE RequestInv'
    OBVIOUS
<1>1. UNCHANGED <<settings, req, calls>>
    BY DEF AccessLog, Panic, Recover, process, request
<1>2. stage' \in {"done", "recover", "recovered"}
    BY DEF AccessLog, Panic, Recover
<1>3. Started' /\ LetIn' /\ Resolved'
    BY <1>2 DEF Started, LetIn, Resolved, Inside
<1>4. OnItsWay'
    <2>1. CASE AccessLog
        BY <2>1 DEF AccessLog, RequestInv, OnItsWay, Working, Handling, RequestAccounted,
           Over, Called
    <2>2. CASE Panic
        BY <2>2 DEF Panic, Unwind, RequestInv, OnItsWay, Working, Handling, RequestAccounted,
           Over, Called
    <2>3. CASE Recover
        BY <2>3 DEF Recover, NoResponse, RequestInv, OnItsWay, Working, Handling, RequestAccounted,
           Over, Called
    <2> QED BY <2>1, <2>2, <2>3
<1>5. \/ resp' = resp
      \/ resp'.status = 500
    BY DEF AccessLog, Panic, Recover, RequestInv, OnItsWay, NoResponse
<1>6. Echoed' /\ Guarded'
    BY <1>1, <1>5 DEF RequestInv, Echoed, Guarded, Requested
<1> QED BY <1>3, <1>4, <1>6 DEF RequestInv

\* A step that changes nothing.
LEMMA Stutter == RequestInv /\ UNCHANGED vars => RequestInv'
<1> SUFFICES ASSUME RequestInv, UNCHANGED vars PROVE RequestInv'
    OBVIOUS
<1>1. UNCHANGED <<env, settings, req, mode, downgraded, calls, stage, resp, rec>>
      /\ UNCHANGED <<inFlight, metered>>
    BY DEF vars, process, request
<1>2. /\ ParseError(env)' = ParseError(env) /\ MemoryCacheBytes(env)' = MemoryCacheBytes(env)
      /\ Requested' = Requested /\ Caches' = Caches /\ StoreMode(mode)' = StoreMode(mode)
    BY <1>1 DEF ParseError, MemoryCacheBytes, Requested, Caches, StoreMode
<1> QED BY <1>1, <1>2 DEF RequestInv, Started, OnItsWay, LetIn, Resolved, Echoed, Guarded,
            Authorized, Downgrade, RequestAccounted, Over, Called

\* Every step of the server keeps the invariant.
LEMMA NextStep == RequestInv /\ [Next]_vars => RequestInv'
BY LoadStep, EnterStep, RateLimitStep, AuthStep, RouteStep, ServeKeyStep, ServeGetStep,
   ReadBodyStep, ResolveStep, ServePutStep, AnswerPutStep, ReturnStep, Stutter, Zenon DEF Next

\* The invariant holds at all times.
LEMMA RequestInvariant == Spec => []RequestInv
BY InitHolds, NextStep, PTL DEF Spec

---------------------------------------------------------------------------
(* The theorems.                                                           *)

\* config.Load refuses a start exactly when a variable is invalid and names
\* the first one, whatever err the closures share and return.
THEOREM StartNamesFirst == Spec => []ErrorNamesFirst
<1>1. DOMAIN Variables = 1..6
    BY DEF Variables
<1>2. ASSUME RequestInv PROVE ErrorNamesFirst
    <2>1. ErrorAfter(env, 6, ParseError(env))
        BY ParseNamesFirst
    <2> DEFINE I == {i \in DOMAIN Variables : env.raw[Variables[i]] = "invalid"}
    <2>2. ASSUME stage = "refused"
          PROVE  \E i \in I : settings.error = Variables[i] /\ \A j \in I : i <= j
        <3>1. ParseError(env) # "none" /\ settings.error = ParseError(env)
            BY <1>2, <2>2 DEF RequestInv, Started
        <3>2. PICK n \in 1..6 : /\ ParseError(env) = Variables[n] /\ Invalid(env, n)
                                /\ \A j \in 1..(n - 1) : ~Invalid(env, j)
            BY <2>1, <3>1 DEF ErrorAfter
        <3>3. n \in I /\ \A j \in I : n <= j
            BY <1>1, <3>2 DEF Invalid
        <3> QED BY <3>1, <3>2, <3>3
    <2>3. ASSUME stage = "loaded" PROVE I = {}
        <3>1. ParseError(env) = "none"
            BY <1>2, <2>3 DEF RequestInv, Started
        <3>2. \A n \in 1..6 : Variables[n] # "none"
            BY DEF Variables
        <3>3. \A j \in 1..6 : ~Invalid(env, j)
            BY <2>1, <3>1, <3>2 DEF ErrorAfter
        <3> QED BY <1>1, <3>3 DEF Invalid
    <2> QED BY <2>2, <2>3 DEF ErrorNamesFirst
<1> QED BY <1>2, RequestInvariant, PTL

\* A remainder is its number, if that is less than the divisor, and never more.
LEMMA Remainder ==
    ASSUME NEW n \in Nat, NEW d \in Nat \ {0}
    PROVE  n % d \in 0..(d - 1) /\ n % d <= n /\ (n < d => n % d = n)
OBVIOUS

\* A word keeps what fits it, and what overflows becomes less.
LEMMA WrapKeeps ==
    ASSUME NEW n \in Nat
    PROVE  /\ Wrap(n) \in Int /\ Wrap(n) <= n /\ Wrap(n) <= Largest
           /\ n <= Largest => Wrap(n) = n
<1>1. Half \in Nat \ {0} /\ 2 * Half \in Nat \ {0} /\ n + Half \in Nat
    BY ConfigAssumption
<1> DEFINE m == (n + Half) % (2 * Half)
<1>2. /\ m \in 0..(2 * Half - 1) /\ m <= n + Half
      /\ n + Half < 2 * Half => m = n + Half
    BY <1>1, Remainder
<1>3. Wrap(n) = m - Half
    BY DEF Wrap
<1> HIDE DEF m
<1> QED BY <1>1, <1>2, <1>3 DEF Largest

\* The cap of the memory layer holds for every KVP_MEMORY_CACHE_MB, whatever
\* the overflow makes of it, and the eviction's budget is that of the layer;
\* and where N MiB fits the word both are what was asked for.
THEOREM BudgetMatches == Spec => []BudgetAsConfigured
<1>1. ASSUME RequestInv PROVE BudgetAsConfigured
    <2> SUFFICES ASSUME stage = "loaded"
                 PROVE  /\ Caches => settings.memory <= Asked
                        /\ settings.limit \in 1..Largest
                        /\ Asked <= Largest =>
                              /\ settings.memory = Asked
                              /\ settings.limit = IF Asked > 0 THEN Asked ELSE MaxDBBytes
        BY DEF BudgetAsConfigured
    <2>1. /\ settings.memory = MemoryCacheBytes(env) /\ env \in Environment
          /\ settings.limit = evictionLimit(settings.memory)
        BY <1>1 DEF RequestInv, Started
    <2>2. MaxDBBytes \in 1..Largest /\ Largest \in Int
        BY ConfigAssumption DEF Largest
    <2>3. CASE env.raw["KVP_MEMORY_CACHE_MB"] = "valid"
        <3>1. env.mb * MiB \in Nat
            <4>1. env.mb \in MemoryMB
                <5> DEFINE E == [raw : [Name -> {"unset", "valid", "invalid"}], mb : MemoryMB,
                                 mode : CommitModes]
                <5>1. env \in E
                    BY <2>1, Zenon DEF Environment
                <5> QED BY <5>1
            <4>2. env.mb \in Nat
                <5>1. env.mb \in 0..Largest
                    BY <4>1, ConfigAssumption, Zenon
                <5> QED BY <2>2, <5>1
            <4> QED BY <4>2, ConfigAssumption
        <3>2. settings.memory = Wrap(env.mb * MiB) /\ Asked = env.mb * MiB
            BY <2>1, <2>3 DEF MemoryCacheBytes, Asked
        <3>3. /\ settings.memory \in Int /\ settings.memory <= Asked
              /\ settings.memory <= Largest
              /\ Asked <= Largest => settings.memory = Asked
            BY <3>1, <3>2, WrapKeeps
        <3> QED BY <2>1, <2>2, <3>1, <3>2, <3>3 DEF evictionLimit
    <2>4. CASE env.raw["KVP_MEMORY_CACHE_MB"] # "valid"
        <3>1. settings.memory = MaxDBBytes /\ Asked = MaxDBBytes
            BY <2>1, <2>4 DEF MemoryCacheBytes, Asked
        <3> QED BY <2>1, <2>2, <3>1 DEF evictionLimit
    <2> QED BY <2>3, <2>4
<1> QED BY <1>1, RequestInvariant, PTL

\* A request that is over is off the gauge and has a status; it was counted once,
\* with that status, or after a panic not at all.
THEOREM AllAccounted == Spec => []RequestAccounted
<1>1. ASSUME RequestInv PROVE RequestAccounted
    BY <1>1 DEF RequestInv, OnItsWay
<1> QED BY <1>1, RequestInvariant, PTL

\* The mode in an answer is the one the store was called with, and the warning
\* is there exactly when that is not the mode which applied.
THEOREM EchoHonest == Spec => []EchoIsContract
<1>1. ASSUME RequestInv PROVE EchoIsContract
    BY <1>1 DEF RequestInv, Echoed, EchoIsContract, Stored
<1> QED BY <1>1, RequestInvariant, PTL

\* No request gets to the store past requireAPIKey, and none that is refused
\* has been there.
THEOREM StoreGuarded == Spec => []StoreIsGuarded
<1>1. ASSUME RequestInv PROVE StoreIsGuarded
    BY <1>1 DEF RequestInv, Guarded, StoreIsGuarded
<1> QED BY <1>1, RequestInvariant, PTL
=============================================================================
