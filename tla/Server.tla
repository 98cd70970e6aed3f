------------------------------- MODULE Server -------------------------------
(***************************************************************************)
(* The settings that the process loads, and then one request after the    *)
(* other on its way through internal/server: the middlewares around the    *)
(* handler (recovery, access log, rate limit, API key), the router, the    *)
(* checks of the key and the body, the commit mode, the store, the answer. *)
(*                                                                         *)
(* RateLimiter decides who is limited and KVStore what the store does;     *)
(* here both only answer.  A handler may panic anywhere, also between the  *)
(* call of the store and the answer.  calls is history: the store calls of *)
(* the request at hand, with the mode the store itself settles on.         *)
(***************************************************************************)
EXTENDS Config

Modes == CommitModes

\* A UI path, a key, a key above KVP_MAX_KEY_BYTES, a path with no key after its
\* first byte (the target "*"), or none at all (an absolute target without a
\* path).  The body is read, exceeds KVP_MAX_BODY_BYTES, or breaks off.  An
\* absent X-Commit-Mode is "none".
Request ==
    [path : {"ui", "key", "long", "star", "empty"}, method : {"GET", "POST", "other"},
     apiKey : {"right", "wrong"}, body : {"read", "large", "broken"},
     header : Modes \cup {"none", "unknown"}]

VARIABLES
    env,        \* the environment, until it is read
    settings,   \* config.Config, or the name in its error
    req,        \* the request
    stage,      \* the handler it has reached
    mode,       \* servePost's mode and downgraded
    downgraded,
    resp,       \* the answer: status, X-Commit-Mode, the warning
    rec,        \* the responseRecorder: the status it has seen
    inFlight,   \* the in-flight gauge
    metered,    \* the statuses that the request counter was given, in order
    calls       \* history: what was asked of the store, in order

request == <<req, mode, downgraded, calls>>
process == <<env, settings>>
vars == <<process, request, stage, resp, rec, inFlight, metered>>

NoResponse == [status |-> 0, mode |-> "none", warning |-> FALSE]

NoRequest == [path |-> "ui", method |-> "other", apiKey |-> "wrong", body |-> "broken",
              header |-> "none"]

\* Where a panic may occur with the access log on the stack.
Handling == {"rateLimit", "auth", "route", "key", "get", "got", "body", "mode", "put",
             "stored", "failed", "log"}

\* The request has left all the middlewares.
Over == stage \in {"done", "recovered"}

\* ParsePutMode, and the fallback of newServer for what it does not know.
DefaultMode(commitMode) == IF commitMode \in Modes THEN commitMode ELSE "sync"

\* The server.Options that run builds have no CommitMode.
OptionsMode == ""

NoSettings == [error |-> "none", memory |-> 0, limit |-> 0, secured |-> FALSE,
               commitMode |-> "sync"]

Caches == Caching(settings.memory)

Init ==
    /\ env \in Environment /\ settings = NoSettings
    /\ stage = "start" /\ req = NoRequest /\ mode = "sync" /\ downgraded = FALSE
    /\ resp = NoResponse /\ rec = 0 /\ inFlight = 0 /\ metered = <<>> /\ calls = <<>>

---------------------------------------------------------------------------
(* The process starts.                                                     *)

\* config.Load; an error ends run.
Load ==
    /\ stage = "start"
    /\ IF ParseError(env) # "none"
       THEN stage' = "refused" /\ settings' = [NoSettings EXCEPT !.error = ParseError(env)]
       ELSE /\ stage' = "loaded"
            /\ settings' = [error |-> "none", memory |-> MemoryCacheBytes(env),
                            limit |-> evictionLimit(MemoryCacheBytes(env)),
                            secured |-> env.raw["KVP_API_KEY"] = "valid",
                            commitMode |-> CommitMode(env)]
    /\ UNCHANGED <<env, request, resp, rec, inFlight, metered>>

\* The client sends its next request; the access log counts it in.  Nobody
\* looks at the environment any more.
Enter ==
    /\ stage = "loaded" \/ Over
    /\ req' \in Request /\ stage' = "rateLimit"
    /\ mode' = "sync" /\ downgraded' = FALSE /\ resp' = NoResponse /\ calls' = <<>>
    /\ rec' = 0 /\ inFlight' = inFlight + 1 /\ metered' = <<>>
    /\ env' = Empty /\ UNCHANGED settings

---------------------------------------------------------------------------
(* The handler.                                                            *)

Pass(next) ==
    /\ stage' = next
    /\ UNCHANGED <<process, request, resp, rec, inFlight, metered>>

\* Mutant of WriteHeader: the recorder keeps the last status.
WriteHeaderLast(statuses) == statuses[Len(statuses)]

\* responseRecorder.WriteHeader: the first status is kept and passed on.
WriteHeader(statuses) == statuses[1]

\* The handler returns after it has written these statuses, the first of which
\* is the one the client gets.
Respond(answer, statuses) ==
    /\ stage' = "log"
    /\ resp' = [answer EXCEPT !.status = statuses[1]]
    /\ rec' = WriteHeader(statuses)
    /\ UNCHANGED <<process, inFlight, metered>>

\* writeError, and the answers that carry no mode.
Answer(status) == Respond(NoResponse, <<status>>) /\ UNCHANGED <<req, mode, downgraded>>

RateLimit ==
    /\ stage = "rateLimit"
    /\ Pass("auth") \/ (Answer(429) /\ UNCHANGED calls)

\* Mutant of Authorized: every GET is exempt.
AuthorizedGet == settings.secured /\ req.method # "GET" => req.apiKey = "right"

Authorized == settings.secured /\ req.path # "ui" => req.apiKey = "right"

Auth ==
    /\ stage = "auth"
    /\ IF Authorized THEN Pass("route") ELSE Answer(401) /\ UNCHANGED calls

\* route and serveUI, whose file may fail to open, or to be copied after the
\* first write has sent 200.  The slice of an empty path panics.
Route ==
    /\ stage = "route" /\ req.path # "empty"
    /\ IF req.path # "ui" THEN Pass("key")
       ELSE /\ \E s \in IF req.method = "GET" THEN {<<200>>, <<500>>, <<200, 500>>}
                         ELSE {<<405>>} : Respond(NoResponse, s)
            /\ UNCHANGED request

ServeKeyDirect ==
    /\ stage = "key"
    /\ IF req.path = "key" /\ req.method \in {"GET", "POST"}
       THEN Pass(IF req.method = "GET" THEN "get" ELSE "body")
       ELSE Answer(IF req.path = "key" THEN 405 ELSE 400) /\ UNCHANGED calls

\* A call of the store returns.
Call(call, next) ==
    /\ calls' = Append(calls, call) /\ stage' = next
    /\ UNCHANGED <<process, req, mode, downgraded, resp, rec, inFlight, metered>>

ServeGet == stage = "get" /\ Call("get", "got")

\* Found, not found or expired, or an error.
AnswerGet ==
    /\ stage = "got"
    /\ \E s \in {200, 404, 500} : Answer(s)
    /\ UNCHANGED calls

ReadBody ==
    /\ stage = "body"
    /\ IF req.body = "read" THEN Pass("mode")
       ELSE Answer(IF req.body = "large" THEN 413 ELSE 400) /\ UNCHANGED calls

\* Mutant of Downgrade: only async needs the memory layer.
DowngradeAsync(m) == m = "async" /\ ~Caches

Downgrade(m) == m # "sync" /\ ~Caches

\* The mode the client or the server chose.
Requested == IF req.header = "none" THEN DefaultMode(OptionsMode) ELSE req.header

ResolveMode ==
    /\ stage = "mode"
    /\ IF req.header = "unknown" THEN Answer(400) /\ UNCHANGED calls
       ELSE /\ downgraded' = Downgrade(Requested)
            /\ mode' = IF Downgrade(Requested) THEN "sync" ELSE Requested
            /\ stage' = "put"
            /\ UNCHANGED <<process, req, resp, rec, inFlight, metered, calls>>

\* What PutWithMode makes of a mode: it has a downgrade of its own.
StoreMode(m) == IF m # "sync" /\ ~Caches THEN "sync" ELSE m

\* PutWithMode fails or succeeds.
ServePut ==
    /\ stage = "put"
    /\ \E next \in {"stored", "failed"} : Call(StoreMode(mode), next)

\* The client is told of the error, or gets an answer that names the mode.
AnswerPut ==
    /\ \/ stage = "failed" /\ Answer(500)
       \/ /\ stage = "stored"
          /\ Respond([status |-> 0, mode |-> mode, warning |-> downgraded],
                     <<IF mode = "async" THEN 202 ELSE 201>>)
          /\ UNCHANGED <<req, mode, downgraded>>
    /\ UNCHANGED calls

---------------------------------------------------------------------------
(* The way back through the middlewares.                                   *)

\* accessLog after the handler, and its deferred decrement.
AccessLog ==
    /\ stage = "log" /\ stage' = "done"
    /\ metered' = Append(metered, rec)
    /\ inFlight' = inFlight - 1
    /\ UNCHANGED <<process, request, resp, rec>>

\* Mutant of Unwind: the decrement is not deferred.
UnwindCounted == inFlight

\* A panic runs the deferred call of accessLog, and nothing else of it.
Unwind == inFlight - 1

Panic ==
    /\ stage \in Handling /\ stage' = "recover"
    /\ inFlight' = Unwind
    /\ UNCHANGED <<process, request, resp, rec, metered>>

\* recoverMiddleware: 500, unless a status has been sent.
Recover ==
    /\ stage = "recover" /\ stage' = "recovered"
    /\ resp' = IF resp.status = 0 THEN [resp EXCEPT !.status = 500] ELSE resp
    /\ UNCHANGED <<process, request, rec, inFlight, metered>>

Next ==
    \/ Load \/ Enter
    \/ RateLimit \/ Auth \/ Route \/ ServeKeyDirect \/ ServeGet \/ AnswerGet
    \/ ReadBody \/ ResolveMode \/ ServePut \/ AnswerPut
    \/ AccessLog \/ Panic \/ Recover

Spec == Init /\ [][Next]_vars

---------------------------------------------------------------------------
(* Properties.                                                             *)

\* A refused start names the first variable in the order of Parse that is
\* invalid, and a start with an invalid variable is refused, although most
\* closures return an err that is not theirs.
ErrorNamesFirst ==
    LET Invalid == {i \in DOMAIN Variables : env.raw[Variables[i]] = "invalid"}
    IN  /\ stage = "refused" =>
              \E i \in Invalid : settings.error = Variables[i] /\ \A j \in Invalid : i <= j
        /\ stage = "loaded" => Invalid = {}

\* What KVP_MEMORY_CACHE_MB, or the size of the database without it, asks for.
Asked == IF env.raw["KVP_MEMORY_CACHE_MB"] = "valid" THEN env.mb * MiB ELSE MaxDBBytes

\* config.go 248-249: unset binds the memory layer to the size of the database,
\* 0 disables it, N caps it at N MiB.  The cap holds also where N MiB overflows,
\* the eviction never gets a budget that nothing can meet, and whatever fits the
\* word is what Open and the eviction both go by.
BudgetAsConfigured ==
    stage = "loaded" =>
        /\ Caches => settings.memory <= Asked
        /\ settings.limit \in 1..Largest
        /\ Asked <= Largest =>
              /\ settings.memory = Asked
              /\ settings.limit = IF Asked > 0 THEN Asked ELSE MaxDBBytes

\* When a request is over the gauge is back and the client has a status.  One
\* that came back through the access log was counted once, with the status that
\* the client got, also when a page broke off after its 200; one that panicked,
\* before or after its answer was written, was not counted.
RequestAccounted ==
    /\ Over => inFlight = 0 /\ resp.status # 0
    /\ stage = "done" => metered = <<resp.status>>
    /\ stage = "recovered" => metered = <<>>

Stored == Over /\ resp.status \in {201, 202}

\* spec.md, section 5.2: the echoed mode is the durability contract.  The mode
\* in the answer is the one that the store used, in the only call it got; 202
\* says async and nothing else does; and the warning is there exactly when the
\* client got less than the mode that applied to its request, although the
\* server and PutWithMode each decide on the downgrade.
EchoIsContract ==
    Stored =>
        /\ calls = <<resp.mode>>
        /\ resp.status = 202 <=> resp.mode = "async"
        /\ resp.warning <=> resp.mode # Requested

\* With a key configured, no request reaches the store or learns of a key
\* without it; and one that answers an error of the client never does.
StoreIsGuarded ==
    /\ calls # <<>> => (settings.secured => req.apiKey = "right")
    /\ Over /\ resp.status \in {400, 401, 405, 413, 429} => calls = <<>>

---------------------------------------------------------------------------
(* What the documents say and the code does not keep.                      *)

\* spec.md, section 5.2: "Unset -> the server default KVP_COMMIT_MODE".
DefaultModeApplies ==
    Stored /\ req.header = "none" /\ Caches => resp.mode = settings.commitMode

\* spec.md, section 7: "Recover middleware returns `500` ... and records the
\* error metric".
PanicIsMetered == Over => metered = <<resp.status>>

\* config.go 249: "N caps it at N MiB".
MemoryAsConfigured ==
    stage = "loaded" /\ env.raw["KVP_MEMORY_CACHE_MB"] = "valid"
        => settings.memory = env.mb * MiB
=============================================================================
