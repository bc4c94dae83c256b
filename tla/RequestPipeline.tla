-------------------------- MODULE RequestPipeline --------------------------
(***************************************************************************)
(* What the middlewares of the API do around the handler of an HTTP        *)
(* request, from the outside in: rate limiting, logging, error handling.   *)
(* Requests of one worker are coroutines of one event loop: they           *)
(* interleave wherever one of them awaits.                                 *)
(*                                                                         *)
(* The rate limiter counts in the memory of the worker, in one piece, or   *)
(* in Redis, with one command for each second of the window and then one   *)
(* or two to record.  The logging context is one variable of the worker's  *)
(* thread, saved and restored by each of the two middlewares that set it.  *)
(* Time is in whole seconds.                                               *)
(***************************************************************************)
EXTENDS Integers, FiniteSets, Sums

CONSTANTS
    Requests,           \* requests in progress at once; each may be used again
    Clients,            \* what _get_identifier returns
    Workers,            \* processes
    MaxRequests,        \* config.max_requests
    Window,             \* config.window_seconds
    Life,               \* what the stores keep: 60 s
    MaxTime,            \* bound on the clock
    MaxFailures,        \* bound on the commands of Redis that fail
    Failures,           \* how a handler may end: a kind, a reason and a status
    Nobody              \* no client, no worker, no context

ASSUME FailuresAssumption == \A failure \in Failures : failure.status \in {0} \union 400..599
ASSUME RequestsAssumption == IsFiniteSet(Requests)
ASSUME LimitAssumption == MaxRequests \in Nat \ {0} /\ Window \in Nat \ {0}
ASSUME BoundsAssumption == MaxTime \in Nat /\ MaxFailures \in Nat
ASSUME LifeAssumption == Life \in Nat \ {0}

\* The window as far as the stores remember it: whatever window_seconds says,
\* neither of them keeps more than the last 60 s.
Span == IF Window < Life THEN Window ELSE Life

Seconds == (1 - Window)..MaxTime
Never == MaxTime + Life + 1

VARIABLES
    now,        \* time.time(), in seconds
    shared,     \* whether the store is RedisRateLimitStore
    counts,     \* Redis: the counter of a client and a second
    deadline,   \* Redis: when that counter expires
    local,      \* RateLimitStore.requests of a worker
    context,    \* _request_context.value of a worker
    req,        \* the requests in progress
    admitted,   \* history: admissions by client, store that counts them and second
    lost,       \* history: whether a count of Redis has been missed by a request
    failures,   \* commands of Redis that have failed
    mixed       \* history: whether contexts of a worker have overlapped

vars == <<now, shared, counts, deadline, local, context, req, admitted, lost, failures, mixed>>
limiter == <<counts, deadline, local, admitted, lost, failures>>

\* The locals of a request of c on w, none of them in use yet.
Fresh(step, c, w) ==
    [step |-> step, client |-> c, worker |-> w, time |-> 0, total |-> 0,
     second |-> 0, status |-> 200, before |-> Nobody, between |-> Nobody, alone |-> TRUE]
Free == Fresh("free", Nobody, Nobody)

Nothing == [s \in Seconds |-> 0]

\* The stores: Redis, of no worker in particular, and that of each worker.
Stores == Workers \union {Nobody}
NoneAdmitted == [c \in Clients |-> [store \in Stores |-> Nothing]]

Init ==
    /\ now = 0
    /\ shared \in BOOLEAN
    /\ counts = [c \in Clients |-> Nothing]
    /\ deadline = [c \in Clients |-> [s \in Seconds |-> Never]]
    /\ local = [w \in Workers |-> [c \in Clients |-> Nothing]]
    /\ context = [w \in Workers |-> Nobody]
    /\ req = [r \in Requests |-> Free]
    /\ admitted = NoneAdmitted
    /\ lost = FALSE
    /\ failures = 0
    /\ mixed = [w \in Workers |-> FALSE]

-----------------------------------------------------------------------------
(* The stores.                                                             *)

\* RateLimitStore.get_count: what is not older than the window.
LocalCount(w, c, t) ==
    SumOver(local[w][c], {s \in Seconds : s >= t - Window})

\* RateLimitStore.add_request: what is a minute old goes, the request is added.
LocalAdded(f, t) ==
    [s \in Seconds |-> (IF s > t - Life THEN f[s] ELSE 0) + (IF s = t THEN 1 ELSE 0)]

\* The request is let through by a store.
Admit(c, store, t) ==
    admitted' = IF lost THEN admitted ELSE [admitted EXCEPT ![c][store][t] = @ + 1]

\* Something is lost: from here on the history of admissions is of no use.
Lose == lost' = TRUE /\ admitted' = NoneAdmitted

\* dispatch, after the in-memory store has been asked and has recorded.
RecordLocally(r, c, w, t) ==
    /\ local' = [local EXCEPT ![w][c] = LocalAdded(@, t)]
    /\ Admit(c, w, t)
    /\ req' = [req EXCEPT ![r] = Fresh("admitted", c, w)]

\* The limit is reached: HTTPException 429, which leaves through the outer
\* middlewares.  Nothing is recorded.
Refuse(r) == req' = [req EXCEPT ![r] = Free]

-----------------------------------------------------------------------------
(* The rate limiter.                                                       *)

\* A path that _should_exclude: the limiter passes it on.
ArriveExcluded(r, c, w) ==
    /\ req[r].step = "free"
    /\ req' = [req EXCEPT ![r] = Fresh("admitted", c, w)]
    /\ UNCHANGED <<now, shared, context, mixed, limiter>>

\* With the store in memory nothing is awaited between the count and the record.
ArriveLocal(r, c, w) ==
    /\ req[r].step = "free"
    /\ ~shared
    /\ LocalCount(w, c, now) < MaxRequests
    /\ RecordLocally(r, c, w, now)
    /\ UNCHANGED <<now, shared, counts, deadline, context, lost, failures, mixed>>

\* With Redis the time is read and the counting starts at the current second.
ArriveShared(r, c, w) ==
    /\ req[r].step = "free"
    /\ shared
    /\ req' = [req EXCEPT ![r] = [Fresh("counting", c, w) EXCEPT !.time = now, !.second = now]]
    /\ UNCHANGED <<now, shared, context, mixed, limiter>>

\* One GET: the second is added, and after the last one the limit is judged.
Count(r) ==
    LET q == req[r]
        total == q.total + counts[q.client][q.second]
        last == q.second = q.time - Window + 1
    IN /\ q.step = "counting"
       /\ IF ~last THEN req' = [req EXCEPT ![r].total = total, ![r].second = @ - 1]
          ELSE IF total >= MaxRequests THEN Refuse(r)
          ELSE req' = [req EXCEPT ![r].step = "recording", ![r].total = 0, ![r].second = 0]
       /\ UNCHANGED <<now, shared, context, mixed, limiter>>

\* A command of Redis raises.
Fail == failures < MaxFailures /\ failures' = failures + 1 /\ Lose

\* A GET fails: the worker's own store is counted, from the start.
CountFails(r) ==
    /\ req[r].step = "counting"
    /\ IF LocalCount(req[r].worker, req[r].client, req[r].time) >= MaxRequests THEN Refuse(r)
       ELSE req' = [req EXCEPT ![r].step = "recording", ![r].total = 0, ![r].second = 0]
    /\ Fail
    /\ UNCHANGED <<now, shared, context, mixed, counts, deadline, local>>

\* INCR: the first one of a counter goes on to set its expiry.
Record(r) ==
    LET q == req[r] IN
    /\ q.step = "recording"
    /\ counts' = [counts EXCEPT ![q.client][q.time] = @ + 1]
    /\ Admit(q.client, Nobody, q.time)
    /\ IF counts[q.client][q.time] = 0
       THEN req' = [req EXCEPT ![r].step = "expiring"]
       ELSE req' = [req EXCEPT ![r].step = "admitted", ![r].time = 0]
    /\ UNCHANGED <<now, shared, context, mixed, deadline, local, lost, failures>>

\* Mutant: the counter lives as long as the window has left.
SetExpiryEarly(r) ==
    LET q == req[r] IN
    /\ q.step = "expiring"
    /\ deadline' = [deadline EXCEPT ![q.client][q.time] =
                      IF counts[q.client][q.time] > 0 THEN now + Life - 1 ELSE @]
    /\ req' = [req EXCEPT ![r].step = "admitted", ![r].time = 0]
    /\ UNCHANGED <<now, shared, context, mixed, counts, local, admitted, lost, failures>>

\* EXPIRE: 60 seconds from now, of the counter that was just created.
SetExpiry(r) ==
    LET q == req[r] IN
    /\ q.step = "expiring"
    /\ deadline' = [deadline EXCEPT ![q.client][q.time] =
                      IF counts[q.client][q.time] > 0 THEN now + Life ELSE @]
    /\ req' = [req EXCEPT ![r].step = "admitted", ![r].time = 0]
    /\ UNCHANGED <<now, shared, context, mixed, counts, local, admitted, lost, failures>>

\* INCR or EXPIRE fails: the worker's own store records the request; a counter
\* whose EXPIRE failed stays without one.
RecordFails(r) ==
    LET q == req[r] IN
    /\ q.step \in {"recording", "expiring"}
    /\ local' = [local EXCEPT ![q.worker][q.client] = LocalAdded(@, q.time)]
    /\ req' = [req EXCEPT ![r].step = "admitted", ![r].time = 0]
    /\ Fail
    /\ UNCHANGED <<now, shared, context, mixed, counts, deadline>>

Expired(c, s) == deadline[c][s] <= now + 1

\* A counter of the span that expires before a request in progress has read it.
Missed(r, s) ==
    /\ req[r].step = "counting"
    /\ s \in (req[r].time - Span + 1)..req[r].second
    /\ Expired(req[r].client, s)

\* A second passes; Redis drops the counters whose time has come.
Tick ==
    /\ now < MaxTime
    /\ now' = now + 1
    /\ counts' = [c \in Clients |->
                    [s \in Seconds |-> IF Expired(c, s) THEN 0 ELSE counts[c][s]]]
    /\ deadline' = [c \in Clients |->
                      [s \in Seconds |-> IF Expired(c, s) THEN Never ELSE deadline[c][s]]]
    /\ IF \E r \in Requests, s \in Seconds : Missed(r, s) THEN Lose ELSE UNCHANGED <<lost, admitted>>
    /\ UNCHANGED <<shared, local, context, req, failures, mixed>>

-----------------------------------------------------------------------------
(* The logging and error handling middlewares.                             *)

\* The contexts of a request: each of the two middlewares makes an id of its own.
Outer(r) == <<r, "logging">>
Inner(r) == <<r, "error_handler">>

InContext(r) == req[r].step \in {"logging", "handling", "handled"}

Others(r) == {o \in Requests \ {r} : InContext(o) /\ req[o].worker = req[r].worker}

\* LoggingMiddleware: the context is saved and set, "Request started" is logged.
\* Requests that are in it at once are not alone any more.
Start(r) ==
    LET w == req[r].worker IN
    /\ req[r].step = "admitted"
    /\ req' = [o \in Requests |->
                 IF o = r THEN [req[r] EXCEPT !.step = "logging", !.before = context[w],
                                              !.alone = (Others(r) = {})]
                 ELSE IF o \in Others(r) THEN [req[o] EXCEPT !.alone = FALSE] ELSE req[o]]
    /\ context' = [context EXCEPT ![w] = Outer(r)]
    /\ mixed' = [mixed EXCEPT ![w] = @ \/ Others(r) # {}]
    /\ UNCHANGED <<now, shared, limiter>>

\* ErrorHandlerMiddleware: likewise, with another id.
Enter(r) ==
    LET w == req[r].worker IN
    /\ req[r].step = "logging"
    /\ req' = [req EXCEPT ![r].step = "handling", ![r].between = context[w]]
    /\ context' = [context EXCEPT ![w] = Inner(r)]
    /\ UNCHANGED <<now, shared, mixed, limiter>>

ByReason ==
    [reason \in {"validation", "auth", "not_found", "conflict", "transient"} |->
       CASE reason = "validation" -> 400
         [] reason = "auth" -> 401
         [] reason = "not_found" -> 404
         [] reason = "conflict" -> 409
         [] reason = "transient" -> 503]

\* Mutant: an error of the platform without a status keeps it.
StatusOfNone(failure) ==
    IF failure.kind = "none" THEN 200
    ELSE IF failure.kind = "operation" /\ failure.reason \notin DOMAIN ByReason THEN failure.status
    ELSE 500

\* The status code of a response: for an OperationError by the reason, else the
\* platform's status (0 for none) or 500.  An HTTPException of a route is a response
\* by then.  For a DomainValidationError and a BaseAppException the middleware means
\* to answer by their reason too, but its call of the logger passes "message" a
\* second time: the TypeError leaves both middlewares, and the server answers 500.
Status(failure) ==
    CASE failure.kind = "none" -> 200
      [] failure.kind = "operation" /\ failure.reason \in DOMAIN ByReason ->
           ByReason[failure.reason]
      [] failure.kind = "operation" /\ failure.status # 0 -> failure.status
      [] OTHER -> 500

\* Mutant: the context is cleared, not restored.
LeaveCleared(r, failure) ==
    LET w == req[r].worker IN
    /\ req[r].step = "handling"
    /\ req' = [req EXCEPT ![r].step = "handled", ![r].between = Nobody,
                          ![r].status = Status(failure)]
    /\ context' = [context EXCEPT ![w] = Nobody]
    /\ UNCHANGED <<now, shared, mixed, limiter>>

\* The handler answers or fails: the failure becomes a response, or another
\* exception; either way the error handler restores the context it found.
Leave(r, failure) ==
    LET w == req[r].worker IN
    /\ req[r].step = "handling"
    /\ req' = [req EXCEPT ![r].step = "handled", ![r].between = Nobody,
                          ![r].status = Status(failure)]
    /\ context' = [context EXCEPT ![w] = req[r].between]
    /\ UNCHANGED <<now, shared, mixed, limiter>>

\* "Request completed" is logged and X-Request-ID set, or "Request failed" is logged
\* and the exception passed on; either way the context is restored.
Complete(r) ==
    /\ req[r].step = "handled"
    /\ context' = [context EXCEPT ![req[r].worker] = req[r].before]
    /\ req' = [req EXCEPT ![r] = Free]
    /\ UNCHANGED <<now, shared, mixed, limiter>>

Arrive(r) ==
    \E c \in Clients, w \in Workers :
        ArriveExcluded(r, c, w) \/ ArriveLocal(r, c, w) \/ ArriveShared(r, c, w)

Next ==
    \/ Tick
    \/ \E r \in Requests :
         \/ Arrive(r)
         \/ Count(r) \/ CountFails(r) \/ Record(r) \/ RecordFails(r) \/ SetExpiry(r)
         \/ Start(r) \/ Enter(r) \/ Complete(r)
         \/ \E failure \in Failures : Leave(r, failure)

Spec == Init /\ [][Next]_vars

-----------------------------------------------------------------------------
(* Properties.                                                             *)

Contexts == {Nobody} \union (Requests \X {"logging", "error_handler"})

RequestType ==
    [step : {"free", "counting", "recording", "expiring", "admitted",
             "logging", "handling", "handled"},
     client : Clients \union {Nobody}, worker : Workers \union {Nobody},
     time : 0..MaxTime, total : Nat, second : Seconds,
     status : 200..599, before : Contexts, between : Contexts, alone : BOOLEAN]

\* The variables keep their types; whatever a handler ends with, the status of the
\* answer is a code of HTTP, never the 0 of a platform that gave none.
TypeOK ==
    /\ now \in 0..MaxTime
    /\ shared \in BOOLEAN /\ lost \in BOOLEAN /\ failures \in 0..MaxFailures
    /\ counts \in [Clients -> [Seconds -> Nat]]
    /\ deadline \in [Clients -> [Seconds -> Nat]]
    /\ local \in [Workers -> [Clients -> [Seconds -> Nat]]]
    /\ context \in [Workers -> Contexts]
    /\ mixed \in [Workers -> BOOLEAN]
    /\ admitted \in [Clients -> [Stores -> [Seconds -> Nat]]]
    /\ req \in [Requests -> RequestType]

\* The seconds of the span that ends with a second.
SpanTo(t) == (t - Span + 1)..t

OvershootIsBounded ==
    \A c \in Clients, t \in 0..MaxTime :
        SumOver(admitted[c][Nobody], SpanTo(t)) <= MaxRequests + Cardinality(Requests) - 1

LocalIsExact ==
    \A c \in Clients, w \in Workers, t \in 0..MaxTime :
        SumOver(admitted[c][w], SpanTo(t)) <= MaxRequests

\* With Redis the requests that are counted at the same time can all be let
\* through, and no more than those: in every window a client gets at most the
\* limit and one for each further request that can be in progress.  Not so once a
\* command of Redis has failed (the counts are split between the stores then) or
\* a counter has expired under a request that had not read it yet.  With the
\* store in memory a worker never exceeds the limit in any window, whatever the
\* pruning of add_request has dropped.  A window of more than 60 s is not kept as
\* such: the limit then holds for every 60 s of it.
AdmissionsAreBounded == IF shared THEN ~lost => OvershootIsBounded ELSE LocalIsExact

\* What is logged during a request that met no other on its worker carries its
\* own ids, the logging middleware's outside and the error handler's inside;
\* and a worker that rests has no context left unless requests have met there.
ContextIsExplained ==
    /\ \A r \in Requests :
         InContext(r) /\ req[r].alone =>
             context[req[r].worker] = IF req[r].step = "handling" THEN Inner(r) ELSE Outer(r)
    /\ \A w \in Workers :
         (\A r \in Requests : InContext(r) => req[r].worker # w) /\ ~mixed[w]
             => context[w] = Nobody

-----------------------------------------------------------------------------
(* The inductive invariant behind TypeOK and ContextIsExplained: a request *)
(* that is alone has the context of its worker to itself, saves its own    *)
(* outer context when it enters the inner one, and, on a worker whose      *)
(* requests never met, has found no context.                               *)

Placed(r) ==
    /\ req[r].step # "free" => req[r].client \in Clients /\ req[r].worker \in Workers
    /\ req[r].step = "counting" =>
         req[r].second \in (req[r].time - Window + 1)..req[r].time

Alone(r) ==
    /\ req[r].step = "handling" => req[r].between = Outer(r)
    /\ Others(r) = {}

Met(r) ==
    /\ Others(r) # {} => mixed[req[r].worker]
    /\ ~mixed[req[r].worker] => req[r].before = Nobody

IInv ==
    /\ TypeOK
    /\ \A r \in Requests : Placed(r)
    /\ \A r \in Requests : InContext(r) => (req[r].alone => Alone(r)) /\ Met(r)
    /\ ContextIsExplained

-----------------------------------------------------------------------------
(* The inductive invariant behind AdmissionsAreBounded.  In memory: what   *)
(* is not a minute old is still there.  With Redis: a counter lives until  *)
(* its second has left every span that is yet to be counted, so that a     *)
(* request that arrives when the span is full finds it full; those that    *)
(* may still be let through into a full span have arrived before.          *)

InLimiter(r) == req[r].step \in {"counting", "recording", "expiring"}

LocalInv ==
    /\ ~lost /\ \A r \in Requests : ~InLimiter(r)
    /\ \A c \in Clients, w \in Workers, s \in Seconds :
         s > now - Life => admitted[c][w][s] <= local[w][c][s]

CountersInv ==
    \A c \in Clients, s \in Seconds :
        /\ s > now => counts[c][s] = 0 /\ admitted[c][Nobody][s] = 0
        /\ s \in SpanTo(now) => counts[c][s] = admitted[c][Nobody][s]

\* What a request will at least have counted of the span.
Expected(q) == q.total + SumOver(counts[q.client], (q.time - Span + 1)..q.second)

\* A request that may still be recorded in a span.
Enters(q, c, t) ==
    /\ q.client = c /\ q.time \in SpanTo(t)
    /\ q.step = "recording" \/ (q.step = "counting" /\ Expected(q) < MaxRequests)
Entrants(c, t) == {r \in Requests : Enters(req[r], c, t)}

FullWindowsInv ==
    \A c \in Clients, t \in 0..MaxTime :
        LET sum == SumOver(admitted[c][Nobody], SpanTo(t)) IN
        sum >= MaxRequests =>
            sum + Cardinality(Entrants(c, t)) <= MaxRequests + Cardinality(Requests) - 1

SharedInv ==
    /\ \A r \in Requests : InLimiter(r) => req[r].time <= now
    /\ \A c \in Clients, s \in Seconds : deadline[c][s] >= s + Life
    /\ ~lost => CountersInv /\ FullWindowsInv

AdmissionsInv == IF shared THEN SharedInv ELSE LocalInv
=============================================================================
