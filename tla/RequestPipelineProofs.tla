----------------------- MODULE RequestPipelineProofs -----------------------
(***************************************************************************)
(* Proofs about RequestPipeline: the types of its variables, what the      *)
(* logging context holds and how many requests the limiter lets through,   *)
(* for any finite set of requests, any clients, workers and failures, and  *)
(* any limit and window.                                                   *)
(***************************************************************************)
EXTENDS RequestPipeline, FiniteSetTheorems, TLAPS

USE DEF limiter

-----------------------------------------------------------------------------
(* Types.                                                                  *)

\* A second of the clock is one of those that counters have.
LEMMA SecondsType ==
    /\ Seconds \subseteq Int
    /\ 0..MaxTime \subseteq Seconds
    /\ 0 \in Seconds
    /\ \A t \in 0..MaxTime : (t - Window + 1)..t \subseteq Seconds
BY LimitAssumption, BoundsAssumption DEF Seconds

\* The span is what the stores keep of the window.
LEMMA SpanIsShort == Span \in Nat \ {0} /\ Span <= Window /\ Span <= Life
BY LimitAssumption, LifeAssumption DEF Span

\* What a request in progress is, by itself.
Sound(q) ==
    /\ q \in RequestType
    /\ q.step # "free" => q.client \in Clients /\ q.worker \in Workers
    /\ q.step = "counting" => q.second \in (q.time - Window + 1)..q.time

\* A slot without a request.
LEMMA FreeSound == Sound(Free)
BY SecondsType, BoundsAssumption DEF Sound, RequestType, Free, Fresh, Contexts

\* A request that has been let through, or passed on.
LEMMA FreshSound ==
    ASSUME NEW c \in Clients, NEW w \in Workers
    PROVE  Sound(Fresh("admitted", c, w))
BY SecondsType, BoundsAssumption DEF Sound, RequestType, Fresh, Contexts

\* One request changes, into a sound one.
LEMMA RequestStep ==
    ASSUME IInv, NEW r \in Requests, NEW q, Sound(q), req' = [req EXCEPT ![r] = q]
    PROVE  req' \in [Requests -> RequestType] /\ \A o \in Requests : Placed(o)'
<1>1. req \in [Requests -> RequestType] /\ q \in RequestType
  BY DEF IInv, TypeOK, Sound
<1>2. ASSUME NEW o \in Requests
      PROVE  Placed(o)'
  <2>1. CASE o = r
    BY <1>1, <2>1 DEF Sound, Placed
  <2>2. CASE o # r
    <3>1. req'[o] = req[o] /\ Placed(o)
      BY <1>1, <2>2 DEF IInv
    <3> QED
      BY <3>1 DEF Placed
  <2> QED
    BY <2>1, <2>2
<1> QED
  BY <1>1, <1>2

\* A request in progress is sound.
LEMMA RequestSound ==
    ASSUME IInv, NEW r \in Requests
    PROVE  Sound(req[r])
BY DEF IInv, TypeOK, Placed, Sound

\* The fields of a request that is past its arrival.
LEMMA RequestFields ==
    ASSUME IInv, NEW r \in Requests, req[r].step # "free"
    PROVE  /\ req[r].client \in Clients
           /\ req[r].worker \in Workers
           /\ req[r].time \in 0..MaxTime
           /\ req[r].time \in Seconds
           /\ req[r].second \in Seconds
           /\ req[r].total \in Nat
BY RequestSound, SecondsType DEF Sound, RequestType

\* A counter of the worker's own store, with one request more.
LEMMA LocalAddedType ==
    ASSUME NEW f \in [Seconds -> Nat], NEW t
    PROVE  LocalAdded(f, t) \in [Seconds -> Nat]
<1>1. ASSUME NEW s \in Seconds
      PROVE  (IF s > t - Life THEN f[s] ELSE 0) + (IF s = t THEN 1 ELSE 0) \in Nat
  OBVIOUS
<1> QED
  BY <1>1 DEF LocalAdded

\* The history of admissions, with one more or forgotten.
LEMMA AdmitType ==
    ASSUME TypeOK, NEW c \in Clients, NEW w \in Stores, NEW t \in Seconds, Admit(c, w, t)
    PROVE  admitted' \in [Clients -> [Stores -> [Seconds -> Nat]]]
<1>1. admitted \in [Clients -> [Stores -> [Seconds -> Nat]]]
  BY DEF TypeOK
<1>2. [admitted[c][w] EXCEPT ![t] = @ + 1] \in [Seconds -> Nat]
  BY <1>1
<1>3. [admitted EXCEPT ![c][w][t] = @ + 1] \in [Clients -> [Stores -> [Seconds -> Nat]]]
  BY <1>1, <1>2
<1> QED
  BY <1>1, <1>3 DEF Admit

LEMMA NoneAdmittedType == NoneAdmitted \in [Clients -> [Stores -> [Seconds -> Nat]]]
BY DEF NoneAdmitted, Nothing

\* One own store changes.
LEMMA LocalType ==
    ASSUME TypeOK, NEW c \in Clients, NEW w \in Workers, NEW t,
           local' = [local EXCEPT ![w][c] = LocalAdded(@, t)]
    PROVE  local' \in [Workers -> [Clients -> [Seconds -> Nat]]]
<1>1. local \in [Workers -> [Clients -> [Seconds -> Nat]]]
  BY DEF TypeOK
<1>2. LocalAdded(local[w][c], t) \in [Seconds -> Nat]
  BY <1>1, LocalAddedType
<1> QED
  BY <1>1, <1>2

\* The status of a response is one of HTTP's.
LEMMA StatusType ==
    ASSUME NEW failure \in Failures
    PROVE  Status(failure) \in 200..599
<1>1. failure.status \in {0} \union 400..599
  BY FailuresAssumption
<1>2. \A reason \in DOMAIN ByReason : ByReason[reason] \in 400..599
  BY DEF ByReason
<1> HIDE DEF ByReason
<1> QED
  BY <1>1, <1>2 DEF Status

\* The types and what holds of each request, at first.
LEMMA InitType == Init => TypeOK /\ \A r \in Requests : Placed(r)
<1> SUFFICES ASSUME Init PROVE TypeOK /\ \A r \in Requests : Placed(r)
  OBVIOUS
<1>1. \A r \in Requests : req[r] = Free
  BY DEF Init
<1>2. req \in [Requests -> RequestType] /\ \A r \in Requests : Placed(r)
  BY <1>1, FreeSound DEF Init, Sound, Placed
<1>3. Never \in Nat
  BY BoundsAssumption, LifeAssumption DEF Never
<1>4. deadline \in [Clients -> [Seconds -> Nat]]
  BY <1>3 DEF Init
<1>5. counts \in [Clients -> [Seconds -> Nat]] /\ local \in [Workers -> [Clients -> [Seconds -> Nat]]]
  BY DEF Init, Nothing
<1>6. admitted \in [Clients -> [Stores -> [Seconds -> Nat]]]
  BY NoneAdmittedType DEF Init
<1>7. context \in [Workers -> Contexts] /\ mixed \in [Workers -> BOOLEAN]
  BY DEF Init, Contexts
<1>8. now \in 0..MaxTime /\ failures \in 0..MaxFailures
  BY BoundsAssumption DEF Init
<1>9. shared \in BOOLEAN /\ lost \in BOOLEAN
  BY DEF Init
<1> QED
  BY <1>2, <1>4, <1>5, <1>6, <1>7, <1>8, <1>9 DEF TypeOK

\* What the store in memory does keeps the types.
LEMMA LocalSteps ==
    ASSUME IInv, NEW r \in Requests, NEW c \in Clients, NEW w \in Workers,
           ArriveExcluded(r, c, w) \/ ArriveLocal(r, c, w) \/ ArriveShared(r, c, w)
    PROVE  TypeOK' /\ \A o \in Requests : Placed(o)'
<1>0. TypeOK
  BY DEF IInv
<1>1. CASE ArriveExcluded(r, c, w)
  <2>1. req' \in [Requests -> RequestType] /\ \A o \in Requests : Placed(o)'
    BY <1>1, FreshSound, RequestStep DEF ArriveExcluded
  <2> QED
    BY <1>0, <1>1, <2>1 DEF ArriveExcluded, TypeOK, limiter
<1>2. CASE ArriveLocal(r, c, w)
  <2>1. req' \in [Requests -> RequestType] /\ \A o \in Requests : Placed(o)'
    BY <1>2, FreshSound, RequestStep DEF ArriveLocal, RecordLocally
  <2>2. now \in Seconds
    BY <1>0, SecondsType DEF TypeOK
  <2>3. local' \in [Workers -> [Clients -> [Seconds -> Nat]]]
    BY <1>0, <1>2, LocalType DEF ArriveLocal, RecordLocally
  <2>4. admitted' \in [Clients -> [Stores -> [Seconds -> Nat]]]
    BY <1>0, <1>2, <2>2, AdmitType DEF ArriveLocal, RecordLocally, Stores
  <2> QED
    BY <1>0, <1>2, <2>1, <2>3, <2>4 DEF ArriveLocal, TypeOK
<1>3. CASE ArriveShared(r, c, w)
  <2> DEFINE q == [Fresh("counting", c, w) EXCEPT !.time = now, !.second = now]
  <2>1. now \in 0..MaxTime /\ now \in Seconds /\ now \in (now - Window + 1)..now
    BY <1>0, SecondsType, LimitAssumption DEF TypeOK
  <2>2. Sound(q)
    <3>1. Fresh("counting", c, w) \in RequestType
      BY SecondsType, BoundsAssumption DEF RequestType, Fresh, Contexts
    <3>2. q \in RequestType
      BY <2>1, <3>1 DEF RequestType
    <3>3. q.step = "counting" /\ q.client = c /\ q.worker = w /\ q.time = now /\ q.second = now
      BY DEF Fresh
    <3> QED
      BY <2>1, <3>2, <3>3 DEF Sound
  <2>3. req' = [req EXCEPT ![r] = q]
    BY <1>3 DEF ArriveShared
  <2> HIDE DEF q
  <2>4. req' \in [Requests -> RequestType] /\ \A o \in Requests : Placed(o)'
    BY <2>2, <2>3, RequestStep
  <2> QED
    BY <1>0, <1>3, <2>4 DEF ArriveShared, TypeOK, limiter
<1> QED
  BY <1>1, <1>2, <1>3

\* A failure of Redis keeps the types of what it counts.
LEMMA FailType ==
    ASSUME TypeOK, Fail
    PROVE  /\ failures' \in 0..MaxFailures /\ lost' \in BOOLEAN
           /\ admitted' \in [Clients -> [Stores -> [Seconds -> Nat]]]
<1>1. failures' \in 0..MaxFailures
  BY BoundsAssumption DEF TypeOK, Fail
<1>2. lost' \in BOOLEAN
  BY DEF Fail, Lose
<1>3. admitted' \in [Clients -> [Stores -> [Seconds -> Nat]]]
  BY NoneAdmittedType DEF Fail, Lose
<1> QED
  BY <1>1, <1>2, <1>3

\* What the store in Redis does keeps the types.
LEMMA SharedSteps ==
    ASSUME IInv, NEW r \in Requests,
           Count(r) \/ CountFails(r) \/ Record(r) \/ RecordFails(r) \/ SetExpiry(r)
    PROVE  TypeOK' /\ \A o \in Requests : Placed(o)'
<1>0. TypeOK /\ Sound(req[r])
  BY RequestSound DEF IInv
<1> DEFINE Moved(q) == Sound(q) /\ req' = [req EXCEPT ![r] = q]
           Typed == req' \in [Requests -> RequestType] /\ \A o \in Requests : Placed(o)'
<1>1. ASSUME NEW q, Moved(q) PROVE Typed
  BY <1>1, RequestStep
<1>2. ASSUME req[r].step # "free", NEW s \in {"recording", "expiring", "admitted"},
             \/ req' = [req EXCEPT ![r].step = s]
             \/ req' = [req EXCEPT ![r].step = s, ![r].time = 0]
             \/ req' = [req EXCEPT ![r].step = s, ![r].total = 0, ![r].second = 0]
      PROVE  Typed
  <2> DEFINE q1 == [req[r] EXCEPT !.step = s]
             q2 == [req[r] EXCEPT !.step = s, !.time = 0]
             q3 == [req[r] EXCEPT !.step = s, !.total = 0, !.second = 0]
  <2>1. Sound(q1) /\ Sound(q2) /\ Sound(q3)
    <3>1. req[r] \in RequestType /\ req[r].client \in Clients /\ req[r].worker \in Workers
      BY <1>0, <1>2 DEF Sound
    <3>2. 0 \in Seconds /\ 0 \in 0..MaxTime
      BY SecondsType, BoundsAssumption
    <3>3. q1 \in RequestType /\ q2 \in RequestType /\ q3 \in RequestType
      <4>1. q1 \in RequestType
        BY <3>1 DEF RequestType
      <4>2. q2 \in RequestType
        BY <3>1, <3>2 DEF RequestType
      <4>3. q3 \in RequestType
        BY <3>1, <3>2 DEF RequestType
      <4> QED
        BY <4>1, <4>2, <4>3
    <3>4. \A q \in {q1, q2, q3} :
            q.step = s /\ q.client = req[r].client /\ q.worker = req[r].worker
      BY <3>1 DEF RequestType
    <3> HIDE DEF q1, q2, q3
    <3> QED
      BY <3>1, <3>3, <3>4 DEF Sound
  <2>2. \/ req' = [req EXCEPT ![r] = q1]
        \/ req' = [req EXCEPT ![r] = q2]
        \/ req' = [req EXCEPT ![r] = q3]
    BY <1>2
  <2> HIDE DEF q1, q2, q3
  <2> QED
    BY <1>1, <2>1, <2>2
<1>3. ASSUME Refuse(r) PROVE Typed
  BY <1>1, <1>3, FreeSound DEF Refuse
<1> HIDE DEF Typed, Moved
<1>4. CASE Count(r)
  <2> DEFINE total == req[r].total + counts[req[r].client][req[r].second]
             q == [req[r] EXCEPT !.total = total, !.second = @ - 1]
  <2>1. req[r].step = "counting"
    BY <1>4 DEF Count
  <2>2. total \in Nat
    <3>1. counts \in [Clients -> [Seconds -> Nat]]
      BY <1>0 DEF TypeOK
    <3>2. req[r].client \in Clients /\ req[r].second \in Seconds /\ req[r].total \in Nat
      BY <2>1, RequestFields
    <3>3. counts[req[r].client][req[r].second] \in Nat
      BY <3>1, <3>2
    <3> QED
      BY <3>2, <3>3
  <2> HIDE DEF total
  <2>3. ASSUME req[r].second # req[r].time - Window + 1 PROVE Typed
    <3>1. req[r].second - 1 \in (req[r].time - Window + 1)..req[r].time
      BY <1>0, <2>1, <2>3, LimitAssumption DEF Sound, RequestType
    <3>2. req[r].second - 1 \in Seconds
      BY <2>1, <3>1, RequestFields, SecondsType
    <3>3. Sound(q)
      <4>1. req[r] \in RequestType /\ req[r].client \in Clients /\ req[r].worker \in Workers
        BY <1>0, <2>1 DEF Sound
      <4>2. q \in RequestType
        BY <2>2, <3>2, <4>1 DEF RequestType
      <4>3. /\ q.client = req[r].client /\ q.worker = req[r].worker /\ q.time = req[r].time
            /\ q.second = req[r].second - 1
        BY <4>1 DEF RequestType
      <4> HIDE DEF q
      <4> QED
        BY <3>1, <4>1, <4>2, <4>3 DEF Sound
    <3>4. req' = [req EXCEPT ![r] = q]
      BY <1>4, <2>3 DEF Count, total
    <3> HIDE DEF q
    <3> QED
      BY <1>1, <3>3, <3>4 DEF Moved
  <2>4. ASSUME req[r].second = req[r].time - Window + 1 PROVE Typed
    <3>1. \/ Refuse(r)
          \/ req' = [req EXCEPT ![r].step = "recording", ![r].total = 0, ![r].second = 0]
      BY <1>4, <2>4 DEF Count
    <3> QED
      BY <1>2, <1>3, <2>1, <3>1
  <2>5. Typed
    BY <2>3, <2>4
  <2> QED
    BY <1>0, <1>4, <2>5 DEF Count, TypeOK, Typed
<1>5. CASE CountFails(r)
  <2>1. Typed
    BY <1>2, <1>3, <1>5 DEF CountFails
  <2> QED
    BY <1>0, <1>5, <2>1, FailType DEF CountFails, TypeOK, Typed
<1>6. CASE Record(r)
  <2> DEFINE c == req[r].client
             t == req[r].time
  <2>1. Typed
    BY <1>2, <1>6 DEF Record
  <2>2. c \in Clients /\ req[r].worker \in Workers /\ t \in Seconds
    BY <1>6, RequestFields DEF Record
  <2>3. admitted' \in [Clients -> [Stores -> [Seconds -> Nat]]]
    BY <1>0, <1>6, <2>2, AdmitType DEF Record, Stores
  <2>4. counts' \in [Clients -> [Seconds -> Nat]]
    <3>1. [counts[c] EXCEPT ![t] = @ + 1] \in [Seconds -> Nat]
      BY <1>0, <2>2 DEF TypeOK
    <3>2. counts' = [counts EXCEPT ![c][t] = @ + 1]
      BY <1>6 DEF Record
    <3> HIDE DEF c, t
    <3> QED
      BY <1>0, <2>2, <3>1, <3>2 DEF TypeOK
  <2> QED
    BY <1>0, <1>6, <2>1, <2>3, <2>4 DEF Record, TypeOK, Typed
<1>7. CASE RecordFails(r)
  <2>1. Typed
    BY <1>2, <1>7 DEF RecordFails
  <2>2. local' \in [Workers -> [Clients -> [Seconds -> Nat]]]
    BY <1>0, <1>7, RequestFields, LocalType DEF RecordFails
  <2> QED
    BY <1>0, <1>7, <2>1, <2>2, FailType DEF RecordFails, TypeOK, Typed
<1>8. CASE SetExpiry(r)
  <2> DEFINE c == req[r].client
             t == req[r].time
             d == IF counts[c][t] > 0 THEN now + Life ELSE deadline[c][t]
  <2>1. Typed
    BY <1>2, <1>8 DEF SetExpiry
  <2>2. c \in Clients /\ t \in Seconds
    BY <1>8, RequestFields DEF SetExpiry
  <2>3. d \in Nat
    BY <1>0, <2>2, LifeAssumption, BoundsAssumption DEF TypeOK
  <2>4. deadline' = [deadline EXCEPT ![c][t] = d]
    BY <1>8 DEF SetExpiry
  <2>5. deadline' \in [Clients -> [Seconds -> Nat]]
    <3> HIDE DEF c, t, d
    <3>1. [deadline[c] EXCEPT ![t] = d] \in [Seconds -> Nat]
      BY <1>0, <2>2, <2>3 DEF TypeOK
    <3> QED
      BY <1>0, <2>2, <2>4, <3>1 DEF TypeOK
  <2> QED
    BY <1>0, <1>8, <2>1, <2>5 DEF SetExpiry, TypeOK, Typed
<1> QED
  BY <1>4, <1>5, <1>6, <1>7, <1>8

\* So does a second that passes.
LEMMA TickType ==
    ASSUME IInv, Tick
    PROVE  TypeOK' /\ \A o \in Requests : Placed(o)'
<1>0. TypeOK
  BY DEF IInv
<1>1. counts' \in [Clients -> [Seconds -> Nat]]
  BY <1>0 DEF Tick, TypeOK
<1>2. Never \in Nat
  BY BoundsAssumption, LifeAssumption DEF Never
<1>3. deadline' \in [Clients -> [Seconds -> Nat]]
  BY <1>0, <1>2 DEF Tick, TypeOK
<1>4. admitted' \in [Clients -> [Stores -> [Seconds -> Nat]]]
  BY <1>0, NoneAdmittedType DEF Tick, Lose, TypeOK
<1>5. lost' \in BOOLEAN
  BY <1>0 DEF Tick, Lose, TypeOK
<1>6. now' \in 0..MaxTime
  BY <1>0, BoundsAssumption DEF Tick, TypeOK
<1>7. \A o \in Requests : Placed(o)'
  BY DEF Tick, IInv, Placed
<1> QED
  BY <1>0, <1>1, <1>3, <1>4, <1>5, <1>6, <1>7 DEF Tick, TypeOK

-----------------------------------------------------------------------------
(* The logging context.                                                    *)

\* What IInv says of the contexts of the requests.
ContextInv ==
    /\ \A r \in Requests : InContext(r) => (req[r].alone => Alone(r)) /\ Met(r)
    /\ ContextIsExplained

\* Requests that the logging middleware has not seen or has done with have no
\* part in it: nor has what they do.
LEMMA OutsideStep ==
    ASSUME IInv, UNCHANGED <<context, mixed>>,
           \A o \in Requests : InContext(o)' <=> InContext(o),
           \A o \in Requests : InContext(o) => req'[o] = req[o]
    PROVE  ContextInv'
<1>1. ASSUME NEW o \in Requests, InContext(o)
      PROVE  Others(o)' = Others(o) /\ req'[o] = req[o]
  BY <1>1 DEF Others
<1>2. ASSUME NEW o \in Requests, InContext(o)'
      PROVE  (req'[o].alone => Alone(o)') /\ Met(o)'
  BY <1>1, <1>2 DEF IInv, Alone, Met
<1>3. ContextIsExplained'
  BY <1>1 DEF IInv, ContextIsExplained
<1> QED
  BY <1>2, <1>3 DEF ContextInv

\* The steps of the rate limiter and of the clock.
LEMMA LimiterStep ==
    ASSUME IInv, NEW r \in Requests, Arrive(r) \/ Count(r) \/ CountFails(r) \/ Record(r)
             \/ RecordFails(r) \/ SetExpiry(r)
    PROVE  ContextInv'
<1>1. req \in [Requests -> RequestType]
  BY DEF IInv, TypeOK
<1>2. /\ ~InContext(r) /\ UNCHANGED <<context, mixed>>
      /\ \A o \in Requests : o # r => req'[o] = req[o]
  BY <1>1 DEF Arrive, ArriveExcluded, ArriveLocal, RecordLocally, ArriveShared, Count, Refuse,
     CountFails, Record, RecordFails, SetExpiry, InContext
<1>3. req'[r].step \in {"free", "admitted", "counting", "recording", "expiring"}
  <2>1. CASE Arrive(r)
    <3>1. PICK c \in Clients, w \in Workers :
            ArriveExcluded(r, c, w) \/ ArriveLocal(r, c, w) \/ ArriveShared(r, c, w)
      BY <2>1 DEF Arrive
    <3>2. \/ req'[r] = Fresh("admitted", c, w)
          \/ req'[r] = [Fresh("counting", c, w) EXCEPT !.time = now, !.second = now]
      BY <1>1, <3>1 DEF ArriveExcluded, ArriveLocal, RecordLocally, ArriveShared
    <3>3. Fresh("admitted", c, w).step = "admitted"
      BY DEF Fresh
    <3>4. [Fresh("counting", c, w) EXCEPT !.time = now, !.second = now].step = "counting"
      BY DEF Fresh
    <3> QED
      BY <3>2, <3>3, <3>4
  <2>2. CASE Count(r)
    <3>1. req[r].step = "counting"
      BY <2>2 DEF Count
    <3>2. CASE Refuse(r)
      BY <1>1, <3>2 DEF Refuse, Free, Fresh
    <3>3. CASE ~Refuse(r)
      BY <1>1, <2>2, <3>1, <3>3 DEF Count, RequestType
    <3> QED
      BY <3>2, <3>3
  <2>3. CASE CountFails(r)
    <3>1. CASE Refuse(r)
      BY <1>1, <3>1 DEF Refuse, Free, Fresh
    <3>2. CASE ~Refuse(r)
      BY <1>1, <2>3, <3>2 DEF CountFails, RequestType
    <3> QED
      BY <3>1, <3>2
  <2>4. CASE Record(r)
    BY <1>1, <2>4 DEF Record, RequestType
  <2>5. CASE RecordFails(r) \/ SetExpiry(r)
    BY <1>1, <2>5 DEF RecordFails, SetExpiry, RequestType
  <2> QED
    BY <2>1, <2>2, <2>3, <2>4, <2>5
<1>4. \A o \in Requests : InContext(o)' <=> InContext(o)
  BY <1>2, <1>3 DEF InContext
<1> QED
  BY <1>2, <1>4, OutsideStep

\* A request on its way through the two middlewares changes its own state and
\* the context of its worker.
LEMMA InsideStep ==
    ASSUME IInv, NEW r \in Requests, InContext(r), UNCHANGED mixed,
           NEW q \in RequestType, req' = [req EXCEPT ![r] = q],
           q.step \in {"logging", "handling", "handled"},
           q.worker = req[r].worker, q.alone = req[r].alone, q.before = req[r].before,
           NEW x, context' = [context EXCEPT ![q.worker] = x],
           q.alone => x = (IF q.step = "handling" THEN Inner(r) ELSE Outer(r)),
           q.alone /\ q.step = "handling" => q.between = Outer(r)
    PROVE  ContextInv'
<1>1. req \in [Requests -> RequestType] /\ context \in [Workers -> Contexts]
      /\ q.worker \in Workers
  BY DEF IInv, TypeOK, Placed, InContext
<1>2. req'[r] = q /\ \A o \in Requests : o # r => req'[o] = req[o]
  BY <1>1
<1>3. \A o \in Requests : (InContext(o)' <=> InContext(o)) /\ req'[o].worker = req[o].worker
  BY <1>2 DEF InContext
<1>4. \A o \in Requests : Others(o)' = Others(o)
  BY <1>3 DEF Others
<1>5. ASSUME NEW o \in Requests, InContext(o), o # r, req[o].alone
      PROVE  req[o].worker # q.worker
  BY <1>5 DEF IInv, Alone, Others
<1>6. ASSUME NEW o \in Requests, InContext(o)'
      PROVE  (req'[o].alone => Alone(o)') /\ Met(o)'
  <2>1. InContext(o) /\ Met(o) /\ (req[o].alone => Alone(o))
    BY <1>3, <1>6 DEF IInv
  <2>2. CASE o = r
    BY <1>2, <1>4, <2>1, <2>2 DEF Alone, Met, Outer
  <2>3. CASE o # r
    BY <1>2, <1>4, <2>1, <2>3 DEF Alone, Met, Outer
  <2> QED
    BY <2>2, <2>3
<1>7. ASSUME NEW o \in Requests, InContext(o)', req'[o].alone
      PROVE  context'[req'[o].worker] = IF req'[o].step = "handling" THEN Inner(o) ELSE Outer(o)
  <2>1. CASE o = r
    BY <1>1, <1>2, <1>7, <2>1
  <2>2. CASE o # r
    <3>1. InContext(o) /\ req'[o] = req[o] /\ req[o].alone
      BY <1>2, <1>3, <1>7, <2>2
    <3>2. context'[req[o].worker] = context[req[o].worker]
      BY <1>1, <1>5, <2>2, <3>1
    <3> QED
      BY <3>1, <3>2 DEF IInv, ContextIsExplained
  <2> QED
    BY <2>1, <2>2
<1>8. ASSUME NEW w \in Workers, ~mixed'[w],
             \A o \in Requests : InContext(o)' => req'[o].worker # w
      PROVE  context'[w] = Nobody
  <2>1. w # q.worker
    BY <1>2, <1>3, <1>8
  <2>2. context[w] = Nobody
    BY <1>3, <1>8 DEF IInv, ContextIsExplained
  <2> QED
    BY <1>1, <2>1, <2>2
<1> QED
  BY <1>6, <1>7, <1>8 DEF ContextInv, ContextIsExplained, Inner, Outer

\* The error handler's context, and the end of it.
LEMMA EnterStep ==
    ASSUME IInv, NEW r \in Requests, Enter(r)
    PROVE  ContextInv'
<1> DEFINE w == req[r].worker
           q == [req[r] EXCEPT !.step = "handling", !.between = context[w]]
<1>1. InContext(r) /\ req[r] \in RequestType /\ w \in Workers /\ context[w] \in Contexts
  BY DEF Enter, InContext, IInv, TypeOK, Placed
<1>2. q \in RequestType
  BY <1>1 DEF RequestType
<1>3. /\ q.step = "handling" /\ q.worker = w /\ q.alone = req[r].alone
      /\ q.before = req[r].before /\ q.between = context[w]
  BY <1>1 DEF RequestType
<1>4. req[r].alone => context[w] = Outer(r)
  BY <1>1 DEF Enter, IInv, ContextIsExplained
<1>5. req' = [req EXCEPT ![r] = q] /\ context' = [context EXCEPT ![w] = Inner(r)] /\ UNCHANGED mixed
  BY DEF Enter
<1> HIDE DEF q, w
<1> QED
  BY <1>1, <1>2, <1>3, <1>4, <1>5, InsideStep DEF w

LEMMA LeaveStep ==
    ASSUME IInv, NEW r \in Requests, NEW failure \in Failures, Leave(r, failure)
    PROVE  ContextInv'
<1> DEFINE w == req[r].worker
           q == [req[r] EXCEPT !.step = "handled", !.between = Nobody, !.status = Status(failure)]
<1>1. InContext(r) /\ req[r] \in RequestType /\ w \in Workers
  BY DEF Leave, InContext, IInv, TypeOK, Placed
<1>2. q \in RequestType
  <2>1. Nobody \in Contexts /\ Status(failure) \in 200..599
    BY StatusType DEF Contexts
  <2> QED
    BY <1>1, <2>1 DEF RequestType
<1>3. /\ q.step = "handled" /\ q.worker = w /\ q.alone = req[r].alone
      /\ q.before = req[r].before
  BY <1>1 DEF RequestType
<1>4. req[r].alone => req[r].between = Outer(r)
  BY <1>1 DEF Leave, IInv, Alone
<1>5. req' = [req EXCEPT ![r] = q] /\ context' = [context EXCEPT ![w] = req[r].between]
      /\ UNCHANGED mixed
  BY DEF Leave
<1> HIDE DEF q, w
<1> QED
  BY <1>1, <1>2, <1>3, <1>4, <1>5, InsideStep DEF w

\* The logging middleware's context: it is the first of its worker, or those
\* that are there have met it.
LEMMA StartStep ==
    ASSUME IInv, NEW r \in Requests, Start(r)
    PROVE  ContextInv'
<1> DEFINE w == req[r].worker
           q == [req[r] EXCEPT !.step = "logging", !.before = context[w], !.alone = (Others(r) = {})]
<1>1. /\ req[r] \in RequestType /\ w \in Workers /\ ~InContext(r)
      /\ req \in [Requests -> RequestType]
      /\ context \in [Workers -> Contexts] /\ mixed \in [Workers -> BOOLEAN]
  BY DEF Start, InContext, IInv, TypeOK, Placed
<1>2. /\ q.step = "logging" /\ q.worker = w /\ q.alone = (Others(r) = {}) /\ q.before = context[w]
  BY <1>1 DEF RequestType
<1>3. /\ req'[r] = q
      /\ \A o \in Others(r) : req'[o] = [req[o] EXCEPT !.alone = FALSE]
      /\ \A o \in Requests : o # r /\ o \notin Others(r) => req'[o] = req[o]
      /\ context' = [context EXCEPT ![w] = Outer(r)]
      /\ mixed' = [mixed EXCEPT ![w] = @ \/ Others(r) # {}]
  BY DEF Start, Others
<1> HIDE DEF q
<1>4. \A o \in Others(r) :
        /\ req'[o].step = req[o].step /\ req'[o].worker = w /\ req'[o].alone = FALSE
        /\ req'[o].before = req[o].before
  <2> SUFFICES ASSUME NEW o \in Others(r)
               PROVE  /\ req'[o].step = req[o].step /\ req'[o].worker = w
                      /\ req'[o].alone = FALSE /\ req'[o].before = req[o].before
    OBVIOUS
  <2>1. req[o] \in RequestType /\ req[o].worker = w
    BY <1>1 DEF Others
  <2>2. req'[o] = [req[o] EXCEPT !.alone = FALSE]
    BY <1>3
  <2> QED
    BY <2>1, <2>2 DEF RequestType
<1>5. ASSUME NEW o \in Requests, o # r
      PROVE  /\ req'[o].step = req[o].step /\ req'[o].worker = req[o].worker
             /\ req'[o].before = req[o].before
             /\ req'[o].alone => req'[o] = req[o] /\ o \notin Others(r)
  BY <1>3, <1>4, <1>5 DEF Others
<1>6. InContext(r)' /\ req'[r].worker = w
      /\ \A o \in Requests : o # r => (InContext(o)' <=> InContext(o))
  BY <1>2, <1>3, <1>5 DEF InContext
<1>7. Others(r)' = Others(r)
  BY <1>2, <1>3, <1>5, <1>6 DEF Others
<1>8. ASSUME NEW o \in Requests, InContext(o), o # r, req[o].worker # w
      PROVE  Others(o)' = Others(o)
  BY <1>5, <1>6, <1>8 DEF Others
<1>9. \A o \in Requests : InContext(o) /\ o # r /\ req[o].worker = w <=> o \in Others(r)
  BY <1>1 DEF Others
<1>10. Others(r) = {} /\ ~mixed[w] => context[w] = Nobody
  BY <1>1, <1>9 DEF IInv, ContextIsExplained
<1>11. /\ Others(r) # {} => mixed'[w]
       /\ mixed[w] => mixed'[w]
       /\ \A v \in Workers : v # w => mixed'[v] = mixed[v] /\ context'[v] = context[v]
       /\ context'[w] = Outer(r)
  BY <1>1, <1>3
<1> HIDE DEF w
<1>12. ASSUME NEW o \in Requests, InContext(o)'
       PROVE  (req'[o].alone => Alone(o)') /\ Met(o)'
  <2>1. CASE o = r
    BY <1>2, <1>3, <1>7, <1>10, <1>11, <2>1 DEF Alone, Met
  <2>2. CASE o \in Others(r)
    BY <1>4, <1>11, <2>2 DEF Alone, Met
  <2>3. CASE o # r /\ o \notin Others(r)
    <3>1. InContext(o) /\ req[o].worker # w /\ req'[o] = req[o] /\ req[o].worker \in Workers
      BY <1>3, <1>6, <1>9, <1>12, <2>3 DEF IInv, Placed, InContext
    <3>2. Others(o)' = Others(o) /\ mixed'[req[o].worker] = mixed[req[o].worker]
      BY <1>8, <1>11, <2>3, <3>1
    <3> QED
      BY <3>1, <3>2 DEF IInv, Alone, Met, Outer
  <2> QED
    BY <2>1, <2>2, <2>3
<1>13. ASSUME NEW o \in Requests, InContext(o)', req'[o].alone
       PROVE  context'[req'[o].worker] = IF req'[o].step = "handling" THEN Inner(o) ELSE Outer(o)
  <2>1. CASE o = r
    BY <1>2, <1>3, <1>6, <1>11, <2>1
  <2>2. CASE o # r
    <3>1. InContext(o) /\ req'[o] = req[o] /\ req[o].worker # w /\ req[o].worker \in Workers
      BY <1>5, <1>6, <1>9, <1>13, <2>2 DEF IInv, Placed, InContext
    <3> QED
      BY <1>11, <1>13, <3>1 DEF IInv, ContextIsExplained
  <2> QED
    BY <2>1, <2>2
<1>14. ASSUME NEW v \in Workers, ~mixed'[v],
              \A o \in Requests : InContext(o)' => req'[o].worker # v
       PROVE  context'[v] = Nobody
  <2>1. v # w
    BY <1>6, <1>14
  <2>2. \A o \in Requests : InContext(o) => req[o].worker # v
    BY <1>1, <1>5, <1>6, <1>14
  <2> QED
    BY <1>11, <1>14, <2>1, <2>2 DEF IInv, ContextIsExplained
<1> QED
  BY <1>12, <1>13, <1>14 DEF ContextInv, ContextIsExplained, Inner, Outer

\* The end of a request: its worker has the context it found.
LEMMA CompleteStep ==
    ASSUME IInv, NEW r \in Requests, Complete(r)
    PROVE  ContextInv'
<1> DEFINE w == req[r].worker
<1>1. /\ w \in Workers /\ InContext(r)
      /\ req \in [Requests -> RequestType]
      /\ context \in [Workers -> Contexts]
  BY DEF Complete, InContext, IInv, TypeOK, Placed
<1>2. /\ req'[r] = Free
      /\ \A o \in Requests : o # r => req'[o] = req[o]
      /\ context' = [context EXCEPT ![w] = req[r].before]
      /\ UNCHANGED mixed
  BY <1>1 DEF Complete
<1> HIDE DEF w
<1>3. ~InContext(r)' /\ \A o \in Requests : o # r => (InContext(o)' <=> InContext(o))
  BY <1>2 DEF InContext, Free, Fresh
<1>4. ASSUME NEW o \in Requests, InContext(o)'
      PROVE  /\ o # r /\ InContext(o) /\ req'[o] = req[o]
             /\ Others(o)' = Others(o) \ {r}
             /\ r \in Others(o) <=> req[o].worker = w
             /\ req[o].worker \in Workers
  <2>1. o # r /\ InContext(o) /\ req'[o] = req[o] /\ req[o].worker \in Workers
    BY <1>2, <1>3, <1>4 DEF IInv, Placed, InContext
  <2>2. Others(o)' = Others(o) \ {r}
    BY <1>2, <1>3, <2>1 DEF Others
  <2>3. r \in Others(o) <=> req[o].worker = w
    BY <1>1, <2>1 DEF Others, w
  <2> QED
    BY <2>1, <2>2, <2>3
<1>5. ASSUME NEW o \in Requests, InContext(o)'
      PROVE  (req'[o].alone => Alone(o)') /\ Met(o)'
  BY <1>2, <1>4, <1>5 DEF IInv, Alone, Met, Outer
<1>6. ASSUME NEW o \in Requests, InContext(o)', req'[o].alone
      PROVE  context'[req'[o].worker] = IF req'[o].step = "handling" THEN Inner(o) ELSE Outer(o)
  <2>1. InContext(o) /\ req'[o] = req[o] /\ req[o].alone /\ req[o].worker # w
    BY <1>4, <1>6 DEF IInv, Alone
  <2>2. context'[req[o].worker] = context[req[o].worker]
    BY <1>1, <1>2, <1>4, <1>6, <2>1
  <2> QED
    BY <2>1, <2>2 DEF IInv, ContextIsExplained
<1>7. ASSUME NEW v \in Workers, ~mixed'[v],
             \A o \in Requests : InContext(o)' => req'[o].worker # v
      PROVE  context'[v] = Nobody
  <2>1. CASE v = w
    <3>1. req[r].before = Nobody
      BY <1>1, <1>2, <1>7, <2>1 DEF IInv, Met, w
    <3> QED
      BY <1>1, <1>2, <2>1, <3>1
  <2>2. CASE v # w
    <3>1. \A o \in Requests : InContext(o) => req[o].worker # v
      BY <1>2, <1>3, <1>7, <2>2 DEF w
    <3>2. context[v] = Nobody
      BY <1>2, <1>7, <3>1 DEF IInv, ContextIsExplained
    <3> QED
      BY <1>1, <1>2, <2>2, <3>2
  <2> QED
    BY <2>1, <2>2
<1> QED
  BY <1>5, <1>6, <1>7 DEF ContextInv, ContextIsExplained, Inner, Outer

-----------------------------------------------------------------------------
(* The theorems.                                                           *)

\* The context stays out of the types' way: the steps of the two middlewares.
LEMMA MiddlewareType ==
    ASSUME IInv, NEW r \in Requests,
           Start(r) \/ Enter(r) \/ Complete(r) \/ \E failure \in Failures : Leave(r, failure)
    PROVE  TypeOK' /\ \A o \in Requests : Placed(o)'
<1>0. /\ TypeOK /\ Sound(req[r]) /\ req[r] \in RequestType
      /\ req \in [Requests -> RequestType] /\ context \in [Workers -> Contexts]
  BY RequestSound DEF IInv, TypeOK
<1>1. req[r].worker \in Workers /\ req[r].client \in Clients
  BY RequestFields DEF Start, Enter, Complete, Leave
<1>2. Outer(r) \in Contexts /\ Inner(r) \in Contexts /\ Nobody \in Contexts
  BY DEF Outer, Inner, Contexts
<1>3. context' \in [Workers -> Contexts]
  <2>1. req[r].before \in Contexts /\ req[r].between \in Contexts
    BY <1>0 DEF RequestType
  <2> QED
    BY <1>0, <1>1, <1>2, <2>1 DEF Start, Enter, Complete, Leave
<1>4. mixed' \in [Workers -> BOOLEAN]
  BY <1>0, <1>1 DEF Start, Enter, Complete, Leave, TypeOK
<1>5. req' \in [Requests -> RequestType] /\ \A o \in Requests : Placed(o)'
  <2> DEFINE x == context[req[r].worker]
  <2>0. x \in Contexts
    BY <1>0, <1>1
  <2>1. CASE Start(r)
    <3> DEFINE b == Others(r) = {}
               q == [req[r] EXCEPT !.step = "logging", !.before = x, !.alone = b]
    <3>0. b \in BOOLEAN
      OBVIOUS
    <3>1. q \in RequestType
      <4> HIDE DEF b, x
      <4> QED
        BY <1>0, <2>0, <3>0 DEF RequestType
    <3>2. q.step = "logging" /\ q.client = req[r].client /\ q.worker = req[r].worker
      BY <1>0 DEF RequestType
    <3>3. req' = [o \in Requests |->
                    IF o = r THEN q
                    ELSE IF o \in Others(r) THEN [req[o] EXCEPT !.alone = FALSE] ELSE req[o]]
      BY <2>1 DEF Start
    <3> HIDE DEF q
    <3>4. ASSUME NEW o \in Requests, NEW v \in BOOLEAN
          PROVE  LET p == [req[o] EXCEPT !.alone = v] IN
                 /\ p \in RequestType /\ p.step = req[o].step
                 /\ p.client = req[o].client /\ p.worker = req[o].worker
                 /\ p.time = req[o].time /\ p.second = req[o].second
      <4>1. req[o] \in RequestType
        BY <1>0
      <4> QED
        BY <4>1 DEF RequestType
    <3>5. ASSUME NEW o \in Requests
          PROVE  req'[o] \in RequestType /\ Placed(o)'
      <4>1. CASE o = r
        BY <1>1, <3>1, <3>2, <3>3, <4>1 DEF Placed
      <4>2. CASE o # r /\ o \in Others(r)
        <5>1. req'[o] = [req[o] EXCEPT !.alone = FALSE]
          BY <3>3, <4>2
        <5>2. /\ req'[o] \in RequestType /\ req'[o].step = req[o].step
              /\ req'[o].client = req[o].client /\ req'[o].worker = req[o].worker
              /\ req'[o].time = req[o].time /\ req'[o].second = req[o].second
          BY <3>4, <5>1
        <5>3. Placed(o)
          BY DEF IInv
        <5> QED
          BY <5>2, <5>3 DEF Placed
      <4>3. CASE o # r /\ o \notin Others(r)
        <5>1. req'[o] = req[o]
          BY <3>3, <4>3
        <5> QED
          BY <1>0, <5>1 DEF IInv, Placed
      <4> QED
        BY <4>1, <4>2, <4>3
    <3> QED
      BY <3>3, <3>5
  <2>2. CASE Enter(r)
    <3> DEFINE q == [req[r] EXCEPT !.step = "handling", !.between = x]
    <3>1. q \in RequestType
      BY <1>0, <2>0 DEF RequestType
    <3>2. q.step = "handling" /\ q.client = req[r].client /\ q.worker = req[r].worker
      BY <1>0 DEF RequestType
    <3>3. req' = [req EXCEPT ![r] = q]
      BY <2>2 DEF Enter
    <3> HIDE DEF q
    <3> QED
      BY <1>1, <3>1, <3>2, <3>3, RequestStep DEF Sound
  <2>3. ASSUME NEW failure \in Failures, Leave(r, failure)
        PROVE  req' \in [Requests -> RequestType] /\ \A o \in Requests : Placed(o)'
    <3> DEFINE q == [req[r] EXCEPT !.step = "handled", !.between = Nobody,
                                   !.status = Status(failure)]
    <3>1. q \in RequestType
      <4>1. Status(failure) \in 200..599
        BY StatusType
      <4> QED
        BY <1>0, <1>2, <4>1 DEF RequestType
    <3>2. q.step = "handled" /\ q.client = req[r].client /\ q.worker = req[r].worker
      BY <1>0 DEF RequestType
    <3>3. req' = [req EXCEPT ![r] = q]
      BY <2>3 DEF Leave
    <3> HIDE DEF q
    <3> QED
      BY <1>1, <3>1, <3>2, <3>3, RequestStep DEF Sound
  <2>4. CASE Complete(r)
    BY <2>4, FreeSound, RequestStep DEF Complete
  <2> QED
    BY <2>1, <2>2, <2>3, <2>4
<1>6. UNCHANGED <<now, shared, counts, deadline, local, admitted, lost, failures>>
  BY DEF Start, Enter, Complete, Leave
<1> QED
  BY <1>0, <1>3, <1>4, <1>5, <1>6 DEF TypeOK

\* Nothing is in progress at first, and there is no context.
LEMMA IInvInit == Init => IInv
<1> SUFFICES ASSUME Init PROVE IInv
  OBVIOUS
<1>1. \A r \in Requests : ~InContext(r)
  BY DEF Init, InContext, Free, Fresh
<1>2. ContextIsExplained
  BY <1>1 DEF Init, ContextIsExplained
<1> QED
  BY <1>1, <1>2, InitType DEF IInv

\* Every step keeps the types and the contexts.
LEMMA IInvStep == IInv /\ [Next]_vars => IInv'
<1> SUFFICES ASSUME IInv, [Next]_vars PROVE IInv'
  OBVIOUS
<1> DEFINE Typed == TypeOK' /\ \A o \in Requests : Placed(o)'
<1>1. ASSUME Typed, ContextInv' PROVE IInv'
  BY <1>1 DEF IInv, ContextInv
<1>2. ASSUME NEW r \in Requests, Arrive(r) PROVE IInv'
  <2>1. Typed
    BY <1>2, LocalSteps DEF Arrive
  <2> QED
    BY <1>1, <1>2, <2>1, LimiterStep
<1>3. ASSUME NEW r \in Requests,
             Count(r) \/ CountFails(r) \/ Record(r) \/ RecordFails(r) \/ SetExpiry(r)
      PROVE  IInv'
  BY <1>1, <1>3, SharedSteps, LimiterStep
<1>4. ASSUME NEW r \in Requests,
             Start(r) \/ Enter(r) \/ Complete(r) \/ \E failure \in Failures : Leave(r, failure)
      PROVE  IInv'
  BY <1>1, <1>4, MiddlewareType, StartStep, EnterStep, CompleteStep, LeaveStep
<1>5. CASE Tick
  <2>1. ContextInv'
    BY <1>5, OutsideStep DEF Tick, InContext
  <2> QED
    BY <1>1, <1>5, <2>1, TickType
<1>6. CASE UNCHANGED vars
  <2>1. ContextInv'
    BY <1>6, OutsideStep DEF vars, InContext
  <2>2. Typed
    BY <1>6 DEF vars, IInv, TypeOK, Placed
  <2> QED
    BY <1>1, <2>1, <2>2
<1> QED
  BY <1>2, <1>3, <1>4, <1>5, <1>6 DEF Next

\* IInv holds in every state the requests, the stores and the clock reach.
THEOREM Inductive == Spec => []IInv
BY IInvInit, IInvStep, PTL DEF Spec

\* The stores, the clock and the requests always have their types; every status
\* that the error handler answers with is one of HTTP's.
THEOREM TypeCorrect == Spec => []TypeOK
<1>1. IInv => TypeOK
  BY DEF IInv
<1> QED
  BY Inductive, <1>1, PTL

\* The context in which a request logs is its own as long as it met no other
\* on its worker, and a worker at rest has none unless requests have met there.
THEOREM ContextExplained == Spec => []ContextIsExplained
<1>1. IInv => ContextIsExplained
  BY DEF IInv
<1> QED
  BY Inductive, <1>1, PTL

-----------------------------------------------------------------------------
(* Sums.                                                                   *)

\* A term as a set.
LEMMA TermFinite ==
    ASSUME NEW x, NEW n \in Nat
    PROVE  IsFiniteSet({x} \X (1 .. n)) /\ Cardinality({x} \X (1 .. n)) = n
<1>1. IsFiniteSet(1 .. n) /\ Cardinality(1 .. n) = n
  <2>1. 1 \in Int /\ n \in Int
    OBVIOUS
  <2>2. IsFiniteSet(1 .. n) /\ Cardinality(1 .. n) = IF 1 > n THEN 0 ELSE n - 1 + 1
    BY <2>1, FS_Interval
  <2> QED
    BY <2>2
<1>2. IsFiniteSet({x}) /\ Cardinality({x}) = 1
  BY FS_Singleton
<1>3. Cardinality({x} \X (1 .. n)) = 1 * n /\ IsFiniteSet({x} \X (1 .. n))
  BY <1>1, <1>2, FS_Product
<1> QED
  BY <1>3

\* What has finitely many terms is finite.
LEMMA UnitsFinite ==
    ASSUME NEW S, IsFiniteSet(S), NEW f, \A i \in S : f[i] \in Nat
    PROVE  IsFiniteSet(Units(f, S)) /\ SumOver(f, S) \in Nat
<1> DEFINE T == {{i} \X (1 .. f[i]) : i \in S}
           g == [i \in S |-> {i} \X (1 .. f[i])]
<1>1. g \in Surjection(S, T)
  BY DEF Surjection
<1>2. IsFiniteSet(T)
  BY <1>1, FS_Surjection
<1>3. ASSUME NEW i \in S PROVE IsFiniteSet({i} \X (1 .. f[i]))
  BY TermFinite
<1>4. IsFiniteSet(UNION T)
  BY <1>2, <1>3, FS_UNION
<1> QED
  BY <1>4, FS_CardinalityType DEF Units, SumOver

\* A sum grows with its terms and with the set of them.
LEMMA SumGrows ==
    ASSUME NEW S, NEW T, IsFiniteSet(T), NEW f, NEW g,
           \A i \in S : f[i] \in Nat, \A i \in T : g[i] \in Nat,
           \A i \in S : f[i] = 0 \/ (i \in T /\ f[i] <= g[i])
    PROVE  SumOver(f, S) <= SumOver(g, T)
<1>1. Units(f, S) \subseteq Units(g, T)
  <2> SUFFICES ASSUME NEW i \in S, NEW n \in 1 .. f[i]
               PROVE  <<i, n>> \in Units(g, T)
    BY DEF Units
  <2>1. i \in T /\ n \in 1 .. g[i]
    OBVIOUS
  <2> QED
    BY <2>1 DEF Units
<1> QED
  BY <1>1, UnitsFinite, FS_Subset DEF SumOver

\* Equal terms have equal sums.
LEMMA SumSame ==
    ASSUME NEW S, NEW f, NEW g, \A i \in S : f[i] = g[i]
    PROVE  SumOver(f, S) = SumOver(g, S)
<1>1. Units(f, S) = Units(g, S)
  BY DEF Units
<1> QED
  BY <1>1 DEF SumOver

\* One term more.
LEMMA SumWithAnother ==
    ASSUME NEW S, IsFiniteSet(S), NEW x, x \notin S, NEW f, \A i \in S \union {x} : f[i] \in Nat
    PROVE  SumOver(f, S \union {x}) = SumOver(f, S) + f[x]
<1> DEFINE U == {x} \X (1 .. f[x])
<1>1. Units(f, S \union {x}) = Units(f, S) \union U
  BY DEF Units
<1>2. Units(f, S) \intersect U = {}
  BY DEF Units
<1>3. IsFiniteSet(U) /\ Cardinality(U) = f[x]
  BY TermFinite
<1>4. IsFiniteSet(Units(f, S)) /\ SumOver(f, S) \in Nat
  BY UnitsFinite
<1> HIDE DEF U
<1>5. Cardinality(Units(f, S) \union U)
        = Cardinality(Units(f, S)) + Cardinality(U) - Cardinality(Units(f, S) \intersect U)
  BY <1>3, <1>4, FS_Union
<1>6. Cardinality(Units(f, S) \intersect U) = 0
  BY <1>2, FS_EmptySet
<1>7. f[x] \in Nat
  OBVIOUS
<1>8. SumOver(f, S \union {x}) = Cardinality(Units(f, S) \union U)
  BY <1>1 DEF SumOver
<1>9. SumOver(f, S) = Cardinality(Units(f, S))
  BY DEF SumOver
<1> QED
  BY <1>3, <1>4, <1>5, <1>6, <1>7, <1>8, <1>9

\* One term grows by one.
LEMMA SumPlusOne ==
    ASSUME NEW S, IsFiniteSet(S), NEW x \in S, NEW f, NEW g,
           \A i \in S : f[i] \in Nat, g[x] = f[x] + 1, \A i \in S \ {x} : g[i] = f[i]
    PROVE  SumOver(g, S) = SumOver(f, S) + 1
<1> DEFINE R == S \ {x}
<1>1. IsFiniteSet(R) /\ S = R \union {x} /\ x \notin R
  BY FS_RemoveElement
<1>2. SumOver(g, R) = SumOver(f, R)
  BY SumSame
<1>3. \A i \in R \union {x} : f[i] \in Nat /\ g[i] \in Nat
  OBVIOUS
<1>4. SumOver(f, R) \in Nat
  BY <1>1, UnitsFinite
<1> HIDE DEF R
<1>5. SumOver(f, R \union {x}) = SumOver(f, R) + f[x]
  BY <1>1, <1>3, SumWithAnother
<1>6. SumOver(g, R \union {x}) = SumOver(g, R) + g[x]
  BY <1>1, <1>3, SumWithAnother
<1> QED
  BY <1>1, <1>2, <1>4, <1>5, <1>6

-----------------------------------------------------------------------------
(* Admissions by the stores in memory.                                     *)

\* The seconds are finitely many, those of a span are among them.
LEMMA SecondsFinite ==
    /\ IsFiniteSet(Seconds)
    /\ \A S \in SUBSET Seconds : IsFiniteSet(S)
    /\ \A t \in 0..MaxTime : SpanTo(t) \subseteq Seconds
<1>1. 1 - Window \in Int /\ MaxTime \in Int
  BY LimitAssumption, BoundsAssumption
<1>2. IsFiniteSet(Seconds)
  BY <1>1, FS_Interval DEF Seconds
<1>3. \A S \in SUBSET Seconds : IsFiniteSet(S)
  BY <1>2, FS_Subset
<1> QED
  <2> SUFFICES ASSUME NEW t \in 0..MaxTime PROVE SpanTo(t) \subseteq (t - Window + 1)..t
    BY <1>2, <1>3, SecondsType
  <2> QED
    BY SpanIsShort, LimitAssumption DEF SpanTo

\* A step that leaves the limiter, the clock and the choice of the store alone.
Aside ==
    /\ UNCHANGED <<now, shared, limiter>>
    /\ \A o \in Requests : InLimiter(o)' => req'[o] = req[o]

\* What a request does that is not in the limiter, and a refusal, is such a step.
LEMMA AsideSteps ==
    ASSUME IInv, NEW r \in Requests,
           \/ Start(r) \/ Enter(r) \/ Complete(r) \/ \E failure \in Failures : Leave(r, failure)
           \/ \E c \in Clients, w \in Workers : ArriveExcluded(r, c, w)
           \/ Refuse(r) /\ UNCHANGED <<now, shared, limiter>>
    PROVE  Aside
<1>0. req \in [Requests -> RequestType]
  BY DEF IInv, TypeOK
<1>1. UNCHANGED <<now, shared, limiter>>
  BY DEF Start, Enter, Complete, Leave, ArriveExcluded
<1>2. ASSUME NEW q, ~(q.step \in {"counting", "recording", "expiring"}),
             req' = [req EXCEPT ![r] = q]
      PROVE  \A o \in Requests : InLimiter(o)' => req'[o] = req[o]
  BY <1>0, <1>2 DEF InLimiter
<1>3. req[r] \in RequestType
  BY <1>0
<1>4. CASE Start(r)
  <2> SUFFICES ASSUME NEW o \in Requests, InLimiter(o)', req'[o] # req[o] PROVE FALSE
    BY <1>1 DEF Aside
  <2>1. req[o] \in RequestType
    BY <1>0
  <2>2. CASE o = r
    BY <1>3, <1>4, <2>2 DEF Start, InLimiter, RequestType
  <2>3. CASE o \in Others(r) /\ o # r
    <3>1. req'[o] = [req[o] EXCEPT !.alone = FALSE]
      BY <1>4, <2>3 DEF Start
    <3>2. req'[o].step = req[o].step
      BY <2>1, <3>1 DEF RequestType
    <3> QED
      BY <2>3, <3>2 DEF Others, InContext, InLimiter
  <2>4. CASE o \notin Others(r) /\ o # r
    BY <1>4, <2>4 DEF Start
  <2> QED
    BY <2>2, <2>3, <2>4
<1>5. CASE Enter(r)
  <2> DEFINE q == [req[r] EXCEPT !.step = "handling", !.between = context[req[r].worker]]
  <2>1. q.step = "handling"
    BY <1>3 DEF RequestType
  <2>2. req' = [req EXCEPT ![r] = q]
    BY <1>5 DEF Enter
  <2> HIDE DEF q
  <2> QED
    BY <1>1, <1>2, <2>1, <2>2 DEF Aside
<1>6. ASSUME NEW failure \in Failures, Leave(r, failure)
      PROVE  Aside
  <2> DEFINE q == [req[r] EXCEPT !.step = "handled", !.between = Nobody,
                                 !.status = Status(failure)]
  <2>1. q.step = "handled"
    BY <1>3 DEF RequestType
  <2>2. req' = [req EXCEPT ![r] = q]
    BY <1>6 DEF Leave
  <2> HIDE DEF q
  <2> QED
    BY <1>1, <1>2, <2>1, <2>2 DEF Aside
<1>7. CASE Complete(r) \/ Refuse(r)
  <2>1. req' = [req EXCEPT ![r] = Free] /\ Free.step = "free"
    BY <1>7 DEF Complete, Refuse, Free, Fresh
  <2> QED
    BY <1>1, <1>2, <2>1 DEF Aside
<1>8. ASSUME NEW c \in Clients, NEW w \in Workers, ArriveExcluded(r, c, w)
      PROVE  Aside
  <2>1. req' = [req EXCEPT ![r] = Fresh("admitted", c, w)]
        /\ Fresh("admitted", c, w).step = "admitted"
    BY <1>8 DEF ArriveExcluded, Fresh
  <2> QED
    BY <1>1, <1>2, <2>1 DEF Aside
<1> QED
  BY <1>4, <1>5, <1>6, <1>7, <1>8

\* A request is let through by the store of its worker: what is admitted in a
\* window was still in the store, which held less than the limit.
LEMMA LocalArrives ==
    ASSUME IInv, LocalInv, LocalIsExact,
           NEW r \in Requests, NEW c \in Clients, NEW w \in Workers, ArriveLocal(r, c, w)
    PROVE  LocalInv' /\ LocalIsExact'
<1> DEFINE f == admitted[c][w]
           g == [f EXCEPT ![now] = @ + 1]
           l == local[w][c]
<1>1. /\ now \in 0..MaxTime /\ now \in Seconds /\ now \in Int
      /\ f \in [Seconds -> Nat] /\ l \in [Seconds -> Nat] /\ Seconds \subseteq Int
  <2>1. /\ now \in 0..MaxTime
        /\ admitted \in [Clients -> [Stores -> [Seconds -> Nat]]]
        /\ local \in [Workers -> [Clients -> [Seconds -> Nat]]]
    BY DEF IInv, TypeOK
  <2>2. w \in Stores
    BY DEF Stores
  <2> QED
    BY <2>1, <2>2, SecondsType
<1>2. /\ admitted' = [admitted EXCEPT ![c][w] = g]
      /\ local' = [local EXCEPT ![w][c] = LocalAdded(l, now)]
      /\ req' = [req EXCEPT ![r] = Fresh("admitted", c, w)]
      /\ UNCHANGED <<now, lost>>
  BY DEF ArriveLocal, RecordLocally, Admit, LocalInv
<1>3. /\ admitted'[c][w] = g /\ local'[w][c] = LocalAdded(l, now)
      /\ \A d \in Clients, v \in Workers : ~(d = c /\ v = w) =>
           admitted'[d][v] = admitted[d][v] /\ local'[v][d] = local[v][d]
  BY <1>2 DEF IInv, TypeOK, Stores
<1>4. \A s \in Seconds : /\ s > now - Life => f[s] <= l[s]
                         /\ g[s] = f[s] + (IF s = now THEN 1 ELSE 0)
                         /\ LocalAdded(l, now)[s] =
                              (IF s > now - Life THEN l[s] ELSE 0) + (IF s = now THEN 1 ELSE 0)
  <2> TAKE s \in Seconds
  <2>1. s > now - Life => f[s] <= l[s]
    BY DEF LocalInv
  <2>2. f[s] \in Nat
    BY <1>1
  <2>3. g[s] = f[s] + (IF s = now THEN 1 ELSE 0)
    <3> HIDE DEF f
    <3> QED
      BY <1>1, <2>2
  <2> QED
    BY <2>1, <2>3 DEF LocalAdded
<1>5. ASSUME NEW t \in 0..MaxTime
      PROVE  SumOver(g, SpanTo(t)) <= MaxRequests
  <2> DEFINE W == SpanTo(t)
             T == {s \in Seconds : s >= now - Window}
  <2>1. W \subseteq Seconds /\ IsFiniteSet(W) /\ IsFiniteSet(T)
    BY SecondsFinite
  <2>2. SumOver(f, W) <= MaxRequests /\ SumOver(f, W) \in Nat
    <3>1. SumOver(f, W) \in Nat
      BY <1>1, <2>1, UnitsFinite
    <3> QED
      BY <3>1 DEF LocalIsExact
  <2>3. CASE now \in W
    <3>1. \A s \in W : s >= now - Window /\ s > now - Life /\ f[s] <= l[s]
      BY <1>1, <1>4, <2>1, <2>3, SpanIsShort, LimitAssumption, LifeAssumption DEF SpanTo
    <3>2. SumOver(f, W) <= SumOver(l, T)
      BY <1>1, <2>1, <3>1, SumGrows
    <3>3. SumOver(l, T) < MaxRequests
      BY DEF ArriveLocal, LocalCount
    <3>4. SumOver(g, W) = SumOver(f, W) + 1
      <4>1. /\ \A s \in W : f[s] \in Nat
            /\ g[now] = f[now] + 1 /\ \A s \in W \ {now} : g[s] = f[s]
        BY <1>1, <1>4, <2>1
      <4> HIDE DEF W, f, g
      <4> QED
        BY <2>1, <2>3, <4>1, SumPlusOne
    <3>5. SumOver(l, T) \in Nat
      BY <1>1, <2>1, UnitsFinite
    <3> QED
      BY <2>2, <3>2, <3>3, <3>4, <3>5, LimitAssumption
  <2>4. CASE now \notin W
    <3>1. SumOver(g, W) = SumOver(f, W)
      BY <1>1, <1>4, <2>1, <2>4, SumSame
    <3> QED
      BY <2>2, <3>1
  <2> QED
    BY <2>3, <2>4
<1>6. LocalIsExact'
  BY <1>3, <1>5 DEF LocalIsExact
<1>7. ASSUME NEW d \in Clients, NEW v \in Workers, NEW s \in Seconds, s > now - Life
      PROVE  admitted'[d][v][s] <= local'[v][d][s]
  <2>1. CASE d = c /\ v = w
    <3>1. f[s] \in Nat /\ l[s] \in Nat
      BY <1>1
    <3> HIDE DEF f, g, l
    <3> QED
      BY <1>3, <1>4, <1>7, <2>1, <3>1
  <2>2. CASE ~(d = c /\ v = w)
    BY <1>3, <1>7, <2>2 DEF LocalInv
  <2> QED
    BY <2>1, <2>2
<1>8. \A o \in Requests : ~InLimiter(o)'
  BY <1>2 DEF LocalInv, InLimiter, Fresh, IInv, TypeOK
<1> QED
  BY <1>2, <1>6, <1>7, <1>8 DEF LocalInv

\* As long as the stores are those of the workers they keep the limit.
LEMMA LocalKeeps ==
    ASSUME IInv, ~shared, LocalInv, LocalIsExact, [Next]_vars
    PROVE  LocalInv' /\ LocalIsExact'
<1>1. ASSUME Aside PROVE LocalInv' /\ LocalIsExact'
  BY <1>1 DEF Aside, LocalInv, LocalIsExact, InLimiter
<1>2. CASE UNCHANGED vars
  BY <1>1, <1>2 DEF vars, Aside
<1>3. CASE Tick
  <2>1. UNCHANGED <<lost, admitted, local, req>> /\ now' = now + 1
    BY <1>3 DEF Tick, Missed, LocalInv, InLimiter
  <2>2. \A s \in Seconds : s > now' - Life => s > now - Life
    BY <2>1, SecondsType, LifeAssumption DEF IInv, TypeOK
  <2> QED
    BY <2>1, <2>2 DEF LocalInv, LocalIsExact, InLimiter
<1>4. ASSUME NEW r \in Requests, Arrive(r) PROVE LocalInv' /\ LocalIsExact'
  BY <1>1, <1>4, AsideSteps, LocalArrives DEF Arrive, ArriveShared
<1>5. ASSUME NEW r \in Requests,
             Start(r) \/ Enter(r) \/ Complete(r) \/ \E failure \in Failures : Leave(r, failure)
      PROVE  LocalInv' /\ LocalIsExact'
  BY <1>1, <1>5, AsideSteps
<1>6. ASSUME NEW r \in Requests,
             Count(r) \/ CountFails(r) \/ Record(r) \/ RecordFails(r) \/ SetExpiry(r)
      PROVE  FALSE
  BY <1>6 DEF LocalInv, InLimiter, Count, CountFails, Record, RecordFails, SetExpiry
<1> QED
  BY <1>2, <1>3, <1>4, <1>5, <1>6 DEF Next

-----------------------------------------------------------------------------
(* Admissions by the store in Redis.                                       *)

\* The sum of the admissions in a span, and those that may join, are numbers.
LEMMA SpanTypes ==
    ASSUME IInv, NEW c \in Clients, NEW t \in 0..MaxTime
    PROVE  /\ SumOver(admitted[c][Nobody], SpanTo(t)) \in Nat
           /\ IsFiniteSet(Entrants(c, t)) /\ Cardinality(Entrants(c, t)) \in Nat
           /\ Cardinality(Requests) \in Nat
<1>1. admitted[c][Nobody] \in [Seconds -> Nat]
  BY DEF IInv, TypeOK, Stores
<1>2. IsFiniteSet(SpanTo(t)) /\ SpanTo(t) \subseteq Seconds
  BY SecondsFinite
<1>3. SumOver(admitted[c][Nobody], SpanTo(t)) \in Nat
  BY <1>1, <1>2, UnitsFinite
<1>4. IsFiniteSet(Entrants(c, t))
  BY RequestsAssumption, FS_Subset DEF Entrants
<1> QED
  BY <1>3, <1>4, RequestsAssumption, FS_CardinalityType

\* Nothing is admitted, and nobody may join a full window who could not before.
LEMMA FewerEntrants ==
    ASSUME IInv, FullWindowsInv, UNCHANGED admitted,
           \A c \in Clients, t \in 0..MaxTime :
               SumOver(admitted[c][Nobody], SpanTo(t)) >= MaxRequests =>
                   Entrants(c, t)' \subseteq Entrants(c, t)
    PROVE  FullWindowsInv'
<1> SUFFICES ASSUME NEW c \in Clients, NEW t \in 0..MaxTime,
                    SumOver(admitted[c][Nobody], SpanTo(t)) >= MaxRequests
             PROVE  SumOver(admitted[c][Nobody], SpanTo(t)) + Cardinality(Entrants(c, t)')
                      <= MaxRequests + Cardinality(Requests) - 1
  BY DEF FullWindowsInv, SpanTo
<1>1. SumOver(admitted[c][Nobody], SpanTo(t)) + Cardinality(Entrants(c, t))
        <= MaxRequests + Cardinality(Requests) - 1
  BY DEF FullWindowsInv
<1>2. Entrants(c, t)' \subseteq Entrants(c, t)
  OBVIOUS
<1>3. /\ Cardinality(Entrants(c, t)') <= Cardinality(Entrants(c, t))
      /\ Cardinality(Entrants(c, t)') \in Nat
  BY <1>2, SpanTypes, FS_Subset, FS_CardinalityType
<1> QED
  BY <1>1, <1>3, SpanTypes, LimitAssumption

\* One request moves on, and no counter changes.
LEMMA MoveKeeps ==
    ASSUME IInv, SharedInv, NEW r \in Requests, NEW q, req' = [req EXCEPT ![r] = q],
           UNCHANGED <<now, counts, admitted, lost>>,
           q.step \in {"counting", "recording", "expiring"} => q.time <= now,
           \A c \in Clients, s \in Seconds : deadline'[c][s] >= s + Life,
           \A c \in Clients, t \in 0..MaxTime :
               /\ ~lost /\ SumOver(admitted[c][Nobody], SpanTo(t)) >= MaxRequests
               /\ Enters(q, c, t)
               => Enters(req[r], c, t)
    PROVE  SharedInv'
<1>1. \A o \in Requests : req'[o] = IF o = r THEN q ELSE req[o]
  BY DEF IInv, TypeOK
<1>2. \A o \in Requests : InLimiter(o)' => req'[o].time <= now'
  BY <1>1 DEF InLimiter, SharedInv
<1>3. ASSUME ~lost PROVE CountersInv' /\ FullWindowsInv'
  <2>1. CountersInv'
    BY <1>3 DEF SharedInv, CountersInv, SpanTo
  <2>2. \A p, c, t : Enters(p, c, t)' <=> Enters(p, c, t)
    BY DEF Enters, Expected, SpanTo
  <2>3. ASSUME NEW c \in Clients, NEW t \in 0..MaxTime,
               SumOver(admitted[c][Nobody], SpanTo(t)) >= MaxRequests
        PROVE  Entrants(c, t)' \subseteq Entrants(c, t)
    <3> SUFFICES ASSUME NEW o \in Requests, Enters(req'[o], c, t)
                 PROVE  Enters(req[o], c, t)
      BY <2>2 DEF Entrants, Enters, Expected, SpanTo
    <3> QED
      BY <1>1, <1>3, <2>3
  <2>4. FullWindowsInv
    BY <1>3 DEF SharedInv
  <2> QED
    BY <2>1, <2>3, <2>4, FewerEntrants
<1> QED
  BY <1>2, <1>3 DEF SharedInv

\* A step beside the limiter changes nothing in it.
LEMMA AsideKeeps ==
    ASSUME IInv, SharedInv, Aside
    PROVE  SharedInv'
<1>1. UNCHANGED <<now, counts, admitted, deadline, lost>>
  BY DEF Aside
<1>2. \A o \in Requests : InLimiter(o)' => req'[o] = req[o]
  BY DEF Aside
<1>3. \A o \in Requests : InLimiter(o)' => req'[o].time <= now'
  BY <1>1, <1>2 DEF InLimiter, SharedInv
<1>4. ASSUME ~lost PROVE CountersInv' /\ FullWindowsInv'
  <2>1. CountersInv'
    BY <1>1, <1>4 DEF SharedInv, CountersInv, SpanTo
  <2>2. ASSUME NEW c \in Clients, NEW t \in 0..MaxTime, NEW o \in Entrants(c, t)'
        PROVE  o \in Entrants(c, t)
    <3>1. InLimiter(o)' /\ o \in Requests
      BY DEF Entrants, Enters, InLimiter
    <3> QED
      BY <1>1, <1>2, <3>1 DEF Entrants, Enters, Expected, SpanTo
  <2> QED
    BY <1>1, <1>4, <2>1, <2>2, FewerEntrants DEF SharedInv
<1> QED
  BY <1>1, <1>3, <1>4 DEF SharedInv

\* A request that arrives when a window is full counts as many in it.
LEMMA ArriveKeeps ==
    ASSUME IInv, SharedInv,
           NEW r \in Requests, NEW c \in Clients, NEW w \in Workers, ArriveShared(r, c, w)
    PROVE  SharedInv'
<1> DEFINE q == [Fresh("counting", c, w) EXCEPT !.time = now, !.second = now]
<1>1. /\ req' = [req EXCEPT ![r] = q] /\ UNCHANGED <<now, counts, admitted, deadline, lost>>
  BY DEF ArriveShared
<1>2. q.step = "counting" /\ q.client = c /\ q.time = now /\ q.second = now /\ q.total = 0
  BY DEF Fresh
<1>3. /\ now \in 0..MaxTime /\ now \in Int /\ Seconds \subseteq Int
      /\ counts[c] \in [Seconds -> Nat] /\ admitted[c][Nobody] \in [Seconds -> Nat]
  BY SecondsType DEF IInv, TypeOK, Stores
<1>4. Expected(q) = SumOver(counts[c], SpanTo(now))
  <2>1. SumOver(counts[c], SpanTo(now)) \in Nat
    BY <1>3, SecondsFinite, UnitsFinite
  <2> HIDE DEF q
  <2> QED
    BY <1>2, <2>1 DEF Expected, SpanTo
<1> HIDE DEF q
<1>5. ASSUME NEW d \in Clients, NEW t \in 0..MaxTime, ~lost,
             SumOver(admitted[d][Nobody], SpanTo(t)) >= MaxRequests, Enters(q, d, t)
      PROVE  FALSE
  <2>1. d = c /\ now \in SpanTo(t) /\ SumOver(counts[c], SpanTo(now)) < MaxRequests
    BY <1>2, <1>4, <1>5 DEF Enters
  <2>2. /\ SpanTo(t) \subseteq Seconds /\ SpanTo(now) \subseteq Seconds
        /\ IsFiniteSet(SpanTo(now))
    BY <1>3, SecondsFinite
  <2>3. ASSUME NEW s \in SpanTo(t)
        PROVE  \/ admitted[c][Nobody][s] = 0
               \/ s \in SpanTo(now) /\ admitted[c][Nobody][s] <= counts[c][s]
    <3>1. s \in Seconds /\ s \in Int /\ t \in Int
      <4>1. s \in Seconds
        BY <2>2
      <4> QED
        BY <1>3, <4>1, BoundsAssumption
    <3>2. CASE s > now
      BY <1>5, <3>1, <3>2 DEF SharedInv, CountersInv
    <3>3. CASE s <= now
      <4>1. s \in SpanTo(now)
        BY <1>3, <2>1, <3>1, <3>3, SpanIsShort DEF SpanTo
      <4>2. counts[c][s] = admitted[c][Nobody][s]
        BY <1>5, <3>1, <4>1 DEF SharedInv, CountersInv
      <4>3. counts[c][s] \in Nat
        BY <1>3, <3>1
      <4> QED
        BY <4>1, <4>2, <4>3
    <3> QED
      BY <1>3, <3>1, <3>2, <3>3
  <2>4. SumOver(admitted[c][Nobody], SpanTo(t)) <= SumOver(counts[c], SpanTo(now))
    BY <1>3, <2>2, <2>3, SumGrows
  <2>5. SumOver(counts[c], SpanTo(now)) \in Nat
    BY <1>3, <2>2, UnitsFinite
  <2> QED
    BY <1>5, <2>1, <2>4, <2>5, SpanTypes, LimitAssumption
<1>6. \A d \in Clients, s \in Seconds : deadline'[d][s] >= s + Life
  BY <1>1 DEF SharedInv
<1>7. q.time <= now
  BY <1>2, <1>3
<1>8. \A d \in Clients, t \in 0..MaxTime :
         /\ ~lost /\ SumOver(admitted[d][Nobody], SpanTo(t)) >= MaxRequests
         /\ Enters(q, d, t)
         => Enters(req[r], d, t)
  BY <1>5
<1> QED
  BY <1>1, <1>6, <1>7, <1>8, MoveKeeps

\* A GET moves a counter from what is to be read to what was read.
LEMMA CountKeeps ==
    ASSUME IInv, SharedInv, NEW r \in Requests, Count(r)
    PROVE  SharedInv'
<1> DEFINE q == req[r]
           first == q.time - Span + 1
           oldest == q.time - Window + 1
           f == counts[q.client]
           total == q.total + f[q.second]
<1>1. /\ q.step = "counting" /\ UNCHANGED <<now, shared, limiter>>
      /\ q.second \in oldest..q.time
      /\ q \in RequestType /\ q.client \in Clients
      /\ q.time \in 0..MaxTime /\ q.second \in Seconds /\ q.total \in Nat
      /\ q.time <= now
  BY RequestFields DEF Count, IInv, TypeOK, Placed, SharedInv, InLimiter
<1>2. f \in [Seconds -> Nat]
  BY <1>1 DEF IInv, TypeOK
<1>3. /\ oldest..q.time \subseteq Seconds /\ first \in Int /\ q.second \in Int
      /\ oldest \in Int /\ oldest <= first
      /\ \A S \in SUBSET Seconds : IsFiniteSet(S)
  BY <1>1, SpanIsShort, LimitAssumption, SecondsType, SecondsFinite
<1>4. \A d \in Clients, s \in Seconds : deadline'[d][s] >= s + Life
  BY <1>1 DEF SharedInv
<1>5. /\ Expected(q) <= total + SumOver(f, first..(q.second - 1))
      /\ Expected(q) \in Nat /\ total + SumOver(f, first..(q.second - 1)) \in Nat
  <2> DEFINE S == first..(q.second - 1)
  <2>1. S \subseteq oldest..q.time
    BY <1>1, <1>3
  <2>2. S \subseteq Seconds
    BY <1>3, <2>1
  <2>3. \A s \in S \union {q.second} : f[s] \in Nat
    BY <1>1, <1>2, <2>2
  <2>4. SumOver(f, S) \in Nat
    BY <1>3, <2>2, <2>3, UnitsFinite
  <2>5. q.total \in Nat /\ f[q.second] \in Nat
    BY <1>1, <2>3
  <2>6. CASE q.second < first
    <3>1. first..q.second = S
      BY <1>3, <2>6
    <3>2. Expected(q) = q.total + SumOver(f, S)
      BY <3>1 DEF Expected
    <3> HIDE DEF S, f, q
    <3> QED
      BY <2>4, <2>5, <3>2 DEF S
  <2>7. CASE ~(q.second < first)
    <3>1. q.second \notin S /\ first..q.second = S \union {q.second}
      BY <1>1, <1>3, <2>7
    <3> HIDE DEF S, f
    <3>2. SumOver(f, S \union {q.second}) = SumOver(f, S) + f[q.second]
      BY <1>3, <2>2, <2>3, <3>1, SumWithAnother
    <3>3. Expected(q) = q.total + SumOver(f, S \union {q.second})
      BY <3>1 DEF Expected, f
    <3> HIDE DEF q
    <3> QED
      BY <2>4, <2>5, <3>2, <3>3 DEF S
  <2> HIDE DEF S
  <2> QED
    BY <2>6, <2>7
<1>6. CASE q.second # oldest
  <2> DEFINE p == [q EXCEPT !.total = total, !.second = @ - 1]
  <2>1. req' = [req EXCEPT ![r] = p]
    BY <1>6 DEF Count
  <2>2. /\ p.step = "counting" /\ p.client = q.client /\ p.time = q.time
        /\ p.total = total /\ p.second = q.second - 1
    <3> HIDE DEF total, f, first, oldest
    <3> QED
      BY <1>1 DEF RequestType
  <2> HIDE DEF p
  <2>3. Expected(p) = total + SumOver(f, first..(q.second - 1))
    BY <2>2 DEF Expected
  <2>4. Expected(p) < MaxRequests => Expected(q) < MaxRequests
    <3> HIDE DEF total, f, first, q
    <3> QED
      BY <1>5, <2>3, LimitAssumption
  <2>5. \A c, t : Enters(p, c, t) => Enters(q, c, t)
    BY <1>1, <2>2, <2>4 DEF Enters
  <2> HIDE DEF q
  <2>6. p.time <= now
    BY <1>1, <2>2
  <2> QED
    BY <1>1, <1>4, <2>1, <2>5, <2>6, MoveKeeps DEF q
<1>7. CASE q.second = oldest /\ total >= MaxRequests
  <2>1. Refuse(r)
    BY <1>7 DEF Count
  <2> QED
    BY <1>1, <2>1, AsideSteps, AsideKeeps
<1>8. CASE q.second = oldest /\ ~(total >= MaxRequests)
  <2> DEFINE p == [q EXCEPT !.step = "recording", !.total = 0, !.second = 0]
  <2>1. req' = [req EXCEPT ![r] = p]
    BY <1>8 DEF Count
  <2>2. p.step = "recording" /\ p.client = q.client /\ p.time = q.time
    BY <1>1 DEF RequestType
  <2>3. Expected(q) <= total
    <3>1. first..(q.second - 1) = {}
      BY <1>3, <1>8
    <3>2. SumOver(f, {}) = 0
      <4>1. Units(f, {}) = {}
        BY DEF Units
      <4> QED
        BY <4>1, FS_EmptySet DEF SumOver
    <3>3. total \in Nat
      BY <1>1, <1>2
    <3>4. SumOver(f, first..(q.second - 1)) = 0
      BY <3>1, <3>2
    <3> HIDE DEF total, f, first, q
    <3> QED
      BY <1>5, <3>3, <3>4
  <2>4. Expected(q) < MaxRequests
    <3>1. total \in Nat
      BY <1>1, <1>2
    <3> HIDE DEF total, q
    <3> QED
      BY <1>5, <1>8, <2>3, <3>1, LimitAssumption
  <2> HIDE DEF p, total
  <2>5. \A c, t : Enters(p, c, t) => Enters(q, c, t)
    BY <1>1, <2>2, <2>4 DEF Enters
  <2> HIDE DEF q
  <2>6. p.time <= now
    BY <1>1, <2>2
  <2> QED
    BY <1>1, <1>4, <2>1, <2>5, <2>6, MoveKeeps DEF q
<1> QED
  BY <1>6, <1>7, <1>8

\* A request is recorded: whoever fills the window has left those who may join
\* it, and who joins a full one has been among them.
LEMMA RecordKeeps ==
    ASSUME IInv, SharedInv, NEW r \in Requests, Record(r)
    PROVE  SharedInv'
<1> DEFINE c == req[r].client
           x == req[r].time
           a == admitted[c][Nobody]
<1>1. /\ req[r].step = "recording" /\ c \in Clients /\ x \in 0..MaxTime /\ x \in Seconds
      /\ x <= now /\ UNCHANGED <<now, deadline, lost>>
  BY RequestFields DEF Record, SharedInv, InLimiter
<1>2. /\ req \in [Requests -> RequestType] /\ now \in Int /\ Seconds \subseteq Int
      /\ \A d \in Clients : /\ counts[d] \in [Seconds -> Nat]
                            /\ admitted[d][Nobody] \in [Seconds -> Nat]
  BY SecondsType DEF IInv, TypeOK, Stores
<1>3. \A o \in Requests : o # r => req'[o] = req[o]
  BY <1>2 DEF Record
<1>4. /\ req'[r].step \in {"expiring", "admitted"}
      /\ req'[r].step = "expiring" => req'[r].time = x
  <2>1. req[r] \in RequestType
    BY <1>2
  <2>2. req' = [req EXCEPT ![r].step = "expiring"]
        \/ req' = [req EXCEPT ![r].step = "admitted", ![r].time = 0]
    BY DEF Record
  <2> QED
    BY <1>2, <2>1, <2>2 DEF RequestType
<1>5. \A o \in Requests : InLimiter(o)' => req'[o].time <= now'
  <2> TAKE o \in Requests
  <2>1. CASE o = r
    BY <1>1, <1>4, <2>1 DEF InLimiter
  <2>2. CASE o # r
    BY <1>1, <1>3, <2>2 DEF InLimiter, SharedInv
  <2> QED
    BY <2>1, <2>2
<1>6. ASSUME ~lost PROVE CountersInv' /\ FullWindowsInv'
  <2>1. /\ counts' = [counts EXCEPT ![c][x] = @ + 1]
        /\ admitted' = [admitted EXCEPT ![c][Nobody][x] = @ + 1]
    BY <1>6 DEF Record, Admit
  <2>2. \A d \in Clients : d # c =>
          counts'[d] = counts[d] /\ admitted'[d][Nobody] = admitted[d][Nobody]
    BY <1>1, <2>1 DEF IInv, TypeOK
  <2>3. \A s \in Seconds :
          /\ counts'[c][s] = counts[c][s] + (IF s = x THEN 1 ELSE 0)
          /\ admitted'[c][Nobody][s] = a[s] + (IF s = x THEN 1 ELSE 0)
    <3> TAKE s \in Seconds
    <3>1. counts[c][s] \in Nat /\ a[s] \in Nat
      BY <1>1, <1>2
    <3>2. counts'[c][s] = IF s = x THEN counts[c][s] + 1 ELSE counts[c][s]
      <4> HIDE DEF c, x
      <4> QED
        BY <1>1, <2>1 DEF IInv, TypeOK
    <3>3. admitted'[c][Nobody][s] = IF s = x THEN a[s] + 1 ELSE a[s]
      <4>1. Nobody \in Stores /\ admitted \in [Clients -> [Stores -> [Seconds -> Nat]]]
        BY DEF Stores, IInv, TypeOK
      <4> HIDE DEF c, x
      <4> QED
        BY <1>1, <2>1, <4>1
    <3> HIDE DEF c, x, a
    <3> QED
      BY <3>1, <3>2, <3>3
  <2>4. CountersInv /\ FullWindowsInv
    BY <1>6 DEF SharedInv
  <2>5. CountersInv'
    <3> SUFFICES ASSUME NEW d \in Clients, NEW s \in Seconds
                 PROVE  /\ s > now => counts'[d][s] = 0 /\ admitted'[d][Nobody][s] = 0
                        /\ s \in SpanTo(now) => counts'[d][s] = admitted'[d][Nobody][s]
      BY <1>1 DEF CountersInv, SpanTo
    <3>1. CASE d # c
      BY <2>2, <2>4, <3>1 DEF CountersInv
    <3>2. CASE d = c
      <4>1. s > now => s # x
        BY <1>1, <1>2
      <4>2. counts[c][s] \in Nat /\ a[s] \in Nat
        BY <1>1, <1>2
      <4>3. /\ s > now => counts[c][s] = 0 /\ a[s] = 0
            /\ s \in SpanTo(now) => counts[c][s] = a[s]
        BY <1>1, <2>4 DEF CountersInv
      <4> HIDE DEF c, x, a
      <4> QED
        BY <2>3, <3>2, <4>1, <4>2, <4>3
    <3> QED
      BY <3>1, <3>2
  <2>6. ASSUME NEW o \in Requests, NEW d, NEW t, Enters(req[o], d, t)'
        PROVE  o # r /\ Enters(req[o], d, t)
    <3>1. o # r
      BY <1>4, <2>6 DEF Enters
    <3>2. req'[o] = req[o]
      BY <1>3, <3>1
    <3>3. ASSUME req[o].step = "counting", Expected(req[o])' < MaxRequests
          PROVE  Expected(req[o]) < MaxRequests
      <4> DEFINE e == req[o].client
                 U == (req[o].time - Span + 1)..req[o].second
      <4>1. e \in Clients /\ req[o].total \in Nat
        BY <3>3, RequestFields
      <4>2. U \subseteq Seconds /\ IsFiniteSet(U)
        <5>1. /\ req[o].time \in 0..MaxTime
              /\ req[o].second \in (req[o].time - Window + 1)..req[o].time
          BY <3>3, RequestFields DEF IInv, Placed
        <5>2. U \subseteq (req[o].time - Window + 1)..req[o].time
          BY <5>1, SpanIsShort, LimitAssumption
        <5> QED
          BY <5>1, <5>2, SecondsFinite, SecondsType
      <4>3. \A s \in U : /\ counts[e][s] \in Nat /\ counts'[e][s] \in Nat
                         /\ counts[e][s] <= counts'[e][s]
        <5> TAKE s \in U
        <5>1. s \in Seconds /\ counts[e][s] \in Nat
          BY <1>2, <4>1, <4>2
        <5>2. counts'[e][s] = counts[e][s] \/ counts'[e][s] = counts[e][s] + 1
                                           \/ counts'[e][s] = counts[e][s] + 0
          BY <2>2, <2>3, <4>1, <5>1
        <5> HIDE DEF e, U
        <5> QED
          BY <5>1, <5>2
      <4> HIDE DEF e, U
      <4>4. /\ SumOver(counts[e], U) <= SumOver(counts'[e], U)
            /\ SumOver(counts[e], U) \in Nat /\ SumOver(counts'[e], U) \in Nat
        BY <4>2, <4>3, SumGrows, UnitsFinite
      <4>5. req[o].total + SumOver(counts'[e], U) < MaxRequests
        BY <3>2, <3>3 DEF Expected, e, U
      <4> QED
        BY <4>1, <4>4, <4>5, LimitAssumption DEF Expected, e, U
    <3> QED
      BY <2>6, <3>1, <3>2, <3>3 DEF Enters, SpanTo
  <2>7. ASSUME NEW d \in Clients, NEW t \in 0..MaxTime
        PROVE  /\ Entrants(d, t)' \subseteq Entrants(d, t) \ {r}
               /\ Cardinality(Entrants(d, t)') \in Nat
               /\ Cardinality(Entrants(d, t)') <= Cardinality(Entrants(d, t))
               /\ Cardinality(Entrants(d, t)') <= Cardinality(Requests) - 1
               /\ r \in Entrants(d, t) =>
                    Cardinality(Entrants(d, t)') <= Cardinality(Entrants(d, t)) - 1
    <3>1. Entrants(d, t)' \subseteq Entrants(d, t) \ {r}
      BY <2>6 DEF Entrants
    <3>2. IsFiniteSet(Entrants(d, t)) /\ IsFiniteSet(Requests)
      BY SpanTypes, RequestsAssumption
    <3>3. /\ IsFiniteSet(Entrants(d, t) \ {r})
          /\ Cardinality(Entrants(d, t) \ {r}) =
               IF r \in Entrants(d, t) THEN Cardinality(Entrants(d, t)) - 1
               ELSE Cardinality(Entrants(d, t))
      BY <3>2, FS_RemoveElement
    <3>4. /\ IsFiniteSet(Requests \ {r})
          /\ Cardinality(Requests \ {r}) = Cardinality(Requests) - 1
      BY <3>2, FS_RemoveElement
    <3>5. /\ Cardinality(Entrants(d, t)') <= Cardinality(Entrants(d, t) \ {r})
          /\ Cardinality(Entrants(d, t)') \in Nat
      BY <3>1, <3>3, FS_Subset, FS_CardinalityType
    <3>6. Entrants(d, t) \ {r} \subseteq Requests \ {r}
      BY DEF Entrants
    <3>7. Cardinality(Entrants(d, t) \ {r}) <= Cardinality(Requests \ {r})
      BY <3>4, <3>6, FS_Subset
    <3>8. Cardinality(Entrants(d, t)) \in Nat /\ Cardinality(Requests) \in Nat
      BY <3>2, FS_CardinalityType
    <3> QED
      BY <3>1, <3>3, <3>4, <3>5, <3>7, <3>8
  <2>8. ASSUME NEW d \in Clients, NEW t \in 0..MaxTime,
               SumOver(admitted'[d][Nobody], SpanTo(t)) >= MaxRequests
        PROVE  SumOver(admitted'[d][Nobody], SpanTo(t)) + Cardinality(Entrants(d, t)')
                 <= MaxRequests + Cardinality(Requests) - 1
    <3> DEFINE old == SumOver(admitted[d][Nobody], SpanTo(t))
               new == SumOver(admitted'[d][Nobody], SpanTo(t))
    <3>1. old \in Nat /\ Cardinality(Entrants(d, t)) \in Nat /\ Cardinality(Requests) \in Nat
      BY SpanTypes
    <3>2. old >= MaxRequests =>
            old + Cardinality(Entrants(d, t)) <= MaxRequests + Cardinality(Requests) - 1
      BY <2>4 DEF FullWindowsInv
    <3>3. SpanTo(t) \subseteq Seconds /\ IsFiniteSet(SpanTo(t))
      BY SecondsFinite
    <3>4. CASE d = c /\ x \in SpanTo(t)
      <4>1. new = old + 1
        <5>1. /\ \A s \in SpanTo(t) : a[s] \in Nat
              /\ admitted'[c][Nobody][x] = a[x] + 1
              /\ \A s \in SpanTo(t) \ {x} : admitted'[c][Nobody][s] = a[s]
          <6>1. \A s \in Seconds : a[s] \in Nat
            BY <1>1, <1>2
          <6> HIDE DEF a, c, x
          <6>2. \A s \in Seconds : admitted'[c][Nobody][s] = IF s = x THEN a[s] + 1 ELSE a[s]
            BY <2>3, <6>1
          <6> QED
            BY <1>1, <3>3, <6>1, <6>2
        <5>2. admitted'[d][Nobody] = admitted'[c][Nobody] /\ admitted[d][Nobody] = a
          BY <3>4
        <5> HIDE DEF a
        <5>3. SumOver(admitted'[c][Nobody], SpanTo(t)) = SumOver(a, SpanTo(t)) + 1
          BY <3>3, <3>4, <5>1, SumPlusOne
        <5> QED
          BY <5>2, <5>3
      <4>2. r \in Entrants(d, t)
        BY <1>1, <3>4 DEF Entrants, Enters
      <4>3. /\ Cardinality(Entrants(d, t)') \in Nat
            /\ Cardinality(Entrants(d, t)') <= Cardinality(Entrants(d, t)) - 1
            /\ Cardinality(Entrants(d, t)') <= Cardinality(Requests) - 1
        BY <2>7, <4>2
      <4>4. new >= MaxRequests
        BY <2>8
      <4> HIDE DEF old, new
      <4>5. new + Cardinality(Entrants(d, t)') <= MaxRequests + Cardinality(Requests) - 1
        BY <3>1, <3>2, <4>1, <4>3, <4>4, LimitAssumption
      <4> QED
        BY <4>5 DEF new
    <3>5. CASE ~(d = c /\ x \in SpanTo(t))
      <4>1. \A s \in SpanTo(t) : admitted'[d][Nobody][s] = admitted[d][Nobody][s]
        <5> TAKE s \in SpanTo(t)
        <5>1. s \in Seconds /\ admitted[d][Nobody][s] \in Nat
          BY <1>2, <3>3
        <5>2. CASE d # c
          BY <2>2, <5>2
        <5>3. CASE d = c
          BY <2>3, <3>5, <5>1, <5>3
        <5> QED
          BY <5>2, <5>3
      <4>2. new = old
        BY <4>1, SumSame
      <4>3. /\ Cardinality(Entrants(d, t)') \in Nat
            /\ Cardinality(Entrants(d, t)') <= Cardinality(Entrants(d, t))
        BY <2>7
      <4>4. new >= MaxRequests
        BY <2>8
      <4> HIDE DEF old, new
      <4>5. new + Cardinality(Entrants(d, t)') <= MaxRequests + Cardinality(Requests) - 1
        BY <3>1, <3>2, <4>2, <4>3, <4>4, LimitAssumption
      <4> QED
        BY <4>5 DEF new
    <3> QED
      BY <3>4, <3>5
  <2>9. FullWindowsInv'
    BY <2>8 DEF FullWindowsInv, SpanTo
  <2> QED
    BY <2>5, <2>9
<1> QED
  BY <1>1, <1>5, <1>6 DEF SharedInv

\* A second passes: no counter goes that is in the window to the next second,
\* nor, as nothing is lost, one that a request has still to read.
LEMMA TickKeeps ==
    ASSUME IInv, SharedInv, Tick
    PROVE  SharedInv'
<1>1. /\ now \in 0..MaxTime /\ now \in Int /\ Seconds \subseteq Int /\ now' = now + 1
      /\ req \in [Requests -> RequestType] /\ UNCHANGED req
      /\ \A c \in Clients : /\ counts[c] \in [Seconds -> Nat]
                            /\ deadline[c] \in [Seconds -> Nat]
  BY SecondsType DEF Tick, IInv, TypeOK
<1>2. \A c \in Clients, s \in Seconds :
        /\ counts'[c][s] = IF Expired(c, s) THEN 0 ELSE counts[c][s]
        /\ deadline'[c][s] = IF Expired(c, s) THEN Never ELSE deadline[c][s]
  BY DEF Tick
<1>3. \A o \in Requests : InLimiter(o)' => req'[o].time <= now'
  <2> TAKE o \in Requests
  <2>1. req[o].time \in 0..MaxTime
    BY <1>1 DEF RequestType
  <2> QED
    BY <1>1, <2>1 DEF SharedInv, InLimiter
<1>4. \A c \in Clients, s \in Seconds : deadline'[c][s] >= s + Life
  <2> TAKE c \in Clients, s \in Seconds
  <2>1. Never >= s + Life
    BY LifeAssumption, BoundsAssumption, LimitAssumption DEF Never, Seconds
  <2> QED
    BY <1>2, <2>1 DEF SharedInv
<1>5. ASSUME ~lost' PROVE CountersInv' /\ FullWindowsInv'
  <2>1. /\ ~lost /\ UNCHANGED admitted
        /\ \A r \in Requests, s \in Seconds : ~Missed(r, s)
    BY <1>5 DEF Tick, Lose
  <2>2. CountersInv /\ FullWindowsInv
    BY <2>1 DEF SharedInv
  <2>3. CountersInv'
    <3> SUFFICES ASSUME NEW c \in Clients, NEW s \in Seconds
                 PROVE  /\ s > now + 1 => counts'[c][s] = 0 /\ admitted[c][Nobody][s] = 0
                        /\ s \in SpanTo(now + 1) => counts'[c][s] = admitted[c][Nobody][s]
      BY <1>1, <2>1 DEF CountersInv, SpanTo
    <3>1. /\ s > now => counts[c][s] = 0 /\ admitted[c][Nobody][s] = 0
          /\ s \in SpanTo(now) => counts[c][s] = admitted[c][Nobody][s]
      BY <2>2 DEF CountersInv
    <3>2. s \in Int /\ deadline[c][s] \in Nat /\ deadline[c][s] >= s + Life
      BY <1>1 DEF SharedInv
    <3>3. CASE s > now
      BY <1>1, <1>2, <3>1, <3>2, <3>3
    <3>4. CASE ~(s > now)
      <4>1. s \in SpanTo(now + 1) => s \in SpanTo(now) /\ ~Expired(c, s)
        BY <1>1, <3>2, <3>4, SpanIsShort, LifeAssumption DEF SpanTo, Expired
      <4> QED
        BY <1>1, <1>2, <3>1, <3>2, <3>4, <4>1
    <3> QED
      BY <3>3, <3>4
  <2>4. ASSUME NEW o \in Requests, req[o].step = "counting"
        PROVE  Expected(req[o])' = Expected(req[o])
    <3> DEFINE e == req[o].client
               U == (req[o].time - Span + 1)..req[o].second
    <3>1. e \in Clients
      BY <2>4, RequestFields
    <3>2. \A s \in U : counts'[e][s] = counts[e][s]
      <4> TAKE s \in U
      <4>1. req[o].time \in 0..MaxTime /\ req[o].second \in (req[o].time - Window + 1)..req[o].time
        BY <2>4, RequestFields DEF IInv, Placed
      <4>2. s \in Seconds
        BY <4>1, SpanIsShort, LimitAssumption, BoundsAssumption DEF Seconds
      <4>3. ~Expired(e, s)
        BY <2>1, <2>4, <4>2 DEF Missed
      <4> QED
        BY <1>2, <3>1, <4>2, <4>3
    <3>3. SumOver(counts'[e], U) = SumOver(counts[e], U)
      BY <3>2, SumSame
    <3> QED
      BY <1>1, <3>3 DEF Expected
  <2>5. ASSUME NEW c \in Clients, NEW t \in 0..MaxTime, NEW o \in Entrants(c, t)'
        PROVE  o \in Entrants(c, t)
    BY <1>1, <2>4 DEF Entrants, Enters, SpanTo
  <2> QED
    BY <2>1, <2>2, <2>3, <2>5, FewerEntrants
<1> QED
  BY <1>3, <1>4, <1>5 DEF SharedInv

\* A command of Redis fails: nothing is promised from here on, but that the
\* requests in the limiter have arrived.
LEMMA FailKeeps ==
    ASSUME IInv, SharedInv, NEW r \in Requests, CountFails(r) \/ RecordFails(r)
    PROVE  SharedInv'
<1>1. lost' /\ UNCHANGED <<now, deadline>>
  BY DEF CountFails, RecordFails, Fail, Lose
<1>2. req \in [Requests -> RequestType] /\ req[r] \in RequestType
  BY DEF IInv, TypeOK
<1>3. \/ req' = [req EXCEPT ![r] = Free]
      \/ /\ req[r].step = "counting"
         /\ req' = [req EXCEPT ![r].step = "recording", ![r].total = 0, ![r].second = 0]
      \/ req' = [req EXCEPT ![r].step = "admitted", ![r].time = 0]
  BY DEF CountFails, RecordFails, Refuse
<1>4. ASSUME NEW o \in Requests, InLimiter(o)'
      PROVE  InLimiter(o) /\ req'[o].time = req[o].time
  <2>1. CASE o # r
    BY <1>2, <1>3, <1>4, <2>1 DEF InLimiter
  <2>2. CASE o = r
    <3>1. CASE req' = [req EXCEPT ![r] = Free]
      BY <1>2, <1>4, <2>2, <3>1 DEF InLimiter, Free, Fresh
    <3>2. CASE /\ req[r].step = "counting"
               /\ req' = [req EXCEPT ![r].step = "recording", ![r].total = 0, ![r].second = 0]
      BY <1>2, <2>2, <3>2 DEF InLimiter, RequestType
    <3>3. CASE req' = [req EXCEPT ![r].step = "admitted", ![r].time = 0]
      BY <1>2, <1>4, <2>2, <3>3 DEF InLimiter, RequestType
    <3> QED
      BY <1>3, <3>1, <3>2, <3>3
  <2> QED
    BY <2>1, <2>2
<1> QED
  BY <1>1, <1>4 DEF SharedInv

\* EXPIRE gives the counter Life seconds from now, which is not before its second.
LEMMA ExpiryKeeps ==
    ASSUME IInv, SharedInv, NEW r \in Requests, SetExpiry(r)
    PROVE  SharedInv'
<1> DEFINE q == req[r]
           p == [req[r] EXCEPT !.step = "admitted", !.time = 0]
<1>1. /\ q.step = "expiring" /\ q.client \in Clients /\ q.time \in Seconds /\ q.time <= now
      /\ q \in RequestType /\ now \in 0..MaxTime /\ Seconds \subseteq Int
      /\ UNCHANGED <<now, counts, admitted, lost>>
      /\ req' = [req EXCEPT ![r] = p]
  BY RequestFields, SecondsType DEF SetExpiry, SharedInv, InLimiter, IInv, TypeOK
<1>2. p.step = "admitted"
  BY <1>1 DEF RequestType
<1>3. ASSUME NEW c \in Clients, NEW s \in Seconds
      PROVE  deadline'[c][s] >= s + Life
  <2>1. deadline[c][s] >= s + Life
    BY DEF SharedInv
  <2>2. /\ deadline \in [Clients -> [Seconds -> Nat]]
        /\ deadline' = [deadline EXCEPT ![q.client][q.time] =
                          IF counts[q.client][q.time] > 0 THEN now + Life ELSE @]
    BY DEF SetExpiry, IInv, TypeOK
  <2>3. \/ deadline'[c][s] = deadline[c][s]
        \/ s = q.time /\ deadline'[c][s] = now + Life
    <3> HIDE DEF q
    <3> QED
      BY <1>1, <2>2
  <2> QED
    BY <1>1, <2>1, <2>3, LifeAssumption
<1> HIDE DEF p
<1> QED
  BY <1>1, <1>2, <1>3, MoveKeeps DEF Enters

\* As long as the store is Redis.
LEMMA SharedKeeps ==
    ASSUME IInv, shared, SharedInv, [Next]_vars
    PROVE  SharedInv'
<1>1. CASE UNCHANGED vars
  BY <1>1, AsideKeeps DEF vars, Aside
<1>2. CASE Tick
  BY <1>2, TickKeeps
<1>3. ASSUME NEW r \in Requests, Arrive(r) PROVE SharedInv'
  BY <1>3, AsideSteps, AsideKeeps, ArriveKeeps DEF Arrive, ArriveLocal
<1>4. ASSUME NEW r \in Requests,
             Start(r) \/ Enter(r) \/ Complete(r) \/ \E failure \in Failures : Leave(r, failure)
      PROVE  SharedInv'
  BY <1>4, AsideSteps, AsideKeeps
<1>5. ASSUME NEW r \in Requests,
             Count(r) \/ CountFails(r) \/ Record(r) \/ RecordFails(r) \/ SetExpiry(r)
      PROVE  SharedInv'
  BY <1>5, CountKeeps, RecordKeeps, FailKeeps, ExpiryKeeps
<1> QED
  BY <1>1, <1>2, <1>3, <1>4, <1>5 DEF Next

-----------------------------------------------------------------------------
(* What both stores promise.                                               *)

\* Nothing is admitted at first.
LEMMA NoneAtFirst ==
    ASSUME Init
    PROVE  /\ \A c \in Clients, store \in Stores, t \in 0..MaxTime :
                SumOver(admitted[c][store], SpanTo(t)) = 0
           /\ LocalIsExact /\ AdmissionsInv
<1>1. \A c \in Clients, store \in Stores : admitted[c][store] = Nothing
  BY DEF Init, NoneAdmitted
<1>2. \A t \in 0..MaxTime : SumOver(Nothing, SpanTo(t)) = 0
  <2> TAKE t \in 0..MaxTime
  <2>1. SpanTo(t) \subseteq Seconds
    BY SecondsFinite
  <2>2. Units(Nothing, SpanTo(t)) = {}
    BY <2>1 DEF Units, Nothing
  <2> QED
    BY <2>2, FS_EmptySet DEF SumOver
<1>3. \A c \in Clients, store \in Stores, t \in 0..MaxTime :
        SumOver(admitted[c][store], SpanTo(t)) = 0
  BY <1>1, <1>2
<1>4. \A r \in Requests : ~InLimiter(r)
  BY DEF Init, InLimiter, Free, Fresh
<1>5. LocalIsExact
  BY <1>3, LimitAssumption DEF LocalIsExact, Stores
<1>6. LocalInv
  BY <1>1, <1>4 DEF LocalInv, Init, Nothing, Stores
<1>7. SharedInv
  <2>1. \A c \in Clients, s \in Seconds : deadline[c][s] >= s + Life
    <3> TAKE c \in Clients, s \in Seconds
    <3>1. deadline[c][s] = Never
      BY DEF Init
    <3> QED
      BY <3>1, LifeAssumption, BoundsAssumption, LimitAssumption DEF Never, Seconds
  <2>2. CountersInv
    BY <1>1 DEF Init, CountersInv, Nothing, Stores
  <2>3. FullWindowsInv
    BY <1>3, LimitAssumption DEF FullWindowsInv, Stores
  <2> QED
    BY <1>4, <2>1, <2>2, <2>3 DEF SharedInv
<1> QED
  BY <1>3, <1>5, <1>6, <1>7 DEF AdmissionsInv

\* A window with more admissions than the limit has no room for as many
\* requests as are left.
LEMMA FullWindowsBound ==
    ASSUME IInv, FullWindowsInv
    PROVE  OvershootIsBounded
<1> SUFFICES ASSUME NEW c \in Clients, NEW t \in 0..MaxTime
             PROVE  SumOver(admitted[c][Nobody], SpanTo(t))
                      <= MaxRequests + Cardinality(Requests) - 1
  BY DEF OvershootIsBounded
<1> DEFINE sum == SumOver(admitted[c][Nobody], SpanTo(t))
<1>1. sum \in Nat /\ Cardinality(Entrants(c, t)) \in Nat /\ Cardinality(Requests) \in Nat
  BY SpanTypes
<1>2. sum >= MaxRequests =>
        sum + Cardinality(Entrants(c, t)) <= MaxRequests + Cardinality(Requests) - 1
  BY DEF FullWindowsInv
<1> HIDE DEF sum
<1>3. sum <= MaxRequests + Cardinality(Requests) - 1
  BY <1>1, <1>2, LimitAssumption
<1> QED
  BY <1>3 DEF sum

\* The limit holds in memory; with Redis what exceeds it are requests that were
\* in progress together, as long as no command failed and no counter went early:
\* for any limit and number of clients, workers and requests, and for any window,
\* of which the stores keep the last Life seconds.
THEOREM AdmissionsBounded == Spec => []AdmissionsAreBounded
<1> DEFINE I == IInv /\ AdmissionsInv /\ (~shared => LocalIsExact)
<1>1. Init => I
  BY IInvInit, NoneAtFirst
<1>2. I /\ [Next]_vars => I'
  <2> SUFFICES ASSUME I, [Next]_vars PROVE I'
    OBVIOUS
  <2>1. IInv'
    BY IInvStep
  <2>2. shared' = shared
    BY DEF Next, vars, Tick, Arrive, ArriveExcluded, ArriveLocal, ArriveShared, Count,
           CountFails, Record, RecordFails, SetExpiry, Start, Enter, Complete, Leave
  <2>3. CASE shared
    BY <2>1, <2>2, <2>3, SharedKeeps DEF AdmissionsInv
  <2>4. CASE ~shared
    BY <2>1, <2>2, <2>4, LocalKeeps DEF AdmissionsInv
  <2> QED
    BY <2>3, <2>4
<1>3. I => AdmissionsAreBounded
  BY FullWindowsBound DEF AdmissionsAreBounded, AdmissionsInv, SharedInv
<1> QED
  BY <1>1, <1>2, <1>3, PTL DEF Spec
=============================================================================
