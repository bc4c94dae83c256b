-------------------------- MODULE OperationsProofs --------------------------
(***************************************************************************)
(* Proofs about Operations: the last word of the deployment poller, for    *)
(* any sequence of statuses and any outages of Redis; and what a health    *)
(* report says, for any number of probes at once.                          *)
(***************************************************************************)
EXTENDS Operations, FiniteSetTheorems, TLAPS

USE DEF OutcomeInv, pollerVars, Finals, Unavailable, NoStatus, Over

\* A status before the end is none of the final ones, nor that there is none.
LEMMA UnderwayIsNotFinal ==
    \A i \in DOMAIN Underway : Underway[i] \notin Finals \union {Unavailable, NoStatus}
BY UnderwayAssumption

\* The watch begins at the platform's first status, with nothing told.
LEMMA OutcomeInit == Init => OutcomeInv
BY UnderwayAssumption, PatienceAssumption DEF Init, PollerInit, Statuses

\* The platform goes on, and what it has ended stays ended.
LEMMA ProgressStep ==
    ASSUME OutcomeInv, Progress
    PROVE  OutcomeInv'
<1>1. deployment' \in Statuses
  <2>1. \A i \in 1 .. Len(Underway) - 1 : i + 1 \in DOMAIN Underway
    BY UnderwayAssumption
  <2> QED
    BY <2>1 DEF Progress, Statuses
<1> QED
  BY <1>1 DEF Progress

\* An answer, with a status or without, the failure to get one, or an exception.
LEMMA PollStep ==
    ASSUME OutcomeInv, Poll
    PROVE  OutcomeInv'
<1> USE PatienceAssumption
<1>1. CASE Answered
  <2>1. deployment \in Finals => deployment \in Endings
    BY UnderwayIsNotFinal DEF Statuses
  <2>2. deployment # NoStatus
    BY UnderwayIsNotFinal, EndingsAssumption DEF Statuses
  <2>3. ASSUME Publish(deployment, FALSE), poller' = [poller EXCEPT !.silent = 0]
        PROVE  OutcomeInv'
    BY <1>1, <2>3 DEF Answered, Publish
  <2>4. ASSUME poller.silent < Patience, poller' = [poller EXCEPT !.silent = @ + 1],
               UNCHANGED <<outcome, heard, finals>>
        PROVE  OutcomeInv'
    BY <1>1, <2>4 DEF Answered
  <2>5. ASSUME Publish(deployment, TRUE), poller' = Over("done"), deployment \in Finals
        PROVE  OutcomeInv'
    BY <1>1, <2>1, <2>2, <2>5 DEF Answered, Publish
  <2>6. ASSUME Publish(deployment, FALSE),
               poller' = [step |-> "polling", last |-> deployment, silent |-> 0]
        PROVE  OutcomeInv'
    BY <1>1, <2>6 DEF Answered, Publish
  <2> QED
    BY <1>1, <2>3, <2>4, <2>5, <2>6 DEF Answered, Publish
<1>2. CASE AnsweredWithout
  <2>1. ASSUME Publish(NoStatus, FALSE), poller' = [poller EXCEPT !.silent = 0]
        PROVE  OutcomeInv'
    BY <1>2, <2>1 DEF AnsweredWithout, Publish
  <2>2. ASSUME Publish(NoStatus, FALSE),
               poller' = [poller EXCEPT !.last = NoStatus, !.silent = 0]
        PROVE  OutcomeInv'
    <3>1. poller' = [step |-> "polling", last |-> NoStatus, silent |-> 0]
      BY <1>2, <2>2 DEF AnsweredWithout
    <3> QED
      BY <1>2, <2>2, <3>1 DEF AnsweredWithout, Publish
  <2>3. ASSUME poller.silent < Patience, poller' = [poller EXCEPT !.silent = @ + 1],
               UNCHANGED <<outcome, heard, finals>>
        PROVE  OutcomeInv'
    BY <1>2, <2>3 DEF AnsweredWithout
  <2> QED
    BY <1>2, <2>1, <2>2, <2>3 DEF AnsweredWithout
<1>3. CASE GiveUp
  BY <1>3 DEF GiveUp, Publish
<1>4. CASE RequestRaises
  BY <1>4 DEF RequestRaises
<1> QED
  BY <1>1, <1>2, <1>3, <1>4 DEF Poll

\* Every step keeps it; the health probes and the outages do not touch it.
LEMMA OutcomeStep == OutcomeInv /\ [Next]_vars => OutcomeInv'
<1> SUFFICES ASSUME OutcomeInv, [Next]_vars PROVE OutcomeInv'
  OBVIOUS
<1>1. CASE WorkerStops
  BY <1>1, PatienceAssumption DEF WorkerStops
<1>2. CASE UNCHANGED pollerVars
  BY <1>2
<1> QED
  BY <1>1, <1>2, ProgressStep, PollStep DEF Next, PollerNext, vars

\* The task tells at most one outcome, as its last word, the platform's or that
\* there is none to be had, and exactly one if it comes to its end by itself and
\* not by an exception, whatever fails and whenever Redis is out.
THEOREM Outcome == Spec => []OneOutcome
<1>1. OutcomeInv => OneOutcome
  BY DEF OneOutcome
<1> QED
  BY OutcomeInit, OutcomeStep, <1>1, PTL DEF Spec

-----------------------------------------------------------------------------
(* The health probes.                                                      *)

ProbeType ==
    [step : {"resting", "set", "get", "delete", "sum", "reported"},
     second : Seconds, read : BOOLEAN,
     redis : Results, postgres : Results,
     status : Results \union {"healthy", "degraded", "unhealthy"},
     met : BOOLEAN, dropped : BOOLEAN]

\* What of HealthInv is about the probes.
ProbesInv ==
    /\ now \in Seconds
    /\ checkers \in {{Redis, Postgres, Platform}, {Redis, Postgres}}
    /\ keys \in [Seconds -> 0..(MaxTime + KeyLife)]
    /\ probe \in [Probes -> ProbeType]
    /\ \A p \in Probes : Seen(p) /\ Alone(p)
    /\ ReportsAreExplained

\* One probe's record is replaced.
LEMMA OneProbeChanges ==
    ASSUME NEW f \in [Probes -> ProbeType], NEW p \in Probes, NEW r \in ProbeType
    PROVE  [f EXCEPT ![p] = r] \in [Probes -> ProbeType]
OBVIOUS

\* A probe at rest is a probe.
LEMMA RestingIsProbe == Resting \in ProbeType
BY ProbesAssumption DEF Resting, ProbeType, Seconds, Results

\* A sum of checks is healthy only when each of them has passed.
LEMMA HealthyMeansAll ==
    ASSUME checkers \in {{Redis, Postgres, Platform}, {Redis, Postgres}},
           NEW redis, NEW postgres, Overall(redis, postgres) = "healthy"
    PROVE  redis = "connected" /\ postgres = "connected"
<1> DEFINE failing == {c \in checkers : \/ c = Redis /\ redis # "connected"
                                        \/ c = Postgres /\ postgres # "connected"
                                        \/ c = Platform /\ PlatformStatus # "connected"}
<1>1. IsFiniteSet(checkers)
  <2>1. IsFiniteSet({Redis, Postgres})
    <3>1. IsFiniteSet({} \union {Redis}) /\ IsFiniteSet(({} \union {Redis}) \union {Postgres})
      BY FS_EmptySet, FS_AddElement
    <3>2. {Redis, Postgres} = ({} \union {Redis}) \union {Postgres}
      OBVIOUS
    <3> QED
      BY <3>1, <3>2
  <2>2. IsFiniteSet({Redis, Postgres} \union {Platform})
    BY <2>1, FS_AddElement
  <2>3. {Redis, Postgres, Platform} = {Redis, Postgres} \union {Platform}
    OBVIOUS
  <2> QED
    BY <2>1, <2>2, <2>3
<1>2. IsFiniteSet(failing)
  BY <1>1, FS_Subset
<1>3. Cardinality(failing) = 0
  BY DEF Overall, FailedChecks
<1>4. failing = {}
  BY <1>2, <1>3, FS_EmptySet
<1> QED
  BY <1>4 DEF Redis, Postgres, Platform, PlatformStatus

\* When both stores are connected and the platform is not asked, the sum is healthy.
LEMMA BothMeanHealthy ==
    ASSUME checkers \in {{Redis, Postgres, Platform}, {Redis, Postgres}},
           Platform \notin checkers
    PROVE  Overall("connected", "connected") = "healthy"
<1>1. {c \in checkers : \/ c = Redis /\ "connected" # "connected"
                        \/ c = Postgres /\ "connected" # "connected"
                        \/ c = Platform /\ PlatformStatus # "connected"} = {}
  OBVIOUS
<1>2. FailedChecks("connected", "connected") = 0
  BY <1>1, FS_EmptySet DEF FailedChecks
<1> QED
  BY <1>2 DEF Overall

\* Before the first probe every key is free.
LEMMA ProbesInit == Init => ProbesInv
BY ProbesAssumption DEF Init, HealthInit, ProbesInv, ProbeType, Resting, Seconds, Gone, Results,
   Seen, Alone, Testing, ReportsAreExplained, BothConnected, Redis, Postgres, Platform

\* A probe that names its key meets the probes that test with the same one.
LEMMA PingStep ==
    ASSUME ProbesInv, NEW p \in Probes, Ping(p)
    PROVE  ProbesInv'
<1> USE DEF ProbesInv, Gone
<1> DEFINE same == {q \in Probes \ {p} : Testing(q) /\ probe[q].second = now}
<1>1. probe' = [q \in Probes |->
                  IF q = p THEN [Resting EXCEPT !.step = "set", !.second = now,
                                                !.met = (same # {})]
                  ELSE IF q \in same THEN [probe[q] EXCEPT !.met = TRUE] ELSE probe[q]]
      /\ UNCHANGED <<now, checkers, keys>>
  BY DEF Ping
<1>2. probe' \in [Probes -> ProbeType]
  <2>1. [Resting EXCEPT !.step = "set", !.second = now, !.met = (same # {})] \in ProbeType
    BY RestingIsProbe DEF ProbeType
  <2>2. \A q \in Probes : [probe[q] EXCEPT !.met = TRUE] \in ProbeType
    BY DEF ProbeType
  <2> QED
    BY <1>1, <2>1, <2>2
<1>3. /\ probe'[p].step = "set" /\ probe'[p].second = now /\ probe'[p].redis = "unknown"
      /\ ~probe'[p].met => \A q \in Probes \ {p} : Testing(q) => probe[q].second # now
  BY <1>1 DEF Resting
<1>4. ASSUME NEW q \in Probes \ {p}
      PROVE  /\ probe'[q].step = probe[q].step /\ probe'[q].second = probe[q].second
             /\ (probe[q].read => probe'[q].read)
             /\ probe'[q].redis = probe[q].redis
             /\ probe'[q].postgres = probe[q].postgres /\ probe'[q].status = probe[q].status
             /\ probe[q].dropped => probe'[q].dropped
             /\ probe[q].met => probe'[q].met
             /\ Testing(q) /\ probe[q].second = now => probe'[q].met
  <2>1. CASE q \in same
    BY <1>1, <2>1 DEF ProbeType
  <2>2. CASE q \notin same
    BY <1>1, <2>2
  <2> QED
    BY <2>1, <2>2
<1> HIDE DEF same
<1>5. ASSUME NEW q \in Probes PROVE Seen(q)'
  <2>1. CASE q = p
    BY <1>3, <2>1 DEF Seen
  <2>2. CASE q # p
    BY <1>1, <1>4, <2>2 DEF Seen, Excused, KeyOf
  <2> QED
    BY <2>1, <2>2
<1>6. ASSUME NEW q \in Probes PROVE Alone(q)'
  <2> SUFFICES ASSUME Testing(q)', ~probe'[q].met, NEW r \in Probes \ {q}, Testing(r)'
               PROVE  probe'[r].second # probe'[q].second
    BY DEF Alone
  <2>1. CASE q = p
    BY <1>3, <1>4, <2>1 DEF Testing
  <2>2. CASE q # p /\ r = p
    BY <1>3, <1>4, <2>2 DEF Testing
  <2>3. CASE q # p /\ r # p
    BY <1>4, <2>3 DEF Alone, Testing
  <2> QED
    BY <2>1, <2>2, <2>3
<1>7. ReportsAreExplained'
  <2> SUFFICES ASSUME NEW q \in Probes, probe'[q].step = "reported"
               PROVE  /\ probe'[q].status = "healthy" => BothConnected(q)'
                      /\ probe'[q].status \in {"degraded", "unhealthy"} /\ BothConnected(q)'
                           => Platform \in checkers'
                      /\ probe'[q].redis = "unreadable" => probe'[q].met \/ probe'[q].dropped
    BY DEF ReportsAreExplained
  <2>1. q # p
    BY <1>3
  <2>2. probe[q].step = "reported" /\ probe'[q].status = probe[q].status
    BY <1>4, <2>1
  <2>3. /\ probe[q].status = "healthy" => BothConnected(q)
        /\ probe[q].status \in {"degraded", "unhealthy"} /\ BothConnected(q)
             => Platform \in checkers
    BY <2>2 DEF ReportsAreExplained
  <2>4. probe[q].redis = "unreadable" => probe[q].met \/ probe[q].dropped
    BY <2>2 DEF ReportsAreExplained
  <2>5. probe'[q].redis = probe[q].redis /\ probe'[q].postgres = probe[q].postgres
    BY <1>4, <2>1
  <2> QED
    BY <1>1, <1>4, <2>1, <2>2, <2>3, <2>4, <2>5 DEF BothConnected
<1> QED
  BY <1>1, <1>2, <1>5, <1>6, <1>7

\* A key that is set is there.
LEMMA SetStep ==
    ASSUME ProbesInv, NEW p \in Probes, Set(p)
    PROVE  ProbesInv'
<1> USE ProbesAssumption DEF ProbesInv, Set, Testing, Gone, KeyOf, Seconds
<1>1. probe' \in [Probes -> ProbeType]
  <2>1. [probe[p] EXCEPT !.step = "get"] \in ProbeType
    BY DEF ProbeType
  <2> QED
    BY <2>1, OneProbeChanges
<1> USE DEF ProbeType
<1>2. keys' \in [Seconds -> 0..(MaxTime + KeyLife)]
  OBVIOUS
<1>3. ASSUME NEW q \in Probes PROVE Seen(q)'
  BY DEF Seen, Excused
<1>4. ASSUME NEW q \in Probes PROVE Alone(q)'
  BY DEF Alone
<1>5. ReportsAreExplained'
  BY DEF ReportsAreExplained, BothConnected
<1> QED
  BY <1>1, <1>2, <1>3, <1>4, <1>5

\* What was there is read.
LEMMA GetStep ==
    ASSUME ProbesInv, NEW p \in Probes, Get(p)
    PROVE  ProbesInv'
<1> USE DEF ProbesInv, Get, Testing
<1>1. probe' \in [Probes -> ProbeType]
  <2>1. [probe[p] EXCEPT !.step = "delete",
                     !.read = (keys[KeyOf(probe[p].second)] # Gone)] \in ProbeType
    BY DEF ProbeType
  <2> QED
    BY <2>1, OneProbeChanges
<1> USE DEF ProbeType
<1>2. ASSUME NEW q \in Probes PROVE Seen(q)'
  BY DEF Seen, Excused
<1>3. ASSUME NEW q \in Probes PROVE Alone(q)'
  BY DEF Alone
<1>4. ReportsAreExplained'
  BY DEF ReportsAreExplained, BothConnected
<1> QED
  BY <1>1, <1>2, <1>3, <1>4

\* A key that is deleted is missing only to probes that have met this one.
LEMMA DeleteStep ==
    ASSUME ProbesInv, NEW p \in Probes, Delete(p)
    PROVE  ProbesInv'
<1> USE ProbesAssumption DEF ProbesInv, Delete, Testing, Resting
<1>1. probe' \in [Probes -> ProbeType]
  <2> HIDE DEF Resting
  <2>1. probe[p].met \in BOOLEAN /\ probe[p].dropped \in BOOLEAN
    BY DEF ProbeType
  <2>2. [Resting EXCEPT !.step = "sum", !.redis = "connected"] \in ProbeType
    BY RestingIsProbe DEF ProbeType, Results
  <2>3. [Resting EXCEPT !.step = "sum", !.redis = "unreadable",
                        !.met = probe[p].met, !.dropped = probe[p].dropped] \in ProbeType
    BY <2>1, RestingIsProbe DEF ProbeType, Results
  <2> QED
    BY <2>2, <2>3, OneProbeChanges
<1> USE DEF ProbeType
<1>2. keys' \in [Seconds -> 0..(MaxTime + KeyLife)]
  BY DEF KeyOf, Seconds, Gone
<1>3. ASSUME NEW q \in Probes PROVE Seen(q)'
  <2>1. CASE q = p
    BY <2>1 DEF Seen, Excused
  <2>2. CASE q # p
    <3>1. probe'[q] = probe[q]
      BY <2>2
    <3>2. probe[q].step = "get" /\ ~probe[q].met => probe[p].second # probe[q].second
      BY <2>2 DEF Alone
    <3> QED
      BY <3>1, <3>2 DEF Seen, Excused, KeyOf
  <2> QED
    BY <2>1, <2>2
<1>4. ASSUME NEW q \in Probes PROVE Alone(q)'
  BY DEF Alone
<1>5. ReportsAreExplained'
  BY DEF ReportsAreExplained, BothConnected
<1> QED
  BY <1>1, <1>2, <1>3, <1>4, <1>5

\* A probe that fails is reported as such.
LEMMA FailureStep ==
    ASSUME ProbesInv, NEW p \in Probes, RedisFails(p) \/ PingFails(p)
    PROVE  ProbesInv'
<1> USE DEF ProbesInv, RedisFails, PingFails, Testing
<1>1. probe' \in [Probes -> ProbeType]
  <2>1. [Resting EXCEPT !.step = "sum", !.redis = "failed"] \in ProbeType
    BY RestingIsProbe DEF ProbeType, Results
  <2> QED
    BY <2>1, OneProbeChanges
<1>2. /\ probe'[p].step = "sum" /\ probe'[p].redis = "failed"
      /\ \A q \in Probes \ {p} : probe'[q] = probe[q]
      /\ UNCHANGED <<now, checkers, keys>>
  BY RestingIsProbe DEF ProbeType
<1>3. ASSUME NEW q \in Probes PROVE Seen(q)'
  BY <1>2 DEF Seen, Excused
<1>4. ASSUME NEW q \in Probes PROVE Alone(q)'
  BY <1>2 DEF Alone
<1>5. ReportsAreExplained'
  BY <1>2 DEF ReportsAreExplained, BothConnected, Excused
<1> QED
  BY <1>1, <1>2, <1>3, <1>4, <1>5

\* The report, of all the checks or of Redis alone.
LEMMA ReportStep ==
    ASSUME ProbesInv, NEW p \in Probes,
           (\E ready \in BOOLEAN : SumUp(p, ready)) \/ ReportAlone(p)
    PROVE  ProbesInv'
<1> USE DEF ProbesInv, Testing
<1> DEFINE Report(status, postgres) ==
      [probe[p] EXCEPT !.step = "reported", !.postgres = postgres, !.status = status]
<1>1. probe[p] \in ProbeType /\ probe[p].step = "sum" /\ UNCHANGED <<now, checkers, keys>>
  BY DEF SumUp, ReportAlone
<1>2. \E postgres \in Results, status \in Results \union {"healthy", "degraded", "unhealthy"} :
        /\ probe' = [probe EXCEPT ![p] = Report(status, postgres)]
        /\ \/ status \in Results
           \/ status = Readiness(probe[p].redis, postgres)
           \/ status = Overall(probe[p].redis, postgres)
  <2>1. CASE ReportAlone(p)
    <3>1. probe[p].redis \in Results /\ probe[p].postgres \in Results
      BY <1>1 DEF ProbeType
    <3>2. probe' = [probe EXCEPT ![p] = Report(probe[p].redis, probe[p].postgres)]
      <4>1. Report(probe[p].redis, probe[p].postgres)
              = [probe[p] EXCEPT !.step = "reported", !.status = probe[p].redis]
        BY <1>1 DEF ProbeType
      <4> QED
        BY <2>1, <4>1 DEF ReportAlone
    <3> QED
      BY <3>1, <3>2
  <2>2. ASSUME NEW ready \in BOOLEAN, SumUp(p, ready)
        PROVE  \E postgres \in Results :
                 \/ probe' = [probe EXCEPT ![p] =
                               Report(Readiness(probe[p].redis, postgres), postgres)]
                 \/ probe' = [probe EXCEPT ![p] =
                               Report(Overall(probe[p].redis, postgres), postgres)]
    <3>1. PICK postgres \in {"connected", "failed"} :
            probe' = [probe EXCEPT ![p].step = "reported", ![p].postgres = postgres,
                        ![p].status = IF ready THEN Readiness(probe[p].redis, postgres)
                                      ELSE Overall(probe[p].redis, postgres)]
      BY <2>2 DEF SumUp
    <3>2. postgres \in Results
      BY DEF Results
    <3> QED
      BY <3>1, <3>2
  <2>3. \A postgres :
          /\ Overall(probe[p].redis, postgres) \in {"healthy", "degraded", "unhealthy"}
          /\ Readiness(probe[p].redis, postgres) \in {"healthy", "degraded", "unhealthy"}
    BY DEF Overall, Readiness
  <2> QED
    BY <2>1, <2>2, <2>3
<1>3. PICK postgres \in Results, status \in Results \union {"healthy", "degraded", "unhealthy"} :
        /\ probe' = [probe EXCEPT ![p] = Report(status, postgres)]
        /\ \/ status \in Results
           \/ status = Readiness(probe[p].redis, postgres)
           \/ status = Overall(probe[p].redis, postgres)
  BY <1>2
<1>4. /\ status = "healthy" => probe[p].redis = "connected" /\ postgres = "connected"
      /\ /\ status \in {"degraded", "unhealthy"}
         /\ probe[p].redis = "connected" /\ postgres = "connected"
         => Platform \in checkers
  <2>1. {"healthy", "degraded", "unhealthy"} \intersect Results = {}
    BY DEF Results
  <2>2. status \in Results \/ status = Overall(probe[p].redis, postgres)
          \/ (status = "degraded"
                /\ ~(probe[p].redis = "connected" /\ postgres = "connected"))
    BY <1>3 DEF Readiness
  <2>3. status = "healthy" => probe[p].redis = "connected" /\ postgres = "connected"
    BY <2>1, <2>2, HealthyMeansAll
  <2>4. ASSUME status \in {"degraded", "unhealthy"},
               probe[p].redis = "connected", postgres = "connected",
               Platform \notin checkers
        PROVE  FALSE
    BY <2>1, <2>2, <2>4, BothMeanHealthy
  <2> QED
    BY <2>3, <2>4
<1>5. probe' \in [Probes -> ProbeType]
  <2>1. Report(status, postgres) \in ProbeType
    BY <1>1 DEF ProbeType
  <2> QED
    BY <1>3, <2>1, OneProbeChanges
<1> USE DEF ProbeType
<1>6. ASSUME NEW q \in Probes PROVE Seen(q)'
  BY <1>1, <1>3 DEF Seen, Excused
<1>7. ASSUME NEW q \in Probes PROVE Alone(q)'
  BY <1>1, <1>3 DEF Alone
<1>8. ReportsAreExplained'
  BY <1>1, <1>3, <1>4 DEF ReportsAreExplained, BothConnected, Seen, Excused
<1> QED
  BY <1>1, <1>5, <1>6, <1>7, <1>8

\* Keys are dropped, when their time has come or all of them: a probe that has not
\* read its own has it noted.
LEMMA DropStep ==
    ASSUME ProbesInv, Tick \/ LoseKeys
    PROVE  ProbesInv'
<1>1. /\ now' \in Seconds /\ UNCHANGED checkers
      /\ \E time \in Nat : Drop(time)
  BY ProbesAssumption DEF ProbesInv, Tick, LoseKeys, Seconds
<1>2. PICK time \in Nat : Drop(time)
  BY <1>1
<1>3. \A p \in Probes : [probe[p] EXCEPT !.dropped = TRUE] \in ProbeType
  BY DEF ProbesInv, ProbeType
<1>4. probe' \in [Probes -> ProbeType]
  BY <1>2, <1>3 DEF Drop, ProbesInv
<1>5. keys' \in [Seconds -> 0..(MaxTime + KeyLife)]
  BY <1>2, ProbesAssumption DEF Drop, ProbesInv, Gone
<1>6. ASSUME NEW q \in Probes
      PROVE  /\ probe'[q].step = probe[q].step /\ probe'[q].second = probe[q].second
             /\ probe'[q].read = probe[q].read /\ probe'[q].met = probe[q].met
             /\ probe'[q].redis = probe[q].redis /\ probe'[q].postgres = probe[q].postgres
             /\ probe'[q].status = probe[q].status
             /\ probe[q].dropped => probe'[q].dropped
             /\ probe[q].step = "get" /\ keys[KeyOf(probe[q].second)] \in 1..time
                  => probe'[q].dropped
             /\ probe[q].second \in Seconds
  BY <1>2 DEF Drop, ProbesInv, ProbeType
<1>7. ASSUME NEW q \in Probes PROVE Seen(q)'
  <2>1. Seen(q)
    BY DEF ProbesInv
  <2>2. CASE probe[q].step = "get"
    <3> DEFINE s == probe[q].second
    <3>1. s \in Seconds /\ keys[s] \in Nat
      BY <1>6, ProbesAssumption DEF ProbesInv
    <3>2. keys'[s] = IF keys[s] <= time THEN Gone ELSE keys[s]
      BY <1>2, <3>1 DEF Drop
    <3>3. keys[s] # Gone \/ Excused(q)
      BY <2>1, <2>2 DEF Seen, KeyOf
    <3>4. keys'[s] # Gone \/ keys[s] = Gone \/ keys[s] \in 1..time
      BY <3>1, <3>2 DEF Gone
    <3> QED
      BY <1>6, <2>2, <3>3, <3>4 DEF Seen, Excused, KeyOf
  <2>3. CASE probe[q].step # "get"
    BY <1>6, <2>1, <2>3 DEF Seen, Excused
  <2> QED
    BY <2>2, <2>3
<1>8. ASSUME NEW q \in Probes PROVE Alone(q)'
  BY <1>6 DEF ProbesInv, Alone, Testing
<1>9. ReportsAreExplained'
  BY <1>1, <1>6 DEF ProbesInv, ReportsAreExplained, BothConnected
<1> QED
  BY <1>1, <1>4, <1>5, <1>7, <1>8, <1>9 DEF ProbesInv

\* Every step keeps it; the poller does not touch it, an outage may drop the keys.
LEMMA ProbesStep == ProbesInv /\ [Next]_vars => ProbesInv'
<1>1. CASE UNCHANGED healthVars
  BY <1>1 DEF healthVars, ProbesInv, Seen, Alone, Excused, Testing, ReportsAreExplained,
              BothConnected
<1>2. CASE HealthNext
  BY <1>2, PingStep, SetStep, GetStep, DeleteStep, FailureStep, ReportStep, DropStep
     DEF HealthNext
<1>3. CASE LoseKeys
  BY <1>3, DropStep
<1> QED
  BY <1>1, <1>2, <1>3 DEF Next, vars, healthVars

\* The poller tells of endings, or that there is no status.
LEMMA OutcomesStep ==
    ASSUME OutcomeInv, up \in BOOLEAN, outcome \in Outcomes, [Next]_vars
    PROVE  up' \in BOOLEAN /\ outcome' \in Outcomes
<1>1. deployment \in Finals => deployment \in Endings
  BY UnderwayIsNotFinal DEF Statuses
<1>2. CASE Poll /\ UNCHANGED <<up, healthVars>>
  BY <1>1, <1>2 DEF Poll, Answered, AnsweredWithout, GiveUp, RequestRaises, Publish, Outcomes
<1> QED
  BY <1>2 DEF Next, PollerNext, Progress, WorkerStops, Outage, HealthNext, vars

\* Together they are the invariant that TLC has checked.
LEMMA HealthInvParts ==
    ASSUME ProbesInv, OutcomeInv, up \in BOOLEAN, outcome \in Outcomes
    PROVE  HealthInv
BY DEF HealthInv, TypeOK, ProbesInv, ProbeType, Outcomes

\* The invariant of the probes and that of the poller, in every state.
LEMMA Health == Spec => [](HealthInv /\ OutcomeInv)
<1> DEFINE I == ProbesInv /\ OutcomeInv /\ up \in BOOLEAN /\ outcome \in Outcomes
<1>1. Init => I
  BY ProbesInit, OutcomeInit DEF Init, ServicesInit, PollerInit, Outcomes
<1>2. I /\ [Next]_vars => I'
  BY ProbesStep, OutcomeStep, OutcomesStep
<1>3. I => HealthInv /\ OutcomeInv
  BY HealthInvParts
<1> QED
  BY <1>1, <1>2, <1>3, PTL DEF Spec

\* The variables keep their types.
THEOREM TypeCorrect == Spec => []TypeOK
<1>1. HealthInv => TypeOK
  BY DEF HealthInv
<1> QED
  BY Health, <1>1, PTL

\* A report is healthy only when both stores were connected, and anything less in
\* spite of that only when the platform was asked too; and Redis is called
\* unreadable only to a probe that met another one or whose key Redis has dropped,
\* for any number of probes over one Redis.
THEOREM ReportsExplained == Spec => []ReportsAreExplained
<1>1. HealthInv => ReportsAreExplained
  BY DEF HealthInv
<1> QED
  BY Health, <1>1, PTL
=============================================================================
