---------------------------- MODULE HealthProbes ----------------------------
(***************************************************************************)
(* The probes behind /health, /health/ready and /health/dependencies: each *)
(* tries Redis with a key of the current second, then PostgreSQL and the   *)
(* platform, and sums the results up.  Probes run side by side, of one     *)
(* worker or of several.                                                   *)
(*                                                                         *)
(* The check of the platform calls ScalingoHTTPClient.request with         *)
(* parameters it does not have: every region raises, and the check is      *)
(* never passed.                                                           *)
(***************************************************************************)
EXTENDS Services, Integers, FiniteSets

CONSTANTS
    Probes,     \* requests to the health endpoints at once
    KeyLife,    \* what the probe's key lives: ex=10
    MaxTime     \* bound on the clock

ASSUME ProbesAssumption == KeyLife \in Nat \ {0} /\ MaxTime \in Nat

VARIABLES
    now,        \* time.time(), in seconds
    checkers,   \* HealthChecker.checkers: the default ones or those given
    keys,       \* Redis: the probe keys, with the time they expire at
    probe       \* the probes

healthVars == <<now, checkers, keys, probe>>

Redis == "redis"
Postgres == "postgres"
Platform == "scalingo_api"

Seconds == 0..MaxTime
Gone == 0       \* no such key

\* A result is "connected", "unreadable" (the error of the read and write test)
\* or "failed": disconnected, timeout or error, by the text of the exception.
Resting == [step |-> "resting", second |-> 0, read |-> TRUE,
            redis |-> "unknown", postgres |-> "unknown", status |-> "unknown",
            met |-> FALSE, dropped |-> FALSE]

HealthInit ==
    /\ now = 0
    /\ checkers \in {{Redis, Postgres, Platform}, {Redis, Postgres}}
    /\ keys = [s \in Seconds |-> Gone]
    /\ probe = [p \in Probes |-> Resting]

\* Mutant: one key for all seconds.
OneKey(second) == 0

\* health_check_{int(time.time())}
KeyOf(second) == second

Testing(p) == probe[p].step \in {"set", "get", "delete"}

-----------------------------------------------------------------------------
(* RedisHealthChecker.check.                                               *)

\* PING is answered, and the key is named after the current second.
Ping(p) ==
    LET same == {q \in Probes \ {p} : Testing(q) /\ probe[q].second = now} IN
    /\ probe[p].step \in {"resting", "reported"}
    /\ up
    /\ probe' = [q \in Probes |->
                   IF q = p THEN [Resting EXCEPT !.step = "set", !.second = now,
                                                 !.met = (same # {})]
                   ELSE IF q \in same THEN [probe[q] EXCEPT !.met = TRUE] ELSE probe[q]]
    /\ UNCHANGED <<now, checkers, keys>>

\* Mutant: the expiry is given in another unit.
SetForLong(p) ==
    /\ probe[p].step = "set" /\ up
    /\ keys' = [keys EXCEPT ![KeyOf(probe[p].second)] = now + 60 * KeyLife]
    /\ probe' = [probe EXCEPT ![p].step = "get"]
    /\ UNCHANGED <<now, checkers>>

\* SET key 1 EX 10.
Set(p) ==
    /\ probe[p].step = "set" /\ up
    /\ keys' = [keys EXCEPT ![KeyOf(probe[p].second)] = now + KeyLife]
    /\ probe' = [probe EXCEPT ![p].step = "get"]
    /\ UNCHANGED <<now, checkers>>

\* GET key.
Get(p) ==
    /\ probe[p].step = "get" /\ up
    /\ probe' = [probe EXCEPT ![p].step = "delete",
                              ![p].read = (keys[KeyOf(probe[p].second)] # Gone)]
    /\ UNCHANGED <<now, checkers, keys>>

\* DEL key: what was read decides.
Delete(p) ==
    /\ probe[p].step = "delete" /\ up
    /\ keys' = [keys EXCEPT ![KeyOf(probe[p].second)] = Gone]
    /\ probe' = [probe EXCEPT ![p] =
                   IF @.read THEN [Resting EXCEPT !.step = "sum", !.redis = "connected"]
                   ELSE [Resting EXCEPT !.step = "sum", !.redis = "unreadable",
                                        !.met = probe[p].met, !.dropped = probe[p].dropped]]
    /\ UNCHANGED <<now, checkers>>

\* A command raises; a key that was set stays until it expires.
RedisFails(p) ==
    /\ Testing(p) /\ ~up
    /\ probe' = [probe EXCEPT ![p] = [Resting EXCEPT !.step = "sum", !.redis = "failed"]]
    /\ UNCHANGED <<now, checkers, keys>>

\* PING raises.
PingFails(p) ==
    /\ probe[p].step \in {"resting", "reported"} /\ ~up
    /\ probe' = [probe EXCEPT ![p] = [Resting EXCEPT !.step = "sum", !.redis = "failed"]]
    /\ UNCHANGED <<now, checkers, keys>>

-----------------------------------------------------------------------------
(* HealthChecker and HealthService.                                        *)

\* ScalingoHealthChecker.check: no region answers, whatever its state.
PlatformStatus == "failed"

\* check_all: how many of the checks have failed.
FailedChecks(redis, postgres) ==
    Cardinality({c \in checkers : \/ c = Redis /\ redis # "connected"
                                  \/ c = Postgres /\ postgres # "connected"
                                  \/ c = Platform /\ PlatformStatus # "connected"})

\* check_all: the sum of the checks.
Overall(redis, postgres) ==
    LET failed == FailedChecks(redis, postgres) IN
    IF failed = 0 THEN "healthy"
    ELSE IF failed < Cardinality(checkers) THEN "degraded" ELSE "unhealthy"

\* readiness_check: degraded as soon as Redis or PostgreSQL is not connected,
\* and otherwise the sum, which counts the platform.
Readiness(redis, postgres) ==
    IF redis # "connected" \/ postgres # "connected" THEN "degraded"
    ELSE Overall(redis, postgres)

\* PostgreSQL and the platform are tried without an await, and the report is made,
\* for /health or for /health/ready: up to here the two do the same.
SumUp(p, ready) ==
    /\ probe[p].step = "sum"
    /\ \E postgres \in {"connected", "failed"} :
         probe' = [probe EXCEPT ![p].step = "reported", ![p].postgres = postgres,
                     ![p].status = IF ready THEN Readiness(probe[p].redis, postgres)
                                   ELSE Overall(probe[p].redis, postgres)]
    /\ UNCHANGED <<now, checkers, keys>>

\* check_component: a report of Redis alone.
ReportAlone(p) ==
    /\ probe[p].step = "sum"
    /\ probe' = [probe EXCEPT ![p].step = "reported", ![p].status = probe[p].redis]
    /\ UNCHANGED <<now, checkers, keys>>

\* Redis drops the keys that expire by a time, perhaps before a probe has read its own.
Drop(time) ==
    /\ keys' = [s \in Seconds |-> IF keys[s] <= time THEN Gone ELSE keys[s]]
    /\ probe' = [p \in Probes |->
                   IF probe[p].step = "get" /\ keys[KeyOf(probe[p].second)] \in 1..time
                   THEN [probe[p] EXCEPT !.dropped = TRUE] ELSE probe[p]]

\* A second passes: what expires then is dropped.
Tick ==
    /\ now < MaxTime
    /\ now' = now + 1
    /\ Drop(now + 1)
    /\ UNCHANGED checkers

\* Redis restarts, or another server takes over for it, without its keys: all are
\* dropped.  A probe between two commands does not notice.
LoseKeys ==
    /\ Drop(MaxTime + KeyLife)
    /\ UNCHANGED <<now, checkers>>

HealthNext ==
    \/ Tick
    \/ \E p \in Probes :
         \/ Ping(p) \/ PingFails(p) \/ Set(p) \/ Get(p) \/ Delete(p) \/ RedisFails(p)
         \/ (\E ready \in BOOLEAN : SumUp(p, ready)) \/ ReportAlone(p)
=============================================================================
