----------------------------- MODULE Operations -----------------------------
(***************************************************************************)
(* Health probes and the watch over a deployment, both of them over one    *)
(* Redis whose outages come and go at any time, with its keys or without.  *)
(***************************************************************************)
EXTENDS HealthProbes, DeploymentPoller

vars == <<up, healthVars, pollerVars>>

Init == ServicesInit /\ HealthInit /\ PollerInit

Next ==
    \/ HealthNext /\ UNCHANGED <<up, pollerVars>>
    \/ PollerNext /\ UNCHANGED <<up, healthVars>>
    \/ Outage /\ (UNCHANGED healthVars \/ (up' /\ LoseKeys)) /\ UNCHANGED pollerVars

\* The loop of the task goes on, and the platform does answer with the status:
\* an answer without one cannot come for ever.
Fairness == WF_vars(Poll /\ UNCHANGED <<up, healthVars>>)
            /\ SF_vars(Answered /\ UNCHANGED <<up, healthVars>>)

Spec == Init /\ [][Next]_vars /\ Fairness

-----------------------------------------------------------------------------
(* Properties.                                                             *)

Results == {"unknown", "connected", "unreadable", "failed"}
Outcomes == Endings \union {Unavailable, NoStatus}

\* The variables keep their types.
TypeOK ==
    /\ up \in BOOLEAN
    /\ now \in Seconds
    /\ keys \in [Seconds -> 0..(MaxTime + KeyLife)]
    /\ probe \in [Probes ->
         [step : {"resting", "set", "get", "delete", "sum", "reported"},
          second : Seconds, read : BOOLEAN,
          redis : Results, postgres : Results,
          status : Results \union {"healthy", "degraded", "unhealthy"},
          met : BOOLEAN, dropped : BOOLEAN]]
    /\ poller.silent \in 0..Patience
    /\ outcome \in Outcomes /\ heard \in Outcomes

BothConnected(p) == probe[p].redis = "connected" /\ probe[p].postgres = "connected"

\* A report is healthy only when Redis and PostgreSQL were connected, and calls the
\* system less than healthy in spite of that only when the platform was asked too.
\* (The default checkers do ask it, so that not even /health/ready, which is meant
\* to be about the two, ever says healthy with them.)  And Redis is reported
\* unreadable only when another probe of the same second met this one, or Redis had
\* dropped the key by then: it had expired, or was lost in an outage.
ReportsAreExplained ==
    \A p \in Probes : probe[p].step = "reported" =>
        /\ probe[p].status = "healthy" => BothConnected(p)
        /\ probe[p].status \in {"degraded", "unhealthy"} /\ BothConnected(p)
             => Platform \in checkers
        /\ probe[p].redis = "unreadable" => probe[p].met \/ probe[p].dropped

\* The task tells at most one outcome, as its last word: the platform's or that
\* there is none to be had.  It has told none when its worker was stopped or its
\* request raised.
OneOutcome ==
    /\ finals = (IF poller.step = "done" THEN 1 ELSE 0)
    /\ poller.step = "done" => outcome \in {deployment, Unavailable}
    /\ heard # NoStatus => poller.step = "done" /\ heard = outcome

\* A deployment that has ended ends the task, which tells the outcome unless its
\* worker was stopped or its request raised.
PollingEnds == deployment \in Endings ~> poller.step \in {"done", "stopped", "raised"}

-----------------------------------------------------------------------------
(* The inductive invariant behind OneOutcome: what a task that is done has *)
(* told of the platform is an ending, which stays.                         *)

Statuses == Endings \union {Underway[i] : i \in DOMAIN Underway}

OutcomeInv ==
    /\ deployment \in Statuses
    /\ poller \in [step : {"polling", "done", "stopped", "raised"},
                    last : Statuses \union {NoStatus}, silent : 0..Patience]
    /\ finals = (IF poller.step = "done" THEN 1 ELSE 0)
    /\ poller.step = "done" =>
         outcome = Unavailable \/ (deployment \in Endings /\ outcome = deployment)
    /\ heard # NoStatus => poller.step = "done" /\ heard = outcome

-----------------------------------------------------------------------------
(* The inductive invariant behind ReportsAreExplained: a probe that has    *)
(* not met another since it named its key has the key to itself, so what   *)
(* it has set it finds, unless Redis has dropped the key.                  *)

Excused(p) == probe[p].met \/ probe[p].dropped

Seen(p) ==
    /\ probe[p].step = "get" => keys[KeyOf(probe[p].second)] # Gone \/ Excused(p)
    /\ probe[p].step = "delete" => probe[p].read \/ Excused(p)
    /\ probe[p].step \in {"sum", "reported"} /\ probe[p].redis = "unreadable" => Excused(p)

Alone(p) ==
    Testing(p) /\ ~probe[p].met =>
        \A q \in Probes \ {p} : Testing(q) => probe[q].second # probe[p].second

HealthInv ==
    /\ TypeOK
    /\ checkers \in {{Redis, Postgres, Platform}, {Redis, Postgres}}
    /\ \A p \in Probes : Seen(p) /\ Alone(p)
    /\ ReportsAreExplained
=============================================================================
