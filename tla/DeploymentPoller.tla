-------------------------- MODULE DeploymentPoller --------------------------
(***************************************************************************)
(* The Celery task that watches a deployment: it asks the platform for the *)
(* status, publishes what has changed and now and then that nothing has,   *)
(* and stops with one final event, unless its request raises.  Publishing  *)
(* swallows every error.                                                   *)
(***************************************************************************)
EXTENDS Services, Integers, Sequences

CONSTANTS
    Patience,   \* polls without news that make up heartbeat_interval_seconds
    Underway,   \* the statuses before the end, in the platform's order
    Endings     \* the statuses with which the platform ends a deployment

ASSUME EndingsAssumption ==
    Endings \subseteq {"success", "crashed-error", "timeout-error", "build-error", "aborted"}
ASSUME UnderwayAssumption ==
    Underway \in Seq({"queued", "building", "pushing", "starting"}) /\ Underway # <<>>
ASSUME PatienceAssumption == Patience \in Nat \ {0}

VARIABLES
    deployment, \* the platform's status of the deployment
    poller,     \* the task: its step, last_status, polls since the last event
    outcome,    \* the status of the last final event
    heard,      \* the final event, if it is the last that reached the channel
    finals      \* history: how many final events were built

pollerVars == <<deployment, poller, outcome, heard, finals>>

Unavailable == "status-unavailable"
NoStatus == "none"

\* Mutant: aborted is not final.
FinalsLess == {"success", "crashed-error", "timeout-error", "build-error"}

\* DeploymentStatus.is_final_status
Finals == {"success", "crashed-error", "timeout-error", "build-error", "aborted"}

Over(step) == [step |-> step, last |-> NoStatus, silent |-> 0]

PollerInit ==
    /\ deployment = Underway[1]
    /\ poller = [step |-> "polling", last |-> NoStatus, silent |-> Patience]
    /\ outcome = NoStatus
    /\ heard = NoStatus
    /\ finals = 0

\* The platform goes on with the deployment, or it fails or is aborted.
Progress ==
    /\ deployment \notin Endings
    /\ \/ \E i \in 1..(Len(Underway) - 1) : deployment = Underway[i] /\ deployment' = Underway[i + 1]
       \/ \E status \in Endings :
            /\ status = "success" => deployment = Underway[Len(Underway)]
            /\ deployment' = status
    /\ UNCHANGED <<poller, outcome, heard, finals>>

-----------------------------------------------------------------------------
\* _publish_to_chat of an event: it reaches the channel if Redis answers.  What
\* the channel has heard is the final event, until another event follows it.
Publish(status, final) ==
    /\ outcome' = IF final THEN status ELSE outcome
    /\ heard' = IF ~up THEN heard ELSE IF final THEN status ELSE NoStatus
    /\ finals' = IF final THEN finals + 1 ELSE finals

\* The platform's answer has a status: news, or a sign of life when it is due.
Answered ==
    LET status == deployment
        final == status \in Finals
    IN /\ poller.step = "polling"
       /\ \/ /\ status # poller.last \/ final
             /\ Publish(status, final)
             /\ poller' = IF final THEN Over("done")
                         ELSE [step |-> "polling", last |-> status, silent |-> 0]
          \/ /\ status = poller.last /\ ~final /\ poller.silent = Patience
             /\ Publish(status, FALSE)
             /\ poller' = [poller EXCEPT !.silent = 0]
          \/ /\ status = poller.last /\ ~final /\ poller.silent < Patience
             /\ poller' = [poller EXCEPT !.silent = @ + 1]
             /\ UNCHANGED <<outcome, heard, finals>>
       /\ UNCHANGED deployment

\* The answer has no status: at first nothing has changed, and a sign of life is due.
AnsweredWithout ==
    /\ poller.step = "polling"
    /\ \/ /\ poller.last # NoStatus
          /\ Publish(NoStatus, FALSE)
          /\ poller' = [poller EXCEPT !.last = NoStatus, !.silent = 0]
       \/ /\ poller.last = NoStatus /\ poller.silent = Patience
          /\ Publish(NoStatus, FALSE)
          /\ poller' = [poller EXCEPT !.silent = 0]
       \/ /\ poller.last = NoStatus /\ poller.silent < Patience
          /\ poller' = [poller EXCEPT !.silent = @ + 1]
          /\ UNCHANGED <<outcome, heard, finals>>
    /\ UNCHANGED deployment

\* Mutant: the task goes on after a failure.
UnavailableAgain ==
    /\ poller.step = "polling"
    /\ Publish(Unavailable, TRUE)
    /\ UNCHANGED <<deployment, poller>>

\* The request fails or the answer is empty: the task gives up, at once.
GiveUp ==
    /\ poller.step = "polling"
    /\ Publish(Unavailable, TRUE)
    /\ poller' = Over("done")
    /\ UNCHANGED deployment

\* The request raises, as it does when the refresh of a rejected token fails:
\* nothing in the task catches it, which ends without a word.
RequestRaises ==
    /\ poller.step = "polling"
    /\ poller' = Over("raised")
    /\ UNCHANGED <<deployment, outcome, heard, finals>>

\* The Celery worker stops: a task that has begun is not taken up again.
WorkerStops ==
    /\ poller.step = "polling"
    /\ poller' = Over("stopped")
    /\ UNCHANGED <<deployment, outcome, heard, finals>>

Poll == Answered \/ AnsweredWithout \/ GiveUp \/ RequestRaises

PollerNext == Progress \/ Poll \/ WorkerStops
=============================================================================
