------------------------- MODULE ConfirmedExecution -------------------------
(***************************************************************************)
(* What the confirmation workflow of the copilot promises, with neither    *)
(* Redis, PostgreSQL nor message turns: a destructive command reaches the  *)
(* Scalingo API only under a grant (a confirmation token that was issued   *)
(* for it in the same session), on the application and region the grant    *)
(* names whenever it names them, and no web worker uses a grant twice.     *)
(***************************************************************************)
EXTENDS Naturals, EntityTypes

CONSTANTS
    Workers,    \* web worker processes (gunicorn --workers)
    Sessions,   \* ws.v2 session ids
    Tokens,     \* confirmation tokens
    NoGrant     \* a token that was never issued

Grants == [session : Sessions, entities : EntitySet, complete : BOOLEAN]
Executions == [token : Tokens, session : Sessions, target : Targets]

VARIABLES
    issued,     \* token -> the grant it stands for, or NoGrant
    runs,       \* token -> worker -> how often the worker executed it
    executed    \* the destructive calls made to the Scalingo API

vars == <<issued, runs, executed>>

\* The target keeps every entity that the grant names.
Agrees(grant, target) ==
    \A k \in Keys : grant.entities[k] # NoValue => target[k] = grant.entities[k]

Init ==
    /\ issued = [t \in Tokens |-> NoGrant]
    /\ runs = [t \in Tokens |-> [w \in Workers |-> 0]]
    /\ executed = {}

Issue(t) ==
    /\ issued[t] = NoGrant
    /\ \E g \in Grants : issued' = [issued EXCEPT ![t] = g]
    /\ UNCHANGED <<runs, executed>>

Execute(w, t) ==
    /\ issued[t] # NoGrant
    /\ issued[t].complete
    /\ runs[t][w] = 0
    /\ runs' = [runs EXCEPT ![t][w] = 1]
    /\ \E target \in Targets :
         /\ Agrees(issued[t], target)
         /\ executed' = executed \union
              {[token |-> t, session |-> issued[t].session, target |-> target]}
    /\ UNCHANGED issued

Next ==
    \E t \in Tokens :
        \/ Issue(t)
        \/ \E w \in Workers : Execute(w, t)

Spec == Init /\ [][Next]_vars
=============================================================================
