--------------------------- MODULE MCConfirmFlow ---------------------------
(* ConfirmFlow on two web workers, for TLC. *)
EXTENDS ConfirmFlow, TLC

CONSTANTS w1, w2, t1, t2, alice, bob, app1, app2, par, mars

MCWorkers == {w1, w2}
MCTokens == {t1, t2}
MCValues == {app1, app2, par, mars}
MCRegions == {par}
MCClients == {alice, bob}
MCSessionOf == [c \in MCClients |-> IF c = alice THEN "s1" ELSE "s2"]
MCUserOf == [c \in MCClients |-> IF c = alice THEN "u1" ELSE "u2"]
MCSymmetry == Permutations(MCWorkers) \union Permutations(MCTokens)

\* One client, one token: the liveness run.
OneClient == {alice}
OneToken == {t1}

E0 == [app_name |-> NoValue, region |-> NoValue]
On(app) == [app_name |-> app, region |-> par]
OnMars(app) == [app_name |-> app, region |-> mars]
Msg(kind, nlu, fallback, complete, persist) ==
    [kind |-> kind, nlu |-> nlu, fallback |-> fallback,
     complete |-> complete, persist |-> persist]

\* Alice issues a command without a target, two whose target a regex found (one
\* without its other entities, one in a region nobody knows), one whose target
\* the NLU found (and persists), and a command that may forget a fact;
\* bob shares neither session nor user with her.
MCMessagesOf ==
    [c \in MCClients |->
       {Msg("confirm", E0, E0, TRUE, FALSE)} \union
       IF c = alice
         THEN {Msg("destructive", E0, E0, TRUE, FALSE),
               Msg("destructive", On(app2), E0, TRUE, TRUE),
               Msg("destructive", E0, On(app1), FALSE, FALSE),
               Msg("destructive", E0, OnMars(app1), TRUE, FALSE),
               Msg("plain", E0, E0, TRUE, FALSE)}
         ELSE {Msg("plain", On(app2), E0, TRUE, TRUE)}]

\* For two clients: without the commands whose target a regex found; bob's plain
\* message may forget what it has persisted.
MCMessagesOfTwo ==
    [c \in MCClients |->
       {m \in MCMessagesOf[c] : m.fallback = E0 /\ (m.kind = "plain" => m.persist)}]
=============================================================================
