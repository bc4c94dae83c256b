---------------------------- MODULE ConfirmFlow ----------------------------
(***************************************************************************)
(* One message turn of the ws.v2 handler, from the answer of the NLU to    *)
(* the call of the Scalingo API, with the two memories that all web        *)
(* workers share: Redis (session entities, confirmation tokens) and        *)
(* PostgreSQL (the facts of a user).                                       *)
(*                                                                         *)
(* Everything between the answer of the NLU and the result of the engine   *)
(* runs without an await, so a worker runs one turn at a time; the turns   *)
(* of different workers interleave between any two commands they send to   *)
(* Redis or PostgreSQL, and each such command is one action here.  A       *)
(* client is a session and a user (the x-session-id and x-user-id          *)
(* headers): two connections, or a reconnection, give one client to two    *)
(* workers at once.                                                        *)
(*                                                                         *)
(* Abstracted: of the entities only app_name and region are kept; whether  *)
(* the others a command requires are there is the flag "complete".  The    *)
(* rule by which PostgreSQL keeps an old fact is a free choice here (module *)
(* FactStore has it).  A token is fresh: 32 random bits do not collide.    *)
(***************************************************************************)
EXTENDS Naturals, FiniteSets, EntityTypes

CONSTANTS
    Workers,    \* web worker processes
    Clients,    \* the clients that talk to the service
    SessionOf,  \* client -> session id
    UserOf,     \* client -> user id
    Tokens,     \* the tokens that can be drawn: bounds how many are issued
    NoGrant,    \* a token that was never issued
    NoTurn,     \* an idle worker has no turn
    NoToken,    \* what a message that is no "confirm <token>" carries
    MessagesOf, \* client -> what the NLU and the regex may make of its messages
    Regions     \* the regions the enum Region knows

Kinds == {"plain", "destructive", "confirm"}

\* nlu: interpretation.entities.values; fallback: what a regex extracted, or
\* nothing; persist: memory_hints.should_persist.
MessageType == [kind : Kinds, nlu : EntitySet, fallback : EntitySet,
                complete : BOOLEAN, persist : BOOLEAN]

ASSUME MessagesAssumption == \A c \in Clients : MessagesOf[c] \subseteq MessageType
ASSUME TokensAssumption == NoToken \notin Tokens

Sessions == {SessionOf[c] : c \in Clients}
Users == {UserOf[c] : c \in Clients}

\* The JSON stored under ws:v2:confirm:<session>:<token>.
Grants == [session : Sessions, entities : EntitySet, complete : BOOLEAN]

ASSUME NoGrantAssumption == NoGrant \notin Grants

\* The locals of a turn: the client, its message, the token of a confirm, the
\* merged entities, the facts still to be persisted and the session half of
\* a memory snapshot.
Turns == [client : Clients, msg : MessageType, token : Tokens \union {NoToken},
          merged : EntitySet, todo : SUBSET Keys, snap : EntitySet]

Steps == {"merge_read", "merge_write", "persist", "dispatch", "delete",
          "check_session", "check_facts", "run_session", "run_facts"}

VARIABLES
    session,    \* Redis: session id -> entities
    live,       \* Redis: the confirmation tokens that are stored
    facts,      \* PostgreSQL: user id -> facts
    pc,         \* worker -> the next command of its turn, "idle", or "lost"
                \*   when its turn was cut short and no other has begun
    turn,       \* worker -> the locals of its turn
    issued,     \* history: token -> the JSON it was stored with, or NoGrant
    runs,       \* history: token -> worker -> how often the worker executed it
    executed,   \* history: the destructive calls made to the Scalingo API
    mentioned   \* history: client -> the entities its messages carried

vars == <<session, live, facts, pc, turn, issued, runs, executed, mentioned>>

\* The calls of the API as the abstract specification sees them.
Calls == {[token |-> e.token, session |-> SessionOf[e.client], target |-> e.target] :
            e \in executed}
CE == INSTANCE ConfirmedExecution WITH executed <- Calls

memory == <<session, live, facts>>
history == <<issued, runs, executed, mentioned>>

Init ==
    /\ session = [s \in Sessions |-> NoEntities]
    /\ live = {}
    /\ facts = [u \in Users |-> NoEntities]
    /\ pc = [w \in Workers |-> "idle"]
    /\ turn = [w \in Workers |-> NoTurn]
    /\ issued = [t \in Tokens |-> NoGrant]
    /\ runs = [t \in Tokens |-> [w \in Workers |-> 0]]
    /\ executed = {}
    /\ mentioned = [c \in Clients |-> {}]

-----------------------------------------------------------------------------
(* The operators of a turn.                                                *)

Session(w) == SessionOf[turn[w].client]
User(w) == UserOf[turn[w].client]

\* The pairs of an entity and its value that an entity set holds.
Pairs(entities) == {<<k, entities[k]>> : k \in {x \in Keys : entities[x] # NoValue}}

\* The entities of this message: the regex wins over the NLU when it matched.
Current(msg) == IF msg.fallback # NoEntities THEN msg.fallback ELSE msg.nlu

\* _entities_for_command of a destructive command: unless the message names
\* both the application and the region, neither is taken from the memory.
DestructiveEntities(merged, current) ==
    Update(IF NamesTarget(current) THEN merged ELSE NoEntities, current)

\* Mutant: the memory overrides the entities of the request.
ResolveMemoryFirst(snap, known, entities, scope) ==
    Update(Update(entities, snap), known)

\* _resolve_app_region: session, overridden by facts, overridden by the
\* entities of the request; the region falls back to the context's.
Resolve(snap, known, entities, scope) ==
    LET found == Update(Update(snap, known), entities)
    IN  IF found["region"] = NoValue
          THEN [found EXCEPT !["region"] = scope["region"]]
          ELSE found

\* The grant the turn of w has consumed, and what it resolves to now.
Grant(w) == issued[turn[w].token]
Resolved(w) ==
    Resolve(turn[w].snap, facts[User(w)], Grant(w).entities, turn[w].merged)

\* Mutant: the target of the confirmed command has to be in the memory.
MissingEntitiesInMemory(w) ==
    ~Grant(w).complete \/ ~NamesTarget(Update(turn[w].snap, facts[User(w)]))

\* Mutant: required_entities are not validated.
MissingEntitiesTargetOnly(w) == ~NamesTarget(Resolved(w))

\* _get_missing_entities of the confirmed command.
MissingEntities(w) ==
    \/ ~Grant(w).complete
    \/ /\ ~NamesTarget(Resolved(w))
       /\ \E k \in Keys : Grant(w).entities[k] = NoValue /\ turn[w].merged[k] = NoValue

\* The target resolves, and the gateway's Region(value) knows its region.
Callable(target) == NamesTarget(target) /\ target["region"] \in Regions

Goto(w, step) == pc' = [pc EXCEPT ![w] = step]
Leave(w, step) == Goto(w, step) /\ turn' = [turn EXCEPT ![w] = NoTurn]
EndTurn(w) == Leave(w, "idle")

\* Bound: a token is left for every destructive message that is in a turn.
TokenLeft ==
    Cardinality({t \in Tokens : issued[t] # NoGrant}) +
    Cardinality({w \in Workers : pc[w] \in Steps /\ turn[w].msg.kind = "destructive"})
      < Cardinality(Tokens)

-----------------------------------------------------------------------------
(* A turn, command by command.                                             *)

\* A message of client c has been interpreted; t is what follows "confirm ".
Receive(w, c, msg, t) ==
    /\ pc[w] = "idle"
    /\ msg.kind = "confirm" <=> t # NoToken
    /\ msg.kind = "destructive" => TokenLeft
    /\ turn' = [turn EXCEPT ![w] =
                  [client |-> c, msg |-> msg, token |-> t, merged |-> NoEntities,
                   todo |-> {}, snap |-> NoEntities]]
    /\ Goto(w, "merge_read")
    /\ mentioned' = [mentioned EXCEPT ![c] = @ \union Pairs(msg.nlu) \union Pairs(msg.fallback)]
    /\ UNCHANGED <<memory, issued, runs, executed>>

\* merge_entities: GET the session, update its entities in memory ...
MergeRead(w) ==
    /\ pc[w] = "merge_read"
    /\ turn' = [turn EXCEPT ![w].merged = Update(session[Session(w)], turn[w].msg.nlu)]
    /\ Goto(w, "merge_write")
    /\ UNCHANGED <<memory, history>>

\* The entities of the message that persist_facts stores.
ToPersist(msg) == IF msg.persist THEN {k \in Keys : msg.nlu[k] # NoValue} ELSE {}

\* The facts in todo are still to be stored; then the command is resolved.
GotoPersist(w, todo) == Goto(w, IF todo = {} THEN "dispatch" ELSE "persist")

\* Mutant: every session is stored under one key.
MergeWriteOneKey(w) ==
    /\ pc[w] = "merge_write"
    /\ session' = [s \in Sessions |-> turn[w].merged]
    /\ turn' = [turn EXCEPT ![w].merged = Update(@, turn[w].msg.fallback),
                            ![w].todo = ToPersist(turn[w].msg)]
    /\ GotoPersist(w, ToPersist(turn[w].msg))
    /\ UNCHANGED <<live, facts, history>>

\* ... and SETEX it back.  What a regex extracted joins only the local copy.
MergeWrite(w) ==
    /\ pc[w] = "merge_write"
    /\ session' = [session EXCEPT ![Session(w)] = turn[w].merged]
    /\ turn' = [turn EXCEPT ![w].merged = Update(@, turn[w].msg.fallback),
                            ![w].todo = ToPersist(turn[w].msg)]
    /\ GotoPersist(w, ToPersist(turn[w].msg))
    /\ UNCHANGED <<live, facts, history>>

\* persist_facts: one transaction for each entity; the store may keep the old
\* value (a pinned fact, a higher confidence).
PersistFact(w, k) ==
    /\ pc[w] = "persist"
    /\ k \in turn[w].todo
    /\ \/ facts' = [facts EXCEPT ![User(w)][k] = turn[w].msg.nlu[k]]
       \/ facts[User(w)][k] # NoValue /\ UNCHANGED facts
    /\ turn' = [turn EXCEPT ![w].todo = @ \ {k}]
    /\ GotoPersist(w, turn[w].todo \ {k})
    /\ UNCHANGED <<session, live, history>>

\* A command that is not destructive, or no command: of what is kept here only
\* memory.forget changes anything, a fact of the user.
RunPlain(w) ==
    /\ pc[w] = "dispatch"
    /\ turn[w].msg.kind = "plain"
    /\ \/ UNCHANGED facts
       \/ \E k \in Keys : facts' = [facts EXCEPT ![User(w)][k] = NoValue]
    /\ EndTurn(w)
    /\ UNCHANGED <<session, live, history>>

\* _require_confirmation: SETEX a new token, before anything is validated.
IssueToken(w, t) ==
    /\ pc[w] = "dispatch"
    /\ turn[w].msg.kind = "destructive"
    /\ issued[t] = NoGrant
    /\ issued' = [issued EXCEPT ![t] =
                    [session |-> Session(w),
                     entities |-> DestructiveEntities(turn[w].merged, Current(turn[w].msg)),
                     complete |-> turn[w].msg.complete]]
    /\ live' = live \union {t}
    /\ EndTurn(w)
    /\ UNCHANGED <<session, facts, runs, executed, mentioned>>

\* Mutant: the key of a token does not hold the session.
TokenFoundAnywhere(w) == turn[w].token \in live

\* consume_confirmation_token: GET the token of this session ...
TokenFound(w) == turn[w].token \in live /\ Grant(w).session = Session(w)

\* Mutant: a token that is not found is waited for.
ConsumeGetWaits(w) ==
    /\ pc[w] = "dispatch"
    /\ turn[w].msg.kind = "confirm"
    /\ TokenFound(w)
    /\ Goto(w, "delete")
    /\ UNCHANGED <<memory, turn, history>>

ConsumeGet(w) ==
    /\ pc[w] = "dispatch"
    /\ turn[w].msg.kind = "confirm"
    /\ IF TokenFound(w)
         THEN Goto(w, "delete") /\ UNCHANGED turn
         ELSE EndTurn(w)
    /\ UNCHANGED <<memory, history>>

\* Mutant: the token is left in Redis until it expires.
ConsumeDeleteNothing(w) ==
    /\ pc[w] = "delete"
    /\ Goto(w, "check_session")
    /\ UNCHANGED <<memory, turn, history>>

\* ... and DELETE it.
ConsumeDelete(w) ==
    /\ pc[w] = "delete"
    /\ live' = live \ {turn[w].token}
    /\ Goto(w, "check_session")
    /\ UNCHANGED <<session, facts, turn, history>>

\* The validation of the confirmed command takes a snapshot: the session ...
CheckSession(w) ==
    /\ pc[w] = "check_session"
    /\ turn' = [turn EXCEPT ![w].snap = session[Session(w)]]
    /\ Goto(w, "check_facts")
    /\ UNCHANGED <<memory, history>>

\* ... and the facts; missing entities end the turn with a warning.
CheckFacts(w) ==
    /\ pc[w] = "check_facts"
    /\ IF MissingEntities(w)
         THEN EndTurn(w)
         ELSE Goto(w, "run_session") /\ UNCHANGED turn
    /\ UNCHANGED <<memory, history>>

\* The handler takes a snapshot of its own: the session ...
RunSession(w) ==
    /\ pc[w] = "run_session"
    /\ turn' = [turn EXCEPT ![w].snap = session[Session(w)]]
    /\ Goto(w, "run_facts")
    /\ UNCHANGED <<memory, history>>

\* Mutant: the handler does not check that the target resolves.
RunFactsUnchecked(w) ==
    /\ pc[w] = "run_facts"
    /\ EndTurn(w)
    /\ runs' = [runs EXCEPT ![turn[w].token][w] = @ + 1]
    /\ executed' = executed \union
         {[token |-> turn[w].token, client |-> turn[w].client, target |-> Resolved(w)]}
    /\ UNCHANGED <<memory, issued, mentioned>>

\* ... and the facts, and calls the API on what it resolves.  A target that does
\* not resolve any more, or whose region the enum Region does not know, raises
\* ValueError before the call.  The call itself may raise after an attempt that
\* was carried out (a 401 after a 5xx, and the refresh of the token fails).
RunFacts(w) ==
    /\ pc[w] = "run_facts"
    /\ IF Callable(Resolved(w))
         THEN /\ runs' = [runs EXCEPT ![turn[w].token][w] = @ + 1]
              /\ executed' = executed \union
                   {[token |-> turn[w].token, client |-> turn[w].client,
                     target |-> Resolved(w)]}
              /\ EndTurn(w) \/ Leave(w, "lost")
         ELSE EndTurn(w) /\ UNCHANGED <<runs, executed>>
    /\ UNCHANGED <<memory, issued, mentioned>>

-----------------------------------------------------------------------------
(* The environment.                                                        *)

\* The turn is cut short, the memories are not: the worker is killed, Redis or
\* PostgreSQL does not answer the next command, or the request of the handler
\* raises with nothing carried out (the refresh of the bearer token fails after
\* a 401).  Nothing catches the exception before it has ended the connection.
LoseTurn(w) ==
    /\ pc[w] \in Steps
    /\ Leave(w, "lost")
    /\ UNCHANGED <<memory, history>>

\* gunicorn starts another worker in its place, or the client connects again.
Restart(w) ==
    /\ pc[w] = "lost"
    /\ Goto(w, "idle")
    /\ UNCHANGED <<memory, turn, history>>

\* Redis drops a token (120 s) or a session (session_ttl) at its expiry.
ExpireToken(t) ==
    /\ t \in live
    /\ live' = live \ {t}
    /\ UNCHANGED <<session, facts, pc, turn, history>>

ExpireSession(s) ==
    /\ session[s] # NoEntities
    /\ session' = [session EXCEPT ![s] = NoEntities]
    /\ UNCHANGED <<live, facts, pc, turn, history>>

-----------------------------------------------------------------------------
Step(w) ==
    \/ MergeRead(w)
    \/ MergeWrite(w)
    \/ \E k \in Keys : PersistFact(w, k)
    \/ RunPlain(w)
    \/ \E t \in Tokens : IssueToken(w, t)
    \/ ConsumeGet(w)
    \/ ConsumeDelete(w)
    \/ CheckSession(w)
    \/ CheckFacts(w)
    \/ RunSession(w)
    \/ RunFacts(w)

Next ==
    \/ \E w \in Workers :
         \/ \E c \in Clients : \E msg \in MessagesOf[c], t \in Tokens \union {NoToken} :
              Receive(w, c, msg, t)
         \/ Step(w)
         \/ LoseTurn(w)
         \/ Restart(w)
    \/ \E t \in Tokens : ExpireToken(t)
    \/ \E s \in Sessions : ExpireSession(s)

Spec == Init /\ [][Next]_vars

\* A worker carries its turn on: nothing in a turn waits for another worker.
\* Clients, expiries and lost turns are owed nothing.
FairSpec == Spec /\ \A w \in Workers : WF_vars(Step(w))

-----------------------------------------------------------------------------
(* Properties.                                                             *)

TypeOK ==
    /\ session \in [Sessions -> EntitySet]
    /\ live \subseteq Tokens
    /\ facts \in [Users -> EntitySet]
    /\ pc \in [Workers -> Steps \union {"idle", "lost"}]
    /\ turn \in [Workers -> Turns \union {NoTurn}]
    /\ \A w \in Workers : pc[w] \in Steps => turn[w] \in Turns
    /\ issued \in [Tokens -> Grants \union {NoGrant}]
    /\ runs \in [Tokens -> [Workers -> Nat]]
    /\ executed \subseteq [token : Tokens, client : Clients, target : Targets]
    /\ mentioned \in [Clients -> SUBSET (Keys \X Values)]

\* "Destructive commands require `confirm <token>`": whatever the other
\* workers do between its commands, every destructive call of the API was
\* confirmed with a token issued in the session that confirms it, for a
\* command with all its entities, and no call leaves the application or the
\* region the command was issued for.
AuthorisedExecution ==
    \A e \in executed :
        /\ issued[e.token] # NoGrant
        /\ issued[e.token].session = SessionOf[e.client]
        /\ issued[e.token].complete
        /\ CE!Agrees(issued[e.token], e.target)

\* GET and DELETE of a token are two commands, so that two workers may both
\* find it; but a worker never executes the same token twice, not even when
\* it is killed in between.  (One worker: at most one execution at all.)
AtMostOncePerWorker ==
    \A t \in Tokens, w \in Workers : runs[t][w] <= 1

\* A token under which the API was called can no longer be found in Redis:
\* a retried "confirm <token>", or a crash at any point, does not execute the
\* command again, except in a worker that had found the token before.
ExecutedTokenIsSpent ==
    \A e \in executed : e.token \notin live

\* Nobody else's words choose the target: the application and the region of a
\* destructive call were each named in a message of a client that shares the
\* session or the user with the client that confirmed it.
Related(c, d) == SessionOf[c] = SessionOf[d] \/ UserOf[c] = UserOf[d]
TargetWasMentioned ==
    \A e \in executed : \A k \in Keys :
        \E c \in Clients : Related(c, e.client) /\ <<k, e.target[k]>> \in mentioned[c]

\* The turn ends with the call of the API on what its grant names.
CallsAsGranted(w) ==
    /\ runs'[turn[w].token][w] = runs[turn[w].token][w] + 1
    /\ \E e \in executed' : e.token = turn[w].token /\ e.target = Grant(w).entities

AfterDelete == {"check_session", "check_facts", "run_session", "run_facts"}
ConfirmationsKept ==
    \A w \in Workers :
        (/\ pc[w] \in AfterDelete
         /\ Grant(w).complete
         /\ Callable(Grant(w).entities)
         /\ pc'[w] = "idle")
        => CallsAsGranted(w)

\* Nobody else takes a confirmation away: a turn that has consumed the token of
\* a command that names its application and a known region and has all its
\* entities ends with the call of the API on them, unless it is lost (the
\* worker killed, or an exception of Redis, PostgreSQL or the request).  An
\* expired session and facts that another worker changes or forgets meanwhile
\* cannot turn it into a warning about missing entities, into the exception of
\* a target that does not resolve or into a call of something else.
ConsumedTokenExecutes == [][ConfirmationsKept]_vars

\* The turns of all workers together do what ConfirmedExecution promises.
ImplementsConfirmedExecution == CE!Spec

\* Every turn comes to its end, whatever the memories answer to it.
TurnsEnd == \A w \in Workers : pc[w] \in Steps ~> pc[w] \notin Steps

-----------------------------------------------------------------------------
(* The inductive invariant behind the safety properties: a token in Redis  *)
(* was issued; a worker past the GET of a token holds one that was issued  *)
(* in its session, that it has not executed and that, past the DELETE, is  *)
(* out of Redis for good; a token that was executed is.                    *)

Holding == AfterDelete \union {"delete"}

LiveTokensIssued == \A t \in live : issued[t] # NoGrant

HeldTokens ==
    \A w \in Workers : pc[w] \in Holding =>
        /\ turn[w].token \in Tokens
        /\ issued[turn[w].token] # NoGrant
        /\ issued[turn[w].token].session = Session(w)
        /\ runs[turn[w].token][w] = 0
        /\ pc[w] # "delete" => turn[w].token \notin live
        /\ pc[w] \in {"run_session", "run_facts"} => issued[turn[w].token].complete

RunTokens ==
    \A t \in Tokens, w \in Workers :
        runs[t][w] # 0 => runs[t][w] = 1 /\ issued[t] # NoGrant /\ t \notin live

IInv ==
    /\ TypeOK
    /\ LiveTokensIssued
    /\ HeldTokens
    /\ RunTokens
    /\ AuthorisedExecution
    /\ ExecutedTokenIsSpent

(* ... and the one behind TargetWasMentioned: every value was said by one  *)
(* of the clients whose words may reach the place that holds it.  "heard"  *)
(* is mentioned, before or after a step.                                   *)
Said(heard, clients, entities) ==
    \A k \in Keys : entities[k] # NoValue =>
        \E c \in clients : <<k, entities[k]>> \in heard[c]

InSession(s) == {c \in Clients : SessionOf[c] = s}
OfUser(u) == {c \in Clients : UserOf[c] = u}
Around(d) == {c \in Clients : Related(c, d)}

SaidInTurn(heard, r) ==
    /\ Said(heard, {r.client}, r.msg.nlu)
    /\ Said(heard, {r.client}, r.msg.fallback)
    /\ Said(heard, InSession(SessionOf[r.client]), r.merged)
    /\ Said(heard, InSession(SessionOf[r.client]), r.snap)

SessionsSaid == \A s \in Sessions : Said(mentioned, InSession(s), session[s])
FactsSaid == \A u \in Users : Said(mentioned, OfUser(u), facts[u])
GrantsSaid == \A t \in Tokens : issued[t] # NoGrant =>
    Said(mentioned, InSession(issued[t].session), issued[t].entities)
TurnsSaid == \A w \in Workers : pc[w] \in Steps => SaidInTurn(mentioned, turn[w])

SInv ==
    /\ SessionsSaid
    /\ FactsSaid
    /\ GrantsSaid
    /\ TurnsSaid
    /\ TargetWasMentioned
=============================================================================
