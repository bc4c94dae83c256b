------------------------------ MODULE Dialogue ------------------------------
(***************************************************************************)
(* The turns of one conversation over ws.v2: what the NLU service makes of *)
(* a text is merged into the session and, when it is certain, into the     *)
(* facts about the user; the command is the accepted intent's or that of   *)
(* the first rule that matches; the engine asks for what is missing, asks  *)
(* for confirmation, or runs the handler, which sends a request to the     *)
(* platform.  Two commands take two requests.                              *)
(*                                                                         *)
(* An intent stands for the command INTENT_TO_COMMAND gives it.  A text is *)
(* that of NluService, with the rule of the conversation handler it        *)
(* matches: a command and the entities it captures.  Races between turns   *)
(* of several clients, and the failures of Redis and PostgreSQL, each of   *)
(* which ends the connection too, are in ConfirmFlow.                      *)
(***************************************************************************)
EXTENDS CommandCatalogue, NluService, FiniteSets

CONSTANTS
    Keys,               \* names of entities
    Words,              \* their values
    Regions,            \* the words that the enum Region knows
    Numerals,           \* the words that int() and float() accept
    Booleans,           \* the words that _as_bool converts
    Addresses,          \* the words that urlparse() accepts
    Texts,              \* what the user may type
    MaxAttempts,        \* requests to the NLU service: retries + 1
    None

ASSUME AttemptsAssumption == MaxAttempts \in Nat \ {0}
ASSUME WordsAssumption ==
    /\ Regions \union Numerals \union Booleans \union Addresses \subseteq Words
    /\ None \notin Words

\* The older spellings of four names, and all the names of an entity.
Older == "container_type" :> "container_name" @@ "amount" :> "container_amount"
         @@ "env_name" :> "variable_name" @@ "env_value" :> "variable_value"
NamesOf(k) == IF k \in DOMAIN Older THEN {k, Older[k]} ELSE {k}

ASSUME KeysAssumption == \A k \in DOMAIN Older : Older[k] \in Keys => k \in Keys

IsDictionary(d) == DOMAIN d \subseteq Keys /\ \A k \in DOMAIN d : d[k] \in Words

\* A text, its rule and what the rule captures: never under an older name, and
\* always the app and the region for the two commands that are made of two.
ASSUME TextsAssumption ==
    \A text \in Texts :
        /\ text.ranking \in Seq([intent : Spoken \union {None}, score : Int])
        /\ text.found \in Seq([key : Keys, word : Words, score : Int])
        /\ IsDictionary(text.rules) /\ IsDictionary(text.captures)
        /\ text.rule \in Spoken \union {None, "legacy.create_and_deploy", "legacy.show_logs"}
        /\ \A k \in DOMAIN Older : Older[k] \notin DOMAIN text.captures
        /\ text.rule \in {"legacy.create_and_deploy", "legacy.show_logs"} =>
             {"app_name", "region"} \subseteq DOMAIN text.captures

VARIABLES
    session,    \* Redis: the entities of the session, a dictionary
    facts,      \* PostgreSQL: the facts about the user, a dictionary
    granted,    \* Redis: the command and entities that await confirmation, or None
    turn,       \* the turn: its step and what it knows
    reply,      \* what the last turn sent to the client and to the platform
    said,       \* history: the user's last word for each entity in this session
    missed,     \* history: the entities whose last word the session has not got
    shadowed    \* history: the entities whose older name was said after their own

history == <<said, missed, shadowed>>
vars == <<session, facts, granted, turn, reply, history>>

Drop(d, ks) == [k \in DOMAIN d \ ks |-> d[k]]

Idle == [step |-> "idle"]
Silence == [kind |-> "none", command |-> None, sent |-> <<>>, used |-> Empty, missing |-> {}]

Init ==
    /\ session = Empty
    /\ facts = Empty
    /\ granted = None
    /\ turn = Idle
    /\ reply = Silence
    /\ said = Empty /\ missed = {} /\ shadowed = {}

-----------------------------------------------------------------------------
(* The entities of a command.                                              *)

Spelled(d, old, new) ==
    IF old \in DOMAIN d /\ new \notin DOMAIN d THEN d @@ (new :> d[old]) ELSE d

\* Mutant: the older names of two entities are left alone.
NormalizedLess(d) ==
    Spelled(Spelled(d, "variable_name", "env_name"), "variable_value", "env_value")

\* _normalize_entities: an older name stands in for a name that is not there.
Normalized(d) ==
    Spelled(Spelled(Spelled(Spelled(d, "container_name", "container_type"),
                            "container_amount", "amount"),
                    "variable_name", "env_name"),
            "variable_value", "env_value")

\* Mutant: what was said before wins over the message.
ForCommandStale(command, merged, current) == merged @@ current

\* _entities_for_command: a destructive command takes app and region from the
\* message, both of them or neither.
ForCommand(command, merged, current) ==
    IF command = "confirm" THEN merged
    ELSE IF Catalogue[command].destructive /\ ~({"app_name", "region"} \subseteq DOMAIN current)
      THEN current @@ Drop(merged, {"app_name", "region"})
    ELSE current @@ merged

\* _resolve_app_region: entities before facts before the session, and for the
\* region the scope of the message.
Target(entities, scope) ==
    LET known == entities @@ facts @@ session
    IN [app |-> IF "app_name" \in DOMAIN known THEN known["app_name"] ELSE None,
        region |-> IF "region" \in DOMAIN known THEN known["region"] ELSE scope]

\* Mutant: the region is not asked for.
MissingLess(command, entities, scope) ==
    (IF Catalogue[command].scoped /\ Target(entities, scope).app = None
       THEN {"app_name"} \ DOMAIN entities ELSE {})
    \union (Catalogue[command].required \ DOMAIN entities)

\* _get_missing_entities.
Missing(command, entities, scope) ==
    LET target == Target(entities, scope) IN
    (IF Catalogue[command].scoped /\ None \in {target.app, target.region}
       THEN ({"app_name"} \ DOMAIN entities)
            \union (IF scope = None THEN {"region"} \ DOMAIN entities ELSE {})
       ELSE {})
    \union (Catalogue[command].required \ DOMAIN entities)

-----------------------------------------------------------------------------
(* The engine and the handlers.                                            *)

Reply(kind, command, entities) ==
    [Silence EXCEPT !.kind = kind, !.command = command, !.used = entities]

\* Where a command without scope goes.
Destination(command, entities, scope) ==
    IF Catalogue[command].scoped THEN Target(entities, scope)
    ELSE [app |-> IF "app_name" \in DOMAIN entities THEN entities["app_name"] ELSE None,
          region |-> entities["region"]]

\* What the gateway returns of an answer: "json", "empty" (2xx without content)
\* or "failed".  (Of one that "raises", the refresh of the bearer token after a
\* 401, it returns nothing.)
Payload(command, answer) ==
    IF answer = "json" THEN "result"
    ELSE IF Catalogue[command].without # "acknowledged" THEN Catalogue[command].without
    ELSE IF answer = "empty" THEN "accepted" ELSE "refused"

Status(command, payload) ==
    IF command = "apps.delete" /\ payload = "refused" THEN "error" ELSE "success"

\* A number, a repository or a patch that int(), urlparse() or dict() refuses:
\* dict() every text, and the repository only matters without a source.
Unusable(command, entities) ==
    \/ \E k \in Catalogue[command].numbers : entities[k] \notin Numerals
    \/ Catalogue[command].patches \intersect DOMAIN entities # {}
    \/ \E k \in Catalogue[command].addresses :
         entities[k] \notin Addresses /\ "source_url" \notin DOMAIN entities

\* The handler.  What it cannot convert, the region included, raises ValueError
\* ("cut"), and so may the request that it sends ("broken"); nobody catches
\* either before the end of the connection.
Handled(command, entities, scope, answer) ==
    LET target == Destination(command, entities, scope)
        c == Catalogue[command]
    IN IF \E k \in c.flags : entities[k] \notin Booleans
         THEN Reply("warning", command, entities)
       ELSE IF \/ Unusable(command, entities)
               \/ target.region \notin Regions \/ (c.scoped /\ target.app = None)
         THEN Reply("cut", command, entities)
       ELSE [Reply(IF answer = "raises" THEN "broken"
                     ELSE Status(command, Payload(command, answer)), command, entities)
               EXCEPT !.sent = <<[command |-> command, target |-> target,
                                  payload |-> Payload(command, answer)]>>]

\* memory.forget and memory.pin tell whether the fact was there.
HandledLocally(command, entities) ==
    Reply(CASE command \in {"memory.forget", "memory.pin"} ->
                 IF entities["memory_key"] \in DOMAIN facts THEN "success" ELSE "warning"
            [] command = "batch.execute" -> "error"
            [] OTHER -> "success",
          command, entities)

\* CommandEngine.execute; a command that has been confirmed is not asked about.
Executed(command, entities, scope, confirmed, answer) ==
    IF Catalogue[command].destructive /\ ~confirmed
      THEN Reply("confirmation", command, entities)
    ELSE IF Missing(command, entities, scope) # {}
      THEN [Reply("missing", command, entities)
              EXCEPT !.missing = Missing(command, entities, scope)]
    ELSE IF Catalogue[command].without = "local" THEN HandledLocally(command, entities)
    ELSE Handled(command, entities, scope, answer)

Answers == {"json", "empty", "failed", "raises"}

-----------------------------------------------------------------------------
(* The steps of a turn.                                                    *)

\* A text comes in; after an error it comes in over a new connection, with the
\* same x-session-id.
Hear(text) ==
    /\ turn.step = "idle"
    /\ turn' = [step |-> "asked", text |-> text, attempts |-> 1]
    /\ reply' = Silence
    /\ UNCHANGED <<session, facts, granted, history>>

End(answer) == turn' = Idle /\ reply' = answer

\* Mutant: one attempt too many.
ParseFailsAgain ==
    /\ turn.step = "asked"
    /\ \/ /\ turn.attempts <= MaxAttempts
          /\ turn' = [turn EXCEPT !.attempts = @ + 1]
          /\ UNCHANGED reply
       \/ /\ turn.attempts > MaxAttempts
          /\ End([Silence EXCEPT !.kind = "unavailable"])
    /\ UNCHANGED <<session, facts, granted, history>>

\* RasaClient.parse_message: an attempt that fails is made again, the last
\* failure raises.
ParseFails ==
    /\ turn.step = "asked"
    /\ \/ /\ turn.attempts < MaxAttempts
          /\ turn' = [turn EXCEPT !.attempts = @ + 1]
          /\ UNCHANGED reply
       \/ /\ turn.attempts = MaxAttempts
          /\ End([Silence EXCEPT !.kind = "unavailable"])
    /\ UNCHANGED <<session, facts, granted, history>>

\* The history: the user's words for the entities of a text, wherever they were
\* found: in the whole text by a rule of the conversation handler, by a regular
\* expression of the NLU service, or by its model, where the last one counts.
Says(text) ==
    LET named == {text.found[i].key : i \in DOMAIN text.found}
        lastOf(k) == CHOOSE i \in DOMAIN text.found :
            text.found[i].key = k /\ \A j \in DOMAIN text.found : text.found[j].key = k => j <= i
    IN text.captures @@ RuleWords(text.rules) @@ [k \in named |-> text.found[lastOf(k)].word]

\* Those that the session gets: not what the rule captures, nor an app that only
\* the model found, nor what it found without certainty or was not trained for;
\* of several words for one entity the last that is not a repetition.
Kept(text) ==
    LET spoken(k) == {i \in 1 .. Len(text.found) :
                        /\ text.found[i].key = k
                        /\ k \in Known /\ text.found[i].score >= MinEntity}
        fresh(k) == {i \in spoken(k) : \A j \in spoken(k) :
                        j < i => text.found[j].word # text.found[i].word}
        ruled == {k \in DOMAIN text.rules :
                    k = "app_name" => text.rules[k] \notin RegionNames}
        keys == ruled \union {k \in Keys \ {"app_name"} : spoken(k) # {}}
    IN [k \in keys |->
          IF k \in ruled THEN text.rules[k]
          ELSE text.found[CHOOSE i \in fresh(k) : \A j \in fresh(k) : j <= i].word]

\* What the histories make of a text: an entity whose word is not kept is missed
\* until it is said again; one that is said under its older name alone comes to
\* stand in its own shadow.
MissedIn(text) ==
    {k \in DOMAIN Says(text) : k \notin DOMAIN Kept(text) \/ Kept(text)[k] # Says(text)[k]}
ShadowedIn(text) ==
    {k \in DOMAIN Older \intersect DOMAIN said :
        Older[k] \in DOMAIN Says(text) /\ k \notin DOMAIN Says(text)}

Recall(text) ==
    /\ said' = Says(text) @@ said
    /\ missed' = (missed \ DOMAIN Says(text)) \union MissedIn(text)
    /\ shadowed' = (shadowed \ DOMAIN Says(text)) \union ShadowedIn(text)

\* merge_entities takes what any text says, understood or not.
Remembered(text) == Entities(text)

\* _rule_based_fallback: the command a text spells out, or that of the first
\* pattern it matches.
RuleOf(text) == text.rule

\* The command: that of the intent, or else the rule's; but "confirm <token>" is
\* that whatever else it may be.
Resolved(text) ==
    LET intent == Intent(text, None)
    IN IF intent # None /\ RuleOf(text) # "confirm" THEN intent ELSE RuleOf(text)

\* The words a rule captures count as the message only where the rule gave the
\* command and captured some.
ByRule(text) == Intent(text, None) = None /\ DOMAIN text.captures # {}
Current(text) == IF ByRule(text) THEN text.captures ELSE Entities(text)

\* The NLU service answers: its entities are merged, persisted when certain (the
\* store may keep a fact it has), and the command is resolved.
Remember ==
    /\ turn.step = "asked"
    /\ LET text == turn.text
           merged == Remembered(text) @@ session
           command == Resolved(text)
       IN /\ session' = merged
          /\ Recall(text)
          /\ IF ShouldPersist(text)
               THEN \E keeps \in SUBSET (DOMAIN facts \intersect DOMAIN Entities(text)) :
                      facts' = Drop(Entities(text), keeps) @@ facts
               ELSE UNCHANGED facts
          /\ IF command = None
               THEN End([Silence EXCEPT !.kind =
                           IF Action(text.ranking) = "accept" THEN "unrecognised" ELSE "clarify"])
               ELSE /\ turn' = [step |-> "decided", text |-> text, command |-> command,
                                merged |-> IF ByRule(text) THEN text.captures @@ merged
                                                           ELSE merged]
                    /\ UNCHANGED reply
    /\ UNCHANGED granted

EntitiesOfTurn(command) ==
    ForCommand(command, Normalized(turn.merged), Normalized(Current(turn.text)))

ScopeOf(entities) == IF "region" \in DOMAIN entities THEN entities["region"] ELSE None

Decided(commands) == turn.step = "decided" /\ turn.command \in commands

\* A plain command ("confirm" without a token is asked for one), with the record
\* of one that needs to be confirmed and the effect of memory.forget.
Run ==
    /\ Decided(Spoken) /\ RuleOf(turn.text) # "confirm"
    /\ LET entities == EntitiesOfTurn(turn.command)
           command == turn.command
       IN \E answer \in Answers :
            LET result == Executed(command, entities, ScopeOf(entities), FALSE, answer) IN
            /\ End(result)
            /\ granted' = IF result.kind = "confirmation"
                            THEN [command |-> command, entities |-> entities] ELSE granted
            /\ facts' = IF command = "memory.forget" /\ result.kind = "success"
                          THEN Drop(facts, {entities["memory_key"]}) ELSE facts
    /\ UNCHANGED <<session, history>>

\* confirm <token>: what was granted runs with the entities it was asked with,
\* once; a token that is gone is a warning.
Confirm ==
    /\ Decided({"confirm"}) /\ RuleOf(turn.text) = "confirm"
    /\ granted' = None
    /\ IF granted = None THEN End(Reply("warning", "confirm", Empty))
       ELSE \E answer \in Answers :
              End(Executed(granted.command, granted.entities,
                           ScopeOf(EntitiesOfTurn("confirm")), TRUE, answer))
    /\ UNCHANGED <<session, facts, history>>

\* What both commands of create-and-deploy are given.
DeployEntities(entities) ==
    Drop(entities, DOMAIN entities \ {"app_name", "region", "github_repo", "source_url", "git_ref"})

\* legacy.create_and_deploy and legacy.show_logs: the first of two commands.  The
\* deployment follows a creation that reports success, as all do that are sent;
\* the output is asked for when there is a deployment.
First == "legacy.create_and_deploy" :> "apps.create" @@ "legacy.show_logs" :> "deployments.list"

Goes(command, result) ==
    /\ result.kind = "success"
    /\ command = "legacy.show_logs" => result.sent[1].payload = "result"

RunFirst ==
    /\ Decided(DOMAIN First)
    /\ LET all == EntitiesOfTurn(First[turn.command])
           entities == IF turn.command = "legacy.create_and_deploy"
                         THEN DeployEntities(all) ELSE all
       IN \E answer \in Answers, deployed \in BOOLEAN :
         LET result == Executed(First[turn.command], entities, ScopeOf(entities), FALSE, answer)
         IN IF Goes(turn.command, result) /\ (deployed \/ turn.command # "legacy.show_logs")
            THEN /\ turn' = [step |-> "second", text |-> turn.text, command |-> turn.command,
                             entities |-> entities, first |-> result]
                 /\ UNCHANGED reply
            ELSE End(result)
    /\ UNCHANGED <<session, facts, granted, history>>

\* Mutant: the deployment is left to find its region.
PassedOnLess(command, entities) ==
    IF command = "legacy.create_and_deploy" THEN Drop(entities, {"region"})
    ELSE ("deployment_id" :> None) @@ Drop(entities, DOMAIN entities \ {"app_name", "region"})

\* What the second command is given; the id of the deployment is the platform's.
\* (Both names are there: the rule has captured them.)
PassedOn(command, entities) ==
    IF command = "legacy.create_and_deploy" THEN entities
    ELSE ("deployment_id" :> None) @@ Drop(entities, DOMAIN entities \ {"app_name", "region"})

SecondOf == "legacy.create_and_deploy" :> "deployments.create"
            @@ "legacy.show_logs" :> "deployments.output"

RunSecond ==
    /\ turn.step = "second"
    /\ \E answer \in Answers :
         LET result == Executed(SecondOf[turn.command], PassedOn(turn.command, turn.entities),
                                ScopeOf(turn.entities), FALSE, answer)
         IN End([result EXCEPT !.sent = turn.first.sent \o @])
    /\ UNCHANGED <<session, facts, granted, history>>

-----------------------------------------------------------------------------
(* The environment.                                                        *)

\* The session outlives the turn that has just written it.
ExpireSession ==
    /\ turn.step \in {"idle", "asked"}
    /\ session # Empty
    /\ session' = Empty
    /\ said' = Empty /\ missed' = {} /\ shadowed' = {}
    /\ UNCHANGED <<facts, granted, turn, reply>>

ExpireToken ==
    /\ granted # None
    /\ granted' = None
    /\ UNCHANGED <<session, facts, turn, reply, history>>

Step == ParseFails \/ Remember \/ Run \/ Confirm \/ RunFirst \/ RunSecond

Next == (\E text \in Texts : Hear(text)) \/ Step \/ ExpireSession \/ ExpireToken

Spec == Init /\ [][Next]_vars

-----------------------------------------------------------------------------
(* Properties.                                                             *)

TurnTypeOK ==
    \/ turn = Idle
    \/ turn.step = "asked" /\ turn.text \in Texts /\ turn.attempts \in 1 .. MaxAttempts
    \/ /\ turn.step = "decided"
       /\ turn.text \in Texts
       /\ turn.command \in Spoken \union DOMAIN First
       /\ IsDictionary(turn.merged)
    \/ /\ turn.step = "second"
       /\ turn.text \in Texts
       /\ IsDictionary(turn.entities)
       /\ turn.first.kind = "success"

TypeOK ==
    /\ IsDictionary(session) /\ IsDictionary(facts) /\ IsDictionary(said)
    /\ missed \subseteq DOMAIN said /\ shadowed \subseteq DOMAIN Older \intersect DOMAIN said
    /\ granted # None =>
         granted.command \in Spoken /\ IsDictionary(granted.entities)
    /\ TurnTypeOK
    /\ Len(reply.sent) <= 2

\* A turn that ends, for a command that is neither destructive nor "confirm".
Ends == turn.step # "idle" /\ turn'.step = "idle"
Main == IF turn.command \in DOMAIN First THEN First[turn.command] ELSE turn.command
EndsPlain ==
    /\ Ends /\ turn.step # "asked"
    /\ turn.command # "confirm"
    /\ ~Catalogue[Main].destructive

IsBad(k, word) ==
    \/ k = "region" /\ word \notin Regions
    \/ k \in {"amount", "container_amount"} \union AutoscalerNumbers /\ word \notin Numerals
    \/ k = "github_repo" /\ word \notin Addresses
    \/ k = "notifier_patch"

\* Before a request is sent, a command cuts the connection off only for a word
\* that cannot be converted (a region, a number, a repository or a patch) and
\* that the session, the facts, the rule or the confirmed command has: whatever
\* is missing, and wherever the rest comes from, is asked for and does not raise.
\* (A request that raises ends the connection, too.)
CutForABadWord ==
    Ends /\ reply'.kind = "cut" =>
        LET words == {session, facts, turn.text.captures}
              \union (IF granted = None THEN {} ELSE {granted.entities})
        IN \E d \in words : \E k \in DOMAIN d : IsBad(k, d[k])

OnlyBadWordsCutOff == [][CutForABadWord]_vars

\* The entities whose last word a turn cannot have: the session has missed it and
\* the rule does not hand it on.
Unheard == missed \ (IF ByRule(turn.text) THEN DOMAIN turn.text.captures ELSE {})

\* The user is asked for an entity that was said in this session, under its name
\* or an older one, in a text that was understood or not, only if the session has
\* missed the word: an app that only the model has found (nlu.py drops it), what
\* a rule has captured in an earlier turn or where an intent was accepted, and
\* what the model was not sure of.
AsksForTheUnsaid ==
    EndsPlain /\ reply'.kind = "missing" =>
        \A k \in reply'.missing : NamesOf(k) \intersect DOMAIN said \subseteq Unheard

NeverAsksForWhatWasSaid == [][AsksForTheUnsaid]_vars

\* Every request of a turn, the second one included, goes to the app and region
\* that the user has said last in this session, this message first, and to those
\* of the facts only if none was said: a fact that is older than the session
\* does not redirect it.  A name that was missed, even in this very message (an
\* app that only the model found, or that a rule captured where an intent was
\* accepted), is not promised anything: the session's then stands in for it.
GoesWhereSaidLast ==
    EndsPlain =>
        LET words == said @@ facts IN
        \A i \in DOMAIN reply'.sent :
             LET target == reply'.sent[i].target
             IN /\ "region" \notin Unheard => target.region = words["region"]
                /\ "app_name" \notin Unheard /\ target.app # None
                     => target.app = words["app_name"]

TargetIsLastSaid == [][GoesWhereSaidLast]_vars

\* A command runs with the word that was said last for each entity it requires,
\* under whichever name, unless it was missed; but a word said under the older
\* name counts as later than one said under the newer name only in the message
\* that it came with: the session has both, and the newer name is preferred.
RunsWithTheLastWords ==
    EndsPlain /\ turn.step = "decided" /\ reply'.sent # <<>> =>
        \A k \in Catalogue[Main].required :
            NamesOf(k) \intersect Unheard = {} =>
                reply'.used[k] =
                    IF \/ k \notin DOMAIN said
                       \/ k \in shadowed /\ Older[k] \in DOMAIN Current(turn.text)
                      THEN said[Older[k]] ELSE said[k]

ArgumentsAreLastSaid == [][RunsWithTheLastWords]_vars

-----------------------------------------------------------------------------
(* The inductive invariant behind the properties: the session is what was  *)
(* said but for what it has missed, and what a turn knows is made of its   *)
(* text and of the session as it is.                                       *)

Merged(text) == IF ByRule(text) THEN text.captures @@ session ELSE session

FirstEntities(command, text) ==
    LET all == ForCommand(First[command], Normalized(Merged(text)), Normalized(Current(text)))
    IN IF command = "legacy.create_and_deploy" THEN DeployEntities(all) ELSE all

MemoryInv ==
    /\ IsDictionary(session) /\ IsDictionary(facts)
    /\ granted # None =>
         granted.command \in Spoken /\ IsDictionary(granted.entities)

SaidInv ==
    /\ IsDictionary(said)
    /\ DOMAIN session \subseteq DOMAIN said
    /\ \A k \in DOMAIN said \ missed : k \in DOMAIN session /\ session[k] = said[k]
    /\ missed \subseteq DOMAIN said
    /\ shadowed \subseteq DOMAIN Older \intersect DOMAIN said

\* What the histories know of the text of the turn.
HeardInv ==
    turn.step \in {"decided", "second"} =>
        LET says == DOMAIN Says(turn.text) IN
        /\ \A k \in says :
             /\ k \in DOMAIN said /\ said[k] = Says(turn.text)[k] /\ k \notin shadowed
             /\ k \notin DOMAIN Entities(turn.text) => k \in missed
        /\ \A k \in DOMAIN Older \intersect DOMAIN said :
             Older[k] \in says /\ k \notin says => k \in shadowed

DecidedInv ==
    turn.step = "decided" =>
        /\ turn.text \in Texts
        /\ turn.command \in Spoken \union DOMAIN First
        /\ turn.merged = Merged(turn.text)
        /\ session = Entities(turn.text) @@ session

SecondInv ==
    turn.step = "second" =>
        /\ turn.text \in Texts
        /\ turn.command \in DOMAIN First
        /\ turn.entities = FirstEntities(turn.command, turn.text)
        /\ session = Entities(turn.text) @@ session
        /\ Missing(First[turn.command], turn.entities, ScopeOf(turn.entities)) = {}
        /\ turn.first.kind = "success"
        /\ turn.first.sent = <<turn.first.sent[1]>>
        /\ turn.first.sent[1].target =
             Destination(First[turn.command], turn.entities, ScopeOf(turn.entities))
        /\ turn.first.sent[1].target.region \in Regions

DialogueInv ==
    /\ MemoryInv
    /\ SaidInv
    /\ HeardInv
    /\ turn = Idle \/ turn.step \in {"asked", "decided", "second"}
    /\ turn.step = "asked" =>
         turn \in [step : {"asked"}, text : Texts, attempts : 1 .. MaxAttempts]
    /\ DecidedInv
    /\ SecondInv
    /\ Len(reply.sent) <= 2
=============================================================================
