# A verification project for the Scalingo copilot

The repository is a chat assistant that operates applications on the Scalingo
platform. Its WebSocket service interprets a message with an NLU service,
keeps what the user says in two memories, asks for a confirmation before
anything destructive and calls the Scalingo REST API. This directory holds
TLA+ models of that program, the TLC configurations that check them and the
theorems the TLA+ proof system has checked about them.

    tlc -workers 2 -config MCConfirmFlow_tokens.cfg MCConfirmFlow.tla
    tlapm ConfirmFlowProofs.tla

`PROJECT.json` is the index: components, runs, mutants (a plausible bug in the
code for every property, which the run must then find), the map from each
definition to the lines it translates, hazards, theorems.

## 1. Inventory

Paths are under `src/api-app/app/` unless they say otherwise.

| component | state | operations | correct when |
|---|---|---|---|
| ws.v2 handler, `copilot/conversation/websocket_handler.py` | none of its own; the locals of a turn | authenticate, one turn per message, the final lines, the ping task | a turn ends; a destructive command never takes half of its target from the memory; every exit unregisters |
| session memory and confirmation tokens, `copilot/memory/redis_store.py`, `service.py` | Redis: session entities (`session_ttl`), tokens (120 s) | `get/put_session`, `merge_entities`, `issue/consume_confirmation_token` | a token works in its session only, and once |
| fact store, `copilot/memory/postgres_store.py` | PostgreSQL: facts, tags, an event log | upsert, forget, pin, tag, untag, version | pinned or more certain values stay; the log tells the table; tags die with their fact |
| command engine and confirmation, `copilot/orchestration/engine.py`, `handlers/` | none | `execute`, `_require_confirmation`, `_get_missing_entities`, `_resolve_app_region` | a destructive call has been confirmed and goes to the application it was confirmed for |
| gateway, `copilot/scalingo_ops/gateway.py` | none | one method per endpoint, `batch_execute` | the count of failures is the failures |
| HTTP clients and tokens, `infrastructure/scalingo/` | the bearer token and its expiry; the shared `httpx.AsyncClient` | `request` (retries), `get_token`, `refresh` | a retry is sent with a valid token; an unsafe request is not carried out twice; every outcome is an `OperationResult` |
| connection manager, `copilot/conversation/connection_manager.py` | connections by id and by session | register, authenticate, record, ping, clean up, unregister | the tables agree; nothing stays behind; the limit holds |
| NLU adapter, Rasa client, `copilot/nlu/`, `infrastructure/rasa/`; NLU service, `src/nlu-app/app/` | none | `parse_message`, `interpret`, accept/clarify/reject | a rejected message commands nothing |
| response cache, `infrastructure/cache/` | entries in LRU order, tag index, accounted size | get, set, delete, invalidate, clean up (thread) | index, size and entries agree; expired entries are not served |
| rate limiter, `middleware/rate_limit_middleware.py` | time stamps per client (memory or Redis) | count, then record | little more than the limit in any window up to 60 s |
| deployment poller, `tasks.py` | Celery task, its retries | poll, publish | the user hears of the outcome |
| health checks, `services/health_service.py`, `infrastructure/health/` | a test key in Redis | probe, aggregate | what is reported is so |
| logging and error middlewares, `middleware/`, `core/logging.py` | the logging context of the thread | save, set, restore | a line carries its own request's ids |
| metrics, logs, auth and security middlewares, use cases, wiring | counters, settings | – | nothing depends on them |

How they interact. The handler is one coroutine per connection. It awaits the
NLU; from the answer of the NLU to the result of the engine it calls plain
synchronous code, so inside one web worker (one process, one event loop) turns
do not interleave. The `Procfile` starts `WEB_CONCURRENCY` workers (2 unless it
is set), which share Redis and PostgreSQL: turns on *different* workers
interleave between any two commands they send to a memory. A session id is a
header the client chooses, so two connections, or a reconnection to the other
worker, put one session on two workers. The handlers of commands call the
gateway, which calls the HTTP client, which asks the token provider. The cache
has a cleanup thread, the connection manager two background tasks, the poller
runs in a Celery worker.

What is hard, and therefore what the properties are about: read-then-write
sequences on Redis and PostgreSQL between workers (the token's GET and DELETE,
`merge_entities`, `upsert_fact`, `add_tag`); data read for a validation and read
again for the action; kills between two commands; expiries at any moment;
retries of requests that may have been carried out; exits that skip the
clean-up; tables that must agree after a step that raises half way. The list
with its lines is `hazards` in `PROJECT.json`; an entry without a property says
why it has none.

## 2. Modules

| module | what it is |
|---|---|
| `EntityTypes` | entity sets, `Update` (dict update), shared by the next two |
| `ConfirmedExecution` | abstract: what the confirmation workflow promises |
| `ConfirmFlow` | detailed: one message turn, command by command, on several workers |
| `MCConfirmFlow` (`_tokens`, `_clients`) | its instances for TLC |
| `ConfirmFlowProofs` | its theorems, the refinement among them |
| `FactStore` | the PostgreSQL memory under overlapping transactions |
| `MCFactStore`, `FactStoreProofs` | its instance and its theorems |
| `ScalingoRequest` | both HTTP clients and the token provider they share |
| `MCScalingoRequest` (and `_stale`, `_raises`, `_repeated`), `ScalingoRequestProofs` | its instances and its theorems |
| `CommandCatalogue`, `NluService` | operators: the registry of commands; what the NLU service makes of a text |
| `Dictionaries` | `@@` and `:>` as definitions a prover can expand |
| `Dialogue` (extends all three), `MCDialogue`, `DialogueProofs` | the turns of one conversation, with their content |
| `ConnectionLifecycle`, `MCConnectionLifecycle`, `ConnectionLifecycleProofs` | connections, ping tasks and sweeps of one worker |
| `ResponseCache`, `MCResponseCache`, `ResponseCacheProofs` | the cache, its callers and its cleanup threads |
| `Sums` | sums over a set as cardinalities, for `ResponseCache` and `RequestPipeline` |
| `RequestPipeline`, `MCRequestPipeline`, `RequestPipelineProofs` | rate limiter, logging and error middlewares around a request |
| `Services`, `HealthProbes`, `DeploymentPoller` | Redis and its outages, and two components that use it |
| `Operations` (composes the three), `MCOperations`, `OperationsProofs` | both of them over one Redis |

### ConfirmFlow

`session`, `live`, `facts` are what Redis and PostgreSQL hold; `pc[w]` is the
next command that worker `w` sends to one of them and `turn[w]` the locals of
its turn. `issued`, `runs`, `executed` and `mentioned` are histories: nothing
reads them to decide anything but what the stored token itself says (the JSON
under the token's key is `issued[t]`, its presence is `t \in live`).

| action | code |
|---|---|
| `Receive` | the answer of the NLU and of the regex fallbacks, `websocket_handler.py` |
| `MergeRead`, `MergeWrite` | `merge_entities`: GET, update, SETEX |
| `PersistFact` | `persist_facts`, one transaction per entity |
| `RunPlain` | a command that needs no confirmation |
| `IssueToken` | `_require_confirmation` with the entities `_entities_for_command` picks |
| `ConsumeGet`, `ConsumeDelete` | `consume_confirmation_token`: GET, DELETE |
| `CheckSession`, `CheckFacts` | the snapshot of `_get_missing_entities` and its verdict |
| `RunSession`, `RunFacts` | the snapshot of `_resolve_app_region`, `ValueError` (no target, or a region the enum `Region` does not know), the API call |
| `LoseTurn`, `Restart` | a turn cut short ("lost"): a killed worker, a memory that does not answer, a request that raises; the worker gunicorn starts in its place, or the client's next connection |
| `ExpireToken`, `ExpireSession` | Redis expiries |

Abstractions. Of the entities only `app_name` and `region` are kept, because
they choose the target; whether the other required ones are there is the flag
`complete`. The upsert's choice between old and new value is free here
(`FactStore` has the rule), so what is shown holds for any such rule. Tokens are
fresh. `AppDeleteHandler` stands for the eleven destructive handlers, all of
which resolve the application and the region first. A turn of kind "plain"
stands for every other command: it stores entities and facts and then does
nothing this model keeps, but for `memory.forget`, which deletes a fact
(`RunPlain`). A call may raise after it was carried out (a 5xx, a second attempt
answered 401 and a failing refresh, `http_client.py:82`) and before anything was
(`LoseTurn`): nothing catches either, `executed` tells them apart.

Properties and what they rule out:

* `AuthorisedExecution` – a call without a token of its own session, with
  entities missing, or on another application than the token names, because the
  session or the facts changed between validation and action.
* `AtMostOncePerWorker`, `ExecutedTokenIsSpent` – GET and DELETE are two
  commands, so two workers that get the same confirm at the same time *can both
  execute it*. The code gives no stronger promise; these two say exactly what is
  left: no worker twice, and never after the token has been executed, except by
  a worker that had already found it.
* `ConsumedTokenExecutes` – a turn that has consumed a confirmation with a full
  target in a known region ends (its worker is idle again) with the call on what
  it names, whatever expires or is forgotten meanwhile; only a turn that is cut
  short ("lost": killed, a memory that does not answer, a request that raises)
  loses it. Without a full target, or in a region the enum does not know, it
  may be lost, too: the token is deleted before anything is validated.
* `TargetWasMentioned` – a target that came from the memories was named by
  somebody who shares the session or the user id.
* `TurnsEnd` – liveness: a turn ends, or is cut short.
* `ImplementsConfirmedExecution` – all of it as one abstract machine.

### FactStore

One user and one scope (every statement filters on both). A transaction of
PostgreSQL at READ COMMITTED is cut where its outcome depends on an answer it
got earlier: `SelectFact` then `WriteFact` for `upsert_fact`; `CheckFact`,
`CheckTag`, `InsertTag` for `add_tag`; one action for the operations with a
single writing statement. A write and its COMMIT are one action because the row
lock is held in between. `Crash` rolls back.

* `LogTellsFacts` – the log of events, read on its own, says which facts exist,
  which are pinned and how certain they are, even when an upsert recreates a row
  that was forgotten after its SELECT.
* `TaggedFactsExist` – the same for tags and `ON DELETE CASCADE`.
* `OverwriteNeedsOverlap` – the rule "pinned or more certain stays" can only be
  broken by an upsert whose SELECT another commit on the key has overtaken.

### ScalingoRequest

`shared`, fixed in `Init`, says which client is used. The synchronous one
(`ScalingoHTTPClient`, the one `main.py`, the command engine and the Celery tasks
are wired with) blocks, so one request runs at a time; requests of
`AsyncScalingoHTTPClient` interleave at their awaits, and the token provider,
called through `asyncio.to_thread`, between its statements. `minted`, `valid` are
Scalingo's side of the bearer tokens, `token`, `fresh` the provider's, `client` is
`self._client`, `req[r]` the arguments and locals of a request with the history
the properties need.

| action | code |
|---|---|
| `Start`, `StartUnknown` | the call of `request()`; a region without a URL |
| `GetToken`, `ReturnToken` | `get_token` |
| `Exchange`, `ExchangeFails`, `Store` | `refresh`, from `get_token` or after a 401 |
| `ConnectOwn` | the `httpx.Client` of one send |
| `ConnectFirst`, `ConnectKept`, `CloseOther`, `Reconnect` | the kept `httpx.AsyncClient` |
| `Serve` | the API carries the request out |
| `AnswerOK`, `AnswerRefused`, `AnswerUnauthorized`, `AnswerTransient`, `NoAnswer`, `Backoff` | the branches of `request()` |
| `Revoke`, `Expire`, `CloseBegin`, `CloseEnd` | the end of a token; the clock; `close()`, `__aexit__` |

The API answers 401 exactly when the token it was sent is not valid, and a 429,
5xx or no answer whether it carried the request out or not. The scalar results
are not told apart: every `OperationResult` is "idle", an exception "raised".

* `SendsBounded` – two kinds of retry share one counter but not one condition.
* `SentToOwnRegion` – several coroutines replace the kept client at the same
  time and still none sends a request (a deletion, say) to another region. It
  rests on there being no await between building the client and using it.
* `SyncResendCarriesNewToken` – what is sent after a 401 is not the rejected token.

Three runs show what the code does *not* do, each against words of the
repository (`findings` in `PROJECT.json`): the asynchronous client repeats a
request with the very token that was rejected (`http_stale_token`), a refresh that
fails after a 401 escapes as an exception (`http_raises`), and a request that is
not idempotent is carried out twice (`http_repeated`). Also reachable, and
without a document that says otherwise: a coroutine finds the kept client
closed by another one, and its request fails as if no token could be had.

### Dialogue, CommandCatalogue, NluService

`ConfirmFlow` has the races of a turn and abstracts its content; `Dialogue` has
the content of one conversation without the races: `session`, `facts` and
`granted` are dictionaries in Redis and PostgreSQL, `turn` the turn in progress,
`reply` what the last turn sent. Three histories are written from what the user
types alone (`Says`: the words of the text, those the NLU service drops and those
a rule captures included): `said` is the last word for each entity, `missed` the
entities whose last word never reached the session, `shadowed` those whose older
name was said after their own. `CommandCatalogue` is the registry of the 58 commands with the required
entities, scope, conversions and empty results of each, written as sets of pairs
(name, command); `NluService` makes an accepted intent and entities of a text's
ranking, found words and rules: of the words found for a key the last one
stays, and a word that repeats an earlier one of its key is dropped first.

| action | code |
|---|---|
| `Hear` | a text message; after an error, over a new connection with the same session |
| `ParseFails` | an attempt of `RasaClient.parse_message` |
| `Remember` | `merge_entities`, `persist_facts`, `_resolve_command` |
| `Run` | `_entities_for_command`, `CommandEngine.execute`, the handler and its request |
| `Confirm` | `ConfirmHandler` with a token |
| `RunFirst`, `RunSecond` | the two commands of create-and-deploy and of show-logs |
| `ExpireSession`, `ExpireToken` | Redis |

* `OnlyBadWordsCutOff` – an exception of a handler ends the connection; before a
  request is sent the engine's validation must leave no other cause for it than
  a region, a number, a repository or a patch that was said or stored and cannot
  be converted (`Unusable`). A request that raises (`http_raises`) ends it, too:
  those replies are "broken", not "cut".
* `NeverAsksForWhatWasSaid` – an entity has up to two names and comes from the
  message, a rule, the session or the facts; what was said is asked for again only
  if the session has `missed` it: an application that only the NER found
  (`nlu.py:86-88` drops it), a capture of a rule that was not used or not in this
  turn (`websocket_handler.py:208-213`), a word under the threshold.
* `TargetIsLastSaid` – every request of a turn, the second of two included, goes
  where the user said last, and to the facts' target if none was said. A missed
  name is excepted, and that is a real gap: with "restart foo" understood by an
  intent, an app that only the NER found is ignored for the session's.
* `ArgumentsAreLastSaid` – a command runs with the last word for each entity it
  requires, under whichever name, unless it was missed, or is `shadowed`: the
  session keeps both names, and the newer one wins although its word is older.

What the model also shows of the code: a word that cannot be converted stays in
the session and cuts off later turns, too; a text that was not understood still
changes the session; words captured by a rule are not kept; the older spelling
counts only where the newer is absent; `notifier_patch` raises for every text
(`dict()` of it, `notifier_handlers.py:73`); `memory.forget` forgets the fact and not
the session's entity; a deployment follows a creation that the platform refused,
because every handler but `apps.delete` reports success whatever the platform
answers; `batch.execute` refuses whatever comes through the WebSocket.

### ConnectionLifecycle

`handler[c]` is where `handle_connection` of a connection is, `table`, `auth`,
`quiet`, `pong` the manager's records, `pinging`, `ping` its ping task, `owed` an
answer its client still has to send. All of it runs on one event loop and the
manager's lock is never held across a suspension, so each operation and each
sweep is one action. Time is counted since the last event of each kind.

| action | code |
|---|---|
| `Accept`, `Greet`, `GreetFails` | up to the `try` statement of `handle_connection` |
| `ReceivePong`, `Authenticate`, `ReceiveText`, `Answer` | its loop |
| `Disconnect`, `Cancelled`, `Raises` | its three exits |
| `Ping`, `PingFails`, `PingEnds` | `_ping_pong_monitor` |
| `PingMonitor`, `CleanupIdle` | the two sweeps of the manager |
| `Tick` | the clock |

* `ServedIsKept` – neither sweep, whenever it comes, takes a connection that is
  served, unless its pongs are overdue or its ping failed.
* `AnsweringStays` – of a client that answers every ping, a sweep takes a served
  connection only while an answer has been waiting for longer than `PingTimeout`
  leaves after an interval, or after the ping task itself slept too long. There
  is no bound on how late an answer is read: the code leaves 30 s − 20 s = 10 s,
  and one synchronous request of a turn blocks the event loop for up to 20 s
  (`http_client.py:33`), three attempts for a minute. So an answering client *can*
  be dropped; the property says when, and that nothing else drops it.
* `AbandonedDropped`, `PingTasksEnd` – what the exits leave behind goes in the
  end. The exception in the first one is a leak of the code: an authenticated
  record that never saw a pong is excepted by both sweeps.

### ResponseCache

`entry`, `order` (least recently used first), `index` (tag to keys) and `total`
are the cache, `cleaner[c]` a cleanup thread, `caller[p]` a caller between two
operations, `source[k]` the version of the data behind a key; `torn` and `outrun`
are histories. What is left of the order without some keys (`Without`) is given
by ranks, the n-th that is left, and sizes add up by `SumOver`: both say what
the code's loops compute in a form that can be reasoned about. The lock makes each public operation one action; a caller takes
several (`Miss`, `Call`, `Fill`; `Write`, `Invalidate`), and so does a cleanup
(`Wake`, `CleanupBySize`, `CleanupByMemory`).

A positive `ttl` cannot be stored: `CacheEntry` adds the number to a `datetime`,
which raises `TypeError` when `set` has already unindexed the old entry. That is
`StoreRaises`; stored entries never expire.

* `IndexTellsEntries` – index and entries disagree only where a `set` raised.
* `AccountedInFull`, `CleanupKeepsLimits` – the accounted size drifts upwards
  only, so a cleanup reaches its limits.
* `StaleIsExplained` – a stale value that nobody is about to invalidate was
  stored by a call that a write had overtaken, had lost its tags, or was stored
  without the tag of its path. `CacheMiddleware` gives that tag; `cached`,
  `cached_endpoint`, `get_or_set` and `warm_cache` give the tags they are told, by
  default none, and a write invalidates by tag only: their entries go stale.
* `CleanersEnd` – `stop` and `start` within the sleep of a thread leave two
  threads running; once the cache is stopped for good none stays.

### RequestPipeline

Requests of one worker are coroutines: `req[r]` is where a request is and its
locals, `counts` and `deadline` Redis, `local` the store in a worker's memory,
`context[w]` the logging context of its thread; `admitted`, `lost`, `mixed` are
histories (`admitted` by client, store and second, Redis under `Nobody`). In
memory the count and the record have no await between them and
are one action (`ArriveLocal`); with Redis a count is one command per second of
the window (`Count`) and a record one or two (`Record`, `SetExpiry`), and each may
fail (`CountFails`, `RecordFails`). `Start`, `Enter`, `Leave`, `Complete` are the two
middlewares that set the context, also when the request ends in an exception.

* `AdmissionsAreBounded` – in memory the limit holds in every window; with Redis
  it is exceeded by at most one for each further request in progress, as long
  as no command has failed and no count was slower than the counters live. Both
  stores keep `Life`, 60 s: a longer window (`tests/test_middleware_simple.py`
  has one of 120 s) is not kept as such, and the property is about every `Span`,
  the shorter of the two.
* `ContextIsExplained` – a request that overlaps with no other of its worker logs
  under its own ids, and a worker whose requests never overlapped keeps no
  context. Requests that overlap do mix them up.

Noticed without a run of its own: the branches for `DomainValidationError` and
`BaseAppException` ("Handle all application exceptions consistently",
`middleware/error_handler.py:167`) pass `message=` to `StructuredLogger.error`,
whose first parameter it is, so that a TypeError leaves the middlewares instead
of the 400, 401, 404, 409 or 503 they have made. `Status` says 500, what the
server answers then.

As the repository is, most of this is not reached: `main.py` hands instances
(the rate limiter among them) to `add_middleware`, the default exclusion list
has "/", a prefix of every path, and nothing raises the errors of the status
table in a route. The module is the components' own behaviour. Retry-After assumes windows at multiples of 60 s,
which neither store has.

### Operations: HealthProbes and DeploymentPoller

Both use the Redis of `Services`, whose outages come and go, with its keys or
without (`LoseKeys`; a client that is between two commands reconnects and does not
notice). A probe is PING, SET, GET, DEL of a key named after the second, then the
other checks without an await (`SumUp`), or Redis alone (`ReportAlone`). The poller
is one Celery task: `Answered`, `AnsweredWithout`, `GiveUp`, `RequestRaises` are its
polls, `Progress` the platform, `WorkerStops` a worker that stops with the task (it
is not taken up again).

* `ReportsAreExplained` – "healthy" says that both stores were connected, and when
  they were a report is worse only for the platform's check; Redis is called
  unreadable only when another probe used the same key, or Redis had dropped it.
* `OneOutcome`, `PollingEnds` – a deployment that has ended ends the task, with one
  final event, the last one and the right one; with none if the worker was stopped
  or the request raised (the refresh of a rejected token, as in `http_raises`).

Noticed without a run of its own: the check of the platform passes parameters
`request()` does not have, so it always fails, and with the default checkers
`/health/ready` never says "healthy". `presentation/health.py:51-52` promises it
when "all critical dependencies (Redis, PostgreSQL) are connected", and
`services/health_service.py:96` "we want all critical dependencies to be
connected". `ReportsAreExplained` names the platform's check as the exception; it
does not approve of it.

## 3. Runs

| run | instance | distinct states | shows |
|---|---|---|---|
| `confirm_tokens` | 2 workers, 1 client, 2 tokens, 3 values, 5 messages | 304 thousand | safety and refinement with two confirmations in flight |
| `confirm_clients` | 2 workers, 2 unrelated clients, 1 token | 249 thousand | isolation between clients, liveness |
| `fact_store` | 2 workers, 2 keys, 2 values, 2 confidences, 1 tag, 3 events, versions to 2 | 867 thousand | the three properties above |
| `http_requests` | 2 callers, 2 regions, 2 retries, 2 tokens | 2.1 million | the three properties above, for both clients |
| `http_stale_token`, `http_raises`, `http_repeated` | the same | – | one counterexample each |
| `connections` | 2 connections, one of which answers; intervals 2, 1, 3, 4 | 95 thousand | sweeps and exits, liveness |
| `response_cache` | 2 keys, 2 tags, entries with and without their path tag, one filler, one writer, 2 cleanup threads | 415 thousand | index, sizes, staleness, liveness |
| `dialogue` | 12 texts, 14 words | 787 thousand | the four action properties above |
| `requests` | 2 requests, 1 client, 1 worker, limit 2, window 2 s, 3 s, 1 failure | 1.5 million | both stores, both contexts |
| `operations` | 2 probes in 2 s, 2 statuses, 2 endings | 984 thousand | probes and poller over one Redis, liveness |

Bounds and why they are enough. Two workers is what the service runs with by
default, and every race in the code is between one that reads and one that
writes. Two tokens allow a confirm of one while the other is issued or
executed; the number of tokens is the only bound of `ConfirmFlow` (the turns are
unbounded, the histories are sets). Its messages contain a command without a
target, one with the target from the regex, one from the NLU that is
persisted, one with entities missing, and for the second client a message that
names another application. `MaxEvents = 3` permits upsert, forget and upsert
again with a pin or tag between; the guard stops the start of a transaction, not
its end, so that open transactions can still commit. `MaxVersion` only keeps a
counter finite. Two callers and two regions are what it takes to replace the
kept client under another; `MaxRetries` has its real value; with two tokens one
can be rejected and another exchanged (`MaxTokens`; after that an exchange
fails, as it may at any time). Symmetry is used for workers, confirmation tokens, keys, values, callers and regions, which
no definition tells apart, and not in the liveness run.

The intervals of `connections` keep the order of the real ones (20, 30, 300 s),
with room for one tick between an interval and the timeout, as 10 s are between
theirs, and a pong may wait for any number of ticks. The texts of `dialogue` have
an accepted, a close and a rejected ranking, both names of an entity, an entity
with several words of which one is repeated, unusable words, an app that only the
NER found, captures that are not used, both two-command rules and
a confirmation; every command the texts give differs from the others in its row
of the catalogue. In `requests` two overlapping requests and a limit of two
suffice for the overshoot and for the contexts, and a third second for a window
that has moved on; `Life` equals `Window`, as 60 s equal 60 s (windows that are
longer and shorter than `Life` are the theorem's). In `response_cache`
one key has one tag and the other one or two, `MaxSize` is below the number of
keys, `MaxMemory` below the largest total. In `operations` the key lives one
second, so that it can expire under a probe, and the patience is that of 12 s
over polls of 10 s.

Deadlock is checked in all runs.

Fairness. `FairSpec` gives each worker weak fairness of the steps of its turn:
they are straight-line synchronous code, no step waits for another worker, and
a command to Redis or PostgreSQL either answers or raises. Clients, expiries,
lost turns and restarts are owed nothing.

`ConnectionLifecycle`: the clock, the sweeps, the greeting, the turn and the ping
tasks are weakly fair, because an event loop runs what is ready and a sleeping
task wakes; a responsive client's pong is strongly fair, because turns keep it
waiting again and again but messages are read in order. No time is promised for it. `ResponseCache`: a cleanup
thread is scheduled; nobody has to call anything. `Operations`: the task goes on
(weak), and the platform's answers have a status again and again (strong), for
an API that never gives one keeps the loop for ever. `Dialogue` and
`RequestPipeline` state no liveness.

## 4. Theorems

The theorems hold for every set of workers, clients, tokens, values and
messages that satisfies the named assumptions on constants (messages are well
typed; the sentinels are not values).

`ConfirmFlowProofs`. `IInv` says, beside the types: a token in Redis was issued;
a worker past the GET of a token holds one issued in its own session and not
yet run by it; past the DELETE that token is out of Redis, and it cannot come
back because only a token that was never issued is stored; a token that ran is
out of Redis. Without the part about held tokens neither `AtMostOncePerWorker`
nor `AuthorisedExecution` is inductive: both are decided two commands after the
lookup they rest on. From it: `TypeCorrect`, `Authorised`, `OncePerWorker`,
`SpentToken`, `ConsumedExecutes` (using that entities a grant names survive
`Resolve`) and `Implements`, where `IssueToken` maps to `Issue`, a `RunFacts` that
calls the API to `Execute`, and everything else stutters.

Its second half is about where targets come from. `SInv`, on top of `IInv`: every value in a session, a
fact, a grant or a turn was said by a client whose words may reach it, that is
one of the session or of the user. `MergeRead`, `Resolve` and the grants pass
values between the four, so none of the parts is inductive alone. From it:
`TargetMentioned`.

`FactStoreProofs`. `IInv` adds `OpenUpserts`: while nothing is logged on its key
since its SELECT, an open upsert has seen the current row but for the version,
and it was allowed to replace it. From it: `TypeCorrect`, `LogTells`, `Tagged`,
`Overwrites`.

`ScalingoRequestProofs`. `IInv` adds that `attempt` counts the sends (`Counted`: one
less than the sends while an answer is awaited), that the synchronous client
has one active request, and, for it, that every token in `rejected` was
exchanged before the one the request goes on with (`TokensInOrder`, tokens are
numbered by their exchange). The order is needed because the token passes
through three places, the provider, a local and the header, on its way to the
next send. From it: `TypeCorrect`, `Bounded`, `OwnRegion`, `NewToken`.

`ConnectionLifecycleProofs`. `IInv` relates the clocks: while its ping task runs a
record has been quiet for no longer than that task has slept and one interval
(`QuietBound`); the last pong of a responsive client is no older than the ping
before the one whose answer has not been read (`PongBound`). `TimesAssumption` is
that two intervals are less than the idle timeout (40 s of 300 s); of the pongs
nothing is assumed. From it: `TypeCorrectness`,
`AnsweringClientsStay`, `ServedConnectionsAreKept`.

`ResponseCacheProofs`. `IInv`: the index agrees with the entries but for torn
ones, and who is about to store and is not late has the current version.
`TagsAssumption` is only that tag sets are sets of tags; an entry may lack its
path tag. From it:
`IndexAgrees`, `StaleExplained`. `OrderInv`, on top of it: the order is a list of
the stored keys without repetitions, and the sizes of what is stored add up to
no more than the total. Neither `AccountedInFull` nor `CleanupKeepsLimits` is
inductive without the list being one of *stored* keys: a key dropped that is
not stored would be taken off the total for nothing. The sums are cardinalities
(`Sums`), so that `SizesAdd` (the sizes of a part and of the rest) follows from
the theorems about finite sets, and `WithoutIs` shows that ranks are places: the
map from a place to its rank is injective into as many numbers as there are
places, hence onto. From both: `TypeCorrect`, `Accounted`, `LimitsAreKept`.

`RequestPipelineProofs`. `IInv`: a request that is alone has the worker's context
to itself and has saved its own outer one; on a worker where none have met, the
context it found is empty. From it: `TypeCorrect`, `ContextExplained`. A second
invariant, `AdmissionsInv`, is about the limiter. In memory (`LocalInv`): what was
let through less than a minute ago is still in the store, so that a count finds
it. With Redis (`SharedInv`): a counter outlives its second by `Life`, so that while
nothing was `lost` the counters of a span that is yet to be counted are its
admissions (`CountersInv`); and a span with `MaxRequests` or more has room for
all `Entrants`, the requests that have been let through, or will be by what they
have counted so far, and are not recorded (`FullWindowsInv`). The entrants are needed because the
decision and the record are two steps: a bound on the admissions alone says
nothing of the requests between them. A record moves one request from the
entrants to the admissions, a request that begins to count a full span finds
it full. `RequestsAssumption`: the requests in progress are finitely many. From
it: `AdmissionsBounded`, for any limit and any window, of which the last `Life`
seconds are kept.

`OperationsProofs`. `OutcomeInv`: a task that is done has told an ending, and the
platform does not leave an ending. `HealthInv`: a probe that has met no other
one has its second, and so its key, to itself (`Alone`), and what it has set it
still finds, or Redis has dropped it (`Seen`). That a sum of checks is "healthy" only when no check failed is
counted by cardinalities. From them: `TypeCorrect`, `ReportsExplained`,
`Outcome`.

`DialogueProofs`. `DialogueInv`: the session holds what was said last but for what
it has missed (`SaidInv`; the histories are written from the text alone, the
session is what `merge_entities` makes of it); the histories know the text of the
turn (`HeardInv`); what a turn has decided was merged of its own
text, the session and the facts of now (`DecidedInv`); the second command of
create-and-deploy begins where the first has gone through with entities of the
same text (`SecondInv`). The session has to be *equal* to the history outside
`missed`: with "at least what was said" neither `TargetIsLastSaid` nor `ArgumentsAreLastSaid` could
be decided, since the turn reads the session through three renamings
(`Normalized`, `Passed`, `ForCommand`) that prefer one spelling to another. The
proofs go through the catalogue row by row (`Fine`: a command converts only
entities it requires, and one without a scope that needs a region requires it),
through the last element of a sequence (`LastExists`, by well-founded
induction on finite sets of positions) and through the renamings. From it:
`TypeCorrect`, `BadWordsCutOff`, `AskedForOnce`, `GoesToTheLastTarget`,
`RunsWithLastWords`. `KeysAssumption`: of an entity with two spellings the older
is a key where the newer is; `TextsAssumption`, `WordsAssumption`,
`ThresholdAssumption`: the texts are texts (a rule never captures under an older
name, and both names of the target for the two-command rules), the sentinel is no
word, and the threshold for entities is a score.

Only model-checked: liveness (`TurnsEnd`, `AbandonedDropped`, `PingTasksEnd`,
`CleanersEnd`, `PollingEnds`), which is out of the prover's reach. Every invariant
and every action property of the passing runs is a theorem. The lemmas about
sums are stated in both modules that need them.

## 5. Plan

All modules of the plan are built. What is left, in order of importance:

1. An abstract limiter that decides and records in one step, and `RequestPipeline`
   shown to implement it up to the overshoot.
2. A bound on the admissions after a command of Redis has failed, when Redis and
   the memories of the workers each count a part of the requests.

## 6. Not modelled

* The asynchronous twin of the command engine (nothing builds it), and
  `broadcast`, `get_stats`, `reset` of the connection manager and
  `RateLimitStore.cleanup` (nothing calls them).
* The transformer inference, tokenisation and regular expressions of the NLU
  service, and the training script: numeric and textual code. Their outcomes
  are arbitrary inputs.
* `batch_execute` of the gateway, which no WebSocket message can reach, and the
  answers of a Rasa server in their legacy form.
* The use cases and `AppsAPI`: each method is one request of `ScalingoRequest`.
* Authentication and security headers, CORS, metrics, the log proxy, start-up
  and configuration: no state, or none that behaviour depends on. Reading
  queries, formatting and logging.
* The handler's and the poller's texts, the HTML page and the slides.
