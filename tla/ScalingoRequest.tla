-------------------------- MODULE ScalingoRequest --------------------------
(***************************************************************************)
(* ScalingoHTTPClient.request and AsyncScalingoHTTPClient.request with the *)
(* AuthTokenProvider they share: the retry after a 401, the retries after  *)
(* a 429 or 5xx, the exchange of bearer tokens and, for the asynchronous   *)
(* client, the one httpx.AsyncClient that all coroutines send through.     *)
(*                                                                         *)
(* The synchronous client blocks its caller: one request at a time.  Of    *)
(* the asynchronous one requests interleave at every await, and the token  *)
(* provider, which runs in a thread of its own, at every statement.        *)
(*                                                                         *)
(* Bearer tokens are numbered in the order they are exchanged, 0 is None.  *)
(* The three tries of an exchange are one step; the length of a backoff    *)
(* and the body of an answer are left out.  A status is reduced to the     *)
(* class that request() tells apart.                                       *)
(***************************************************************************)
EXTENDS Naturals

CONSTANTS
    Requests,   \* the callers of request()
    Regions,    \* regions with a base URL
    NoClient,   \* self._client is None
    NoRegion,   \* the base URL of the client that __aenter__ builds
    NoRequest,  \* a caller that is not in request()
    MaxRetries, \* self._max_retries
    MaxTokens   \* bound: how many tokens are exchanged

ASSUME BoundsAssumption == MaxRetries \in Nat /\ MaxTokens \in Nat
ASSUME NoRegionAssumption == NoRegion \notin Regions

TokenNumbers == 0 .. MaxTokens

\* What self._client was built with, and whether it has not been closed.
Clients == [region : Regions \union {NoRegion}, bearer : TokenNumbers, open : BOOLEAN]
ASSUME NoClientAssumption == NoClient \notin Clients

Built(region, bearer) == [region |-> region, bearer |-> bearer, open |-> TRUE]

\* The arguments and locals of request(); the second half is history: how often
\* the request was sent and carried out, the region and the token of the last
\* send, the tokens rejected so far.
Locals == [region : Regions, attempt : Nat, retry : BOOLEAN,
           bearer : TokenNumbers, refreshing : BOOLEAN,
           sends : Nat, effects : Nat, to : Regions \union {NoRegion},
           with : TokenNumbers, rejected : SUBSET TokenNumbers]
ASSUME NoRequestAssumption == NoRequest \notin Locals

Steps == {"get_token", "exchange", "store", "return_token", "connect",
          "reconnect", "sent", "served", "backoff"}

VARIABLES
    shared,     \* the asynchronous client is used, and not the synchronous one
    minted,     \* Scalingo: how many bearer tokens were exchanged
    valid,      \* Scalingo: the bearer tokens the API accepts
    token,      \* AuthTokenProvider._token
    fresh,      \* time.time() < AuthTokenProvider._expires_at
    client,     \* AsyncScalingoHTTPClient._client
    closing,    \* close() waits for aclose()
    pc,         \* caller -> the next step of its request, "idle" before and
                \* after it, "raised" after an exception
    req         \* caller -> the locals of its request

auth == <<minted, valid>>
provider == <<token, fresh>>
connection == <<client, closing>>
vars == <<shared, minted, valid, token, fresh, client, closing, pc, req>>

Init ==
    /\ shared \in BOOLEAN
    /\ minted = 0
    /\ valid = {}
    /\ token = 0
    /\ fresh = FALSE
    /\ client \in {NoClient, Built(NoRegion, 0)}
    /\ closing = FALSE
    /\ pc = [r \in Requests |-> "idle"]
    /\ req = [r \in Requests |-> NoRequest]

Goto(r, step) == pc' = [pc EXCEPT ![r] = step]

\* request() returns an OperationResult ("idle") or raises.
Finish(r, step) ==
    /\ Goto(r, step)
    /\ req' = [req EXCEPT ![r] = NoRequest]
Return(r) == Finish(r, "idle")

-----------------------------------------------------------------------------
(* The call of request() and the bearer token.                             *)

\* The caller is in request().
Active(r) == pc[r] \in Steps

\* The synchronous client runs one request at a time.
MayStart(r) == ~Active(r) /\ (~shared => \A o \in Requests : ~Active(o))

Start(r, region) ==
    /\ MayStart(r)
    /\ Goto(r, "get_token")
    /\ req' = [req EXCEPT ![r] =
                 [region |-> region, attempt |-> 0, retry |-> TRUE, bearer |-> 0,
                  refreshing |-> FALSE, sends |-> 0, effects |-> 0,
                  to |-> NoRegion, with |-> 0, rejected |-> {}]]
    /\ UNCHANGED <<shared, auth, provider, connection>>

\* A region that has no base URL in the settings.
StartUnknown(r) ==
    /\ MayStart(r)
    /\ Return(r)
    /\ UNCHANGED <<shared, auth, provider, connection>>

\* get_token: without a token, or with an expired one, refresh() first.
GetToken(r) ==
    /\ pc[r] = "get_token"
    /\ Goto(r, IF token = 0 \/ ~fresh THEN "exchange" ELSE "return_token")
    /\ UNCHANGED <<shared, auth, provider, connection, req>>

\* refresh: POST to the auth service ...
Exchange(r) ==
    /\ pc[r] = "exchange"
    /\ minted < MaxTokens
    /\ minted' = minted + 1
    /\ valid' = valid \union {minted + 1}
    /\ req' = [req EXCEPT ![r].bearer = minted + 1]
    /\ Goto(r, "store")
    /\ UNCHANGED <<shared, provider, connection>>

\* ... which fails three times or answers without a token: get_token is called
\* inside of try, refresh inside of an except clause, where nothing catches.
ExchangeFails(r) ==
    /\ pc[r] = "exchange"
    /\ Finish(r, IF req[r].refreshing THEN "raised" ELSE "idle")
    /\ UNCHANGED <<shared, auth, provider, connection>>

\* Mutant: after a 401 only the expiry is stored.
StoreExpiry(r) ==
    /\ pc[r] = "store"
    /\ token' = IF req[r].refreshing THEN token ELSE req[r].bearer
    /\ fresh' = TRUE
    /\ req' = [req EXCEPT ![r].refreshing = FALSE]
    /\ Goto(r, IF req[r].refreshing THEN "get_token" ELSE "return_token")
    /\ UNCHANGED <<shared, auth, connection>>

\* ... and keep what it answers.  After a 401 request() calls itself.
Store(r) ==
    /\ pc[r] = "store"
    /\ token' = req[r].bearer
    /\ fresh' = TRUE
    /\ req' = [req EXCEPT ![r].refreshing = FALSE]
    /\ Goto(r, IF req[r].refreshing THEN "get_token" ELSE "return_token")
    /\ UNCHANGED <<shared, auth, connection>>

\* return self._token: by now another thread may have stored a later one.
ReturnToken(r) ==
    /\ pc[r] = "return_token"
    /\ req' = [req EXCEPT ![r].bearer = token]
    /\ Goto(r, "connect")
    /\ UNCHANGED <<shared, auth, provider, connection>>

-----------------------------------------------------------------------------
(* Sending.                                                                *)

\* The request leaves through a client of this region and bearer token.
Sent(r, region, bearer) ==
    /\ Goto(r, "sent")
    /\ req' = [req EXCEPT ![r].sends = @ + 1, ![r].to = region, ![r].with = bearer]

\* The synchronous client builds an httpx.Client for every send.
ConnectOwn(r) ==
    /\ pc[r] = "connect"
    /\ ~shared
    /\ Sent(r, req[r].region, req[r].bearer)
    /\ UNCHANGED <<shared, auth, provider, connection>>

\* The first send of the asynchronous client builds the one that is kept.
ConnectFirst(r) ==
    /\ pc[r] = "connect"
    /\ shared
    /\ client = NoClient
    /\ client' = Built(req[r].region, req[r].bearer)
    /\ Sent(r, req[r].region, req[r].bearer)
    /\ UNCHANGED <<shared, auth, provider, closing>>

\* A client of the same base URL is used as it is, with the headers it was
\* built with; one that another coroutine is closing raises RuntimeError,
\* which becomes an AUTH_ERROR.
ConnectKept(r) ==
    /\ pc[r] = "connect"
    /\ shared
    /\ client # NoClient
    /\ client.region = req[r].region
    /\ IF client.open
         THEN Sent(r, client.region, client.bearer)
         ELSE Return(r)
    /\ UNCHANGED <<shared, auth, provider, connection>>

\* A client of another base URL is closed, which waits ...
CloseOther(r) ==
    /\ pc[r] = "connect"
    /\ shared
    /\ client # NoClient
    /\ client.region # req[r].region
    /\ client' = [client EXCEPT !.open = FALSE]
    /\ Goto(r, "reconnect")
    /\ UNCHANGED <<shared, auth, provider, closing, req>>

\* Mutant: the client of the other region is closed and used on.
ReconnectKept(r) ==
    /\ pc[r] = "reconnect"
    /\ client # NoClient
    /\ Sent(r, client.region, client.bearer)
    /\ UNCHANGED <<shared, auth, provider, connection>>

\* ... and replaced by one that fits; the request leaves through that one.
Reconnect(r) ==
    /\ pc[r] = "reconnect"
    /\ client' = Built(req[r].region, req[r].bearer)
    /\ Sent(r, req[r].region, req[r].bearer)
    /\ UNCHANGED <<shared, auth, provider, closing>>

-----------------------------------------------------------------------------
(* The API and its answer.                                                 *)

\* The API carries the request out.
Serve(r) ==
    /\ pc[r] = "sent"
    /\ req[r].with \in valid
    /\ Goto(r, "served")
    /\ req' = [req EXCEPT ![r].effects = @ + 1]
    /\ UNCHANGED <<shared, auth, provider, connection>>

\* 2xx.  A body that is no JSON raises, and the last except clause takes that
\* for a failure to get a bearer token; either is an OperationResult.
AnswerOK(r) ==
    /\ pc[r] = "served"
    /\ Return(r)
    /\ UNCHANGED <<shared, auth, provider, connection>>

\* Another 4xx is final.
AnswerRefused(r) ==
    /\ pc[r] = "sent"
    /\ req[r].with \in valid
    /\ Return(r)
    /\ UNCHANGED <<shared, auth, provider, connection>>

\* Mutant: the request that is sent again may be refreshed again.
AnswerUnauthorizedAgain(r) ==
    /\ pc[r] = "sent"
    /\ req[r].with \notin valid
    /\ Goto(r, "exchange")
    /\ req' = [req EXCEPT ![r].attempt = @ + 1, ![r].refreshing = TRUE,
                          ![r].rejected = @ \union {req[r].with}]
    /\ UNCHANGED <<shared, auth, provider, connection>>

\* 401: once per request the token is refreshed and the request sent again.
AnswerUnauthorized(r) ==
    /\ pc[r] = "sent"
    /\ req[r].with \notin valid
    /\ IF req[r].retry
         THEN /\ Goto(r, "exchange")
              /\ req' = [req EXCEPT ![r].retry = FALSE, ![r].attempt = @ + 1,
                                    ![r].refreshing = TRUE,
                                    ![r].rejected = @ \union {req[r].with}]
         ELSE Return(r)
    /\ UNCHANGED <<shared, auth, provider, connection>>

\* Mutant: the retry is started without the arguments of the request.
AnswerTransientForgets(r) ==
    /\ pc[r] \in {"sent", "served"}
    /\ req[r].attempt < MaxRetries
    /\ Finish(r, "backoff")
    /\ UNCHANGED <<shared, auth, provider, connection>>

\* 429 or 5xx, carried out or not: a new attempt while the counter allows it.
AnswerTransient(r) ==
    /\ pc[r] \in {"sent", "served"}
    /\ IF req[r].attempt < MaxRetries
         THEN /\ Goto(r, "backoff")
              /\ req' = [req EXCEPT ![r].attempt = @ + 1]
         ELSE Return(r)
    /\ UNCHANGED <<shared, auth, provider, connection>>

\* A timeout or a transport error, carried out or not, is not retried.
NoAnswer(r) ==
    /\ pc[r] \in {"sent", "served"}
    /\ Return(r)
    /\ UNCHANGED <<shared, auth, provider, connection>>

Backoff(r) ==
    /\ pc[r] = "backoff"
    /\ Goto(r, "get_token")
    /\ UNCHANGED <<shared, auth, provider, connection, req>>

-----------------------------------------------------------------------------
(* The environment.                                                        *)

\* A token loses its validity, by its age or because it is revoked.
Revoke(t) ==
    /\ valid' = valid \ {t}
    /\ t \in valid
    /\ UNCHANGED <<shared, minted, provider, connection, pc, req>>

\* The clock passes _expires_at.
Expire ==
    /\ fresh
    /\ fresh' = FALSE
    /\ UNCHANGED <<shared, auth, token, connection, pc, req>>

\* close() and __aexit__: aclose(), which waits, and None.
CloseBegin ==
    /\ shared
    /\ ~closing
    /\ client # NoClient
    /\ client' = [client EXCEPT !.open = FALSE]
    /\ closing' = TRUE
    /\ UNCHANGED <<shared, auth, provider, pc, req>>

CloseEnd ==
    /\ closing
    /\ client' = NoClient
    /\ closing' = FALSE
    /\ UNCHANGED <<shared, auth, provider, pc, req>>

-----------------------------------------------------------------------------
Connect(r) ==
    \/ ConnectOwn(r)
    \/ ConnectFirst(r)
    \/ ConnectKept(r)
    \/ CloseOther(r)
    \/ Reconnect(r)

Answer(r) ==
    \/ Serve(r)
    \/ AnswerOK(r)
    \/ AnswerRefused(r)
    \/ AnswerUnauthorized(r)
    \/ AnswerTransient(r)
    \/ NoAnswer(r)

Step(r) ==
    \/ GetToken(r)
    \/ Exchange(r)
    \/ ExchangeFails(r)
    \/ Store(r)
    \/ ReturnToken(r)
    \/ Connect(r)
    \/ Answer(r)
    \/ Backoff(r)

Next ==
    \/ \E r \in Requests :
         \/ \E region \in Regions : Start(r, region)
         \/ StartUnknown(r)
         \/ Step(r)
    \/ \E t \in TokenNumbers : Revoke(t)
    \/ Expire
    \/ CloseBegin
    \/ CloseEnd

Spec == Init /\ [][Next]_vars

-----------------------------------------------------------------------------
(* Properties.                                                             *)

TypeOK ==
    /\ shared \in BOOLEAN
    /\ minted \in TokenNumbers
    /\ valid \subseteq TokenNumbers
    /\ token \in TokenNumbers
    /\ fresh \in BOOLEAN
    /\ client \in Clients \union {NoClient}
    /\ closing \in BOOLEAN
    /\ pc \in [Requests -> Steps \union {"idle", "raised"}]
    /\ req \in [Requests -> Locals \union {NoRequest}]
    /\ \A r \in Requests : Active(r) => req[r] \in Locals

\* The two retries share one counter but not one condition: a request is sent
\* at most MaxRetries + 1 times, and once more when one of the answers was a
\* 401.
SendsBounded ==
    \A r \in Requests : Active(r) =>
        req[r].sends <= MaxRetries + (IF req[r].retry THEN 1 ELSE 2)

\* While coroutines with requests to different regions replace the shared
\* client under each other, each of them sends to its own region.
SentToOwnRegion ==
    \A r \in Requests : pc[r] = "sent" => req[r].to = req[r].region

\* "401 from Scalingo API, refreshing token and retrying": what is sent after
\* a 401 carries another token than the one that was rejected.
ResendCarriesNewToken ==
    \A r \in Requests : pc[r] = "sent" => req[r].with \notin req[r].rejected

\* The synchronous client keeps to that, although the token may expire or be
\* revoked and be exchanged again at any moment of the request.
SyncResendCarriesNewToken == ~shared => ResendCarriesNewToken

\* "Returns: OperationResult containing the response data or error".
AlwaysReturns == \A r \in Requests : pc[r] # "raised"

\* "Whether this command is idempotent (can be safely retried)": a request of
\* a command that is not (app creation, scaling, one-off containers) is carried
\* out once at most.  No request knows the flag of its command.
CarriedOutOnce == \A r \in Requests : Active(r) => req[r].effects <= 1

-----------------------------------------------------------------------------
(* The inductive invariant: attempt counts the sends; without the shared   *)
(* client, where one request runs at a time, the tokens a request had      *)
(* rejected are older than the one it goes on with.                        *)

Answering == {"sent", "served"}

Counted ==
    \A r \in Requests : Active(r) =>
        /\ req[r].sends = req[r].attempt + (IF pc[r] \in Answering THEN 1 ELSE 0)
        /\ req[r].attempt <= MaxRetries + (IF req[r].retry THEN 0 ELSE 1)

OneAtATime == ~shared => \A r, o \in Requests : Active(r) /\ Active(o) => r = o

\* All tokens in rejected were exchanged before t.
OlderThan(rejected, t) == \A x \in rejected : x < t

RejectedAreOld(r) ==
    /\ req[r].bearer <= minted /\ req[r].with <= minted
    /\ OlderThan(req[r].rejected, minted + 1)
    /\ pc[r] = "store" => OlderThan(req[r].rejected, req[r].bearer)
    /\ pc[r] = "connect" => OlderThan(req[r].rejected, req[r].bearer)
    /\ pc[r] \in Answering => OlderThan(req[r].rejected, req[r].with)
    /\ pc[r] # "reconnect"
    /\ req[r].refreshing => pc[r] \in {"exchange", "store"}
    /\ ~req[r].refreshing => OlderThan(req[r].rejected, token)

TokensInOrder ==
    ~shared => token <= minted /\ \A r \in Requests : Active(r) => RejectedAreOld(r)

IInv == TypeOK /\ Counted /\ SentToOwnRegion /\ OneAtATime /\ TokensInOrder
=============================================================================
