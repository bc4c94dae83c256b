----------------------- MODULE ScalingoRequestProofs -----------------------
(***************************************************************************)
(* The theorems about ScalingoRequest, for any number of callers, regions, *)
(* retries and tokens.                                                     *)
(***************************************************************************)
EXTENDS ScalingoRequest, TLAPS

-----------------------------------------------------------------------------
(* Types.                                                                  *)

\* What a step does to the control state and the locals of one caller leaves
\* them well typed.
LEMMA LocalType ==
    ASSUME TypeOK, NEW r \in Requests, NEW step \in Steps \union {"idle", "raised"},
           NEW locals \in Locals \union {NoRequest},
           step \in Steps => locals \in Locals,
           pc' = [pc EXCEPT ![r] = step], req' = [req EXCEPT ![r] = locals]
    PROVE  /\ pc' \in [Requests -> Steps \union {"idle", "raised"}]
           /\ req' \in [Requests -> Locals \union {NoRequest}]
           /\ \A o \in Requests : (Active(o))' => req'[o] \in Locals
  BY DEF TypeOK, Active

\* A caller in request() has locals, and its fields are well typed.
LEMMA Fields ==
    ASSUME TypeOK, NEW r \in Requests, Active(r)
    PROVE  /\ req[r] \in Locals
           /\ req[r].region \in Regions
           /\ req[r].attempt \in Nat
           /\ req[r].retry \in BOOLEAN
           /\ req[r].bearer \in TokenNumbers
           /\ req[r].refreshing \in BOOLEAN
           /\ req[r].sends \in Nat
           /\ req[r].effects \in Nat
           /\ req[r].with \in TokenNumbers
           /\ req[r].rejected \subseteq TokenNumbers
  <1>1. req[r] \in Locals
    BY DEF TypeOK, Active
  <1> QED
    BY <1>1 DEF Locals

\* A client that is built for a region and a token is one.
LEMMA BuiltType ==
    ASSUME NEW region \in Regions, NEW bearer \in TokenNumbers
    PROVE  Built(region, bearer) \in Clients
  BY DEF Built, Clients

\* What a client was built with.
LEMMA ClientFields ==
    ASSUME TypeOK, client # NoClient
    PROVE  /\ client \in Clients
           /\ client.region \in Regions \union {NoRegion}
           /\ client.bearer \in TokenNumbers
           /\ [client EXCEPT !.open = FALSE] \in Clients
  <1>1. client \in Clients
    BY DEF TypeOK
  <1> QED
    BY <1>1 DEF Clients

\* A request that ends leaves the caller well typed.
LEMMA FinishType ==
    ASSUME TypeOK, NEW r \in Requests, NEW step \in {"idle", "raised"}, Finish(r, step)
    PROVE  /\ pc' \in [Requests -> Steps \union {"idle", "raised"}]
           /\ req' \in [Requests -> Locals \union {NoRequest}]
           /\ \A o \in Requests : (Active(o))' => req'[o] \in Locals
  <1>1. step \notin Steps
    BY DEF Steps
  <1> QED
    BY <1>1, LocalType DEF Finish, Goto

\* A request that leaves through a client keeps well-typed locals.
LEMMA SentType ==
    ASSUME TypeOK, NEW r \in Requests, Active(r),
           NEW region \in Regions \union {NoRegion}, NEW bearer \in TokenNumbers,
           Sent(r, region, bearer)
    PROVE  /\ pc' \in [Requests -> Steps \union {"idle", "raised"}]
           /\ req' \in [Requests -> Locals \union {NoRequest}]
           /\ \A o \in Requests : (Active(o))' => req'[o] \in Locals
  <1> DEFINE new == [req[r] EXCEPT !.sends = @ + 1, !.to = region, !.with = bearer]
  <1>1. req[r] \in Locals /\ req[r].sends + 1 \in Nat
    BY Fields
  <1>2. new \in Locals
    <2>1. [req[r] EXCEPT !.sends = @ + 1] \in Locals
      BY <1>1 DEF Locals
    <2>2. \A l \in Locals : [l EXCEPT !.to = region] \in Locals
      BY DEF Locals
    <2>3. \A l \in Locals : [l EXCEPT !.with = bearer] \in Locals
      BY DEF Locals
    <2>4. new = [[[req[r] EXCEPT !.sends = @ + 1] EXCEPT !.to = region] EXCEPT !.with = bearer]
      BY <1>1 DEF Locals
    <2> QED
      BY <2>1, <2>2, <2>3, <2>4
  <1>3. req' = [req EXCEPT ![r] = new]
    BY DEF Sent, TypeOK
  <1>4. "sent" \in Steps
    BY DEF Steps
  <1> HIDE DEF new
  <1> QED
    BY <1>2, <1>3, <1>4, LocalType DEF Sent, Goto

\* Every step keeps the types.
LEMMA TypeStep == TypeOK /\ [Next]_vars => TypeOK'
<1> SUFFICES ASSUME TypeOK, [Next]_vars PROVE TypeOK'
  OBVIOUS
<1> USE DEF auth, provider, connection
<1>1. ASSUME NEW r \in Requests, NEW region \in Regions, Start(r, region) PROVE TypeOK'
  <2> DEFINE new == [region |-> region, attempt |-> 0, retry |-> TRUE, bearer |-> 0,
                     refreshing |-> FALSE, sends |-> 0, effects |-> 0,
                     to |-> NoRegion, with |-> 0, rejected |-> {}]
  <2>1. 0 \in TokenNumbers
    BY BoundsAssumption DEF TokenNumbers
  <2>2. new \in Locals /\ "get_token" \in Steps
    BY <2>1 DEF Locals, Steps
  <2>3. /\ pc' = [pc EXCEPT ![r] = "get_token"]
        /\ req' = [req EXCEPT ![r] = new]
    BY <1>1 DEF Start, Goto
  <2> HIDE DEF new
  <2> QED
    BY <1>1, <2>2, <2>3, LocalType DEF Start, TypeOK
<1>2. ASSUME NEW r \in Requests, StartUnknown(r) PROVE TypeOK'
  BY <1>2, FinishType DEF StartUnknown, Return, TypeOK
<1>3. ASSUME NEW r \in Requests, GetToken(r) PROVE TypeOK'
  <2>1. req' = [req EXCEPT ![r] = req[r]] /\ req[r] \in Locals
    BY <1>3 DEF GetToken, TypeOK, Active, Steps
  <2>2. {"exchange", "return_token"} \subseteq Steps
    BY DEF Steps
  <2> QED
    BY <1>3, <2>1, <2>2, LocalType DEF GetToken, Goto, TypeOK
<1>4. ASSUME NEW r \in Requests, Exchange(r) PROVE TypeOK'
  <2> DEFINE new == [req[r] EXCEPT !.bearer = minted + 1]
  <2>1. minted + 1 \in TokenNumbers
    BY <1>4, BoundsAssumption DEF Exchange, TypeOK, TokenNumbers
  <2>2. req[r] \in Locals /\ "store" \in Steps
    BY <1>4 DEF Exchange, TypeOK, Active, Steps
  <2>3. new \in Locals
    BY <2>1, <2>2 DEF Locals
  <2>4. req' = [req EXCEPT ![r] = new]
    BY <1>4 DEF Exchange, TypeOK
  <2> HIDE DEF new
  <2> QED
    BY <1>4, <2>1, <2>2, <2>3, <2>4, LocalType DEF Exchange, Goto, TypeOK
<1>5. ASSUME NEW r \in Requests, ExchangeFails(r) PROVE TypeOK'
  BY <1>5, FinishType DEF ExchangeFails, TypeOK
<1>6. ASSUME NEW r \in Requests, Store(r) PROVE TypeOK'
  <2> DEFINE new == [req[r] EXCEPT !.refreshing = FALSE]
  <2>1. /\ req[r] \in Locals
        /\ req[r].bearer \in TokenNumbers
        /\ {"get_token", "return_token"} \subseteq Steps
    BY <1>6, Fields DEF Store, Active, Steps
  <2>2. new \in Locals
    BY <2>1 DEF Locals
  <2>3. req' = [req EXCEPT ![r] = new]
    BY <1>6 DEF Store, TypeOK
  <2> HIDE DEF new
  <2> QED
    BY <1>6, <2>1, <2>2, <2>3, LocalType DEF Store, Goto, TypeOK
<1>7. ASSUME NEW r \in Requests, ReturnToken(r) PROVE TypeOK'
  <2> DEFINE new == [req[r] EXCEPT !.bearer = token]
  <2>1. req[r] \in Locals /\ "connect" \in Steps
    BY <1>7 DEF ReturnToken, TypeOK, Active, Steps
  <2>2. new \in Locals
    BY <2>1 DEF Locals, TypeOK
  <2>3. req' = [req EXCEPT ![r] = new]
    BY <1>7 DEF ReturnToken, TypeOK
  <2> HIDE DEF new
  <2> QED
    BY <1>7, <2>1, <2>2, <2>3, LocalType DEF ReturnToken, Goto, TypeOK
<1>8. ASSUME NEW r \in Requests, Connect(r) PROVE TypeOK'
  <2>1. Active(r)
    BY <1>8 DEF Connect, ConnectOwn, ConnectFirst, ConnectKept, CloseOther, Reconnect, Active,
           Steps
  <2>2. req[r].region \in Regions /\ req[r].bearer \in TokenNumbers
    BY <2>1, Fields
  <2>3. CASE ConnectOwn(r)
    BY <2>1, <2>2, <2>3, SentType DEF ConnectOwn, TypeOK
  <2>4. CASE ConnectFirst(r)
    BY <2>1, <2>2, <2>4, SentType, BuiltType DEF ConnectFirst, TypeOK
  <2>5. CASE ConnectKept(r)
    BY <2>1, <2>5, SentType, FinishType, ClientFields DEF ConnectKept, Return, TypeOK
  <2>6. CASE CloseOther(r)
    <3>1. req' = [req EXCEPT ![r] = req[r]] /\ req[r] \in Locals /\ "reconnect" \in Steps
      BY <2>6 DEF CloseOther, TypeOK, Active, Steps
    <3> QED
      BY <2>6, <3>1, LocalType, ClientFields DEF CloseOther, Goto, TypeOK
  <2>7. CASE Reconnect(r)
    BY <2>1, <2>2, <2>7, SentType, BuiltType DEF Reconnect, TypeOK
  <2> QED
    BY <1>8, <2>3, <2>4, <2>5, <2>6, <2>7 DEF Connect
<1>9. ASSUME NEW r \in Requests, Answer(r) PROVE TypeOK'
  <2>1. req[r] \in Locals /\ {"served", "exchange", "backoff"} \subseteq Steps
    BY <1>9 DEF Answer, Serve, AnswerOK, AnswerRefused, AnswerUnauthorized, AnswerTransient,
           NoAnswer, TypeOK, Active, Steps
  <2>2. CASE Serve(r)
    <3> DEFINE new == [req[r] EXCEPT !.effects = @ + 1]
    <3>1. new \in Locals
      BY <2>1 DEF Locals
    <3>2. req' = [req EXCEPT ![r] = new]
      BY <2>2 DEF Serve, TypeOK
    <3> HIDE DEF new
    <3> QED
      BY <2>1, <2>2, <3>1, <3>2, LocalType DEF Serve, Goto, TypeOK
  <2>3. CASE /\ Return(r)
             /\ UNCHANGED <<shared, auth, provider, connection>>
    BY <2>3, FinishType DEF Return, TypeOK
  <2>4. CASE AnswerUnauthorized(r) /\ req[r].retry
    <3> DEFINE new == [req[r] EXCEPT !.retry = FALSE, !.attempt = @ + 1, !.refreshing = TRUE,
                                     !.rejected = @ \union {req[r].with}]
    <3>0. /\ req[r].attempt + 1 \in Nat
          /\ req[r].rejected \union {req[r].with} \subseteq TokenNumbers
      BY <2>1 DEF Locals
    <3>1. new \in Locals
      BY <2>1, <3>0 DEF Locals
    <3>2. req' = [req EXCEPT ![r] = new]
      BY <2>4 DEF AnswerUnauthorized, TypeOK
    <3> HIDE DEF new
    <3> QED
      BY <2>1, <2>4, <3>1, <3>2, LocalType DEF AnswerUnauthorized, Goto, TypeOK
  <2>5. CASE AnswerTransient(r) /\ req[r].attempt < MaxRetries
    <3> DEFINE new == [req[r] EXCEPT !.attempt = @ + 1]
    <3>1. new \in Locals
      BY <2>1 DEF Locals
    <3>2. req' = [req EXCEPT ![r] = new]
      BY <2>5 DEF AnswerTransient, TypeOK
    <3> HIDE DEF new
    <3> QED
      BY <2>1, <2>5, <3>1, <3>2, LocalType DEF AnswerTransient, Goto, TypeOK
  <2> QED
    BY <1>9, <2>2, <2>3, <2>4, <2>5
       DEF Answer, AnswerOK, AnswerRefused, AnswerUnauthorized, AnswerTransient, NoAnswer
<1>10. ASSUME NEW r \in Requests, Backoff(r) PROVE TypeOK'
  <2>1. req' = [req EXCEPT ![r] = req[r]] /\ req[r] \in Locals /\ "get_token" \in Steps
    BY <1>10 DEF Backoff, TypeOK, Active, Steps
  <2> QED
    BY <1>10, <2>1, LocalType DEF Backoff, Goto, TypeOK
<1>11. ASSUME NEW t \in TokenNumbers, Revoke(t) PROVE TypeOK'
  BY <1>11 DEF Revoke, TypeOK, Active
<1>12. CASE Expire
  BY <1>12 DEF Expire, TypeOK, Active
<1>13. CASE CloseBegin
  BY <1>13, ClientFields DEF CloseBegin, TypeOK, Active
<1>14. CASE CloseEnd
  BY <1>14 DEF CloseEnd, TypeOK, Active
<1>15. CASE UNCHANGED vars
  BY <1>15 DEF vars, TypeOK, Active
<1> QED
  BY <1>1, <1>2, <1>3, <1>4, <1>5, <1>6, <1>7, <1>8, <1>9, <1>10, <1>11, <1>12, <1>13,
     <1>14, <1>15 DEF Next, Step

-----------------------------------------------------------------------------
(* The inductive invariant.                                                *)

\* The part of IInv that is about one caller.
Own(r) ==
    Active(r) =>
        /\ req[r].sends = req[r].attempt + (IF pc[r] \in Answering THEN 1 ELSE 0)
        /\ req[r].attempt <= MaxRetries + (IF req[r].retry THEN 0 ELSE 1)
        /\ pc[r] = "sent" => req[r].to = req[r].region
        /\ ~shared => RejectedAreOld(r)

\* A step of one caller that is in request() or enters it keeps IInv when it
\* keeps the part of that caller: of the synchronous client no other is active.
LEMMA OwnStep ==
    ASSUME IInv, TypeOK', NEW r \in Requests, shared' = shared,
           Active(r) \/ MayStart(r),
           \A o \in Requests : o # r => pc'[o] = pc[o] /\ req'[o] = req[o],
           Own(r)',
           ~shared => token' <= minted'
    PROVE  IInv'
<1>1. \A o \in Requests : o # r => ((Active(o))' <=> Active(o))
  BY DEF Active
<1>2. ASSUME ~shared, NEW o \in Requests, (Active(o))' PROVE o = r
  BY <1>1, <1>2 DEF IInv, OneAtATime, MayStart
<1>3. OneAtATime'
  BY <1>2 DEF OneAtATime
<1>4. Counted'
  <2> SUFFICES ASSUME NEW o \in Requests, (Active(o))'
               PROVE  /\ req'[o].sends =
                           req'[o].attempt + (IF pc'[o] \in Answering THEN 1 ELSE 0)
                      /\ req'[o].attempt <= MaxRetries + (IF req'[o].retry THEN 0 ELSE 1)
    BY DEF Counted
  <2>1. CASE o = r
    BY <2>1 DEF Own
  <2>2. CASE o # r
    BY <1>1, <2>2 DEF IInv, Counted
  <2> QED
    BY <2>1, <2>2
<1>5. SentToOwnRegion'
  <2> SUFFICES ASSUME NEW o \in Requests, pc'[o] = "sent"
               PROVE  req'[o].to = req'[o].region
    BY DEF SentToOwnRegion
  <2>1. CASE o = r
    <3>1. (Active(r))'
      BY <2>1 DEF Active, Steps
    <3> QED
      BY <2>1, <3>1 DEF Own
  <2>2. CASE o # r
    BY <2>2 DEF IInv, SentToOwnRegion
  <2> QED
    BY <2>1, <2>2
<1>6. TokensInOrder'
  BY <1>2 DEF TokensInOrder, Own
<1> QED
  BY <1>3, <1>4, <1>5, <1>6 DEF IInv

\* A request that ends keeps IInv.
LEMMA FinishStep ==
    ASSUME IInv, TypeOK', NEW r \in Requests, NEW step \in {"idle", "raised"},
           Finish(r, step), Active(r) \/ MayStart(r),
           UNCHANGED <<shared, auth, provider, connection>>
    PROVE  IInv'
<1>1. /\ \A o \in Requests : o # r => pc'[o] = pc[o] /\ req'[o] = req[o]
      /\ pc'[r] = step
  BY DEF Finish, Goto, IInv, TypeOK
<1>2. Own(r)'
  BY <1>1 DEF Own, Active, Steps
<1> QED
  BY <1>1, <1>2, OwnStep DEF auth, provider, IInv, TokensInOrder

\* A request that leaves through a client of its region keeps IInv, without
\* the shared client when it carries the token it got.
LEMMA SentStep ==
    ASSUME IInv, TypeOK', NEW r \in Requests, pc[r] \in {"connect", "reconnect"},
           NEW bearer \in TokenNumbers, Sent(r, req[r].region, bearer),
           ~shared => bearer = req[r].bearer,
           UNCHANGED <<shared, auth, provider>>
    PROVE  IInv'
<1>0. Active(r) /\ pc[r] \notin Answering
  BY DEF Active, Steps, Answering
<1>1. /\ \A o \in Requests : o # r => pc'[o] = pc[o] /\ req'[o] = req[o]
      /\ pc'[r] = "sent"
      /\ req'[r] = [req[r] EXCEPT !.sends = @ + 1, !.to = req[r].region, !.with = bearer]
  BY DEF Sent, Goto, IInv, TypeOK
<1>2. req[r] \in Locals
  BY <1>0, Fields DEF IInv
<1>3. /\ req'[r].sends = req[r].sends + 1
      /\ req'[r].to = req'[r].region
      /\ req'[r].with = bearer
      /\ req'[r].attempt = req[r].attempt
      /\ req'[r].retry = req[r].retry
      /\ req'[r].bearer = req[r].bearer
      /\ req'[r].refreshing = req[r].refreshing
      /\ req'[r].rejected = req[r].rejected
  BY <1>1, <1>2 DEF Locals
<1>4. req[r].sends = req[r].attempt /\ req[r].attempt \in Nat
  BY <1>0, Fields DEF IInv, Counted
<1>5. ~shared => RejectedAreOld(r)'
  <2> SUFFICES ASSUME ~shared PROVE RejectedAreOld(r)'
    OBVIOUS
  <2>1. RejectedAreOld(r)
    BY <1>0 DEF IInv, TokensInOrder
  <2>2. pc[r] = "connect" /\ ~req[r].refreshing
    BY <2>1 DEF RejectedAreOld
  <2> QED
    BY <1>1, <1>3, <2>1, <2>2 DEF RejectedAreOld, OlderThan, auth, provider
<1>6. Own(r)'
  BY <1>0, <1>1, <1>3, <1>4, <1>5 DEF Own, Answering, IInv, Counted
<1> QED
  BY <1>0, <1>1, <1>6, OwnStep DEF auth, provider, IInv, TokensInOrder

\* A request that goes to a step that sends nothing, with what it has.
LEMMA MoveStep ==
    ASSUME IInv, TypeOK', NEW r \in Requests, Active(r), pc[r] \notin Answering,
           NEW step \in Steps \ Answering, Goto(r, step), UNCHANGED req,
           ~shared => step \in {"get_token", "exchange", "return_token"},
           ~shared => step = "exchange" \/ ~req[r].refreshing,
           UNCHANGED <<shared, auth, provider>>
    PROVE  IInv'
<1>1. /\ \A o \in Requests : o # r => pc'[o] = pc[o] /\ req'[o] = req[o]
      /\ pc'[r] = step /\ req'[r] = req[r]
  BY DEF Goto, IInv, TypeOK
<1>2. ~shared => RejectedAreOld(r)'
  BY <1>1 DEF IInv, TokensInOrder, RejectedAreOld, OlderThan, Answering, auth, provider
<1>3. Own(r)'
  BY <1>1, <1>2 DEF Own, Answering, IInv, Counted
<1> QED
  BY <1>1, <1>3, OwnStep DEF auth, provider, IInv, TokensInOrder

\* A request that starts has neither sent nor been refused anything.
LEMMA StartStep ==
    ASSUME IInv, TypeOK', NEW r \in Requests, NEW region \in Regions, Start(r, region)
    PROVE  IInv'
<1>1. /\ \A o \in Requests : o # r => pc'[o] = pc[o] /\ req'[o] = req[o]
      /\ pc'[r] = "get_token"
      /\ req'[r].sends = 0 /\ req'[r].attempt = 0 /\ req'[r].retry
      /\ req'[r].bearer = 0 /\ req'[r].with = 0 /\ req'[r].rejected = {}
      /\ ~req'[r].refreshing
  BY DEF Start, Goto, IInv, TypeOK
<1>2. minted' = minted /\ minted \in Nat
  BY BoundsAssumption DEF Start, auth, IInv, TypeOK, TokenNumbers
<1>3. Own(r)'
  BY <1>1, <1>2, BoundsAssumption DEF Own, RejectedAreOld, OlderThan, Answering
<1> QED
  BY <1>1, <1>3, OwnStep DEF Start, auth, provider, IInv, TokensInOrder

\* A token that is exchanged is younger than all that were rejected.
LEMMA ExchangeStep ==
    ASSUME IInv, TypeOK', NEW r \in Requests, Exchange(r) PROVE IInv'
<1>0. Active(r)
  BY DEF Exchange, Active, Steps
<1>1. /\ \A o \in Requests : o # r => pc'[o] = pc[o] /\ req'[o] = req[o]
      /\ pc[r] = "exchange" /\ pc'[r] = "store"
      /\ req'[r] = [req[r] EXCEPT !.bearer = minted + 1]
  BY DEF Exchange, Goto, IInv, TypeOK
<1>2. /\ req[r] \in Locals
      /\ minted \in Nat /\ minted' = minted + 1 /\ token' = token /\ token \in Nat
      /\ req[r].with \in Nat
      /\ req[r].rejected \subseteq Nat
  BY <1>0, Fields, BoundsAssumption DEF IInv, TypeOK, TokenNumbers, Exchange, provider
<1>3. /\ req'[r].bearer = minted + 1
      /\ req'[r].sends = req[r].sends
      /\ req'[r].attempt = req[r].attempt
      /\ req'[r].retry = req[r].retry
      /\ req'[r].with = req[r].with
      /\ req'[r].refreshing = req[r].refreshing
      /\ req'[r].rejected = req[r].rejected
  BY <1>1, <1>2 DEF Locals
<1>4. ASSUME ~shared PROVE RejectedAreOld(r)' /\ token' <= minted'
  <2>1. RejectedAreOld(r) /\ token <= minted
    BY <1>0, <1>4 DEF IInv, TokensInOrder
  <2> QED
    BY <1>1, <1>2, <1>3, <2>1 DEF RejectedAreOld, OlderThan, Answering
<1>5. Own(r)'
  BY <1>0, <1>1, <1>3, <1>4 DEF Own, Answering, IInv, Counted, Exchange
<1> QED
  BY <1>0, <1>1, <1>4, <1>5, OwnStep DEF Exchange

\* The token that is stored is younger than all that were rejected.
LEMMA StoreStep ==
    ASSUME IInv, TypeOK', NEW r \in Requests, Store(r) PROVE IInv'
<1>0. Active(r)
  BY DEF Store, Active, Steps
<1>1. /\ \A o \in Requests : o # r => pc'[o] = pc[o] /\ req'[o] = req[o]
      /\ pc[r] = "store" /\ pc'[r] \in {"get_token", "return_token"}
      /\ req'[r] = [req[r] EXCEPT !.refreshing = FALSE]
      /\ minted' = minted /\ token' = req[r].bearer
  BY DEF Store, Goto, IInv, TypeOK, auth
<1>2. req[r] \in Locals
  BY <1>0, Fields DEF IInv
<1>3. /\ req'[r].bearer = req[r].bearer
      /\ req'[r].sends = req[r].sends
      /\ req'[r].attempt = req[r].attempt
      /\ req'[r].retry = req[r].retry
      /\ req'[r].with = req[r].with
      /\ ~req'[r].refreshing
      /\ req'[r].rejected = req[r].rejected
  BY <1>1, <1>2 DEF Locals
<1>4. ASSUME ~shared PROVE RejectedAreOld(r)' /\ token' <= minted'
  <2>1. RejectedAreOld(r)
    BY <1>0, <1>4 DEF IInv, TokensInOrder
  <2> QED
    BY <1>1, <1>3, <2>1 DEF RejectedAreOld, OlderThan, Answering
<1>5. Own(r)'
  BY <1>0, <1>1, <1>3, <1>4 DEF Own, Answering, IInv, Counted, Store
<1> QED
  BY <1>0, <1>1, <1>4, <1>5, OwnStep DEF Store

\* The stored token is the one the request goes on with.
LEMMA ReturnTokenStep ==
    ASSUME IInv, TypeOK', NEW r \in Requests, ReturnToken(r) PROVE IInv'
<1>0. Active(r)
  BY DEF ReturnToken, Active, Steps
<1>1. /\ \A o \in Requests : o # r => pc'[o] = pc[o] /\ req'[o] = req[o]
      /\ pc[r] = "return_token" /\ pc'[r] = "connect"
      /\ req'[r] = [req[r] EXCEPT !.bearer = token]
      /\ minted' = minted /\ token' = token
  BY DEF ReturnToken, Goto, IInv, TypeOK, auth, provider
<1>2. req[r] \in Locals
  BY <1>0, Fields DEF IInv
<1>3. /\ req'[r].bearer = token
      /\ req'[r].sends = req[r].sends
      /\ req'[r].attempt = req[r].attempt
      /\ req'[r].retry = req[r].retry
      /\ req'[r].with = req[r].with
      /\ req'[r].refreshing = req[r].refreshing
      /\ req'[r].rejected = req[r].rejected
  BY <1>1, <1>2 DEF Locals
<1>4. ASSUME ~shared PROVE RejectedAreOld(r)' /\ token' <= minted'
  <2>1. RejectedAreOld(r) /\ token <= minted
    BY <1>0, <1>4 DEF IInv, TokensInOrder
  <2> QED
    BY <1>1, <1>3, <2>1 DEF RejectedAreOld, OlderThan, Answering
<1>5. Own(r)'
  BY <1>0, <1>1, <1>3, <1>4 DEF Own, Answering, IInv, Counted, ReturnToken
<1> QED
  BY <1>0, <1>1, <1>4, <1>5, OwnStep DEF ReturnToken

\* The ways to a client.
LEMMA ConnectStep ==
    ASSUME IInv, TypeOK', NEW r \in Requests, Connect(r) PROVE IInv'
<1>1. /\ Active(r) /\ pc[r] \in {"connect", "reconnect"} /\ pc[r] \notin Answering
      /\ "reconnect" \in Steps \ Answering
  BY DEF Connect, ConnectOwn, ConnectFirst, ConnectKept, CloseOther, Reconnect, Active, Steps,
         Answering
<1>2. req[r].bearer \in TokenNumbers
  BY <1>1, Fields DEF IInv
<1>3. CASE ConnectOwn(r)
  BY <1>1, <1>2, <1>3, SentStep DEF ConnectOwn
<1>4. CASE ConnectFirst(r)
  BY <1>1, <1>2, <1>4, SentStep DEF ConnectFirst
<1>5. CASE ConnectKept(r) /\ client.open
  <2>1. client.bearer \in TokenNumbers
    BY <1>5, ClientFields DEF ConnectKept, IInv
  <2>2. Sent(r, req[r].region, client.bearer) /\ shared
    BY <1>5 DEF ConnectKept
  <2> QED
    BY <1>1, <1>5, <2>1, <2>2, SentStep DEF ConnectKept
<1>6. CASE ConnectKept(r) /\ ~client.open
  BY <1>1, <1>6, FinishStep DEF ConnectKept, Return
<1>7. CASE CloseOther(r)
  BY <1>1, <1>7, MoveStep DEF CloseOther
<1>8. CASE Reconnect(r)
  <2>1. shared
    BY <1>1, <1>8 DEF Reconnect, IInv, TokensInOrder, RejectedAreOld
  <2> QED
    BY <1>1, <1>2, <1>8, <2>1, SentStep DEF Reconnect
<1> QED
  BY <1>3, <1>4, <1>5, <1>6, <1>7, <1>8 DEF Connect

\* A request that the API carries out.
LEMMA ServeStep ==
    ASSUME IInv, TypeOK', NEW r \in Requests, Serve(r) PROVE IInv'
<1>0. Active(r)
  BY DEF Serve, Active, Steps
<1>1. /\ \A o \in Requests : o # r => pc'[o] = pc[o] /\ req'[o] = req[o]
      /\ pc[r] = "sent" /\ pc'[r] = "served"
      /\ req'[r] = [req[r] EXCEPT !.effects = @ + 1]
      /\ minted' = minted /\ token' = token
  BY DEF Serve, Goto, IInv, TypeOK, auth, provider
<1>2. req[r] \in Locals
  BY <1>0, Fields DEF IInv
<1>3. /\ req'[r].bearer = req[r].bearer
      /\ req'[r].sends = req[r].sends
      /\ req'[r].attempt = req[r].attempt
      /\ req'[r].retry = req[r].retry
      /\ req'[r].with = req[r].with
      /\ req'[r].refreshing = req[r].refreshing
      /\ req'[r].rejected = req[r].rejected
  BY <1>1, <1>2 DEF Locals
<1>4. ASSUME ~shared PROVE RejectedAreOld(r)' /\ token' <= minted'
  <2>1. RejectedAreOld(r) /\ token <= minted
    BY <1>0, <1>4 DEF IInv, TokensInOrder
  <2> QED
    BY <1>1, <1>3, <2>1 DEF RejectedAreOld, OlderThan, Answering
<1>5. Own(r)'
  BY <1>0, <1>1, <1>3, <1>4 DEF Own, Answering, IInv, Counted, Serve
<1> QED
  BY <1>0, <1>1, <1>4, <1>5, OwnStep DEF Serve

\* After a 401 the token that was sent is among the rejected ones, and what is
\* exchanged next is younger.
LEMMA UnauthorizedStep ==
    ASSUME IInv, TypeOK', NEW r \in Requests, AnswerUnauthorized(r), req[r].retry
    PROVE  IInv'
<1>0. Active(r)
  BY DEF AnswerUnauthorized, Active, Steps
<1>1. /\ \A o \in Requests : o # r => pc'[o] = pc[o] /\ req'[o] = req[o]
      /\ pc[r] = "sent" /\ pc'[r] = "exchange"
      /\ req'[r] = [req[r] EXCEPT !.retry = FALSE, !.attempt = @ + 1, !.refreshing = TRUE,
                                  !.rejected = @ \union {req[r].with}]
      /\ minted' = minted /\ token' = token
  BY DEF AnswerUnauthorized, Goto, IInv, TypeOK, auth, provider
<1>2. req[r] \in Locals /\ req[r].attempt \in Nat /\ req[r].with \in Nat /\ minted \in Nat
  BY <1>0, Fields, BoundsAssumption DEF IInv, TypeOK, TokenNumbers
<1>3. /\ req'[r].bearer = req[r].bearer
      /\ req'[r].sends = req[r].sends
      /\ req'[r].attempt = req[r].attempt + 1
      /\ ~req'[r].retry
      /\ req'[r].with = req[r].with
      /\ req'[r].refreshing
      /\ req'[r].rejected = req[r].rejected \union {req[r].with}
  BY <1>1, <1>2 DEF Locals
<1>4. ASSUME ~shared PROVE RejectedAreOld(r)' /\ token' <= minted'
  <2>1. RejectedAreOld(r) /\ token <= minted
    BY <1>0, <1>4 DEF IInv, TokensInOrder
  <2>2. OlderThan(req'[r].rejected, minted + 1)
    BY <1>2, <1>3, <2>1 DEF RejectedAreOld, OlderThan
  <2> QED
    BY <1>1, <1>3, <2>1, <2>2 DEF RejectedAreOld, Answering
<1>5. Own(r)'
  BY <1>0, <1>1, <1>2, <1>3, <1>4, BoundsAssumption
     DEF Own, Answering, IInv, Counted, AnswerUnauthorized
<1> QED
  BY <1>0, <1>1, <1>4, <1>5, OwnStep DEF AnswerUnauthorized

\* A retry counts.
LEMMA TransientStep ==
    ASSUME IInv, TypeOK', NEW r \in Requests, AnswerTransient(r), req[r].attempt < MaxRetries
    PROVE  IInv'
<1>0. Active(r) /\ pc[r] \in Answering
  BY DEF AnswerTransient, Active, Steps, Answering
<1>1. /\ \A o \in Requests : o # r => pc'[o] = pc[o] /\ req'[o] = req[o]
      /\ pc'[r] = "backoff"
      /\ req'[r] = [req[r] EXCEPT !.attempt = @ + 1]
      /\ minted' = minted /\ token' = token
  BY DEF AnswerTransient, Goto, IInv, TypeOK, auth, provider
<1>2. req[r] \in Locals /\ req[r].attempt \in Nat
  BY <1>0, Fields DEF IInv
<1>3. /\ req'[r].bearer = req[r].bearer
      /\ req'[r].sends = req[r].sends
      /\ req'[r].attempt = req[r].attempt + 1
      /\ req'[r].retry = req[r].retry
      /\ req'[r].with = req[r].with
      /\ req'[r].refreshing = req[r].refreshing
      /\ req'[r].rejected = req[r].rejected
  BY <1>1, <1>2 DEF Locals
<1>4. ASSUME ~shared PROVE RejectedAreOld(r)' /\ token' <= minted'
  <2>1. RejectedAreOld(r) /\ token <= minted
    BY <1>0, <1>4 DEF IInv, TokensInOrder
  <2>2. ~req[r].refreshing
    BY <1>0, <2>1 DEF RejectedAreOld, Answering
  <2> QED
    BY <1>1, <1>3, <2>1, <2>2 DEF RejectedAreOld, OlderThan, Answering
<1>5. Own(r)'
  BY <1>0, <1>1, <1>2, <1>3, <1>4, BoundsAssumption
     DEF Own, Answering, IInv, Counted, AnswerTransient
<1> QED
  BY <1>0, <1>1, <1>4, <1>5, OwnStep DEF AnswerTransient

\* Steps of the environment touch neither the callers nor the tokens.
LEMMA QuietStep ==
    ASSUME IInv, TypeOK', UNCHANGED <<shared, minted, token, pc, req>> PROVE IInv'
  BY DEF IInv, Counted, SentToOwnRegion, OneAtATime, TokensInOrder, RejectedAreOld, OlderThan,
         Active

\* Nothing has been sent at first.
LEMMA IInvInit == Init => IInv
<1> SUFFICES ASSUME Init PROVE IInv
  OBVIOUS
<1>1. 0 \in TokenNumbers /\ NoRegion \in Regions \union {NoRegion}
  BY BoundsAssumption DEF TokenNumbers
<1>2. \A r \in Requests : ~Active(r) /\ pc[r] # "sent"
  BY DEF Init, Active, Steps
<1>3. TypeOK
  <2>1. client \in Clients \union {NoClient}
    <3>1. Built(NoRegion, 0) \in Clients
      BY <1>1 DEF Built, Clients
    <3> QED
      BY <3>1 DEF Init
  <2>2. /\ pc \in [Requests -> Steps \union {"idle", "raised"}]
        /\ req \in [Requests -> Locals \union {NoRequest}]
    BY DEF Init
  <2> QED
    BY <1>1, <1>2, <2>1, <2>2 DEF Init, TypeOK
<1> QED
  BY <1>2, <1>3 DEF Init, IInv, Counted, SentToOwnRegion, OneAtATime, TokensInOrder

\* Every step keeps the inductive invariant.
LEMMA IInvStep == IInv /\ [Next]_vars => IInv'
<1> SUFFICES ASSUME IInv, [Next]_vars PROVE IInv'
  OBVIOUS
<1>0. TypeOK'
  BY TypeStep DEF IInv
<1>1. ASSUME NEW r \in Requests, NEW region \in Regions, Start(r, region) PROVE IInv'
  BY <1>0, <1>1, StartStep
<1>2. ASSUME NEW r \in Requests, StartUnknown(r) PROVE IInv'
  BY <1>0, <1>2, FinishStep DEF StartUnknown, Return
<1>3. ASSUME NEW r \in Requests, GetToken(r) \/ Backoff(r) PROVE IInv'
  <2>1. /\ Active(r) /\ pc[r] \notin Answering /\ pc[r] \in {"get_token", "backoff"}
        /\ {"get_token", "exchange", "return_token"} \subseteq Steps \ Answering
    BY <1>3 DEF GetToken, Backoff, Active, Steps, Answering
  <2>2. ~shared => ~req[r].refreshing
    BY <2>1 DEF IInv, TokensInOrder, RejectedAreOld
  <2> QED
    BY <1>0, <1>3, <2>1, <2>2, MoveStep DEF GetToken, Backoff
<1>4. ASSUME NEW r \in Requests, Exchange(r) PROVE IInv'
  BY <1>0, <1>4, ExchangeStep
<1>5. ASSUME NEW r \in Requests, ExchangeFails(r) PROVE IInv'
  <2>1. Active(r)
    BY <1>5 DEF ExchangeFails, Active, Steps
  <2> QED
    BY <1>0, <1>5, <2>1, FinishStep DEF ExchangeFails
<1>6. ASSUME NEW r \in Requests, Store(r) PROVE IInv'
  BY <1>0, <1>6, StoreStep
<1>7. ASSUME NEW r \in Requests, ReturnToken(r) PROVE IInv'
  BY <1>0, <1>7, ReturnTokenStep
<1>8. ASSUME NEW r \in Requests, Connect(r) PROVE IInv'
  BY <1>0, <1>8, ConnectStep
<1>9. ASSUME NEW r \in Requests, Answer(r) PROVE IInv'
  <2>1. CASE Serve(r)
    BY <1>0, <2>1, ServeStep
  <2>2. CASE AnswerUnauthorized(r) /\ req[r].retry
    BY <1>0, <2>2, UnauthorizedStep
  <2>3. CASE AnswerTransient(r) /\ req[r].attempt < MaxRetries
    BY <1>0, <2>3, TransientStep
  <2>4. CASE Return(r) /\ UNCHANGED <<shared, auth, provider, connection>>
    <3>1. Active(r)
      BY <1>9 DEF Answer, Serve, AnswerOK, AnswerRefused, AnswerUnauthorized,
                  AnswerTransient, NoAnswer, Active, Steps
    <3> QED
      BY <1>0, <2>4, <3>1, FinishStep DEF Return
  <2>5. CASE AnswerOK(r) \/ AnswerRefused(r) \/ NoAnswer(r)
    BY <2>4, <2>5 DEF AnswerOK, AnswerRefused, NoAnswer
  <2>6. CASE AnswerUnauthorized(r) /\ ~req[r].retry
    BY <2>4, <2>6 DEF AnswerUnauthorized
  <2>7. CASE AnswerTransient(r) /\ ~(req[r].attempt < MaxRetries)
    BY <2>4, <2>7 DEF AnswerTransient
  <2> QED
    BY <1>9, <2>1, <2>2, <2>3, <2>5, <2>6, <2>7 DEF Answer
<1>10. CASE Expire \/ CloseBegin \/ CloseEnd \/ UNCHANGED vars
  BY <1>0, <1>10, QuietStep DEF Expire, CloseBegin, CloseEnd, vars, auth, provider, connection
<1>11. ASSUME NEW t \in TokenNumbers, Revoke(t) PROVE IInv'
  BY <1>0, <1>11, QuietStep DEF Revoke, provider, connection
<1> QED
  BY <1>1, <1>2, <1>3, <1>4, <1>5, <1>6, <1>7, <1>8, <1>9, <1>10, <1>11 DEF Next, Step

-----------------------------------------------------------------------------
(* The theorems.                                                           *)

\* The inductive invariant holds in every reachable state.
THEOREM Inductive == Spec => []IInv
  BY IInvInit, IInvStep, PTL DEF Spec

\* The tokens, the shared client and the requests are always well typed.
THEOREM TypeCorrect == Spec => []TypeOK
<1>1. IInv => TypeOK
  BY DEF IInv
<1> QED
  BY <1>1, Inductive, PTL

\* A request is sent at most MaxRetries + 1 times, and once more after a 401.
THEOREM Bounded == Spec => []SendsBounded
<1>1. ASSUME IInv PROVE SendsBounded
  <2> SUFFICES ASSUME NEW r \in Requests, Active(r)
               PROVE  req[r].sends <= MaxRetries + (IF req[r].retry THEN 1 ELSE 2)
    BY DEF SendsBounded
  <2>1. /\ req[r].sends = req[r].attempt + (IF pc[r] \in Answering THEN 1 ELSE 0)
        /\ req[r].attempt <= MaxRetries + (IF req[r].retry THEN 0 ELSE 1)
        /\ req[r].attempt \in Nat
    BY <1>1, Fields DEF IInv, Counted
  <2> QED
    BY <2>1, BoundsAssumption
<1> QED
  BY <1>1, Inductive, PTL

\* Whatever coroutines replace or close the shared client, a request goes to
\* the base URL of its own region.
THEOREM OwnRegion == Spec => []SentToOwnRegion
<1>1. IInv => SentToOwnRegion
  BY DEF IInv
<1> QED
  BY <1>1, Inductive, PTL

\* The synchronous client never repeats a request with a token that was
\* rejected for it.
THEOREM NewToken == Spec => []SyncResendCarriesNewToken
<1>1. ASSUME IInv PROVE SyncResendCarriesNewToken
  <2> SUFFICES ASSUME ~shared, NEW r \in Requests, pc[r] = "sent"
               PROVE  req[r].with \notin req[r].rejected
    BY DEF SyncResendCarriesNewToken, ResendCarriesNewToken
  <2>1. Active(r) /\ pc[r] \in Answering
    BY DEF Active, Steps, Answering
  <2>2. OlderThan(req[r].rejected, req[r].with)
    BY <1>1, <2>1 DEF IInv, TokensInOrder, RejectedAreOld
  <2>3. req[r].with \in Nat
    BY <1>1, <2>1, Fields, BoundsAssumption DEF IInv, TokenNumbers
  <2> QED
    BY <2>2, <2>3 DEF OlderThan
<1> QED
  BY <1>1, Inductive, PTL
=============================================================================
