-------------------------- MODULE ConfirmFlowProofs --------------------------
(***************************************************************************)
(* Proofs about ConfirmFlow, for any number of workers, clients, tokens,   *)
(* values and messages.                                                    *)
(***************************************************************************)
EXTENDS ConfirmFlow, TLAPS

USE DEF memory, history

-----------------------------------------------------------------------------
(* What the operators on entities return.                                  *)

\* dict.update of two entity sets is an entity set.
LEMMA UpdateType ==
    ASSUME NEW a \in EntitySet, NEW b \in EntitySet
    PROVE  Update(a, b) \in EntitySet
BY DEF Update, EntitySet

\* The empty dictionary is an entity set.
LEMMA NoEntitiesType == NoEntities \in EntitySet
BY DEF NoEntities, EntitySet

\* What a destructive command carries is an entity set.
LEMMA DestructiveEntitiesType ==
    ASSUME NEW a \in EntitySet, NEW b \in EntitySet
    PROVE  DestructiveEntities(a, b) \in EntitySet
BY UpdateType, NoEntitiesType DEF DestructiveEntities

\* _resolve_app_region finds entities, whatever it finds them in.
LEMMA ResolveType ==
    ASSUME NEW a \in EntitySet, NEW b \in EntitySet,
           NEW c \in EntitySet, NEW d \in EntitySet
    PROVE  Resolve(a, b, c, d) \in EntitySet
<1> DEFINE found == Update(Update(a, b), c)
<1>1. found \in EntitySet
  BY UpdateType
<1>2. "region" \in Keys
  BY DEF Keys
<1>3. [found EXCEPT !["region"] = d["region"]] \in EntitySet
  BY <1>1, <1>2 DEF EntitySet
<1> QED
  BY <1>1, <1>3 DEF Resolve

\* An entity set that names both the application and the region is a target.
LEMMA NamedIsTarget ==
    ASSUME NEW a \in EntitySet, NamesTarget(a)
    PROVE  a \in Targets
BY DEF EntitySet, NamesTarget, Targets

\* The pairs of an entity set are pairs of an entity and a value.
LEMMA PairsType ==
    ASSUME NEW a \in EntitySet
    PROVE  Pairs(a) \subseteq Keys \X Values
BY DEF Pairs, EntitySet

\* The entities of the request win: what the request names is what resolves.
LEMMA ResolveKeepsNamed ==
    ASSUME NEW a \in EntitySet, NEW b \in EntitySet,
           NEW c \in EntitySet, NEW d \in EntitySet,
           NEW k \in Keys, c[k] # NoValue
    PROVE  Resolve(a, b, c, d)[k] = c[k]
<1> DEFINE found == Update(Update(a, b), c)
<1>1. found[k] = c[k]
  BY DEF Update
<1>2. found \in EntitySet
  BY UpdateType
<1>3. CASE found["region"] # NoValue
  BY <1>1, <1>3 DEF Resolve
<1>4. CASE found["region"] = NoValue
  <2>1. k # "region"
    BY <1>1, <1>4
  <2>2. Resolve(a, b, c, d)[k] = [found EXCEPT !["region"] = d["region"]][k]
    BY <1>4 DEF Resolve
  <2> QED
    BY <1>1, <1>2, <2>1, <2>2 DEF EntitySet
<1> QED
  BY <1>3, <1>4

-----------------------------------------------------------------------------
(* Type correctness.                                                       *)

\* What holds of the locals of a worker that is in a turn.
LEMMA InTurn ==
    ASSUME TypeOK, NEW w \in Workers, pc[w] \in Steps
    PROVE  /\ turn[w] \in Turns
           /\ turn[w].client \in Clients
           /\ turn[w].msg \in MessageType
           /\ turn[w].token \in Tokens \union {NoToken}
           /\ turn[w].merged \in EntitySet
           /\ turn[w].snap \in EntitySet
           /\ turn[w].todo \subseteq Keys
           /\ Session(w) \in Sessions
           /\ User(w) \in Users
           /\ session[Session(w)] \in EntitySet
           /\ facts[User(w)] \in EntitySet
<1>1. turn[w] \in Turns
  BY DEF TypeOK
<1>2. /\ turn[w].client \in Clients
      /\ turn[w].msg \in MessageType
      /\ turn[w].token \in Tokens \union {NoToken}
      /\ turn[w].merged \in EntitySet
      /\ turn[w].snap \in EntitySet
      /\ turn[w].todo \subseteq Keys
  BY <1>1 DEF Turns
<1>3. Session(w) \in Sessions /\ User(w) \in Users
  BY <1>2 DEF Session, User, Sessions, Users
<1> QED
  BY <1>1, <1>2, <1>3 DEF TypeOK

\* The fields of a message.
LEMMA MessageFields ==
    ASSUME NEW m \in MessageType
    PROVE  /\ m.nlu \in EntitySet
           /\ m.fallback \in EntitySet
           /\ m.complete \in BOOLEAN
           /\ Current(m) \in EntitySet
           /\ ToPersist(m) \subseteq Keys
BY DEF MessageType, Current, ToPersist

\* The end of a turn, whatever else happens, leaves pc and turn well typed.
LEMMA LeaveType ==
    ASSUME TypeOK, NEW w \in Workers, NEW step \in {"idle", "lost"}, Leave(w, step)
    PROVE  /\ pc' \in [Workers -> Steps \union {"idle", "lost"}]
           /\ turn' \in [Workers -> Turns \union {NoTurn}]
           /\ \A v \in Workers : pc'[v] \in Steps => turn'[v] \in Turns
BY DEF TypeOK, Leave, Goto, Steps

\* Moving on within a turn keeps pc and turn well typed.
LEMMA GotoType ==
    ASSUME TypeOK, NEW w \in Workers, NEW step \in Steps, pc[w] \in Steps,
           Goto(w, step),
           NEW r \in Turns, turn' = [turn EXCEPT ![w] = r]
    PROVE  /\ pc' \in [Workers -> Steps \union {"idle", "lost"}]
           /\ turn' \in [Workers -> Turns \union {NoTurn}]
           /\ \A v \in Workers : pc'[v] \in Steps => turn'[v] \in Turns
BY DEF TypeOK, Goto

\* Every step keeps the memories, the workers and the histories well typed.
LEMMA TypeStep ==
    ASSUME TypeOK, HeldTokens, [Next]_vars
    PROVE  TypeOK'
<1>1. ASSUME NEW w \in Workers, NEW c \in Clients, NEW msg \in MessagesOf[c],
             NEW t \in Tokens \union {NoToken}, Receive(w, c, msg, t)
      PROVE  TypeOK'
  <2>1. msg \in MessageType
    BY MessagesAssumption
  <2>2. Pairs(msg.nlu) \subseteq Keys \X Values /\ Pairs(msg.fallback) \subseteq Keys \X Values
    BY <2>1, MessageFields, PairsType
  <2>3. [client |-> c, msg |-> msg, token |-> t, merged |-> NoEntities,
         todo |-> {}, snap |-> NoEntities] \in Turns
    BY <2>1, NoEntitiesType DEF Turns
  <2>4. mentioned' \in [Clients -> SUBSET (Keys \X Values)]
    BY <1>1, <2>2 DEF Receive, TypeOK
  <2> QED
    BY <1>1, <2>3, <2>4 DEF Receive, TypeOK, Goto, Steps
<1>2. ASSUME NEW w \in Workers, MergeRead(w) PROVE TypeOK'
  <2> DEFINE r == [turn[w] EXCEPT !.merged = Update(session[Session(w)], turn[w].msg.nlu)]
  <2>1. r \in Turns
    BY <1>2, InTurn, MessageFields, UpdateType DEF MergeRead, Turns, Steps
  <2>2. turn' = [turn EXCEPT ![w] = r]
    BY <1>2 DEF MergeRead
  <2>3. pc[w] \in Steps /\ Goto(w, "merge_write") /\ "merge_write" \in Steps
    BY <1>2 DEF MergeRead, Steps
  <2> HIDE DEF r
  <2> QED
    BY <1>2, <2>1, <2>2, <2>3, GotoType DEF MergeRead, TypeOK
<1>3. ASSUME NEW w \in Workers, MergeWrite(w) PROVE TypeOK'
  <2> DEFINE r == [turn[w] EXCEPT !.merged = Update(@, turn[w].msg.fallback),
                                  !.todo = ToPersist(turn[w].msg)]
             step == IF ToPersist(turn[w].msg) = {} THEN "dispatch" ELSE "persist"
  <2>0. pc[w] \in Steps
    BY <1>3 DEF MergeWrite, Steps
  <2>1. r \in Turns
    BY <2>0, InTurn, MessageFields, UpdateType DEF Turns
  <2>2. turn' = [turn EXCEPT ![w] = r]
    BY <1>3 DEF MergeWrite
  <2>3. Goto(w, step) /\ step \in Steps
    BY <1>3 DEF MergeWrite, GotoPersist, Steps
  <2>4. session' \in [Sessions -> EntitySet]
    BY <1>3, <2>0, InTurn DEF MergeWrite, TypeOK
  <2> HIDE DEF r, step
  <2> QED
    BY <1>3, <2>0, <2>1, <2>2, <2>3, <2>4, GotoType DEF MergeWrite, TypeOK
<1>4. ASSUME NEW w \in Workers, NEW k \in Keys, PersistFact(w, k) PROVE TypeOK'
  <2> DEFINE r == [turn[w] EXCEPT !.todo = @ \ {k}]
             step == IF turn[w].todo \ {k} = {} THEN "dispatch" ELSE "persist"
  <2>0. pc[w] \in Steps
    BY <1>4 DEF PersistFact, Steps
  <2>1. r \in Turns
    BY <2>0, InTurn DEF Turns
  <2>2. turn' = [turn EXCEPT ![w] = r]
    BY <1>4 DEF PersistFact
  <2>3. Goto(w, step) /\ step \in Steps
    BY <1>4 DEF PersistFact, GotoPersist, Steps
  <2>4. turn[w].msg.nlu[k] \in Values \union {NoValue}
    BY <2>0, InTurn, MessageFields DEF EntitySet
  <2>5. [facts[User(w)] EXCEPT ![k] = turn[w].msg.nlu[k]] \in EntitySet
    BY <2>0, <2>4, InTurn DEF EntitySet
  <2>6. facts' \in [Users -> EntitySet]
    BY <1>4, <2>0, <2>5, InTurn DEF PersistFact, TypeOK
  <2> HIDE DEF r, step
  <2> QED
    BY <1>4, <2>0, <2>1, <2>2, <2>3, <2>6, GotoType DEF PersistFact, TypeOK
<1>5. ASSUME NEW w \in Workers, RunPlain(w) PROVE TypeOK'
  <2>1. User(w) \in Users /\ facts[User(w)] \in EntitySet
    BY <1>5, InTurn DEF RunPlain, Steps
  <2>2. \A k \in Keys : [facts[User(w)] EXCEPT ![k] = NoValue] \in EntitySet
    BY <2>1 DEF EntitySet
  <2>3. facts' \in [Users -> EntitySet]
    BY <1>5, <2>1, <2>2 DEF RunPlain, TypeOK
  <2> QED
    BY <1>5, <2>3, LeaveType DEF RunPlain, EndTurn, TypeOK
<1>6. ASSUME NEW w \in Workers, NEW t \in Tokens, IssueToken(w, t) PROVE TypeOK'
  <2>0. pc[w] \in Steps
    BY <1>6 DEF IssueToken, Steps
  <2>1. [session |-> Session(w),
         entities |-> DestructiveEntities(turn[w].merged, Current(turn[w].msg)),
         complete |-> turn[w].msg.complete] \in Grants
    BY <2>0, InTurn, MessageFields, DestructiveEntitiesType DEF Grants
  <2>2. issued' \in [Tokens -> Grants \union {NoGrant}]
    BY <1>6, <2>1 DEF IssueToken, TypeOK
  <2> QED
    BY <1>6, <2>2, LeaveType DEF IssueToken, EndTurn, TypeOK
<1>7. ASSUME NEW w \in Workers, ConsumeGet(w) PROVE TypeOK'
  BY <1>7, LeaveType DEF ConsumeGet, EndTurn, TypeOK, Goto, Steps
<1>8. ASSUME NEW w \in Workers, ConsumeDelete(w) PROVE TypeOK'
  BY <1>8 DEF ConsumeDelete, TypeOK, Goto, Steps
<1>9. ASSUME NEW w \in Workers, CheckSession(w) PROVE TypeOK'
  <2> DEFINE r == [turn[w] EXCEPT !.snap = session[Session(w)]]
  <2>0. pc[w] \in Steps
    BY <1>9 DEF CheckSession, Steps
  <2>1. r \in Turns
    BY <2>0, InTurn DEF Turns
  <2>2. turn' = [turn EXCEPT ![w] = r]
    BY <1>9 DEF CheckSession
  <2>3. Goto(w, "check_facts") /\ "check_facts" \in Steps
    BY <1>9 DEF CheckSession, Steps
  <2> HIDE DEF r
  <2> QED
    BY <1>9, <2>0, <2>1, <2>2, <2>3, GotoType DEF CheckSession, TypeOK
<1>10. ASSUME NEW w \in Workers, CheckFacts(w) PROVE TypeOK'
  BY <1>10, LeaveType DEF CheckFacts, EndTurn, TypeOK, Goto, Steps
<1>11. ASSUME NEW w \in Workers, RunSession(w) PROVE TypeOK'
  <2> DEFINE r == [turn[w] EXCEPT !.snap = session[Session(w)]]
  <2>0. pc[w] \in Steps
    BY <1>11 DEF RunSession, Steps
  <2>1. r \in Turns
    BY <2>0, InTurn DEF Turns
  <2>2. turn' = [turn EXCEPT ![w] = r]
    BY <1>11 DEF RunSession
  <2>3. Goto(w, "run_facts") /\ "run_facts" \in Steps
    BY <1>11 DEF RunSession, Steps
  <2> HIDE DEF r
  <2> QED
    BY <1>11, <2>0, <2>1, <2>2, <2>3, GotoType DEF RunSession, TypeOK
<1>12. ASSUME NEW w \in Workers, RunFacts(w) PROVE TypeOK'
  <2>0. pc[w] \in Steps /\ pc[w] \in Holding
    BY <1>12 DEF RunFacts, Holding, AfterDelete, Steps
  <2>1. turn[w].token \in Tokens /\ Grant(w) \in Grants
    BY <2>0 DEF HeldTokens, Grant, TypeOK
  <2>2. Resolved(w) \in EntitySet
    BY <2>0, <2>1, InTurn, ResolveType DEF Resolved, Grants
  <2>3. Callable(Resolved(w)) => Resolved(w) \in Targets
    BY <2>2, NamedIsTarget DEF Callable
  <2>4. executed' \subseteq [token : Tokens, client : Clients, target : Targets]
    BY <1>12, <2>0, <2>1, <2>3, InTurn DEF RunFacts, TypeOK
  <2>5. runs' \in [Tokens -> [Workers -> Nat]]
    <3> DEFINE t == turn[w].token
               row == [runs[t] EXCEPT ![w] = runs[t][w] + 1]
    <3>1. row \in [Workers -> Nat]
      BY <2>1 DEF TypeOK
    <3>2. runs' = [runs EXCEPT ![t] = row] \/ runs' = runs
      BY <1>12 DEF RunFacts
    <3> HIDE DEF row
    <3> QED
      BY <2>1, <3>1, <3>2 DEF TypeOK
  <2> QED
    BY <1>12, <2>4, <2>5, LeaveType DEF RunFacts, EndTurn, TypeOK
<1>13. ASSUME NEW w \in Workers, LoseTurn(w) PROVE TypeOK'
  BY <1>13, LeaveType DEF LoseTurn, TypeOK
<1>14. ASSUME NEW t \in Tokens, ExpireToken(t) PROVE TypeOK'
  BY <1>14 DEF ExpireToken, TypeOK
<1>15. ASSUME NEW s \in Sessions, ExpireSession(s) PROVE TypeOK'
  BY <1>15, NoEntitiesType DEF ExpireSession, TypeOK
<1>16. ASSUME NEW w \in Workers, Restart(w) PROVE TypeOK'
  BY <1>16 DEF Restart, TypeOK, Goto, Steps
<1>17. CASE UNCHANGED vars
  BY <1>17 DEF vars, TypeOK
<1> QED
  BY <1>1, <1>2, <1>3, <1>4, <1>5, <1>6, <1>7, <1>8, <1>9, <1>10, <1>11, <1>12,
     <1>13, <1>14, <1>15, <1>16, <1>17 DEF Next, Step

-----------------------------------------------------------------------------
(* The inductive invariant.                                                *)

\* A step of worker w that touches neither the tokens nor their history and
\* leaves w without a token in hand disturbs nothing.
LEMMA QuietStep ==
    ASSUME IInv, TypeOK', NEW w \in Workers, NEW step, step \notin Holding,
           UNCHANGED <<live, issued, runs, executed>>,
           pc' = [pc EXCEPT ![w] = step],
           \A v \in Workers \ {w} : turn'[v] = turn[v]
    PROVE  IInv'
<1>1. HeldTokens'
  <2> SUFFICES ASSUME NEW v \in Workers, pc'[v] \in Holding
               PROVE  v # w
    BY DEF IInv, TypeOK, HeldTokens, Session
  <2> QED
    BY DEF IInv, TypeOK
<1>2. AuthorisedExecution'
  BY DEF IInv, AuthorisedExecution, CE!Agrees
<1> QED
  BY <1>1, <1>2 DEF IInv, LiveTokensIssued, RunTokens, ExecutedTokenIsSpent

\* The expiry of a token or a session disturbs nothing.
LEMMA ExpiryStep ==
    ASSUME IInv, TypeOK', live' \subseteq live,
           UNCHANGED <<pc, turn, issued, runs, executed>>
    PROVE  IInv'
<1>1. HeldTokens'
  BY DEF IInv, HeldTokens, Session
<1>2. AuthorisedExecution'
  BY DEF IInv, AuthorisedExecution, CE!Agrees
<1> QED
  BY <1>1, <1>2 DEF IInv, LiveTokensIssued, RunTokens, ExecutedTokenIsSpent

\* Between the DELETE of its token and the call of the API a worker only
\* reads: nothing is disturbed while it goes on holding the same token.
LEMMA HoldStep ==
    ASSUME IInv, TypeOK', NEW w \in Workers, NEW step \in Holding,
           UNCHANGED <<live, issued, runs, executed>>,
           pc[w] \in AfterDelete, step # "delete",
           step \in {"run_session", "run_facts"} => issued[turn[w].token].complete,
           pc' = [pc EXCEPT ![w] = step],
           turn'[w].token = turn[w].token, turn'[w].client = turn[w].client,
           \A v \in Workers \ {w} : turn'[v] = turn[v]
    PROVE  IInv'
<1>1. HeldTokens'
  <2> SUFFICES ASSUME NEW v \in Workers, pc'[v] \in Holding
               PROVE  /\ turn'[v].token \in Tokens
                      /\ issued[turn'[v].token] # NoGrant
                      /\ issued[turn'[v].token].session = Session(v)'
                      /\ runs[turn'[v].token][v] = 0
                      /\ pc'[v] # "delete" => turn'[v].token \notin live
                      /\ pc'[v] \in {"run_session", "run_facts"}
                           => issued[turn'[v].token].complete
    BY DEF HeldTokens
  <2>1. CASE v # w
    BY <2>1 DEF IInv, TypeOK, HeldTokens, Session
  <2>2. CASE v = w
    <3>1. pc'[w] = step
      BY DEF IInv, TypeOK
    <3>2. pc[w] \in Holding /\ pc[w] # "delete"
      BY DEF Holding, AfterDelete
    <3> QED
      BY <2>2, <3>1, <3>2 DEF IInv, HeldTokens, Session
  <2> QED
    BY <2>1, <2>2
<1>2. AuthorisedExecution'
  BY DEF IInv, AuthorisedExecution, CE!Agrees
<1> QED
  BY <1>1, <1>2 DEF IInv, LiveTokensIssued, RunTokens, ExecutedTokenIsSpent

\* A new token is in nobody's hands and was never executed.
LEMMA IssueStep ==
    ASSUME IInv, TypeOK', NEW w \in Workers, NEW t \in Tokens, IssueToken(w, t)
    PROVE  IInv'
<1>1. issued' \in [Tokens -> Grants \union {NoGrant}] /\ issued'[t] # NoGrant
  <2>1. pc[w] \in Steps
    BY DEF IssueToken, Steps
  <2>2. issued'[t] = [session |-> Session(w),
           entities |-> DestructiveEntities(turn[w].merged, Current(turn[w].msg)),
           complete |-> turn[w].msg.complete]
    BY DEF IssueToken, IInv, TypeOK
  <2>3. issued'[t] \in Grants
    BY <2>1, <2>2, InTurn, MessageFields, DestructiveEntitiesType DEF IInv, Grants
  <2> QED
    BY <2>3, NoGrantAssumption DEF TypeOK
<1>2. \A u \in Tokens \ {t} : issued'[u] = issued[u]
  BY DEF IssueToken, IInv, TypeOK
<1>3. LiveTokensIssued'
  BY <1>1, <1>2 DEF IssueToken, IInv, TypeOK, LiveTokensIssued
<1>4. HeldTokens'
  <2> SUFFICES ASSUME NEW v \in Workers, pc'[v] \in Holding
               PROVE  v # w /\ turn[v].token # t
    BY <1>2 DEF IssueToken, EndTurn, Leave, Goto, IInv, TypeOK, HeldTokens, Session
  <2>1. pc'[w] = "idle" /\ "idle" \notin Holding
    BY DEF IssueToken, EndTurn, Leave, Goto, IInv, TypeOK, Holding, AfterDelete
  <2>2. v # w
    BY <2>1
  <2> QED
    BY <2>2 DEF IssueToken, EndTurn, Leave, Goto, IInv, TypeOK, HeldTokens
<1>5. RunTokens'
  BY <1>2 DEF IssueToken, IInv, RunTokens
<1>6. AuthorisedExecution'
  BY <1>2 DEF IssueToken, IInv, TypeOK, AuthorisedExecution, CE!Agrees
<1>7. ExecutedTokenIsSpent'
  BY DEF IssueToken, IInv, AuthorisedExecution, ExecutedTokenIsSpent
<1> QED
  BY <1>3, <1>4, <1>5, <1>6, <1>7 DEF IInv

\* What the GET of a confirmation finds was issued in this session and was
\* not executed by anybody: it is still in Redis.
LEMMA GetStep ==
    ASSUME IInv, TypeOK', NEW w \in Workers, ConsumeGet(w)
    PROVE  IInv'
<1>1. CASE ~TokenFound(w)
  <2>1. pc' = [pc EXCEPT ![w] = "idle"] /\ \A v \in Workers \ {w} : turn'[v] = turn[v]
    BY <1>1 DEF ConsumeGet, EndTurn, Leave, Goto, IInv, TypeOK
  <2>2. "idle" \notin Holding
    BY DEF Holding, AfterDelete
  <2> QED
    BY <2>1, <2>2, QuietStep DEF ConsumeGet
<1>2. CASE TokenFound(w)
  <2>1. pc' = [pc EXCEPT ![w] = "delete"] /\ turn' = turn
    BY <1>2 DEF ConsumeGet, Goto
  <2>2. /\ turn[w].token \in live
        /\ turn[w].token \in Tokens
        /\ issued[turn[w].token].session = Session(w)
    BY <1>2 DEF TokenFound, Grant, IInv, TypeOK
  <2>3. issued[turn[w].token] # NoGrant /\ runs[turn[w].token][w] = 0
    BY <2>2 DEF IInv, LiveTokensIssued, RunTokens
  <2>4. HeldTokens'
    <3> SUFFICES ASSUME NEW v \in Workers, pc'[v] \in Holding
                 PROVE  /\ turn[v].token \in Tokens
                        /\ issued[turn[v].token] # NoGrant
                        /\ issued[turn[v].token].session = Session(v)
                        /\ runs[turn[v].token][v] = 0
                        /\ pc'[v] # "delete" => turn[v].token \notin live
                        /\ pc'[v] \in {"run_session", "run_facts"}
                             => issued[turn[v].token].complete
      BY <2>1 DEF ConsumeGet, HeldTokens, Session
    <3>1. CASE v = w
      BY <2>1, <2>2, <2>3, <3>1 DEF IInv, TypeOK
    <3>2. CASE v # w
      BY <2>1, <3>2 DEF IInv, TypeOK, HeldTokens
    <3> QED
      BY <3>1, <3>2
  <2>5. AuthorisedExecution'
    BY DEF ConsumeGet, IInv, AuthorisedExecution, CE!Agrees
  <2> QED
    BY <2>4, <2>5 DEF ConsumeGet, IInv, LiveTokensIssued, RunTokens, ExecutedTokenIsSpent
<1> QED
  BY <1>1, <1>2

\* After the DELETE the token is out of Redis, for its holder and the others.
LEMMA DeleteStep ==
    ASSUME IInv, TypeOK', NEW w \in Workers, ConsumeDelete(w)
    PROVE  IInv'
<1>1. HeldTokens'
  <2> SUFFICES ASSUME NEW v \in Workers, pc'[v] \in Holding
               PROVE  /\ turn[v].token \in Tokens
                      /\ issued[turn[v].token] # NoGrant
                      /\ issued[turn[v].token].session = Session(v)
                      /\ runs[turn[v].token][v] = 0
                      /\ pc'[v] # "delete" => turn[v].token \notin live'
                      /\ pc'[v] \in {"run_session", "run_facts"}
                           => issued[turn[v].token].complete
    BY DEF ConsumeDelete, HeldTokens, Session
  <2>1. CASE v = w
    <3>1. pc[w] \in Holding
      BY DEF ConsumeDelete, Holding
    <3>2. pc'[w] = "check_session"
      BY DEF ConsumeDelete, Goto, IInv, TypeOK
    <3> QED
      BY <2>1, <3>1, <3>2 DEF ConsumeDelete, IInv, HeldTokens
  <2>2. CASE v # w
    BY <2>2 DEF ConsumeDelete, Goto, IInv, TypeOK, HeldTokens
  <2> QED
    BY <2>1, <2>2
<1>2. AuthorisedExecution'
  BY DEF ConsumeDelete, IInv, AuthorisedExecution, CE!Agrees
<1> QED
  BY <1>1, <1>2 DEF ConsumeDelete, IInv, LiveTokensIssued, RunTokens, ExecutedTokenIsSpent

\* The call of the API is made with the token in hand, once, on a target
\* that keeps what the grant names.
LEMMA RunStep ==
    ASSUME IInv, TypeOK', NEW w \in Workers, RunFacts(w)
    PROVE  IInv'
<1> DEFINE t == turn[w].token
           e == [token |-> t, client |-> turn[w].client, target |-> Resolved(w)]
<1>1. pc[w] = "run_facts" /\ pc[w] \in Steps /\ pc[w] \in Holding
  BY DEF RunFacts, Holding, AfterDelete, Steps
<1>2. /\ t \in Tokens
      /\ issued[t] # NoGrant
      /\ issued[t] \in Grants
      /\ issued[t].session = SessionOf[turn[w].client]
      /\ runs[t][w] = 0
      /\ t \notin live
      /\ issued[t].complete
  BY <1>1 DEF IInv, HeldTokens, Session, TypeOK
<1>3. /\ \E step \in {"idle", "lost"} : pc' = [pc EXCEPT ![w] = step]
      /\ turn' = [turn EXCEPT ![w] = NoTurn]
      /\ UNCHANGED <<live, issued>>
  BY DEF RunFacts, EndTurn, Leave, Goto
<1>4. CASE ~Callable(Resolved(w))
  <2>1. "idle" \notin Holding /\ "lost" \notin Holding
    BY DEF Holding, AfterDelete
  <2>2. UNCHANGED <<live, issued, runs, executed>>
    BY <1>4 DEF RunFacts
  <2>3. \A v \in Workers \ {w} : turn'[v] = turn[v]
    BY <1>3 DEF IInv, TypeOK
  <2> QED
    BY <1>3, <2>1, <2>2, <2>3, QuietStep
<1>5. CASE Callable(Resolved(w))
  <2>1. runs' = [runs EXCEPT ![t][w] = @ + 1] /\ executed' = executed \union {e}
    BY <1>5 DEF RunFacts
  <2>2. /\ runs'[t][w] = 1
        /\ \A u \in Tokens, v \in Workers : u # t \/ v # w => runs'[u][v] = runs[u][v]
    BY <1>2, <2>1 DEF IInv, TypeOK
  <2>3. CE!Agrees(issued[t], Resolved(w))
    <3>1. issued[t].entities \in EntitySet
      BY <1>2 DEF Grants
    <3>2. turn[w].snap \in EntitySet /\ facts[User(w)] \in EntitySet
          /\ turn[w].merged \in EntitySet
      BY <1>1, InTurn DEF IInv
    <3> QED
      BY <3>1, <3>2, ResolveKeepsNamed DEF CE!Agrees, CE!Keys, Keys, Resolved, Grant
  <2>4. HeldTokens'
    <3> SUFFICES ASSUME NEW v \in Workers, pc'[v] \in Holding
                 PROVE  /\ v # w
                        /\ pc'[v] = pc[v]
                        /\ turn'[v] = turn[v]
      BY <1>3, <2>2 DEF IInv, HeldTokens, Session
    <3> QED
      BY <1>3 DEF IInv, TypeOK, Holding, AfterDelete
  <2>5. RunTokens'
    BY <1>2, <1>3, <2>2 DEF IInv, RunTokens
  <2>6. AuthorisedExecution'
    BY <1>2, <1>3, <2>1, <2>3 DEF IInv, AuthorisedExecution, CE!Agrees
  <2>7. ExecutedTokenIsSpent'
    BY <1>2, <1>3, <2>1 DEF IInv, ExecutedTokenIsSpent
  <2>8. LiveTokensIssued'
    BY <1>3 DEF IInv, LiveTokensIssued
  <2> HIDE DEF e
  <2> QED
    BY <2>4, <2>5, <2>6, <2>7, <2>8 DEF IInv
<1> QED
  BY <1>4, <1>5

\* Nothing is issued, stored or executed at the start.
LEMMA IInvInit == Init => IInv
<1> SUFFICES ASSUME Init PROVE IInv
  OBVIOUS
<1>1. TypeOK
  BY NoEntitiesType DEF Init, TypeOK, Steps
<1>2. HeldTokens
  BY DEF Init, HeldTokens, Holding, AfterDelete
<1> QED
  BY <1>1, <1>2 DEF Init, IInv, LiveTokensIssued, RunTokens, AuthorisedExecution,
                    ExecutedTokenIsSpent

\* Every step, of a worker, of Redis or of the environment, keeps IInv.
LEMMA IInvStep == IInv /\ [Next]_vars => IInv'
<1> SUFFICES ASSUME IInv, [Next]_vars PROVE IInv'
  OBVIOUS
<1> USE TypeStep
<1>0. TypeOK'
  BY DEF IInv
<1>1. \A step \in {"idle", "lost", "merge_read", "merge_write", "persist", "dispatch"} :
        step \notin Holding
  BY DEF Holding, AfterDelete
<1>2. ASSUME NEW w \in Workers, EndTurn(w), UNCHANGED <<live, issued, runs, executed>>
      PROVE  IInv'
  <2>1. pc' = [pc EXCEPT ![w] = "idle"] /\ \A v \in Workers \ {w} : turn'[v] = turn[v]
    BY <1>2 DEF EndTurn, Leave, Goto, IInv, TypeOK
  <2> QED
    BY <1>0, <1>1, <1>2, <2>1, QuietStep
<1>3. ASSUME NEW w \in Workers,
             NEW step \in {"idle", "lost", "merge_read", "merge_write", "persist", "dispatch"},
             Goto(w, step), UNCHANGED <<live, issued, runs, executed>>,
             \A v \in Workers \ {w} : turn'[v] = turn[v]
      PROVE  IInv'
  BY <1>0, <1>1, <1>3, QuietStep DEF Goto
<1>4. ASSUME NEW w \in Workers, NEW c \in Clients, NEW msg \in MessagesOf[c],
             NEW t \in Tokens \union {NoToken}, Receive(w, c, msg, t)
      PROVE  IInv'
  BY <1>3, <1>4 DEF Receive, IInv, TypeOK
<1>5. ASSUME NEW w \in Workers, MergeRead(w) PROVE IInv'
  BY <1>3, <1>5 DEF MergeRead, IInv, TypeOK
<1>6. ASSUME NEW w \in Workers, MergeWrite(w) PROVE IInv'
  BY <1>3, <1>6 DEF MergeWrite, GotoPersist, IInv, TypeOK
<1>7. ASSUME NEW w \in Workers, NEW k \in Keys, PersistFact(w, k) PROVE IInv'
  BY <1>3, <1>7 DEF PersistFact, GotoPersist, IInv, TypeOK
<1>8. ASSUME NEW w \in Workers, RunPlain(w) PROVE IInv'
  BY <1>2, <1>8 DEF RunPlain
<1>9. ASSUME NEW w \in Workers, CheckSession(w) PROVE IInv'
  <2>1. pc[w] \in AfterDelete /\ "check_facts" \in Holding
    BY <1>9 DEF CheckSession, Holding, AfterDelete
  <2>2. pc[w] \in Steps /\ turn[w] \in Turns
    BY <1>9, InTurn DEF CheckSession, IInv, Steps
  <2>3. /\ turn'[w].token = turn[w].token
        /\ turn'[w].client = turn[w].client
        /\ \A v \in Workers \ {w} : turn'[v] = turn[v]
    BY <1>9, <2>2 DEF CheckSession, IInv, TypeOK, Turns
  <2> QED
    BY <1>0, <1>9, <2>1, <2>3, HoldStep DEF CheckSession, Goto
<1>10. ASSUME NEW w \in Workers, CheckFacts(w) PROVE IInv'
  <2>1. CASE MissingEntities(w)
    BY <1>2, <1>10, <2>1 DEF CheckFacts
  <2>2. CASE ~MissingEntities(w)
    <3>1. pc[w] \in AfterDelete /\ "run_session" \in Holding
      BY <1>10 DEF CheckFacts, Holding, AfterDelete
    <3>2. issued[turn[w].token].complete
      BY <2>2 DEF MissingEntities, Grant
    <3> QED
      BY <1>0, <1>10, <2>2, <3>1, <3>2, HoldStep DEF CheckFacts, Goto
  <2> QED
    BY <2>1, <2>2
<1>11. ASSUME NEW w \in Workers, RunSession(w) PROVE IInv'
  <2>1. pc[w] \in AfterDelete /\ "run_facts" \in Holding
    BY <1>11 DEF RunSession, Holding, AfterDelete
  <2>2. pc[w] \in Steps /\ turn[w] \in Turns
    BY <1>11, InTurn DEF RunSession, IInv, Steps
  <2>3. /\ turn'[w].token = turn[w].token
        /\ turn'[w].client = turn[w].client
        /\ \A v \in Workers \ {w} : turn'[v] = turn[v]
    BY <1>11, <2>2 DEF RunSession, IInv, TypeOK, Turns
  <2>4. issued[turn[w].token].complete
    BY <1>11, <2>1 DEF RunSession, IInv, HeldTokens, Holding
  <2> QED
    BY <1>0, <1>11, <2>1, <2>3, <2>4, HoldStep DEF RunSession, Goto
<1>12. ASSUME NEW w \in Workers, LoseTurn(w) PROVE IInv'
  BY <1>3, <1>12 DEF LoseTurn, Leave, IInv, TypeOK
<1>13. ASSUME NEW t \in Tokens, ExpireToken(t) PROVE IInv'
  BY <1>0, <1>13, ExpiryStep DEF ExpireToken
<1>14. ASSUME NEW s \in Sessions, ExpireSession(s) PROVE IInv'
  BY <1>0, <1>14, ExpiryStep DEF ExpireSession
<1>15. ASSUME NEW w \in Workers, Restart(w) PROVE IInv'
  BY <1>3, <1>15 DEF Restart
<1>16. CASE UNCHANGED vars
  BY <1>0, <1>16, ExpiryStep DEF vars
<1> QED
  BY <1>0, <1>4, <1>5, <1>6, <1>7, <1>8, <1>9, <1>10, <1>11, <1>12, <1>13, <1>14,
     <1>15, <1>16, IssueStep, GetStep, DeleteStep, RunStep DEF Next, Step

-----------------------------------------------------------------------------
(* The theorems.                                                           *)

\* IInv holds in every state the workers and the memories reach.
THEOREM Inductive == Spec => []IInv
BY IInvInit, IInvStep, PTL DEF Spec

\* The memories, the turns and the histories always have their types.
THEOREM TypeCorrect == Spec => []TypeOK
<1>1. IInv => TypeOK
  BY DEF IInv
<1> QED
  BY Inductive, <1>1, PTL

\* Every destructive call of the API was confirmed with a token of its own
\* session and keeps the application and the region the token names.
THEOREM Authorised == Spec => []AuthorisedExecution
<1>1. IInv => AuthorisedExecution
  BY DEF IInv
<1> QED
  BY Inductive, <1>1, PTL

\* No worker executes a token twice, however its turns, its crashes and the
\* other workers' commands interleave.
THEOREM OncePerWorker == Spec => []AtMostOncePerWorker
<1>1. IInv => AtMostOncePerWorker
  BY DEF IInv, RunTokens, AtMostOncePerWorker, TypeOK
<1> QED
  BY Inductive, <1>1, PTL

\* A token under which the API was called is never found in Redis again.
THEOREM SpentToken == Spec => []ExecutedTokenIsSpent
<1>1. IInv => ExecutedTokenIsSpent
  BY DEF IInv
<1> QED
  BY Inductive, <1>1, PTL

-----------------------------------------------------------------------------
(* The turns of all workers implement ConfirmedExecution.                  *)

USE DEF CE!Keys, CE!EntitySet, CE!Targets, CE!Grants, CE!vars, CE!Agrees

\* A step that leaves the history of tokens and calls alone is a stutter.
LEMMA Stutters ==
    ASSUME UNCHANGED <<issued, runs, executed>>
    PROVE  UNCHANGED CE!vars
BY DEF Calls

\* The SETEX of a new token is the abstract Issue.
LEMMA IssueRefines ==
    ASSUME IInv, NEW w \in Workers, NEW t \in Tokens, IssueToken(w, t)
    PROVE  CE!Issue(t)
<1> DEFINE g == [session |-> Session(w),
                 entities |-> DestructiveEntities(turn[w].merged, Current(turn[w].msg)),
                 complete |-> turn[w].msg.complete]
<1>1. pc[w] \in Steps
  BY DEF IssueToken, Steps
<1>2. g \in Grants
  BY <1>1, InTurn, MessageFields, DestructiveEntitiesType DEF IInv, Grants
<1>3. issued' = [issued EXCEPT ![t] = g] /\ issued[t] = NoGrant
  BY DEF IssueToken
<1>4. runs' = runs /\ Calls' = Calls
  BY DEF IssueToken, Calls
<1> HIDE DEF g
<1> QED
  BY <1>2, <1>3, <1>4 DEF CE!Issue, Grants, Keys, EntitySet

\* The call of the API is the abstract Execute of the token in hand.
LEMMA RunRefines ==
    ASSUME IInv, NEW w \in Workers, RunFacts(w), Callable(Resolved(w))
    PROVE  turn[w].token \in Tokens /\ CE!Execute(w, turn[w].token)
<1> DEFINE t == turn[w].token
           target == Resolved(w)
<1>1. pc[w] = "run_facts" /\ pc[w] \in Steps /\ pc[w] \in Holding
  BY DEF RunFacts, Holding, AfterDelete, Steps
<1>2. /\ t \in Tokens
      /\ issued[t] # NoGrant
      /\ issued[t] \in Grants
      /\ issued[t].session = SessionOf[turn[w].client]
      /\ runs[t][w] = 0
      /\ issued[t].complete
  BY <1>1 DEF IInv, HeldTokens, Session, TypeOK
<1>3. issued[t].entities \in EntitySet
  BY <1>2 DEF Grants
<1>4. turn[w].snap \in EntitySet /\ facts[User(w)] \in EntitySet
      /\ turn[w].merged \in EntitySet
  BY <1>1, InTurn DEF IInv
<1>5. target \in Targets
  BY <1>3, <1>4, ResolveType, NamedIsTarget DEF Resolved, Grant, Callable
<1>6. CE!Agrees(issued[t], target)
  BY <1>3, <1>4, ResolveKeepsNamed DEF Keys, Resolved, Grant
<1>7. runs' = [runs EXCEPT ![t][w] = 1] /\ issued' = issued
  BY <1>2 DEF RunFacts
<1>8. Calls' = Calls \union
        {[token |-> t, session |-> issued[t].session, target |-> target]}
  <2> DEFINE Call(e) == [token |-> e.token, session |-> SessionOf[e.client],
                         target |-> e.target]
             new == [token |-> t, client |-> turn[w].client, target |-> target]
  <2>1. executed' = executed \union {new}
    BY DEF RunFacts
  <2>2. Calls = {Call(e) : e \in executed} /\ Calls' = {Call(e) : e \in executed'}
    BY DEF Calls
  <2>3. Call(new) = [token |-> t, session |-> issued[t].session, target |-> target]
    BY <1>2
  <2> HIDE DEF Call, new
  <2>4. {Call(e) : e \in executed'} = {Call(e) : e \in executed} \union {Call(new)}
    BY <2>1
  <2> QED
    BY <2>2, <2>3, <2>4
<1> HIDE DEF t, target
<1>9. CE!Execute(w, t)
  BY <1>2, <1>5, <1>6, <1>7, <1>8 DEF CE!Execute, Targets, Keys
<1> QED
  BY <1>2, <1>9 DEF t

\* The initial states of the turns are initial states of the promise.
LEMMA InitRefines == Init => CE!Init
BY DEF Init, CE!Init, Calls

\* Every step is a step of the promise or a stutter.
LEMMA StepRefines == IInv /\ [Next]_vars => [CE!Next]_(CE!vars)
<1> SUFFICES ASSUME IInv, [Next]_vars PROVE CE!Next \/ UNCHANGED CE!vars
  OBVIOUS
<1>1. ASSUME NEW w \in Workers, NEW t \in Tokens, IssueToken(w, t)
      PROVE  CE!Next
  BY <1>1, IssueRefines DEF CE!Next
<1>2. ASSUME NEW w \in Workers, RunFacts(w)
      PROVE  CE!Next \/ UNCHANGED CE!vars
  <2>1. CASE Callable(Resolved(w))
    BY <1>2, <2>1, RunRefines DEF CE!Next
  <2>2. CASE ~Callable(Resolved(w))
    BY <1>2, <2>2, Stutters DEF RunFacts
  <2> QED
    BY <2>1, <2>2
<1>3. CASE UNCHANGED <<issued, runs, executed>>
  BY <1>3, Stutters
<1>4. \/ UNCHANGED <<issued, runs, executed>>
      \/ \E w \in Workers : RunFacts(w) \/ \E t \in Tokens : IssueToken(w, t)
  BY DEF Next, Step, Receive, MergeRead, MergeWrite, PersistFact, RunPlain, ConsumeGet,
         ConsumeDelete, CheckSession, CheckFacts, RunSession, LoseTurn, Restart,
         ExpireToken, ExpireSession, vars
<1> QED
  BY <1>1, <1>2, <1>3, <1>4

\* Whatever the interleaving of the workers' commands, their crashes and the
\* expiries, what reaches the API is what ConfirmedExecution allows.
THEOREM Implements == Spec => ImplementsConfirmedExecution
BY Inductive, InitRefines, StepRefines, PTL DEF Spec, CE!Spec, ImplementsConfirmedExecution

-----------------------------------------------------------------------------
(* A consumed token executes.                                              *)

\* With a grant that names its target, the target that resolves is the grant's.
LEMMA ResolvesToGrant ==
    ASSUME IInv, NEW w \in Workers, pc[w] \in AfterDelete, NamesTarget(Grant(w).entities)
    PROVE  NamesTarget(Resolved(w)) /\ Resolved(w) = Grant(w).entities
<1>1. pc[w] \in Steps /\ pc[w] \in Holding
  BY DEF AfterDelete, Holding, Steps
<1>2. Grant(w).entities \in EntitySet
  BY <1>1 DEF IInv, HeldTokens, Grant, TypeOK, Grants
<1>3. turn[w].snap \in EntitySet /\ facts[User(w)] \in EntitySet
      /\ turn[w].merged \in EntitySet
  BY <1>1, InTurn DEF IInv
<1>4. Resolved(w) \in EntitySet
  BY <1>2, <1>3, ResolveType DEF Resolved
<1>5. \A k \in Keys : Resolved(w)[k] = Grant(w).entities[k]
  BY <1>2, <1>3, ResolveKeepsNamed DEF Resolved, NamesTarget
<1> QED
  BY <1>2, <1>4, <1>5 DEF EntitySet, NamesTarget

\* A turn that holds a complete grant for a known region does not end without
\* the call, unless it is lost: the step that takes its worker back to idle is
\* RunFacts, on the grant's own target.
LEMMA StepKeepsConfirmations == IInv /\ [Next]_vars => [ConfirmationsKept]_vars
<1> SUFFICES ASSUME IInv, [Next]_vars, NEW w \in Workers,
                    pc[w] \in AfterDelete, Grant(w).complete,
                    Callable(Grant(w).entities), pc'[w] = "idle"
             PROVE  CallsAsGranted(w)
  BY DEF ConfirmationsKept
<1>1. pc[w] \in Steps /\ pc[w] # "delete" /\ pc[w] # "dispatch" /\ pc[w] # "persist"
      /\ pc[w] # "merge_read" /\ pc[w] # "merge_write"
      /\ pc[w] # "idle" /\ pc[w] # "lost" /\ pc[w] \in Holding
  BY DEF AfterDelete, Holding, Steps
<1>2. pc \in [Workers -> Steps \union {"idle", "lost"}]
  BY DEF IInv, TypeOK
<1>3. ~MissingEntities(w) /\ Resolved(w) = Grant(w).entities
  BY ResolvesToGrant DEF MissingEntities, Callable
<1>4. pc' # pc
  BY <1>1
<1>5. ASSUME NEW v \in Workers, v # w
      PROVE  /\ ~Step(v) /\ ~LoseTurn(v) /\ ~Restart(v)
             /\ ~\E c \in Clients : \E msg \in MessagesOf[c], t \in Tokens \union {NoToken} :
                   Receive(v, c, msg, t)
  BY <1>1, <1>2, <1>5 DEF Step, LoseTurn, Restart, Receive, MergeRead, MergeWrite, PersistFact,
     GotoPersist, RunPlain, IssueToken, ConsumeGet, ConsumeDelete, CheckSession, CheckFacts,
     RunSession, RunFacts, EndTurn, Leave, Goto
<1>6. Step(w)
  <2>1. ~LoseTurn(w) /\ ~Restart(w)
    BY <1>1, <1>2 DEF LoseTurn, Restart, Leave, Goto
  <2> QED
    BY <1>1, <1>4, <1>5, <2>1 DEF Next, Receive, ExpireToken, ExpireSession, vars
<1>7. RunFacts(w)
  BY <1>1, <1>2, <1>3, <1>6 DEF Step, MergeRead, MergeWrite, PersistFact, RunPlain,
     IssueToken, ConsumeGet, ConsumeDelete, CheckSession, CheckFacts, RunSession, Goto
<1>8. CallsAsGranted(w)
  <2>1. turn[w].token \in Tokens
    BY <1>1 DEF IInv, HeldTokens
  <2>2. /\ runs' = [runs EXCEPT ![turn[w].token][w] = @ + 1]
        /\ [token |-> turn[w].token, client |-> turn[w].client, target |-> Resolved(w)]
             \in executed'
    BY <1>3, <1>7 DEF RunFacts
  <2>3. runs'[turn[w].token][w] = runs[turn[w].token][w] + 1
    BY <2>1, <2>2 DEF IInv, TypeOK
  <2> QED
    BY <1>3, <2>2, <2>3 DEF CallsAsGranted
<1> QED
  BY <1>8

\* A consumed token of a complete command that names its application and a
\* known region ends in the call of the API on them, whatever expires, changes
\* or is forgotten meanwhile, unless its turn is lost: its worker killed, or
\* Redis, PostgreSQL or the request raising.
THEOREM ConsumedExecutes == Spec => ConsumedTokenExecutes
BY Inductive, StepKeepsConfirmations, PTL DEF Spec, ConsumedTokenExecutes

-----------------------------------------------------------------------------
(* Nobody else's words choose the target: proof of TargetWasMentioned, by  *)
(* following every value from the message that carried it through the two  *)
(* memories and the locals of the turns.                                   *)

-----------------------------------------------------------------------------
(* What the operators on entities keep of "was said".                      *)

\* More words and more speakers take nothing away.
LEMMA SaidMore ==
    ASSUME NEW h, NEW more, NEW S, NEW T, S \subseteq T, NEW e, Said(h, S, e),
           \A c \in S : h[c] \subseteq more[c]
    PROVE  Said(more, T, e)
BY DEF Said

\* Nothing has to be said for the empty dictionary.
LEMMA NothingSaid ==
    ASSUME NEW h, NEW S
    PROVE  Said(h, S, NoEntities)
BY DEF Said, NoEntities

\* dict.update of what was said with what was said.
LEMMA SaidUpdate ==
    ASSUME NEW h, NEW S, NEW a, NEW b, Said(h, S, a), Said(h, S, b)
    PROVE  Said(h, S, Update(a, b))
<1> SUFFICES ASSUME NEW k \in Keys, Update(a, b)[k] # NoValue
             PROVE  \E c \in S : <<k, Update(a, b)[k]>> \in h[c]
  BY DEF Said
<1>1. Update(a, b)[k] = a[k] \/ Update(a, b)[k] = b[k]
  BY DEF Update
<1> QED
  BY <1>1 DEF Said

\* What a destructive command carries.
LEMMA SaidDestructive ==
    ASSUME NEW h, NEW S, NEW a, NEW b, Said(h, S, a), Said(h, S, b)
    PROVE  Said(h, S, DestructiveEntities(a, b))
BY SaidUpdate, NothingSaid DEF DestructiveEntities

\* What _resolve_app_region finds.
LEMMA SaidResolve ==
    ASSUME NEW h, NEW S, NEW a \in EntitySet, NEW b \in EntitySet,
           NEW c \in EntitySet, NEW d \in EntitySet,
           Said(h, S, a), Said(h, S, b), Said(h, S, c), Said(h, S, d)
    PROVE  Said(h, S, Resolve(a, b, c, d))
<1> DEFINE found == Update(Update(a, b), c)
<1>1. found \in EntitySet /\ Said(h, S, found)
  BY UpdateType, SaidUpdate
<1> HIDE DEF found
<1>2. ASSUME NEW k \in Keys
      PROVE  Resolve(a, b, c, d)[k] \in {found[k], d[k]}
  BY <1>1, <1>2 DEF Resolve, EntitySet, found
<1> SUFFICES ASSUME NEW k \in Keys, Resolve(a, b, c, d)[k] # NoValue
             PROVE  \E x \in S : <<k, Resolve(a, b, c, d)[k]>> \in h[x]
  BY DEF Said
<1> QED
  BY <1>1, <1>2 DEF Said

\* What was said in a session or by a user was said around each client of it.
LEMMA AroundClient ==
    ASSUME NEW d \in Clients
    PROVE  /\ InSession(SessionOf[d]) \subseteq Around(d)
           /\ OfUser(UserOf[d]) \subseteq Around(d)
           /\ d \in InSession(SessionOf[d])
           /\ d \in OfUser(UserOf[d])
BY DEF InSession, OfUser, Around, Related

-----------------------------------------------------------------------------
(* The steps.                                                              *)

\* Who writes what.
LEMMA Writers ==
    ASSUME [Next]_vars
    PROVE  /\ \/ UNCHANGED mentioned
              \/ \E w \in Workers, c \in Clients : \E msg \in MessagesOf[c], t \in Tokens \union {NoToken} :
                    Receive(w, c, msg, t)
           /\ \/ UNCHANGED session
              \/ \E w \in Workers : MergeWrite(w)
              \/ \E s \in Sessions : ExpireSession(s)
           /\ \/ UNCHANGED facts
              \/ \E w \in Workers : RunPlain(w) \/ \E k \in Keys : PersistFact(w, k)
           /\ \/ UNCHANGED issued
              \/ \E w \in Workers, t \in Tokens : IssueToken(w, t)
           /\ \/ UNCHANGED executed
              \/ \E w \in Workers : RunFacts(w)
<1>1. \/ UNCHANGED mentioned
      \/ \E w \in Workers, c \in Clients : \E msg \in MessagesOf[c], t \in Tokens \union {NoToken} :
            Receive(w, c, msg, t)
  BY DEF Next, Step, vars, EndTurn, MergeRead, MergeWrite, PersistFact, RunPlain,
     IssueToken, ConsumeGet, ConsumeDelete, CheckSession, CheckFacts, RunSession,
     RunFacts, LoseTurn, Restart, ExpireToken, ExpireSession
<1>2. \/ UNCHANGED session
      \/ \E w \in Workers : MergeWrite(w)
      \/ \E s \in Sessions : ExpireSession(s)
  BY DEF Next, Step, vars, EndTurn, Receive, MergeRead, PersistFact, RunPlain,
     IssueToken, ConsumeGet, ConsumeDelete, CheckSession, CheckFacts, RunSession,
     RunFacts, LoseTurn, Restart, ExpireToken
<1>3. \/ UNCHANGED facts
      \/ \E w \in Workers : RunPlain(w) \/ \E k \in Keys : PersistFact(w, k)
  BY DEF Next, Step, vars, EndTurn, Receive, MergeRead, MergeWrite, IssueToken, ConsumeGet, ConsumeDelete, CheckSession, CheckFacts, RunSession,
     RunFacts, LoseTurn, Restart, ExpireToken, ExpireSession
<1>4. \/ UNCHANGED issued
      \/ \E w \in Workers, t \in Tokens : IssueToken(w, t)
  BY DEF Next, Step, vars, EndTurn, Receive, MergeRead, MergeWrite, PersistFact,
     RunPlain, ConsumeGet, ConsumeDelete, CheckSession, CheckFacts, RunSession,
     RunFacts, LoseTurn, Restart, ExpireToken, ExpireSession
<1>5. \/ UNCHANGED executed
      \/ \E w \in Workers : RunFacts(w)
  BY DEF Next, Step, vars, EndTurn, Receive, MergeRead, MergeWrite, PersistFact,
     RunPlain, IssueToken, ConsumeGet, ConsumeDelete, CheckSession, CheckFacts,
     RunSession, LoseTurn, Restart, ExpireToken, ExpireSession
<1> QED
  BY <1>1, <1>2, <1>3, <1>4, <1>5

\* What was said is not taken back.
LEMMA Heard ==
    ASSUME TypeOK, [Next]_vars
    PROVE  \A c \in Clients : mentioned[c] \subseteq mentioned'[c]
<1>1. ASSUME NEW w \in Workers, NEW d \in Clients, NEW msg \in MessagesOf[d],
             NEW t \in Tokens \union {NoToken}, Receive(w, d, msg, t)
      PROVE  \A c \in Clients : mentioned[c] \subseteq mentioned'[c]
  BY <1>1 DEF Receive, TypeOK
<1>2. CASE UNCHANGED mentioned
  BY <1>2
<1> QED
  BY <1>1, <1>2, Writers

\* What is said stays said.
LEMMA StaysSaid ==
    ASSUME TypeOK, [Next]_vars, NEW S, S \subseteq Clients, NEW e, Said(mentioned, S, e)
    PROVE  Said(mentioned', S, e)
BY Heard, SaidMore

\* The places a turn reads: its message, its locals and the two memories.
LEMMA ReadsSaid ==
    ASSUME TypeOK, SInv, NEW w \in Workers, pc[w] \in Steps
    PROVE  LET S == InSession(Session(w)) IN
           /\ Said(mentioned, S, turn[w].msg.nlu)
           /\ Said(mentioned, S, turn[w].msg.fallback)
           /\ Said(mentioned, S, turn[w].merged)
           /\ Said(mentioned, S, turn[w].snap)
           /\ Said(mentioned, S, session[Session(w)])
           /\ Said(mentioned, OfUser(User(w)), turn[w].msg.nlu)
           /\ Said(mentioned, OfUser(User(w)), facts[User(w)])
<1>1. turn[w].client \in Clients /\ Session(w) \in Sessions /\ User(w) \in Users
  BY InTurn
<1>2. SaidInTurn(mentioned, turn[w])
  BY DEF SInv, TurnsSaid
<1>3. {turn[w].client} \subseteq InSession(Session(w)) /\ {turn[w].client} \subseteq OfUser(User(w))
  BY <1>1, AroundClient DEF Session, User
<1>4. /\ Said(mentioned, InSession(Session(w)), turn[w].msg.nlu)
      /\ Said(mentioned, InSession(Session(w)), turn[w].msg.fallback)
      /\ Said(mentioned, OfUser(User(w)), turn[w].msg.nlu)
  BY <1>2, <1>3, SaidMore DEF SaidInTurn
<1> QED
  BY <1>1, <1>2, <1>4 DEF SaidInTurn, SInv, SessionsSaid, FactsSaid, Session

\* The Redis sessions: written by MergeWrite, emptied by their expiry.
LEMMA SessionsStep ==
    ASSUME TypeOK, SInv, [Next]_vars
    PROVE  SessionsSaid'
<1> SUFFICES ASSUME NEW s \in Sessions
             PROVE  Said(mentioned', InSession(s), session'[s])
  BY DEF SessionsSaid
<1>0. InSession(s) \subseteq Clients /\ Said(mentioned, InSession(s), session[s])
  BY DEF SInv, SessionsSaid, InSession
<1>1. ASSUME NEW w \in Workers, MergeWrite(w)
      PROVE  Said(mentioned, InSession(s), session'[s])
  <2>1. pc[w] \in Steps
    BY <1>1 DEF MergeWrite, Steps
  <2>2. session'[s] = session[s] \/ (s = Session(w) /\ session'[s] = turn[w].merged)
    BY <1>1, <2>1, InTurn DEF MergeWrite, TypeOK
  <2> QED
    BY <1>0, <2>1, <2>2, ReadsSaid
<1>2. ASSUME NEW x \in Sessions, ExpireSession(x)
      PROVE  Said(mentioned, InSession(s), session'[s])
  BY <1>0, <1>2, NothingSaid DEF ExpireSession, TypeOK
<1>3. CASE UNCHANGED session
  BY <1>0, <1>3, StaysSaid
<1> QED
  BY <1>0, <1>1, <1>2, <1>3, StaysSaid, Writers

\* The facts: written by PersistFact, forgotten by RunPlain.
LEMMA FactsStep ==
    ASSUME TypeOK, SInv, [Next]_vars
    PROVE  FactsSaid'
<1> SUFFICES ASSUME NEW u \in Users
             PROVE  Said(mentioned', OfUser(u), facts'[u])
  BY DEF FactsSaid
<1>0. OfUser(u) \subseteq Clients /\ Said(mentioned, OfUser(u), facts[u])
  BY DEF SInv, FactsSaid, OfUser
<1>1. ASSUME NEW w \in Workers, NEW k \in Keys, PersistFact(w, k)
      PROVE  Said(mentioned, OfUser(u), facts'[u])
  <2>1. pc[w] \in Steps
    BY <1>1 DEF PersistFact, Steps
  <2>2. Said(mentioned, OfUser(User(w)), turn[w].msg.nlu)
    BY <2>1, ReadsSaid
  <2>3. User(w) \in Users /\ facts[u] \in EntitySet
    BY <2>1, InTurn DEF TypeOK
  <2>4. CASE facts'[u] = facts[u]
    BY <1>0, <2>4
  <2>5. CASE u = User(w) /\ facts' = [facts EXCEPT ![User(w)][k] = turn[w].msg.nlu[k]]
    <3>1. facts'[u] = [facts[u] EXCEPT ![k] = turn[w].msg.nlu[k]]
      BY <2>3, <2>5 DEF TypeOK
    <3>2. \A x \in Keys : facts'[u][x] = facts[u][x] \/ facts'[u][x] = turn[w].msg.nlu[x]
      BY <2>3, <3>1 DEF EntitySet
    <3> QED
      BY <1>0, <2>2, <2>5, <3>2 DEF Said
  <2> QED
    BY <1>1, <2>3, <2>4, <2>5 DEF PersistFact, TypeOK
<1>2. ASSUME NEW w \in Workers, RunPlain(w)
      PROVE  Said(mentioned, OfUser(u), facts'[u])
  <2>1. User(w) \in Users /\ facts[u] \in EntitySet
    BY <1>2, InTurn DEF RunPlain, Steps, TypeOK
  <2>2. \A x \in Keys : facts'[u][x] \in {facts[u][x], NoValue}
    BY <1>2, <2>1 DEF RunPlain, TypeOK, EntitySet
  <2> QED
    BY <1>0, <2>2 DEF Said
<1>3. CASE UNCHANGED facts
  BY <1>0, <1>3, StaysSaid
<1> QED
  BY <1>0, <1>1, <1>2, <1>3, StaysSaid, Writers

\* The JSON of the tokens: written by IssueToken alone.
LEMMA GrantsStep ==
    ASSUME TypeOK, SInv, [Next]_vars
    PROVE  GrantsSaid'
<1> SUFFICES ASSUME NEW t \in Tokens, issued'[t] # NoGrant
             PROVE  Said(mentioned', InSession(issued'[t].session), issued'[t].entities)
  BY DEF GrantsSaid
<1>1. ASSUME issued'[t] = issued[t]
      PROVE  Said(mentioned', InSession(issued'[t].session), issued'[t].entities)
  BY <1>1, StaysSaid DEF SInv, GrantsSaid, InSession
<1>2. ASSUME NEW w \in Workers, NEW x \in Tokens, IssueToken(w, x), issued'[t] # issued[t]
      PROVE  Said(mentioned', InSession(issued'[t].session), issued'[t].entities)
  <2> DEFINE e == DestructiveEntities(turn[w].merged, Current(turn[w].msg))
  <2>1. pc[w] \in Steps
    BY <1>2 DEF IssueToken, Steps
  <2>2. issued'[t] = [session |-> Session(w), entities |-> e,
                      complete |-> turn[w].msg.complete]
    BY <1>2 DEF IssueToken, TypeOK
  <2>3. Said(mentioned, InSession(Session(w)), Current(turn[w].msg))
    BY <2>1, ReadsSaid DEF Current
  <2>4. Said(mentioned, InSession(Session(w)), e)
    BY <2>1, <2>3, ReadsSaid, SaidDestructive
  <2> HIDE DEF e
  <2>5. InSession(Session(w)) \subseteq Clients
    BY DEF InSession
  <2> QED
    BY <2>2, <2>4, <2>5, StaysSaid
<1> QED
  BY <1>1, <1>2, Writers
\* The calls of the API: made by RunFacts alone, on what it resolves.
LEMMA CallsStep ==
    ASSUME IInv, SInv, [Next]_vars
    PROVE  TargetWasMentioned'
<1> SUFFICES ASSUME NEW e \in executed', NEW k \in Keys
             PROVE  \E c \in Clients : Related(c, e.client) /\ <<k, e.target[k]>> \in mentioned'[c]
  BY DEF TargetWasMentioned, Related
<1>0. TypeOK /\ \A c \in Clients : mentioned[c] \subseteq mentioned'[c]
  BY Heard DEF IInv
<1>1. CASE e \in executed
  BY <1>0, <1>1 DEF SInv, TargetWasMentioned
<1>2. CASE e \notin executed
  <2>1. PICK w \in Workers : RunFacts(w)
    BY <1>2, Writers
  <2> DEFINE S == Around(turn[w].client)
  <2>2. pc[w] \in Steps /\ pc[w] \in Holding
    BY <2>1 DEF RunFacts, Steps, Holding, AfterDelete
  <2>3. /\ NamesTarget(Resolved(w))
        /\ e = [token |-> turn[w].token, client |-> turn[w].client, target |-> Resolved(w)]
    BY <1>2, <2>1 DEF RunFacts, Callable
  <2>4. /\ turn[w].token \in Tokens
        /\ Grant(w) # NoGrant
        /\ Grant(w).session = Session(w)
        /\ Grant(w).entities \in EntitySet
    BY <2>2 DEF IInv, HeldTokens, TypeOK, Grant, Grants
  <2>5. Said(mentioned, InSession(Session(w)), Grant(w).entities)
    BY <2>4 DEF SInv, GrantsSaid, Grant
  <2>6. /\ turn[w].client \in Clients
        /\ turn[w].merged \in EntitySet
        /\ turn[w].snap \in EntitySet
        /\ facts[User(w)] \in EntitySet
    BY <1>0, <2>2, InTurn
  <2>7. InSession(Session(w)) \subseteq S /\ OfUser(User(w)) \subseteq S
    BY <2>6, AroundClient DEF Session, User
  <2>8. /\ Said(mentioned, S, turn[w].snap)
        /\ Said(mentioned, S, turn[w].merged)
        /\ Said(mentioned, S, facts[User(w)])
        /\ Said(mentioned, S, Grant(w).entities)
    <3> HIDE DEF S
    <3> QED
      BY <1>0, <2>2, <2>5, <2>7, ReadsSaid, SaidMore
  <2>9. Said(mentioned, S, Resolved(w))
    <3> HIDE DEF S
    <3> QED
      BY <2>4, <2>6, <2>8, SaidResolve DEF Resolved
  <2>10. \E c \in S : <<k, Resolved(w)[k]>> \in mentioned[c]
    BY <2>3, <2>9 DEF Said, NamesTarget
  <2> QED
    BY <1>0, <2>3, <2>10 DEF Around
<1> QED
  BY <1>1, <1>2

\* A step of one worker is no step of another.
LEMMA OtherWorker ==
    ASSUME TypeOK, NEW w \in Workers, NEW v \in Workers, w # v,
           \/ \E c \in Clients : \E msg \in MessagesOf[c], t \in Tokens \union {NoToken} :
                 Receive(w, c, msg, t)
           \/ Step(w) \/ LoseTurn(w) \/ Restart(w)
    PROVE  pc'[v] = pc[v] /\ turn'[v] = turn[v]
<1> USE DEF TypeOK, EndTurn, Leave, Goto, GotoPersist
<1>1. CASE \/ \E c \in Clients : \E msg \in MessagesOf[c], t \in Tokens \union {NoToken} :
                Receive(w, c, msg, t)
           \/ LoseTurn(w) \/ Restart(w)
  BY <1>1 DEF Receive, LoseTurn, Restart
<1>2. CASE MergeRead(w) \/ MergeWrite(w) \/ CheckSession(w) \/ RunSession(w)
  BY <1>2 DEF MergeRead, MergeWrite, CheckSession, RunSession
<1>3. CASE (\E k \in Keys : PersistFact(w, k)) \/ RunPlain(w)
           \/ \E t \in Tokens : IssueToken(w, t)
  BY <1>3 DEF PersistFact, RunPlain, IssueToken
<1>4. CASE ConsumeGet(w) \/ ConsumeDelete(w) \/ CheckFacts(w) \/ RunFacts(w)
  BY <1>4 DEF ConsumeGet, ConsumeDelete, CheckFacts, RunFacts
<1> QED
  BY <1>1, <1>2, <1>3, <1>4 DEF Step

\* The locals of a turn: read from the message and the session.
LEMMA TurnsStep ==
    ASSUME IInv, SInv, [Next]_vars
    PROVE  TurnsSaid'
<1> SUFFICES ASSUME NEW v \in Workers, pc'[v] \in Steps
             PROVE  SaidInTurn(mentioned', turn'[v])
  BY DEF TurnsSaid
<1>0. TypeOK
  BY DEF IInv
<1>1. ASSUME NEW w \in Workers, NEW c \in Clients, NEW msg \in MessagesOf[c],
             NEW t \in Tokens \union {NoToken}, Receive(w, c, msg, t), v = w
      PROVE  SaidInTurn(mentioned', turn'[v])
  <2>1. turn'[v] = [client |-> c, msg |-> msg, token |-> t, merged |-> NoEntities,
                    todo |-> {}, snap |-> NoEntities]
    BY <1>0, <1>1 DEF Receive, TypeOK
  <2>2. Pairs(msg.nlu) \subseteq mentioned'[c] /\ Pairs(msg.fallback) \subseteq mentioned'[c]
    BY <1>0, <1>1 DEF Receive, TypeOK
  <2>3. Said(mentioned', {c}, msg.nlu) /\ Said(mentioned', {c}, msg.fallback)
    BY <2>2 DEF Said, Pairs
  <2> QED
    BY <2>1, <2>3, NothingSaid DEF SaidInTurn
<1>2. ASSUME pc[v] \in Steps, NEW r, turn'[v] = r,
             r.client = turn[v].client, r.msg = turn[v].msg,
             Said(mentioned, InSession(Session(v)), r.merged),
             Said(mentioned, InSession(Session(v)), r.snap)
      PROVE  SaidInTurn(mentioned', turn'[v])
  <2>1. turn[v].client \in Clients
    BY <1>0, <1>2, InTurn
  <2>2. SaidInTurn(mentioned, turn[v])
    BY <1>2 DEF SInv, TurnsSaid
  <2>3. InSession(Session(v)) \subseteq Clients
    BY DEF InSession
  <2> QED
    BY <1>0, <1>2, <2>1, <2>2, <2>3, StaysSaid DEF SaidInTurn, Session
<1>3. ASSUME pc[v] \in Steps, turn'[v] = turn[v]
      PROVE  SaidInTurn(mentioned', turn'[v])
  BY <1>0, <1>2, <1>3, ReadsSaid
<1>4. ASSUME MergeRead(v)
      PROVE  SaidInTurn(mentioned', turn'[v])
  <2> DEFINE m == Update(session[Session(v)], turn[v].msg.nlu)
             r == [turn[v] EXCEPT !.merged = m]
  <2>1. pc[v] \in Steps
    BY <1>4 DEF MergeRead, Steps
  <2>2. turn'[v] = r
    BY <1>0, <1>4 DEF MergeRead, TypeOK
  <2>3. Said(mentioned, InSession(Session(v)), m)
    BY <1>0, <2>1, ReadsSaid, SaidUpdate
  <2> HIDE DEF m
  <2>4. r.merged = m /\ r.client = turn[v].client /\ r.msg = turn[v].msg /\ r.snap = turn[v].snap
    BY <1>0, <2>1, InTurn DEF Turns
  <2> HIDE DEF r
  <2> QED
    BY <1>0, <1>2, <2>1, <2>2, <2>3, <2>4, ReadsSaid
<1>5. ASSUME MergeWrite(v)
      PROVE  SaidInTurn(mentioned', turn'[v])
  <2> DEFINE m == Update(turn[v].merged, turn[v].msg.fallback)
             r == [turn[v] EXCEPT !.merged = m, !.todo = ToPersist(turn[v].msg)]
  <2>1. pc[v] \in Steps
    BY <1>5 DEF MergeWrite, Steps
  <2>2. turn'[v] = r
    BY <1>0, <1>5 DEF MergeWrite, TypeOK
  <2>3. Said(mentioned, InSession(Session(v)), m)
    BY <1>0, <2>1, ReadsSaid, SaidUpdate
  <2> HIDE DEF m
  <2>4. r.merged = m /\ r.client = turn[v].client /\ r.msg = turn[v].msg /\ r.snap = turn[v].snap
    BY <1>0, <2>1, InTurn DEF Turns
  <2> HIDE DEF r
  <2> QED
    BY <1>0, <1>2, <2>1, <2>2, <2>3, <2>4, ReadsSaid
<1>6. ASSUME NEW k \in Keys, PersistFact(v, k)
      PROVE  SaidInTurn(mentioned', turn'[v])
  <2> DEFINE r == [turn[v] EXCEPT !.todo = @ \ {k}]
  <2>1. pc[v] \in Steps
    BY <1>6 DEF PersistFact, Steps
  <2>2. turn'[v] = r
    BY <1>0, <1>6 DEF PersistFact, TypeOK
  <2>3. r.merged = turn[v].merged /\ r.client = turn[v].client /\ r.msg = turn[v].msg
        /\ r.snap = turn[v].snap
    BY <1>0, <2>1, InTurn DEF Turns
  <2> HIDE DEF r
  <2> QED
    BY <1>0, <1>2, <2>1, <2>2, <2>3, ReadsSaid
<1>7. ASSUME CheckSession(v) \/ RunSession(v)
      PROVE  SaidInTurn(mentioned', turn'[v])
  <2> DEFINE r == [turn[v] EXCEPT !.snap = session[Session(v)]]
  <2>1. pc[v] \in Steps
    BY <1>7 DEF CheckSession, RunSession, Steps
  <2>2. turn'[v] = r
    BY <1>0, <1>7 DEF CheckSession, RunSession, TypeOK
  <2>3. r.merged = turn[v].merged /\ r.client = turn[v].client /\ r.msg = turn[v].msg
        /\ r.snap = session[Session(v)]
    BY <1>0, <2>1, InTurn DEF Turns
  <2> HIDE DEF r
  <2> QED
    BY <1>0, <1>2, <2>1, <2>2, <2>3, ReadsSaid
<1>8. \/ pc[v] \in Steps /\ turn'[v] = turn[v]
      \/ MergeRead(v) \/ MergeWrite(v) \/ CheckSession(v) \/ RunSession(v)
      \/ \E k \in Keys : PersistFact(v, k)
      \/ \E c \in Clients : \E msg \in MessagesOf[c], t \in Tokens \union {NoToken} :
            Receive(v, c, msg, t)
  <2>1. ASSUME NEW w \in Workers, w # v,
               \/ \E c \in Clients : \E msg \in MessagesOf[c], t \in Tokens \union {NoToken} :
                     Receive(w, c, msg, t)
               \/ Step(w) \/ LoseTurn(w) \/ Restart(w)
        PROVE  pc[v] \in Steps /\ turn'[v] = turn[v]
    BY <1>0, <2>1, OtherWorker
  <2>2. ASSUME RunPlain(v) \/ (\E t \in Tokens : IssueToken(v, t)) \/ ConsumeGet(v)
               \/ ConsumeDelete(v) \/ CheckFacts(v) \/ RunFacts(v) \/ LoseTurn(v) \/ Restart(v)
        PROVE  pc[v] \in Steps /\ turn'[v] = turn[v]
    BY <1>0, <2>2 DEF TypeOK, RunPlain, IssueToken, ConsumeGet, ConsumeDelete, CheckFacts,
       RunFacts, LoseTurn, Restart, EndTurn, Leave, Goto, Steps
  <2>3. ASSUME \/ \E t \in Tokens : ExpireToken(t)
               \/ \E s \in Sessions : ExpireSession(s)
               \/ UNCHANGED vars
        PROVE  pc[v] \in Steps /\ turn'[v] = turn[v]
    BY <2>3 DEF ExpireToken, ExpireSession, vars
  <2> QED
    BY <2>1, <2>2, <2>3 DEF Next, Step
<1> QED
  BY <1>1, <1>3, <1>4, <1>5, <1>6, <1>7, <1>8

-----------------------------------------------------------------------------
(* The theorem.                                                            *)

\* Nothing is said, stored or called at first.
LEMMA SInvInit == Init => SInv
BY NothingSaid DEF Init, SInv, SessionsSaid, FactsSaid, GrantsSaid, TurnsSaid,
   TargetWasMentioned, Steps

\* Every step keeps it.
LEMMA SInvStep == IInv /\ SInv /\ [Next]_vars => SInv'
BY SessionsStep, FactsStep, GrantsStep, TurnsStep, CallsStep DEF IInv, SInv

\* The application and the region of every destructive call were each named in
\* a message of a client that shares the session or the user with the client
\* that confirmed the call.
THEOREM TargetMentioned == Spec => []TargetWasMentioned
<1>1. SInv => TargetWasMentioned
  BY DEF SInv
<1> QED
  BY Inductive, SInvInit, SInvStep, <1>1, PTL DEF Spec
=============================================================================
