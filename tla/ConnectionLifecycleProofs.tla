--------------------- MODULE ConnectionLifecycleProofs ---------------------
(***************************************************************************)
(* The safety properties of ConnectionLifecycle for any connections and    *)
(* any times that satisfy its assumptions.  The argument is IInv: a ping   *)
(* task that runs bounds the silence of its record, and the age of the     *)
(* last pong is bounded by the ping it answered, or by how long the next   *)
(* answer has been waiting to be read.                                     *)
(***************************************************************************)
EXTENDS ConnectionLifecycle, TLAPS

\* The invariant holds initially.
LEMMA InitInvariant == Init => IInv
  BY TimesAssumption, NeverAssumption
  DEF Init, IInv, TypeOK, HandlerStates, Opened, QuietCap, PongCap, TaskOfHandler,
      QuietBound, PongBound

\* Accept keeps the invariant.
LEMMA AcceptKeeps ==
    ASSUME IInv, NEW x \in Conns, Accept(x)
    PROVE  IInv'
  <1>1. TypeOK'
    BY TimesAssumption, NeverAssumption
    DEF IInv, TypeOK, HandlerStates, Opened, QuietCap, PongCap, GotoHandler, tasks, records, Accept
  <1>2. ASSUME NEW c \in Conns
        PROVE  (TaskOfHandler(c) /\ QuietBound(c) /\ PongBound(c))'
    BY TimesAssumption, NeverAssumption, ResponsiveAssumption
    DEF IInv, TypeOK, HandlerStates, Opened, QuietCap, PongCap, GotoHandler, tasks, records,
        TaskOfHandler, QuietBound, PongBound, Accept
  <1> QED BY <1>1, <1>2 DEF IInv

\* Greet keeps the invariant.
LEMMA GreetKeeps ==
    ASSUME IInv, NEW x \in Conns, Greet(x)
    PROVE  IInv'
  <1>1. TypeOK'
    BY TimesAssumption, NeverAssumption
    DEF IInv, TypeOK, HandlerStates, Opened, QuietCap, PongCap, GotoHandler, tasks, records, Greet, StopPinging
  <1>2. ASSUME NEW c \in Conns
        PROVE  (TaskOfHandler(c) /\ QuietBound(c) /\ PongBound(c))'
    BY TimesAssumption, NeverAssumption, ResponsiveAssumption
    DEF IInv, TypeOK, HandlerStates, Opened, QuietCap, PongCap, GotoHandler, tasks, records,
        TaskOfHandler, QuietBound, PongBound, Greet, StopPinging
  <1> QED BY <1>1, <1>2 DEF IInv

\* GreetFails keeps the invariant.
LEMMA GreetFailsKeeps ==
    ASSUME IInv, NEW x \in Conns, GreetFails(x)
    PROVE  IInv'
  <1>1. TypeOK'
    BY TimesAssumption, NeverAssumption
    DEF IInv, TypeOK, HandlerStates, Opened, QuietCap, PongCap, GotoHandler, tasks, records, GreetFails, Ended
  <1>2. ASSUME NEW c \in Conns
        PROVE  (TaskOfHandler(c) /\ QuietBound(c) /\ PongBound(c))'
    BY TimesAssumption, NeverAssumption, ResponsiveAssumption
    DEF IInv, TypeOK, HandlerStates, Opened, QuietCap, PongCap, GotoHandler, tasks, records,
        TaskOfHandler, QuietBound, PongBound, GreetFails, Ended
  <1> QED BY <1>1, <1>2 DEF IInv

\* ReceivePong keeps the invariant.
LEMMA ReceivePongKeeps ==
    ASSUME IInv, NEW x \in Conns, ReceivePong(x)
    PROVE  IInv'
  <1>1. TypeOK'
    BY TimesAssumption, NeverAssumption
    DEF IInv, TypeOK, HandlerStates, Opened, QuietCap, PongCap, GotoHandler, tasks, records, ReceivePong, RecordPong, Touch
  <1>2. ASSUME NEW c \in Conns
        PROVE  (TaskOfHandler(c) /\ QuietBound(c) /\ PongBound(c))'
    BY TimesAssumption, NeverAssumption, ResponsiveAssumption
    DEF IInv, TypeOK, HandlerStates, Opened, QuietCap, PongCap, GotoHandler, tasks, records,
        TaskOfHandler, QuietBound, PongBound, ReceivePong, RecordPong, Touch
  <1> QED BY <1>1, <1>2 DEF IInv

\* Authenticate keeps the invariant.
LEMMA AuthenticateKeeps ==
    ASSUME IInv, NEW x \in Conns, Authenticate(x)
    PROVE  IInv'
  <1>1. TypeOK'
    BY TimesAssumption, NeverAssumption
    DEF IInv, TypeOK, HandlerStates, Opened, QuietCap, PongCap, GotoHandler, tasks, records, Authenticate
  <1>2. ASSUME NEW c \in Conns
        PROVE  (TaskOfHandler(c) /\ QuietBound(c) /\ PongBound(c))'
    BY TimesAssumption, NeverAssumption, ResponsiveAssumption
    DEF IInv, TypeOK, HandlerStates, Opened, QuietCap, PongCap, GotoHandler, tasks, records,
        TaskOfHandler, QuietBound, PongBound, Authenticate
  <1> QED BY <1>1, <1>2 DEF IInv

\* ReceiveText keeps the invariant.
LEMMA ReceiveTextKeeps ==
    ASSUME IInv, NEW x \in Conns, ReceiveText(x)
    PROVE  IInv'
  <1>1. TypeOK'
    BY TimesAssumption, NeverAssumption
    DEF IInv, TypeOK, HandlerStates, Opened, QuietCap, PongCap, GotoHandler, tasks, records, ReceiveText, Touch
  <1>2. ASSUME NEW c \in Conns
        PROVE  (TaskOfHandler(c) /\ QuietBound(c) /\ PongBound(c))'
    BY TimesAssumption, NeverAssumption, ResponsiveAssumption
    DEF IInv, TypeOK, HandlerStates, Opened, QuietCap, PongCap, GotoHandler, tasks, records,
        TaskOfHandler, QuietBound, PongBound, ReceiveText, Touch
  <1> QED BY <1>1, <1>2 DEF IInv

\* Answer keeps the invariant.
LEMMA AnswerKeeps ==
    ASSUME IInv, NEW x \in Conns, Answer(x)
    PROVE  IInv'
  <1>1. TypeOK'
    BY TimesAssumption, NeverAssumption
    DEF IInv, TypeOK, HandlerStates, Opened, QuietCap, PongCap, GotoHandler, tasks, records, Answer, Touch
  <1>2. ASSUME NEW c \in Conns
        PROVE  (TaskOfHandler(c) /\ QuietBound(c) /\ PongBound(c))'
    BY TimesAssumption, NeverAssumption, ResponsiveAssumption
    DEF IInv, TypeOK, HandlerStates, Opened, QuietCap, PongCap, GotoHandler, tasks, records,
        TaskOfHandler, QuietBound, PongBound, Answer, Touch
  <1> QED BY <1>1, <1>2 DEF IInv

\* Disconnect keeps the invariant.
LEMMA DisconnectKeeps ==
    ASSUME IInv, NEW x \in Conns, Disconnect(x)
    PROVE  IInv'
  <1>1. TypeOK'
    BY TimesAssumption, NeverAssumption
    DEF IInv, TypeOK, HandlerStates, Opened, QuietCap, PongCap, GotoHandler, tasks, records, Disconnect, Ended, Unregister, StopPinging
  <1>2. ASSUME NEW c \in Conns
        PROVE  (TaskOfHandler(c) /\ QuietBound(c) /\ PongBound(c))'
    BY TimesAssumption, NeverAssumption, ResponsiveAssumption
    DEF IInv, TypeOK, HandlerStates, Opened, QuietCap, PongCap, GotoHandler, tasks, records,
        TaskOfHandler, QuietBound, PongBound, Disconnect, Ended, Unregister, StopPinging
  <1> QED BY <1>1, <1>2 DEF IInv

\* Cancelled keeps the invariant.
LEMMA CancelledKeeps ==
    ASSUME IInv, NEW x \in Conns, Cancelled(x)
    PROVE  IInv'
  <1>1. TypeOK'
    BY TimesAssumption, NeverAssumption
    DEF IInv, TypeOK, HandlerStates, Opened, QuietCap, PongCap, GotoHandler, tasks, records, Cancelled, Ended, Unregister
  <1>2. ASSUME NEW c \in Conns
        PROVE  (TaskOfHandler(c) /\ QuietBound(c) /\ PongBound(c))'
    BY TimesAssumption, NeverAssumption, ResponsiveAssumption
    DEF IInv, TypeOK, HandlerStates, Opened, QuietCap, PongCap, GotoHandler, tasks, records,
        TaskOfHandler, QuietBound, PongBound, Cancelled, Ended, Unregister
  <1> QED BY <1>1, <1>2 DEF IInv

\* Raises keeps the invariant.
LEMMA RaisesKeeps ==
    ASSUME IInv, NEW x \in Conns, Raises(x)
    PROVE  IInv'
  <1>1. TypeOK'
    BY TimesAssumption, NeverAssumption
    DEF IInv, TypeOK, HandlerStates, Opened, QuietCap, PongCap, GotoHandler, tasks, records, Raises, Ended
  <1>2. ASSUME NEW c \in Conns
        PROVE  (TaskOfHandler(c) /\ QuietBound(c) /\ PongBound(c))'
    BY TimesAssumption, NeverAssumption, ResponsiveAssumption
    DEF IInv, TypeOK, HandlerStates, Opened, QuietCap, PongCap, GotoHandler, tasks, records,
        TaskOfHandler, QuietBound, PongBound, Raises, Ended
  <1> QED BY <1>1, <1>2 DEF IInv

\* Ping keeps the invariant.
LEMMA PingKeeps ==
    ASSUME IInv, NEW x \in Conns, Ping(x)
    PROVE  IInv'
  <1>1. TypeOK'
    BY TimesAssumption, NeverAssumption
    DEF IInv, TypeOK, HandlerStates, Opened, QuietCap, PongCap, GotoHandler, tasks, records, Ping, Touch
  <1>2. ASSUME NEW c \in Conns
        PROVE  (TaskOfHandler(c) /\ QuietBound(c) /\ PongBound(c))'
    BY TimesAssumption, NeverAssumption, ResponsiveAssumption
    DEF IInv, TypeOK, HandlerStates, Opened, QuietCap, PongCap, GotoHandler, tasks, records,
        TaskOfHandler, QuietBound, PongBound, Ping, Touch
  <1> QED BY <1>1, <1>2 DEF IInv

\* PingFails keeps the invariant.
LEMMA PingFailsKeeps ==
    ASSUME IInv, NEW x \in Conns, PingFails(x)
    PROVE  IInv'
  <1>1. TypeOK'
    BY TimesAssumption, NeverAssumption
    DEF IInv, TypeOK, HandlerStates, Opened, QuietCap, PongCap, GotoHandler, tasks, records, PingFails, Touch, StopPinging
  <1>2. ASSUME NEW c \in Conns
        PROVE  (TaskOfHandler(c) /\ QuietBound(c) /\ PongBound(c))'
    BY TimesAssumption, NeverAssumption, ResponsiveAssumption
    DEF IInv, TypeOK, HandlerStates, Opened, QuietCap, PongCap, GotoHandler, tasks, records,
        TaskOfHandler, QuietBound, PongBound, PingFails, Touch, StopPinging
  <1> QED BY <1>1, <1>2 DEF IInv

\* PingEnds keeps the invariant.
LEMMA PingEndsKeeps ==
    ASSUME IInv, NEW x \in Conns, PingEnds(x)
    PROVE  IInv'
  <1>1. TypeOK'
    BY TimesAssumption, NeverAssumption
    DEF IInv, TypeOK, HandlerStates, Opened, QuietCap, PongCap, GotoHandler, tasks, records, PingEnds, StopPinging
  <1>2. ASSUME NEW c \in Conns
        PROVE  (TaskOfHandler(c) /\ QuietBound(c) /\ PongBound(c))'
    BY TimesAssumption, NeverAssumption, ResponsiveAssumption
    DEF IInv, TypeOK, HandlerStates, Opened, QuietCap, PongCap, GotoHandler, tasks, records,
        TaskOfHandler, QuietBound, PongBound, PingEnds, StopPinging
  <1> QED BY <1>1, <1>2 DEF IInv

\* A sweep takes no record of a connection that is being greeted.
LEMMA SweptAreOver ==
    ASSUME IInv, NEW c \in TimedOut \union IdleRecords
    PROVE  c \in Conns /\ handler[c] # "greeting"
  BY TimesAssumption, NeverAssumption
  DEF IInv, TypeOK, HandlerStates, Opened, QuietCap, PongCap, TaskOfHandler, QuietBound,
      PongBound, TimedOut, IdleRecords, IsPingTimedOut, IsIdle

\* A sweep keeps the invariant.
LEMMA SweepKeeps ==
    ASSUME IInv, NEW removed \in SUBSET (TimedOut \union IdleRecords), Unregister(removed),
           UNCHANGED <<handler, tasks, owed>>
    PROVE  IInv'
  <1>1. TypeOK'
    BY TimesAssumption, NeverAssumption
    DEF IInv, TypeOK, QuietCap, PongCap, tasks, Unregister
  <1>2. ASSUME NEW c \in Conns
        PROVE  (TaskOfHandler(c) /\ QuietBound(c) /\ PongBound(c))'
    <2>1. c \in removed => handler[c] # "greeting"
      BY SweptAreOver
    <2> QED
      BY <2>1, TimesAssumption, NeverAssumption
      DEF IInv, TypeOK, HandlerStates, Opened, QuietCap, PongCap, TaskOfHandler, QuietBound,
          PongBound, tasks, Unregister
  <1> QED BY <1>1, <1>2 DEF IInv

\* The passing of time keeps the invariant.
LEMMA TickKeeps ==
    ASSUME IInv, Tick
    PROVE  IInv'
  <1>1. ASSUME NEW c \in Conns
        PROVE  /\ quiet'[c] \in 0 .. QuietCap
               /\ pong'[c] \in (0 .. PongCap) \union {Never}
               /\ ping'[c] \in 0 .. PingInterval
               /\ owed'[c] \in (0 .. PongCap) \union {Never}
               /\ c \in table => quiet'[c] <= quiet[c] + 1
               /\ pong[c] = Never <=> pong'[c] = Never
               /\ pong[c] # Never => pong'[c] <= pong[c] + 1
               /\ ping'[c] = IF c \in pinging THEN ping[c] + 1 ELSE 0
               /\ owed[c] = Never <=> owed'[c] = Never
               /\ owed[c] # Never => owed'[c] = owed[c] + 1 \/ owed'[c] = PongCap
    <2>1. /\ quiet[c] \in 0 .. QuietCap /\ QuietCap \in Nat /\ PongCap \in Nat
          /\ pong[c] \in (0 .. PongCap) \union {Never}
          /\ ping[c] \in 0 .. PingInterval
          /\ owed[c] \in (0 .. PongCap) \union {Never}
          /\ PingInterval \in Nat
      BY TimesAssumption DEF IInv, TypeOK, QuietCap, PongCap
    <2>2. c \in pinging => ping[c] < PingInterval
      BY DEF Tick, OnTime
    <2>3. /\ quiet'[c] = IF c \in table THEN Later(quiet[c], QuietCap) ELSE 0
          /\ pong'[c] = Later(pong[c], PongCap)
          /\ ping'[c] = IF c \in pinging THEN ping[c] + 1 ELSE 0
          /\ owed'[c] = Later(owed[c], PongCap)
      BY DEF Tick
    <2>4. quiet'[c] \in 0 .. QuietCap /\ (c \in table => quiet'[c] <= quiet[c] + 1)
      BY <2>1, <2>3, NeverAssumption DEF Later
    <2>5. /\ pong'[c] \in (0 .. PongCap) \union {Never}
          /\ pong[c] = Never <=> pong'[c] = Never
          /\ pong[c] # Never => pong'[c] <= pong[c] + 1
      BY <2>1, <2>3, NeverAssumption DEF Later
    <2>6. /\ owed'[c] \in (0 .. PongCap) \union {Never}
          /\ owed[c] = Never <=> owed'[c] = Never
          /\ owed[c] # Never => owed'[c] = owed[c] + 1 \/ owed'[c] = PongCap
      BY <2>1, <2>2, <2>3, NeverAssumption DEF Later
    <2> QED BY <2>1, <2>2, <2>3, <2>4, <2>5, <2>6
  <1>2. TypeOK'
    <2>1. /\ DOMAIN quiet' = Conns /\ quiet' = [c \in Conns |-> quiet'[c]]
          /\ pong' = [c \in Conns |-> pong'[c]]
          /\ ping' = [c \in Conns |-> ping'[c]]
          /\ owed' = [c \in Conns |-> owed'[c]]
      BY DEF Tick
    <2> QED BY <1>1, <2>1 DEF IInv, TypeOK, Tick, QuietCap, PongCap
  <1>3. ASSUME NEW c \in Conns
        PROVE  (TaskOfHandler(c) /\ QuietBound(c) /\ PongBound(c))'
    <2>1. /\ quiet[c] \in Nat /\ ping[c] \in Nat /\ PingInterval \in Nat
          /\ pong[c] \in Nat \union {Never} /\ owed[c] \in Nat \union {Never}
          /\ quiet'[c] \in Nat /\ PongCap \in Nat
          /\ pong'[c] # Never => pong'[c] \in Nat /\ pong'[c] <= PongCap
      BY <1>1, TimesAssumption DEF IInv, TypeOK, QuietCap, PongCap
    <2>2. handler[c] = "greeting" => quiet[c] < PingInterval
      BY DEF Tick, OnTime
    <2>3. UNCHANGED <<handler, table, auth, pinging>>
      BY DEF Tick
    <2>4. TaskOfHandler(c)'
      BY <1>1, <2>3 DEF IInv, TaskOfHandler
    <2>5. QuietBound(c)'
      BY <1>1, <2>1, <2>2, <2>3 DEF IInv, QuietBound, TaskOfHandler
    <2>6. PongBound(c)'
      BY <1>1, <2>1, <2>3, NeverAssumption DEF IInv, PongBound
    <2> QED BY <2>4, <2>5, <2>6
  <1> QED BY <1>2, <1>3 DEF IInv

\* Every step keeps the invariant.
LEMMA NextKeeps == IInv /\ [Next]_vars => IInv'
  <1> SUFFICES ASSUME IInv, [Next]_vars PROVE IInv'
    OBVIOUS
  <1>1. ASSUME NEW c \in Conns, PingTask(c) PROVE IInv'
    BY <1>1, PingKeeps, PingFailsKeeps, PingEndsKeeps DEF PingTask
  <1>2. ASSUME PingMonitor PROVE IInv'
    <2>1. Unregister(TimedOut) /\ UNCHANGED <<handler, tasks, owed>>
      BY <1>2 DEF PingMonitor
    <2> QED BY <2>1, SweepKeeps
  <1>3. ASSUME CleanupIdle PROVE IInv'
    <2>1. Unregister(IdleRecords) /\ UNCHANGED <<handler, tasks, owed>>
      BY <1>3 DEF CleanupIdle
    <2> QED BY <2>1, SweepKeeps
  <1>4. CASE UNCHANGED vars
    BY <1>4 DEF vars, records, tasks, IInv, TypeOK, TaskOfHandler, QuietBound, PongBound
  <1>5. ASSUME NEW c \in Conns,
               \/ Accept(c) \/ Greet(c) \/ GreetFails(c) \/ ReceivePong(c)
               \/ Authenticate(c) \/ ReceiveText(c) \/ Answer(c)
               \/ Disconnect(c) \/ Cancelled(c) \/ Raises(c)
        PROVE IInv'
    BY <1>5, AcceptKeeps, GreetKeeps, GreetFailsKeeps, ReceivePongKeeps, AuthenticateKeeps,
       ReceiveTextKeeps, AnswerKeeps, DisconnectKeeps, CancelledKeeps, RaisesKeeps
  <1> QED BY <1>1, <1>2, <1>3, <1>4, <1>5, TickKeeps DEF Next

\* The invariant holds in every state that the connections reach.
THEOREM Invariance == Spec => []IInv
  BY InitInvariant, NextKeeps, PTL DEF Spec

\* The variables keep their types.
THEOREM TypeCorrectness == Spec => []TypeOK
  <1>1. IInv => TypeOK
    BY DEF IInv
  <1> QED BY <1>1, Invariance, PTL

\* A step that takes the record of a connection that is served, takes one
\* whose pongs are overdue or whose ping task has ended.
LEMMA LossExplained == IInv /\ [Next]_vars => LostWhileServed
  <1> SUFFICES ASSUME IInv, [Next]_vars,
                      NEW c \in table \ table', handler[c] \in Opened, handler'[c] \in Opened
               PROVE  IsPingTimedOut(c) \/ c \notin pinging
    BY DEF LostWhileServed
  <1>1. c \in Conns
    BY DEF IInv, TypeOK
  <1>2. CASE PingMonitor
    BY <1>2 DEF PingMonitor, Unregister, TimedOut
  <1>3. CASE CleanupIdle
    <2>1. c \in IdleRecords
      BY <1>3 DEF CleanupIdle, Unregister
    <2>2. quiet[c] > IdleTimeout
      BY <2>1 DEF IdleRecords, IsIdle
    <2>3. c \in pinging => quiet[c] <= ping[c] + PingInterval /\ ping[c] \in 0 .. PingInterval
      BY <1>1 DEF IInv, TypeOK, QuietBound
    <2>4. quiet[c] \in Nat
      BY <1>1, TimesAssumption DEF IInv, TypeOK, QuietCap
    <2> QED BY <2>2, <2>3, <2>4, TimesAssumption
  <1>4. ASSUME NEW x \in Conns, Disconnect(x) \/ Cancelled(x) PROVE FALSE
    <2>1. table' = table \ {x} /\ handler' = [handler EXCEPT ![x] = "ended"]
      BY <1>4 DEF Disconnect, Cancelled, Unregister, Ended, GotoHandler
    <2> QED BY <1>1, <2>1 DEF IInv, TypeOK, Opened
  <1>5. ASSUME NEW x \in Conns,
               \/ Accept(x) \/ Greet(x) \/ GreetFails(x) \/ ReceivePong(x)
               \/ Authenticate(x) \/ ReceiveText(x) \/ Answer(x) \/ Raises(x) \/ PingTask(x)
        PROVE FALSE
    <2>1. table \subseteq table'
      BY <1>5 DEF Accept, Greet, GreetFails, ReceivePong, Authenticate, ReceiveText, Answer,
                  Raises, PingTask, Ping, PingFails, PingEnds, records
    <2> QED BY <2>1
  <1>6. CASE Tick \/ UNCHANGED vars
    BY <1>6 DEF Tick, vars
  <1> QED BY <1>2, <1>3, <1>4, <1>5, <1>6 DEF Next

\* The sweeps take no connection that is served and pinged, unless it has
\* stopped answering.
THEOREM ServedConnectionsAreKept == Spec => ServedIsKept
  <1>1. IInv /\ [Next]_vars => [LostWhileServed]_vars
    BY LossExplained
  <1> QED BY <1>1, Invariance, PTL DEF Spec, ServedIsKept

\* A step that takes the record of a connection that is served and whose client
\* answers, finds an answer that has long been waiting or a late ping task.
LEMMA LateAnswerExplained == IInv /\ [Next]_vars => LostWhileAnswering
  <1> SUFFICES ASSUME IInv, [Next]_vars,
                      NEW c \in (table \ table') \intersect Responsive,
                      handler[c] \in Opened, handler'[c] \in Opened
               PROVE  \/ owed[c] # Never /\ owed[c] + PingInterval > PingTimeout
                      \/ ping[c] > PingTimeout
    BY DEF LostWhileAnswering
  <1>1. c \in Conns /\ c \in table
    BY DEF IInv, TypeOK
  <1>2. /\ c \in pinging
        /\ pong[c] # Never /\ owed[c] = Never => pong[c] <= ping[c]
        /\ pong[c] # Never /\ owed[c] # Never => pong[c] <= owed[c] + PingInterval
    BY <1>1 DEF IInv, PongBound
  <1>3. IsPingTimedOut(c)
    BY <1>2, LossExplained DEF LostWhileServed
  <1>4. /\ pong[c] # Never /\ pong[c] \in Nat
        /\ owed[c] # Never => owed[c] \in Nat
        /\ ping[c] \in Nat /\ PingInterval \in Nat /\ PingTimeout \in Nat
        /\ pong[c] > PingTimeout
    BY <1>1, <1>3, TimesAssumption DEF IInv, TypeOK, PongCap, IsPingTimedOut
  <1> QED BY <1>2, <1>4

\* A served connection whose client answers its pings loses its record to a
\* sweep only when an answer has been waiting to be read for longer than
\* PingTimeout leaves after a ping interval, or its ping task has overslept,
\* for any delay of the answers.
THEOREM AnsweringClientsStay == Spec => AnsweringStays
  <1>1. IInv /\ [Next]_vars => [LostWhileAnswering]_vars
    BY LateAnswerExplained
  <1> QED BY <1>1, Invariance, PTL DEF Spec, AnsweringStays
=============================================================================
