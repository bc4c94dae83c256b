------------------------ MODULE ConnectionLifecycle ------------------------
(***************************************************************************)
(* The WebSocket connections of one web worker: the table of the           *)
(* connection manager, the ws.v2 handler and the ping task of each         *)
(* connection, and the two background tasks of the manager that drop       *)
(* records whose pongs are overdue or that are idle.                       *)
(*                                                                         *)
(* All of them are coroutines of one event loop.  The manager's lock is    *)
(* never held across a suspension by the service (only broadcast, which it *)
(* never calls, sends while holding it), so every operation of the manager *)
(* is one step, and so is a whole sweep of a background task.              *)
(*                                                                         *)
(* Time is a number of ticks since the last activity, the last pong and    *)
(* the last ping, kept while something still reads it and not counted      *)
(* beyond the limit it is compared with.  The sweeps may come at any time. *)
(***************************************************************************)
EXTENDS Naturals

CONSTANTS
    Conns,          \* connections, one uuid each
    Responsive,     \* those whose client answers every ping
    PingInterval,   \* the longest time between two pings of a ping task, what a
                    \*   turn that blocks the event loop adds included; the
                    \*   greeting takes no longer
    PingTimeout,    \* ping_timeout
    IdleTimeout,    \* idle_timeout: the code has 300 s for pings every 20 s
    Never           \* no pong yet; no unanswered ping

ASSUME ResponsiveAssumption == Responsive \subseteq Conns
ASSUME TimesAssumption ==
    /\ PingInterval \in Nat /\ PingTimeout \in Nat /\ IdleTimeout \in Nat
    /\ PingInterval + PingInterval <= IdleTimeout
ASSUME NeverAssumption == Never \notin Nat

VARIABLES
    handler,    \* connection -> where its handle_connection is
    table,      \* _connections: the connections that have a record
    auth,       \* the records with status AUTHENTICATED
    quiet,      \* connection -> time since last_activity
    pong,       \* connection -> time since last_pong, or Never
    pinging,    \* the connections whose ping task runs
    ping,       \* connection -> time since its ping task last woke
    owed        \* responsive connection -> time since a ping whose answer has
                \*   not been read, or Never

vars == <<handler, table, auth, quiet, pong, pinging, ping, owed>>
tasks == <<pinging, ping>>
records == <<table, auth, quiet, pong>>

Opened == {"open", "busy"}
HandlerStates == Opened \union {"new", "greeting", "ended"}

\* No clock is looked at beyond these values.
QuietCap == IdleTimeout + 1
PongCap == PingTimeout + 1

Init ==
    /\ handler = [c \in Conns |-> "new"]
    /\ table = {}
    /\ auth = {}
    /\ quiet = [c \in Conns |-> 0]
    /\ pong = [c \in Conns |-> Never]
    /\ pinging = {}
    /\ ping = [c \in Conns |-> 0]
    /\ owed = [c \in Conns |-> Never]

-----------------------------------------------------------------------------
(* The operations of the connection manager.                               *)

\* record_message, record_ping, record_pong: only a record that is there.
Touch(c) == quiet' = IF c \in table THEN [quiet EXCEPT ![c] = 0] ELSE quiet

RecordPong(c) ==
    /\ Touch(c)
    /\ pong' = IF c \in table THEN [pong EXCEPT ![c] = 0] ELSE pong

\* unregister_connection: the WebSocket is not closed, the attribute by which
\* it is to be found open does not exist and the AttributeError is dropped.
Unregister(removed) ==
    /\ table' = table \ removed
    /\ auth' = auth \ removed
    /\ quiet' = [c \in Conns |-> IF c \in removed THEN 0 ELSE quiet[c]]
    /\ pong' = [c \in Conns |-> IF c \in removed THEN Never ELSE pong[c]]

\* Mutant: a pong that comes just in time is too late.
IsPingTimedOutEarly(c) == pong[c] # Never /\ pong[c] >= PingTimeout

IsPingTimedOut(c) == pong[c] # Never /\ pong[c] > PingTimeout
IsIdle(c) == quiet[c] > IdleTimeout

-----------------------------------------------------------------------------
(* The handler of a connection.                                            *)

GotoHandler(c, state) == handler' = [handler EXCEPT ![c] = state]

\* The handler returns, and the client is owed nothing and owes nothing.
Ended(c) == GotoHandler(c, "ended") /\ owed' = [owed EXCEPT ![c] = Never]

StopPinging(c) ==
    /\ pinging' = pinging \ {c}
    /\ ping' = [ping EXCEPT ![c] = 0]

\* accept, register_connection, record_message.
Accept(c) ==
    /\ handler[c] = "new"
    /\ GotoHandler(c, "greeting")
    /\ table' = table \union {c}
    /\ quiet' = [quiet EXCEPT ![c] = 0]
    /\ UNCHANGED <<auth, pong, tasks, owed>>

\* The greeting is sent, the ping task started.
Greet(c) ==
    /\ handler[c] = "greeting"
    /\ GotoHandler(c, "open")
    /\ pinging' = pinging \union {c}
    /\ ping' = [ping EXCEPT ![c] = 0]
    /\ UNCHANGED <<records, owed>>

\* The greeting fails: nothing of the handler is in its try statement yet.
GreetFails(c) ==
    /\ handler[c] = "greeting"
    /\ Ended(c)
    /\ UNCHANGED <<records, tasks>>

\* "pong", or "ping", which is recorded as a pong too (and answered; an answer
\* that fails is only logged).
ReceivePong(c) ==
    /\ handler[c] = "open"
    /\ RecordPong(c)
    /\ owed' = [owed EXCEPT ![c] = Never]
    /\ UNCHANGED <<handler, table, auth, tasks>>

\* "auth <token>": any token will do, if there still is a record.
Authenticate(c) ==
    /\ handler[c] = "open"
    /\ c \in table
    /\ auth' = auth \union {c}
    /\ UNCHANGED <<handler, table, quiet, pong, tasks, owed>>

\* Any other message starts a turn, record or no record.
ReceiveText(c) ==
    /\ handler[c] = "open"
    /\ GotoHandler(c, "busy")
    /\ Touch(c)
    /\ UNCHANGED <<table, auth, pong, tasks, owed>>

\* The turn ends with an answer that is recorded, or with a warning that is not.
Answer(c) ==
    /\ handler[c] = "busy"
    /\ GotoHandler(c, "open")
    /\ \/ Touch(c)
       \/ UNCHANGED quiet
    /\ UNCHANGED <<table, auth, pong, tasks, owed>>

\* WebSocketDisconnect: the record and the ping task go.
Disconnect(c) ==
    /\ handler[c] \in Opened
    /\ Ended(c)
    /\ Unregister({c})
    /\ StopPinging(c)

\* CancelledError: the record goes, the ping task stays.
Cancelled(c) ==
    /\ handler[c] \in Opened
    /\ Ended(c)
    /\ Unregister({c})
    /\ UNCHANGED tasks

\* Any other exception: both stay.
Raises(c) ==
    /\ handler[c] \in Opened
    /\ Ended(c)
    /\ UNCHANGED <<records, tasks>>

-----------------------------------------------------------------------------
(* The ping task of a connection.                                          *)

\* Mutant: a ping of the server is no activity.
PingQuietly(c) ==
    /\ c \in pinging
    /\ c \in table
    /\ handler[c] # "ended"
    /\ ping' = [ping EXCEPT ![c] = 0]
    /\ owed' = IF c \in Responsive /\ owed[c] = Never
                 THEN [owed EXCEPT ![c] = 0] ELSE owed
    /\ UNCHANGED <<handler, records, pinging>>

\* record_ping is an activity of the connection, too.
Ping(c) ==
    /\ c \in pinging
    /\ c \in table
    /\ handler[c] # "ended"
    /\ Touch(c)
    /\ ping' = [ping EXCEPT ![c] = 0]
    /\ owed' = IF c \in Responsive /\ owed[c] = Never
                 THEN [owed EXCEPT ![c] = 0] ELSE owed
    /\ UNCHANGED <<handler, table, auth, pong, pinging>>

\* The ping cannot be sent, to a peer that has gone or after the handler has
\* returned: it is recorded, and the task ends.
PingFails(c) ==
    /\ c \in pinging
    /\ c \in table
    /\ handler[c] = "ended" \/ c \notin Responsive
    /\ Touch(c)
    /\ StopPinging(c)
    /\ UNCHANGED <<handler, table, auth, pong, owed>>

\* Mutant: the task does not look for its record.
PingForever(c) ==
    /\ c \in pinging \ table
    /\ ping' = [ping EXCEPT ![c] = 0]
    /\ UNCHANGED <<handler, records, pinging, owed>>

\* There is no record any more: the task ends.
PingEnds(c) ==
    /\ c \in pinging \ table
    /\ StopPinging(c)
    /\ UNCHANGED <<handler, records, owed>>

PingTask(c) == Ping(c) \/ PingFails(c) \/ PingEnds(c)

-----------------------------------------------------------------------------
(* The background tasks of the manager.                                    *)

\* _ping_monitor
TimedOut == {c \in table : IsPingTimedOut(c)}
PingMonitor ==
    /\ TimedOut # {}
    /\ Unregister(TimedOut)
    /\ UNCHANGED <<handler, tasks, owed>>

\* Mutant: an authenticated connection is idle and a ponging one is not.
IdleRecordsSwapped == {c \in table : IsIdle(c) /\ pong[c] # Never}

\* _cleanup_idle_connections
IdleRecords == {c \in table : IsIdle(c) /\ c \notin auth}

CleanupIdle ==
    /\ IdleRecords # {}
    /\ Unregister(IdleRecords)
    /\ UNCHANGED <<handler, tasks, owed>>

\* A greeting is sent and a ping task wakes within PingInterval.  When an answer
\* is read has no bound: the client, the network, the turn its own handler is
\* in and the turns of others that block the event loop delay it.
OnTime(c) ==
    /\ handler[c] = "greeting" => quiet[c] < PingInterval
    /\ c \in pinging => ping[c] < PingInterval

\* Mutant: a clock that is never stopped.
LaterUncapped(age, cap) == IF age = Never THEN age ELSE age + 1

Later(age, cap) == IF age = Never \/ age = cap THEN age ELSE age + 1

Tick ==
    /\ \A c \in Conns : OnTime(c)
    /\ quiet' = [c \in Conns |-> IF c \in table THEN Later(quiet[c], QuietCap) ELSE 0]
    /\ pong' = [c \in Conns |-> Later(pong[c], PongCap)]
    /\ ping' = [c \in Conns |-> IF c \in pinging THEN ping[c] + 1 ELSE 0]
    /\ owed' = [c \in Conns |-> Later(owed[c], PongCap)]
    /\ UNCHANGED <<handler, table, auth, pinging>>

-----------------------------------------------------------------------------
Next ==
    \/ \E c \in Conns :
         \/ Accept(c)
         \/ Greet(c)
         \/ GreetFails(c)
         \/ ReceivePong(c)
         \/ Authenticate(c)
         \/ ReceiveText(c)
         \/ Answer(c)
         \/ Disconnect(c)
         \/ Cancelled(c)
         \/ Raises(c)
         \/ PingTask(c)
    \/ PingMonitor
    \/ CleanupIdle
    \/ Tick

Spec == Init /\ [][Next]_vars

\* Time goes on, the sleeping tasks wake, the greeting and a turn come to
\* their end, and the responsive clients are responsive: messages are read in
\* order, so a pong cannot be passed by other messages for ever, though each
\* turn keeps it waiting.  The others owe nothing, and nobody has to leave.
FairSpec ==
    /\ Spec
    /\ WF_vars(Tick)
    /\ WF_vars(PingMonitor)
    /\ WF_vars(CleanupIdle)
    /\ \A c \in Conns :
         /\ WF_vars(Greet(c) \/ GreetFails(c))
         /\ WF_vars(Answer(c))
         /\ WF_vars(PingTask(c))
    /\ \A c \in Responsive : SF_vars(ReceivePong(c))

-----------------------------------------------------------------------------
(* Properties.                                                             *)

TypeOK ==
    /\ handler \in [Conns -> HandlerStates]
    /\ table \subseteq Conns
    /\ auth \subseteq table
    /\ quiet \in [Conns -> 0 .. QuietCap]
    /\ pong \in [Conns -> (0 .. PongCap) \union {Never}]
    /\ pinging \subseteq Conns
    /\ ping \in [Conns -> 0 .. PingInterval]
    /\ owed \in [Conns -> (0 .. PongCap) \union {Never}]

\* A client that answers the pings is dropped for a late answer only: none of
\* the two sweeps, whenever they come and however rarely anything else is said,
\* takes a connection that is served and whose answers are read, unless one has
\* been waiting for longer than PingTimeout leaves after a ping interval, or
\* the ping task itself has slept for longer than PingTimeout.  (The code
\* leaves 10 s, and one synchronous request may block the loop for longer.)
LostWhileAnswering ==
    \A c \in (table \ table') \intersect Responsive :
        handler[c] \in Opened /\ handler'[c] \in Opened
            => \/ owed[c] # Never /\ owed[c] + PingInterval > PingTimeout
               \/ ping[c] > PingTimeout
AnsweringStays == [][LostWhileAnswering]_vars

\* Of the connections that are served, the sweeps take only those that have
\* answered a ping once and not for PingTimeout, and those whose ping task
\* has failed: the pings of the server itself keep a silent connection from
\* being idle.
LostWhileServed ==
    \A c \in table \ table' :
        handler[c] \in Opened /\ handler'[c] \in Opened
            => IsPingTimedOut(c) \/ c \notin pinging
ServedIsKept == [][LostWhileServed]_vars

\* A record whose handler ended without unregistering it (a failed greeting,
\* an exception) is dropped in the end by one of the two sweeps: unless it is
\* authenticated, which the cleanup of idle connections excepts, and has
\* never sent a pong, without which no ping times out.
AbandonedDropped ==
    \A c \in Conns :
        (/\ handler[c] = "ended"
         /\ c \in table
         /\ c \in auth => pong[c] # Never)
        ~> c \notin table

\* The ping task of a connection does not outlive its handler for long, by
\* whichever of its exits the handler has returned.
PingTasksEnd ==
    \A c \in Conns : handler[c] = "ended" ~> c \notin pinging

-----------------------------------------------------------------------------
(* The inductive invariant: a record is as quiet as its ping task at most, *)
(* give or take the greeting, and the last pong of a responsive client is  *)
(* as old as the ping it answered at most, give or take what is unread.    *)

TaskOfHandler(c) ==
    /\ handler[c] \in {"new", "greeting"} => c \notin pinging /\ pong[c] = Never
    /\ handler[c] = "new" => c \notin table
    /\ handler[c] = "greeting" => c \in table
    /\ c \notin pinging => ping[c] = 0

QuietBound(c) ==
    /\ handler[c] = "greeting" => quiet[c] <= PingInterval
    /\ c \in table /\ c \in pinging => quiet[c] <= ping[c] + PingInterval

PongBound(c) ==
    /\ c \notin Responsive => owed[c] = Never
    /\ c \in Responsive /\ handler[c] \in Opened /\ c \in table =>
         /\ c \in pinging
         /\ pong[c] # Never /\ owed[c] = Never => pong[c] <= ping[c]
         /\ pong[c] # Never /\ owed[c] # Never => pong[c] <= owed[c] + PingInterval

IInv ==
    /\ TypeOK
    /\ \A c \in Conns : TaskOfHandler(c) /\ QuietBound(c) /\ PongBound(c)
=============================================================================
