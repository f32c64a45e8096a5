---------------------------- MODULE Subscriptions ----------------------------
(***************************************************************************)
(* Notifications over WebSocket: the connection registry (wsconn), the     *)
(* JSON-RPC requests of each connection (serve/jsonrpc.go), the            *)
(* subscription map and its sendEvent (serve/filters), driven by the       *)
(* manager's event loop.                                                   *)
(*                                                                         *)
(* Sends is what the loop announces, in its order: the header of each      *)
(* block, its gas prices if it has transactions, then each of its results. *)
(* A send is named by its index.  A request that is invalid or refused     *)
(* changes nothing but its own response.                                   *)
(*                                                                         *)
(* A session is external (melody): it reads one message at a time, and     *)
(* Write puts a message into a bounded buffer, drops it when the buffer is *)
(* full, and refuses it once the session is closed.  The writer logs and   *)
(* forgets both failures.                                                  *)
(***************************************************************************)
EXTENDS Integers, Sequences, FiniteSets, SequencesExt

CONSTANTS MaxConns,  \* bound: connections
          MaxSubs,   \* bound: subscriptions
          Sends,     \* the type of each send of the event loop
          Buffer,    \* capacity of a session's buffer
          Asked,     \* the event types clients ask for
          MaxBatch,  \* bound: requests in one message
          NoConn,    \* no connection
          NoType     \* no event type

\* Identifiers are fresh: they are numbered in the order they are given out.
Conns == 1 .. MaxConns
Ids == 1 .. MaxSubs

Types == {"newHeads", "newTransactions", "newGasPrice"}
SendNo == 1 .. Len(Sends)

ASSUME SubscriptionsAssumption ==
    /\ Sends \in Seq(Types)
    /\ Asked \subseteq Types
    /\ Buffer \in Nat \ {0} /\ MaxBatch \in Nat \ {0}
    /\ MaxConns \in Nat /\ MaxSubs \in Nat
    /\ NoConn \notin Conns /\ NoType \notin Types

VARIABLES
    conns,      \* Conns.conns: registered connections
    cancelled,  \* connections whose context is cancelled
    session,    \* melody: "none", "open" or "closed"
    request,    \* the message a connection is handling: responses so far
    subs,       \* subscriptionMap.subscriptions: the keys
    conn,       \* connection of a subscription
    type,       \* event type of a subscription
    loop,       \* the event loop: step, sends begun, writes left, failed writes
    buffer,     \* messages in a session's buffer
    dropped,    \* history: open connections that lost a message
    notified,   \* history: the sends written for a subscription, in order
    since,      \* history: sends begun when the subscription was added
    until,      \* history: last send meant for it, once it is removed
    deadAt      \* history: sends begun when the connection was cancelled

connVars == <<conns, cancelled, session>>
subVars == <<subs, conn, type>>
wireVars == <<buffer, dropped>>
history == <<notified, since, until, deadAt>>
vars == <<connVars, request, subVars, loop, wireVars, history>>

Never == Len(Sends) + 1

Init ==
    /\ conns = {} /\ cancelled = {}
    /\ session = [c \in Conns |-> "none"]
    /\ request = [c \in Conns |-> 0]
    /\ subs = {}
    /\ conn = [s \in Ids |-> NoConn] /\ type = [s \in Ids |-> NoType]
    /\ loop = [step |-> "ready", at |-> 0, todo |-> {}, invalid |-> {}]
    /\ buffer = [c \in Conns |-> 0] /\ dropped = {}
    /\ notified = [s \in Ids |-> <<>>]
    /\ since = [s \in Ids |-> Never] /\ until = [s \in Ids |-> Never]
    /\ deadAt = [c \in Conns |-> Never]

\* Deviation of MapIsFree: nobody waits for the lock.
MapIsNotLocked == TRUE

\* subscriptionMap's mutex: only sendEvent takes several steps.
MapIsFree == loop.step # "sending"

\* What the session does with a message (external).
Accepts(c) == session[c] = "open" /\ buffer[c] < Buffer

\* Deviation of Write: the message is queued whatever the session says.
WriteAlways(c) ==
    /\ buffer' = [buffer EXCEPT ![c] = @ + 1]
    /\ UNCHANGED dropped

\* ResponseWriter.WriteResponse: the outcome is logged, not returned.
Write(c) ==
    /\ buffer' = IF Accepts(c) THEN [buffer EXCEPT ![c] = @ + 1] ELSE buffer
    /\ dropped' = IF session[c] = "open" /\ ~Accepts(c) THEN dropped \cup {c} ELSE dropped

-----------------------------------------------------------------------------
(* The connection, one goroutine each: connect, messages, disconnect. *)

\* HandleConnect: AddWSConnection.
Connect(c) ==
    /\ session[c] = "none" /\ \A d \in 1 .. c - 1 : session[d] # "none"
    /\ session' = [session EXCEPT ![c] = "open"]
    /\ conns' = conns \cup {c}
    /\ UNCHANGED <<cancelled, request, subVars, loop, wireVars, history>>

\* The session breaks, or the client leaves; what is buffered is lost, and nobody
\* is told yet (external).
SessionCloses(c) ==
    /\ session[c] = "open"
    /\ session' = [session EXCEPT ![c] = "closed"]
    /\ buffer' = [buffer EXCEPT ![c] = 0]
    /\ dropped' = dropped \ {c}
    /\ UNCHANGED <<conns, cancelled, request, subVars, loop, history>>

\* The session's writer passes a message on to the client (external).
Deliver(c) ==
    /\ session[c] = "open" /\ buffer[c] > 0
    /\ buffer' = [buffer EXCEPT ![c] = @ - 1]
    /\ UNCHANGED <<connVars, request, subVars, loop, dropped, history>>

\* HandleDisconnect: RemoveWSConnection cancels the context.  The connection's
\* subscriptions stay in the map.
Disconnect(c) ==
    /\ session[c] = "closed" /\ request[c] = 0
    /\ c \in conns
    /\ conns' = conns \ {c}
    /\ cancelled' = cancelled \cup {c}
    /\ deadAt' = [deadAt EXCEPT ![c] = loop.at]
    /\ UNCHANGED <<session, request, subVars, loop, wireVars, notified, since, until>>

\* The connection's goroutine may take up another request: of the message it is
\* handling, or of a new one.
MayHandle(c) ==
    /\ c \in conns
    /\ \/ request[c] = 0 /\ session[c] = "open"
       \/ request[c] \in 1 .. MaxBatch - 1

Answer(c) == request' = [request EXCEPT ![c] = @ + 1]

\* SubscribeHandler: the subscription is in the map before the response is
\* even assembled.
Subscribe(c, s, t) ==
    /\ MayHandle(c) /\ MapIsFree
    /\ since[s] = Never /\ \A r \in 1 .. s - 1 : since[r] # Never
    /\ subs' = subs \cup {s}
    /\ conn' = [conn EXCEPT ![s] = c] /\ type' = [type EXCEPT ![s] = t]
    /\ since' = [since EXCEPT ![s] = loop.at]
    /\ Answer(c)
    /\ UNCHANGED <<connVars, loop, wireVars, notified, until, deadAt>>

\* UnsubscribeHandler: whichever connection the subscription belongs to.
Unsubscribe(c, s) ==
    /\ MayHandle(c) /\ MapIsFree
    /\ since[s] # Never
    /\ subs' = subs \ {s}
    /\ until' = IF s \in subs THEN [until EXCEPT ![s] = loop.at] ELSE until
    /\ Answer(c)
    /\ UNCHANGED <<connVars, conn, type, loop, wireVars, notified, since, deadAt>>

\* A request that is not valid, has no handler, or has bad parameters; an empty
\* batch is answered in the same way.
Refuse(c) ==
    /\ MayHandle(c)
    /\ Answer(c)
    /\ UNCHANGED <<connVars, subVars, loop, wireVars, history>>

\* The end of handleRequest: one message with all the responses.
Respond(c) ==
    /\ request[c] > 0
    /\ Write(c)
    /\ request' = [request EXCEPT ![c] = 0]
    /\ UNCHANGED <<connVars, subVars, loop, history>>

-----------------------------------------------------------------------------
(* sendEvent, called by the event loop. *)

\* The map is locked, and a goroutine started for every subscription of the type.
\* Once the loop has left with its context, no further send is begun.
SendEvent ==
    /\ loop.step = "ready" /\ loop.at < Len(Sends)
    /\ loop' = [step |-> "sending", at |-> loop.at + 1,
                todo |-> {s \in subs : type[s] = Sends[loop.at + 1]}, invalid |-> {}]
    /\ UNCHANGED <<connVars, request, subVars, wireVars, history>>

\* Deviation of WriteData: the context is not looked at.
WriteDataUnchecked(s) ==
    /\ loop' = [loop EXCEPT !.todo = @ \ {s}]
    /\ Write(conn[s])
    /\ notified' = IF Accepts(conn[s]) THEN [notified EXCEPT ![s] = Append(@, loop.at)] ELSE notified

\* subscription.WriteResponse and Conn.WriteData: an error if the context is
\* cancelled, and only then.
WriteData(s) ==
    IF conn[s] \in cancelled
    THEN /\ loop' = [loop EXCEPT !.todo = @ \ {s}, !.invalid = @ \cup {s}]
         /\ UNCHANGED <<wireVars, notified>>
    ELSE /\ loop' = [loop EXCEPT !.todo = @ \ {s}]
         /\ Write(conn[s])
         /\ notified' = IF Accepts(conn[s]) THEN [notified EXCEPT ![s] = Append(@, loop.at)] ELSE notified

\* Deviation of WriteNotification: a full buffer is waited for.
WriteNotificationBlocking(s) ==
    /\ s \in loop.todo
    /\ session[conn[s]] = "open" => Accepts(conn[s])
    /\ WriteData(s)
    /\ UNCHANGED <<connVars, request, subVars, since, until, deadAt>>

\* One goroutine of sendEvent.
WriteNotification(s) ==
    /\ s \in loop.todo
    /\ WriteData(s)
    /\ UNCHANGED <<connVars, request, subVars, since, until, deadAt>>

\* subscription.WriteResponse fails before it writes: the data cannot be encoded.
EncodeFails(s) ==
    /\ s \in loop.todo
    /\ loop' = [loop EXCEPT !.todo = @ \ {s}, !.invalid = @ \cup {s}]
    /\ UNCHANGED <<connVars, request, subVars, wireVars, history>>

\* Deviation of Sent: the goroutines are not waited for.
SentEarly ==
    /\ loop.step = "sending"
    /\ subs' = subs \ loop.invalid
    /\ until' = [s \in Ids |-> IF s \in loop.invalid THEN loop.at - 1 ELSE until[s]]
    /\ loop' = [loop EXCEPT !.step = "ready", !.invalid = {}]
    /\ UNCHANGED <<connVars, request, conn, type, wireVars, notified, since, deadAt>>

\* wg.Wait has returned: failed subscriptions are pruned, the map unlocked.
Sent ==
    /\ loop.step = "sending" /\ loop.todo = {}
    /\ subs' = subs \ loop.invalid
    /\ until' = [s \in Ids |-> IF s \in loop.invalid THEN loop.at - 1 ELSE until[s]]
    /\ loop' = [loop EXCEPT !.step = "ready", !.invalid = {}]
    /\ UNCHANGED <<connVars, request, conn, type, wireVars, notified, since, deadAt>>

-----------------------------------------------------------------------------

Connection(c) ==
    \/ Connect(c) \/ SessionCloses(c) \/ Deliver(c) \/ Disconnect(c)
    \/ \E s \in Ids : (\E t \in Asked : Subscribe(c, s, t)) \/ Unsubscribe(c, s)
    \/ Refuse(c) \/ Respond(c)

Next ==
    \/ \E c \in Conns : Connection(c)
    \/ SendEvent
    \/ \E s \in Ids : WriteNotification(s) \/ EncodeFails(s)
    \/ Sent

Spec == Init /\ [][Next]_vars

\* The goroutines of sendEvent run, and a request that is being handled is
\* answered.  Nothing is assumed of clients and sessions, and nothing of
\* encoding errors.
Fairness ==
    /\ WF_vars((\E s \in Ids : WriteNotification(s)) \/ Sent)
    /\ \A c \in Conns : WF_vars(Respond(c))

LiveSpec == Spec /\ Fairness

-----------------------------------------------------------------------------
(* Properties. *)

\* The types of the registry, the subscription map, the loop and the sessions.
TypeOK ==
    /\ conns \subseteq Conns /\ cancelled \subseteq Conns /\ dropped \subseteq Conns
    /\ session \in [Conns -> {"none", "open", "closed"}]
    /\ request \in [Conns -> 0 .. MaxBatch]
    /\ subs \subseteq Ids
    /\ conn \in [Ids -> Conns \cup {NoConn}] /\ type \in [Ids -> Types \cup {NoType}]
    /\ loop \in [step : {"ready", "sending"}, at : 0 .. Len(Sends), todo : SUBSET Ids, invalid : SUBSET Ids]
    /\ buffer \in [Conns -> 0 .. Buffer]
    /\ notified \in [Ids -> Seq(SendNo)]
    /\ since \in [Ids -> 0 .. Never] /\ until \in [Ids -> 0 .. Never]
    /\ deadAt \in [Conns -> 0 .. Never]

\* The sends of its type that were due to a subscription so far.
Due(s) ==
    {n \in SendNo : /\ Sends[n] = type[s]
                    /\ since[s] < n /\ n <= until[s] /\ n <= loop.at
                    /\ n = loop.at => s \notin loop.todo \cup loop.invalid}

\* While its connection is up and its buffer never overflowed, a subscriber gets
\* every event of its type from the moment it is in the map to the moment it
\* leaves it, once, in the order of the chain - and no event of another type.
SubscriberGetsAll ==
    \A s \in Ids : (since[s] # Never /\ session[conn[s]] = "open" /\ conn[s] \notin dropped) =>
        /\ ToSet(notified[s]) = Due(s)
        /\ \A i, j \in DOMAIN notified[s] : i < j => notified[s][i] < notified[s][j]

\* Nothing is written for a subscription that has left the map: an unsubscribe
\* that was answered is final, even if it came in the middle of a send.
NothingAfterUnsubscribe ==
    [][\A s \in Ids : (since[s] # Never /\ s \notin subs) => notified'[s] = notified[s]]_vars

\* A subscription whose connection is gone does not outlive the next event of
\* its type: no send of that type was begun and ended since the disconnect.
DeadSubscriptionsPruned ==
    loop.step = "ready" =>
        \A s \in subs : conn[s] \in cancelled =>
            \A n \in deadAt[conn[s]] + 1 .. loop.at : Sends[n] # type[s]

\* The event loop gets through every send whatever the clients do: one that
\* does not read cannot hold up the others, or the fetcher's events.
LoopNeverWaits == (loop.step = "sending") ~> (loop.step = "ready")

=============================================================================
