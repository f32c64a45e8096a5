------------------------- MODULE SubscriptionsProofs -------------------------
(***************************************************************************)
(* Proofs about the WebSocket notifications, for any number of             *)
(* connections, subscriptions and sends, and any capacity of the buffers.  *)
(***************************************************************************)
EXTENDS Subscriptions, SequenceFacts, TLAPS

\* Registered connections are up or about to be removed; a cancelled one is
\* closed for good.
ConnShape ==
    /\ \A c \in conns : session[c] # "none"
    /\ \A c \in cancelled : session[c] = "closed" /\ c \notin conns

\* A subscription before it is added, while it is in the map, and after.
SubShape ==
    \A s \in Ids :
        /\ since[s] = Never => s \notin subs /\ until[s] = Never /\ notified[s] = <<>>
        /\ since[s] # Never => /\ since[s] <= loop.at
                               /\ conn[s] \in Conns /\ session[conn[s]] # "none"
        /\ s \in subs => until[s] = Never
        /\ (since[s] # Never /\ s \notin subs) => until[s] <= loop.at

\* A send is about subscriptions of its type that were in the map when it began
\* and are still there.
SendShape ==
    /\ \A s \in loop.todo \cup loop.invalid :
           s \in subs /\ type[s] = Sends[loop.at] /\ since[s] < loop.at
    /\ loop.todo \cap loop.invalid = {}
    /\ loop.step # "sending" => loop.todo = {} /\ loop.invalid = {}
    /\ loop.step = "sending" => loop.at >= 1

\* The only send of its type a cancelled subscription can have lived through is
\* the one in progress, and then it is about to be found out.
DeadShape ==
    \A s \in subs : conn[s] \in cancelled =>
        \A n \in deadAt[conn[s]] + 1 .. loop.at :
            Sends[n] = type[s] => n = loop.at /\ s \in loop.todo \cup loop.invalid

IInv == TypeOK /\ ConnShape /\ SubShape /\ SendShape

-----------------------------------------------------------------------------
(* Facts about the constants and the operators. *)

LEMMA SendFacts ==
    /\ Len(Sends) \in Nat /\ Never \in Nat /\ Never = Len(Sends) + 1
    /\ SendNo = 1 .. Len(Sends)
  BY SubscriptionsAssumption DEF SendNo, Never

LEMMA BoundFacts ==
    /\ Buffer \in Nat \ {0} /\ MaxBatch \in Nat \ {0} /\ MaxConns \in Nat /\ MaxSubs \in Nat
    /\ NoConn \notin Conns /\ NoType \notin Types /\ Asked \subseteq Types
  BY SubscriptionsAssumption

\* A write to a connection leaves the sessions' buffers within their capacity.
LEMMA WriteTypes ==
    ASSUME TypeOK, NEW c \in Conns, Write(c)
    PROVE  buffer' \in [Conns -> 0 .. Buffer] /\ dropped' \subseteq Conns
  <1>1. dropped' \subseteq Conns
    BY DEF Write, TypeOK
  <1>2. CASE Accepts(c)
    <2>1. buffer[c] + 1 \in 0 .. Buffer
      BY <1>2, BoundFacts DEF Accepts, TypeOK
    <2> QED
      BY <1>1, <1>2, <2>1 DEF Write, TypeOK
  <1>3. CASE ~Accepts(c)
    BY <1>1, <1>3 DEF Write, TypeOK
  <1> QED
    BY <1>2, <1>3

-----------------------------------------------------------------------------
(* The inductive invariant. *)

LEMMA InitIInv == Init => IInv
  <1> SUFFICES ASSUME Init PROVE IInv
    OBVIOUS
  <1>1. 0 \in 0 .. Len(Sends) /\ Never \in 0 .. Never /\ 0 \in 0 .. MaxBatch /\ 0 \in 0 .. Buffer
    BY SendFacts, BoundFacts
  <1>2. TypeOK
    <2>1. conns \subseteq Conns /\ cancelled \subseteq Conns /\ dropped \subseteq Conns /\ subs \subseteq Ids
      BY DEF Init
    <2>2. session \in [Conns -> {"none", "open", "closed"}] /\ request \in [Conns -> 0 .. MaxBatch]
      BY <1>1 DEF Init
    <2>3. conn \in [Ids -> Conns \cup {NoConn}] /\ type \in [Ids -> Types \cup {NoType}]
      BY DEF Init
    <2>4. loop \in [step : {"ready", "sending"}, at : 0 .. Len(Sends), todo : SUBSET Ids, invalid : SUBSET Ids]
      BY <1>1 DEF Init
    <2>5. buffer \in [Conns -> 0 .. Buffer] /\ deadAt \in [Conns -> 0 .. Never]
      BY <1>1 DEF Init
    <2>6. notified \in [Ids -> Seq(SendNo)]
      BY DEF Init
    <2>7. since \in [Ids -> 0 .. Never] /\ until \in [Ids -> 0 .. Never]
      BY <1>1 DEF Init
    <2> QED
      BY <2>1, <2>2, <2>3, <2>4, <2>5, <2>6, <2>7 DEF TypeOK
  <1>3. ConnShape
    BY DEF ConnShape, Init
  <1>4. SubShape
    BY DEF SubShape, Init
  <1>5. SendShape
    BY DEF SendShape, Init
  <1> QED
    BY <1>2, <1>3, <1>4, <1>5 DEF IInv

LEMMA TypeStep == ASSUME IInv, [Next]_vars PROVE TypeOK'
  <1> USE DEF IInv, TypeOK, connVars, subVars, wireVars, history
  <1>1. ASSUME NEW c \in Conns, Connect(c) PROVE TypeOK'
    BY <1>1 DEF Connect
  <1>2. ASSUME NEW c \in Conns, SessionCloses(c) PROVE TypeOK'
    <2>1. 0 \in 0 .. Buffer
      BY BoundFacts
    <2> QED
      BY <1>2, <2>1 DEF SessionCloses
  <1>3. ASSUME NEW c \in Conns, Deliver(c) PROVE TypeOK'
    <2>1. buffer[c] - 1 \in 0 .. Buffer
      BY <1>3, BoundFacts DEF Deliver
    <2> QED
      BY <1>3, <2>1 DEF Deliver
  <1>4. ASSUME NEW c \in Conns, Disconnect(c) PROVE TypeOK'
    <2>1. loop.at \in 0 .. Never
      BY SendFacts
    <2> QED
      BY <1>4, <2>1 DEF Disconnect
  <1>5. ASSUME NEW c \in Conns, MayHandle(c), Answer(c) PROVE request' \in [Conns -> 0 .. MaxBatch]
    <2>1. request[c] + 1 \in 0 .. MaxBatch
      BY <1>5, BoundFacts DEF MayHandle
    <2> QED
      BY <1>5, <2>1 DEF Answer
  <1>6. ASSUME NEW c \in Conns, NEW s \in Ids, NEW t \in Asked, Subscribe(c, s, t) PROVE TypeOK'
    <2>1. loop.at \in 0 .. Never /\ t \in Types
      BY SendFacts, BoundFacts
    <2>2. request' \in [Conns -> 0 .. MaxBatch]
      BY <1>5, <1>6 DEF Subscribe
    <2>3. /\ since' \in [Ids -> 0 .. Never] /\ subs' \subseteq Ids
          /\ conn' \in [Ids -> Conns \cup {NoConn}] /\ type' \in [Ids -> Types \cup {NoType}]
      BY <1>6, <2>1 DEF Subscribe
    <2> QED
      BY <1>6, <2>2, <2>3 DEF Subscribe
  <1>7. ASSUME NEW c \in Conns, NEW s \in Ids, Unsubscribe(c, s) PROVE TypeOK'
    <2>1. loop.at \in 0 .. Never
      BY SendFacts
    <2>2. request' \in [Conns -> 0 .. MaxBatch]
      BY <1>5, <1>7 DEF Unsubscribe
    <2>3. until' \in [Ids -> 0 .. Never] /\ subs' \subseteq Ids
      BY <1>7, <2>1 DEF Unsubscribe
    <2> QED
      BY <1>7, <2>2, <2>3 DEF Unsubscribe
  <1>8. ASSUME NEW c \in Conns, Refuse(c) PROVE TypeOK'
    <2>1. request' \in [Conns -> 0 .. MaxBatch]
      BY <1>5, <1>8 DEF Refuse
    <2> QED
      BY <1>8, <2>1 DEF Refuse
  <1>9. ASSUME NEW c \in Conns, Respond(c) PROVE TypeOK'
    <2>1. buffer' \in [Conns -> 0 .. Buffer] /\ dropped' \subseteq Conns
      BY <1>9, WriteTypes DEF Respond
    <2>2. 0 \in 0 .. MaxBatch
      BY BoundFacts
    <2>3. request' \in [Conns -> 0 .. MaxBatch]
      BY <1>9, <2>2 DEF Respond
    <2> QED
      BY <1>9, <2>1, <2>3 DEF Respond
  <1>10. CASE SendEvent
    <2>1. loop.at + 1 \in 0 .. Len(Sends)
      BY <1>10, SendFacts DEF SendEvent
    <2> QED
      BY <1>10, <2>1 DEF SendEvent
  <1>11. ASSUME NEW s \in Ids, WriteNotification(s) PROVE TypeOK'
    <2>1. s \in loop.todo /\ s \in subs /\ WriteData(s)
      BY <1>11 DEF WriteNotification, SendShape
    <2>2. conn[s] \in Conns
      BY <2>1 DEF SubShape
    <2>3. loop.at \in SendNo
      <3>1. loop.at >= 1
        BY <2>1 DEF SendShape
      <3> QED
        BY <3>1, SendFacts
    <2>4. CASE conn[s] \in cancelled
      <3>1. /\ loop' = [loop EXCEPT !.todo = loop.todo \ {s}, !.invalid = loop.invalid \cup {s}]
            /\ UNCHANGED <<buffer, dropped, notified>>
        BY <2>1, <2>4 DEF WriteData
      <3> QED
        BY <1>11, <3>1 DEF WriteNotification
    <2>5. CASE conn[s] \notin cancelled
      <3>1. buffer' \in [Conns -> 0 .. Buffer] /\ dropped' \subseteq Conns
        BY <2>1, <2>2, <2>5, WriteTypes DEF WriteData
      <3>2. notified[s] \in Seq(SendNo)
        OBVIOUS
      <3>3. Append(notified[s], loop.at) \in Seq(SendNo)
        BY <2>3, <3>2
      <3>4. notified' = IF Accepts(conn[s]) THEN [notified EXCEPT ![s] = Append(@, loop.at)] ELSE notified
        BY <2>1, <2>5 DEF WriteData
      <3>5. notified' \in [Ids -> Seq(SendNo)]
        BY <3>3, <3>4
      <3>6. loop' = [loop EXCEPT !.todo = loop.todo \ {s}]
        BY <2>1, <2>5 DEF WriteData
      <3> QED
        BY <1>11, <3>1, <3>5, <3>6 DEF WriteNotification
    <2> QED
      BY <2>4, <2>5
  <1>12. ASSUME NEW s \in Ids, EncodeFails(s) PROVE TypeOK'
    BY <1>12 DEF EncodeFails
  <1>13. CASE Sent
    <2>1. loop.at - 1 \in 0 .. Never
      BY <1>13, SendFacts DEF Sent, SendShape
    <2> QED
      BY <1>13, <2>1 DEF Sent
  <1>14. CASE UNCHANGED vars
    BY <1>14 DEF vars
  <1> HIDE DEF IInv, TypeOK
  <1> QED
    BY <1>1, <1>2, <1>3, <1>4, <1>6, <1>7, <1>8, <1>9, <1>10, <1>11, <1>12, <1>13, <1>14
       DEF Next, Connection

LEMMA ConnStep == ASSUME IInv, [Next]_vars PROVE ConnShape'
  <1> USE DEF IInv, TypeOK, ConnShape, connVars, subVars, wireVars, history
  <1>1. ASSUME NEW c \in Conns, Connect(c) PROVE ConnShape'
    BY <1>1 DEF Connect
  <1>2. ASSUME NEW c \in Conns, SessionCloses(c) PROVE ConnShape'
    BY <1>2 DEF SessionCloses
  <1>3. ASSUME NEW c \in Conns, Disconnect(c) PROVE ConnShape'
    BY <1>3 DEF Disconnect
  <1>4. ASSUME UNCHANGED connVars PROVE ConnShape'
    BY <1>4
  <1> HIDE DEF IInv, TypeOK, ConnShape
  <1> QED
    BY <1>1, <1>2, <1>3, <1>4
       DEF Next, Connection, Deliver, Subscribe, Unsubscribe, Refuse, Respond, SendEvent,
           WriteNotification, EncodeFails, Sent, vars

\* Sessions are opened once, and never forgotten.
LEMMA SessionStep ==
    ASSUME IInv, [Next]_vars, NEW c \in Conns
    PROVE  /\ session[c] # "none" => session'[c] # "none"
           /\ (session[c] # "none" /\ session'[c] = "open") => session[c] = "open"
  <1> USE DEF IInv, TypeOK
  <1>1. ASSUME NEW d \in Conns, Connect(d) \/ SessionCloses(d)
        PROVE  /\ session[c] # "none" => session'[c] # "none"
               /\ (session[c] # "none" /\ session'[c] = "open") => session[c] = "open"
    BY <1>1 DEF Connect, SessionCloses
  <1> QED
    BY <1>1 DEF Next, Connection, Deliver, Disconnect, Subscribe, Unsubscribe, Refuse, Respond, SendEvent,
           WriteNotification, EncodeFails, Sent, vars, connVars

LEMMA SubStep == ASSUME IInv, [Next]_vars PROVE SubShape'
  <1> SUFFICES ASSUME NEW r \in Ids
               PROVE  /\ since'[r] = Never => r \notin subs' /\ until'[r] = Never /\ notified'[r] = <<>>
                      /\ since'[r] # Never => /\ since'[r] <= loop'.at
                                              /\ conn'[r] \in Conns /\ session'[conn'[r]] # "none"
                      /\ r \in subs' => until'[r] = Never
                      /\ (since'[r] # Never /\ r \notin subs') => until'[r] <= loop'.at
    BY DEF SubShape, Never
  <1> DEFINE Goal == /\ since'[r] = Never => r \notin subs' /\ until'[r] = Never /\ notified'[r] = <<>>
                     /\ since'[r] # Never => /\ since'[r] <= loop'.at
                                             /\ conn'[r] \in Conns /\ session'[conn'[r]] # "none"
                     /\ r \in subs' => until'[r] = Never
                     /\ (since'[r] # Never /\ r \notin subs') => until'[r] <= loop'.at
  <1>0. /\ since[r] \in Nat /\ until[r] \in Nat /\ loop.at \in Nat /\ loop.at < Never
        /\ \A s \in Ids : since[s] # Never => conn[s] \in Conns /\ session'[conn[s]] # "none"
    <2>1. since[r] \in Nat /\ until[r] \in Nat /\ loop.at \in Nat /\ loop.at < Never
      BY SendFacts DEF IInv, TypeOK
    <2> QED
      BY <2>1, SessionStep DEF IInv, SubShape
  <1> USE SendFacts DEF IInv, SubShape, connVars, subVars, wireVars, history
  <1>1. ASSUME UNCHANGED <<subs, conn, notified, since, until>>, loop'.at \in {loop.at, loop.at + 1} PROVE Goal
    BY <1>0, <1>1
  <1>2. ASSUME NEW c \in Conns, NEW s \in Ids, NEW t \in Asked, Subscribe(c, s, t) PROVE Goal
    <2>1. session'[c] # "none"
      BY <1>2 DEF Subscribe, MayHandle, ConnShape
    <2>2. CASE r = s
      BY <1>0, <1>2, <2>1, <2>2 DEF Subscribe, TypeOK
    <2>3. CASE r # s
      <3>1. since'[r] = since[r] /\ conn'[r] = conn[r] /\ (r \in subs' <=> r \in subs)
        BY <1>2, <2>3 DEF Subscribe, TypeOK
      <3>2. UNCHANGED <<loop, until, notified>>
        BY <1>2 DEF Subscribe
      <3> QED
        BY <1>0, <3>1, <3>2
    <2> QED
      BY <2>2, <2>3
  <1>3. ASSUME NEW c \in Conns, NEW s \in Ids, Unsubscribe(c, s) PROVE Goal
    <2>1. UNCHANGED <<loop, since, conn, notified>> /\ subs' = subs \ {s} /\ since[s] # Never
      BY <1>3 DEF Unsubscribe
    <2>2. CASE r = s
      <3>1. until'[r] = IF r \in subs THEN loop.at ELSE until[r]
        BY <1>3, <2>2 DEF Unsubscribe, TypeOK
      <3> QED
        BY <1>0, <2>1, <2>2, <3>1
    <2>3. CASE r # s
      <3>1. until'[r] = until[r]
        BY <1>3, <2>3 DEF Unsubscribe, TypeOK
      <3> QED
        BY <1>0, <2>1, <2>3, <3>1
    <2> QED
      BY <2>2, <2>3
  <1>4. CASE SendEvent
    BY <1>1, <1>4 DEF SendEvent
  <1>5. ASSUME NEW s \in Ids, WriteNotification(s) PROVE Goal
    <2>1. s \in subs /\ since[s] # Never
      BY <1>5 DEF WriteNotification, SendShape
    <2>2. /\ UNCHANGED <<subs, conn, since, until>> /\ loop'.at = loop.at
          /\ r # s => notified'[r] = notified[r]
      BY <1>5 DEF WriteNotification, WriteData, TypeOK
    <2> QED
      BY <1>0, <2>1, <2>2
  <1>6. ASSUME NEW s \in Ids, EncodeFails(s) PROVE Goal
    <2>1. loop'.at = loop.at
      BY <1>6 DEF EncodeFails, TypeOK
    <2> QED
      BY <1>1, <1>6, <2>1 DEF EncodeFails
  <1>7. CASE Sent
    <2>1. /\ UNCHANGED <<conn, since, notified>> /\ loop'.at = loop.at /\ subs' = subs \ loop.invalid
          /\ until'[r] = IF r \in loop.invalid THEN loop.at - 1 ELSE until[r]
      BY <1>7 DEF Sent, TypeOK
    <2>2. r \in loop.invalid => r \in subs /\ since[r] # Never
      BY DEF SendShape
    <2> QED
      BY <1>0, <2>1, <2>2
  <1>8. CASE \/ \E c \in Conns : Connect(c) \/ SessionCloses(c) \/ Deliver(c) \/ Disconnect(c) \/ Refuse(c) \/ Respond(c)
             \/ UNCHANGED vars
    <2>1. UNCHANGED <<subs, conn, notified, since, until, loop>>
      BY <1>8 DEF Connect, SessionCloses, Deliver, Disconnect, Refuse, Respond, vars
    <2> QED
      BY <1>1, <2>1
  <1> HIDE DEF IInv, SubShape
  <1> QED
    BY <1>2, <1>3, <1>4, <1>5, <1>6, <1>7, <1>8 DEF Next, Connection

LEMMA SendStep == ASSUME IInv, [Next]_vars PROVE SendShape'
  <1>0. /\ loop.at \in Nat /\ \A s \in Ids : since[s] \in Nat
        /\ \A s \in subs : s \in Ids /\ since[s] <= loop.at
    <2>1. loop.at \in Nat /\ (\A s \in Ids : since[s] \in Nat) /\ subs \subseteq Ids
      BY SendFacts DEF IInv, TypeOK
    <2> QED
      BY <2>1 DEF IInv, SubShape
  <1> USE DEF IInv, SendShape, connVars, subVars, wireVars, history
  <1>1. ASSUME UNCHANGED <<subs, type, since, loop>> PROVE SendShape'
    BY <1>1
  <1>2. ASSUME NEW c \in Conns, NEW s \in Ids, NEW t \in Asked, Subscribe(c, s, t) PROVE SendShape'
    <2>1. loop' = loop /\ loop.step # "sending"
      BY <1>2 DEF Subscribe, MapIsFree
    <2> QED
      BY <2>1
  <1>3. ASSUME NEW c \in Conns, NEW s \in Ids, Unsubscribe(c, s) PROVE SendShape'
    <2>1. loop' = loop /\ loop.step # "sending"
      BY <1>3 DEF Unsubscribe, MapIsFree
    <2> QED
      BY <2>1
  <1>4. CASE SendEvent
    <2>1. /\ loop'.step = "sending" /\ loop'.at = loop.at + 1 /\ loop'.invalid = {}
          /\ loop'.todo = {s \in subs : type[s] = Sends[loop.at + 1]}
          /\ UNCHANGED <<subs, type, since>>
      BY <1>4 DEF SendEvent
    <2> QED
      BY <1>0, <2>1
  <1>5. ASSUME NEW s \in Ids, s \in loop.todo, UNCHANGED <<subs, type, since>>,
               loop'.at = loop.at, loop'.step = loop.step,
               loop'.todo = loop.todo \ {s}, loop'.invalid \in {loop.invalid, loop.invalid \cup {s}}
        PROVE  SendShape'
    BY <1>5
  <1>6. ASSUME NEW s \in Ids, WriteNotification(s) PROVE SendShape'
    <2>1. s \in loop.todo /\ UNCHANGED <<subs, type, since>> /\ WriteData(s)
      BY <1>6 DEF WriteNotification
    <2>2. /\ loop'.at = loop.at /\ loop'.step = loop.step
          /\ loop'.todo = loop.todo \ {s} /\ loop'.invalid \in {loop.invalid, loop.invalid \cup {s}}
      BY <2>1 DEF WriteData, TypeOK
    <2> QED
      BY <1>5, <2>1, <2>2
  <1>7. ASSUME NEW s \in Ids, EncodeFails(s) PROVE SendShape'
    BY <1>5, <1>7 DEF EncodeFails, TypeOK
  <1>8. CASE Sent
    BY <1>8 DEF Sent, TypeOK
  <1>9. CASE \/ \E c \in Conns : Connect(c) \/ SessionCloses(c) \/ Deliver(c) \/ Disconnect(c) \/ Refuse(c) \/ Respond(c)
             \/ UNCHANGED vars
    <2>1. UNCHANGED <<subs, type, since, loop>>
      BY <1>9 DEF Connect, SessionCloses, Deliver, Disconnect, Refuse, Respond, vars
    <2> QED
      BY <1>1, <2>1
  <1> HIDE DEF IInv, SendShape
  <1> QED
    BY <1>2, <1>3, <1>4, <1>6, <1>7, <1>8, <1>9 DEF Next, Connection

LEMMA IInvStep == IInv /\ [Next]_vars => IInv'
  BY TypeStep, ConnStep, SubStep, SendStep DEF IInv

\* Type correctness of the registry, the map, the loop and the sessions; among
\* others, no buffer grows beyond its capacity.
THEOREM TypeCorrect == Spec => []TypeOK
  <1>1. IInv => TypeOK
    BY Zenon DEF IInv
  <1> QED
    BY InitIInv, IInvStep, <1>1, PTL DEF Spec

-----------------------------------------------------------------------------
(* What a subscriber gets. *)

\* The part of SubscriberGetsAll about one subscription.
GetsAll(s) ==
    (since[s] # Never /\ session[conn[s]] = "open" /\ conn[s] \notin dropped) =>
        /\ ToSet(notified[s]) = Due(s)
        /\ \A i, j \in DOMAIN notified[s] : i < j => notified[s][i] < notified[s][j]

\* A connection is only taken off the list of those that lost a message when its
\* session closes.
LEMMA DroppedStep ==
    ASSUME IInv, [Next]_vars, NEW c \in Conns, session'[c] = "open", session[c] = "open"
    PROVE  c \in dropped => c \in dropped'
  <1> USE DEF IInv, TypeOK, wireVars
  <1>1. ASSUME NEW d \in Conns, SessionCloses(d) PROVE c \in dropped => c \in dropped'
    BY <1>1 DEF SessionCloses
  <1>2. ASSUME NEW d, Write(d) PROVE c \in dropped => c \in dropped'
    BY <1>2 DEF Write
  <1> HIDE DEF IInv, TypeOK
  <1> QED
    BY <1>1, <1>2 DEF Next, Connection, Connect, Deliver, Disconnect, Subscribe, Unsubscribe, Refuse, Respond,
           SendEvent, WriteNotification, WriteData, EncodeFails, Sent, vars

\* A step that changes neither what was written for a subscription nor what was
\* due to it.
LEMMA SameGets ==
    ASSUME IInv, [Next]_vars, NEW s \in Ids, GetsAll(s),
           since'[s] = since[s], conn'[s] = conn[s], notified'[s] = notified[s],
           since[s] # Never => Due(s)' = Due(s)
    PROVE  GetsAll(s)'
  <1> SUFFICES ASSUME since[s] # Never, session'[conn[s]] = "open", conn[s] \notin dropped'
               PROVE  /\ ToSet(notified[s]) = Due(s)'
                      /\ \A i, j \in DOMAIN notified[s] : i < j => notified[s][i] < notified[s][j]
    BY DEF GetsAll, Never
  <1>1. conn[s] \in Conns /\ session[conn[s]] # "none"
    BY DEF IInv, SubShape
  <1>2. session[conn[s]] = "open"
    BY <1>1, SessionStep
  <1>3. conn[s] \notin dropped
    BY <1>1, <1>2, DroppedStep
  <1> QED
    BY <1>2, <1>3 DEF GetsAll

\* Only the histories, the type and the loop decide what was due.
LEMMA SameDue ==
    ASSUME NEW s, since'[s] = since[s], until'[s] = until[s], type'[s] = type[s], loop'.at = loop.at,
           s \in loop'.todo \cup loop'.invalid <=> s \in loop.todo \cup loop.invalid
    PROVE  Due(s)' = Due(s)
  BY DEF Due

LEMMA GetsStep == ASSUME IInv, SubscriberGetsAll, [Next]_vars PROVE SubscriberGetsAll'
  <1> SUFFICES ASSUME NEW r \in Ids PROVE GetsAll(r)'
    BY DEF SubscriberGetsAll, GetsAll
  <1>0. /\ GetsAll(r) /\ since[r] \in Nat /\ until[r] \in Nat /\ loop.at \in Nat /\ loop.at < Never
    BY SendFacts DEF SubscriberGetsAll, GetsAll, IInv, TypeOK
  <1> USE DEF connVars, subVars, wireVars, history
  <1>1. ASSUME UNCHANGED <<type, conn, notified, since, until, loop>> PROVE GetsAll(r)'
    BY <1>0, <1>1, SameDue, SameGets
  <1>2. ASSUME NEW c \in Conns, NEW s \in Ids, NEW t \in Asked, Subscribe(c, s, t) PROVE GetsAll(r)'
    <2>1. UNCHANGED <<loop, until, notified>> /\ since[s] = Never
      BY <1>2 DEF Subscribe
    <2>2. CASE r = s
      <3>1. notified'[r] = <<>> /\ since'[r] = loop.at
        BY <1>2, <2>1, <2>2 DEF Subscribe, IInv, SubShape, TypeOK
      <3>2. Due(r)' = {}
        BY <1>0, <2>1, <3>1, SendFacts DEF Due
      <3>3. ToSet(notified'[r]) = {} /\ DOMAIN notified'[r] = {}
        BY <3>1 DEF ToSet
      <3> QED
        BY <3>2, <3>3 DEF GetsAll
    <2>3. CASE r # s
      <3>1. since'[r] = since[r] /\ conn'[r] = conn[r] /\ type'[r] = type[r]
        BY <1>2, <2>3 DEF Subscribe, IInv, TypeOK
      <3> QED
        BY <1>0, <2>1, <3>1, SameDue, SameGets
    <2> QED
      BY <2>2, <2>3
  <1>3. ASSUME NEW c \in Conns, NEW s \in Ids, Unsubscribe(c, s) PROVE GetsAll(r)'
    <2>1. /\ UNCHANGED <<loop, since, conn, type, notified>>
          /\ until'[r] = until[r] \/ (r \in subs /\ until'[r] = loop.at)
      BY <1>3 DEF Unsubscribe, IInv, TypeOK
    <2>2. Due(r)' = Due(r)
      <3>1. CASE until'[r] = until[r]
        BY <2>1, <3>1, SameDue
      <3>2. CASE r \in subs /\ until'[r] = loop.at
        <4>1. until[r] = Never
          BY <3>2 DEF IInv, SubShape
        <4> QED
          BY <1>0, <2>1, <3>2, <4>1, SendFacts DEF Due
      <3> QED
        BY <2>1, <3>1, <3>2
    <2> QED
      BY <1>0, <2>1, <2>2, SameGets
  <1>4. CASE SendEvent
    <2>1. /\ loop'.at = loop.at + 1 /\ loop'.invalid = {} /\ loop.at < Len(Sends)
          /\ loop'.todo = {s \in subs : type[s] = Sends[loop.at + 1]}
          /\ UNCHANGED <<subs, type, conn, since, until, notified>>
      BY <1>4 DEF SendEvent
    <2>2. loop.todo = {} /\ loop.invalid = {}
      BY <1>4 DEF SendEvent, IInv, SendShape
    <2>3. ASSUME since[r] # Never, NEW n \in SendNo PROVE n \in Due(r)' <=> n \in Due(r)
      <3>1. n \in Nat
        BY SendFacts
      <3>2. CASE n = loop.at + 1
        <4>1. n \notin Due(r)
          BY <1>0, <3>2 DEF Due
        <4>2. CASE r \in subs
          BY <2>1, <3>2, <4>1, <4>2 DEF Due
        <4>3. CASE r \notin subs
          <5>1. until[r] <= loop.at
            BY <2>3, <4>3 DEF IInv, SubShape
          <5> QED
            BY <1>0, <2>1, <3>2, <4>1, <5>1 DEF Due
        <4> QED
          BY <4>2, <4>3
      <3>3. CASE n # loop.at + 1
        BY <1>0, <2>1, <2>2, <3>1, <3>3 DEF Due
      <3> QED
        BY <3>2, <3>3
    <2>4. since[r] # Never => Due(r)' = Due(r)
      BY <2>3 DEF Due
    <2> QED
      BY <1>0, <2>1, <2>4, SameGets
  <1>5. ASSUME NEW s \in Ids, WriteNotification(s) PROVE GetsAll(r)'
    <2>1. /\ s \in loop.todo /\ s \in subs /\ s \notin loop.invalid /\ type[s] = Sends[loop.at]
          /\ since[s] < loop.at /\ since[s] # Never /\ until[s] = Never /\ loop.at \in SendNo
      <3>1. s \in loop.todo
        BY <1>5 DEF WriteNotification
      <3>2. s \in subs /\ s \notin loop.invalid /\ type[s] = Sends[loop.at] /\ since[s] < loop.at
        BY <3>1 DEF IInv, SendShape
      <3>3. loop.at >= 1
        BY <3>1 DEF IInv, SendShape
      <3>4. loop.at \in SendNo
        BY <1>0, <3>3, SendFacts DEF IInv, TypeOK
      <3> QED
        BY <3>1, <3>2, <3>4 DEF IInv, SubShape
    <2>2. UNCHANGED <<conn, type, since, until>> /\ WriteData(s)
      BY <1>5 DEF WriteNotification
    <2>3. loop'.at = loop.at /\ loop'.todo = loop.todo \ {s}
      BY <2>2 DEF WriteData, IInv, TypeOK
    <2>4. CASE conn[s] \in cancelled
      <3>1. loop'.invalid = loop.invalid \cup {s} /\ notified' = notified
        BY <2>2, <2>4 DEF WriteData, IInv, TypeOK
      <3>2. Due(r)' = Due(r)
        BY <2>1, <2>2, <2>3, <3>1, SameDue
      <3> QED
        BY <1>0, <2>2, <3>1, <3>2, SameGets
    <2>5. CASE conn[s] \notin cancelled /\ r # s
      <3>1. loop'.invalid = loop.invalid /\ notified'[r] = notified[r]
        BY <2>2, <2>5 DEF WriteData, IInv, TypeOK
      <3>2. Due(r)' = Due(r)
        BY <2>2, <2>3, <2>5, <3>1, SameDue
      <3> QED
        BY <1>0, <2>2, <3>1, <3>2, SameGets
    <2>6. CASE conn[s] \notin cancelled /\ r = s
      <3>1. loop'.invalid = loop.invalid /\ Write(conn[r])
        BY <2>2, <2>6 DEF WriteData, IInv, TypeOK
      <3> SUFFICES ASSUME session'[conn[r]] = "open", conn[r] \notin dropped'
                   PROVE  /\ ToSet(notified'[r]) = Due(r)'
                          /\ \A i, j \in DOMAIN notified'[r] : i < j => notified'[r][i] < notified'[r][j]
        BY <2>2 DEF GetsAll
      <3>2. session[conn[r]] = "open"
        BY <1>5 DEF WriteNotification
      <3>3. Accepts(conn[r]) /\ conn[r] \notin dropped
        BY <3>1, <3>2 DEF Write
      <3>4. notified'[r] = Append(notified[r], loop.at)
        BY <2>2, <2>6, <3>3 DEF WriteData, IInv, TypeOK
      <3>5. /\ ToSet(notified[r]) = Due(r)
            /\ \A i, j \in DOMAIN notified[r] : i < j => notified[r][i] < notified[r][j]
        BY <1>0, <2>1, <2>6, <3>2, <3>3 DEF GetsAll
      <3>6. notified[r] \in Seq(SendNo)
        BY DEF IInv, TypeOK
      <3>7. Due(r)' = Due(r) \cup {loop.at}
        <4>1. \A n \in SendNo : n # loop.at => (n \in Due(r)' <=> n \in Due(r))
          BY <2>2, <2>3, <3>1 DEF Due
        <4>2. loop.at \in Due(r)'
          BY <1>0, <2>1, <2>2, <2>3, <2>6, <3>1 DEF Due
        <4>3. Due(r) \subseteq SendNo /\ Due(r)' \subseteq SendNo
          BY DEF Due
        <4> QED
          BY <2>1, <4>1, <4>2, <4>3
      <3>8. ToSet(notified'[r]) = Due(r)'
        <4>1. Range(notified'[r]) = Range(notified[r]) \cup {loop.at}
          BY <2>1, <3>4, <3>6, RangeOfAppend
        <4>2. ToSet(notified'[r]) = Range(notified'[r]) /\ ToSet(notified[r]) = Range(notified[r])
          BY DEF ToSet, Range
        <4> QED
          BY <3>5, <3>7, <4>1, <4>2
      <3>9. \A i \in DOMAIN notified[r] : notified[r][i] < loop.at
        <4> SUFFICES ASSUME NEW i \in DOMAIN notified[r] PROVE notified[r][i] < loop.at
          OBVIOUS
        <4>1. notified[r][i] \in Due(r)
          BY <3>5 DEF ToSet
        <4> QED
          BY <1>0, <2>1, <2>6, <4>1, SendFacts DEF Due
      <3>10. Increasing(notified'[r])
        <4>1. Increasing(notified[r])
          BY <3>5 DEF Increasing
        <4> QED
          BY <2>1, <3>4, <3>6, <3>9, <4>1, IncreasingAppend
      <3> QED
        BY <3>8, <3>10 DEF Increasing
    <2> QED
      BY <2>4, <2>5, <2>6
  <1>6. ASSUME NEW s \in Ids, EncodeFails(s) PROVE GetsAll(r)'
    <2>1. /\ loop'.at = loop.at /\ loop'.todo = loop.todo \ {s} /\ loop'.invalid = loop.invalid \cup {s}
          /\ s \in loop.todo /\ UNCHANGED <<conn, type, since, until, notified>>
      BY <1>6 DEF EncodeFails, IInv, TypeOK
    <2>2. Due(r)' = Due(r)
      BY <2>1, SameDue
    <2> QED
      BY <1>0, <2>1, <2>2, SameGets
  <1>7. CASE Sent
    <2>1. /\ UNCHANGED <<conn, type, since, notified>> /\ loop'.at = loop.at
          /\ loop.todo = {} /\ loop'.todo = {} /\ loop'.invalid = {}
          /\ until'[r] = IF r \in loop.invalid THEN loop.at - 1 ELSE until[r]
      BY <1>7 DEF Sent, IInv, TypeOK
    <2>2. Due(r)' = Due(r)
      <3>1. CASE r \in loop.invalid
        <4>1. until[r] = Never
          BY <3>1 DEF IInv, SendShape, SubShape
        <4> QED
          BY <1>0, <2>1, <3>1, <4>1, SendFacts DEF Due
      <3>2. CASE r \notin loop.invalid
        BY <2>1, <3>2, SameDue
      <3> QED
        BY <3>1, <3>2
    <2> QED
      BY <1>0, <2>1, <2>2, SameGets
  <1>8. CASE \/ \E c \in Conns : Connect(c) \/ SessionCloses(c) \/ Deliver(c) \/ Disconnect(c) \/ Refuse(c) \/ Respond(c)
             \/ UNCHANGED vars
    <2>1. UNCHANGED <<type, conn, notified, since, until, loop>>
      BY <1>8 DEF Connect, SessionCloses, Deliver, Disconnect, Refuse, Respond, vars
    <2> QED
      BY <1>1, <2>1
  <1> QED
    BY <1>2, <1>3, <1>4, <1>5, <1>6, <1>7, <1>8 DEF Next, Connection

\* A subscriber whose session is up and never overflowed has been written every
\* event of its type from its Subscribe to its removal, once and in order, even
\* though the notifications of a send are written by goroutines in any order
\* and other connections come and go among them.
THEOREM SubscribersGetAll == Spec => []SubscriberGetsAll
  <1>1. IInv /\ SubscriberGetsAll /\ [Next]_vars => IInv' /\ SubscriberGetsAll'
    BY IInvStep, GetsStep
  <1>2. Init => SubscriberGetsAll
    BY DEF Init, SubscriberGetsAll
  <1> QED
    BY InitIInv, <1>1, <1>2, PTL DEF Spec

\* An unsubscribe that was answered is final.
THEOREM UnsubscribeIsFinal == Spec => NothingAfterUnsubscribe
  <1> DEFINE Silent == \A s \in Ids : (since[s] # Never /\ s \notin subs) => notified'[s] = notified[s]
  <1>1. IInv /\ [Next]_vars => [Silent]_vars
    <2> SUFFICES ASSUME IInv, Next, NEW s \in Ids, s \notin subs
                 PROVE  notified'[s] = notified[s]
      OBVIOUS
    <2>1. ASSUME NEW t \in Ids, WriteNotification(t) PROVE notified'[s] = notified[s]
      <3>1. t # s
        BY <2>1 DEF WriteNotification, IInv, SendShape
      <3> QED
        BY <2>1, <3>1 DEF WriteNotification, WriteData, IInv, TypeOK
    <2> QED
      BY <2>1 DEF Next, Connection, Connect, SessionCloses, Deliver, Disconnect, Subscribe, Unsubscribe, Refuse,
             Respond, SendEvent, EncodeFails, Sent, history
  <1> QED
    BY InitIInv, IInvStep, <1>1, PTL DEF Spec, NothingAfterUnsubscribe

-----------------------------------------------------------------------------
(* Subscriptions of connections that are gone. *)

LEMMA DeadStep == ASSUME IInv, DeadShape, [Next]_vars PROVE DeadShape'
  <1> SUFFICES ASSUME NEW r \in subs', conn'[r] \in cancelled',
                      NEW n \in deadAt'[conn'[r]] + 1 .. loop'.at, Sends[n] = type'[r]
               PROVE  n = loop'.at /\ r \in loop'.todo \cup loop'.invalid
    BY DEF DeadShape
  <1>0. /\ r \in Ids /\ n \in Int /\ loop.at \in Nat
        /\ \A c \in Conns : deadAt[c] \in Nat
    <2>1. IInv'
      BY IInvStep
    <2>2. r \in Ids /\ (\A c \in Conns : deadAt[c] \in Nat) /\ loop.at \in Nat
      BY <2>1, SendFacts DEF IInv, TypeOK
    <2>3. conn'[r] \in Conns
      BY <2>1 DEF IInv, TypeOK
    <2>4. deadAt'[conn'[r]] \in Int /\ loop'.at \in Int
      BY <2>1, <2>3, SendFacts DEF IInv, TypeOK
    <2> QED
      BY <2>2, <2>4
  <1> DEFINE Goal == n = loop'.at /\ r \in loop'.todo \cup loop'.invalid
  <1> USE DEF connVars, subVars, wireVars, history
  <1>1. ASSUME UNCHANGED <<subs, type, conn, cancelled, deadAt, loop>> PROVE Goal
    BY <1>1 DEF DeadShape
  <1>2. ASSUME NEW c \in Conns, Disconnect(c) PROVE Goal
    <2>1. /\ UNCHANGED <<subs, conn, type, loop>> /\ cancelled' = cancelled \cup {c}
          /\ deadAt'[c] = loop.at /\ \A d \in Conns : d # c => deadAt'[d] = deadAt[d]
      BY <1>2 DEF Disconnect, IInv, TypeOK
    <2>2. conn[r] # c
      BY <1>0, <2>1
    <2>3. conn[r] \in cancelled /\ conn[r] \in Conns
      BY <2>1, <2>2 DEF IInv, TypeOK
    <2> QED
      BY <2>1, <2>2, <2>3 DEF DeadShape
  <1>3. ASSUME NEW c \in Conns, NEW s \in Ids, NEW t \in Asked, Subscribe(c, s, t) PROVE Goal
    <2>1. /\ UNCHANGED <<cancelled, deadAt, loop>> /\ subs' = subs \cup {s} /\ c \in conns
          /\ conn'[s] = c
          /\ r # s => conn'[r] = conn[r] /\ type'[r] = type[r]
      BY <1>0, <1>3 DEF Subscribe, MayHandle, IInv, TypeOK
    <2>2. c \notin cancelled
      BY <2>1 DEF IInv, ConnShape
    <2>3. r # s /\ r \in subs
      BY <2>1, <2>2
    <2> QED
      BY <2>1, <2>3 DEF DeadShape
  <1>4. ASSUME NEW c \in Conns, NEW s \in Ids, Unsubscribe(c, s) PROVE Goal
    <2>1. UNCHANGED <<cancelled, deadAt, loop, conn, type>> /\ subs' = subs \ {s}
      BY <1>4 DEF Unsubscribe
    <2> QED
      BY <2>1 DEF DeadShape
  <1>5. CASE SendEvent
    <2>1. /\ UNCHANGED <<cancelled, deadAt, subs, conn, type>> /\ loop'.at = loop.at + 1
          /\ loop'.todo = {s \in subs : type[s] = Sends[loop.at + 1]}
          /\ loop.todo = {} /\ loop.invalid = {}
      BY <1>5 DEF SendEvent, IInv, SendShape
    <2>2. n \in deadAt[conn[r]] + 1 .. loop.at + 1
      BY <2>1
    <2>3. conn[r] \in Conns
      BY <2>1 DEF IInv, TypeOK
    <2>4. n = loop.at + 1
      <3>1. ASSUME n # loop.at + 1 PROVE FALSE
        <4>1. n \in deadAt[conn[r]] + 1 .. loop.at
          BY <1>0, <2>2, <2>3, <3>1
        <4> QED
          BY <2>1, <4>1 DEF DeadShape
      <3> QED
        BY <3>1
    <2> QED
      BY <2>1, <2>4
  <1>6. ASSUME NEW s \in Ids, WriteNotification(s) PROVE Goal
    <2>1. UNCHANGED <<cancelled, deadAt, subs, conn, type>> /\ WriteData(s)
      BY <1>6 DEF WriteNotification
    <2>2. loop'.at = loop.at /\ loop'.todo = loop.todo \ {s}
      BY <2>1 DEF WriteData, IInv, TypeOK
    <2>3. n = loop.at /\ r \in loop.todo \cup loop.invalid
      BY <2>1, <2>2 DEF DeadShape
    <2>4. CASE r = s
      <3>1. loop'.invalid = loop.invalid \cup {s}
        BY <2>1, <2>4 DEF WriteData, IInv, TypeOK
      <3> QED
        BY <2>2, <2>3, <2>4, <3>1
    <2>5. CASE r # s
      <3>1. loop'.invalid \in {loop.invalid, loop.invalid \cup {s}}
        BY <2>1 DEF WriteData, IInv, TypeOK
      <3> QED
        BY <2>2, <2>3, <2>5, <3>1
    <2> QED
      BY <2>4, <2>5
  <1>7. ASSUME NEW s \in Ids, EncodeFails(s) PROVE Goal
    <2>1. /\ UNCHANGED <<cancelled, deadAt, subs, conn, type>> /\ loop'.at = loop.at
          /\ loop'.todo = loop.todo \ {s} /\ loop'.invalid = loop.invalid \cup {s}
      BY <1>7 DEF EncodeFails, IInv, TypeOK
    <2> QED
      BY <2>1 DEF DeadShape
  <1>8. CASE Sent
    <2>1. /\ UNCHANGED <<cancelled, deadAt, conn, type>> /\ loop'.at = loop.at
          /\ subs' = subs \ loop.invalid /\ loop.todo = {}
      BY <1>8 DEF Sent, IInv, TypeOK
    <2> QED
      BY <2>1 DEF DeadShape
  <1>9. CASE \/ \E c \in Conns : Connect(c) \/ SessionCloses(c) \/ Deliver(c) \/ Refuse(c) \/ Respond(c)
             \/ UNCHANGED vars
    <2>1. UNCHANGED <<subs, type, conn, cancelled, deadAt, loop>>
      BY <1>9 DEF Connect, SessionCloses, Deliver, Refuse, Respond, vars
    <2> QED
      BY <1>1, <2>1
  <1> QED
    BY <1>2, <1>3, <1>4, <1>5, <1>6, <1>7, <1>8, <1>9 DEF Next, Connection

\* The lazy pruning is complete: the first event of its type after the
\* disconnect removes a subscription, so what a client leaves behind is bounded.
THEOREM DeadSubscriptionsGo == Spec => []DeadSubscriptionsPruned
  <1>1. IInv /\ DeadShape /\ [Next]_vars => IInv' /\ DeadShape'
    BY IInvStep, DeadStep
  <1>2. Init => DeadShape
    BY DEF Init, DeadShape
  <1>3. IInv /\ DeadShape => DeadSubscriptionsPruned
    BY DEF IInv, SendShape, DeadShape, DeadSubscriptionsPruned, TypeOK
  <1> QED
    BY InitIInv, <1>1, <1>2, <1>3, PTL DEF Spec

=============================================================================
