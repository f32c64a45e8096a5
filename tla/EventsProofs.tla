---------------------------- MODULE EventsProofs ----------------------------
(***************************************************************************)
(* Proofs about the event manager, for any number of subscriptions and     *)
(* events, and about the subscriptions of GraphQL: with its goroutines in  *)
(* place of some subscribers the manager still is the one of Events, so    *)
(* what is proved of that carries over, and a client gets exactly the      *)
(* items of the events its goroutine received.                             *)
(***************************************************************************)
EXTENDS GraphSubscription, FiniteSetTheorems, SequenceFacts, TLAPS

-----------------------------------------------------------------------------
(* The event manager. *)

\* What a subscription that was not started yet, or whose loop is sending,
\* looks like.
LoopShape ==
    /\ \A s \in Subs : loop[s] = "none" => store[s] = <<>> /\ ~done[s]
    /\ \A s \in subscriptions : loop[s] # "none"
    /\ \A s \in Subs : loop[s] = "send" => held[s] \in Event

\* Where the signaller stands; it visits only subscriptions of the map.
SignalShape ==
    /\ signal.step # "notify" => signal.at = NoSub
    /\ signal.step = "notify" => signal.at \in Subs
    /\ signal.step # "idle" => signalled < MaxEvents
    /\ signal.step \in {"visit", "notify"} <=> lock = "read"
    /\ \A s \in signal.todo : loop[s] # "none"

\* The counter during and outside the critical sections.
CounterShape ==
    /\ IsFiniteSet(subscriptions)
    /\ ~closed => num = Cardinality(subscriptions)
                          + (IF lock = "subscribe" THEN -1 ELSE IF lock = "cancel" THEN 1 ELSE 0)

\* Before Close, what is in the map is not closed.
MapIsOpen == ~closed => \A s \in subscriptions : ~done[s]

IInv ==
    /\ TypeOK
    /\ LoopShape
    /\ SignalShape
    /\ NoLostWakeup

-----------------------------------------------------------------------------

LEMMA InitIInv == Init => IInv
  <1> SUFFICES ASSUME Init PROVE IInv
    OBVIOUS
  <1>1. TypeOK
    <2>1. Never \in 0 .. Never /\ 0 \in 0 .. MaxEvents
      BY EventsAssumption DEF Never
    <2>2. signal \in [step : {"idle", "lock", "visit", "notify"}, event : Event \cup {NoEvent},
                     todo : SUBSET Subs, at : Subs \cup {NoSub}]
      BY DEF Init, Idle
    <2>3. store \in [Subs -> Seq(Event)] /\ out \in [Subs -> Seq(Event)] /\ got \in [Subs -> Seq(Event)]
      BY DEF Init
    <2>4. since \in [Subs -> 0 .. Never]
      BY <2>1 DEF Init
    <2>5. done \in [Subs -> BOOLEAN] /\ closed \in BOOLEAN /\ panicked \in BOOLEAN
      BY DEF Init
    <2>6. notify \in [Subs -> {0, 1}] /\ held \in [Subs -> Event \cup {NoEvent}]
      BY DEF Init
    <2>7. loop \in [Subs -> {"none", "wait", "pop", "send", "exited"}]
      BY DEF Init
    <2>8. /\ subscriptions \subseteq Subs /\ num \in Int
          /\ lock \in {"free", "read", "subscribe", "cancel"}
          /\ writing \in Subs \cup {NoSub} /\ signalled \in 0 .. MaxEvents
      BY <2>1 DEF Init
    <2> QED
      BY <2>2, <2>3, <2>4, <2>5, <2>6, <2>7, <2>8 DEF TypeOK
  <1>2. LoopShape
    BY DEF LoopShape, Init
  <1>3. SignalShape
    BY DEF SignalShape, Init, Idle
  <1>4. NoLostWakeup
    BY DEF NoLostWakeup, Init
  <1> QED
    BY <1>1, <1>2, <1>3, <1>4 DEF IInv

LEMMA TypeStep == ASSUME IInv, [Next]_vars PROVE TypeOK'
  <1> USE DEF IInv, TypeOK, LoopShape, SignalShape, managerVars, signalVars, loopVars
  <1>1. ASSUME NEW s \in Subs, Subscribe(s) PROVE TypeOK'
    BY <1>1 DEF Subscribe
  <1>2. CASE SubscribeReturns
    <2>1. signalled \in 0 .. Never
      BY EventsAssumption DEF Never
    <2>2. since' \in [Subs -> 0 .. Never]
      BY <1>2, <2>1 DEF SubscribeReturns
    <2> QED
      BY <1>2, <2>2 DEF SubscribeReturns
  <1>3. ASSUME NEW s \in Subs, CancelSubscription(s) PROVE TypeOK'
    BY <1>3 DEF CancelSubscription
  <1>4. CASE CancelReturns
    BY <1>4 DEF CancelReturns
  <1>5. CASE Close
    BY <1>5 DEF Close
  <1>6. CASE SignalEvent
    <2>1. signalled + 1 \in Event /\ signalled + 1 \in 0 .. MaxEvents
      BY <1>6, EventsAssumption DEF SignalEvent, Event
    <2>2. CASE num = 0
      BY <1>6, <2>1, <2>2 DEF SignalEvent
    <2>3. CASE num # 0
      <3>1. signal' = [step |-> "lock", event |-> signalled + 1, todo |-> {}, at |-> NoSub]
        BY <1>6, <2>3 DEF SignalEvent, Idle
      <3> QED
        BY <1>6, <2>1, <2>3, <3>1 DEF SignalEvent
    <2> QED
      BY <2>2, <2>3
  <1>7. CASE SignalLocks
    BY <1>7 DEF SignalLocks
  <1>8. ASSUME NEW s \in Subs, PushEvent(s) PROVE TypeOK'
    <2>1. CASE signal.event \in Wants[s]
      <3>1. signal.event \in Event
        BY <2>1, EventsAssumption
      <3>a. store[s] \in Seq(Event)
        OBVIOUS
      <3>b. Append(store[s], signal.event) \in Seq(Event)
        BY <3>1, <3>a
      <3>2. store' \in [Subs -> Seq(Event)]
        BY <1>8, <2>1, <3>b DEF PushEvent
      <3>3. signal' = [signal EXCEPT !.step = "notify", !.todo = signal.todo \ {s}, !.at = s]
        BY <1>8, <2>1 DEF PushEvent
      <3> QED
        BY <1>8, <3>2, <3>3 DEF PushEvent
    <2>2. CASE signal.event \notin Wants[s]
      <3>1. signal' = [signal EXCEPT !.todo = signal.todo \ {s}] /\ UNCHANGED store
        BY <1>8, <2>2 DEF PushEvent
      <3> QED
        BY <1>8, <3>1 DEF PushEvent
    <2> QED
      BY <2>1, <2>2
  <1>9. CASE Notify
    BY <1>9 DEF Notify
  <1>10. CASE SignalReturns
    <2>1. signalled + 1 \in 0 .. MaxEvents
      BY <1>10, EventsAssumption DEF SignalReturns
    <2> QED
      BY <1>10, <2>1 DEF SignalReturns, Idle
  <1>11. ASSUME NEW s \in Subs, Wake(s) PROVE TypeOK'
    BY <1>11 DEF Wake
  <1>12. ASSUME NEW s \in Subs, Pop(s) PROVE TypeOK'
    <2>1. CASE store[s] = <<>>
      BY <1>12, <2>1 DEF Pop
    <2>2. CASE store[s] # <<>>
      <3>1. store[s] \in Seq(Event)
        OBVIOUS
      <3>2. Head(store[s]) \in Event /\ Tail(store[s]) \in Seq(Event)
        BY <2>2, <3>1
      <3>a. held' = [held EXCEPT ![s] = Head(store[s])] /\ store' = [store EXCEPT ![s] = Tail(store[s])]
        BY <1>12, <2>2 DEF Pop
      <3>b. held' \in [Subs -> Event \cup {NoEvent}]
        BY <3>2, <3>a
      <3>3. store' \in [Subs -> Seq(Event)]
        BY <3>2, <3>a
      <3>4. loop' \in [Subs -> {"none", "wait", "pop", "send", "exited"}]
        BY <1>12, <2>2 DEF Pop
      <3> QED
        BY <1>12, <3>b, <3>3, <3>4 DEF Pop
    <2> QED
      BY <2>1, <2>2
  <1>13. ASSUME NEW s \in Subs, Send(s) PROVE TypeOK'
    <2>1. <<held[s]>> \in Seq(Event)
      BY <1>13 DEF Send
    <2> QED
      BY <1>13, <2>1 DEF Send
  <1>14. ASSUME NEW s \in Subs, Exit(s) PROVE TypeOK'
    BY <1>14 DEF Exit
  <1>15. ASSUME NEW s \in Subs, Receive(s) PROVE TypeOK'
    <2>1. out[s] \in Seq(Event) /\ out[s] # <<>> /\ got[s] \in Seq(Event)
      BY <1>15 DEF Receive
    <2>2. Head(out[s]) \in Event /\ Tail(out[s]) \in Seq(Event)
      BY <2>1
    <2>3. Append(got[s], Head(out[s])) \in Seq(Event)
      BY <2>1, <2>2
    <2> QED
      BY <1>15, <2>2, <2>3 DEF Receive
  <1>16. CASE UNCHANGED vars
    BY <1>16 DEF vars
  <1> QED
    BY <1>1, <1>2, <1>3, <1>4, <1>5, <1>6, <1>7, <1>8, <1>9, <1>10, <1>11, <1>12, <1>13,
       <1>14, <1>15, <1>16 DEF Next, Signaller, RunLoop

LEMMA ShapeStep == ASSUME IInv, [Next]_vars PROVE LoopShape' /\ SignalShape' /\ NoLostWakeup'
  <1> USE DEF IInv, LoopShape, SignalShape, NoLostWakeup, managerVars, signalVars, loopVars
  <1> DEFINE Goal == LoopShape' /\ SignalShape' /\ NoLostWakeup'
  <1>0. TypeOK'
    BY TypeStep
  <1> USE DEF TypeOK
  <1>1. ASSUME NEW s \in Subs, Subscribe(s) PROVE Goal
    <2>1. /\ UNCHANGED <<signal, signalled, store, held, done, notify>> /\ lock = "free" /\ lock' = "subscribe"
          /\ subscriptions' = subscriptions \cup {s}
          /\ loop[s] = "none" /\ loop' = [loop EXCEPT ![s] = "wait"]
      BY <1>1 DEF Subscribe
    <2>2. LoopShape'
      BY <2>1
    <2>3. SignalShape'
      BY <2>1
    <2>4. NoLostWakeup'
      BY <2>1
    <2> QED
      BY <2>2, <2>3, <2>4
  <1>2. CASE SubscribeReturns
    BY <1>2 DEF SubscribeReturns
  <1>3. ASSUME NEW s \in Subs, CancelSubscription(s) PROVE Goal
    BY <1>3 DEF CancelSubscription
  <1>4. CASE CancelReturns
    BY <1>4 DEF CancelReturns
  <1>5. CASE Close
    BY <1>5 DEF Close
  <1>6. CASE SignalEvent
    BY <1>6 DEF SignalEvent, Idle
  <1>7. CASE SignalLocks
    BY <1>7 DEF SignalLocks
  <1>8. ASSUME NEW s \in Subs, PushEvent(s) PROVE Goal
    <2>1. loop[s] # "none" /\ signal.at = NoSub /\ signal.step = "visit"
      BY <1>8 DEF PushEvent
    <2>2. CASE signal.event \in Wants[s]
      <3>1. signal' = [signal EXCEPT !.step = "notify", !.todo = signal.todo \ {s}, !.at = s]
        BY <1>8, <2>2 DEF PushEvent
      <3>2. /\ signal'.step = "notify" /\ signal'.at = s
            /\ signal'.todo \subseteq signal.todo
        BY <3>1
      <3>3. \A t \in Subs : t # s => store'[t] = store[t]
        BY <1>8, <2>2 DEF PushEvent
      <3>4. UNCHANGED <<subscriptions, loop, done, held, notify, signalled, lock>>
        BY <1>8 DEF PushEvent
      <3>5. LoopShape'
        BY <2>1, <3>3, <3>4
      <3>6. SignalShape'
        BY <2>1, <3>2, <3>4
      <3>7. NoLostWakeup'
        BY <2>1, <3>2, <3>3, <3>4, EventsAssumption
      <3> QED
        BY <3>5, <3>6, <3>7
    <2>3. CASE signal.event \notin Wants[s]
      <3>1. signal' = [signal EXCEPT !.todo = signal.todo \ {s}] /\ UNCHANGED store
        BY <1>8, <2>3 DEF PushEvent
      <3> QED
        BY <1>8, <2>1, <3>1 DEF PushEvent
    <2> QED
      BY <2>2, <2>3
  <1>9. CASE Notify
    BY <1>9 DEF Notify
  <1>10. CASE SignalReturns
    BY <1>10 DEF SignalReturns, Idle
  <1>11. ASSUME NEW s \in Subs, Wake(s) PROVE Goal
    BY <1>11 DEF Wake
  <1>12. ASSUME NEW s \in Subs, Pop(s) PROVE Goal
    <2>1. CASE store[s] = <<>>
      BY <1>12, <2>1 DEF Pop
    <2>2. CASE store[s] # <<>>
      <3>1. Head(store[s]) \in Event
        BY <2>2
      <3>2. /\ loop' = [loop EXCEPT ![s] = "send"]
            /\ held' = [held EXCEPT ![s] = Head(store[s])]
            /\ store' = [store EXCEPT ![s] = Tail(store[s])]
            /\ UNCHANGED <<subscriptions, done, notify, signal, signalled, lock>>
        BY <1>12, <2>2 DEF Pop
      <3>3. /\ \A t \in Subs : t # s => store'[t] = store[t] /\ loop'[t] = loop[t] /\ held'[t] = held[t]
            /\ loop[s] = "pop" /\ loop'[s] = "send" /\ held'[s] \in Event
        BY <1>12, <3>1, <3>2 DEF Pop
      <3> QED
        BY <3>2, <3>3
    <2> QED
      BY <2>1, <2>2
  <1>13. ASSUME NEW s \in Subs, Send(s) PROVE Goal
    BY <1>13 DEF Send
  <1>14. ASSUME NEW s \in Subs, Exit(s) PROVE Goal
    BY <1>14 DEF Exit
  <1>15. ASSUME NEW s \in Subs, Receive(s) PROVE Goal
    BY <1>15 DEF Receive
  <1>16. CASE UNCHANGED vars
    BY <1>16 DEF vars
  <1> QED
    BY <1>1, <1>2, <1>3, <1>4, <1>5, <1>6, <1>7, <1>8, <1>9, <1>10, <1>11, <1>12, <1>13,
       <1>14, <1>15, <1>16 DEF Next, Signaller, RunLoop
\* Type correctness of the event manager.
THEOREM TypeCorrect == Spec => []TypeOK
  <1>1. IInv /\ [Next]_vars => IInv'
    BY TypeStep, ShapeStep DEF IInv
  <1>2. IInv => TypeOK
    BY DEF IInv
  <1> QED
    BY InitIInv, <1>1, <1>2, PTL DEF Spec

\* No event is ever stranded in a store behind a loop that waits without a
\* token: the coalesced notifications of pushEvent are enough.
THEOREM WakeupsAreNotLost == Spec => []NoLostWakeup
  <1>1. IInv /\ [Next]_vars => IInv'
    BY TypeStep, ShapeStep DEF IInv
  <1>2. IInv => NoLostWakeup
    BY DEF IInv
  <1> QED
    BY InitIInv, <1>1, <1>2, PTL DEF Spec

-----------------------------------------------------------------------------
(* The counter and the map. *)

MapInv == IInv /\ CounterShape /\ MapIsOpen /\ NoDoubleClose

LEMMA InitMapInv == Init => MapInv
  BY InitIInv, FS_EmptySet DEF Init, MapInv, CounterShape, MapIsOpen, NoDoubleClose

LEMMA MapStep == ASSUME MapInv, [Next]_vars PROVE CounterShape' /\ MapIsOpen' /\ NoDoubleClose'
  <1> DEFINE Goal == CounterShape' /\ MapIsOpen' /\ NoDoubleClose'
  <1> USE DEF MapInv, IInv, TypeOK, CounterShape, MapIsOpen, NoDoubleClose,
          managerVars, signalVars, loopVars
  <1>1. ASSUME NEW s \in Subs, Subscribe(s) PROVE Goal
    <2>1. s \notin subscriptions /\ ~done[s]
      BY <1>1 DEF Subscribe, LoopShape
    <2>2. /\ IsFiniteSet(subscriptions \cup {s})
          /\ Cardinality(subscriptions \cup {s}) = Cardinality(subscriptions) + 1
      BY <2>1, FS_AddElement
    <2>3. Cardinality(subscriptions) \in Nat
      BY FS_CardinalityType
    <2> QED
      BY <1>1, <2>1, <2>2, <2>3 DEF Subscribe
  <1>2. CASE SubscribeReturns
    <2>1. Cardinality(subscriptions) \in Nat
      BY FS_CardinalityType
    <2> QED
      BY <1>2, <2>1 DEF SubscribeReturns
  <1>3. ASSUME NEW s \in Subs, CancelSubscription(s) PROVE Goal
    <2>1. /\ IsFiniteSet(subscriptions \ {s})
          /\ Cardinality(subscriptions \ {s}) = Cardinality(subscriptions) - 1
      BY <1>3, FS_RemoveElement DEF CancelSubscription
    <2>2. Cardinality(subscriptions) \in Nat
      BY FS_CardinalityType
    <2>3. CounterShape'
      BY <1>3, <2>1, <2>2 DEF CancelSubscription
    <2>4. MapIsOpen'
      BY <1>3 DEF CancelSubscription
    <2>5. ~closed => ~done[s] /\ ~panicked
      BY <1>3 DEF CancelSubscription
    <2>6. NoDoubleClose'
      BY <1>3, <2>5 DEF CancelSubscription
    <2> QED
      BY <2>3, <2>4, <2>6
  <1>4. CASE CancelReturns
    <2>1. Cardinality(subscriptions) \in Nat
      BY FS_CardinalityType
    <2>2. ~closed => num = Cardinality(subscriptions) + 1
      BY <1>4 DEF CancelReturns
    <2>3. lock' = "free" /\ num' = num - 1 /\ UNCHANGED <<subscriptions, closed, panicked, done>>
      BY <1>4 DEF CancelReturns
    <2>4. CounterShape'
      BY <2>1, <2>2, <2>3
    <2> QED
      BY <2>3, <2>4
  <1>5. CASE Close
    BY <1>5 DEF Close
  <1>6. CASE SignalEvent
    BY <1>6 DEF SignalEvent
  <1>7. CASE SignalLocks
    BY <1>7 DEF SignalLocks
  <1>8. ASSUME NEW s \in Subs, PushEvent(s) PROVE Goal
    BY <1>8 DEF PushEvent
  <1>9. CASE Notify
    BY <1>9 DEF Notify
  <1>10. CASE SignalReturns
    BY <1>10 DEF SignalReturns, SignalShape
  <1>11. ASSUME NEW s \in Subs, Wake(s) PROVE Goal
    BY <1>11 DEF Wake
  <1>12. ASSUME NEW s \in Subs, Pop(s) PROVE Goal
    BY <1>12 DEF Pop
  <1>13. ASSUME NEW s \in Subs, Send(s) PROVE Goal
    BY <1>13 DEF Send
  <1>14. ASSUME NEW s \in Subs, Exit(s) PROVE Goal
    BY <1>14 DEF Exit
  <1>15. ASSUME NEW s \in Subs, Receive(s) PROVE Goal
    BY <1>15 DEF Receive
  <1>16. CASE UNCHANGED vars
    BY <1>16 DEF vars
  <1> HIDE DEF MapInv, IInv, TypeOK, CounterShape, MapIsOpen, NoDoubleClose
  <1> QED
    BY <1>1, <1>2, <1>3, <1>4, <1>5, <1>6, <1>7, <1>8, <1>9, <1>10, <1>11, <1>12, <1>13,
       <1>14, <1>15, <1>16 DEF Next, Signaller, RunLoop

\* Until Close, the counter that SignalEvent reads without the lock is the size
\* of the map whenever no writer is inside its critical section.
THEOREM CounterIsMapSize == Spec => []CounterMatchesMap
  <1>1. MapInv /\ [Next]_vars => MapInv'
    BY TypeStep, ShapeStep, MapStep DEF MapInv, IInv
  <1>2. MapInv => CounterMatchesMap
    BY FS_CardinalityType DEF MapInv, CounterShape, CounterMatchesMap
  <1> QED
    BY InitMapInv, <1>1, <1>2, PTL DEF Spec

\* No doneCh is closed twice unless Close was called.
THEOREM CancelIsSafe == Spec => []NoDoubleClose
  <1>1. MapInv /\ [Next]_vars => MapInv'
    BY TypeStep, ShapeStep, MapStep DEF MapInv, IInv
  <1>2. MapInv => NoDoubleClose
    BY DEF MapInv
  <1> QED
    BY InitMapInv, <1>1, <1>2, PTL DEF Spec

-----------------------------------------------------------------------------
(* What a subscriber gets. *)

\* A loop holds an event only while it sends, or when it was ended in a send;
\* the event being signalled is the next one; and what has been subscribed and
\* not closed is in the map.
HandShape ==
    /\ \A s \in Subs : loop[s] \in {"none", "wait", "pop"} => held[s] = NoEvent
    /\ signal.step # "idle" => signal.event = signalled + 1
    /\ \A s \in Subs : loop[s] = "none" => since[s] = Never
    /\ \A s \in Subs : (since[s] # Never /\ ~done[s]) => s \in subscriptions
    /\ lock = "subscribe" => writing \in subscriptions /\ since[writing] = Never /\ ~done[writing]

\* The subscriptions the counter stands for, also after Close, when the map
\* still holds closed ones: those a subscriber may rely on.
Counted == {s \in subscriptions : since[s] # Never /\ ~done[s]}

CountsCounted ==
    /\ IsFiniteSet(Counted)
    /\ ~panicked => num = Cardinality(Counted) + (IF lock = "cancel" THEN 1 ELSE 0)

\* The last event that concerns a subscription: the one being signalled does,
\* once the range over the map has passed the subscription by.
Reach(s) ==
    IF signal.step \in {"visit", "notify"} /\ s \notin signal.todo THEN signalled + 1 ELSE signalled

\* What is on its way to a subscriber, up to the event that concerns it last.
LineIsExact(s) ==
    /\ Increasing(Pipeline(s))
    /\ \A i \in DOMAIN Pipeline(s) : Pipeline(s)[i] <= Reach(s)
    /\ ~done[s] => \A e \in Wants[s] : (since[s] < e /\ e <= Reach(s)) => e \in Range(Pipeline(s))

LinesAreExact == \A s \in Subs : LineIsExact(s)

LineInv == IInv /\ HandShape /\ CountsCounted /\ LinesAreExact

\* SignalEvent when the counter is not zero.
LEMMA SlowPath ==
    ASSUME SignalEvent, num # 0
    PROVE  signal'.step = "lock" /\ signal'.event = signalled + 1 /\ signalled' = signalled
  BY DEF SignalEvent, Idle

LEMMA HandStep == ASSUME IInv, HandShape, [Next]_vars PROVE HandShape'
  <1> USE DEF IInv, TypeOK, LoopShape, SignalShape, HandShape, managerVars, signalVars, loopVars
  <1>1. ASSUME NEW s \in Subs, Subscribe(s) PROVE HandShape'
    <2>1. /\ loop[s] = "none" /\ loop' = [loop EXCEPT ![s] = "wait"] /\ writing' = s /\ lock' = "subscribe"
          /\ subscriptions' = subscriptions \cup {s}
          /\ UNCHANGED <<signal, signalled, since, done, held>>
      BY <1>1 DEF Subscribe
    <2> QED
      BY <2>1
  <1>2. CASE SubscribeReturns
    <2>1. /\ writing \in subscriptions /\ lock' = "free" /\ since' = [since EXCEPT ![writing] = signalled]
          /\ UNCHANGED <<subscriptions, signal, signalled, done, held, loop>>
      BY <1>2 DEF SubscribeReturns
    <2>2. loop[writing] # "none"
      BY <2>1
    <2> QED
      BY <2>1, <2>2
  <1>3. ASSUME NEW s \in Subs, CancelSubscription(s) PROVE HandShape'
    <2>1. /\ lock' = "cancel" /\ done' = [done EXCEPT ![s] = TRUE] /\ subscriptions' = subscriptions \ {s}
          /\ UNCHANGED <<signal, signalled, since, held, loop>>
      BY <1>3 DEF CancelSubscription
    <2> QED
      BY <2>1
  <1>4. CASE CancelReturns
    BY <1>4 DEF CancelReturns
  <1>5. CASE Close
    BY <1>5 DEF Close
  <1>6. CASE SignalEvent
    <2>1. UNCHANGED <<subscriptions, lock, writing, since, done, held, loop>>
      BY <1>6 DEF SignalEvent
    <2>2. signal'.step # "idle" => signal'.event = signalled' + 1
      <3>1. CASE num = 0
        BY <1>6, <3>1 DEF SignalEvent
      <3>2. CASE num # 0
        BY <1>6, <3>2, SlowPath
      <3> QED
        BY <3>1, <3>2
    <2> QED
      BY <2>1, <2>2
  <1>7. CASE SignalLocks
    BY <1>7 DEF SignalLocks
  <1>8. ASSUME NEW s \in Subs, PushEvent(s) PROVE HandShape'
    <2>1. /\ signal'.event = signal.event /\ signal.step # "idle"
          /\ UNCHANGED <<subscriptions, lock, writing, signalled, since, done, held, loop>>
      BY <1>8 DEF PushEvent
    <2> QED
      BY <2>1
  <1>9. CASE Notify
    BY <1>9 DEF Notify
  <1>10. CASE SignalReturns
    BY <1>10 DEF SignalReturns, Idle
  <1>11. ASSUME NEW s \in Subs, Wake(s) PROVE HandShape'
    BY <1>11 DEF Wake
  <1>12. ASSUME NEW s \in Subs, Pop(s) PROVE HandShape'
    <2>1. /\ \A t \in Subs : t # s => loop'[t] = loop[t] /\ held'[t] = held[t]
          /\ loop[s] = "pop"
          /\ \/ loop'[s] = "wait" /\ held'[s] = held[s]
             \/ loop'[s] = "send"
          /\ UNCHANGED <<subscriptions, lock, writing, signal, signalled, since, done>>
      BY <1>12 DEF Pop
    <2> QED
      BY <2>1
  <1>13. ASSUME NEW s \in Subs, Send(s) PROVE HandShape'
    BY <1>13 DEF Send
  <1>14. ASSUME NEW s \in Subs, Exit(s) PROVE HandShape'
    BY <1>14 DEF Exit
  <1>15. ASSUME NEW s \in Subs, Receive(s) PROVE HandShape'
    BY <1>15 DEF Receive
  <1>16. CASE UNCHANGED vars
    BY <1>16 DEF vars
  <1> HIDE DEF IInv, TypeOK, LoopShape, SignalShape, HandShape
  <1> QED
    BY <1>1, <1>2, <1>3, <1>4, <1>5, <1>6, <1>7, <1>8, <1>9, <1>10, <1>11, <1>12, <1>13,
       <1>14, <1>15, <1>16 DEF Next, Signaller, RunLoop

LEMMA CountedStep == ASSUME IInv, HandShape, CountsCounted, [Next]_vars PROVE CountsCounted'
  <1>0. Cardinality(Counted) \in Nat
    BY FS_CardinalityType DEF CountsCounted
  <1> USE DEF IInv, TypeOK, managerVars, signalVars, loopVars
  <1>1. ASSUME UNCHANGED <<subscriptions, since, done, panicked, num>>,
               lock' = "cancel" <=> lock = "cancel"
        PROVE  CountsCounted'
    <2>1. Counted' = Counted
      BY <1>1 DEF Counted
    <2> QED
      BY <1>1, <2>1 DEF CountsCounted
  <1>2. ASSUME NEW s \in Subs, Subscribe(s) PROVE CountsCounted'
    <2>1. since[s] = Never /\ Never' = Never
      BY <1>2 DEF Subscribe, HandShape, Never
    <2>2. Counted' = Counted
      BY <1>2, <2>1 DEF Subscribe, Counted
    <2> QED
      BY <1>2, <2>2 DEF Subscribe, CountsCounted
  <1>3. CASE SubscribeReturns
    <2>1. /\ lock = "subscribe" /\ lock' = "free" /\ num' = num + 1 /\ since' = [since EXCEPT ![writing] = signalled]
          /\ UNCHANGED <<subscriptions, done, panicked>>
      BY <1>3 DEF SubscribeReturns
    <2>2. writing \in subscriptions /\ since[writing] = Never /\ ~done[writing]
      BY <2>1 DEF HandShape
    <2>3. signalled # Never
      BY EventsAssumption DEF Never
    <2>4. Counted' = Counted \cup {writing} /\ writing \notin Counted
      <3>1. writing \notin Counted
        BY <2>2 DEF Counted
      <3>2. \A s \in subscriptions : since'[s] = IF s = writing THEN signalled ELSE since[s]
        BY <2>1
      <3> QED
        BY <2>1, <2>2, <2>3, <3>1, <3>2 DEF Counted, Never
    <2>5. IsFiniteSet(Counted') /\ Cardinality(Counted') = Cardinality(Counted) + 1
      BY <2>4, FS_AddElement DEF CountsCounted
    <2>6. ~panicked => num = Cardinality(Counted)
      BY <1>0, <2>1 DEF CountsCounted
    <2> QED
      BY <1>0, <2>1, <2>5, <2>6 DEF CountsCounted
  <1>4. ASSUME NEW s \in Subs, CancelSubscription(s) PROVE CountsCounted'
    <2>1. /\ s \in subscriptions /\ since[s] # Never /\ lock = "free" /\ lock' = "cancel"
          /\ done' = [done EXCEPT ![s] = TRUE] /\ subscriptions' = subscriptions \ {s}
          /\ panicked' = (panicked \/ done[s]) /\ UNCHANGED <<num, since>>
      BY <1>4 DEF CancelSubscription
    <2>2. Counted' = Counted \ {s}
      BY <2>1 DEF Counted, Never
    <2>3. IsFiniteSet(Counted')
      BY <2>2, FS_RemoveElement, FS_Subset DEF CountsCounted
    <2>4. CASE done[s]
      BY <2>1, <2>3, <2>4 DEF CountsCounted
    <2>5. CASE ~done[s]
      <3>1. s \in Counted
        BY <2>1, <2>5 DEF Counted
      <3>2. Cardinality(Counted') = Cardinality(Counted) - 1
        BY <2>2, <3>1, FS_RemoveElement DEF CountsCounted
      <3>3. ~panicked' => num = Cardinality(Counted)
        BY <1>0, <2>1 DEF CountsCounted
      <3> QED
        BY <1>0, <2>1, <2>3, <3>2, <3>3 DEF CountsCounted
    <2> QED
      BY <2>4, <2>5
  <1>5. CASE CancelReturns
    <2>1. /\ lock = "cancel" /\ lock' = "free" /\ num' = num - 1
          /\ UNCHANGED <<subscriptions, since, done, panicked>>
      BY <1>5 DEF CancelReturns
    <2>2. Counted' = Counted
      BY <2>1 DEF Counted
    <2>3. ~panicked => num = Cardinality(Counted) + 1
      BY <2>1 DEF CountsCounted
    <2> QED
      BY <1>0, <2>1, <2>2, <2>3 DEF CountsCounted
  <1>6. CASE Close
    <2>1. /\ lock' = lock /\ lock = "free" /\ num' = 0 /\ UNCHANGED <<subscriptions, since, panicked>>
          /\ \A s \in subscriptions : done'[s]
      BY <1>6 DEF Close
    <2>2. Counted' = {}
      BY <2>1 DEF Counted
    <2> QED
      BY <2>1, <2>2, FS_EmptySet DEF CountsCounted
  <1>7. CASE SignalEvent \/ SignalLocks \/ (\E s \in Subs : PushEvent(s)) \/ Notify \/ SignalReturns
    <2>1. /\ UNCHANGED <<subscriptions, since, done, panicked, num>>
          /\ lock' = "cancel" <=> lock = "cancel"
      BY <1>7 DEF SignalEvent, SignalLocks, PushEvent, Notify, SignalReturns, SignalShape
    <2> QED
      BY <1>1, <2>1
  <1>8. CASE (\E s \in Subs : RunLoop(s) \/ Receive(s)) \/ UNCHANGED vars
    <2>1. UNCHANGED <<subscriptions, since, done, panicked, num, lock>>
      BY <1>8 DEF RunLoop, Wake, Pop, Send, Exit, Receive, vars
    <2> QED
      BY <1>1, <2>1
  <1> HIDE DEF IInv, TypeOK
  <1> QED
    BY <1>2, <1>3, <1>4, <1>5, <1>6, <1>7, <1>8 DEF Next, Signaller

\* The pipeline and its parts.
LEMMA PipelineParts ==
    ASSUME TypeOK, NEW s \in Subs
    PROVE  LET hand == IF held[s] = NoEvent THEN <<>> ELSE <<held[s]>>
           IN  /\ got[s] \in Seq(Event) /\ out[s] \in Seq(Event) /\ store[s] \in Seq(Event)
               /\ hand \in Seq(Event)
               /\ got[s] \o out[s] \in Seq(Event)
               /\ (got[s] \o out[s]) \o hand \in Seq(Event)
               /\ Pipeline(s) \in Seq(Event)
               /\ Pipeline(s) = ((got[s] \o out[s]) \o hand) \o store[s]
  <1> DEFINE hand == IF held[s] = NoEvent THEN <<>> ELSE <<held[s]>>
  <1>1. got[s] \in Seq(Event) /\ out[s] \in Seq(Event) /\ store[s] \in Seq(Event)
    BY DEF TypeOK
  <1>2. hand \in Seq(Event)
    BY DEF TypeOK
  <1> HIDE DEF hand
  <1>3. got[s] \o out[s] \in Seq(Event)
    BY <1>1, ConcatProperties
  <1>4. (got[s] \o out[s]) \o hand \in Seq(Event)
    BY <1>2, <1>3, ConcatProperties
  <1>5. ((got[s] \o out[s]) \o hand) \o store[s] \in Seq(Event)
    BY <1>1, <1>4, ConcatProperties
  <1> QED
    BY <1>1, <1>2, <1>3, <1>4, <1>5 DEF hand, Pipeline

\* The loop and the subscriber pass events along without changing the line.
LEMMA LineMoves ==
    ASSUME TypeOK, HandShape, LoopShape, NEW s \in Subs,
           Wake(s) \/ Pop(s) \/ Send(s) \/ Exit(s) \/ Receive(s)
    PROVE  \A t \in Subs : Pipeline(t)' = Pipeline(t)
  <1> SUFFICES ASSUME NEW t \in Subs PROVE Pipeline(t)' = Pipeline(t)
    OBVIOUS
  <1> USE DEF loopVars
  <1>1. ASSUME got'[t] = got[t], out'[t] = out[t], held'[t] = held[t], store'[t] = store[t]
        PROVE  Pipeline(t)' = Pipeline(t)
    BY <1>1 DEF Pipeline
  <1>2. CASE t # s
    <2>1. got'[t] = got[t] /\ out'[t] = out[t] /\ held'[t] = held[t] /\ store'[t] = store[t]
      BY <1>2 DEF Wake, Pop, Send, Exit, Receive, TypeOK
    <2> QED
      BY <1>1, <2>1
  <1>3. CASE t = s
    <2>1. CASE Wake(s) \/ Exit(s)
      BY <1>1, <2>1 DEF Wake, Exit
    <2>2. CASE Pop(s)
      <3>1. held[s] = NoEvent
        BY <2>2 DEF Pop, HandShape
      <3>2. CASE store[s] = <<>>
        BY <1>1, <1>3, <2>2, <3>2 DEF Pop
      <3>3. CASE store[s] # <<>>
        <4> DEFINE x == got[s] \o out[s]
        <4>1. x \in Seq(Event) /\ store[s] \in Seq(Event)
          BY PipelineParts
        <4>2. Head(store[s]) \in Event /\ NoEvent \notin Event
          BY <3>3, <4>1, HeadTailProperties, EventsAssumption
        <4>3. held'[s] = Head(store[s]) /\ store'[s] = Tail(store[s]) /\ got' = got /\ out' = out
          BY <2>2, <3>3 DEF Pop, TypeOK
        <4>4. Pipeline(s) = (x \o <<>>) \o store[s]
          BY <3>1 DEF Pipeline
        <4>5. Pipeline(s)' = (x \o <<Head(store[s])>>) \o Tail(store[s])
          BY <4>2, <4>3 DEF Pipeline
        <4> HIDE DEF x
        <4>6. x \o <<>> = x /\ x \o <<Head(store[s])>> = Append(x, Head(store[s]))
          BY <4>1, <4>2, ConcatEmptySeq, AppendIsConcat
        <4> QED
          BY <1>3, <3>3, <4>1, <4>4, <4>5, <4>6, MoveHead
      <3> QED
        BY <3>2, <3>3
    <2>3. CASE Send(s)
      <3>1. /\ out[s] = <<>> /\ out'[s] = <<held[s]>> /\ held'[s] = NoEvent
            /\ got' = got /\ store' = store
        BY <2>3 DEF Send, TypeOK
      <3>2. held[s] \in Event /\ held[s] # NoEvent
        BY <2>3, EventsAssumption DEF Send, LoopShape
      <3>3. Pipeline(s) = ((got[s] \o <<>>) \o <<held[s]>>) \o store[s]
        BY <3>1, <3>2 DEF Pipeline
      <3>4. Pipeline(s)' = ((got[s] \o <<held[s]>>) \o <<>>) \o store[s]
        BY <3>1 DEF Pipeline
      <3>5. got[s] \in Seq(Event) /\ <<held[s]>> \in Seq(Event)
        BY <3>2 DEF TypeOK
      <3>6. got[s] \o <<held[s]>> \in Seq(Event)
        BY <3>5, ConcatProperties
      <3>7. got[s] \o <<>> = got[s] /\ (got[s] \o <<held[s]>>) \o <<>> = got[s] \o <<held[s]>>
        BY <3>5, <3>6, ConcatEmptySeq
      <3> QED
        BY <1>3, <3>3, <3>4, <3>7
    <2>4. CASE Receive(s)
      <3>1. /\ out[s] # <<>> /\ got'[s] = Append(got[s], Head(out[s])) /\ out'[s] = Tail(out[s])
            /\ held' = held /\ store' = store
        BY <2>4 DEF Receive, TypeOK
      <3>2. Append(got[s], Head(out[s])) \o Tail(out[s]) = got[s] \o out[s]
        BY <3>1, PipelineParts, MoveHead
      <3> QED
        BY <1>3, <3>1, <3>2 DEF Pipeline
    <2> QED
      BY <2>1, <2>2, <2>3, <2>4
  <1> QED
    BY <1>2, <1>3

\* A step that leaves a line alone, and the last event that concerns it.
LEMMA SameLine ==
    ASSUME NEW s \in Subs, LineIsExact(s), Pipeline(s)' = Pipeline(s),
           Reach(s)' = Reach(s), since'[s] = since[s], done[s] => done'[s]
    PROVE  LineIsExact(s)'
  BY DEF LineIsExact, Increasing, Range

\* A step after which another event concerns a subscription that is not to get it.
LEMMA LongerReach ==
    ASSUME TypeOK, NEW s \in Subs, LineIsExact(s), Pipeline(s)' = Pipeline(s),
           Reach(s) = signalled, Reach(s)' = signalled + 1, since'[s] = since[s], done'[s] = done[s],
           ~done[s] /\ since[s] # Never => signalled + 1 \notin Wants[s],
           signalled + 1 \in Event
    PROVE  LineIsExact(s)'
  <1>1. /\ signalled \in Nat /\ since[s] \in Nat /\ Wants[s] \subseteq Event /\ Event \subseteq Nat
        /\ Never \in Nat /\ \A e \in Event : e < Never
    <2>1. MaxEvents \in Nat /\ Wants[s] \subseteq Event
      BY EventsAssumption
    <2>2. Event \subseteq Nat /\ Never \in Nat /\ \A e \in Event : e < Never
      BY <2>1 DEF Event, Never
    <2>3. signalled \in Nat /\ since[s] \in Nat
      BY <2>1 DEF TypeOK, Never
    <2> QED
      BY <2>1, <2>2, <2>3
  <1>2. \A i \in DOMAIN Pipeline(s) : Pipeline(s)[i] <= signalled + 1
    <2> SUFFICES ASSUME NEW i \in DOMAIN Pipeline(s) PROVE Pipeline(s)[i] <= signalled + 1
      OBVIOUS
    <2>1. Pipeline(s) \in Seq(Event)
      BY PipelineParts
    <2>2. i \in 1 .. Len(Pipeline(s))
      BY <2>1, LenProperties
    <2>3. Pipeline(s)[i] \in Nat
      BY <1>1, <2>1, <2>2, ElementOfSeq
    <2> QED
      BY <1>1, <2>3 DEF LineIsExact
  <1>3. ASSUME ~done[s], NEW e \in Wants[s], since[s] < e, e <= signalled + 1
        PROVE  e \in Range(Pipeline(s))
    <2>0. e \in Nat /\ e < Never
      BY <1>1
    <2>1. since[s] # Never
      BY <1>1, <1>3, <2>0
    <2>2. e <= signalled
      BY <1>1, <1>3, <2>0, <2>1
    <2> QED
      BY <1>3, <2>2 DEF LineIsExact
  <1> QED
    BY <1>2, <1>3 DEF LineIsExact, Increasing, Range

\* A subscriber that may rely on the manager keeps SignalEvent off its fast path.
LEMMA FastPathIsSafe ==
    ASSUME IInv, HandShape, CountsCounted, ~panicked, num = 0, NEW s \in Subs
    PROVE  ~(~done[s] /\ since[s] # Never)
  <1> SUFFICES ASSUME ~done[s], since[s] # Never PROVE FALSE
    OBVIOUS
  <1>1. s \in Counted
    BY DEF HandShape, Counted
  <1>2. IsFiniteSet(Counted) /\ Cardinality(Counted) \in Nat
    BY FS_CardinalityType DEF CountsCounted
  <1>3. Cardinality(Counted) # 0
    BY <1>1, <1>2, FS_EmptySet
  <1> QED
    BY <1>2, <1>3 DEF CountsCounted

LEMMA LineStep == ASSUME LineInv, [Next]_vars PROVE LinesAreExact'
  <1> USE DEF managerVars, signalVars, loopVars
  <1>0. TypeOK /\ LoopShape /\ SignalShape /\ HandShape /\ CountsCounted /\ IInv
        /\ \A t \in Subs : LineIsExact(t)
    BY DEF LineInv, IInv, LinesAreExact
  <1>a. ASSUME UNCHANGED <<got, out, held, store>>
        PROVE  \A t \in Subs : Pipeline(t)' = Pipeline(t)
    BY <1>a DEF Pipeline
  <1>b. ASSUME \A t \in Subs : Pipeline(t)' = Pipeline(t), UNCHANGED <<signalled, signal, since>>,
               \A t \in Subs : done[t] => done'[t]
        PROVE  LinesAreExact'
    <2>1. ASSUME NEW t \in Subs PROVE LineIsExact(t)'
      <3>1. Reach(t)' = Reach(t)
        BY <1>b DEF Reach
      <3> QED
        BY <1>0, <1>b, <3>1, SameLine
    <2> QED
      BY <2>1 DEF LinesAreExact
  <1>1. ASSUME NEW s \in Subs, Subscribe(s) PROVE LinesAreExact'
    BY <1>1, <1>a, <1>b DEF Subscribe
  <1>2. ASSUME NEW s \in Subs, CancelSubscription(s) PROVE LinesAreExact'
    <2>1. UNCHANGED <<got, out, held, store, signal, signalled, since>> /\ \A t \in Subs : done[t] => done'[t]
      BY <1>0, <1>2 DEF CancelSubscription, TypeOK
    <2> QED
      BY <1>a, <1>b, <2>1
  <1>3. CASE CancelReturns
    BY <1>3, <1>a, <1>b DEF CancelReturns
  <1>4. CASE Close
    <2>1. UNCHANGED <<got, out, held, store, signal, signalled, since>> /\ \A t \in Subs : done[t] => done'[t]
      BY <1>4 DEF Close
    <2> QED
      BY <1>a, <1>b, <2>1
  <1>5. ASSUME NEW s \in Subs, RunLoop(s) \/ Receive(s) PROVE LinesAreExact'
    <2>1. \A t \in Subs : Pipeline(t)' = Pipeline(t)
      BY <1>0, <1>5, LineMoves DEF RunLoop
    <2>2. UNCHANGED <<signal, signalled, since, done>>
      BY <1>5 DEF RunLoop, Wake, Pop, Send, Exit, Receive
    <2> QED
      BY <1>b, <2>1, <2>2
  <1>6. CASE SubscribeReturns
    <2>1. /\ lock = "subscribe" /\ since' = [since EXCEPT ![writing] = signalled]
          /\ UNCHANGED <<signal, signalled, done, got, out, held, store>>
      BY <1>6 DEF SubscribeReturns
    <2>2. ASSUME NEW t \in Subs PROVE LineIsExact(t)'
      <3>1. Reach(t) = signalled /\ Reach(t)' = signalled /\ Pipeline(t)' = Pipeline(t)
        BY <1>0, <1>a, <2>1 DEF SignalShape, Reach
      <3>2. CASE t # writing
        <4>1. since'[t] = since[t]
          BY <1>0, <2>1, <3>2 DEF TypeOK
        <4> QED
          BY <1>0, <2>1, <3>1, <4>1, SameLine
      <3>3. CASE t = writing
        <4>1. since'[t] = signalled /\ signalled \in Nat
          BY <1>0, <2>1, <3>3, EventsAssumption DEF TypeOK
        <4>2. Wants[t] \subseteq Nat
          BY EventsAssumption DEF Event
        <4>3. Increasing(Pipeline(t)') /\ \A i \in DOMAIN Pipeline(t)' : Pipeline(t)'[i] <= Reach(t)'
          BY <1>0, <3>1 DEF LineIsExact
        <4>4. \A e \in Wants[t] : ~(since'[t] < e /\ e <= Reach(t)')
          BY <3>1, <4>1, <4>2
        <4> QED
          BY <4>3, <4>4 DEF LineIsExact
      <3> QED
        BY <3>2, <3>3
    <2> QED
      BY <2>2 DEF LinesAreExact
  <1>7. CASE ~panicked /\ SignalEvent
    <2>1. UNCHANGED <<since, done, got, out, held, store>> /\ signal.step = "idle" /\ signalled < MaxEvents
      BY <1>7 DEF SignalEvent
    <2>2. CASE num = 0
      <3>1. signalled' = signalled + 1 /\ signal' = signal
        BY <1>7, <2>2 DEF SignalEvent
      <3>2. ASSUME NEW t \in Subs PROVE LineIsExact(t)'
        <4>1. Reach(t) = signalled /\ Reach(t)' = signalled + 1 /\ Pipeline(t)' = Pipeline(t)
          BY <1>a, <2>1, <3>1 DEF Reach
        <4>2. signalled + 1 \in Event
          BY <1>0, <2>1, EventsAssumption DEF TypeOK, Event
        <4>3. ~(~done[t] /\ since[t] # Never)
          BY <1>0, <1>7, <2>2, FastPathIsSafe
        <4> QED
          BY <1>0, <2>1, <4>1, <4>2, <4>3, LongerReach
      <3> QED
        BY <3>2 DEF LinesAreExact
    <2>3. CASE num # 0
      <3>1. signalled' = signalled /\ signal'.step = "lock"
        BY <1>7, <2>3, SlowPath
      <3>2. ASSUME NEW t \in Subs PROVE LineIsExact(t)'
        <4>1. Reach(t)' = Reach(t) /\ Pipeline(t)' = Pipeline(t)
          BY <1>a, <2>1, <3>1 DEF Reach
        <4> QED
          BY <1>0, <2>1, <4>1, SameLine
      <3> QED
        BY <3>2 DEF LinesAreExact
    <2> QED
      BY <2>2, <2>3
  <1>8. CASE SignalLocks
    <2>1. /\ UNCHANGED <<since, done, got, out, held, store, signalled>> /\ signal.step = "lock"
          /\ signal'.step = "visit" /\ signal'.todo = subscriptions
      BY <1>0, <1>8 DEF SignalLocks, TypeOK
    <2>2. ASSUME NEW t \in Subs PROVE LineIsExact(t)'
      <3>0. Pipeline(t)' = Pipeline(t) /\ Reach(t) = signalled
        BY <1>a, <2>1 DEF Reach
      <3>1. CASE t \in subscriptions
        <4>1. Reach(t)' = Reach(t)
          BY <2>1, <3>1 DEF Reach
        <4> QED
          BY <1>0, <2>1, <3>0, <4>1, SameLine
      <3>2. CASE t \notin subscriptions
        <4>1. Reach(t)' = signalled + 1
          BY <2>1, <3>2 DEF Reach
        <4>2. ~(~done[t] /\ since[t] # Never)
          BY <1>0, <3>2 DEF HandShape
        <4>3. signalled + 1 \in Event
          BY <1>0, <2>1, EventsAssumption DEF TypeOK, SignalShape, Event
        <4> QED
          BY <1>0, <2>1, <3>0, <4>1, <4>2, <4>3, LongerReach
      <3> QED
        BY <3>1, <3>2
    <2> QED
      BY <2>2 DEF LinesAreExact
  <1>9. ASSUME NEW s \in Subs, PushEvent(s) PROVE LinesAreExact'
    <2>1. /\ UNCHANGED <<since, done, got, out, held, signalled>> /\ signal.step = "visit" /\ s \in signal.todo
          /\ signal'.step \in {"visit", "notify"} /\ signal'.todo = signal.todo \ {s}
          /\ signal.event \notin Wants[s] => store' = store
          /\ signal.event \in Wants[s] => store' = [store EXCEPT ![s] = Append(@, signal.event)]
      BY <1>0, <1>9 DEF PushEvent, TypeOK
    <2>2. signal.event = signalled + 1 /\ signalled + 1 \in Event /\ signalled \in Nat
      BY <1>0, <2>1, EventsAssumption DEF TypeOK, HandShape, SignalShape, Event
    <2>3. Reach(s) = signalled /\ Reach(s)' = signalled + 1
      BY <2>1 DEF Reach
    <2>4. ASSUME NEW t \in Subs, t # s PROVE LineIsExact(t)'
      <3>1. Reach(t)' = Reach(t)
        BY <2>1, <2>4 DEF Reach
      <3>2. store'[t] = store[t]
        BY <1>0, <2>1, <2>4 DEF TypeOK
      <3>3. Pipeline(t)' = Pipeline(t)
        BY <2>1, <3>2 DEF Pipeline
      <3> QED
        BY <1>0, <2>1, <3>1, <3>3, SameLine
    <2>5. CASE signal.event \notin Wants[s]
      <3>1. Pipeline(s)' = Pipeline(s)
        BY <1>a, <2>1, <2>5
      <3>2. LineIsExact(s)'
        BY <1>0, <2>1, <2>2, <2>3, <2>5, <3>1, LongerReach
      <3> QED
        BY <2>4, <3>2 DEF LinesAreExact
    <2>6. CASE signal.event \in Wants[s]
      <3> DEFINE e == signalled + 1
                 line == Pipeline(s)
      <3>1. Pipeline(s)' = Append(line, e)
        <4> DEFINE x == (got[s] \o out[s]) \o (IF held[s] = NoEvent THEN <<>> ELSE <<held[s]>>)
        <4>1. x \in Seq(Event) /\ store[s] \in Seq(Event) /\ Pipeline(s) = x \o store[s]
          BY <1>0, PipelineParts
        <4>2. store'[s] = Append(store[s], e)
          BY <1>0, <2>1, <2>2, <2>6 DEF TypeOK
        <4>3. Pipeline(s)' = x \o Append(store[s], e)
          BY <2>1, <4>2 DEF Pipeline
        <4> HIDE DEF x
        <4> QED
          BY <2>2, <4>1, <4>3, AppendLast
      <3>2. line \in Seq(Event)
        BY <1>0, PipelineParts
      <3>3. Increasing(line) /\ \A i \in DOMAIN line : line[i] <= signalled
        BY <1>0, <2>3 DEF LineIsExact
      <3>4. ~done[s] => \A f \in Wants[s] : (since[s] < f /\ f <= signalled) => f \in Range(line)
        BY <1>0, <2>3 DEF LineIsExact
      <3> HIDE DEF line
      <3>5. /\ DOMAIN line = 1 .. Len(line) /\ Len(line) \in Nat
            /\ DOMAIN Append(line, e) = 1 .. Len(line) + 1
            /\ \A i \in 1 .. Len(line) : Append(line, e)[i] = line[i]
            /\ Append(line, e)[Len(line) + 1] = e
        BY <2>2, <3>2, AppendAt
      <3>6. \A i \in DOMAIN line : line[i] \in Nat
        <4>1. Event \subseteq Nat
          BY DEF Event
        <4> QED
          BY <3>2, <3>5, <4>1, ElementOfSeq
      <3>7. Increasing(Append(line, e))
        <4>1. \A i \in DOMAIN line : line[i] < e
          BY <2>2, <3>3, <3>6
        <4> QED
          BY <2>2, <3>2, <3>3, <4>1, IncreasingAppend
      <3>8. \A i \in DOMAIN Append(line, e) : Append(line, e)[i] <= e
        <4> SUFFICES ASSUME NEW i \in 1 .. Len(line) + 1 PROVE Append(line, e)[i] <= e
          BY <3>5
        <4>1. CASE i \in 1 .. Len(line)
          BY <2>2, <3>3, <3>5, <3>6, <4>1
        <4>2. CASE i = Len(line) + 1
          BY <2>2, <3>5, <4>2
        <4> QED
          BY <3>5, <4>1, <4>2
      <3>9. Range(Append(line, e)) = Range(line) \cup {e}
        BY <2>2, <3>2, RangeOfAppend
      <3>10. ASSUME ~done[s], NEW f \in Wants[s], since[s] < f, f <= e PROVE f \in Range(Append(line, e))
        <4>1. f \in Nat
          BY EventsAssumption DEF Event
        <4>2. CASE f = e
          BY <3>9, <4>2
        <4>3. CASE f # e
          <5>1. f <= signalled
            BY <2>2, <3>10, <4>1, <4>3
          <5> QED
            BY <3>4, <3>9, <3>10, <5>1
        <4> QED
          BY <4>2, <4>3
      <3>11. LineIsExact(s)'
        <4>1. Increasing(Pipeline(s)') /\ \A i \in DOMAIN Pipeline(s)' : Pipeline(s)'[i] <= Reach(s)'
          BY <2>3, <3>1, <3>7, <3>8
        <4>2. ~done'[s] => \A f \in Wants[s] : (since'[s] < f /\ f <= Reach(s)') => f \in Range(Pipeline(s)')
          BY <2>1, <2>3, <3>1, <3>10
        <4> QED
          BY <4>1, <4>2 DEF LineIsExact
      <3> QED
        BY <2>4, <3>11 DEF LinesAreExact
    <2> QED
      BY <2>5, <2>6
  <1>10. CASE Notify
    <2>1. /\ UNCHANGED <<since, done, got, out, held, store, signalled>>
          /\ signal.step = "notify" /\ signal'.step = "visit" /\ signal'.todo = signal.todo
      BY <1>0, <1>10 DEF Notify, TypeOK
    <2>2. ASSUME NEW t \in Subs PROVE LineIsExact(t)'
      <3>1. Reach(t)' = Reach(t) /\ Pipeline(t)' = Pipeline(t)
        BY <1>a, <2>1 DEF Reach
      <3> QED
        BY <1>0, <2>1, <3>1, SameLine
    <2> QED
      BY <2>2 DEF LinesAreExact
  <1>11. CASE SignalReturns
    <2>1. /\ UNCHANGED <<since, done, got, out, held, store>> /\ signalled' = signalled + 1
          /\ signal.step = "visit" /\ signal.todo = {} /\ signal'.step = "idle"
      BY <1>11 DEF SignalReturns, Idle
    <2>2. ASSUME NEW t \in Subs PROVE LineIsExact(t)'
      <3>1. Reach(t)' = Reach(t) /\ Pipeline(t)' = Pipeline(t)
        BY <1>a, <2>1 DEF Reach
      <3> QED
        BY <1>0, <2>1, <3>1, SameLine
    <2> QED
      BY <2>2 DEF LinesAreExact
  <1>12. CASE UNCHANGED vars
    BY <1>12, <1>a, <1>b DEF vars
  <1> QED
    BY <1>1, <1>2, <1>3, <1>4, <1>5, <1>6, <1>7, <1>8, <1>9, <1>10, <1>11, <1>12 DEF Next, Signaller

LEMMA InitLineInv == Init => LineInv
  <1> SUFFICES ASSUME Init PROVE LineInv
    OBVIOUS
  <1>1. HandShape
    BY DEF Init, HandShape, Idle
  <1>2. Counted = {}
    BY DEF Init, Counted
  <1>3. CountsCounted
    BY <1>2, FS_EmptySet DEF Init, CountsCounted
  <1>4. ASSUME NEW s \in Subs PROVE LineIsExact(s)
    <2>1. Pipeline(s) = ((<<>> \o <<>>) \o <<>>) \o <<>>
      BY DEF Init, Pipeline
    <2>2. Pipeline(s) = <<>>
      BY <2>1, ConcatEmptySeq
    <2>3. since[s] = Never /\ Reach(s) = 0
      BY DEF Init, Reach, Idle
    <2>4. \A e \in Wants[s] : e \in Nat /\ e # 0
      BY EventsAssumption DEF Event
    <2>5. \A e \in Wants[s] : ~(e <= 0)
      BY <2>4
    <2> QED
      BY <2>2, <2>3, <2>5 DEF LineIsExact, Increasing
  <1> QED
    BY InitIInv, <1>1, <1>3, <1>4 DEF LineInv, LinesAreExact

\* However SignalEvent's unlocked look at the counter, Subscribe, Cancel and
\* Close interleave with the loops: a subscriber gets its events in order, each
\* once, and until it is cancelled none that was signalled after Subscribe
\* returned is missing.
THEOREM SubscribersMissNothing == Spec => []SubscriberMissesNothing
  <1>1. LineInv /\ [Next]_vars => LineInv'
    <2>1. ASSUME LineInv, [Next]_vars PROVE LineInv'
      <3>1. IInv'
        BY <2>1, TypeStep, ShapeStep DEF LineInv, IInv
      <3> QED
        BY <2>1, <3>1, HandStep, CountedStep, LineStep DEF LineInv
    <2> QED
      BY <2>1
  <1>2. LineInv => SubscriberMissesNothing
    <2> SUFFICES ASSUME LineInv, NEW s \in Subs
                 PROVE  LET line == Pipeline(s)
                        IN  /\ \A i, j \in 1 .. Len(line) : i < j => line[i] < line[j]
                            /\ ~done[s] => \A e \in Wants[s] :
                                  (since[s] < e /\ e <= signalled) => \E i \in 1 .. Len(line) : line[i] = e
      BY DEF SubscriberMissesNothing
    <2> DEFINE line == Pipeline(s)
    <2>1. TypeOK /\ LineIsExact(s)
      BY DEF LineInv, IInv, LinesAreExact
    <2>2. line \in Seq(Event) /\ DOMAIN line = 1 .. Len(line)
      BY <2>1, PipelineParts, LenProperties
    <2>3. Increasing(line)
      BY <2>1 DEF LineIsExact
    <2>4. ASSUME ~done[s], NEW e \in Wants[s], since[s] < e, e <= signalled PROVE e \in Range(line)
      <3>1. e \in Nat /\ signalled \in Nat
        BY <2>1, EventsAssumption DEF TypeOK, Event
      <3>2. e <= Reach(s)
        BY <2>4, <3>1 DEF Reach
      <3> QED
        BY <2>1, <2>4, <3>2 DEF LineIsExact
    <2> HIDE DEF line
    <2>5. \A i, j \in 1 .. Len(line) : i < j => line[i] < line[j]
      BY <2>2, <2>3 DEF Increasing
    <2>6. ~done[s] => \A e \in Wants[s] : (since[s] < e /\ e <= signalled) => \E i \in 1 .. Len(line) : line[i] = e
      BY <2>2, <2>4 DEF Range
    <2> QED
      BY <2>5, <2>6 DEF line
  <1> QED
    BY InitLineInv, <1>1, <1>2, PTL DEF Spec

-----------------------------------------------------------------------------
(* GraphSubscription: the manager. *)

LEMMA ManagerStep == ASSUME [GNext]_allVars PROVE [Next]_vars
  <1> USE HandlersAssumption
  <1>1. CASE UNCHANGED allVars
    BY <1>1 DEF allVars
  <1>2. CASE ~panicked /\ Manager
    BY <1>2 DEF Manager, Others, Next
  <1>3. ASSUME ~panicked, NEW s \in Handlers,
               StartHandler(s) \/ HandlerStep(s) \/ SendItem(s) \/ ClientLeaves(s) \/ ReaderStops(s)
        PROVE  [Next]_vars
    <2>1. s \in Subs
      OBVIOUS
    <2>2. \/ UNCHANGED vars
          \/ Subscribe(s) \/ CancelSubscription(s) \/ Receive(s)
      BY <1>3 DEF StartHandler, HandlerStep, SendItem, ClientLeaves, ReaderStops, HandlerSubscribe,
                  HandlerReceive, HandlerClosed, HandlerDone, HandlerCancel, HandlerEnds
    <2> QED
      BY <1>3, <2>1, <2>2 DEF Next
  <1> QED
    BY <1>1, <1>2, <1>3 DEF GNext

\* handleChannel uses the event manager as any subscriber may: every behaviour
\* with its goroutines is a behaviour of Events.
THEOREM HandlersAreSubscribers == GSpec => Spec
  <1>1. GInit => Init
    BY DEF GInit
  <1>2. [GNext]_allVars => [Next]_vars
    BY ManagerStep
  <1> QED
    BY <1>1, <1>2, PTL DEF GSpec, Spec

\* What is proved of the event manager holds of it under GraphQL: its types,
\* its wake-ups, its counter, its safe cancels and what its subscribers get.
THEOREM ManagerKeepsItsPromises ==
    GSpec => [](TypeOK /\ NoLostWakeup /\ CounterMatchesMap /\ NoDoubleClose /\ SubscriberMissesNothing)
  BY HandlersAreSubscribers, TypeCorrect, WakeupsAreNotLost, CounterIsMapSize, CancelIsSafe,
     SubscribersMissNothing, PTL

-----------------------------------------------------------------------------
(* The stream of a client. *)

GraphTypes ==
    /\ handler \in [Handlers -> {"none", "started", "select", "send", "ending", "cancelling", "closed"}]
    /\ sending \in [Handlers -> Seq(Item)]
    /\ delivered \in [Handlers -> Seq(Item)]

\* Something is left to send exactly while the goroutine sends.
SendShape == \A s \in Handlers : handler[s] = "send" <=> sending[s] # <<>>

\* The items of the events a client's goroutine received.
Selected(s) == [i \in DOMAIN got[s] |-> Items[s][got[s][i]]]

GraphInv == GraphTypes /\ SendShape /\ StreamIsExact

LEMMA InitGraphInv == GInit => GraphInv
  <1> SUFFICES ASSUME GInit PROVE GraphInv
    OBVIOUS
  <1>1. <<>> \in Seq(Item)
    OBVIOUS
  <1>2. GraphTypes /\ SendShape
    BY <1>1 DEF GInit, GraphTypes, SendShape
  <1>3. ASSUME NEW s \in Handlers PROVE delivered[s] \o sending[s] = FlattenSeq(Selected(s))
    <2>1. got[s] = <<>> /\ delivered[s] = <<>> /\ sending[s] = <<>>
      BY HandlersAssumption DEF GInit, Init
    <2>2. Selected(s) = <<>>
      BY <2>1 DEF Selected
    <2>3. FlattenSeq(<<>>) = <<>>
      BY DEF FlattenSeq
    <2> QED
      BY <1>1, <2>1, <2>2, <2>3, ConcatEmptySeq
  <1>4. ASSUME NEW s \in Handlers PROVE handler[s] \in {"cancelling", "closed"} => s \notin subscriptions
    BY DEF GInit, Init
  <1> QED
    BY <1>2, <1>3, <1>4 DEF GraphInv, StreamIsExact, Selected

\* One more event received is one more sequence of items.
LEMMA SelectedMore ==
    ASSUME TypeOK, NEW s \in Handlers, Receive(s)
    PROVE  /\ Selected(s) \in Seq(Seq(Item))
           /\ Items[s][Head(out[s])] \in Seq(Item)
           /\ Selected(s)' = Append(Selected(s), Items[s][Head(out[s])])
  <1> DEFINE e == Head(out[s])
             x == got[s]
  <1>1. s \in Subs /\ x \in Seq(Event) /\ out[s] \in Seq(Event) /\ out[s] # <<>>
    BY HandlersAssumption DEF TypeOK, Receive
  <1>2. e \in Event
    BY <1>1, HeadTailProperties
  <1>3. got'[s] = Append(x, e)
    BY <1>1 DEF Receive, TypeOK
  <1>4. \A f \in Event : Items[s][f] \in Seq(Item)
    BY HandlersAssumption
  <1> HIDE DEF e, x
  <1>5. /\ DOMAIN x = 1 .. Len(x) /\ Len(x) \in Nat
        /\ DOMAIN Append(x, e) = 1 .. Len(x) + 1
        /\ \A i \in 1 .. Len(x) : Append(x, e)[i] = x[i]
        /\ Append(x, e)[Len(x) + 1] = e
    BY <1>1, <1>2, AppendAt
  <1> DEFINE sel == [i \in 1 .. Len(x) |-> Items[s][x[i]]]
             more == [i \in 1 .. Len(x) + 1 |-> Items[s][Append(x, e)[i]]]
  <1>6. \A i \in 1 .. Len(x) : x[i] \in Event
    BY <1>1, <1>5, ElementOfSeq
  <1>7. sel \in Seq(Seq(Item)) /\ Len(sel) = Len(x)
    BY <1>4, <1>5, <1>6
  <1>8. more \in Seq(Seq(Item)) /\ Len(more) = Len(x) + 1
    <2>1. \A i \in 1 .. Len(x) + 1 : Append(x, e)[i] \in Event
      BY <1>2, <1>5, <1>6
    <2> QED
      BY <1>4, <1>5, <2>1
  <1>9. \A i \in 1 .. Len(x) : more[i] = sel[i]
    BY <1>5
  <1>10. more[Len(x) + 1] = Items[s][e] /\ Items[s][e] \in Seq(Item)
    BY <1>2, <1>4, <1>5
  <1>11. Selected(s) = sel /\ Selected(s)' = more
    BY <1>3, <1>5 DEF Selected, x
  <1> HIDE DEF sel, more
  <1>12. more = Append(sel, Items[s][e])
    <2> DEFINE z == Append(sel, Items[s][e])
    <2>1. /\ z \in Seq(Seq(Item)) /\ Len(z) = Len(x) + 1
          /\ \A i \in 1 .. Len(x) : z[i] = sel[i]
          /\ z[Len(x) + 1] = Items[s][e]
      BY <1>7, <1>10, AppendProperties
    <2> HIDE DEF z
    <2>2. \A i \in 1 .. Len(more) : more[i] = z[i]
      <3> SUFFICES ASSUME NEW i \in 1 .. Len(x) + 1 PROVE more[i] = z[i]
        BY <1>8
      <3>1. CASE i \in 1 .. Len(x)
        BY <1>9, <2>1, <3>1
      <3>2. CASE i = Len(x) + 1
        BY <1>10, <2>1, <3>2
      <3> QED
        BY <1>5, <3>1, <3>2
    <2>3. more = z
      BY <1>8, <2>1, <2>2, SeqEqual
    <2> QED
      BY <2>3 DEF z
  <1> QED
    BY <1>7, <1>10, <1>11, <1>12 DEF e

LEMMA StreamStep == ASSUME TypeOK, GraphInv, [GNext]_allVars PROVE GraphInv'
  <1> DEFINE Exact(s) == delivered[s] \o sending[s] = FlattenSeq(Selected(s))
             Forgotten(s) == handler[s] \in {"cancelling", "closed"} => s \notin subscriptions
  <1>0. GraphTypes /\ SendShape /\ \A s \in Handlers : Exact(s) /\ Forgotten(s)
    BY DEF GraphInv, StreamIsExact, Selected
  <1>a. ASSUME GraphTypes', SendShape', \A s \in Handlers : Exact(s)' /\ Forgotten(s)' PROVE GraphInv'
    BY <1>a DEF GraphInv, StreamIsExact, Selected
  <1>b. ASSUME NEW s \in Handlers, UNCHANGED <<sending, delivered>>, got'[s] = got[s] PROVE Exact(s)'
    BY <1>0, <1>b DEF Selected
  <1>1. CASE UNCHANGED allVars
    BY <1>1, <1>0, <1>a, <1>b
       DEF allVars, graphVars, vars, managerVars, GraphTypes, SendShape
  <1>2. CASE Manager /\ UNCHANGED graphVars
    <2>1. UNCHANGED <<handler, sending, delivered>>
      BY <1>2 DEF graphVars
    <2>2. GraphTypes' /\ SendShape'
      BY <1>0, <2>1 DEF GraphTypes, SendShape
    <2>3. ASSUME NEW s \in Handlers PROVE got'[s] = got[s] /\ (s \in subscriptions' => s \in subscriptions)
      <3>1. ASSUME NEW t \in Others, Subscribe(t) \/ CancelSubscription(t) \/ Receive(t)
            PROVE  got'[s] = got[s] /\ (s \in subscriptions' => s \in subscriptions)
        <4>1. s # t /\ s \in Subs /\ t \in Subs
          BY HandlersAssumption DEF Others
        <4>2. CASE Subscribe(t) \/ CancelSubscription(t)
          BY <4>1, <4>2 DEF Subscribe, CancelSubscription
        <4>3. CASE Receive(t)
          BY <4>1, <4>3 DEF Receive, managerVars, TypeOK
        <4> QED
          BY <3>1, <4>2, <4>3
      <3>2. CASE SubscribeReturns \/ CancelReturns \/ Close
        BY <3>2 DEF SubscribeReturns, CancelReturns, Close
      <3>3. CASE Signaller
        BY <3>3 DEF Signaller, SignalEvent, SignalLocks, PushEvent, Notify, SignalReturns, managerVars
      <3>4. CASE \E t \in Subs : RunLoop(t)
        BY <3>4 DEF RunLoop, Wake, Pop, Send, Exit, managerVars
      <3> QED
        BY <1>2, <3>1, <3>2, <3>3, <3>4 DEF Manager
    <2> QED
      BY <1>0, <1>a, <1>b, <2>1, <2>2, <2>3
  <1>3. ASSUME NEW s \in Handlers,
               \/ StartHandler(s) \/ HandlerClosed(s) \/ HandlerDone(s) \/ HandlerEnds(s)
               \/ ClientLeaves(s) \/ ReaderStops(s)
        PROVE  GraphInv'
    <2>1. UNCHANGED <<got, subscriptions, sending, delivered>>
      BY <1>3 DEF StartHandler, HandlerClosed, HandlerDone, HandlerEnds, ClientLeaves, ReaderStops,
                  vars, managerVars
    <2>2. \/ handler' = handler
          \/ /\ handler[s] # "send"
             /\ \E place \in {"started", "ending", "closed"} :
                    /\ handler' = [handler EXCEPT ![s] = place]
                    /\ place = "closed" => handler[s] = "cancelling"
      BY <1>3 DEF StartHandler, HandlerClosed, HandlerDone, HandlerEnds, ClientLeaves, ReaderStops,
                  Selecting, Goto
    <2>3. GraphTypes'
      BY <1>0, <2>1, <2>2 DEF GraphTypes
    <2>4. SendShape'
      BY <1>0, <2>1, <2>2 DEF GraphTypes, SendShape
    <2>5. \A t \in Handlers : Forgotten(t)'
      BY <1>0, <2>1, <2>2 DEF GraphTypes
    <2> QED
      BY <1>a, <1>b, <2>1, <2>3, <2>4, <2>5
  <1>4. ASSUME NEW s \in Handlers, HandlerSubscribe(s) PROVE GraphInv'
    <2>1. /\ handler[s] = "started" /\ handler' = [handler EXCEPT ![s] = "select"]
          /\ subscriptions' = subscriptions \cup {s} /\ UNCHANGED <<got, sending, delivered>>
      BY <1>4 DEF HandlerSubscribe, Subscribe, Goto
    <2>2. GraphTypes' /\ SendShape' /\ \A t \in Handlers : Forgotten(t)'
      BY <1>0, <2>1 DEF GraphTypes, SendShape
    <2> QED
      BY <1>a, <1>b, <2>1, <2>2
  <1>5. ASSUME NEW s \in Handlers, HandlerCancel(s) PROVE GraphInv'
    <2>1. /\ handler[s] = "ending" /\ handler' = [handler EXCEPT ![s] = "cancelling"]
          /\ subscriptions' = subscriptions \ {s} /\ UNCHANGED <<got, sending, delivered>>
      BY <1>5 DEF HandlerCancel, CancelSubscription, Goto
    <2>2. GraphTypes' /\ SendShape' /\ \A t \in Handlers : Forgotten(t)'
      BY <1>0, <2>1 DEF GraphTypes, SendShape
    <2> QED
      BY <1>a, <1>b, <2>1, <2>2
  <1>6. ASSUME NEW s \in Handlers, HandlerReceive(s) PROVE GraphInv'
    <2> DEFINE items == Items[s][Head(out[s])]
    <2>1. /\ handler[s] = "select" /\ Receive(s) /\ sending' = [sending EXCEPT ![s] = items]
          /\ handler' = [handler EXCEPT ![s] = IF items = <<>> THEN "select" ELSE "send"]
          /\ delivered' = delivered
      BY <1>6 DEF HandlerReceive, Selecting, Goto
    <2>2. subscriptions' = subscriptions /\ \A t \in Handlers : t # s => got'[t] = got[t]
      BY <2>1, HandlersAssumption DEF Receive, managerVars, TypeOK
    <2>3. items \in Seq(Item) /\ Selected(s) \in Seq(Seq(Item)) /\ Selected(s)' = Append(Selected(s), items)
      BY <2>1, SelectedMore
    <2>4. FlattenSeq(Selected(s)') = FlattenSeq(Selected(s)) \o items
      BY <2>3, FlattenAppend
    <2> HIDE DEF items
    <2>5. GraphTypes'
      BY <1>0, <2>1, <2>3 DEF GraphTypes
    <2>6. SendShape'
      BY <1>0, <2>1 DEF GraphTypes, SendShape
    <2>7. \A t \in Handlers : Forgotten(t)'
      BY <1>0, <2>1, <2>2 DEF GraphTypes
    <2>8. Exact(s)'
      <3>1. sending[s] = <<>> /\ delivered[s] \in Seq(Item) /\ sending'[s] = items
        BY <1>0, <2>1 DEF SendShape, GraphTypes
      <3>2. delivered[s] \o <<>> = delivered[s]
        BY <3>1, ConcatEmptySeq
      <3>3. FlattenSeq(Selected(s)) = delivered[s]
        BY <1>0, <3>1, <3>2
      <3> QED
        BY <2>1, <2>4, <3>1, <3>3
    <2>9. ASSUME NEW t \in Handlers, t # s PROVE Exact(t)'
      <3>1. sending'[t] = sending[t] /\ got'[t] = got[t] /\ delivered'[t] = delivered[t]
        BY <1>0, <2>1, <2>2, <2>9 DEF GraphTypes
      <3> QED
        BY <1>0, <3>1 DEF Selected
    <2> QED
      BY <1>a, <2>5, <2>6, <2>7, <2>8, <2>9
  <1>7. ASSUME NEW s \in Handlers, SendItem(s) PROVE GraphInv'
    <2>1. /\ handler[s] = "send"
          /\ delivered' = [delivered EXCEPT ![s] = Append(@, Head(sending[s]))]
          /\ sending' = [sending EXCEPT ![s] = Tail(@)]
          /\ handler' = [handler EXCEPT ![s] = IF Len(sending[s]) = 1 THEN "select" ELSE "send"]
          /\ UNCHANGED <<got, subscriptions>>
      BY <1>7 DEF SendItem, Goto, vars, managerVars
    <2>2. sending[s] \in Seq(Item) /\ sending[s] # <<>> /\ delivered[s] \in Seq(Item)
      BY <1>0, <2>1 DEF SendShape, GraphTypes
    <2>3. /\ Head(sending[s]) \in Item /\ Tail(sending[s]) \in Seq(Item)
          /\ Len(Tail(sending[s])) = Len(sending[s]) - 1 /\ Len(sending[s]) \in Nat
      BY <2>2, HeadTailProperties, LenProperties
    <2>4. Tail(sending[s]) = <<>> <=> Len(sending[s]) = 1
      <3>1. Len(Tail(sending[s])) = 0 <=> Len(sending[s]) = 1
        BY <2>3
      <3>2. Tail(sending[s]) = <<>> <=> Len(Tail(sending[s])) = 0
        BY <2>3, EmptySeq
      <3> QED
        BY <3>1, <3>2
    <2>5. GraphTypes'
      <3>1. Append(delivered[s], Head(sending[s])) \in Seq(Item)
        BY <2>2, <2>3, AppendProperties
      <3> QED
        BY <1>0, <2>1, <2>3, <3>1 DEF GraphTypes
    <2>6. SendShape'
      <3> SUFFICES ASSUME NEW t \in Handlers PROVE handler'[t] = "send" <=> sending'[t] # <<>>
        BY DEF SendShape
      <3>1. CASE t # s
        BY <1>0, <2>1, <3>1 DEF GraphTypes, SendShape
      <3>2. CASE t = s
        <4>1. sending'[s] = Tail(sending[s]) /\ handler'[s] = IF Len(sending[s]) = 1 THEN "select" ELSE "send"
          BY <1>0, <2>1 DEF GraphTypes
        <4> QED
          BY <2>4, <3>2, <4>1
      <3> QED
        BY <3>1, <3>2
    <2>7. \A t \in Handlers : Forgotten(t)'
      BY <1>0, <2>1 DEF GraphTypes
    <2>8. ASSUME NEW t \in Handlers PROVE Exact(t)'
      <3>1. Selected(t)' = Selected(t)
        BY <2>1 DEF Selected
      <3>2. delivered'[t] \o sending'[t] = delivered[t] \o sending[t]
        <4>1. CASE t # s
          BY <1>0, <2>1, <4>1 DEF GraphTypes
        <4>2. CASE t = s
          <5>1. delivered'[s] = Append(delivered[s], Head(sending[s])) /\ sending'[s] = Tail(sending[s])
            BY <1>0, <2>1 DEF GraphTypes
          <5> QED
            BY <2>2, <4>2, <5>1, MoveHead
        <4> QED
          BY <4>1, <4>2
      <3> QED
        BY <1>0, <3>1, <3>2
    <2> QED
      BY <1>a, <2>5, <2>6, <2>7, <2>8
  <1> QED
    BY <1>1, <1>2, <1>3, <1>4, <1>5, <1>6, <1>7 DEF GNext, HandlerStep

\* What a client of GraphQL gets is, item by item and in order, what its filter
\* selects of the events its goroutine received, up to the item being sent, and
\* the manager has forgotten every goroutine that ended - for any number of
\* clients, events and items, wherever clients leave and the manager closes.
THEOREM StreamsAreExact == GSpec => []StreamIsExact
  <1>1. TypeOK /\ GraphInv /\ [GNext]_allVars => GraphInv'
    BY StreamStep
  <1>2. GraphInv => StreamIsExact
    BY DEF GraphInv
  <1>3. GSpec => []TypeOK
    BY ManagerKeepsItsPromises, PTL
  <1> QED
    BY InitGraphInv, <1>1, <1>2, <1>3, PTL DEF GSpec

=============================================================================
