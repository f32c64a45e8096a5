------------------------------- MODULE Events -------------------------------
(***************************************************************************)
(* The event manager (src/events): the fetcher's goroutine signals events, *)
(* any number of goroutines subscribe and cancel, and every subscription   *)
(* has a runLoop goroutine between its unbounded store and its output      *)
(* channel of capacity one.                                                *)
(*                                                                         *)
(* Events are numbered in the order they are signalled.  Wants[s] are the  *)
(* events whose type the subscription asked for (eventSupported).  A       *)
(* subscription is used once: identifiers are fresh.                       *)
(***************************************************************************)
EXTENDS Integers, Sequences, FiniteSets

CONSTANTS Subs,       \* subscriptions
          MaxEvents,  \* bound: number of SignalEvent calls
          Wants,      \* the events each subscription supports
          NoEvent,    \* no event in hand
          NoSub       \* no subscription in hand

Event == 1 .. MaxEvents

ASSUME EventsAssumption ==
    /\ MaxEvents \in Nat
    /\ Wants \in [Subs -> SUBSET Event]
    /\ NoEvent \notin Event
    /\ NoSub \notin Subs

VARIABLES
    subscriptions,  \* Manager.subscriptions: the keys of the map
    num,            \* Manager.numSubscriptions
    lock,           \* Manager.subscriptionsLock: "free", "read", or the writer's call
    writing,        \* the subscription the writer works on
    closed,         \* Manager.Close was called
    panicked,       \* doneCh of a subscription was closed twice
    signal,         \* the SignalEvent call: step, event, subscriptions to visit, visited one
    signalled,      \* history: number of SignalEvent calls that returned
    since,          \* history: value of signalled when Subscribe returned
    store,          \* eventStore
    notify,         \* tokens in notifyCh
    done,           \* doneCh is closed
    out,            \* contents of outputCh
    loop,           \* where runLoop stands
    held,           \* the event runLoop has popped and not passed on
    got             \* history: events received by the subscriber

managerVars == <<subscriptions, num, lock, writing, closed, panicked>>
signalVars == <<signal, signalled>>
loopVars == <<loop, held, out>>
vars == <<managerVars, signalVars, since, store, notify, done, loopVars, got>>

Idle == [step |-> "idle", event |-> NoEvent, todo |-> {}, at |-> NoSub]
Never == MaxEvents + 1

Init ==
    /\ subscriptions = {} /\ num = 0
    /\ lock = "free" /\ writing = NoSub
    /\ closed = FALSE /\ panicked = FALSE
    /\ signal = Idle /\ signalled = 0
    /\ since = [s \in Subs |-> Never]
    /\ store = [s \in Subs |-> <<>>]
    /\ notify = [s \in Subs |-> 0]
    /\ done = [s \in Subs |-> FALSE]
    /\ out = [s \in Subs |-> <<>>]
    /\ loop = [s \in Subs |-> "none"]
    /\ held = [s \in Subs |-> NoEvent]
    /\ got = [s \in Subs |-> <<>>]

-----------------------------------------------------------------------------
(* Subscribe, CancelSubscription and Close hold the write lock; the counter  *)
(* is read without it, so its update is a step of its own.                   *)

\* Subscribe: into the map, and runLoop starts.
Subscribe(s) ==
    /\ lock = "free" /\ loop[s] = "none"
    /\ lock' = "subscribe" /\ writing' = s
    /\ subscriptions' = subscriptions \cup {s}
    /\ loop' = [loop EXCEPT ![s] = "wait"]
    /\ UNCHANGED <<num, closed, panicked, signalVars, since, store, notify, done, held, out, got>>

\* Subscribe: the counter, and the return.
SubscribeReturns ==
    /\ lock = "subscribe"
    /\ num' = num + 1
    /\ since' = [since EXCEPT ![writing] = signalled]
    /\ lock' = "free" /\ writing' = NoSub
    /\ UNCHANGED <<subscriptions, closed, panicked, signalVars, store, notify, done, loopVars, got>>

\* Deviation of CancelSubscription: the map keeps the subscription.
CancelWithoutDelete(s) ==
    /\ lock = "free" /\ since[s] # Never
    /\ s \in subscriptions
    /\ panicked' = (panicked \/ done[s])
    /\ done' = [done EXCEPT ![s] = TRUE]
    /\ lock' = "cancel" /\ writing' = s
    /\ UNCHANGED <<subscriptions, num, closed, signalVars, since, store, notify, loopVars, got>>

\* CancelSubscription: close and delete; an unknown id does nothing.
CancelSubscription(s) ==
    /\ lock = "free" /\ since[s] # Never
    /\ s \in subscriptions
    /\ panicked' = (panicked \/ done[s])
    /\ done' = [done EXCEPT ![s] = TRUE]
    /\ subscriptions' = subscriptions \ {s}
    /\ lock' = "cancel" /\ writing' = s
    /\ UNCHANGED <<num, closed, signalVars, since, store, notify, loopVars, got>>

\* Deviation of CancelReturns: the counter is left alone.
CancelWithoutCount ==
    /\ lock = "cancel"
    /\ lock' = "free" /\ writing' = NoSub
    /\ UNCHANGED <<subscriptions, num, closed, panicked, signalVars, since, store, notify, done, loopVars, got>>

\* CancelSubscription: the counter, and the return.
CancelReturns ==
    /\ lock = "cancel"
    /\ num' = num - 1
    /\ lock' = "free" /\ writing' = NoSub
    /\ UNCHANGED <<subscriptions, closed, panicked, signalVars, since, store, notify, done, loopVars, got>>

\* Close: every subscription is closed and stays in the map.
Close ==
    /\ lock = "free" /\ ~closed
    /\ closed' = TRUE
    /\ done' = [s \in Subs |-> done[s] \/ s \in subscriptions]
    /\ num' = 0
    /\ UNCHANGED <<subscriptions, lock, writing, panicked, signalVars, since, store, notify, loopVars, got>>

-----------------------------------------------------------------------------
(* SignalEvent, called by the one goroutine of the fetcher. *)

\* The counter is read without the lock.
SignalEvent ==
    /\ signal.step = "idle" /\ signalled < MaxEvents
    /\ IF num = 0
       THEN signalled' = signalled + 1 /\ UNCHANGED signal
       ELSE signal' = [Idle EXCEPT !.step = "lock", !.event = signalled + 1] /\ UNCHANGED signalled
    /\ UNCHANGED <<managerVars, since, store, notify, done, loopVars, got>>

\* RLock, and the range over the map begins.
SignalLocks ==
    /\ signal.step = "lock" /\ lock = "free"
    /\ lock' = "read"
    /\ signal' = [signal EXCEPT !.step = "visit", !.todo = subscriptions]
    /\ UNCHANGED <<subscriptions, num, writing, closed, panicked, signalled, since, store, notify, done, loopVars, got>>

\* pushEvent: the event goes into the store, unless its type is not supported.
PushEvent(s) ==
    /\ signal.step = "visit" /\ s \in signal.todo
    /\ IF signal.event \in Wants[s]
       THEN /\ store' = [store EXCEPT ![s] = Append(@, signal.event)]
            /\ signal' = [signal EXCEPT !.step = "notify", !.todo = @ \ {s}, !.at = s]
       ELSE /\ signal' = [signal EXCEPT !.todo = @ \ {s}]
            /\ UNCHANGED store
    /\ UNCHANGED <<managerVars, signalled, since, notify, done, loopVars, got>>

\* Deviation of Notify: a token per event.
NotifyEach ==
    /\ signal.step = "notify"
    /\ notify' = [notify EXCEPT ![signal.at] = @ + 1]
    /\ signal' = [signal EXCEPT !.step = "visit", !.at = NoSub]
    /\ UNCHANGED <<managerVars, signalled, since, store, done, loopVars, got>>

\* Deviation of Notify: a blocking send.
NotifyBlocking ==
    /\ signal.step = "notify"
    /\ notify[signal.at] = 0
    /\ notify' = [notify EXCEPT ![signal.at] = 1]
    /\ signal' = [signal EXCEPT !.step = "visit", !.at = NoSub]
    /\ UNCHANGED <<managerVars, signalled, since, store, done, loopVars, got>>

\* pushEvent: a token into notifyCh, unless one is there already.
Notify ==
    /\ signal.step = "notify"
    /\ notify' = [notify EXCEPT ![signal.at] = 1]
    /\ signal' = [signal EXCEPT !.step = "visit", !.at = NoSub]
    /\ UNCHANGED <<managerVars, signalled, since, store, done, loopVars, got>>

\* RUnlock, and the return.
SignalReturns ==
    /\ signal.step = "visit" /\ signal.todo = {}
    /\ signalled' = signalled + 1
    /\ signal' = Idle
    /\ lock' = "free"
    /\ UNCHANGED <<subscriptions, num, writing, closed, panicked, since, store, notify, done, loopVars, got>>

-----------------------------------------------------------------------------
(* runLoop. *)

\* case <-es.notifyCh
Wake(s) ==
    /\ loop[s] = "wait" /\ notify[s] = 1
    /\ notify' = [notify EXCEPT ![s] = 0]
    /\ loop' = [loop EXCEPT ![s] = "pop"]
    /\ UNCHANGED <<managerVars, signalVars, since, store, done, held, out, got>>

\* Deviation of Pop: the newest event first.
PopNewest(s) ==
    /\ loop[s] = "pop"
    /\ IF store[s] = <<>>
       THEN /\ loop' = [loop EXCEPT ![s] = "wait"]
            /\ UNCHANGED <<store, held>>
       ELSE /\ loop' = [loop EXCEPT ![s] = "send"]
            /\ held' = [held EXCEPT ![s] = store[s][Len(store[s])]]
            /\ store' = [store EXCEPT ![s] = SubSeq(@, 1, Len(@) - 1)]
    /\ UNCHANGED <<managerVars, signalVars, since, notify, done, out, got>>

\* pop: the oldest event, or back to waiting when the store is empty.
Pop(s) ==
    /\ loop[s] = "pop"
    /\ IF store[s] = <<>>
       THEN /\ loop' = [loop EXCEPT ![s] = "wait"]
            /\ UNCHANGED <<store, held>>
       ELSE /\ loop' = [loop EXCEPT ![s] = "send"]
            /\ held' = [held EXCEPT ![s] = Head(store[s])]
            /\ store' = [store EXCEPT ![s] = Tail(@)]
    /\ UNCHANGED <<managerVars, signalVars, since, notify, done, out, got>>

\* Deviation of Send: one event per token, then back to waiting.
SendThenWait(s) ==
    /\ loop[s] = "send" /\ out[s] = <<>>
    /\ out' = [out EXCEPT ![s] = <<held[s]>>]
    /\ held' = [held EXCEPT ![s] = NoEvent]
    /\ loop' = [loop EXCEPT ![s] = "wait"]
    /\ UNCHANGED <<managerVars, signalVars, since, store, notify, done, got>>

\* case es.outputCh <- event
Send(s) ==
    /\ loop[s] = "send" /\ out[s] = <<>>
    /\ out' = [out EXCEPT ![s] = <<held[s]>>]
    /\ held' = [held EXCEPT ![s] = NoEvent]
    /\ loop' = [loop EXCEPT ![s] = "pop"]
    /\ UNCHANGED <<managerVars, signalVars, since, store, notify, done, got>>

\* Deviation of Exit: doneCh is only watched between bursts.
ExitWhenWaiting(s) ==
    /\ loop[s] = "wait" /\ done[s]
    /\ loop' = [loop EXCEPT ![s] = "exited"]
    /\ UNCHANGED <<managerVars, signalVars, since, store, notify, done, held, out, got>>

\* case <-es.doneCh of either select: outputCh is closed, what is left in the
\* store, or in hand, is dropped.
Exit(s) ==
    /\ loop[s] \in {"wait", "send"} /\ done[s]
    /\ loop' = [loop EXCEPT ![s] = "exited"]
    /\ UNCHANGED <<managerVars, signalVars, since, store, notify, done, held, out, got>>

\* The subscriber receives from SubCh (external).
Receive(s) ==
    /\ out[s] # <<>>
    /\ got' = [got EXCEPT ![s] = Append(@, Head(out[s]))]
    /\ out' = [out EXCEPT ![s] = Tail(@)]
    /\ UNCHANGED <<managerVars, signalVars, since, store, notify, done, loop, held>>

-----------------------------------------------------------------------------

Signaller == SignalEvent \/ SignalLocks \/ (\E s \in Subs : PushEvent(s)) \/ Notify \/ SignalReturns

RunLoop(s) == Wake(s) \/ Pop(s) \/ Send(s) \/ Exit(s)

\* A panic ends the process and with it every goroutine.
Next ==
    /\ ~panicked
    /\ \/ \E s \in Subs : Subscribe(s)
       \/ \E s \in Subs : CancelSubscription(s)
       \/ SubscribeReturns \/ CancelReturns
       \/ Close
       \/ Signaller
       \/ \E s \in Subs : RunLoop(s)
       \/ \E s \in Subs : Receive(s)

Spec == Init /\ [][Next]_vars

\* Goroutines run: whoever has begun a call of the manager finishes it, and
\* every runLoop is scheduled.  Nothing is assumed of the subscribers.
Fairness ==
    /\ WF_vars(~panicked /\ (SubscribeReturns \/ CancelReturns))
    /\ WF_vars(~panicked /\ (SignalLocks \/ (\E s \in Subs : PushEvent(s)) \/ Notify \/ SignalReturns))
    /\ \A s \in Subs : WF_vars(~panicked /\ RunLoop(s))

LiveSpec == Spec /\ Fairness

-----------------------------------------------------------------------------
(* Properties. *)

\* The types of the manager's and the subscriptions' state.
TypeOK ==
    /\ subscriptions \subseteq Subs
    /\ num \in Int
    /\ lock \in {"free", "read", "subscribe", "cancel"}
    /\ writing \in Subs \cup {NoSub}
    /\ closed \in BOOLEAN /\ panicked \in BOOLEAN
    /\ signal \in [step : {"idle", "lock", "visit", "notify"}, event : Event \cup {NoEvent},
                   todo : SUBSET Subs, at : Subs \cup {NoSub}]
    /\ signalled \in 0 .. MaxEvents
    /\ since \in [Subs -> 0 .. Never]
    /\ store \in [Subs -> Seq(Event)]
    /\ notify \in [Subs -> {0, 1}]
    /\ done \in [Subs -> BOOLEAN]
    /\ out \in [Subs -> Seq(Event)]
    /\ loop \in [Subs -> {"none", "wait", "pop", "send", "exited"}]
    /\ held \in [Subs -> Event \cup {NoEvent}]
    /\ got \in [Subs -> Seq(Event)]

\* A loop that waits has a token for whatever lies in its store, except between
\* the two halves of pushEvent: the coalesced notification (notifyCh holds one
\* token, the default branch drops the rest) never strands an event.
NoLostWakeup ==
    \A s \in Subs :
        (loop[s] = "wait" /\ store[s] # <<>> /\ signal.at # s) => notify[s] = 1

\* What the subscriber received, then what is on its way to it.
Pipeline(s) ==
    got[s] \o out[s] \o (IF held[s] = NoEvent THEN <<>> ELSE <<held[s]>>) \o store[s]

\* Until it is cancelled, a subscriber gets its events in the order they were
\* signalled, each once, and misses none that was signalled after Subscribe
\* returned - although the counter is read without the lock and the map changes
\* between events.
SubscriberMissesNothing ==
    \A s \in Subs :
        LET line == Pipeline(s)
        IN  /\ \A i, j \in 1 .. Len(line) : i < j => line[i] < line[j]
            /\ ~done[s] => \A e \in Wants[s] :
                               (since[s] < e /\ e <= signalled) => \E i \in 1 .. Len(line) : line[i] = e

\* Outside the write lock the counter is the size of the map, so the fast path
\* of SignalEvent never hides a subscription (until Close).
CounterMatchesMap ==
    (~closed /\ lock \in {"free", "read"}) => num = Cardinality(subscriptions)

\* Only after Close can a doneCh be closed twice: cancelling is safe however
\* often and by whomever it is done.
NoDoubleClose == panicked => closed

\* SignalEvent returns whatever the subscribers do: a slow or dead subscriber
\* never holds up the fetcher.
SignalReturnsAlways == (signal.step # "idle") ~> (signal.step = "idle" \/ panicked)

\* A cancelled subscription's goroutine ends, even with a subscriber that no
\* longer receives and events still to pass on.
CancelledLoopsEnd == \A s \in Subs : done[s] ~> (loop[s] = "exited" \/ panicked)

=============================================================================
