------------------------- MODULE GraphSubscription -------------------------
(***************************************************************************)
(* The subscriptions of GraphQL: handleChannel                             *)
(* (src/serve/graph/resolver.go) between a subscription of the event       *)
(* manager and the reader gqlgen runs for the client                       *)
(* (src/serve/graph/generated.go), joined by a channel without a buffer.   *)
(*                                                                         *)
(* Each subscription in Handlers belongs to such a goroutine, the others   *)
(* to other subscribers of Events.  Items[s][e] are the objects of event e *)
(* the filter of s selects, in order.                                      *)
(***************************************************************************)
EXTENDS Events, SequencesExt

CONSTANTS Handlers,  \* the subscriptions of handleChannel
          Items      \* what each of them writes for each event

Item == UNION {ToSet(Items[s][e]) : s \in Handlers, e \in Event}

ASSUME HandlersAssumption ==
    /\ Handlers \subseteq Subs
    /\ Items \in [Handlers -> [Event -> Seq(Item)]]

VARIABLES
    handler,    \* where the goroutine stands
    sending,    \* what is left to write of the event in hand
    reader,     \* the reader of the channel: "reading" or "stopped"
    gone,       \* ctx is done: the client left
    delivered   \* history: what the reader received

graphVars == <<handler, sending, reader, gone, delivered>>
allVars == <<vars, graphVars>>

GInit ==
    /\ Init
    /\ handler = [s \in Handlers |-> "none"]
    /\ sending = [s \in Handlers |-> <<>>]
    /\ reader = [s \in Handlers |-> "reading"]
    /\ gone = [s \in Handlers |-> FALSE]
    /\ delivered = [s \in Handlers |-> <<>>]

Goto(s, place) == handler' = [handler EXCEPT ![s] = place]

-----------------------------------------------------------------------------
(* The goroutine. *)

\* The resolver returns the channel; the goroutine has yet to subscribe.
StartHandler(s) ==
    /\ handler[s] = "none"
    /\ Goto(s, "started")
    /\ UNCHANGED <<vars, sending, reader, gone, delivered>>

HandlerSubscribe(s) ==
    /\ handler[s] = "started"
    /\ Subscribe(s)
    /\ Goto(s, "select")
    /\ UNCHANGED <<sending, reader, gone, delivered>>

\* The select is reached when Subscribe has returned.
Selecting(s) == handler[s] = "select" /\ since[s] # Never

\* case rawE := <-sub.SubCh, and writeToChannel begins.
HandlerReceive(s) ==
    /\ Selecting(s)
    /\ Receive(s)
    /\ LET items == Items[s][Head(out[s])]
       IN  /\ sending' = [sending EXCEPT ![s] = items]
           /\ Goto(s, IF items = <<>> THEN "select" ELSE "send")
    /\ UNCHANGED <<reader, gone, delivered>>

\* SubCh is closed.
HandlerClosed(s) ==
    /\ Selecting(s) /\ loop[s] = "exited" /\ out[s] = <<>>
    /\ Goto(s, "ending")
    /\ UNCHANGED <<vars, sending, reader, gone, delivered>>

\* Deviation of HandlerDone: ctx is only looked at between events.
HandlerDoneAfterEvent(s) ==
    /\ Selecting(s) /\ gone[s] /\ got[s] # <<>>
    /\ Goto(s, "ending")
    /\ UNCHANGED <<vars, sending, reader, gone, delivered>>

\* case <-ctx.Done()
HandlerDone(s) ==
    /\ Selecting(s) /\ gone[s]
    /\ Goto(s, "ending")
    /\ UNCHANGED <<vars, sending, reader, gone, delivered>>

\* Deviation of SendItem: the rest of the event is dropped after one item.
SendFirstItem(s) ==
    /\ handler[s] = "send" /\ reader[s] = "reading"
    /\ delivered' = [delivered EXCEPT ![s] = Append(@, Head(sending[s]))]
    /\ sending' = [sending EXCEPT ![s] = <<>>]
    /\ Goto(s, "select")
    /\ UNCHANGED <<vars, reader, gone>>

\* c <- item, when the reader receives it.  ctx is not watched here.
SendItem(s) ==
    /\ handler[s] = "send" /\ reader[s] = "reading"
    /\ delivered' = [delivered EXCEPT ![s] = Append(@, Head(sending[s]))]
    /\ sending' = [sending EXCEPT ![s] = Tail(@)]
    /\ Goto(s, IF Len(sending[s]) = 1 THEN "select" ELSE "send")
    /\ UNCHANGED <<vars, reader, gone>>

\* The deferred calls: CancelSubscription, then close.
HandlerCancel(s) ==
    /\ handler[s] = "ending"
    /\ CancelSubscription(s)
    /\ Goto(s, "cancelling")
    /\ UNCHANGED <<sending, reader, gone, delivered>>

HandlerEnds(s) ==
    /\ handler[s] = "cancelling" /\ writing # s
    /\ Goto(s, "closed")
    /\ UNCHANGED <<vars, sending, reader, gone, delivered>>

-----------------------------------------------------------------------------
(* The client and its reader. *)

\* The client unsubscribes or its connection breaks.
ClientLeaves(s) ==
    /\ handler[s] # "none" /\ ~gone[s]
    /\ gone' = [gone EXCEPT ![s] = TRUE]
    /\ UNCHANGED <<vars, handler, sending, reader, delivered>>

\* case <-ctx.Done() of the reader, or the channel is closed.
ReaderStops(s) ==
    /\ reader[s] = "reading" /\ (gone[s] \/ handler[s] = "closed")
    /\ reader' = [reader EXCEPT ![s] = "stopped"]
    /\ UNCHANGED <<vars, handler, sending, gone, delivered>>

-----------------------------------------------------------------------------

Others == Subs \ Handlers

Manager ==
    \/ \E s \in Others : Subscribe(s) \/ CancelSubscription(s) \/ Receive(s)
    \/ SubscribeReturns \/ CancelReturns \/ Close
    \/ Signaller
    \/ \E s \in Subs : RunLoop(s)

HandlerStep(s) ==
    \/ HandlerSubscribe(s) \/ HandlerReceive(s) \/ HandlerClosed(s) \/ HandlerDone(s)
    \/ HandlerCancel(s) \/ HandlerEnds(s)

GNext ==
    /\ ~panicked
    /\ \/ Manager /\ UNCHANGED graphVars
       \/ \E s \in Handlers : StartHandler(s) \/ HandlerStep(s) \/ SendItem(s) \/ ClientLeaves(s) \/ ReaderStops(s)

GSpec == GInit /\ [][GNext]_allVars

\* Goroutines run; of the client nothing is assumed, but its reader notices
\* that it left.
GFairness ==
    /\ Fairness
    /\ \A s \in Handlers : WF_allVars(~panicked /\ HandlerStep(s)) /\ WF_allVars(~panicked /\ ReaderStops(s))

GLiveSpec == GSpec /\ GFairness

-----------------------------------------------------------------------------
(* Properties. *)

\* What a client gets is, item by item and in order, what its filter selects of
\* the events it received, up to the item being sent; and the manager has
\* forgotten every handler that ended.
StreamIsExact ==
    \A s \in Handlers :
        /\ delivered[s] \o sending[s] = FlattenSeq([i \in DOMAIN got[s] |-> Items[s][got[s][i]]])
        /\ handler[s] \in {"cancelling", "closed"} => s \notin subscriptions

\* A client that left is let go: its goroutine ends and its subscription with
\* it, unless it is in the middle of a send nobody will ever receive.
Stuck(s) == handler[s] = "send" /\ reader[s] = "stopped"
LeftClientsAreReleased ==
    \A s \in Handlers : (gone[s] /\ handler[s] # "none") ~> (handler[s] = "closed" \/ Stuck(s) \/ panicked)

\* A reader that goes on reading gets everything its filter selects of the
\* events signalled since the goroutine subscribed, unless it leaves or the
\* manager is closed.
Complete(s) ==
    \A e \in Wants[s] : (since[s] < e /\ e <= signalled) => ToSet(Items[s][e]) \subseteq ToSet(delivered[s])
StreamsDelivered ==
    (\A s \in Handlers : WF_allVars(~panicked /\ SendItem(s))) =>
        \A s \in Handlers : []<>(gone[s] \/ closed \/ panicked \/ Complete(s))

=============================================================================
