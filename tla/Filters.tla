------------------------------- MODULE Filters -------------------------------
(***************************************************************************)
(* The polled filters (src/serve/filters): the manager's event loop feeds  *)
(* every installed filter, clients install, poll and uninstall filters     *)
(* through JSON-RPC, and a cleanup routine collects the idle ones.         *)
(*                                                                         *)
(* Feed is what subscribeToEvents applies, in its order: each block, then  *)
(* the results that came with it.  An element of Feed is named by its      *)
(* index.  The notifications sent between two elements are the subject of  *)
(* Subscriptions.  A range over the map holds the map's lock, so the other *)
(* operations on the map wait for it; a client that already has a filter   *)
(* in hand needs the filter's own lock only.                               *)
(***************************************************************************)
EXTENDS Integers, Sequences, FiniteSets, Functions

CONSTANTS Ids,       \* filter ids; an id is used once
          Callers,   \* concurrent getFilterChanges requests
          Options,   \* what each id is installed with
          Feed,      \* blocks and results, in the order they are applied
          Interval,  \* Manager.cleanupInterval
          MaxTime,   \* bound: the clock stops there
          NoBound,   \* an absent min or max
          NoRange,   \* an absent RangeFilterOption
          NoId       \* no filter in hand

Item == 1 .. Len(Feed)

ASSUME FiltersAssumption ==
    /\ Interval \in Nat \ {0} /\ MaxTime \in Nat
    /\ NoId \notin Ids
    /\ \A f \in Ids : Options[f].type \in {"block", "tx"}
    /\ Feed \in Seq([type : {"block"}] \cup [type : {"tx"}, gasUsed : Nat, gasWanted : Nat])

VARIABLES
    waiting,    \* filters that are made and wait for the map's lock
    items,      \* filterMap.items: the installed filters
    lastUsed,   \* baseFilter.lastUsed
    pending,    \* BlockFilter.blockHeaders, TxFilter.txs
    loop,       \* subscribeToEvents: step, elements applied, filters left to visit
    caller,     \* GetFilterChangesHandler: the filter in hand
    now,        \* the clock
    ticker,     \* a tick lies in ticker.C
    cleaner,    \* cleanupRoutine: step and cutoff
    taken,      \* history: what polls took out of the filter
    since,      \* history: elements applied when the filter entered the map
    until,      \* history: elements applied when it was removed
    asked,      \* history: when a client last asked for the filter, to be made or polled
    polled      \* history: when the filter entered the map, or a poll last found it there

clockVars == <<now, ticker, cleaner>>
history == <<taken, since, until, asked, polled>>
vars == <<waiting, items, lastUsed, pending, loop, caller, clockVars, history>>

Never == Len(Feed) + 1

Init ==
    /\ waiting = {} /\ items = {}
    /\ lastUsed = [f \in Ids |-> 0]
    /\ pending = [f \in Ids |-> <<>>]
    /\ loop = [step |-> "ready", at |-> 0, todo |-> {}]
    /\ caller = [c \in Callers |-> NoId]
    /\ now = 0 /\ ticker = FALSE
    /\ cleaner = [step |-> "wait", cutoff |-> 0]
    /\ taken = [f \in Ids |-> {}]
    /\ since = [f \in Ids |-> Never]
    /\ until = [f \in Ids |-> Never]
    /\ asked = [f \in Ids |-> 0]
    /\ polled = [f \in Ids |-> 0]

\* filterMap's mutex: only a range over the map takes several steps.
MapIsFree == loop.step # "range"

-----------------------------------------------------------------------------
(* Which elements a filter keeps. *)

\* filteredByRangeFilterOption: an absent minimum is 0, an absent maximum is
\* the largest value there is.
FilteredByRange(value, range) ==
    \/ range = NoRange
    \/ /\ value >= (IF range.min = NoBound THEN 0 ELSE range.min)
       /\ range.max # NoBound => value <= range.max

\* checkFilterOptions: the limit is compared with the gas used.
CheckFilterOptions(tx, opts) ==
    /\ FilteredByRange(tx.gasUsed, opts.gasUsed)
    /\ FilteredByRange(tx.gasWanted, opts.gasWanted)
    /\ FilteredByRange(tx.gasUsed, opts.gasLimit)

\* UpdateWith: a block filter keeps blocks, a transaction filter the results
\* that pass its options.
Keeps(f, e) ==
    /\ Feed[e].type = Options[f].type
    /\ Feed[e].type = "tx" => CheckFilterOptions(Feed[e], Options[f])

-----------------------------------------------------------------------------
(* subscribeToEvents. *)

\* updateFiltersWithBlock, updateFiltersWithTxResult: the map is locked.
Apply ==
    /\ loop.step = "ready" /\ loop.at < Len(Feed)
    /\ loop' = [step |-> "range", at |-> loop.at + 1, todo |-> items]
    /\ UNCHANGED <<waiting, items, lastUsed, pending, caller, clockVars, history>>

\* Filter.UpdateWith, for one filter of the range.
UpdateWith(f) ==
    /\ f \in loop.todo
    /\ loop' = [loop EXCEPT !.todo = @ \ {f}]
    /\ pending' = [pending EXCEPT ![f] = IF Keeps(f, loop.at) THEN Append(@, loop.at) ELSE @]
    /\ UNCHANGED <<waiting, items, lastUsed, caller, clockVars, history>>

\* rangeItems returns and unlocks.
Applied ==
    /\ loop.step = "range" /\ loop.todo = {}
    /\ loop' = [loop EXCEPT !.step = "ready"]
    /\ UNCHANGED <<waiting, items, lastUsed, pending, caller, clockVars, history>>

\* Between two events the context may be done, or SubCh closed: nothing is
\* applied any more, and the filters stay.
LoopEnds ==
    /\ loop.step = "ready"
    /\ loop.at < Len(Feed) /\ Feed[loop.at + 1].type = "block"
    /\ loop' = [loop EXCEPT !.step = "ended"]
    /\ UNCHANGED <<waiting, items, lastUsed, pending, caller, clockVars, history>>

-----------------------------------------------------------------------------
(* The JSON-RPC operations. *)

\* Deviation of NewBaseFilter: the time it expires instead of the time it was used.
NewBaseFilterExpiring(f) ==
    /\ f \notin waiting /\ since[f] = Never
    /\ waiting' = waiting \cup {f}
    /\ lastUsed' = [lastUsed EXCEPT ![f] = now + Interval]
    /\ asked' = [asked EXCEPT ![f] = now]
    /\ UNCHANGED <<items, pending, loop, caller, clockVars, taken, since, until, polled>>

\* NewBlockFilter, NewTxFilter: the filter is made, with its time of use, before
\* the map is locked.
NewBaseFilter(f) ==
    /\ f \notin waiting /\ since[f] = Never
    /\ waiting' = waiting \cup {f}
    /\ lastUsed' = [lastUsed EXCEPT ![f] = now]
    /\ asked' = [asked EXCEPT ![f] = now]
    /\ UNCHANGED <<items, pending, loop, caller, clockVars, taken, since, until, polled>>

\* newFilter: put into the map under its lock; its time of use may be long past.
NewFilter(f) ==
    /\ MapIsFree /\ f \in waiting
    /\ waiting' = waiting \ {f}
    /\ items' = items \cup {f}
    /\ since' = [since EXCEPT ![f] = loop.at]
    /\ polled' = [polled EXCEPT ![f] = now]
    /\ UNCHANGED <<lastUsed, pending, loop, caller, clockVars, taken, until, asked>>

\* UninstallFilter; an unknown id is answered with false and changes nothing.
UninstallFilter(f) ==
    /\ MapIsFree /\ f \in items
    /\ items' = items \ {f}
    /\ until' = [until EXCEPT ![f] = loop.at]
    /\ UNCHANGED <<waiting, lastUsed, pending, loop, caller, clockVars, taken, since, asked, polled>>

\* Deviation of GetFilter: a poll is not a use.
GetFilterUntouched(c, f) ==
    /\ MapIsFree /\ caller[c] = NoId /\ f \in items
    /\ asked' = [asked EXCEPT ![f] = now]
    /\ polled' = [polled EXCEPT ![f] = now]
    /\ caller' = [caller EXCEPT ![c] = f]
    /\ UNCHANGED <<waiting, items, lastUsed, pending, loop, clockVars, taken, since, until>>

\* GetFilterChangesHandler: the filter is looked up, which counts as a use; an
\* unknown id is answered with an error and changes nothing.
GetFilter(c, f) ==
    /\ MapIsFree /\ caller[c] = NoId /\ f \in items
    /\ lastUsed' = [lastUsed EXCEPT ![f] = now]
    /\ asked' = [asked EXCEPT ![f] = now]
    /\ polled' = [polled EXCEPT ![f] = now]
    /\ caller' = [caller EXCEPT ![c] = f]
    /\ UNCHANGED <<waiting, items, pending, loop, clockVars, taken, since, until>>

\* Deviation of GetChanges: what is returned stays in the filter.
GetChangesAndKeep(c) ==
    /\ caller[c] # NoId
    /\ taken' = [taken EXCEPT ![caller[c]] = @ \cup Range(pending[caller[c]])]
    /\ caller' = [caller EXCEPT ![c] = NoId]
    /\ UNCHANGED <<waiting, items, lastUsed, pending, loop, clockVars, since, until, asked, polled>>

\* GetChanges: copied and emptied under the filter's lock, although the filter
\* may have left the map since.  What was taken is encoded and returned; if one
\* change cannot be encoded an error is, and they are gone all the same.
GetChanges(c) ==
    /\ caller[c] # NoId
    /\ taken' = [taken EXCEPT ![caller[c]] = @ \cup Range(pending[caller[c]])]
    /\ pending' = [pending EXCEPT ![caller[c]] = <<>>]
    /\ caller' = [caller EXCEPT ![c] = NoId]
    /\ UNCHANGED <<waiting, items, lastUsed, loop, clockVars, since, until, asked, polled>>

-----------------------------------------------------------------------------
(* Time, and cleanupRoutine. *)

\* The clock advances; ticker.C holds one tick, further ones are dropped.
Tick ==
    /\ now < MaxTime
    /\ now' = now + 1
    /\ ticker' = (ticker \/ now' % Interval = 0)
    /\ UNCHANGED <<waiting, items, lastUsed, pending, loop, caller, cleaner, history>>

\* case <-ticker.C
CleanupTick ==
    /\ cleaner.step = "wait" /\ ticker
    /\ ticker' = FALSE
    /\ cleaner' = [cleaner EXCEPT !.step = "tick"]
    /\ UNCHANGED <<waiting, items, lastUsed, pending, loop, caller, now, history>>

\* Deviation of Cutoff: two intervals of grace.
CutoffLate ==
    /\ cleaner.step = "tick"
    /\ cleaner' = [step |-> "clean", cutoff |-> now - 2 * Interval]
    /\ UNCHANGED <<waiting, items, lastUsed, pending, loop, caller, now, ticker, history>>

\* The cutoff is computed after the tick, by a new look at the clock, and before
\* the map is locked.
Cutoff ==
    /\ cleaner.step = "tick"
    /\ cleaner' = [step |-> "clean", cutoff |-> now - Interval]
    /\ UNCHANGED <<waiting, items, lastUsed, pending, loop, caller, now, ticker, history>>

\* cleanup
Cleanup ==
    /\ cleaner.step = "clean" /\ MapIsFree
    /\ LET idle == {f \in items : lastUsed[f] < cleaner.cutoff}
       IN  /\ items' = items \ idle
           /\ until' = [f \in Ids |-> IF f \in idle THEN loop.at ELSE until[f]]
    /\ cleaner' = [step |-> "wait", cutoff |-> 0]
    /\ UNCHANGED <<waiting, lastUsed, pending, loop, caller, now, ticker, taken, since, asked, polled>>

\* The context is done: nothing is collected any more (nor is it when the clock
\* has stopped, so that case is left out).
CleanupEnds ==
    /\ cleaner.step = "wait" /\ now < MaxTime
    /\ cleaner' = [cleaner EXCEPT !.step = "ended"]
    /\ UNCHANGED <<waiting, items, lastUsed, pending, loop, caller, now, ticker, history>>

-----------------------------------------------------------------------------

EventLoop == Apply \/ (\E f \in Ids : UpdateWith(f)) \/ Applied \/ LoopEnds

Poll(c) == (\E f \in Ids : GetFilter(c, f)) \/ GetChanges(c)

Next ==
    \/ EventLoop
    \/ \E f \in Ids : NewBaseFilter(f) \/ NewFilter(f) \/ UninstallFilter(f)
    \/ \E c \in Callers : Poll(c)
    \/ Tick \/ CleanupTick \/ Cutoff \/ Cleanup \/ CleanupEnds

Spec == Init /\ [][Next]_vars

-----------------------------------------------------------------------------
(* Properties. *)

\* The types of the filter map, the loop, the polls and the cleanup routine.
TypeOK ==
    /\ waiting \subseteq Ids /\ items \subseteq Ids
    /\ lastUsed \in [Ids -> 0 .. MaxTime]
    /\ pending \in [Ids -> Seq(Item)]
    /\ loop \in [step : {"ready", "range", "ended"}, at : 0 .. Len(Feed), todo : SUBSET Ids]
    /\ caller \in [Callers -> Ids \cup {NoId}]
    /\ now \in 0 .. MaxTime /\ ticker \in BOOLEAN
    /\ cleaner \in [step : {"wait", "tick", "clean", "ended"}, cutoff : Int]
    /\ taken \in [Ids -> SUBSET Item]
    /\ since \in [Ids -> 0 .. Never] /\ until \in [Ids -> 0 .. Never]
    /\ asked \in [Ids -> 0 .. MaxTime] /\ polled \in [Ids -> 0 .. MaxTime]

\* What the installing client asked for: the element has the filter's type, and
\* every bound that was given holds.
AskedFor(f, e) ==
    /\ Feed[e].type = Options[f].type
    /\ Feed[e].type = "tx" =>
        \A given \in {<<Feed[e].gasUsed, Options[f].gasUsed>>,
                      <<Feed[e].gasWanted, Options[f].gasWanted>>,
                      <<Feed[e].gasUsed, Options[f].gasLimit>>} :
            given[2] # NoRange =>
                /\ given[2].min # NoBound => given[2].min <= given[1]
                /\ given[2].max # NoBound => given[1] <= given[2].max

\* The elements applied while the filter was installed.
AppliedTo(f) ==
    {e \in Item : since[f] < e /\ e <= until[f] /\ e <= loop.at /\ ~(e = loop.at /\ f \in loop.todo)}

\* Every element that was asked for and applied while the filter was installed
\* is in exactly one place - waiting, or taken by a poll - and nothing else is,
\* and changes wait in the order of the event loop: concurrent polls of one
\* filter, the loop, removals and cleanups neither lose, repeat nor reorder a
\* change.
EachChangeReturnedOnce ==
    \A f \in Ids :
        /\ Range(pending[f]) \cup taken[f] = {e \in AppliedTo(f) : AskedFor(f, e)}
        /\ Range(pending[f]) \cap taken[f] = {}
        /\ \A i, j \in DOMAIN pending[f] : i < j => pending[f][i] < pending[f][j]

\* The cleanup routine only removes a filter that no client asked for during more
\* than the interval, although its cutoff was computed before it got the lock and
\* polls arrive in between.  For a filter that was polled this is the time since
\* the last poll found it.  For one that never was it is the time since it was
\* made, not since it entered the map: if it had to wait for the lock that long,
\* it may be collected at once, before its client can poll it.
UsedFiltersStay ==
    [][\A f \in items \ items' :
            cleaner' # cleaner => now - asked[f] > Interval]_vars

\* Once a tick has been dealt with, no filter is left that has been in the map
\* for two intervals and was not polled in them: that is how long an abandoned
\* filter, and what piles up in it, can stay.  It counts from the entry into the
\* map, and a filter may be stale when it enters: it waits for the next tick all
\* the same.
IdleFiltersGo ==
    (cleaner.step = "wait" /\ ~ticker) => \A f \in items : now - polled[f] < 2 * Interval

=============================================================================
