--------------------------- MODULE LegacyFilters ---------------------------
(***************************************************************************)
(* The filters of the transactions and blocks fields                       *)
(* (src/serve/graph/transaction_filter.go and block_filter.go).  A filter  *)
(* is what Unmarshal of Coercion returns for a TransactionFilter or a      *)
(* BlockFilter, an object is what Conversions makes.                       *)
(*                                                                         *)
(* Left out of the inputs: an event input without gno_event against a Gno  *)
(* event, and a package condition against a message whose package is nil;  *)
(* both are nil dereferences.                                              *)
(***************************************************************************)
EXTENDS GraphInputs, SequencesExt

CONSTANTS ParseCoins(_),    \* std.ParseCoins (external): coins, or Null
          ZeroTime          \* the zero time.Time, before every block

\* deref
Deref(f, k, zero) == IF IsSet(f, k) THEN f[k] ELSE zero

\* A condition that is only checked if its parameter is there.
Matches(f, k, v) == IsSet(f, k) => f[k] = v

\* A range: an upper bound of zero is none, any other is inclusive.
Within(n, f, from, to) ==
    /\ n >= Deref(f, from, 0)
    /\ Deref(f, to, 0) = 0 \/ n <= Deref(f, to, 0)

\* Some element matches some input; without inputs there is no condition.
SomeMatch(elements, inputs, Match(_, _)) ==
    inputs = <<>> \/ \E e \in ToSet(elements), input \in ToSet(inputs) : Match(e, input)

-----------------------------------------------------------------------------
(* Events. *)

\* filteredGnoEventAttributesBy: an event without attributes passes, but no
\* inputs match no attribute.
FilteredGnoEventAttributesBy(attrs, inputs) ==
    \/ attrs = <<>>
    \/ \E attr \in ToSet(attrs), input \in ToSet(inputs) :
           Matches(input, "key", attr.key) /\ Matches(input, "value", attr.value)

\* filteredEventBy: only Gno events, whatever else the input asks for.
FilteredEventBy(event, input) ==
    /\ event.kind = "GnoEvent"
    /\ Matches(input.gno_event, "type", event.type)
    /\ Matches(input.gno_event, "pkg_path", event.pkg_path)
    /\ IsSet(input.gno_event, "attrs") => FilteredGnoEventAttributesBy(event.attrs, input.gno_event.attrs)

FilteredTransactionByEvents(tx, inputs) == SomeMatch(tx.response.events, inputs, FilteredEventBy)

-----------------------------------------------------------------------------
(* Messages. *)

\* filteredAmountBy, of an input that is there.
FilteredAmountBy(amount, input) ==
    LET coins == ParseCoins(amount)
    IN  /\ coins # Null
        /\ \/ Deref(input, "denomination", Null) = "" /\ coins = <<>>
           \/ \E coin \in ToSet(coins) :
                  Matches(input, "denomination", coin.denom) /\ Within(coin.amount, input, "from", "to")

FilteredMessageOfBankMsgSendBy(value, params) ==
    IsSet(params, "send") =>
        /\ IsSet(params.send, "amount") => FilteredAmountBy(value.amount, params.send.amount)
        /\ Matches(params.send, "from_address", value.from_address)
        /\ Matches(params.send, "to_address", value.to_address)

\* The coins sent must not be in the range.  An empty argument of the message
\* is not compared, nor are arguments only one side has.
FilteredMessageOfMsgCallBy(value, params) ==
    /\ IsSet(params, "exec")
    /\ \A k \in {"caller", "func", "pkg_path"} : Matches(params.exec, k, value[k])
    /\ IsSet(params.exec, "send") => ~FilteredAmountBy(value.send, params.exec.send)
    /\ IsSet(params.exec, "args") =>
           /\ value.args # Null
           /\ \A i \in DOMAIN value.args \cap DOMAIN params.exec.args :
                  value.args[i] = "" \/ params.exec.args[i] = value.args[i]

\* The deposit must not be in the range.
FilteredMessageOfMsgAddPackageBy(value, params) ==
    /\ IsSet(params, "add_package")
    /\ Matches(params.add_package, "creator", value.creator)
    /\ IsSet(params.add_package, "deposit") => ~FilteredAmountBy(value.deposit, params.add_package.deposit)
    /\ IsSet(params.add_package, "package") =>
           \A k \in {"name", "path"} : Matches(params.add_package.package, k, value.package[k])

\* The coins sent must not be in the range, and a name or path that is not
\* given is the empty one.
FilteredMessageOfMsgRunBy(value, params) ==
    /\ IsSet(params, "run")
    /\ Matches(params.run, "caller", value.caller)
    /\ IsSet(params.run, "send") => ~FilteredAmountBy(value.send, params.run.send)
    /\ IsSet(params.run, "package") =>
           \A k \in {"name", "path"} : Deref(params.run.package, k, "") = value.package[k]

\* filteredTransactionMessageBy: by route, by type, then by the parameters of
\* the message's own route and type.
FilteredTransactionMessageBy(tm, input) ==
    /\ Matches(input, "route", tm.route)
    /\ Matches(input, "type_url", tm.typeUrl)
    /\ \/ ~IsSet(input, "bank_param") /\ ~IsSet(input, "vm_param")
       \/ /\ tm.route = "bank" /\ IsSet(input, "bank_param") /\ tm.typeUrl = "send"
          /\ FilteredMessageOfBankMsgSendBy(tm.value, input.bank_param)
       \/ /\ tm.route = "vm" /\ IsSet(input, "vm_param")
          /\ CASE tm.typeUrl = "exec" -> FilteredMessageOfMsgCallBy(tm.value, input.vm_param)
               [] tm.typeUrl = "add_package" -> FilteredMessageOfMsgAddPackageBy(tm.value, input.vm_param)
               [] tm.typeUrl = "run" -> FilteredMessageOfMsgRunBy(tm.value, input.vm_param)
               [] OTHER -> FALSE

\* Deviation of FilteredTransactionByMessages: the first input decides.
FirstInputDecides(tx, inputs) ==
    inputs = <<>> \/ \E tm \in ToSet(tx.messages) : FilteredTransactionMessageBy(tm, inputs[1])

FilteredTransactionByMessages(tx, inputs) == SomeMatch(tx.messages, inputs, FilteredTransactionMessageBy)

-----------------------------------------------------------------------------
(* Transactions and blocks. *)

FilteredTransactionBy(tx, filter) ==
    /\ Matches(filter, "success", tx.success)
    /\ Within(tx.gas_used, filter, "from_gas_used", "to_gas_used")
    /\ Within(tx.gas_wanted, filter, "from_gas_wanted", "to_gas_wanted")
    /\ Matches(filter, "memo", tx.memo)
    /\ FilteredTransactionByEvents(tx, Deref(filter, "events", <<>>))
    /\ FilteredTransactionByMessages(tx, Deref(filter, "message", <<>>))

\* FilteredBlockBy: without an upper bound, blocks up to now; the zero time is
\* no bound.
FilteredBlockBy(block, filter, now) ==
    LET to == Deref(filter, "to_time", now)
    IN  /\ block.time.instant >= Deref(filter, "from_time", ZeroTime).instant
        /\ to = ZeroTime \/ block.time.instant < to.instant

-----------------------------------------------------------------------------
(* Properties. *)

\* The conditions of a transaction filter combine: a filter selects what each
\* of its conditions selects alone, and of message and events, "message[0] ||
\* message[1] || message[2]", what some element selects alone.
Combines(filter, tx) ==
    FilteredTransactionBy(tx, filter) <=>
        \A k \in DOMAIN filter :
            IF k \in {"message", "events"}
            THEN filter[k] = <<>> \/ \E i \in DOMAIN filter[k] : FilteredTransactionBy(tx, [x \in {k} |-> <<filter[k][i]>>])
            ELSE FilteredTransactionBy(tx, [x \in {k} |-> filter[k]])

=============================================================================
