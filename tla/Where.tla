------------------------------- MODULE Where -------------------------------
(***************************************************************************)
(* The evaluation of a where argument                                      *)
(* (src/serve/graph/model/filter_methods_gen.go): Eval of a filter on an   *)
(* object, and MinMax, the bounds of a field with which a query narrows    *)
(* its iterator.  A filter is what Unmarshal of Coercion returns, a        *)
(* function from the fields that are set; an object is a record of the     *)
(* fields its accessors return, and no object is nil.                      *)
(*                                                                         *)
(* A regular expression is the set of the strings it matches, empty when   *)
(* it cannot be compiled.  A time is an instant and the zone it is in.     *)
(***************************************************************************)
EXTENDS Coercion, SequencesExt

\* The fields an Eval method evaluates: single values and slices, or the
\* members of a union.
Fields(single, slices) == [union |-> FALSE, single |-> single, slices |-> slices]
Members(members) == [union |-> TRUE, members |-> members]

EvalNestedFilterUnknownEvent == Fields({"value"}, {})
EvalNestedFilterTxFee == Fields({"gas_wanted", "gas_fee"}, {})
EvalNestedFilterTransactionResponse == Fields({"log", "info", "error", "data"}, {"events"})

\* Deviation of EvalNestedFilterTransactionMessage: a field is accepted and not evaluated.
EvalMessageWithoutRoute == Fields({"value", "typeUrl"}, {})

EvalNestedFilterTransactionMessage == Fields({"value", "typeUrl", "route"}, {})
EvalNestedFilterStorageUnlockEvent == Fields({"type", "pkg_path", "fee_refund",
                                              "bytes_delta"}, {})
EvalNestedFilterStorageDepositEvent == Fields({"type", "pkg_path", "fee_delta",
                                               "bytes_delta"}, {})
EvalNestedFilterMsgRun == Fields({"send", "package", "max_deposit", "caller"}, {})
EvalNestedFilterMsgCall == Fields({"send", "pkg_path", "max_deposit", "func", "caller"}, {"args"})
EvalNestedFilterMsgAddPackage == Fields({"send", "package", "max_deposit", "deposit",
                                         "creator"}, {})
EvalNestedFilterMessageValue == Members({"BankMsgSend", "MsgCall", "MsgAddPackage", "MsgRun"})
EvalNestedFilterMemPackage == Fields({"path", "name"}, {"files"})
EvalNestedFilterMemFile == Fields({"name", "body"}, {})
EvalNestedFilterGnoEventAttribute == Fields({"value", "key"}, {})
EvalNestedFilterGnoEvent == Fields({"type", "pkg_path"}, {"attrs"})
EvalNestedFilterEvent == Members({"GnoEvent", "StorageDepositEvent", "StorageUnlockEvent",
                                  "UnknownEvent"})
EvalNestedFilterCoin == Fields({"denom", "amount"}, {})
EvalNestedFilterBlockTransaction == Fields({"memo", "hash", "fee"}, {})
EvalNestedFilterBankMsgSend == Fields({"to_address", "from_address", "amount"}, {})
EvalFilterTransaction == Fields({"success", "response", "memo", "index", "hash", "gas_wanted",
                                 "gas_used", "gas_fee", "block_height"}, {"messages"})
EvalFilterBlock == Fields({"version", "validators_hash", "total_txs", "time",
                           "proposer_address_raw", "num_txs", "next_validators_hash",
                           "last_results_hash", "last_commit_hash", "last_block_hash", "height",
                           "hash", "consensus_hash", "chain_id", "app_version",
                           "app_hash"}, {"txs"})

EvalTypes ==
    [NestedFilterUnknownEvent |-> EvalNestedFilterUnknownEvent,
     NestedFilterTxFee |-> EvalNestedFilterTxFee,
     NestedFilterTransactionResponse |-> EvalNestedFilterTransactionResponse,
     NestedFilterTransactionMessage |-> EvalNestedFilterTransactionMessage,
     NestedFilterStorageUnlockEvent |-> EvalNestedFilterStorageUnlockEvent,
     NestedFilterStorageDepositEvent |-> EvalNestedFilterStorageDepositEvent,
     NestedFilterMsgRun |-> EvalNestedFilterMsgRun, NestedFilterMsgCall |-> EvalNestedFilterMsgCall,
     NestedFilterMsgAddPackage |-> EvalNestedFilterMsgAddPackage,
     NestedFilterMessageValue |-> EvalNestedFilterMessageValue,
     NestedFilterMemPackage |-> EvalNestedFilterMemPackage,
     NestedFilterMemFile |-> EvalNestedFilterMemFile,
     NestedFilterGnoEventAttribute |-> EvalNestedFilterGnoEventAttribute,
     NestedFilterGnoEvent |-> EvalNestedFilterGnoEvent, NestedFilterEvent |-> EvalNestedFilterEvent,
     NestedFilterCoin |-> EvalNestedFilterCoin,
     NestedFilterBlockTransaction |-> EvalNestedFilterBlockTransaction,
     NestedFilterBankMsgSend |-> EvalNestedFilterBankMsgSend,
     FilterTransaction |-> EvalFilterTransaction, FilterBlock |-> EvalFilterBlock]

-----------------------------------------------------------------------------
(* The leaves. *)

\* rootEval, of a value that is there.
RootEval(f, v) == (IsSet(f, "exists") => f.exists) /\ (IsSet(f, "eq") => f.eq = v)

EvalBoolean(f, v) == RootEval(f, v)

EvalInt(f, v) == RootEval(f, v) /\ (IsSet(f, "gt") => v > f.gt) /\ (IsSet(f, "lt") => v < f.lt)

EvalString(f, v) == RootEval(f, v) /\ (IsSet(f, "like") => v \in f.like)

\* eq compares the zone too.
EvalTime(f, v) ==
    /\ RootEval(f, v)
    /\ IsSet(f, "before") => v.instant < f.before.instant
    /\ IsSet(f, "after") => v.instant > f.after.instant

EvalLeaf(type, f, v) ==
    CASE type = "FilterBoolean" -> EvalBoolean(f, v)
      [] type = "FilterInt" -> EvalInt(f, v)
      [] type = "FilterString" -> EvalString(f, v)
      [] type = "FilterTime" -> EvalTime(f, v)

-----------------------------------------------------------------------------
(* Eval. *)

\* The elements of a slice, nil or not.
Elements(v) == IF v = Null THEN {} ELSE ToSet(v)

\* The logical operators first, all of them; then every field that is set.  Of
\* a slice some element must match.  Of a union, the filter of the value's own
\* member must be set and match, unless no filter is set at all, or the value is
\* of a member that has no filter.
RECURSIVE Eval(_, _, _)
Eval(type, f, obj) ==
    IF type \notin DOMAIN EvalTypes THEN EvalLeaf(type, f, obj)
    ELSE LET evaluated == EvalTypes[type]
             field(k) == InputTypes[type][k]
         IN  /\ IsSet(f, "_and") => \A i \in DOMAIN f["_and"] : Eval(type, f["_and"][i], obj)
             /\ (IsSet(f, "_or") /\ f["_or"] # <<>>) => \E i \in DOMAIN f["_or"] : Eval(type, f["_or"][i], obj)
             /\ IsSet(f, "_not") => ~Eval(type, f["_not"], obj)
             /\ IF evaluated.union
                THEN \/ DOMAIN f \cap evaluated.members = {}
                     \/ obj.kind \notin evaluated.members
                     \/ IsSet(f, obj.kind) /\ Eval(field(obj.kind), f[obj.kind], obj)
                ELSE /\ \A k \in DOMAIN f \cap evaluated.single : Eval(field(k), f[k], obj[k])
                     /\ \A k \in DOMAIN f \cap evaluated.slices :
                            \E e \in Elements(obj[k]) : Eval(field(k), f[k], e)

-----------------------------------------------------------------------------
(* MinMaxHeight, MinMaxBlockHeight, MinMaxIndex. *)

\* A pointer into the filter: the number, and where it is.
Pointer(n, at) == [value |-> n, at |-> at]

Unbounded == [min |-> Null, max |-> Null]

\* One more pair of bounds: a bound that is set widens or sets, one that is not
\* changes nothing.
Widen(b, sub) ==
    [min |-> IF sub.min # Null /\ (b.min = Null \/ sub.min.value < b.min.value) THEN sub.min ELSE b.min,
     max |-> IF sub.max # Null /\ (b.max = Null \/ sub.max.value > b.max.value) THEN sub.max ELSE b.max]

\* The bounds of a filter of the field itself.
OwnBounds(f, at) ==
    LET ptr(op, n) == IF IsSet(f, op) THEN Pointer(f[op], Append(at, n)) ELSE Null
    IN  <<[min |-> ptr("gt", -1), max |-> Null], [min |-> Null, max |-> ptr("lt", -2)],
          [min |-> ptr("eq", -3), max |-> ptr("eq", -3)]>>

Subfilters(f) ==
    (IF IsSet(f, "_and") THEN f["_and"] ELSE <<>>) \o (IF IsSet(f, "_or") THEN f["_or"] ELSE <<>>)

RECURSIVE MinMaxAt(_, _, _)
MinMaxAt(f, field, at) ==
    LET subs == Subfilters(f)
        bounds == [i \in DOMAIN subs |-> MinMaxAt(subs[i], field, Append(at, i))]
    IN  FoldLeft(Widen, Unbounded, bounds \o (IF IsSet(f, field) THEN OwnBounds(f[field], at) ELSE <<>>))

MinMax(f, field) == MinMaxAt(f, field, <<>>)

-----------------------------------------------------------------------------
(* Properties. *)

\* What a where argument says, from the output schema alone: every field that is
\* given and not null restricts the field of that name, some element of a list.
RECURSIVE Says(_, _, _)
Says(type, w, obj) ==
    LET given == {k \in DOMAIN w : w[k] # Null}
        fields == given \ {"_and", "_or", "_not"}
        leaf(v) ==
            /\ "exists" \in given => w.exists
            /\ "eq" \in given => v = w.eq
            /\ "like" \in given => v \in w.like
            /\ "gt" \in given => v > w.gt
            /\ "lt" \in given => v < w.lt
            /\ "before" \in given => v.instant < w.before.instant
            /\ "after" \in given => v.instant > w.after.instant
    IN  IF type \in Scalars THEN leaf(obj)
        ELSE /\ "_and" \in given => \A i \in DOMAIN w["_and"] : Says(type, w["_and"][i], obj)
             /\ ("_or" \in given /\ w["_or"] # <<>>) => \E i \in DOMAIN w["_or"] : Says(type, w["_or"][i], obj)
             /\ "_not" \in given => ~Says(type, w["_not"], obj)
             /\ IF type \in DOMAIN Unions
                THEN fields = {} \/ obj.kind = "UnexpectedMessage" \/ (obj.kind \in fields /\ Says(obj.kind, w[obj.kind], obj))
                ELSE \A k \in fields :
                         LET ref == Objects[type][k]
                         IN  IF ref.list THEN \E e \in Elements(obj[k]) : Says(ref.of.type, w[k], e)
                                         ELSE Says(ref.type, w[k], obj[k])

\* A query means what it says: no field the schema accepts is ignored by the
\* evaluation, null is like absent, and the operators nest.
MeansWhatItSays(type, w, obj) ==
    LET input == IF type = "Block" THEN "FilterBlock" ELSE "FilterTransaction"
    IN  Eval(input, Unmarshal(input, w), obj) = Says(type, w, obj)

=============================================================================
