---------------------------- MODULE Conversions ----------------------------
(***************************************************************************)
(* From what the store holds to the objects of the GraphQL API             *)
(* (src/serve/graph/model/transaction.go and block.go).  An object is the  *)
(* record of what its accessors return, by field; a member of a union also *)
(* has its kind.                                                           *)
(*                                                                         *)
(* A transaction result has its response inline, and tx: the decoded       *)
(* transaction [memo, gas_wanted, gas_fee, msgs], or Undecodable.  A       *)
(* message [route, type, casts, value] either survives the JSON round trip *)
(* of cast or not; an event [kind, marshals, parses, value] likewise.      *)
(***************************************************************************)
EXTENDS GraphSchema, Integers, Sequences, SequencesExt

CONSTANT Undecodable    \* amino cannot decode the transaction

Kind(name, value) == [x \in DOMAIN value \cup {"kind"} |-> IF x = "kind" THEN name ELSE value[x]]

-----------------------------------------------------------------------------
(* Messages. *)

MemPackage(p) == [name |-> p.name, path |-> p.path, files |->
    [i \in DOMAIN p.files |-> [name |-> p.files[i].name, body |-> p.files[i].body]]]

MakeBankMsgSend(msg) ==
    Kind("BankMsgSend",
         IF msg.casts
         THEN [from_address |-> msg.value.from, to_address |-> msg.value.to, amount |-> msg.value.amount]
         ELSE [from_address |-> "", to_address |-> "", amount |-> ""])

MakeVMMsgCall(msg) ==
    Kind("MsgCall",
         IF msg.casts
         THEN [caller |-> msg.value.caller, send |-> msg.value.send, max_deposit |-> msg.value.maxDeposit,
               pkg_path |-> msg.value.pkgPath, func |-> msg.value.func, args |-> msg.value.args]
         ELSE [caller |-> "", send |-> "", max_deposit |-> "", pkg_path |-> "", func |-> "", args |-> Null])

\* The deposit is filled from the coins sent.
MakeVMAddPackage(msg) ==
    Kind("MsgAddPackage",
         IF msg.casts
         THEN [creator |-> msg.value.caller, package |-> MemPackage(msg.value.package), deposit |-> msg.value.send,
               send |-> msg.value.send, max_deposit |-> msg.value.maxDeposit]
         ELSE [creator |-> "", package |-> Null, deposit |-> "", send |-> "", max_deposit |-> ""])

MakeVMMsgRun(msg) ==
    Kind("MsgRun",
         IF msg.casts
         THEN [caller |-> msg.value.caller, send |-> msg.value.send, max_deposit |-> msg.value.maxDeposit,
               package |-> MemPackage(msg.value.package)]
         ELSE [caller |-> "", send |-> "", max_deposit |-> "", package |-> Null])

MakeUnexpectedMessage(msg) ==
    Kind("UnexpectedMessage", [raw |-> IF msg.casts THEN msg.value.raw ELSE ""])

\* NewTransactionMessage: by route, then by type.
NewTransactionMessage(msg) ==
    [route   |-> msg.route,
     typeUrl |-> msg.type,
     value   |-> CASE msg.route = "bank" /\ msg.type = "send"     -> MakeBankMsgSend(msg)
                   [] msg.route = "vm" /\ msg.type = "exec"        -> MakeVMMsgCall(msg)
                   [] msg.route = "vm" /\ msg.type = "add_package" -> MakeVMAddPackage(msg)
                   [] msg.route = "vm" /\ msg.type = "run"         -> MakeVMMsgRun(msg)
                   [] OTHER                                        -> MakeUnexpectedMessage(msg)]

-----------------------------------------------------------------------------
(* Events. *)

\* makeEvent, of an event that can be marshalled: what cannot be read back is
\* an unknown event.  The type of a storage event is its kind.
MakeEvent(event) ==
    CASE event.kind = "GnoEvent" /\ event.parses -> Kind("GnoEvent", event.value)
      [] event.kind \in {"StorageDepositEvent", "StorageUnlockEvent"} /\ event.parses ->
             Kind(event.kind, [x \in DOMAIN event.value \cup {"type"} |->
                                  IF x = "type" THEN event.kind ELSE event.value[x]])
      [] OTHER -> [kind |-> "UnknownEvent", value |-> event.data]

\* getEvents
GetEvents(events) ==
    LET kept == SelectSeq(events, LAMBDA event : event.marshals)
    IN  [i \in DOMAIN kept |-> MakeEvent(kept[i])]

-----------------------------------------------------------------------------
(* Transactions and blocks. *)

ZeroCoin == [amount |-> 0, denom |-> ""]

\* getStdTx: the error of Unmarshal is dropped, and the transaction is then the
\* empty one, never nil.
GetStdTx(r) ==
    IF r.tx = Undecodable THEN [memo |-> "", gas_wanted |-> 0, gas_fee |-> ZeroCoin, msgs |-> <<>>] ELSE r.tx

GetMessages(r) ==
    [i \in DOMAIN GetStdTx(r).msgs |-> NewTransactionMessage(GetStdTx(r).msgs[i])]

TransactionResponse(r) ==
    [log |-> r.log, info |-> r.info, data |-> r.data, error |-> IF r.ok THEN "" ELSE r.error,
     events |-> GetEvents(r.events)]

\* NewTransaction, with its accessors.
NewTransaction(r) ==
    [index |-> r.index, hash |-> r.hash, success |-> r.ok, block_height |-> r.height,
     gas_wanted |-> r.gas_wanted, gas_used |-> r.gas_used, gas_fee |-> GetStdTx(r).gas_fee,
     content_raw |-> r.raw, messages |-> GetMessages(r), memo |-> GetStdTx(r).memo,
     response |-> TransactionResponse(r)]

\* NewBlockTransaction, of a transaction that can be decoded.
NewBlockTransaction(t) ==
    [hash |-> t.hash, content_raw |-> t.raw, memo |-> t.tx.memo,
     fee |-> [gas_wanted |-> t.tx.gas_wanted, gas_fee |-> t.tx.gas_fee]]

\* getTxs: the others are left out; without any the slice stays nil.
GetTxs(txs) ==
    LET kept == SelectSeq(txs, LAMBDA t : t.tx # Undecodable)
    IN  IF kept = <<>> THEN Null ELSE [i \in DOMAIN kept |-> NewBlockTransaction(kept[i])]

\* NewBlock, with its accessors: the header's fields, a missing commit hash as
\* the empty string.
NewBlock(b) ==
    [x \in (DOMAIN b.header) \cup {"last_commit_hash", "txs"} |->
        CASE x = "txs" -> GetTxs(b.txs)
          [] x = "last_commit_hash" -> IF b.header.last_commit_hash = Null THEN "" ELSE b.header.last_commit_hash
          [] OTHER -> b.header[x]]

=============================================================================
