---------------------------- MODULE GraphSchema ----------------------------
(***************************************************************************)
(* The output types of the GraphQL API as src/serve/graph/generated.go     *)
(* executes them: which fields an object has, of which type each is, and   *)
(* which may not be null.  A field's executor (with its field context) is  *)
(* a type reference: the type, whether a list, and what may be null.       *)
(***************************************************************************)

CONSTANT Null    \* GraphQL's null, and nil

\* A reference to a type, without and with the exclamation mark.
Nullable(type) == [list |-> FALSE, type |-> type, nonNull |-> FALSE]
NonNull(type)  == [list |-> FALSE, type |-> type, nonNull |-> TRUE]

\* A reference to a list, of references.
ListOf(ref)        == [list |-> TRUE, of |-> ref, nonNull |-> FALSE]
NonNullListOf(ref) == [list |-> TRUE, of |-> ref, nonNull |-> TRUE]

-----------------------------------------------------------------------------
(* The fields. *)

BankMsgSend_from_address == NonNull("String")
BankMsgSend_to_address   == NonNull("String")
BankMsgSend_amount       == NonNull("String")

Block_hash                 == NonNull("String")
Block_height               == NonNull("Int")
Block_version              == NonNull("String")
Block_chain_id             == NonNull("String")
Block_time                 == NonNull("Time")
Block_num_txs              == NonNull("Int")
Block_total_txs            == NonNull("Int")
Block_app_version          == NonNull("String")
Block_last_block_hash      == NonNull("String")
Block_last_commit_hash     == NonNull("String")
Block_validators_hash      == NonNull("String")
Block_next_validators_hash == NonNull("String")
Block_consensus_hash       == NonNull("String")
Block_app_hash             == NonNull("String")
Block_last_results_hash    == NonNull("String")
Block_proposer_address_raw == NonNull("String")
Block_txs                  == NonNullListOf(Nullable("BlockTransaction"))

BlockTransaction_hash        == NonNull("String")
BlockTransaction_fee         == NonNull("TxFee")
BlockTransaction_memo        == NonNull("String")
BlockTransaction_content_raw == NonNull("String")

Coin_amount == NonNull("Int")
Coin_denom  == NonNull("String")

GnoEvent_type     == NonNull("String")
GnoEvent_pkg_path == NonNull("String")
GnoEvent_attrs    == ListOf(NonNull("GnoEventAttribute"))

GnoEventAttribute_key   == NonNull("String")
GnoEventAttribute_value == NonNull("String")

MemFile_name == NonNull("String")
MemFile_body == NonNull("String")

MemPackage_name  == NonNull("String")
MemPackage_path  == NonNull("String")
MemPackage_files == ListOf(NonNull("MemFile"))

MsgAddPackage_creator     == NonNull("String")
MsgAddPackage_package     == NonNull("MemPackage")
MsgAddPackage_deposit     == NonNull("String")
MsgAddPackage_send        == NonNull("String")
MsgAddPackage_max_deposit == NonNull("String")

MsgCall_caller      == NonNull("String")
MsgCall_send        == NonNull("String")
MsgCall_pkg_path    == NonNull("String")
MsgCall_func        == NonNull("String")
MsgCall_args        == ListOf(NonNull("String"))
MsgCall_max_deposit == NonNull("String")

MsgRun_caller      == NonNull("String")
MsgRun_send        == NonNull("String")
MsgRun_package     == NonNull("MemPackage")
MsgRun_max_deposit == NonNull("String")

StorageDepositEvent_type        == NonNull("String")
StorageDepositEvent_bytes_delta == NonNull("Int")
StorageDepositEvent_fee_delta   == NonNull("Coin")
StorageDepositEvent_pkg_path    == NonNull("String")

StorageUnlockEvent_type        == NonNull("String")
StorageUnlockEvent_bytes_delta == NonNull("Int")
StorageUnlockEvent_fee_refund  == NonNull("Coin")
StorageUnlockEvent_pkg_path    == NonNull("String")

Transaction_index        == NonNull("Int")
Transaction_hash         == NonNull("String")
Transaction_success      == NonNull("Boolean")
Transaction_block_height == NonNull("Int")
Transaction_gas_wanted   == NonNull("Int")
Transaction_gas_used     == NonNull("Int")
Transaction_gas_fee      == Nullable("Coin")
Transaction_content_raw  == NonNull("String")
\* Deviation of Transaction_messages: the elements may not be null.
MessagesNonNull == NonNullListOf(NonNull("TransactionMessage"))

Transaction_messages     == NonNullListOf(Nullable("TransactionMessage"))
Transaction_memo         == NonNull("String")
Transaction_response     == NonNull("TransactionResponse")

TransactionMessage_typeUrl == NonNull("String")
TransactionMessage_route   == NonNull("String")
TransactionMessage_value   == NonNull("MessageValue")

TransactionResponse_log    == NonNull("String")
TransactionResponse_info   == NonNull("String")
TransactionResponse_error  == NonNull("String")
TransactionResponse_data   == NonNull("String")
TransactionResponse_events == ListOf(Nullable("Event"))

TxFee_gas_wanted == NonNull("Int")
TxFee_gas_fee    == NonNull("Coin")

UnexpectedMessage_raw == NonNull("String")

UnknownEvent_value == NonNull("String")

Query_transactions      == ListOf(NonNull("Transaction"))
Query_blocks            == ListOf(NonNull("Block"))
Query_latestBlockHeight == NonNull("Int")
Query_getBlocks         == ListOf(NonNull("Block"))
Query_getTransactions   == ListOf(NonNull("Transaction"))

-----------------------------------------------------------------------------
(* The objects, the unions and the query root. *)

BankMsgSendObject == [from_address |-> BankMsgSend_from_address, to_address |-> BankMsgSend_to_address,
                      amount |-> BankMsgSend_amount]
BlockObject == [hash |-> Block_hash, height |-> Block_height, version |-> Block_version,
                chain_id |-> Block_chain_id, time |-> Block_time, num_txs |-> Block_num_txs,
                total_txs |-> Block_total_txs, app_version |-> Block_app_version,
                last_block_hash |-> Block_last_block_hash, last_commit_hash |-> Block_last_commit_hash,
                validators_hash |-> Block_validators_hash,
                next_validators_hash |-> Block_next_validators_hash,
                consensus_hash |-> Block_consensus_hash, app_hash |-> Block_app_hash,
                last_results_hash |-> Block_last_results_hash,
                proposer_address_raw |-> Block_proposer_address_raw, txs |-> Block_txs]
BlockTransactionObject == [hash |-> BlockTransaction_hash, fee |-> BlockTransaction_fee,
                           memo |-> BlockTransaction_memo, content_raw |-> BlockTransaction_content_raw]
CoinObject == [amount |-> Coin_amount, denom |-> Coin_denom]
GnoEventObject == [type |-> GnoEvent_type, pkg_path |-> GnoEvent_pkg_path, attrs |-> GnoEvent_attrs]
GnoEventAttributeObject == [key |-> GnoEventAttribute_key, value |-> GnoEventAttribute_value]
MemFileObject == [name |-> MemFile_name, body |-> MemFile_body]
MemPackageObject == [name |-> MemPackage_name, path |-> MemPackage_path, files |-> MemPackage_files]
MsgAddPackageObject == [creator |-> MsgAddPackage_creator, package |-> MsgAddPackage_package,
                        deposit |-> MsgAddPackage_deposit, send |-> MsgAddPackage_send,
                        max_deposit |-> MsgAddPackage_max_deposit]
MsgCallObject == [caller |-> MsgCall_caller, send |-> MsgCall_send, pkg_path |-> MsgCall_pkg_path,
                  func |-> MsgCall_func, args |-> MsgCall_args, max_deposit |-> MsgCall_max_deposit]
MsgRunObject == [caller |-> MsgRun_caller, send |-> MsgRun_send, package |-> MsgRun_package,
                 max_deposit |-> MsgRun_max_deposit]
StorageDepositEventObject == [type |-> StorageDepositEvent_type, bytes_delta |-> StorageDepositEvent_bytes_delta,
                              fee_delta |-> StorageDepositEvent_fee_delta, pkg_path |-> StorageDepositEvent_pkg_path]
StorageUnlockEventObject == [type |-> StorageUnlockEvent_type, bytes_delta |-> StorageUnlockEvent_bytes_delta,
                             fee_refund |-> StorageUnlockEvent_fee_refund, pkg_path |-> StorageUnlockEvent_pkg_path]
TransactionObject == [index |-> Transaction_index, hash |-> Transaction_hash, success |-> Transaction_success,
                      block_height |-> Transaction_block_height, gas_wanted |-> Transaction_gas_wanted,
                      gas_used |-> Transaction_gas_used, gas_fee |-> Transaction_gas_fee,
                      content_raw |-> Transaction_content_raw, messages |-> Transaction_messages,
                      memo |-> Transaction_memo, response |-> Transaction_response]
TransactionMessageObject == [typeUrl |-> TransactionMessage_typeUrl, route |-> TransactionMessage_route,
                             value |-> TransactionMessage_value]
TransactionResponseObject == [log |-> TransactionResponse_log, info |-> TransactionResponse_info,
                              error |-> TransactionResponse_error, data |-> TransactionResponse_data,
                              events |-> TransactionResponse_events]
TxFeeObject == [gas_wanted |-> TxFee_gas_wanted, gas_fee |-> TxFee_gas_fee]
UnexpectedMessageObject == [raw |-> UnexpectedMessage_raw]
UnknownEventObject == [value |-> UnknownEvent_value]
QueryObject == [transactions |-> Query_transactions, blocks |-> Query_blocks,
                latestBlockHeight |-> Query_latestBlockHeight,
                getBlocks |-> Query_getBlocks, getTransactions |-> Query_getTransactions]

Scalars == {"String", "Int", "Boolean", "Time"}

\* The members of a union; the value tells which it is.
EventMembers == {"GnoEvent", "StorageDepositEvent", "StorageUnlockEvent", "UnknownEvent"}
MessageValueMembers == {"BankMsgSend", "MsgCall", "MsgAddPackage", "MsgRun", "UnexpectedMessage"}
Unions == [Event |-> EventMembers, MessageValue |-> MessageValueMembers]

Objects ==
    [BankMsgSend |-> BankMsgSendObject, Block |-> BlockObject,
     BlockTransaction |-> BlockTransactionObject, Coin |-> CoinObject,
     GnoEvent |-> GnoEventObject, GnoEventAttribute |-> GnoEventAttributeObject,
     MemFile |-> MemFileObject, MemPackage |-> MemPackageObject,
     MsgAddPackage |-> MsgAddPackageObject, MsgCall |-> MsgCallObject, MsgRun |-> MsgRunObject,
     StorageDepositEvent |-> StorageDepositEventObject,
     StorageUnlockEvent |-> StorageUnlockEventObject, Transaction |-> TransactionObject,
     TransactionMessage |-> TransactionMessageObject,
     TransactionResponse |-> TransactionResponseObject, TxFee |-> TxFeeObject,
     UnexpectedMessage |-> UnexpectedMessageObject, UnknownEvent |-> UnknownEventObject]

=============================================================================
