---------------------------- MODULE GraphInputs ----------------------------
(***************************************************************************)
(* The input types of the GraphQL API (unmarshalInput... of                *)
(* src/serve/graph/generated.go): the fields a filter may have, and of     *)
(* which type each is.  Every type of a where argument also has _and, _or  *)
(* and _not of its own type.                                               *)
(***************************************************************************)
EXTENDS GraphSchema, Integers, Sequences

-----------------------------------------------------------------------------
(* The leaves of a where argument. *)

FilterBoolean == [exists |-> "Boolean", eq |-> "Boolean"]
FilterInt == [exists |-> "Boolean", eq |-> "Int", gt |-> "Int", lt |-> "Int"]
FilterString == [exists |-> "Boolean", eq |-> "String", like |-> "String"]
FilterTime == [exists |-> "Boolean", eq |-> "Time", before |-> "Time", after |-> "Time"]

-----------------------------------------------------------------------------
(* The where arguments of getBlocks and getTransactions. *)

FilterBlock == [hash |-> "FilterString", height |-> "FilterInt", version |-> "FilterString",
                chain_id |-> "FilterString", time |-> "FilterTime", num_txs |-> "FilterInt",
                total_txs |-> "FilterInt", app_version |-> "FilterString",
                last_block_hash |-> "FilterString", last_commit_hash |-> "FilterString",
                validators_hash |-> "FilterString", next_validators_hash |-> "FilterString",
                consensus_hash |-> "FilterString", app_hash |-> "FilterString",
                last_results_hash |-> "FilterString", proposer_address_raw |-> "FilterString",
                txs |-> "NestedFilterBlockTransaction"]
FilterTransaction == [index |-> "FilterInt", hash |-> "FilterString", success |-> "FilterBoolean",
                      block_height |-> "FilterInt", gas_wanted |-> "FilterInt",
                      gas_used |-> "FilterInt", gas_fee |-> "NestedFilterCoin",
                      messages |-> "NestedFilterTransactionMessage", memo |-> "FilterString",
                      response |-> "NestedFilterTransactionResponse"]
NestedFilterBankMsgSend == [from_address |-> "FilterString", to_address |-> "FilterString",
                            amount |-> "FilterString"]
NestedFilterBlockTransaction == [hash |-> "FilterString", fee |-> "NestedFilterTxFee",
                                 memo |-> "FilterString"]
NestedFilterCoin == [amount |-> "FilterInt", denom |-> "FilterString"]
NestedFilterEvent == [GnoEvent |-> "NestedFilterGnoEvent",
                      StorageDepositEvent |-> "NestedFilterStorageDepositEvent",
                      StorageUnlockEvent |-> "NestedFilterStorageUnlockEvent",
                      UnknownEvent |-> "NestedFilterUnknownEvent"]
NestedFilterGnoEvent == [type |-> "FilterString", pkg_path |-> "FilterString",
                         attrs |-> "NestedFilterGnoEventAttribute"]
NestedFilterGnoEventAttribute == [key |-> "FilterString", value |-> "FilterString"]
NestedFilterMemFile == [name |-> "FilterString", body |-> "FilterString"]
NestedFilterMemPackage == [name |-> "FilterString", path |-> "FilterString",
                           files |-> "NestedFilterMemFile"]
NestedFilterMessageValue == [BankMsgSend |-> "NestedFilterBankMsgSend",
                             MsgCall |-> "NestedFilterMsgCall",
                             MsgAddPackage |-> "NestedFilterMsgAddPackage",
                             MsgRun |-> "NestedFilterMsgRun"]
NestedFilterMsgAddPackage == [creator |-> "FilterString", package |-> "NestedFilterMemPackage",
                              deposit |-> "FilterString", send |-> "FilterString",
                              max_deposit |-> "FilterString"]
NestedFilterMsgCall == [caller |-> "FilterString", send |-> "FilterString",
                        pkg_path |-> "FilterString", func |-> "FilterString",
                        args |-> "FilterString", max_deposit |-> "FilterString"]
NestedFilterMsgRun == [caller |-> "FilterString", send |-> "FilterString",
                       package |-> "NestedFilterMemPackage", max_deposit |-> "FilterString"]
NestedFilterStorageDepositEvent == [type |-> "FilterString", bytes_delta |-> "FilterInt",
                                    fee_delta |-> "NestedFilterCoin", pkg_path |-> "FilterString"]
NestedFilterStorageUnlockEvent == [type |-> "FilterString", bytes_delta |-> "FilterInt",
                                   fee_refund |-> "NestedFilterCoin", pkg_path |-> "FilterString"]
NestedFilterTransactionMessage == [typeUrl |-> "FilterString", route |-> "FilterString",
                                   value |-> "NestedFilterMessageValue"]
NestedFilterTransactionResponse == [log |-> "FilterString", info |-> "FilterString",
                                    error |-> "FilterString", data |-> "FilterString",
                                    events |-> "NestedFilterEvent"]
NestedFilterTxFee == [gas_wanted |-> "FilterInt", gas_fee |-> "NestedFilterCoin"]
NestedFilterUnknownEvent == [value |-> "FilterString"]

-----------------------------------------------------------------------------
(* The filters of blocks and transactions, and the orders. *)

\* The enumerations: another value is refused.
Order == {"ASC", "DESC"}
MessageRoute == {"vm", "bank"}
MessageType == {"send", "exec", "add_package", "run"}

AmountInput == [from |-> "Int", to |-> "Int", denomination |-> "String"]
BankMsgSendInput == [from_address |-> "String", to_address |-> "String", amount |-> "AmountInput"]
BlockFilter == [from_height |-> "Int", to_height |-> "Int", from_time |-> "Time",
                to_time |-> "Time"]
BlockOrder == [height |-> "Order"]
CoinInput == [amount |-> "Int", denom |-> "String"]
EventAttributeInput == [key |-> "String", value |-> "String"]
EventInput == [gno_event |-> "GnoEventInput", storage_deposit_event |-> "StorageDepositEventInput",
               storage_unlock_event |-> "StorageUnlockEventInput"]
GnoEventInput == [type |-> "String", pkg_path |-> "String", attrs |-> "EventAttributeInput"]
MemFileInput == [name |-> "String", body |-> "String"]
MemPackageInput == [name |-> "String", path |-> "String", files |-> "MemFileInput"]
MsgAddPackageInput == [creator |-> "String", package |-> "MemPackageInput",
                       deposit |-> "AmountInput"]
MsgCallInput == [caller |-> "String", send |-> "AmountInput", pkg_path |-> "String",
                 func |-> "String", args |-> "String"]
MsgRunInput == [caller |-> "String", send |-> "AmountInput", package |-> "MemPackageInput"]
StorageDepositEventInput == [type |-> "String", bytes_delta |-> "Int", fee_delta |-> "CoinInput",
                             pkg_path |-> "String"]
StorageUnlockEventInput == [type |-> "String", bytes_delta |-> "Int", fee_refund |-> "CoinInput",
                            pkg_path |-> "String"]
TransactionBankMessageInput == [send |-> "BankMsgSendInput"]
TransactionFilter == [from_block_height |-> "Int", to_block_height |-> "Int", from_index |-> "Int",
                      to_index |-> "Int", from_gas_wanted |-> "Int", to_gas_wanted |-> "Int",
                      from_gas_used |-> "Int", to_gas_used |-> "Int", hash |-> "String",
                      message |-> "TransactionMessageInput", memo |-> "String",
                      success |-> "Boolean", events |-> "EventInput"]
TransactionMessageInput == [type_url |-> "MessageType", route |-> "MessageRoute",
                            bank_param |-> "TransactionBankMessageInput",
                            vm_param |-> "TransactionVmMessageInput"]
TransactionOrder == [heightAndIndex |-> "Order"]
TransactionVmMessageInput == [exec |-> "MsgCallInput", add_package |-> "MsgAddPackageInput",
                              run |-> "MsgRunInput"]

-----------------------------------------------------------------------------

InputTypes ==
    [AmountInput |-> AmountInput, BankMsgSendInput |-> BankMsgSendInput,
     BlockFilter |-> BlockFilter, BlockOrder |-> BlockOrder, CoinInput |-> CoinInput,
     EventAttributeInput |-> EventAttributeInput, EventInput |-> EventInput,
     FilterBlock |-> FilterBlock, FilterBoolean |-> FilterBoolean, FilterInt |-> FilterInt,
     FilterString |-> FilterString, FilterTime |-> FilterTime,
     FilterTransaction |-> FilterTransaction, GnoEventInput |-> GnoEventInput,
     MemFileInput |-> MemFileInput, MemPackageInput |-> MemPackageInput,
     MsgAddPackageInput |-> MsgAddPackageInput, MsgCallInput |-> MsgCallInput,
     MsgRunInput |-> MsgRunInput, NestedFilterBankMsgSend |-> NestedFilterBankMsgSend,
     NestedFilterBlockTransaction |-> NestedFilterBlockTransaction,
     NestedFilterCoin |-> NestedFilterCoin, NestedFilterEvent |-> NestedFilterEvent,
     NestedFilterGnoEvent |-> NestedFilterGnoEvent,
     NestedFilterGnoEventAttribute |-> NestedFilterGnoEventAttribute,
     NestedFilterMemFile |-> NestedFilterMemFile,
     NestedFilterMemPackage |-> NestedFilterMemPackage,
     NestedFilterMessageValue |-> NestedFilterMessageValue,
     NestedFilterMsgAddPackage |-> NestedFilterMsgAddPackage,
     NestedFilterMsgCall |-> NestedFilterMsgCall, NestedFilterMsgRun |-> NestedFilterMsgRun,
     NestedFilterStorageDepositEvent |-> NestedFilterStorageDepositEvent,
     NestedFilterStorageUnlockEvent |-> NestedFilterStorageUnlockEvent,
     NestedFilterTransactionMessage |-> NestedFilterTransactionMessage,
     NestedFilterTransactionResponse |-> NestedFilterTransactionResponse,
     NestedFilterTxFee |-> NestedFilterTxFee,
     NestedFilterUnknownEvent |-> NestedFilterUnknownEvent,
     StorageDepositEventInput |-> StorageDepositEventInput,
     StorageUnlockEventInput |-> StorageUnlockEventInput,
     TransactionBankMessageInput |-> TransactionBankMessageInput,
     TransactionFilter |-> TransactionFilter, TransactionMessageInput |-> TransactionMessageInput,
     TransactionOrder |-> TransactionOrder, TransactionVmMessageInput |-> TransactionVmMessageInput]

\* Whether a pointer of a filter is not nil.
IsSet(f, k) == k \in DOMAIN f

=============================================================================
