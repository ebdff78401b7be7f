---------------------------- MODULE BitcoinBridge ----------------------------
(***************************************************************************)
(* The Bitcoin bridge's deposits: the watcher task (watch_blocks) that     *)
(* registers them in a shared map, the callers that read the map and set   *)
(* the contract, and the Bitcoin node.  Each RPC call is a step of its     *)
(* own, so blocks may arrive and the best chain may be reorganised between *)
(* two calls.                                                              *)
(***************************************************************************)
EXTENDS BitcoinNode

CONSTANTS
  Outputs,       \* Outputs[t]: amounts t pays to the bridge address, in order
  MinConf,       \* confirmations of a confirmed deposit (6)
  ContractIsSet  \* does anyone call set_vez_contract

ASSUME MinConfAssumption == MinConf \in Nat \ {0}
ASSUME OutputsAssumption == Outputs \in [Txs -> Seq(Nat)]
ASSUME ContractAssumption == ContractIsSet \in BOOLEAN

VARIABLES
  vezContract, \* is the VEZ contract address set
  deposits,    \* deposits, a partial map from txid to BtcDeposit
  wpc,         \* where the watcher is
  lastHeight,  \* last_height of watch_blocks, and last_btc_height
  wHash,       \* block_hash of process_new_block
  todo,        \* txids of process_new_block still to check
  tx,          \* the transaction being checked: txid, outputs left, confirmations
  asked        \* is a caller waiting in get_pending_deposits

watcherVars == <<wpc, lastHeight, wHash, todo, tx>>
vars == <<nodeVars, vezContract, deposits, watcherVars, asked>>

NoTx == [txid |-> "none", outputs |-> <<>>, confirmations |-> 0]

Init ==
  /\ NodeInit
  /\ vezContract = FALSE /\ deposits = <<>>
  /\ wpc = "poll" /\ lastHeight = 0 /\ wHash = <<>>
  /\ todo = {} /\ tx = NoTx
  /\ asked = FALSE

NewBlocks ==
  /\ NodeStep
  /\ UNCHANGED <<vezContract, deposits, watcherVars, asked>>

-----------------------------------------------------------------------------
(* The watcher.                                                            *)

\* watch_blocks: a block higher than any before; the heights in between are
\* never looked at
IsNewHeight(h) == h > lastHeight

WatchNewHeight ==
  /\ wpc = "poll"
  /\ \E h \in Counts : IsNewHeight(h) /\ lastHeight' = h
  /\ wpc' = "hash"
  /\ UNCHANGED <<nodeVars, vezContract, deposits, wHash, todo, tx,
                 asked>>

\* process_new_block gives up: the block is not tried again
GiveUp_Stop(stage) ==
  /\ RpcFails /\ wpc = stage /\ wpc' = "stopped"
  /\ UNCHANGED <<nodeVars, vezContract, deposits, lastHeight, wHash,
                 todo, tx, asked>>
GiveUp(stage) ==
  /\ RpcFails /\ wpc = stage /\ wpc' = "poll"
  /\ UNCHANGED <<nodeVars, vezContract, deposits, lastHeight, wHash,
                 todo, tx, asked>>

FetchBlockHash ==
  /\ wpc = "hash" /\ wpc' = "txs"
  /\ wHash' = HashAt(lastHeight)
  /\ UNCHANGED <<nodeVars, vezContract, deposits, lastHeight, todo, tx,
                 asked>>

FetchBlockTxs ==
  /\ wpc = "txs" /\ wpc' = "check"
  /\ todo' = BlockTxs(wHash)
  /\ UNCHANGED <<nodeVars, vezContract, deposits, lastHeight, wHash, tx,
                 asked>>

\* check_deposit: gettransaction, its outputs to the bridge and its
\* confirmations at this moment.  A failed call skips the transaction.
FetchTransaction ==
  /\ wpc = "check" /\ tx = NoTx
  /\ \E t \in todo :
       /\ todo' = todo \ {t}
       /\ \/ tx' = [txid |-> t, outputs |-> Outputs[t],
                    confirmations |-> Confirmations(t)]
          \/ RpcFails /\ tx' = NoTx
  /\ UNCHANGED <<nodeVars, vezContract, deposits, wpc, lastHeight, wHash,
                 asked>>

BlockProcessed ==
  /\ wpc = "check" /\ tx = NoTx /\ todo = {}
  /\ wpc' = "poll"
  /\ UNCHANGED <<nodeVars, vezContract, deposits, lastHeight, wHash,
                 todo, tx, asked>>

Status_Early(confirmations) ==
  IF confirmations >= MinConf - 1 THEN "Confirmed" ELSE "Pending"
Status(confirmations) ==
  IF confirmations >= MinConf THEN "Confirmed" ELSE "Pending"

\* mint_vez_for_deposit takes deposits.write() a second time
WaitsForMint_Unchecked(confirmations) == Status(confirmations) = "Confirmed"
WaitsForMint(confirmations) ==
  Status(confirmations) = "Confirmed" /\ vezContract

\* the BtcDeposit of the next output
Registered == [amount |-> Head(tx.outputs), confirmations |-> tx.confirmations,
               status |-> Status(tx.confirmations)]

\* register_deposit, under deposits.write(): the deposit is keyed by its txid.
\* With enough confirmations mint_vez_for_deposit follows under the same guard:
\* without a contract it returns "error: no contract"; with one it waits for
\* deposits.write() that its caller holds, and nothing leaves "mint".
RegisterDeposit ==
  /\ wpc = "check" /\ tx.outputs # <<>>
  /\ deposits' = [t \in DOMAIN deposits \cup {tx.txid} |->
                    IF t = tx.txid THEN Registered ELSE deposits[t]]
  /\ tx' = [tx EXCEPT !.outputs = Tail(tx.outputs)]
  /\ wpc' = IF WaitsForMint(tx.confirmations) THEN "mint" ELSE "check"
  /\ UNCHANGED <<nodeVars, vezContract, lastHeight, wHash, todo,
                 asked>>

\* every output of the transaction was looked at
TransactionChecked ==
  /\ wpc = "check" /\ tx # NoTx /\ tx.outputs = <<>>
  /\ tx' = NoTx
  /\ UNCHANGED <<nodeVars, vezContract, deposits, wpc, lastHeight,
                 wHash, todo, asked>>

(* Callers of the bridge.                                                  *)

SetVezContract ==
  /\ ContractIsSet /\ ~vezContract /\ vezContract' = TRUE
  /\ UNCHANGED <<nodeVars, deposits, watcherVars, asked>>

AskPendingDeposits ==
  /\ ~asked /\ asked' = TRUE
  /\ UNCHANGED <<nodeVars, vezContract, deposits, watcherVars>>

\* get_pending_deposits reads the map under deposits.read()
GetPendingDeposits ==
  /\ asked /\ wpc # "mint" /\ asked' = FALSE
  /\ UNCHANGED <<nodeVars, vezContract, deposits, watcherVars>>

-----------------------------------------------------------------------------
Watcher ==
  \/ WatchNewHeight \/ FetchBlockHash \/ FetchBlockTxs \/ FetchTransaction
  \/ RegisterDeposit \/ TransactionChecked \/ BlockProcessed

Callers == SetVezContract \/ AskPendingDeposits \/ GetPendingDeposits

Next ==
  \/ NewBlocks
  \/ Watcher \/ GiveUp("hash") \/ GiveUp("txs")
  \/ Callers

Spec == Init /\ [][Next]_vars

\* the runtime polls the watcher and the callers, and a backend that answers
\* getblockcount is not behind for ever
FairSpec ==
  /\ Spec
  /\ WF_vars(Watcher) /\ WF_vars(GetPendingDeposits)
  /\ SF_vars(WatchNewHeight /\ lastHeight' = Len(best))

-----------------------------------------------------------------------------
(* Properties.                                                             *)

Deposits == [amount : Nat, confirmations : Nat, status : {"Pending", "Confirmed"}]

\* Every variable has the type its Rust declaration gives it; no deposit has
\* the status Minted, which only mint_vez_for_deposit writes.
TypeOK ==
  /\ NodeTypeOK /\ vezContract \in BOOLEAN
  /\ \E S \in SUBSET Txs : deposits \in [S -> Deposits]
  /\ wpc \in {"poll", "hash", "txs", "check", "mint"}
  /\ lastHeight \in Nat /\ wHash \in Chains
  /\ todo \subseteq Txs
  /\ tx \in [txid : Txs \cup {"none"}, outputs : Seq(Nat), confirmations : Nat]
  /\ asked \in BOOLEAN

\* A deposit with the confirmations required to mint stays on the best chain
\* as long as reorganisations are shorter than that, whenever the calls that
\* counted its confirmations were made.
ConfirmedStays ==
  MaxReorg < MinConf =>
    \A t \in DOMAIN deposits :
      deposits[t].status = "Confirmed" => MinedAt(t) # 0

\* The watcher gets to the height of every new block or beyond, unless someone
\* sets a VEZ contract: a call that fails costs it a block and no more.
WatcherFollows ==
  \A h \in 1..MaxHeight : Len(best) >= h ~> (lastHeight >= h \/ vezContract)

\* A caller of get_pending_deposits is answered, though the watcher holds the
\* same lock to register deposits, unless someone sets a VEZ contract.
PendingAnswered == asked ~> (~asked \/ vezContract)

=============================================================================
