----------------------------- MODULE ManagerLocks -----------------------------
(***************************************************************************)
(* The locks of the consensus manager.  Each of its functions is the        *)
(* sequence of the guards it awaits, with the guards it drops before it     *)
(* awaits the next one; what it computes is left out, but for where it may  *)
(* return early.  NodeLocks runs these functions and those of the node at   *)
(* the same time.                                                           *)
(*                                                                          *)
(* Locks that nobody writes (governance, is_decentralized,                  *)
(* total_vez_supply) are left out.                                          *)
(***************************************************************************)
EXTENDS Integers, Sequences, SequencesExt

Await(lock, mode) ==
  [lock |-> lock, mode |-> mode, drop |-> {}, out |-> FALSE, opt |-> FALSE, timed |-> FALSE]
R(lock) == <<Await(lock, "read")>>
W(lock) == <<Await(lock, "write")>>

Locks(f) == {f[i].lock : i \in DOMAIN f}
\* the guards of a block are dropped at its end
Block(f) == [f EXCEPT ![Len(f)].drop = @ \cup Locks(f)]
\* it may return after its last await, or not await it at all
MayLeave(f) == [f EXCEPT ![Len(f)].out = TRUE]
MaySkip(f) == [i \in DOMAIN f |-> [f[i] EXCEPT !.opt = TRUE]]
\* no await of it lasts longer than a timeout
Timed(f) == [i \in DOMAIN f |-> [f[i] EXCEPT !.timed = TRUE]]
\* a guard that is a temporary, or the only one of its block
Read(lock) == Block(R(lock))
Write(lock) == Block(W(lock))

find_vezcur_contract_address == Read("vm")
call_vez == find_vezcur_contract_address \o Write("vm")

initialize_system_validator == call_vez \o Block(W("validators") \o W("leader"))
sync_relay_validators_from_vm == find_vezcur_contract_address \o Block(W("vm") \o W("validators") \o W("leader"))

calculate_relay_powers == Block(W("validators") \o R("delegations"))
calculate_stake_power == Block(R("delegations") \o R("validators"))
get_consensus_threshold == Read("validators")
select_lurosonie_relay_leader == Block(R("validators") \o MaySkip(R("last_hash")))
lurosonie_relay_power_rotation ==
  sync_relay_validators_from_vm \o calculate_relay_powers \o select_lurosonie_relay_leader \o Write("leader")

add_lurosonie_block_to_chain == Write("last_hash") \o Write("chain")
produce_lurosonie_block_keeps_pending ==
  Block(R("pending") \o calculate_relay_powers \o calculate_stake_power
    \o MayLeave(get_consensus_threshold) \o Read("last_hash") \o add_lurosonie_block_to_chain \o W("pending"))
produce_lurosonie_block ==
  Read("pending") \o calculate_relay_powers \o calculate_stake_power
    \o MayLeave(get_consensus_threshold) \o Read("last_hash") \o add_lurosonie_block_to_chain \o Write("pending")
lurosonie_bft_consensus ==
  find_vezcur_contract_address \o MayLeave(Write("vm")) \o call_vez
make_block == Read("chain") \o Read("leader") \o produce_lurosonie_block \o lurosonie_bft_consensus

\* the guard is kept while the operation is sent; main announces what it receives
add_transaction_to_mempool == Block(W("pending") \o <<Await("room", "send")>>)
announce == Block(<<Await("item", "receive")>> \o R("chain"))
add_pending_transaction == Write("balances") \o Write("pending")

validate_transaction == Block(R("balances") \o MaySkip(W("balances")))
validate_and_add_transaction ==
  MayLeave(Read("validators")) \o add_pending_transaction \o Read("chain")
    \o produce_lurosonie_block \o lurosonie_bft_consensus

delegate_stake ==
  MayLeave(Read("validators")) \o MayLeave(Write("vm")) \o Write("delegations")

get_lurosonie_stats_leader_first ==
  Block(R("leader") \o R("chain") \o R("validators") \o R("delegations"))
get_lurosonie_stats == Block(R("chain") \o R("validators") \o R("delegations") \o R("leader"))
get_performance_stats == Block(R("validators") \o R("chain"))
get_network_metrics == Block(R("validators") \o R("chain") \o R("pending"))

get_complete_contract_data == Block(W("vm") \o W("history"))
get_contract_state_at_block ==
  MayLeave(Read("chain")) \o MayLeave(Write("history")) \o Write("vm")

\* functions that await one guard
chain_readers == Read("chain")
sync_from_database == Write("chain")
last_hash_readers == Read("last_hash")
add_block_to_chain == Write("last_hash")
validator_readers == Read("validators")
mempool_readers == Read("pending")
balance_writers == Write("balances")
get_contract_state == Write("vm")

\* what the consensus task runs; what else may be called, though some of it never is; and
\* what has no caller and closes a circle if it is called beside the others
consensus_calls == {initialize_system_validator, make_block}
manager_calls == {
  get_lurosonie_stats, get_performance_stats, add_transaction_to_mempool,
  add_pending_transaction, validate_transaction, delegate_stake, get_complete_contract_data,
  get_contract_state, get_contract_state_at_block, chain_readers, last_hash_readers,
  add_block_to_chain, validator_readers, mempool_readers, balance_writers}
dormant_calls == {
  sync_from_database, validate_and_add_transaction, lurosonie_relay_power_rotation}
=============================================================================
