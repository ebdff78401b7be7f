---------------------------- MODULE ParallelEngine ----------------------------
(***************************************************************************)
(* The optimistic parallel engine of slurachain_vm over the storage of one *)
(* contract.  Every transaction of a batch is executed by the engine's own *)
(* clone of the VM, one at a time under its mutex but in any order: its    *)
(* slots are reloaded from RocksDB, and what it wrote is stored when it    *)
(* returns.  Then the write sets of all active transactions are committed  *)
(* in the order of their ids.                                              *)
(*                                                                         *)
(* A value of a slot is the set of transactions it depends on, which tells *)
(* every two histories of a slot apart.                                    *)
(***************************************************************************)
EXTENDS Naturals, FiniteSets

CONSTANTS
  Slots,    \* storage slots of the contract
  MaxBatch, \* transactions of a batch; execute_module makes batches of one
  MaxTx     \* bound: transactions executed

ASSUME BoundsAssumption == MaxBatch \in Nat \ {0} /\ MaxTx \in Nat

VARIABLES
  db,       \* RocksDB: storage:{contract}:{slot}
  cached,   \* account.resources, which the interpreter starts from
  active,   \* active_transactions: per id its write_set, a set of [slot, value]
  entered,  \* ids that have ever been entered in active_transactions
  pc,       \* where execute_parallel_batch is
  size,     \* transactions of the batch, with ids 0 .. size - 1
  todo,     \* ids to execute, then ids to validate and commit
  count,    \* transactions executed so far
  ref,      \* history: the slots after the transactions in the order they ran
  ordered   \* history: has every id run after the lower ids and been entered anew,
            \* and no crash fallen among the commits of several

vars == <<db, cached, active, entered, pc, size, todo, count, ref, ordered>>

Ids == 0 .. MaxBatch - 1
Txs == 1..MaxTx
Values == SUBSET Txs
WriteSets == SUBSET [slot : Slots, value : Values]
Storage == [Slots -> Values]
Unwritten == [s \in Slots |-> {}]

Init ==
  /\ db = Unwritten /\ cached = Unwritten /\ ref = Unwritten
  /\ active = [i \in Ids |-> {}] /\ entered = {}
  /\ pc = "idle" /\ size = 0 /\ todo = {} /\ count = 0
  /\ ordered = TRUE

\* execute_parallel_transactions: ids are the positions in the batch; entries of
\* an earlier batch with the same ids are replaced, the others stay
Entered(ids) == entered \cup ids

Submit ==
  /\ pc = "idle"
  /\ \E n \in 1..MaxBatch :
       /\ size' = n /\ todo' = 0 .. n - 1
       /\ active' = [i \in Ids |-> IF i < n THEN {} ELSE active[i]]
       /\ entered' = Entered(0 .. n - 1)
       /\ ordered' = (ordered /\ entered \subseteq 0 .. n - 1)
  /\ pc' = "run"
  /\ UNCHANGED <<db, cached, count, ref>>

\* scan_prefix: a slot that RocksDB has replaces the cached one
Reload_None == cached
Reload == [s \in Slots |-> IF db[s] # {} THEN db[s] ELSE cached[s]]

\* execute_speculative_transaction: reload, execute, store (post-processing of
\* the result) and fill the write set, all under the engine's mutex
Execute(i) ==
  /\ pc = "run" /\ i \in todo /\ count < MaxTx
  /\ count' = count + 1
  /\ cached' = Reload
  /\ \E from \in Slots, to \in Slots :
       LET value == Reload[from] \cup {count + 1} IN
       /\ db' = [db EXCEPT ![to] = value]
       /\ active' = [active EXCEPT ![i] = {[slot |-> to, value |-> value]}]
       /\ ref' = [ref EXCEPT ![to] = ref[from] \cup {count + 1}]
  /\ todo' = todo \ {i}
  /\ ordered' = (ordered /\ \A j \in todo : i <= j)
  /\ UNCHANGED <<entered, pc, size>>

\* a transaction that fails, or writes nothing, has an empty write set
ExecuteNothing(i) ==
  /\ pc = "run" /\ i \in todo
  /\ cached' = Reload /\ todo' = todo \ {i}
  /\ UNCHANGED <<db, active, entered, pc, size, count, ref, ordered>>

StartValidation ==
  /\ pc = "run" /\ todo = {}
  /\ pc' = "commit" /\ todo' = entered
  /\ UNCHANGED <<db, cached, active, entered, size, count, ref, ordered>>

\* validate_transaction_conflicts compares the versions of the read set, which
\* nothing fills: every transaction is valid, and none is ever retried
IsValid(i) == TRUE

Written(slot, i) == \E w \in active[i] : w.slot = slot
ValueOf(slot, i) == CHOOSE v \in Values : [slot |-> slot, value |-> v] \in active[i]

\* the write set replaces what RocksDB has, whoever wrote it since
Committed(i) == [s \in Slots |-> IF Written(s, i) THEN ValueOf(s, i) ELSE db[s]]

ValidateAndCommit(i) ==
  /\ pc = "commit" /\ i \in todo /\ \A j \in todo : i <= j
  /\ IsValid(i)
  /\ db' = Committed(i)
  /\ todo' = todo \ {i}
  /\ UNCHANGED <<cached, active, entered, pc, size, count, ref, ordered>>

\* no transaction is in conflict: the results are answered in the batch's order
Answer ==
  /\ pc = "commit" /\ todo = {}
  /\ pc' = "idle"
  /\ UNCHANGED <<db, cached, active, entered, size, todo, count, ref, ordered>>

\* the process dies at any point; the resources of the saved accounts are those
\* of an earlier reload
Crash ==
  /\ pc' = "idle" /\ todo' = {} /\ size' = 0
  /\ active' = [i \in Ids |-> {}] /\ entered' = {} /\ cached' = Unwritten
  /\ ordered' = (ordered /\ (pc = "commit" => Cardinality(entered) = 1))
  /\ UNCHANGED <<db, count, ref>>

Next ==
  \/ Submit \/ StartValidation \/ Answer \/ Crash
  \/ \E i \in Ids : Execute(i) \/ ExecuteNothing(i) \/ ValidateAndCommit(i)

Spec == Init /\ [][Next]_vars

-----------------------------------------------------------------------------
(* Properties.                                                             *)

TypeOK ==
  /\ db \in Storage /\ cached \in Storage /\ ref \in Storage
  /\ active \in [Ids -> WriteSets] /\ entered \in SUBSET Ids
  /\ pc \in {"idle", "run", "commit"} /\ size \in 0..MaxBatch
  /\ todo \in SUBSET Ids /\ count \in 0..MaxTx /\ ordered \in BOOLEAN

\* As long as the transactions of every batch ran in the order of their ids and
\* no entry of a larger batch was left behind, which holds of batches of one,
\* RocksDB has what the transactions leave when they run one after the other:
\* committing the write sets again loses no later value, a crash no value at all.
Serializable == ordered /\ pc = "idle" => db = ref

=============================================================================
