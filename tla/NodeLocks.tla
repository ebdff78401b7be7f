------------------------------- MODULE NodeLocks -------------------------------
(***************************************************************************)
(* The locks of the whole node: the VM, its accounts, the receipts, and     *)
(* those of the consensus manager.  The handlers of the RPC server and the  *)
(* tasks of main are sequences of awaits, as the manager's functions are    *)
(* in ManagerLocks.  The consensus task, the metrics task, the task that    *)
(* announces what enters the mempool, main and the handlers run at the same *)
(* time.                                                                    *)
(*                                                                          *)
(* A function is cut into the segments between two points where it keeps    *)
(* no guard, and a task runs its segments in any order: what it keeps in    *)
(* one has no bearing on another.  A segment that awaits one lock to read   *)
(* it keeps nobody waiting, and is left out.                                *)
(*                                                                          *)
(* tokio's RwLock is fair: who asks waits behind all who asked before, a    *)
(* reader also behind a writer that waits.  try_read never waits.  Locks    *)
(* that are taken only by who has the VM to write (its world state, the     *)
(* interpreter) are left out.                                               *)
(***************************************************************************)
EXTENDS ManagerLocks

CONSTANTS
  Handlers,   \* tasks of the RPC server and of the peers
  Room        \* bound: capacity of the mempool channel (100000)

ASSUME LocksAssumption == Room \in Nat

ConsensusTask == "consensus"
Metrics == "metrics"
Announcer == "announcer"
Main == "main"
Tasks == {ConsensusTask, Metrics, Announcer, Main} \cup Handlers

VARIABLES
  todo,       \* per task, the awaits left of its segment
  held,       \* the guards each task holds
  line,       \* per lock, who waits and for what
  sent        \* operations in the channel of the mempool

lockVars == <<todo, held, line, sent>>

-----------------------------------------------------------------------------
(* The handlers and tasks.                                                  *)

read_accounts == Block(R("vm") \o R("accounts"))
write_accounts == Block(W("vm") \o W("accounts"))
\* an execution reloads the contract's slots into the accounts
execute_module == Write("accounts")
get_latest_block_info == chain_readers \o last_hash_readers
persist_all_state == Read("vm")

get_transaction_count == Read("receipts")
get_transaction_receipt == Block(MayLeave(R("receipts")) \o get_latest_block_info)
wallet_getCallsStatus == Block(R("receipts") \o MaySkip(R("pending")))

eth_call == Read("vm") \o Block(W("vm") \o execute_module)
install == Block(W("vm") \o Write("accounts") \o execute_module \o Write("accounts"))
insert_receipt == Block(W("receipts") \o R("vm"))
send_transaction ==
  get_transaction_count \o MayLeave(Block(W("vm") \o execute_module)) \o read_accounts \o install
    \o write_accounts \o get_latest_block_info \o insert_receipt
perform_contract_deployment ==
  MayLeave(Read("vm")) \o write_accounts \o send_transaction \o read_accounts \o persist_all_state
eth_sendUserOperation == add_transaction_to_mempool \o Write("receipts")

get_block_by_number == chain_readers \o read_accounts
get_block_by_hash ==
  chain_readers \o Block(R("receipts") \o MaySkip(R("chain"))) \o mempool_readers
    \o chain_readers \o read_accounts
eth_getCode == Timed(read_accounts) \o Read("vm")
eth_maxPriorityFeePerGas == chain_readers \o Read("receipts")

load_persisted_receipts == Read("vm") \o Write("receipts")
load_persisted_contracts == Read("vm") \o write_accounts \o Write("vm")
\* the if-let keeps the guard it found the storage manager with
import_delta == Block(R("vm") \o W("vm") \o W("accounts"))

rpc_calls == {
  persist_all_state, get_transaction_count, get_transaction_receipt, wallet_getCallsStatus,
  eth_call, send_transaction, perform_contract_deployment, eth_sendUserOperation,
  get_block_by_number, get_block_by_hash, eth_getCode, read_accounts, write_accounts,
  eth_maxPriorityFeePerGas, load_persisted_receipts, load_persisted_contracts, import_delta}
node_calls_dormant == rpc_calls \cup dormant_calls
node_calls == rpc_calls

\* the consensus loops; main asks for the metrics over and over
Calls(t) ==
  CASE t = ConsensusTask -> consensus_calls
    [] t = Metrics -> {get_network_metrics}
    [] t = Announcer -> {announce}
    [] t = Main -> manager_calls
    [] OTHER -> node_calls

\* the guards, by their awaits, that are kept after the i-th await
Kept(f, i) == {j \in 1..i : \A k \in j..i : f[j].lock \notin f[k].drop}
Cuts(f) == {i \in 0..Len(f) : Kept(f, i) = {}}
Weighs(s) == Len(s) > 1 \/ s[1].mode # "read"
Segments(f) ==
  {s \in {SubSeq(f, c[1] + 1, c[2]) : c \in {d \in Cuts(f) \X Cuts(f) :
             d[1] < d[2] /\ \A i \in Cuts(f) : i <= d[1] \/ i >= d[2]}} : Weighs(s)}

Steps == [t \in Tasks |-> UNION {Segments(f) : f \in Calls(t)}]
AllLocks == UNION {Locks(s) : s \in UNION {Steps[t] : t \in Tasks}}

-----------------------------------------------------------------------------
(* Fair locks.                                                              *)

Busy(t) == todo[t] # <<>>
Awaited(t) == todo[t][1]
Lock(t) == Awaited(t).lock
Mode(t) == Awaited(t).mode

Waits(t) == Busy(t) /\ \E i \in DOMAIN line[Lock(t)] : line[Lock(t)][i] = t
Clash(m, n) == m = "write" \/ n = "write"

Holds(u, t) == \E g \in held[u] : g.lock = Lock(t) /\ Clash(g.mode, Mode(t))
Before(u, t) ==
  \E i, j \in DOMAIN line[Lock(t)] : i < j /\ line[Lock(t)][i] = u /\ line[Lock(t)][j] = t
Full(t) == Lock(t) = "room" /\ sent = Room
Empty(t) == Lock(t) = "item" /\ sent = 0

LocksInit ==
  /\ todo = [t \in Tasks |-> <<>>]
  /\ held = [t \in Tasks |-> {}]
  /\ line = [l \in AllLocks |-> <<>>]
  /\ sent = 0

Asks(t, lock) == line' = [line EXCEPT ![lock] = Append(@, t)]

\* handlers are alike
Idle(t) == IF t \in Handlers THEN t = CHOOSE u \in Handlers : ~Busy(u) ELSE ~Busy(t)

Call(t) ==
  /\ ~Busy(t) /\ Idle(t)
  /\ \E s \in Steps[t] : todo' = [todo EXCEPT ![t] = s] /\ Asks(t, s[1].lock)
  /\ UNCHANGED <<held, sent>>

Ask(t) ==
  /\ Busy(t) /\ ~Waits(t)
  /\ Asks(t, Lock(t))
  /\ UNCHANGED <<todo, held, sent>>

\* past an await, with what is dropped then
Goes(t, guards) ==
  /\ todo' = [todo EXCEPT ![t] = Tail(@)]
  /\ held' = [held EXCEPT ![t] = {g \in guards : g.lock \notin Awaited(t).drop}]

Free(t) == ~Full(t) /\ ~Empty(t) /\ \A u \in Tasks : ~Holds(u, t)

Taken(t) ==
  /\ sent' = CASE Lock(t) = "room" -> sent + 1 [] Lock(t) = "item" -> sent - 1 [] OTHER -> sent
  /\ \/ Goes(t, held[t] \cup {[lock |-> Lock(t), mode |-> Mode(t)]})
     \/ /\ Awaited(t).out
        /\ todo' = [todo EXCEPT ![t] = <<>>] /\ held' = [held EXCEPT ![t] = {}]

Grant(t) ==
  /\ Busy(t) /\ Waits(t) /\ Head(line[Lock(t)]) = t /\ Free(t)
  /\ line' = [line EXCEPT ![Lock(t)] = Tail(@)]
  /\ Taken(t)

Skip(t) ==
  /\ Busy(t) /\ ~Waits(t) /\ Awaited(t).opt
  /\ Goes(t, held[t])
  /\ UNCHANGED <<line, sent>>

\* the timeout drops what waits and all that it kept
GiveUp(t) ==
  /\ Busy(t) /\ Waits(t) /\ Awaited(t).timed
  /\ line' = [line EXCEPT ![Lock(t)] = RemoveAt(@, CHOOSE i \in DOMAIN @ : @[i] = t)]
  /\ todo' = [todo EXCEPT ![t] = <<>>] /\ held' = [held EXCEPT ![t] = {}]
  /\ UNCHANGED sent

LocksNext ==
  \E t \in Tasks : Call(t) \/ Ask(t) \/ Grant(t) \/ Skip(t) \/ GiveUp(t)

LocksSpec == LocksInit /\ [][LocksNext]_lockVars

-----------------------------------------------------------------------------
(* Properties.                                                              *)

LocksTypeOK ==
  /\ sent \in 0..Room
  /\ \A l \in AllLocks : IsInjective(line[l]) /\ \A i \in DOMAIN line[l] : line[l][i] \in Tasks
  /\ \A t \in Tasks : ~Busy(t) => held[t] = {}

Hinders(u, t) == Holds(u, t) \/ Before(u, t) \/ (Full(t) /\ u = Announcer)

\* these all wait, and for ever
Hopeless(T) ==
  \A t \in T : ~Awaited(t).timed /\ \E u \in T : Hinders(u, t)

\* No call waits for ever for a lock of the node, in whatever order the guards are
\* asked for and dropped, but in two cases: the channel of the mempool is full, whose
\* sender keeps the mempool's lock, which a call that keeps the chain's may await, which
\* the task that would empty the channel awaits; or a task asks to write what it is
\* reading itself (validate_transaction, the import of a peer's delta).
LocksGranted ==
  \A T \in SUBSET {t \in Tasks : Waits(t)} :
    T # {} /\ Hopeless(T) =>
      \E t \in T : Full(t) \/ Holds(t, t)
==============================================================================
