------------------------------ MODULE TxPipeline ------------------------------
(***************************************************************************)
(* EnginePlatform: transactions and contract deployments over the VM's     *)
(* accounts, the receipts and RocksDB.                                     *)
(*                                                                         *)
(*   clients   handlers of eth_sendTransaction, eth_sendRawTransaction     *)
(*   Deployer  the task that deploys VEZ at its fixed address              *)
(*   Saver     persist_all_state every minute                              *)
(*                                                                         *)
(* They share vm (an RwLock held over every await of a deployment) and     *)
(* tx_receipts (an RwLock held until the receipt is in RocksDB).  RocksDB  *)
(* has three kinds of entries: receipt:{hash}, account:{a}:contract_state  *)
(* which a deployment writes, and the record account:{a} which only a save *)
(* writes and only which a restart looks for.                              *)
(*                                                                         *)
(* A contract's code is none, its creation code, its runtime code, or      *)
(* empty after a restart that found a record and no code.  Fees are paid   *)
(* or not; programs end; writes to RocksDB succeed.  Left out: the         *)
(* account's own nonce and the module:{a} entries, which nobody reads, and *)
(* deployments through eth_sendTransaction at a random address, which also *)
(* leave an account behind at a second random address.                     *)
(***************************************************************************)
EXTENDS Integers, FiniteSets

CONSTANTS
  Clients,       \* RPC handlers
  Deployer,      \* the task that deploys VEZ
  Saver,         \* the task that saves periodically
  NoOne,         \* holder of a free lock
  Users,         \* senders of the clients' transactions
  Validator,     \* sender of the VEZ deployment
  Contracts,     \* contract addresses
  Vez,           \* the address of VEZ
  Provided,      \* nonces a client may provide; 0 is the same as none
  MaxTx,         \* bound: no client begins once so many receipts exist
  MaxCrashes     \* bound: crashes and shutdowns

Procs == Clients \cup {Deployer, Saver}

ASSUME ProcsAssumption ==
  /\ NoOne \notin Procs /\ Saver \notin Clients \cup {Deployer} /\ Deployer \notin Clients
ASSUME DataAssumption ==
  /\ Vez \in Contracts /\ Users # {} /\ Provided \subseteq Nat /\ 0 \in Provided
  /\ MaxTx \in Nat /\ MaxCrashes \in Nat

VARIABLES
  code,        \* vm.state.accounts: the code of each contract
  vm,          \* holder of vm.write across an await
  receipts,    \* tx_receipts
  writing,     \* holder of tx_receipts.write across an await
  dcode,       \* RocksDB: account:{a}:contract_state
  record,      \* RocksDB: contracts with an account:{a} entry
  stored,      \* RocksDB: the receipts
  procs,       \* local state of each task
  hashes,      \* receipts made so far
  crashes,     \* restarts so far
  answered,    \* history: receipts of the transactions whose hash was returned
  early,       \* history: contracts recorded before their constructor had run
  again        \* history: contracts deployed over their runtime code

memory == <<code, receipts>>
disk == <<dcode, record, stored>>
locks == <<vm, writing>>
bounds == <<hashes, crashes>>
history == <<answered, early, again>>
vars == <<memory, disk, locks, procs, bounds, history>>

\* ahead: the client provided a nonce larger than the sender's count
NoTx == [kind |-> "none", from |-> Validator, addr |-> Vez, nonce |-> 0, ahead |-> FALSE]
Idle == [pc |-> "idle", tx |-> NoTx, mine |-> {}, todo |-> {}]

\* a sender's receipts
Of(set, u) == {r \in set : r.from = u}

\* VEZ's deployment: CREATE2 at a fixed address, by the validator
VezTx == [NoTx EXCEPT !.kind = "fixed"]
DeployVez == [Idle EXCEPT !.pc = "check", !.tx = VezTx]
Started == [p \in Procs |-> IF p = Deployer THEN DeployVez ELSE Idle]

Init ==
  /\ code = [a \in Contracts |-> "none"] /\ dcode = code /\ record = {}
  /\ receipts = {} /\ stored = {}
  /\ vm = NoOne /\ writing = NoOne
  /\ procs = Started
  /\ hashes = 0 /\ crashes = 0
  /\ answered = {} /\ early = {} /\ again = {}

At(p, pc) == procs[p].pc = pc
Goto(p, pc) == procs' = [procs EXCEPT ![p].pc = pc]

\* an address nobody has used, as a random one is
Fresh == {a \in Contracts \ {Vez} : code[a] = "none" /\ dcode[a] = "none" /\ a \notin record}

\* bound: an address is left for every client
EnoughFresh == Cardinality(Fresh) >= Cardinality(Clients)

\* The handler answers with an error; the VEZ task waits and starts over.
Failed(p) == procs' = [procs EXCEPT ![p] = IF p = Deployer THEN DeployVez ELSE Idle]

-----------------------------------------------------------------------------
(* Before send_transaction.                                                *)

Begin(c) ==
  /\ At(c, "idle") /\ hashes < MaxTx
  /\ \E kind \in {"call", "raw", "fixed"}, u \in Users, a \in Contracts, n \in Provided :
       /\ kind = "raw" => EnoughFresh
       /\ IF kind = "fixed" THEN n = 0 ELSE a = Vez
       /\ procs' = [procs EXCEPT ![c] =
            [Idle EXCEPT !.pc = IF kind = "fixed" THEN "check" ELSE "count",
               !.tx = [kind |-> kind, from |-> u, addr |-> a, nonce |-> n, ahead |-> FALSE]]]
  /\ UNCHANGED <<memory, disk, locks, bounds, history>>

\* perform_contract_deployment and the VEZ task deploy nothing where RocksDB has a
\* record
Exists_Memory(a) == code[a] # "none"
Exists(a) == a \in record

AlreadyDeployed(p) ==
  /\ At(p, "check") /\ Exists(procs[p].tx.addr) /\ (p = Deployer \/ vm = NoOne)
  /\ procs' = [procs EXCEPT ![p] = [Idle EXCEPT !.pc = IF p = Deployer THEN "done" ELSE "idle"]]
  /\ UNCHANGED <<memory, disk, locks, bounds, history>>

NotDeployed(p) ==
  /\ At(p, "check") /\ ~Exists(procs[p].tx.addr) /\ (p = Deployer \/ vm = NoOne)
  /\ Goto(p, "insert")
  /\ UNCHANGED <<memory, disk, locks, bounds, history>>

\* the account, with the creation code, comes before the transaction
PreInsert(p) ==
  LET a == procs[p].tx.addr IN
  /\ At(p, "insert") /\ vm = NoOne
  /\ code' = [code EXCEPT ![a] = IF @ = "none" THEN "creation" ELSE @]
  /\ Goto(p, "count")
  /\ UNCHANGED <<receipts, disk, locks, bounds, history>>

-----------------------------------------------------------------------------
(* send_transaction.                                                       *)

\* get_transaction_count counts the sender's receipts; a larger nonce that the
\* client provides wins
Numbered(tx, n) == [tx EXCEPT !.nonce = IF @ > n THEN @ ELSE n, !.ahead = tx.nonce > n]

ReadCount_NextOne(p) ==
  /\ At(p, "count") /\ writing = NoOne
  /\ procs' = [procs EXCEPT ![p].pc = "fees",
                 ![p].tx = Numbered(@, Cardinality(Of(receipts, @.from)) + 1)]
  /\ UNCHANGED <<memory, disk, locks, bounds, history>>
ReadCount(p) ==
  /\ At(p, "count") /\ writing = NoOne
  /\ procs' = [procs EXCEPT ![p].pc = "fees",
                 ![p].tx = Numbered(@, Cardinality(Of(receipts, @.from)))]
  /\ UNCHANGED <<memory, disk, locks, bounds, history>>

\* disburse runs under vm.write
PayFees(p) ==
  /\ At(p, "fees") /\ vm = NoOne
  /\ Goto(p, IF procs[p].tx.kind = "call" THEN "nonce" ELSE "install")
  /\ UNCHANGED <<memory, disk, locks, bounds, history>>

CannotPay(p) ==
  /\ At(p, "fees") /\ vm = NoOne
  /\ Failed(p)
  /\ UNCHANGED <<memory, disk, locks, bounds, history>>

\* The creation code goes into the account and RocksDB; vm stays locked while the
\* constructor runs.
Install(p) ==
  /\ At(p, "install") /\ vm = NoOne
  /\ \E a \in Contracts :
       /\ IF procs[p].tx.kind = "fixed" THEN a = procs[p].tx.addr ELSE a \in Fresh
       /\ code' = [code EXCEPT ![a] = "creation"]
       /\ dcode' = [dcode EXCEPT ![a] = "creation"]
       /\ again' = again \cup {d \in {a} : dcode[d] = "runtime"}
       /\ procs' = [procs EXCEPT ![p].pc = "construct", ![p].tx.addr = a]
  /\ vm' = p
  /\ UNCHANGED <<receipts, record, stored, writing, bounds, answered, early>>

ConstructorReturns(p) ==
  LET a == procs[p].tx.addr IN
  /\ At(p, "construct")
  /\ code' = [code EXCEPT ![a] = "runtime"]
  /\ dcode' = [dcode EXCEPT ![a] = "runtime"]
  /\ vm' = NoOne
  /\ Goto(p, "nonce")
  /\ UNCHANGED <<receipts, record, stored, writing, bounds, history>>

ConstructorFails(p) ==
  /\ At(p, "construct")
  /\ vm' = NoOne
  /\ Failed(p)
  /\ UNCHANGED <<memory, disk, writing, bounds, history>>

\* the sender's own nonce advances under vm.write
AdvanceNonce_Keeps(p) ==
  /\ At(p, "nonce") /\ vm = NoOne
  /\ vm' = p
  /\ Goto(p, "receipt")
  /\ UNCHANGED <<memory, disk, writing, bounds, history>>
AdvanceNonce(p) ==
  /\ At(p, "nonce") /\ vm = NoOne
  /\ Goto(p, "receipt")
  /\ UNCHANGED <<memory, disk, locks, bounds, history>>

Receipt(p) ==
  LET tx == procs[p].tx IN
  [id |-> hashes, from |-> tx.from, nonce |-> tx.nonce, ahead |-> tx.ahead]

\* the receipt enters the map, which stays locked
InsertReceipt(p) ==
  /\ At(p, "receipt") /\ writing = NoOne
  /\ receipts' = receipts \cup {Receipt(p)}
  /\ hashes' = hashes + 1
  /\ writing' = p
  /\ procs' = [procs EXCEPT ![p].pc = "persist", ![p].mine = {Receipt(p)}]
  /\ UNCHANGED <<code, disk, vm, crashes, history>>

\* The receipt enters RocksDB under vm.read, and the map is unlocked.  The hash is
\* returned, after a save when the transaction is a deployment of the platform.
PersistReceipt_Unsaved(p) ==
  /\ At(p, "persist") /\ vm = NoOne
  /\ writing' = NoOne
  /\ IF procs[p].tx.kind \in {"call", "raw"}
     THEN /\ answered' = answered \cup procs[p].mine
          /\ procs' = [procs EXCEPT ![p] = Idle]
     ELSE Goto(p, "save") /\ UNCHANGED answered
  /\ UNCHANGED <<memory, disk, vm, bounds, early, again>>
PersistReceipt(p) ==
  /\ At(p, "persist") /\ vm = NoOne
  /\ stored' = stored \cup procs[p].mine
  /\ writing' = NoOne
  /\ IF procs[p].tx.kind \in {"call", "raw"}
     THEN /\ answered' = answered \cup procs[p].mine
          /\ procs' = [procs EXCEPT ![p] = Idle]
     ELSE Goto(p, "save") /\ UNCHANGED answered
  /\ UNCHANGED <<memory, dcode, record, vm, bounds, early, again>>

-----------------------------------------------------------------------------
(* persist_all_state.                                                      *)

StartSave ==
  /\ At(Saver, "idle")
  /\ Goto(Saver, "save")
  /\ UNCHANGED <<memory, disk, locks, bounds, history>>

\* A copy of the accounts.  Writing an account that has a record, or the receipts,
\* which RocksDB holds already, changes nothing.
Unrecorded == {a \in Contracts : code[a] # "none" /\ a \notin record}

Snapshot(p) ==
  /\ At(p, "save") /\ vm = NoOne
  /\ procs' = [procs EXCEPT ![p].pc = "write",
                 ![p].todo = {[addr |-> a, deployed |-> code[a] = "runtime"] : a \in Unrecorded}]
  /\ UNCHANGED <<memory, disk, locks, bounds, history>>

\* a save that is over, or that gives up because a lock is taken
Saved(p) ==
  /\ answered' = answered \cup procs[p].mine
  /\ procs' = [procs EXCEPT ![p] = [Idle EXCEPT !.pc = IF p = Deployer THEN "done" ELSE "idle"]]

SkipSave(p) ==
  /\ At(p, "save")
  /\ Saved(p)
  /\ UNCHANGED <<memory, disk, locks, bounds, early, again>>

SaveAccount(p) ==
  /\ At(p, "write")
  /\ \E s \in procs[p].todo :
       /\ record' = record \cup {s.addr}
       /\ early' = early \cup {a \in {s.addr} : ~s.deployed /\ a \notin record}
       /\ procs' = [procs EXCEPT ![p].todo = @ \ {s}]
  /\ UNCHANGED <<memory, dcode, stored, locks, bounds, answered, again>>

EndSave(p) ==
  /\ At(p, "write") /\ procs[p].todo = {}
  /\ Saved(p)
  /\ UNCHANGED <<memory, disk, locks, bounds, early, again>>

-----------------------------------------------------------------------------
(* Restarts.                                                               *)

\* load_persisted_contracts and load_persisted_receipts: an account for each record
Loaded(a, recorded) ==
  IF a \notin recorded THEN "none" ELSE IF dcode[a] = "none" THEN "empty" ELSE dcode[a]

Restart(recorded) ==
  /\ crashes < MaxCrashes /\ crashes' = crashes + 1
  /\ code' = [a \in Contracts |-> Loaded(a, recorded)]
  /\ receipts' = stored
  /\ vm' = NoOne /\ writing' = NoOne
  /\ procs' = Started
  /\ UNCHANGED <<dcode, stored, hashes, answered, again>>

Crash == Restart(record) /\ UNCHANGED <<record, early>>

\* save_system_state writes the record of every contract under vm.read
Shutdown ==
  /\ vm = NoOne
  /\ record' = record \cup {a \in Contracts : code[a] # "none"}
  /\ early' = early \cup {a \in Unrecorded : code[a] # "runtime"}
  /\ Restart(record')

-----------------------------------------------------------------------------
Run(p) ==
  \/ AlreadyDeployed(p) \/ NotDeployed(p) \/ PreInsert(p)
  \/ ReadCount(p) \/ PayFees(p) \/ CannotPay(p)
  \/ Install(p) \/ ConstructorReturns(p) \/ ConstructorFails(p)
  \/ AdvanceNonce(p) \/ InsertReceipt(p) \/ PersistReceipt(p)
  \/ Snapshot(p) \/ SkipSave(p) \/ SaveAccount(p) \/ EndSave(p)

Next ==
  \/ \E c \in Clients : Begin(c)
  \/ \E p \in Procs : Run(p)
  \/ StartSave \/ Crash \/ Shutdown

Spec == Init /\ [][Next]_vars

-----------------------------------------------------------------------------
(* Properties.                                                             *)

Codes == {"none", "creation", "runtime", "empty"}
Receipts == [id : Nat, from : Users \cup {Validator}, nonce : Nat, ahead : BOOLEAN]
Txs == [kind : {"none", "call", "raw", "fixed"}, from : Users \cup {Validator},
        addr : Contracts, nonce : Nat, ahead : BOOLEAN]
Steps == {"idle", "check", "insert", "count", "fees", "install", "construct", "nonce",
          "receipt", "persist", "save", "write", "done"}
Locals == [pc : Steps, tx : Txs, mine : SUBSET Receipts,
           todo : SUBSET [addr : Contracts, deployed : BOOLEAN]]

\* Every variable has its type, and each lock is held by who is at the step that
\* holds it and by nobody else.
TypeOK ==
  /\ code \in [Contracts -> Codes] /\ dcode \in [Contracts -> Codes \ {"empty"}]
  /\ record \subseteq Contracts /\ receipts \subseteq Receipts /\ stored \subseteq Receipts
  /\ procs \in [Procs -> Locals] /\ vm \in Procs \cup {NoOne} /\ writing \in Procs \cup {NoOne}
  /\ hashes \in Nat /\ crashes \in 0..MaxCrashes
  /\ answered \subseteq Receipts /\ early \subseteq Contracts /\ again \subseteq Contracts
  /\ \A p \in Procs : (vm = p <=> At(p, "construct")) /\ (writing = p <=> At(p, "persist"))

\* The receipt of a transaction whose hash was returned is in memory and in RocksDB,
\* and no crash, however placed, loses it (send_transaction returns after the write).
AnsweredIsKept == answered \subseteq receipts \cap stored

\* Whoever can read a sender's count, before or after a restart, gets a nonce larger
\* than that of each of the sender's answered transactions, unless the client had
\* provided one ahead of the count (get_transaction_count counts receipts).
NextNonceIsNew ==
  writing = NoOne =>
    \A u \in Users \cup {Validator} : \A r \in Of(answered, u) :
      ~r.ahead => r.nonce < Cardinality(Of(receipts, u))

\* The VEZ task ends ("VEZ existe") only when VEZ is deployed.  The ways out
\* are a save that recorded the account before its constructor had run, so that
\* nobody deploys it any more, and a second deployment over the first, begun before
\* the record was there.
VezDeployed ==
  At(Deployer, "done") =>
    \/ code[Vez] = "runtime" /\ dcode[Vez] = "runtime"
    \/ Vez \in early \cup again

\* load_persisted_contracts: "Restaure TOUS les contrats qui ont un bytecode dans
\* account:<addr>:contract_state".
ContractsRestored == \A a \in Contracts : dcode[a] # "none" => code[a] # "none"

\* Nobody waits for ever for a lock: who holds the VM's across an await waits for
\* nothing, and who holds the receipts' waits at most for the VM's.
LocksReleasable ==
  /\ vm # NoOne => ENABLED Run(vm)
  /\ writing # NoOne => vm # NoOne \/ ENABLED Run(writing)

=============================================================================
