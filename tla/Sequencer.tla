------------------------------ MODULE Sequencer ------------------------------
(***************************************************************************)
(* The block sequencer of the Slura sidechain: LurosonieManager's          *)
(* consensus task (start_lurosonie_consensus), the shared state it works   *)
(* on, the RPC handlers that fill the mempool and read the chain's head,   *)
(* the RocksDB keys that survive a crash, and the Bitcoin node it polls.   *)
(*                                                                         *)
(* One Slura block is made for each new Bitcoin height.  The task keeps    *)
(* last_processed_btc_height in a local variable and persists it after     *)
(* each block; everything else it keeps is in memory only.                 *)
(*                                                                         *)
(* Data is abstract: a transaction is a member of Txs, a digest names the  *)
(* fields it serialises and the block it serialises (blocks differ by      *)
(* their timestamp), a Bitcoin block is its height.                        *)
(***************************************************************************)
EXTENDS Integers, Sequences

CONSTANTS
  Txs,         \* user operations, each known by its hash
  Accounts,    \* senders of user operations
  Sender,      \* Sender[t] is the "sender" field of operation t
  Answers,     \* what the VM may answer to balanceOf of the system validator: a
               \* number, or Object, which is all that the interpreter answers
  Object,      \* a JSON object
  ChannelCap,  \* capacity of the block channel (100 in main)
  MaxHead,     \* bound: highest Bitcoin height
  MaxCrashes,  \* bound: number of crashes
  Readers,     \* RPC calls of get_latest_block_info in flight
  Faults       \* which faults the environment may inject

FaultKinds == {"rpc", "store", "read", "vm", "crash"}

ASSUME SenderAssumption == Sender \in [Txs -> Accounts]
ASSUME BoundsAssumption ==
  /\ Answers \subseteq Nat \cup {Object} /\ Answers # {}
  /\ ChannelCap \in Nat \ {0}
  /\ MaxHead \in Nat \ {0}
  /\ MaxCrashes \in Nat
ASSUME FaultsAssumption == Faults \subseteq FaultKinds

VARIABLES
  head,       \* height of the Bitcoin chain, as getblockcount reports it
  vez,        \* is the VEZ contract deployed (durable)
  dbHeight,   \* "lurosonie:last_btc_height" in RocksDB, 0 if absent
  dbBlocks,   \* "lurosonie_block:N" in RocksDB: blocks keyed by number
  pc,         \* where the consensus task is
  power,      \* total_power of relay_validators (the system validator's)
  cursor,     \* last_processed_btc_height + i
  target,     \* current_btc_height of this round
  draft,      \* block_data, the block under construction
  chain,      \* slurachain_data
  lastHash,   \* last_block_hash
  genesis,    \* hash of this process's genesis release
  pending,    \* pending_transactions: entries [key, tx], one per key
  queued,     \* blocks in the channel behind block_sender
  rd,         \* the state of each RPC reader
  clock,      \* number of TimestampReleases made so far: the next timestamp
  crashes,    \* number of crashes so far
  submitted,  \* history: operations accepted by this process
  produced,   \* history: Bitcoin heights that got a block, in any process
  refused,    \* history: Bitcoin heights whose production failed
  base        \* history: height the first initialisation persisted

envVars    == <<head, vez>>
dbVars     == <<dbHeight, dbBlocks>>
roundVars  == <<cursor, target>>
ledgerVars == <<chain, lastHash, genesis>>
mpVars     == <<pending, submitted>>
histVars   == <<produced, refused, base>>
vars == <<envVars, dbVars, pc, power, roundVars, draft, ledgerVars, mpVars,
          queued, rd, clock, crashes, histVars>>

-----------------------------------------------------------------------------
(* Digests, keys and powers.                                               *)

ReleaseFields == {"release"}
ShortFields   == {"block", "relay_power", "delegated_stake", "validator"}
FullFields    == ShortFields \cup {"contract_states_count",
                   "transactions_count", "bitcoin_anchor", "parent_slura_hash"}

\* SHA3 of the given fields of the block stamped s: equal only when both the
\* fields and the block are.
Digest(fields, s) == [fields |-> fields, stamp |-> s]

Hashes == [fields : {ReleaseFields, ShortFields, FullFields}, stamp : Nat]

Blocks == [number : Nat, btc : Nat, txs : SUBSET Txs, parent : Hashes,
           stamp : Nat]

\* the hash add_lurosonie_block_to_chain publishes
BlockHash(b) == Digest(FullFields, b.stamp)

\* the hash get_block_by_hash and get_all_block_hashes compute for a block
RecomputedHash(b) == Digest(ShortFields, b.stamp)

NoBlock == [number |-> 0, btc |-> 0, txs |-> {},
            parent |-> Digest(ReleaseFields, 0), stamp |-> 0]

HashKey(t) == <<"hash", t>>
\* from:to:value:nonce -- for a user operation the receiver is the entry
\* point, the value "0" and the nonce 0, whatever the operation
CompositeKey(t) == <<"from:to:value:nonce", Sender[t]>>

Keys    == {HashKey(t) : t \in Txs} \cup {CompositeKey(t) : t \in Txs}
Entries == [key : Keys, tx : Txs]

\* relay_power + stake_power: both sum total_power over the same validators
TotalPower == power + power

\* get_consensus_threshold
Threshold == IF power = 0 THEN 1 ELSE (power * 2) \div 3

\* get_block_height
Height(c) == IF c = <<>> THEN 0 ELSE c[Len(c)].number

NextNumber_ByBitcoin == cursor + 1
NextNumber == Height(chain) + 1

NextHeight_FromSaved == dbHeight + 1
NextHeight == cursor + 1

\* an operation that may fail: TRUE, and FALSE when the fault is injected
Outcomes(fault) == {TRUE} \cup (IF fault \in Faults THEN {FALSE} ELSE {})

Insert(map, key, t) == {e \in map : e.key # key} \cup {[key |-> key, tx |-> t]}

PutBlock_IfAbsent(db, b) ==
  IF \E e \in db : e.number = b.number THEN db ELSE db \cup {b}
PutBlock(db, b) == {e \in db : e.number # b.number} \cup {b}

-----------------------------------------------------------------------------
Init ==
  /\ head \in 1..MaxHead /\ vez \in BOOLEAN
  /\ dbHeight = 0 /\ dbBlocks = {}
  /\ pc = "boot" /\ power = 0 /\ cursor = 0 /\ target = 0
  /\ draft = NoBlock /\ chain = <<>>
  /\ genesis = Digest(ReleaseFields, 0) /\ lastHash = genesis
  /\ pending = {} /\ queued = 0
  /\ rd = [r \in Readers |-> [pc |-> "idle", height |-> 0, hash |-> genesis]]
  /\ clock = 1 /\ crashes = 0
  /\ submitted = {} /\ produced = {} /\ refused = {} /\ base = 0

-----------------------------------------------------------------------------
(* Start-up of the consensus task.                                         *)

\* The stake is read once, when the task starts; a VEZ contract deployed later
\* is not seen.  An execution error counts as a balance of 0, and so does an answer
\* that is no number.
AsU64(answer) == IF answer = Object THEN 0 ELSE answer
InitializeSystemValidator ==
  /\ pc = "boot" /\ pc' = "load"
  /\ \E ok \in Outcomes("vm"), answer \in Answers :
       power' = IF vez /\ ok THEN AsU64(answer) ELSE 0
  /\ UNCHANGED <<envVars, dbVars, roundVars, draft, ledgerVars, mpVars, queued,
                 rd, clock, crashes, histVars>>

Resume(saved) ==
  /\ cursor' = saved /\ target' = saved
  /\ pc' = IF saved = 0 THEN "calibrate" ELSE "poll"

\* load_last_processed_btc_height().unwrap_or(0)
LoadHeight_OneBack ==
  /\ pc = "load"
  /\ Resume(IF dbHeight = 0 THEN 0 ELSE dbHeight - 1)
  /\ UNCHANGED <<envVars, dbVars, power, draft, ledgerVars, mpVars, queued, rd,
                 clock, crashes, histVars>>
LoadHeight ==
  /\ pc = "load"
  /\ \E ok \in Outcomes("read") : Resume(IF ok THEN dbHeight ELSE 0)
  /\ UNCHANGED <<envVars, dbVars, power, draft, ledgerVars, mpVars, queued, rd,
                 clock, crashes, histVars>>

\* save_last_processed_btc_height: an error is only logged
Save(h) ==
  \E ok \in Outcomes("store") : dbHeight' = IF ok THEN h ELSE dbHeight

\* A start from zero takes the Bitcoin head as the starting point, unless
\* getblockcount fails: then the loop starts from 0.
Calibrate ==
  /\ pc = "calibrate" /\ pc' = "poll"
  /\ \/ /\ cursor' = head /\ target' = head
        /\ Save(head)
        /\ base' = IF base = 0 THEN dbHeight' ELSE base
     \/ /\ "rpc" \in Faults
        /\ UNCHANGED <<cursor, target, dbHeight, base>>
  /\ UNCHANGED <<envVars, dbBlocks, power, draft, ledgerVars, mpVars, queued,
                 rd, clock, crashes, produced, refused>>

-----------------------------------------------------------------------------
(* The polling loop.                                                       *)

PollNewHead ==
  /\ pc = "poll" /\ head > cursor
  /\ target' = head /\ pc' = "next"
  /\ UNCHANGED <<envVars, dbVars, power, cursor, draft, ledgerVars, mpVars,
                 queued, rd, clock, crashes, histVars>>

\* no new Bitcoin block, or getblockcount failed: sleep and retry
PollNothing ==
  /\ pc = "poll"
  /\ head <= cursor \/ "rpc" \in Faults
  /\ UNCHANGED vars

\* for i in 1..=new_blocks is exhausted: last_processed := current, whatever
\* happened to the heights in between
EndRound ==
  /\ pc = "next" /\ cursor >= target
  /\ cursor' = target /\ pc' = "poll"
  /\ UNCHANGED <<envVars, dbVars, power, target, draft, ledgerVars, mpVars,
                 queued, rd, clock, crashes, histVars>>

\* produce_lurosonie_block_with_consensus: not enough power; continue
RefuseBlock ==
  /\ pc = "next" /\ cursor < target
  /\ TotalPower < Threshold
  /\ cursor' = NextHeight
  /\ refused' = refused \cup {NextHeight}
  /\ UNCHANGED <<envVars, dbVars, pc, power, target, draft, ledgerVars, mpVars,
                 queued, rd, clock, crashes, produced, base>>

\* produce_lurosonie_block_with_consensus: the block is assembled from the
\* height, the mempool and the last hash of this moment
AssembleBlock ==
  /\ pc = "next" /\ cursor < target
  /\ TotalPower >= Threshold
  /\ cursor' = NextHeight
  /\ draft' = [number |-> NextNumber, btc |-> NextHeight,
               txs |-> {e.tx : e \in pending}, parent |-> lastHash,
               stamp |-> clock]
  /\ clock' = clock + 1
  /\ pc' = "publish"
  /\ UNCHANGED <<envVars, dbVars, power, target, ledgerVars, mpVars, queued,
                 rd, crashes, histVars>>

(* add_lurosonie_block_to_chain, one step per lock taken or await.         *)

PublishHash_Short ==
  /\ pc = "publish" /\ pc' = "push"
  /\ lastHash' = RecomputedHash(draft)
  /\ UNCHANGED <<envVars, dbVars, power, roundVars, draft, chain, genesis,
                 mpVars, queued, rd, clock, crashes, histVars>>
PublishHash_Lost ==
  /\ pc = "publish" /\ pc' = "push"
  /\ UNCHANGED <<envVars, dbVars, power, roundVars, draft, ledgerVars, mpVars,
                 queued, rd, clock, crashes, histVars>>
PublishHash ==
  /\ pc = "publish" /\ pc' = "push"
  /\ lastHash' = BlockHash(draft)
  /\ UNCHANGED <<envVars, dbVars, power, roundVars, draft, chain, genesis,
                 mpVars, queued, rd, clock, crashes, histVars>>

PushBlock ==
  /\ pc = "push" /\ pc' = "store"
  /\ chain' = Append(chain, draft)
  /\ produced' = produced \cup {draft.btc}
  /\ UNCHANGED <<envVars, dbVars, power, roundVars, draft, lastHash, genesis,
                 mpVars, queued, rd, clock, crashes, refused, base>>

\* store_metadata("lurosonie_block:N"): an error is only logged
StoreBlock ==
  /\ pc = "store" /\ pc' = "send"
  /\ \E ok \in Outcomes("store") :
       dbBlocks' = IF ok THEN PutBlock(dbBlocks, draft) ELSE dbBlocks
  /\ UNCHANGED <<envVars, dbHeight, power, roundVars, draft, ledgerVars,
                 mpVars, queued, rd, clock, crashes, histVars>>

\* block_sender.send(..).await: waits while the channel is full.  The receiver
\* is kept in slurachainRpcService and nothing ever receives from it.
SendBlock ==
  /\ pc = "send" /\ queued < ChannelCap
  /\ queued' = queued + 1 /\ pc' = "remove"
  /\ UNCHANGED <<envVars, dbVars, power, roundVars, draft, ledgerVars, mpVars,
                 rd, clock, crashes, histVars>>

\* remove_processed_transactions(composite keys of the block's transactions)
RemoveProcessed_All ==
  /\ pc = "remove" /\ pc' = "bft"
  /\ pending' = {}
  /\ draft' = NoBlock
  /\ UNCHANGED <<envVars, dbVars, power, roundVars, ledgerVars, submitted,
                 queued, rd, clock, crashes, histVars>>
RemoveProcessed ==
  /\ pc = "remove" /\ pc' = "bft"
  /\ pending' = {e \in pending : e.key \notin {CompositeKey(t) : t \in draft.txs}}
  /\ draft' = NoBlock
  /\ UNCHANGED <<envVars, dbVars, power, roundVars, ledgerVars, submitted,
                 queued, rd, clock, crashes, histVars>>

\* lurosonie_bft_consensus: getValidatorRelayPower may fail; then continue
BftConsensus_Return ==
  /\ pc = "bft"
  /\ \E ok \in Outcomes("vm") : pc' = IF ok THEN "save" ELSE "returned"
  /\ UNCHANGED <<envVars, dbVars, power, roundVars, draft, ledgerVars, mpVars,
                 queued, rd, clock, crashes, histVars>>
BftConsensus ==
  /\ pc = "bft"
  /\ \E ok \in Outcomes("vm") : pc' = IF ok THEN "save" ELSE "next"
  /\ UNCHANGED <<envVars, dbVars, power, roundVars, draft, ledgerVars, mpVars,
                 queued, rd, clock, crashes, histVars>>

SaveHeight_Target ==
  /\ pc = "save" /\ pc' = "next"
  /\ Save(target)
  /\ UNCHANGED <<envVars, dbBlocks, power, roundVars, draft, ledgerVars, mpVars,
                 queued, rd, clock, crashes, histVars>>
SaveHeight ==
  /\ pc = "save" /\ pc' = "next"
  /\ Save(cursor)
  /\ UNCHANGED <<envVars, dbBlocks, power, roundVars, draft, ledgerVars, mpVars,
                 queued, rd, clock, crashes, histVars>>

-----------------------------------------------------------------------------
(* The other tasks of the process.                                         *)

\* eth_sendUserOperation -> add_transaction_to_mempool
AddTransaction(t) ==
  /\ pending' = Insert(pending, HashKey(t), t)
  /\ submitted' = submitted \cup {t}
  /\ UNCHANGED <<envVars, dbVars, pc, power, roundVars, draft, ledgerVars,
                 queued, rd, clock, crashes, histVars>>

\* get_latest_block_info: get_block_height().await, then
\* get_last_block_hash().await
ReadHeight(r) ==
  /\ rd[r].pc # "height"
  /\ rd' = [rd EXCEPT ![r].pc = "height", ![r].height = Height(chain)]
  /\ UNCHANGED <<envVars, dbVars, pc, power, roundVars, draft, ledgerVars,
                 mpVars, queued, clock, crashes, histVars>>

ReadHash(r) ==
  /\ rd[r].pc = "height"
  /\ rd' = [rd EXCEPT ![r].pc = "done", ![r].hash = lastHash]
  /\ UNCHANGED <<envVars, dbVars, pc, power, roundVars, draft, ledgerVars,
                 mpVars, queued, clock, crashes, histVars>>

(* The environment.                                                        *)

NewBitcoinBlock ==
  /\ head < MaxHead
  /\ head' = head + 1
  /\ UNCHANGED <<vez, dbVars, pc, power, roundVars, draft, ledgerVars, mpVars,
                 queued, rd, clock, crashes, histVars>>

\* the VEZ deployment task of main
DeployVez ==
  /\ ~vez /\ vez' = TRUE
  /\ UNCHANGED <<head, dbVars, pc, power, roundVars, draft, ledgerVars, mpVars,
                 queued, rd, clock, crashes, histVars>>

\* The process dies and is started again: new_with_storage empties every
\* collection and main makes a new genesis release.
Crash ==
  /\ "crash" \in Faults /\ crashes < MaxCrashes
  /\ crashes' = crashes + 1 /\ clock' = clock + 1
  /\ pc' = "boot" /\ power' = 0 /\ cursor' = 0 /\ target' = 0
  /\ draft' = NoBlock /\ chain' = <<>>
  /\ genesis' = Digest(ReleaseFields, clock) /\ lastHash' = genesis'
  /\ pending' = {} /\ submitted' = {} /\ queued' = 0
  /\ rd' = [r \in Readers |-> [pc |-> "idle", height |-> 0, hash |-> genesis']]
  /\ UNCHANGED <<envVars, dbVars, histVars>>

-----------------------------------------------------------------------------
Consensus ==
  \/ InitializeSystemValidator \/ LoadHeight \/ Calibrate
  \/ PollNewHead \/ EndRound \/ RefuseBlock \/ AssembleBlock
  \/ PublishHash \/ PushBlock \/ StoreBlock \/ SendBlock
  \/ RemoveProcessed \/ BftConsensus \/ SaveHeight

Rpc ==
  \/ \E t \in Txs : AddTransaction(t)
  \/ \E r \in Readers : ReadHeight(r) \/ ReadHash(r)

Environment == NewBitcoinBlock \/ DeployVez \/ Crash

Next == Consensus \/ PollNothing \/ Rpc \/ Environment

Spec == Init /\ [][Next]_vars

\* the runtime keeps polling the consensus task, and a poll of the Bitcoin node
\* eventually answers
FairSpec == Spec /\ WF_vars(Consensus)

-----------------------------------------------------------------------------
(* Properties.                                                             *)

Stages == {"boot", "load", "calibrate", "poll", "next", "publish", "push",
           "store", "send", "remove", "bft", "save"}

\* Every variable has the type its Rust declaration gives it.
TypeOK ==
  /\ head \in Nat /\ vez \in BOOLEAN
  /\ dbHeight \in Nat /\ dbBlocks \subseteq Blocks
  /\ pc \in Stages /\ power \in Nat /\ cursor \in Nat /\ target \in Nat
  /\ draft \in Blocks /\ chain \in Seq(Blocks)
  /\ lastHash \in Hashes /\ genesis \in Hashes
  /\ pending \subseteq Entries /\ queued \in 0..ChannelCap
  /\ rd \in [Readers -> [pc : {"idle", "height", "done"}, height : Nat,
                         hash : Hashes]]
  /\ clock \in Nat /\ crashes \in 0..MaxCrashes
  /\ submitted \subseteq Txs /\ produced \subseteq Nat /\ refused \subseteq Nat
  /\ base \in Nat

\* slurachain_data is numbered 1, 2, 3... and each block names the hash the
\* previous one was published under, the first one this process's genesis:
\* block number and parent are read several awaits before the block is pushed.
ChainLinked ==
  \A k \in 1..Len(chain) :
    /\ chain[k].number = k
    /\ chain[k].parent = IF k = 1 THEN genesis ELSE BlockHash(chain[k - 1])

\* A process sequences a Bitcoin height at most once and in order, whatever
\* blocks it was refused, failed to validate or failed to save in between.
HeightsIncrease ==
  \A j, k \in 1..Len(chain) : j < k => chain[j].btc < chain[k].btc

\* Every height up to the persisted one, above the starting point of the very
\* first initialisation, got a block or was refused one for lack of power: a
\* restart from the persisted height never jumps over a height.
SavedHeightCovered ==
  \A h \in 1..dbHeight : h <= base \/ h \in produced \/ h \in refused

\* Every block in memory is the block RocksDB holds under its number, but for
\* the one about to be stored: get_block_by_number and the database agree.
MemoryIsDurable ==
  /\ \A a, b \in dbBlocks : a.number = b.number => a = b
  /\ \A k \in 1..Len(chain) :
       chain[k] \in dbBlocks \/ (k = Len(chain) /\ pc = "store")

\* An operation the process accepted is pending or in a block, although it may
\* arrive between the snapshot of the mempool and the removal of the snapshot.
NoTxLost ==
  \A t \in submitted :
    \/ \E e \in pending : e.tx = t
    \/ \E k \in 1..Len(chain) : t \in chain[k].txs

\* get_latest_block_info reads the height and the hash under two locks: the
\* hash it answers is that of the block of that height or of a later one.
LatestInfoNotBehind ==
  \A r \in Readers :
    (rd[r].pc = "done" /\ rd[r].height > 0) =>
      \E b \in {chain[k] : k \in 1..Len(chain)} \cup {draft} :
        b.number >= rd[r].height /\ BlockHash(b) = rd[r].hash

\* No step sequences a Bitcoin height at or below the persisted one, in this
\* process or after a crash at any point.
NoRepeatBelowSaved ==
  [][Len(chain') > Len(chain) => chain'[Len(chain')].btc > dbHeight]_vars

\* The sequencer implements the abstract ledger: chain only grows at its end,
\* linked and in the order of the Bitcoin heights, above the persisted height.
Ledger == INSTANCE SidechainLedger
            WITH blocks <- chain, root <- genesis, watermark <- dbHeight,
                 HashOf <- BlockHash
ImplementsLedger == Ledger!Spec

\* A system validator whose VEZ is deployed when the task starts has the power its
\* stake gives it: no height is refused for lack of it.
StakeCounts == vez => [](refused = {})

\* Each Bitcoin height that the node reports is eventually behind the starting
\* point, sequenced, or refused for lack of power: a block that fails its BFT
\* check, a crash or a node that does not answer delay it and no more.  So it is while
\* the block channel has room, and always with the interpreter's answer, which lets no
\* block be produced.
EveryHeightHandled ==
  \A h \in 1..MaxHead :
    head >= h ~> (h <= base \/ h \in produced \/ h \in refused)

-----------------------------------------------------------------------------
(* What comments of the source say and the code does not do: each is       *)
(* refuted by a run of its own.                                            *)

\* "Vidage du mempool": the transactions of the block leave the mempool.  There is a
\* block only once the VM answers balanceOf with a number, which StakeCounts shows
\* the interpreter not to do.
ProcessedLeave ==
  [][pc = "remove" /\ pc' = "bft" =>
       \A e \in pending' : e.tx \notin draft.txs]_vars

=============================================================================
