------------------------------- MODULE RpcReads -------------------------------
(***************************************************************************)
(* The JSON-RPC handlers that look for blocks, operations and receipts.     *)
(* Each asks the consensus manager several times and holds no lock between  *)
(* two questions, while the consensus appends blocks.  A block has four     *)
(* hashes, of other fields each: the one published when it is appended,     *)
(* the one by which the manager finds it, and the ones that the answers by  *)
(* number and by hash show.                                                 *)
(*                                                                          *)
(* A hash is the name of what was hashed and the stamp of the block; the    *)
(* roots, the fees and the constant fields of an answer are left out.       *)
(***************************************************************************)
EXTENDS Integers, Sequences

CONSTANTS
  Ops,         \* user operations, each known by its hash
  Sent,        \* transactions that send_transaction executes, of other hashes
  Callers,     \* RPC calls that ask, in flight
  MaxBlocks,   \* bound: length of the chain
  MaxRestarts, \* bound: restarts
  NoReceipt,   \* value of an absent receipt
  NoDraft      \* no block is being made

VARIABLES
  chain,     \* slurachain_data
  lastHash,  \* last_block_hash
  draft,     \* the block the consensus makes
  pending,   \* hashes that are keys of pending_transactions
  receipts,  \* tx_receipts
  entering,  \* operations in the mempool whose receipt is to follow
  sending,   \* the receipt that send_transaction makes
  calls,     \* calls that ask
  clock,     \* the next stamp
  restarts   \* restarts so far

ledgerVars == <<chain, lastHash, draft>>
readsVars == <<ledgerVars, pending, receipts, entering, sending, calls, clock, restarts>>

Name(of, stamp) == [of |-> of, stamp |-> stamp]
Genesis == Name("genesis", 0)
Zero == Name("zero", 0)

\* get_block_by_hash of the manager: block, relay_power, delegated_stake, validator
SearchName_AsAnswered(b) == Name("answer", b.stamp)
SearchName(b) == Name("search", b.stamp)

Height == IF chain = <<>> THEN 0 ELSE chain[Len(chain)].number
At(n) == {chain[i] : i \in {j \in DOMAIN chain : chain[j].number = n}}
Blocks == {chain[i] : i \in DOMAIN chain}

\* an operation's receipt says "pending" and names no block
OpReceipt == [number |-> 0, hash |-> Zero]

Idle == [do |-> "idle", at |-> "idle", arg |-> Zero]
Doing(c, do, at) == calls[c].do = do /\ calls[c].at = at
Step(c, rec) == calls' = [calls EXCEPT ![c] = rec]
GoTo(c, at) == calls' = [calls EXCEPT ![c].at = at]
\* wallet_getCallsStatus keeps its read guard while it asks about the mempool
ReceiptsHeld == \E c \in Callers : Doing(c, "status", "mempool")
ReadsOnly == UNCHANGED <<ledgerVars, pending, receipts, entering, sending, clock, restarts>>

Init ==
  /\ chain = <<>> /\ lastHash = Name("release", 0) /\ draft = NoDraft
  /\ pending = {} /\ receipts = [h \in Ops \cup Sent |-> NoReceipt]
  /\ entering = {} /\ sending = [t \in Sent |-> NoReceipt] /\ calls = [c \in Callers |-> Idle]
  /\ clock = 1 /\ restarts = 0

-----------------------------------------------------------------------------
(* The consensus and restarts, as the sequencer's own module has them.      *)

StartBlock ==
  /\ draft = NoDraft /\ Height < MaxBlocks
  /\ draft' = [number |-> Height + 1, txs |-> pending, stamp |-> clock]
  /\ clock' = clock + 1
  /\ UNCHANGED <<chain, lastHash, pending, receipts, entering, sending, calls, restarts>>

PublishHash ==
  /\ draft # NoDraft /\ lastHash # Name("published", draft.stamp)
  /\ lastHash' = Name("published", draft.stamp)
  /\ UNCHANGED <<chain, draft, pending, receipts, entering, sending, calls, clock, restarts>>

\* remove_processed_transactions is given from:to:value:nonce and not the hash
Unprocessed_ByHash(b) == pending \ b.txs
Unprocessed(b) == pending

PushBlock ==
  /\ draft # NoDraft /\ lastHash = Name("published", draft.stamp)
  /\ chain' = Append(chain, draft) /\ draft' = NoDraft
  /\ pending' = Unprocessed(draft)
  /\ UNCHANGED <<lastHash, receipts, entering, sending, calls, clock, restarts>>

\* an operation's receipt is in RocksDB if a periodic save came by
RestartNode ==
  /\ restarts < MaxRestarts /\ restarts' = restarts + 1
  /\ chain' = <<>> /\ draft' = NoDraft /\ pending' = {}
  /\ entering' = {} /\ sending' = [t \in Sent |-> NoReceipt]
  /\ lastHash' = Name("release", clock) /\ clock' = clock + 1
  /\ calls' = [c \in Callers |-> Idle]
  /\ \E lost \in SUBSET Ops :
       receipts' = [h \in Ops \cup Sent |-> IF h \in lost THEN NoReceipt ELSE receipts[h]]

-----------------------------------------------------------------------------
(* eth_sendUserOperation and the end of send_transaction.                   *)

\* add_transaction_to_mempool; the receipt follows under another lock
SendOp(o) ==
  /\ pending' = pending \cup {o} /\ entering' = entering \cup {o}
  /\ UNCHANGED <<ledgerVars, receipts, sending, calls, clock, restarts>>

OpEntered(o) ==
  /\ o \in entering /\ ~ReceiptsHeld
  /\ receipts' = [receipts EXCEPT ![o] = OpReceipt]
  /\ entering' = entering \ {o}
  /\ UNCHANGED <<ledgerVars, pending, sending, calls, clock, restarts>>

\* get_latest_block_info: the height first, then the hash; a hash is sent once
SendTx(t) ==
  /\ receipts[t] = NoReceipt /\ sending[t] = NoReceipt
  /\ sending' = [sending EXCEPT ![t] = [number |-> Height, hash |-> Zero]]
  /\ UNCHANGED <<ledgerVars, pending, receipts, entering, calls, clock, restarts>>

TxHash(t) ==
  /\ sending[t] # NoReceipt /\ sending[t].hash = Zero
  /\ sending' = [sending EXCEPT ![t].hash = lastHash]
  /\ UNCHANGED <<ledgerVars, pending, receipts, entering, calls, clock, restarts>>

TxEntered(t) ==
  /\ sending[t] # NoReceipt /\ sending[t].hash # Zero /\ ~ReceiptsHeld
  /\ receipts' = [receipts EXCEPT ![t] = sending[t]]
  /\ sending' = [sending EXCEPT ![t] = NoReceipt]
  /\ UNCHANGED <<ledgerVars, pending, entering, calls, clock, restarts>>

-----------------------------------------------------------------------------
(* eth_getBlockByNumber.                                                    *)

Told(c, name, number, parent) ==
  Step(c, [do |-> calls[c].do, at |-> "told",
           name |-> name, number |-> number, parent |-> parent])

\* up to 1 the answer is a fixed block with the number 1, and "latest" is 1
AskNumber(c) ==
  /\ calls[c].at \in {"idle", "told"}
  /\ \E n \in 0..MaxBlocks :
       Step(c, IF n <= 1
               THEN [do |-> "number", at |-> "told",
                     name |-> Genesis, number |-> 1, parent |-> Zero]
               ELSE [do |-> "number", at |-> "find", arg |-> n])
  /\ ReadsOnly

\* a block that is not there is answered with an error
FindNumber(c) ==
  /\ Doing(c, "number", "find")
  /\ IF At(calls[c].arg) = {} THEN Step(c, Idle)
     ELSE Step(c, [do |-> "number", at |-> "parent", arg |-> calls[c].arg,
                   block |-> CHOOSE b \in At(calls[c].arg) : TRUE])
  /\ ReadsOnly

\* the parent is hashed as the block is: all its fields
Parent_Published(of, n) == IF At(n) = {} THEN Zero ELSE lastHash
Parent(of, n) ==
  IF At(n) = {} THEN Zero ELSE Name(of, (CHOOSE b \in At(n) : TRUE).stamp)

AnswerNumber(c) ==
  /\ Doing(c, "number", "parent")
  /\ LET b == calls[c].block IN
       Told(c, Name("all", b.stamp), b.number, Parent("all", b.number - 1))
  /\ ReadsOnly

-----------------------------------------------------------------------------
(* eth_getBlockByHash: a block, or the block of a transaction.              *)

\* what answers and receipts tell, and the hashes that clients make
Hashes ==
  Ops \cup Sent \cup {Zero, Genesis, lastHash}
    \cup {Name(of, b.stamp) : of \in {"all", "answer", "published"}, b \in Blocks}

\* an operation the manager has, or a transaction placed at a block it has
Findable(h) ==
  \/ h \in Ops /\ Height > 0 /\ (h \in pending \/ \E b \in Blocks : h \in b.txs)
  \/ h \in Sent /\ receipts[h] # NoReceipt /\ receipts[h].number \in 1..Height

AskHash(c) ==
  /\ calls[c].at \in {"idle", "told"}
  /\ \E h \in Hashes :
       Step(c, [do |-> "hash", at |-> "find", arg |-> h, known |-> Findable(h), height |-> 0])
  /\ ReadsOnly

Found(c, b) ==
  Step(c, [do |-> "hash", at |-> "parent", arg |-> calls[c].arg,
           known |-> calls[c].known, block |-> b])

FindHash(c) ==
  /\ Doing(c, "hash", "find")
  /\ LET hits == {b \in Blocks : SearchName(b) = calls[c].arg} IN
     IF hits = {} THEN calls' = [calls EXCEPT ![c].at = "scan", ![c].height = Height]
     ELSE Found(c, CHOOSE b \in hits : TRUE)
  /\ ReadsOnly

\* blocks up to the height just read, one question each: none of them changes
ScanBlocks(c) ==
  /\ Doing(c, "hash", "scan")
  /\ LET hits == {b \in Blocks : b.number <= calls[c].height /\ calls[c].arg \in b.txs} IN
     IF hits = {} THEN GoTo(c, "receipts")
     ELSE Found(c, CHOOSE b \in hits : \A d \in hits : b.number <= d.number)
  /\ ReadsOnly

\* only a receipt of a transaction names a block
ReceiptBlock(h) ==
  IF h \in Sent /\ receipts[h] # NoReceipt THEN At(receipts[h].number) ELSE {}

LookInReceipts(c) ==
  /\ Doing(c, "hash", "receipts")
  /\ LET hits == ReceiptBlock(calls[c].arg) IN
     IF hits = {} THEN GoTo(c, "mempool") ELSE Found(c, CHOOSE b \in hits : TRUE)
  /\ ReadsOnly

\* for a pending one, the last block
LookInMempool(c) ==
  /\ Doing(c, "hash", "mempool")
  /\ IF calls[c].arg \in pending
     THEN calls' = [calls EXCEPT ![c].at = "last", ![c].height = Height]
     ELSE GoTo(c, "latest")
  /\ ReadsOnly

LastBlock(c) ==
  /\ Doing(c, "hash", "last")
  /\ IF At(calls[c].height) = {} THEN GoTo(c, "latest")
     ELSE Found(c, CHOOSE b \in At(calls[c].height) : TRUE)
  /\ ReadsOnly

AnswerHash(c) ==
  /\ Doing(c, "hash", "parent")
  /\ LET b == calls[c].block IN
       Told(c, Name("answer", b.stamp), b.number, Parent("answer", b.number - 1))
  /\ ReadsOnly

\* otherwise a block is made up from get_latest_block_info, with the hash asked
\* for as its one transaction
LatestHeight(c) ==
  /\ Doing(c, "hash", "latest")
  /\ calls' = [calls EXCEPT ![c].at = "made", ![c].height = Height]
  /\ ReadsOnly

MakeUp(c) ==
  /\ Doing(c, "hash", "made")
  /\ Step(c, [do |-> "made", at |-> "told", known |-> calls[c].known])
  /\ ReadsOnly

-----------------------------------------------------------------------------
(* wallet_getCallsStatus: the receipts, then the mempool.                   *)

AskStatus(c) ==
  /\ calls[c].at \in {"idle", "told"}
  /\ \E h \in Ops \cup Sent :
       Step(c, [do |-> "status", at |-> "receipts", arg |-> h,
                known |-> IF receipts[h] # NoReceipt THEN 200
                          ELSE IF h \in pending THEN 100 ELSE 400])
  /\ ReadsOnly

Status(c, code) ==
  Step(c, [do |-> "status", at |-> "told",
           known |-> calls[c].known, code |-> code])

StatusOfReceipt(c) ==
  /\ Doing(c, "status", "receipts")
  /\ IF receipts[calls[c].arg] # NoReceipt THEN Status(c, 200) ELSE GoTo(c, "mempool")
  /\ ReadsOnly

StatusOfMempool(c) ==
  /\ Doing(c, "status", "mempool")
  /\ Status(c, IF calls[c].arg \in pending THEN 100 ELSE 400)
  /\ ReadsOnly

-----------------------------------------------------------------------------
Consensus == StartBlock \/ PublishHash \/ PushBlock
Handler(c) ==
  \/ FindNumber(c) \/ AnswerNumber(c)
  \/ FindHash(c) \/ ScanBlocks(c) \/ LookInReceipts(c) \/ LookInMempool(c)
  \/ LastBlock(c) \/ AnswerHash(c) \/ LatestHeight(c) \/ MakeUp(c)
  \/ StatusOfReceipt(c) \/ StatusOfMempool(c)
Ask(c) == AskNumber(c) \/ AskHash(c) \/ AskStatus(c)

Next ==
  \/ Consensus \/ RestartNode
  \/ \E o \in Ops : SendOp(o) \/ OpEntered(o)
  \/ \E t \in Sent : SendTx(t) \/ TxHash(t) \/ TxEntered(t)
  \/ \E c \in Callers : Ask(c) \/ Handler(c)

Spec == Init /\ [][Next]_readsVars

-----------------------------------------------------------------------------
(* Properties.                                                              *)

Names == [of : {"genesis", "zero", "release", "published", "all", "answer", "search"},
          stamp : Nat]

TypeOK ==
  /\ \A b \in Blocks : b.number \in 1..MaxBlocks /\ b.txs \subseteq Ops /\ b.stamp < clock
  /\ draft = NoDraft \/ draft.stamp < clock
  /\ lastHash \in Names /\ pending \subseteq Ops
  /\ \A h \in Ops \cup Sent : receipts[h] = NoReceipt \/ receipts[h].hash \in Names
  /\ \A c \in Callers : calls[c].at \in {"idle", "told", "find", "parent", "scan",
                          "receipts", "mempool", "last", "latest", "made"}
  /\ entering \subseteq Ops /\ \A t \in Sent : sending[t] = NoReceipt \/ receipts[t] = NoReceipt
  /\ clock \in Nat /\ restarts \in 0..MaxRestarts

\* The answers by number are linked, and so are those by hash: the hash and the
\* parent told of a block are those that any later question tells, whatever is
\* appended meanwhile.  Block 2 names as its parent a block 1 that the answer by
\* number, which is fixed, does not show.
AnswersLinked ==
  \A c \in Callers : LET a == calls[c] IN
    a.do \in {"number", "hash"} /\ a.at = "told" /\ a.name # Genesis =>
      LET of == a.name.of IN
      /\ At(a.number) # {} /\ \A b \in At(a.number) : a.name = Name(of, b.stamp)
      /\ a.parent = IF a.number = 1 THEN Zero
                     ELSE Name(of, (CHOOSE b \in At(a.number - 1) : TRUE).stamp)

\* No hash that the node tells of finds a block: get_block_by_hash of the platform
\* answers one of the chain only to the hash of a transaction.
FoundByTransaction ==
  \A c \in Callers : Doing(c, "hash", "parent") => calls[c].arg \in Ops \cup Sent

\* Once there is a block, the search for an operation in the mempool or in a block,
\* and that for a transaction placed at a block, ends with a block of the chain,
\* whatever is appended between its steps.
KnownFound == \A c \in Callers : calls[c].do = "made" => ~calls[c].known

\* A status never falls behind what held when it was asked for: an operation that
\* was entered is never unknown.
StatusNotBehind ==
  \A c \in Callers :
    Doing(c, "status", "told") =>
      /\ calls[c].known = 200 => calls[c].code = 200
      /\ calls[c].known = 100 => calls[c].code # 400
=============================================================================
