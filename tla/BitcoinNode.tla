----------------------------- MODULE BitcoinNode -----------------------------
(***************************************************************************)
(* The Bitcoin node behind the bridge's RPC URL: a best chain that grows   *)
(* and is reorganised, and backends that may answer a little late.         *)
(*                                                                         *)
(* A Bitcoin block is known by the branch taken at each height up to its   *)
(* own: its hash is that sequence, its parent the sequence without its     *)
(* last element, and the tip of the best chain is the best chain.          *)
(***************************************************************************)
EXTENDS Integers, Sequences, SequencesExt

CONSTANTS
  Branches,      \* the competing blocks of one height
  Txs,           \* Bitcoin transactions
  TxsIn,         \* TxsIn[hash]: transactions of that block
  MaxHeight,     \* bound: height of the Bitcoin chain
  MaxReorg,      \* bound: depth of a reorganisation, 0 for none
  MaxLag,        \* how far behind a backend of the node may answer
  RpcFails       \* may RPC calls fail

ASSUME HeightAssumption ==
  MaxHeight \in Nat \ {0} /\ MaxReorg \in Nat /\ MaxLag \in Nat
\* hashes of the blocks a run may see
Hashes == UNION {[1..h -> Branches] : h \in 1..MaxHeight}

\* no transaction is mined twice on one chain
ASSUME TxsInAssumption ==
  /\ TxsIn \in [Hashes -> SUBSET Txs]
  /\ \A hash \in Hashes : \A g, h \in 1..Len(hash) :
       g # h => TxsIn[SubSeq(hash, 1, g)] \cap TxsIn[SubSeq(hash, 1, h)] = {}
ASSUME RpcAssumption == RpcFails \in BOOLEAN

VARIABLES
  best,        \* the best chain of the node
  replaced     \* history: heights whose block was reorganised away

nodeVars == <<best, replaced>>

\* getblock(hash).tx: a node answers for blocks it no longer follows
BlockTxs(hash) == TxsIn[hash]

\* getblockhash(h)
HashAt(h) == SubSeq(best, 1, h)

\* the heights getblockcount may answer
Counts == {h \in 1..Len(best) : h + MaxLag >= Len(best)}

\* height at which the best chain holds t, 0 if it does not
MinedAt(t) ==
  LET at == {h \in 1..Len(best) : t \in BlockTxs(HashAt(h))}
  IN  IF at = {} THEN 0 ELSE CHOOSE h \in at : TRUE

\* gettransaction(t).confirmations
Confirmations(t) == IF MinedAt(t) = 0 THEN 0 ELSE Len(best) - MinedAt(t) + 1

NodeInit == best \in {<<b>> : b \in Branches} /\ replaced = {}

MineBlock ==
  /\ Len(best) < MaxHeight
  /\ \E b \in Branches : best' = Append(best, b)
  /\ UNCHANGED replaced

\* the last blocks of the best chain give way to a branch one block longer
Reorganise ==
  /\ Len(best) < MaxHeight
  /\ \E d \in 1..MaxReorg :
       /\ d < Len(best)
       /\ LET kept == SubSeq(best, 1, Len(best) - d)
          IN  \E fork \in [1..(d + 1) -> Branches] :
                /\ fork[1] # best[Len(kept) + 1]
                /\ best' = kept \o fork
                /\ replaced' = replaced \cup (Len(kept) + 1)..Len(best)

NodeStep == MineBlock \/ Reorganise

Chains == Seq(Branches)

NodeTypeOK == best \in Chains /\ replaced \subseteq Nat

=============================================================================
