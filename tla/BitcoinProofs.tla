----------------------------- MODULE BitcoinProofs -----------------------------
(***************************************************************************)
(* The two users of the Bitcoin node, for every height, depth of            *)
(* reorganisations, set of transactions and lag of the node's answers: a    *)
(* confirmed deposit stays on the best chain, and the anchors of successive *)
(* Slura blocks are blocks of one Bitcoin chain.                            *)
(***************************************************************************)
EXTENDS MCBitcoinBridge, SequenceTheorems, TLAPS

-----------------------------------------------------------------------------
(* The node: the best chain only gets longer, and a block stays on it until *)
(* its height is reorganised.                                               *)

\* The block at a height of the best chain has that height.
LEMMA HashIsPrefix ==
  ASSUME NodeTypeOK, NEW h \in 0..Len(best)
  PROVE  /\ HashAt(h) \in Chains /\ Len(HashAt(h)) = h
         /\ \A i \in 1..h : HashAt(h)[i] = best[i]
<1>1. best \in Seq(Branches) /\ Len(best) \in Nat
  BY LenProperties DEF NodeTypeOK, Chains
<1>2. \A i \in 1..h : best[i] \in Branches
  BY <1>1, ElementOfSeq
<1>3. /\ SubSeq(best, 1, h) \in Seq(Branches)
      /\ Len(SubSeq(best, 1, h)) = IF 1 <= h THEN h - 1 + 1 ELSE 0
      /\ \A i \in 1 .. h - 1 + 1 : SubSeq(best, 1, h)[i] = best[1 + i - 1]
  BY <1>1, <1>2, SubSeqProperties
<1>4. \A i \in 1..h : SubSeq(best, 1, h)[i] = best[i]
  BY <1>1, <1>3
<1> QED BY <1>1, <1>3, <1>4 DEF HashAt, Chains

\* The parent of a block is the block below it.
LEMMA ParentIsBelow ==
  ASSUME NodeTypeOK, NEW h \in 1..Len(best)
  PROVE  Front(HashAt(h)) = HashAt(h - 1)
<1>1. Len(best) \in Nat
  BY LenProperties DEF NodeTypeOK, Chains
<1>2. /\ HashAt(h) \in Seq(Branches) /\ Len(HashAt(h)) = h
      /\ \A i \in 1..h : HashAt(h)[i] = best[i]
  BY <1>1, HashIsPrefix DEF Chains
<1>3. /\ HashAt(h - 1) \in Seq(Branches) /\ Len(HashAt(h - 1)) = h - 1
      /\ \A i \in 1 .. h - 1 : HashAt(h - 1)[i] = best[i]
  BY <1>1, HashIsPrefix DEF Chains
<1> DEFINE front == SubSeq(HashAt(h), 1, h - 1)
<1>4. \A i \in 1 .. h - 1 : HashAt(h)[i] \in Branches
  BY <1>2, ElementOfSeq
<1>5. /\ front \in Seq(Branches)
      /\ Len(front) = IF 1 <= h - 1 THEN h - 1 - 1 + 1 ELSE 0
      /\ \A i \in 1 .. h - 1 - 1 + 1 : front[i] = HashAt(h)[1 + i - 1]
  BY <1>1, <1>4, SubSeqProperties
<1>6. Len(front) = h - 1 /\ \A i \in 1 .. h - 1 : front[i] = HashAt(h - 1)[i]
  BY <1>1, <1>2, <1>3, <1>5
<1>7. front = HashAt(h - 1)
  BY <1>3, <1>5, <1>6, SeqEqual
<1> QED BY <1>2, <1>7 DEF Front

\* A chain that is not longer than the bound is the hash of a block.
LEMMA ChainIsHash ==
  ASSUME NEW chain \in Chains, Len(chain) \in 1..MaxHeight
  PROVE  chain \in Hashes /\ BlockTxs(chain) \subseteq Txs
<1>1. chain \in [1..Len(chain) -> Branches]
  BY LenProperties DEF Chains
<1>2. chain \in Hashes
  BY <1>1 DEF Hashes
<1> QED BY <1>2, TxsInAssumption DEF BlockTxs

\* A chain that agrees with the best one up to a height has its block there.
LEMMA SamePrefix ==
  ASSUME NodeTypeOK, NodeTypeOK', NEW h \in 0..Len(best), h <= Len(best'),
         \A i \in 1..h : best'[i] = best[i]
  PROVE  HashAt(h)' = HashAt(h)
<1>1. Len(best) \in Nat /\ Len(best') \in Nat /\ h \in 0..Len(best')
  BY LenProperties DEF NodeTypeOK, Chains
<1>2. /\ HashAt(h) \in Seq(Branches) /\ Len(HashAt(h)) = h
      /\ \A i \in 1..h : HashAt(h)[i] = best[i]
  BY HashIsPrefix DEF Chains
<1>3. /\ SubSeq(best', 1, h) \in Seq(Branches) /\ Len(SubSeq(best', 1, h)) = h
      /\ \A i \in 1..h : SubSeq(best', 1, h)[i] = best'[i]
  <2>1. \A i \in 1..h : best'[i] \in Branches
    BY <1>1, ElementOfSeq DEF NodeTypeOK, Chains
  <2>2. /\ SubSeq(best', 1, h) \in Seq(Branches)
        /\ Len(SubSeq(best', 1, h)) = IF 1 <= h THEN h - 1 + 1 ELSE 0
        /\ \A i \in 1 .. h - 1 + 1 : SubSeq(best', 1, h)[i] = best'[1 + i - 1]
    BY <1>1, <2>1, SubSeqProperties
  <2> QED BY <1>1, <2>2
<1>4. SubSeq(best', 1, h) = HashAt(h)
  BY <1>2, <1>3, SeqEqual
<1> QED BY <1>4 DEF HashAt

\* The best chain gets longer with every step of the node. A block that is not among
\* the last MaxReorg stays, and so does one whose height is not reorganised.
LEMMA NodeStepKeeps ==
  ASSUME NodeTypeOK, NodeStep
  PROVE  /\ NodeTypeOK' /\ Len(best) \in Nat /\ Len(best') \in Nat
         /\ Len(best) < MaxHeight /\ Len(best') = Len(best) + 1
         /\ replaced \subseteq replaced'
         /\ \A h \in 0..Len(best) : h \notin replaced' => HashAt(h)' = HashAt(h)
         /\ \A h \in 0..Len(best) : h + MaxReorg <= Len(best) => HashAt(h)' = HashAt(h)
<1>1. best \in Seq(Branches) /\ Len(best) \in Nat /\ replaced \subseteq Nat
  BY LenProperties DEF NodeTypeOK, Chains
<1>2. CASE MineBlock
  <2>1. PICK b \in Branches : best' = Append(best, b)
    BY <1>2 DEF MineBlock
  <2>2. /\ best' \in Seq(Branches) /\ Len(best') = Len(best) + 1
        /\ \A i \in 1..Len(best) : best'[i] = best[i]
    BY <1>1, <2>1, AppendProperties
  <2>3. NodeTypeOK' /\ replaced' = replaced
    BY <1>1, <1>2, <2>2 DEF MineBlock, NodeTypeOK, Chains
  <2>4. \A h \in 0..Len(best) : HashAt(h)' = HashAt(h)
    BY <1>1, <2>2, <2>3, SamePrefix
  <2>5. Len(best) < MaxHeight
    BY <1>2 DEF MineBlock
  <2> QED BY <1>1, <2>2, <2>3, <2>4, <2>5
<1>3. CASE Reorganise
  <2>1. PICK d \in 1..MaxReorg :
         /\ d < Len(best)
         /\ LET kept == SubSeq(best, 1, Len(best) - d)
            IN  \E fork \in [1..(d + 1) -> Branches] :
                  /\ fork[1] # best[Len(kept) + 1]
                  /\ best' = kept \o fork
                  /\ replaced' = replaced \cup (Len(kept) + 1)..Len(best)
    BY <1>3 DEF Reorganise
  <2> DEFINE n == Len(best) - d
             kept == HashAt(n)
  <2>2. PICK fork \in [1..(d + 1) -> Branches] :
          /\ best' = kept \o fork
          /\ replaced' = replaced \cup (Len(kept) + 1)..Len(best)
    BY <2>1 DEF HashAt
  <2>3. /\ d \in Nat /\ d <= MaxReorg /\ MaxReorg \in Nat
        /\ n = Len(best) - d /\ n \in 1..Len(best) /\ n \in Nat
    BY <1>1, <2>1, HeightAssumption
  <2> HIDE DEF n
  <2>4. /\ kept \in Seq(Branches) /\ Len(kept) = n
        /\ \A i \in 1..n : kept[i] = best[i]
    <3>1. n \in 0..Len(best)
      BY <1>1, <2>3
    <3> QED BY <3>1, HashIsPrefix DEF Chains
  <2> HIDE DEF kept
  <2>5. fork \in Seq(Branches) /\ Len(fork) = d + 1
    <3>1. fork \in Seq(Branches)
      BY <2>3, SeqDef
    <3>2. DOMAIN fork = 1..Len(fork) /\ Len(fork) \in Nat
      BY <3>1, LenProperties
    <3> QED BY <2>3, <3>1, <3>2
  <2>6. /\ best' \in Seq(Branches) /\ Len(best') = n + d + 1
        /\ \A i \in 1..n : best'[i] = kept[i]
    <3>1. /\ kept \o fork \in Seq(Branches)
          /\ Len(kept \o fork) = Len(kept) + Len(fork)
          /\ \A i \in 1 .. Len(kept) + Len(fork) : (kept \o fork)[i] =
                      IF i <= Len(kept) THEN kept[i] ELSE fork[i - Len(kept)]
      BY <2>4, <2>5, ConcatProperties
    <3> QED BY <2>2, <2>3, <2>4, <2>5, <3>1
  <2>7. NodeTypeOK' /\ replaced' = replaced \cup (n + 1)..Len(best)
    <3>1. replaced' = replaced \cup (n + 1)..Len(best)
      BY <2>2, <2>4
    <3>2. (n + 1)..Len(best) \subseteq Nat
      BY <1>1, <2>3
    <3> QED BY <1>1, <2>6, <3>1, <3>2 DEF NodeTypeOK, Chains
  <2>8. ASSUME NEW h \in 0..Len(best), h <= n PROVE HashAt(h)' = HashAt(h)
    <3>0. 1..h \subseteq 1..n
      BY <1>1, <2>3, <2>8
    <3>1. \A i \in 1..h : best'[i] = best[i]
      BY <2>4, <2>6, <3>0
    <3>2. h <= Len(best')
      BY <2>3, <2>6, <2>8
    <3> QED BY <2>7, <3>1, <3>2, SamePrefix
  <2>9. \A h \in 0..Len(best) : h \notin replaced' => h <= n
    BY <1>1, <2>3, <2>7
  <2>10. \A h \in 0..Len(best) : h + MaxReorg <= Len(best) => h <= n
    BY <1>1, <2>3
  <2>11. Len(best') \in Nat /\ Len(best') = Len(best) + 1 /\ replaced \subseteq replaced'
    BY <1>1, <2>3, <2>6, <2>7
  <2>12. Len(best) < MaxHeight
    BY <1>3 DEF Reorganise
  <2> QED BY <1>1, <2>7, <2>8, <2>9, <2>10, <2>11, <2>12
<1> QED BY <1>2, <1>3 DEF NodeStep

LEMMA NodeInitTypes == NodeInit => NodeTypeOK /\ Len(best) = 1
<1> SUFFICES ASSUME NodeInit PROVE NodeTypeOK /\ Len(best) = 1
  OBVIOUS
<1>1. PICK b \in Branches : best = <<b>>
  BY DEF NodeInit
<1> QED BY <1>1 DEF NodeInit, NodeTypeOK, Chains

-----------------------------------------------------------------------------
(* Deposits.  The settled ones are what stays.                              *)

\* t is mined, and so deep that no reorganisation reaches its block
Settled(t) ==
  \E h \in 1..Len(best) : t \in BlockTxs(HashAt(h)) /\ h + MinConf <= Len(best) + 1

\* the confirmations in hand, or stored with a deposit, were counted at any time before
DepositsSettled == \A t \in DOMAIN deposits : deposits[t].status = "Confirmed" => Settled(t)
CheckedSettled == tx.confirmations >= MinConf => Settled(tx.txid)

Progress ==
  /\ Len(best) \in 1..MaxHeight /\ lastHeight \in 0..Len(best)
  /\ wpc = "hash" => lastHeight > 0
  /\ wpc = "txs" => Len(wHash) \in 1..MaxHeight
  /\ tx.outputs # <<>> => tx.txid \in Txs

BridgeInv == TypeOK /\ Progress /\ (MaxReorg < MinConf => DepositsSettled /\ CheckedSettled)

-----------------------------------------------------------------------------
(* Lemmas.                                                                 *)

LEMMA MinedIsHeight ==
  ASSUME NEW t
  PROVE  MinedAt(t) # 0 => MinedAt(t) \in 1..Len(best) /\ t \in BlockTxs(HashAt(MinedAt(t)))
<1> DEFINE at == {h \in 1..Len(best) : t \in BlockTxs(HashAt(h))}
<1>1. MinedAt(t) = IF at = {} THEN 0 ELSE CHOOSE h \in at : TRUE
  BY DEF MinedAt
<1>2. at # {} => (CHOOSE h \in at : TRUE) \in at
  OBVIOUS
<1> QED BY <1>1, <1>2

LEMMA SettledIsMined ==
  ASSUME NEW t, Settled(t), Len(best) \in Nat PROVE MinedAt(t) # 0
<1> DEFINE at == {h \in 1..Len(best) : t \in BlockTxs(HashAt(h))}
<1>1. MinedAt(t) = IF at = {} THEN 0 ELSE CHOOSE h \in at : TRUE
  BY DEF MinedAt
<1>2. at # {}
  BY DEF Settled
<1>3. (CHOOSE h \in at : TRUE) \in at
  BY <1>2
<1>4. 0 \notin at
  OBVIOUS
<1> QED BY <1>1, <1>2, <1>3, <1>4

\* The confirmations the node counts are those of the block that holds the transaction.
LEMMA ConfirmationsSettle ==
  ASSUME NEW t, Len(best) \in Nat
  PROVE  Confirmations(t) \in Nat /\ (Confirmations(t) >= MinConf => Settled(t))
<1>1. CASE MinedAt(t) = 0
  BY <1>1, MinConfAssumption DEF Confirmations
<1>2. CASE MinedAt(t) # 0
  <2>1. MinedAt(t) \in 1..Len(best) /\ t \in BlockTxs(HashAt(MinedAt(t)))
    BY <1>2, MinedIsHeight
  <2>2. Confirmations(t) = Len(best) - MinedAt(t) + 1
    BY <1>2 DEF Confirmations
  <2>3. Confirmations(t) \in Nat
    BY <2>1, <2>2
  <2>4. ASSUME Confirmations(t) >= MinConf PROVE MinedAt(t) + MinConf <= Len(best) + 1
    BY <2>1, <2>2, <2>4, MinConfAssumption
  <2> QED BY <2>1, <2>3, <2>4 DEF Settled
<1> QED BY <1>1, <1>2

\* The steps of the watcher and the callers change what is settled only through the
\* transaction in hand and the deposits.
LEMMA SettledStays ==
  ASSUME BridgeInv, MaxReorg < MinConf, UNCHANGED <<nodeVars, deposits, tx>>
  PROVE  DepositsSettled' /\ CheckedSettled'
  BY DEF BridgeInv, nodeVars, DepositsSettled, CheckedSettled, Settled, BlockTxs, HashAt

-----------------------------------------------------------------------------
(* The node.                                                               *)

LEMMA NewBlocksKeeps == BridgeInv /\ NewBlocks => BridgeInv'
<1> SUFFICES ASSUME BridgeInv, NewBlocks PROVE BridgeInv'
  OBVIOUS
<1>t. /\ TypeOK /\ Progress /\ NodeTypeOK /\ NodeStep
      /\ UNCHANGED <<vezContract, deposits, wpc, lastHeight, wHash, todo, tx, asked>>
  BY DEF BridgeInv, TypeOK, NewBlocks, watcherVars
<1>n. /\ NodeTypeOK' /\ Len(best) \in Nat /\ Len(best') \in Nat
      /\ Len(best) < MaxHeight /\ Len(best') = Len(best) + 1
      /\ \A h \in 0..Len(best) : h + MaxReorg <= Len(best) => HashAt(h)' = HashAt(h)
  BY <1>t, NodeStepKeeps
<1>1. TypeOK'
  BY <1>t, <1>n DEF TypeOK
<1>2. Progress'
  BY <1>t, <1>n, HeightAssumption DEF Progress
<1>3. ASSUME MaxReorg < MinConf PROVE DepositsSettled' /\ CheckedSettled'
  <2>1. ASSUME NEW t, Settled(t)
        PROVE  \E h \in 1..Len(best') :
                 t \in BlockTxs(SubSeq(best', 1, h)) /\ h + MinConf <= Len(best') + 1
    <3>1. PICK h \in 1..Len(best) : t \in BlockTxs(HashAt(h)) /\ h + MinConf <= Len(best) + 1
      BY <2>1 DEF Settled
    <3>2. h \in 0..Len(best) /\ h + MaxReorg <= Len(best)
      BY <1>3, <1>n, <3>1, HeightAssumption, MinConfAssumption
    <3>3. SubSeq(best', 1, h) = HashAt(h)
      BY <1>n, <3>2 DEF HashAt
    <3>4. h \in 1..Len(best') /\ h + MinConf <= Len(best') + 1
      BY <1>n, <3>1, MinConfAssumption
    <3> QED BY <3>1, <3>3, <3>4
  <2>2. DepositsSettled'
    BY <1>3, <1>t, <2>1 DEF BridgeInv, DepositsSettled, Settled, BlockTxs, HashAt
  <2>3. CheckedSettled'
    BY <1>3, <1>t, <2>1 DEF BridgeInv, CheckedSettled, Settled, BlockTxs, HashAt
  <2> QED BY <2>2, <2>3
<1> QED BY <1>1, <1>2, <1>3 DEF BridgeInv

-----------------------------------------------------------------------------
(* The watcher.                                                            *)

LEMMA WatchKeeps == BridgeInv /\ (WatchNewHeight \/ FetchBlockHash) => BridgeInv'
<1> SUFFICES ASSUME BridgeInv, WatchNewHeight \/ FetchBlockHash PROVE BridgeInv'
  OBVIOUS
<1>t. /\ TypeOK /\ Progress /\ NodeTypeOK /\ Len(best) \in Nat /\ best' = best
      /\ UNCHANGED <<nodeVars, vezContract, deposits, todo, tx, asked>>
  BY HeightAssumption DEF BridgeInv, TypeOK, Progress, WatchNewHeight, FetchBlockHash, nodeVars
<1>1. CASE WatchNewHeight
  <2>1. wpc' = "hash" /\ wHash' = wHash /\ lastHeight' \in 1..Len(best)
    BY <1>1 DEF WatchNewHeight, Counts
  <2>2. TypeOK'
    BY <1>t, <2>1 DEF TypeOK, NodeTypeOK, nodeVars
  <2>3. Progress'
    BY <1>t, <2>1 DEF Progress
  <2> QED BY <1>t, <2>2, <2>3, SettledStays DEF BridgeInv
<1>2. CASE FetchBlockHash
  <2>1. wpc = "hash" /\ wpc' = "txs" /\ wHash' = HashAt(lastHeight) /\ lastHeight' = lastHeight
    BY <1>2 DEF FetchBlockHash
  <2>2. lastHeight \in 1..MaxHeight /\ lastHeight \in 0..Len(best)
    BY <1>t, <2>1, HeightAssumption DEF Progress
  <2>3. wHash' \in Chains /\ Len(wHash') = lastHeight
    BY <1>t, <2>1, <2>2, HashIsPrefix
  <2>4. TypeOK'
    BY <1>t, <2>1, <2>3 DEF TypeOK, NodeTypeOK, nodeVars
  <2>5. Progress'
    BY <1>t, <2>1, <2>2, <2>3 DEF Progress
  <2> QED BY <1>t, <2>4, <2>5, SettledStays DEF BridgeInv
<1> QED BY <1>1, <1>2

LEMMA BlockKeeps ==
  BridgeInv /\ (FetchBlockTxs \/ BlockProcessed \/ GiveUp("hash") \/ GiveUp("txs")) => BridgeInv'
<1> SUFFICES ASSUME BridgeInv, FetchBlockTxs \/ BlockProcessed \/ GiveUp("hash") \/ GiveUp("txs")
             PROVE  BridgeInv'
  OBVIOUS
<1>t. /\ TypeOK /\ Progress /\ NodeTypeOK /\ best' = best
      /\ UNCHANGED <<nodeVars, vezContract, deposits, lastHeight, wHash, tx, asked>>
      /\ wpc' \in {"check", "poll"}
  BY DEF BridgeInv, TypeOK, FetchBlockTxs, BlockProcessed, GiveUp, nodeVars
<1>1. todo' \subseteq Txs
  <2>1. CASE FetchBlockTxs
    <3>1. wpc = "txs" /\ todo' = BlockTxs(wHash)
      BY <2>1 DEF FetchBlockTxs
    <3>2. wHash \in Chains /\ Len(wHash) \in 1..MaxHeight
      BY <1>t, <3>1 DEF TypeOK, Progress
    <3> QED BY <3>1, <3>2, ChainIsHash
  <2>2. CASE BlockProcessed \/ GiveUp("hash") \/ GiveUp("txs")
    BY <2>2, <1>t DEF BlockProcessed, GiveUp, TypeOK
  <2> QED BY <2>1, <2>2
<1>2. TypeOK'
  BY <1>t, <1>1 DEF TypeOK, NodeTypeOK, nodeVars
<1>3. Progress'
  BY <1>t DEF Progress
<1> QED BY <1>t, <1>2, <1>3, SettledStays DEF BridgeInv

LEMMA NoTxFacts ==
  /\ NoTx \in [txid : Txs \cup {"none"}, outputs : Seq(Nat), confirmations : Nat]
  /\ NoTx.outputs = <<>> /\ NoTx.confirmations = 0
<1>1. <<>> \in Seq(Nat)
  BY EmptySeq
<1> QED BY <1>1 DEF NoTx

LEMMA FetchTransactionKeeps == BridgeInv /\ FetchTransaction => BridgeInv'
<1> SUFFICES ASSUME BridgeInv, FetchTransaction PROVE BridgeInv'
  OBVIOUS
<1>t. /\ TypeOK /\ Progress /\ NodeTypeOK /\ Len(best) \in Nat /\ best' = best
      /\ wpc = "check"
      /\ UNCHANGED <<nodeVars, vezContract, deposits, wpc, lastHeight, wHash, asked>>
  BY HeightAssumption DEF BridgeInv, TypeOK, Progress, FetchTransaction, nodeVars
<1>1. PICK t \in todo :
       /\ todo' = todo \ {t}
       /\ \/ tx' = [txid |-> t, outputs |-> Outputs[t], confirmations |-> Confirmations(t)]
          \/ RpcFails /\ tx' = NoTx
  BY DEF FetchTransaction
<1>2. t \in Txs /\ Outputs[t] \in Seq(Nat) /\ todo' \subseteq Txs
  BY <1>t, <1>1, OutputsAssumption DEF TypeOK
<1>3. Confirmations(t) \in Nat /\ (Confirmations(t) >= MinConf => Settled(t))
  BY <1>t, ConfirmationsSettle
<1>4. /\ tx' \in [txid : Txs \cup {"none"}, outputs : Seq(Nat), confirmations : Nat]
      /\ tx'.outputs # <<>> => tx'.txid \in Txs
      /\ tx'.confirmations >= MinConf => Settled(tx'.txid)
  <2>1. CASE tx' = [txid |-> t, outputs |-> Outputs[t], confirmations |-> Confirmations(t)]
    <3>1. tx'.txid = t /\ tx'.outputs = Outputs[t] /\ tx'.confirmations = Confirmations(t)
      BY <2>1
    <3> QED BY <1>2, <1>3, <2>1, <3>1
  <2>2. CASE tx' = NoTx
    <3>1. ~(0 >= MinConf)
      BY MinConfAssumption
    <3> QED BY <2>2, <3>1, NoTxFacts
  <2> QED BY <1>1, <2>1, <2>2
<1>5. TypeOK'
  BY <1>t, <1>2, <1>4 DEF TypeOK, NodeTypeOK, nodeVars
<1>6. Progress'
  BY <1>t, <1>4 DEF Progress
<1>7. ASSUME MaxReorg < MinConf PROVE DepositsSettled' /\ CheckedSettled'
  <2>1. DepositsSettled'
    BY <1>7, <1>t DEF BridgeInv, DepositsSettled, Settled, BlockTxs, HashAt
  <2>2. CheckedSettled'
    BY <1>t, <1>4 DEF CheckedSettled, Settled, BlockTxs, HashAt
  <2> QED BY <2>1, <2>2
<1> QED BY <1>5, <1>6, <1>7 DEF BridgeInv

\* A deposit is registered as confirmed only with the confirmations that settle it.
LEMMA RegisterDepositKeeps == BridgeInv /\ RegisterDeposit => BridgeInv'
<1> SUFFICES ASSUME BridgeInv, RegisterDeposit PROVE BridgeInv'
  OBVIOUS
<1>t. /\ TypeOK /\ Progress /\ NodeTypeOK /\ best' = best /\ wpc = "check"
      /\ UNCHANGED <<nodeVars, vezContract, lastHeight, wHash, todo, asked>>
  BY DEF BridgeInv, TypeOK, RegisterDeposit, nodeVars
<1>1. /\ tx.outputs # <<>> /\ wpc' \in {"check", "mint"}
      /\ deposits' = [t \in DOMAIN deposits \cup {tx.txid} |->
                        IF t = tx.txid THEN Registered ELSE deposits[t]]
      /\ tx' = [tx EXCEPT !.outputs = Tail(tx.outputs)]
  BY DEF RegisterDeposit
<1>2. /\ tx.txid \in Txs /\ tx.outputs \in Seq(Nat) /\ tx.confirmations \in Nat
      /\ Head(tx.outputs) \in Nat /\ Tail(tx.outputs) \in Seq(Nat)
  <2>1. tx.txid \in Txs /\ tx.outputs \in Seq(Nat) /\ tx.confirmations \in Nat
    BY <1>t, <1>1 DEF TypeOK, Progress
  <2> QED BY <2>1, <1>1, HeadTailProperties
<1>3. /\ Registered \in Deposits
      /\ Registered.status = "Confirmed" => tx.confirmations >= MinConf
  <2>1. Status(tx.confirmations) \in {"Pending", "Confirmed"}
        /\ (Status(tx.confirmations) = "Confirmed" => tx.confirmations >= MinConf)
    BY DEF Status
  <2> HIDE DEF Status
  <2> QED BY <1>2, <2>1 DEF Registered, Deposits
<1>4. /\ tx' \in [txid : Txs \cup {"none"}, outputs : Seq(Nat), confirmations : Nat]
      /\ tx'.txid = tx.txid /\ tx'.confirmations = tx.confirmations
  BY <1>t, <1>1, <1>2 DEF TypeOK
<1>5. \E S \in SUBSET Txs : deposits' \in [S -> Deposits]
  <2>1. PICK S \in SUBSET Txs : deposits \in [S -> Deposits]
    BY <1>t DEF TypeOK
  <2>2. S \cup {tx.txid} \in SUBSET Txs /\ DOMAIN deposits = S
    BY <1>2, <2>1
  <2>3. deposits' \in [S \cup {tx.txid} -> Deposits]
    BY <1>1, <1>3, <2>1, <2>2
  <2> QED BY <2>2, <2>3
<1>6. TypeOK'
  BY <1>t, <1>1, <1>4, <1>5 DEF TypeOK, NodeTypeOK, nodeVars
<1>7. Progress'
  BY <1>t, <1>1, <1>2, <1>4 DEF Progress
<1>8. ASSUME MaxReorg < MinConf PROVE DepositsSettled' /\ CheckedSettled'
  <2>1. DepositsSettled /\ CheckedSettled
    BY <1>8 DEF BridgeInv
  <2>2. CheckedSettled'
    BY <1>t, <1>4, <2>1 DEF CheckedSettled, Settled, BlockTxs, HashAt
  <2>3. ASSUME NEW t \in DOMAIN deposits', deposits'[t].status = "Confirmed"
        PROVE  Settled(t)
    <3>1. CASE t = tx.txid
      <4>1. Registered.status = "Confirmed"
        BY <1>1, <2>3, <3>1
      <4> QED BY <1>3, <2>1, <3>1, <4>1 DEF CheckedSettled
    <3>2. CASE t # tx.txid
      <4>1. t \in DOMAIN deposits /\ deposits'[t] = deposits[t]
        BY <1>1, <2>3, <3>2
      <4> QED BY <4>1, <2>1, <2>3 DEF DepositsSettled
    <3> QED BY <3>1, <3>2
  <2>4. DepositsSettled'
    BY <1>t, <2>3 DEF DepositsSettled, Settled, BlockTxs, HashAt
  <2> QED BY <2>2, <2>4
<1> QED BY <1>6, <1>7, <1>8 DEF BridgeInv

LEMMA TransactionCheckedKeeps == BridgeInv /\ TransactionChecked => BridgeInv'
<1> SUFFICES ASSUME BridgeInv, TransactionChecked PROVE BridgeInv'
  OBVIOUS
<1>t. /\ TypeOK /\ Progress /\ NodeTypeOK /\ best' = best
      /\ UNCHANGED <<nodeVars, vezContract, deposits, wpc, lastHeight, wHash, todo, asked>>
      /\ tx' = NoTx
  BY DEF BridgeInv, TypeOK, TransactionChecked, nodeVars
<1>1. TypeOK'
  BY <1>t, NoTxFacts DEF TypeOK, NodeTypeOK, nodeVars
<1>2. Progress'
  BY <1>t, NoTxFacts DEF Progress
<1>3. ASSUME MaxReorg < MinConf PROVE DepositsSettled' /\ CheckedSettled'
  <2>1. DepositsSettled'
    BY <1>3, <1>t DEF BridgeInv, DepositsSettled, Settled, BlockTxs, HashAt
  <2>2. tx'.confirmations = 0 /\ ~(0 >= MinConf)
    BY <1>t, NoTxFacts, MinConfAssumption
  <2> QED BY <2>1, <2>2 DEF CheckedSettled
<1> QED BY <1>1, <1>2, <1>3 DEF BridgeInv

-----------------------------------------------------------------------------
(* The callers, and the whole.                                             *)

LEMMA CallersKeeps == BridgeInv /\ Callers => BridgeInv'
<1> SUFFICES ASSUME BridgeInv, Callers PROVE BridgeInv'
  OBVIOUS
<1>t. /\ TypeOK /\ Progress /\ best' = best
      /\ UNCHANGED <<nodeVars, deposits, wpc, lastHeight, wHash, todo, tx>>
      /\ vezContract' \in BOOLEAN /\ asked' \in BOOLEAN
  BY DEF BridgeInv, TypeOK, Callers, SetVezContract, AskPendingDeposits, GetPendingDeposits, nodeVars,
    watcherVars
<1>1. TypeOK'
  BY <1>t DEF TypeOK, NodeTypeOK, nodeVars
<1>2. Progress'
  BY <1>t DEF Progress
<1> QED BY <1>t, <1>1, <1>2, SettledStays DEF BridgeInv

LEMMA BridgeInitially == Init => BridgeInv
<1> SUFFICES ASSUME Init PROVE BridgeInv
  OBVIOUS
<1>1. NodeTypeOK /\ Len(best) = 1
  BY NodeInitTypes DEF Init
<1>2. <<>> \in Chains /\ DOMAIN deposits = {} /\ \E S \in SUBSET Txs : deposits \in [S -> Deposits]
  <2>1. <<>> \in Chains
    BY EmptySeq DEF Chains
  <2>2. deposits \in [{} -> Deposits]
    BY DEF Init
  <2> QED BY <2>1, <2>2
<1>3. TypeOK
  BY <1>1, <1>2, NoTxFacts DEF Init, TypeOK
<1>4. Progress
  BY <1>1, NoTxFacts, HeightAssumption DEF Init, Progress
<1>5. DepositsSettled
  BY <1>2 DEF DepositsSettled
<1>6. CheckedSettled
  <2>1. tx.confirmations = 0 /\ ~(0 >= MinConf)
    BY NoTxFacts, MinConfAssumption DEF Init
  <2> QED BY <2>1 DEF CheckedSettled
<1> QED BY <1>3, <1>4, <1>5, <1>6 DEF BridgeInv

LEMMA BridgeStep == BridgeInv /\ [Next]_vars => BridgeInv'
<1> SUFFICES ASSUME BridgeInv, [Next]_vars PROVE BridgeInv'
  OBVIOUS
<1>1. CASE NewBlocks
  BY <1>1, NewBlocksKeeps
<1>2. CASE WatchNewHeight \/ FetchBlockHash
  BY <1>2, WatchKeeps
<1>3. CASE FetchBlockTxs \/ BlockProcessed \/ GiveUp("hash") \/ GiveUp("txs")
  BY <1>3, BlockKeeps
<1>4. CASE FetchTransaction
  BY <1>4, FetchTransactionKeeps
<1>5. CASE RegisterDeposit
  BY <1>5, RegisterDepositKeeps
<1>6. CASE TransactionChecked
  BY <1>6, TransactionCheckedKeeps
<1>7. CASE Callers
  BY <1>7, CallersKeeps
<1>8. CASE UNCHANGED vars
  <2>1. UNCHANGED <<nodeVars, deposits, tx>>
    BY <1>8 DEF vars, watcherVars
  <2>2. TypeOK' /\ Progress'
    BY <1>8 DEF vars, watcherVars, nodeVars, BridgeInv, TypeOK, NodeTypeOK, Progress
  <2> QED BY <2>1, <2>2, SettledStays DEF BridgeInv
<1> QED BY <1>1, <1>2, <1>3, <1>4, <1>5, <1>6, <1>7, <1>8 DEF Next, Watcher

\* Every variable of the bridge keeps the type its Rust declaration gives it, and no
\* deposit gets the status Minted.
THEOREM BridgeTypes == Spec => []TypeOK
<1>1. BridgeInv => TypeOK
  BY DEF BridgeInv
<1> QED BY BridgeInitially, BridgeStep, <1>1, PTL DEF Spec

\* A deposit that was registered as confirmed is on the best chain for ever, although
\* the chain may be reorganised between the calls that counted its confirmations and
\* its registration, unless a reorganisation is as deep as the confirmations required.
THEOREM ConfirmedDepositsStay == Spec => []ConfirmedStays
<1>1. BridgeInv => ConfirmedStays
  <2> SUFFICES ASSUME BridgeInv, MaxReorg < MinConf, NEW t \in DOMAIN deposits,
                      deposits[t].status = "Confirmed"
               PROVE  MinedAt(t) # 0
    BY DEF ConfirmedStays
  <2>1. Settled(t) /\ Len(best) \in Nat
    BY HeightAssumption DEF BridgeInv, DepositsSettled, Progress
  <2> QED BY <2>1, SettledIsMined
<1> QED BY BridgeInitially, BridgeStep, <1>1, PTL DEF Spec

-----------------------------------------------------------------------------
(* Anchors, whatever happens to the best chain between the calls that fetch *)
(* them.                                                                    *)

\* what a chain of blocks says of the block at height h, unless it is reorganised
OnBest(hash, h) == h \notin replaced => hash = HashAt(h)

InProgress ==
  /\ Len(best) \in 1..MaxHeight /\ aHeight \in 0..Len(best)
  /\ apc # "idle" => aHeight > 0 /\ anchor.height = aHeight
  /\ apc \in {"txs", "prev"} =>
       /\ Len(anchor.hash) = aHeight /\ OnBest(anchor.hash, aHeight)
       /\ OnBest(Front(anchor.hash), aHeight - 1)
  /\ apc = "prev" => anchor.txids = BlockTxs(anchor.hash)

Recorded ==
  \A k \in Anchored :
    anchors[k].height \in 1..Len(best) /\ OnBest(anchors[k].hash, anchors[k].height)

AnchorInv == AnchorTypeOK /\ AnchorIsOneBlock /\ AnchorsChain /\ InProgress /\ Recorded

-----------------------------------------------------------------------------
(* The steps of the node.                                                  *)

LEMMA AnchorBlocksKeeps == AnchorInv /\ AnchorNewBlocks => AnchorInv'
<1> SUFFICES ASSUME AnchorInv, AnchorNewBlocks PROVE AnchorInv'
  OBVIOUS
<1>t. AnchorTypeOK /\ NodeTypeOK /\ NodeStep /\ UNCHANGED <<apc, aHeight, anchor, anchors>>
  BY DEF AnchorInv, AnchorTypeOK, AnchorNewBlocks
<1>n. /\ NodeTypeOK' /\ Len(best) \in Nat /\ Len(best') \in Nat
      /\ Len(best) < MaxHeight /\ Len(best') = Len(best) + 1 /\ replaced \subseteq replaced'
      /\ \A h \in 0..Len(best) : h \notin replaced' => HashAt(h)' = HashAt(h)
  BY <1>t, NodeStepKeeps
<1>o. ASSUME NEW hash, NEW h \in 0..Len(best), OnBest(hash, h)
      PROVE  h \notin replaced' => hash = SubSeq(best', 1, h)
  BY <1>n, <1>o DEF OnBest, HashAt
<1>1. AnchorTypeOK'
  BY <1>t, <1>n DEF AnchorTypeOK
<1>2. AnchorIsOneBlock' /\ AnchorsChain'
  BY <1>t, <1>n DEF AnchorInv, AnchorIsOneBlock, AnchorsChain, Anchored, BlockTxs
<1>3. InProgress'
  <2>1. Len(best') \in 1..MaxHeight /\ aHeight \in 0..Len(best') /\ aHeight \in 0..Len(best)
    BY <1>n, <1>t, HeightAssumption DEF AnchorInv, InProgress
  <2>2. ASSUME apc \in {"txs", "prev"}
        PROVE  /\ aHeight \notin replaced' => anchor.hash = SubSeq(best', 1, aHeight)
               /\ aHeight - 1 \notin replaced' =>
                    Front(anchor.hash) = SubSeq(best', 1, aHeight - 1)
    <3>1. aHeight - 1 \in 0..Len(best) /\ OnBest(anchor.hash, aHeight)
          /\ OnBest(Front(anchor.hash), aHeight - 1)
      BY <2>1, <2>2, <1>n DEF AnchorInv, InProgress
    <3> QED BY <2>1, <3>1, <1>o
  <2> QED BY <1>t, <2>1, <2>2 DEF AnchorInv, InProgress, OnBest, HashAt, BlockTxs
<1>4. Recorded'
  <2> SUFFICES ASSUME NEW k \in Anchored
               PROVE  /\ anchors[k].height \in 1..Len(best')
                      /\ anchors[k].height \notin replaced' =>
                           anchors[k].hash = SubSeq(best', 1, anchors[k].height)
    BY <1>t DEF Recorded, OnBest, Anchored, HashAt
  <2>1. anchors[k].height \in 1..Len(best) /\ OnBest(anchors[k].hash, anchors[k].height)
    BY DEF AnchorInv, Recorded
  <2>2. anchors[k].height \in 0..Len(best) /\ anchors[k].height \in 1..Len(best')
    BY <1>n, <2>1
  <2> QED BY <2>1, <2>2, <1>o
<1> QED BY <1>1, <1>2, <1>3, <1>4 DEF AnchorInv

-----------------------------------------------------------------------------
(* The calls of get_block_anchor.                                          *)

LEMMA StartAnchorKeeps == AnchorInv /\ StartAnchor => AnchorInv'
<1> SUFFICES ASSUME AnchorInv, StartAnchor PROVE AnchorInv'
  OBVIOUS
<1>t. AnchorTypeOK /\ InProgress /\ UNCHANGED <<nodeVars, anchors>>
  BY DEF AnchorInv, StartAnchor
<1>1. /\ apc' = "hash" /\ aHeight' \in (aHeight + 1)..Len(best)
      /\ anchor' = [NoAnchor EXCEPT !.height = aHeight']
  BY DEF StartAnchor
<1>2. aHeight' \in 1..Len(best) /\ aHeight' \in Nat
  BY <1>1, <1>t DEF AnchorTypeOK, InProgress
<1>3. anchor' \in Anchors /\ anchor'.height = aHeight'
  <2>1. <<>> \in Chains
    BY EmptySeq DEF Chains
  <2>2. anchor' = [hash |-> <<>>, txids |-> {}, prev |-> <<>>, height |-> aHeight']
    BY <1>1 DEF NoAnchor
  <2> QED BY <1>2, <2>1, <2>2 DEF Anchors
<1>4. AnchorTypeOK'
  BY <1>t, <1>1, <1>2, <1>3 DEF AnchorTypeOK, NodeTypeOK, nodeVars
<1>5. InProgress'
  BY <1>t, <1>1, <1>2, <1>3 DEF InProgress, nodeVars
<1>6. AnchorIsOneBlock' /\ AnchorsChain' /\ Recorded'
  BY <1>t DEF AnchorInv, AnchorIsOneBlock, AnchorsChain, Recorded, Anchored, OnBest, HashAt,
    BlockTxs, nodeVars
<1> QED BY <1>4, <1>5, <1>6 DEF AnchorInv

LEMMA AnchorHashKeeps == AnchorInv /\ AnchorHash => AnchorInv'
<1> SUFFICES ASSUME AnchorInv, AnchorHash PROVE AnchorInv'
  OBVIOUS
<1>t. /\ AnchorTypeOK /\ NodeTypeOK /\ InProgress
      /\ UNCHANGED <<nodeVars, aHeight, anchors>> /\ best' = best /\ replaced' = replaced
  BY DEF AnchorInv, AnchorTypeOK, AnchorHash, nodeVars
<1>1. apc = "hash" /\ apc' = "txs" /\ anchor' = [anchor EXCEPT !.hash = HashAt(aHeight)]
  BY DEF AnchorHash
<1>2. aHeight \in 1..Len(best) /\ aHeight \in 0..Len(best) /\ Len(best) \in Nat
      /\ anchor.height = aHeight
  BY <1>t, <1>1 DEF InProgress
<1>3. HashAt(aHeight) \in Chains /\ Len(HashAt(aHeight)) = aHeight
      /\ Front(HashAt(aHeight)) = HashAt(aHeight - 1)
  BY <1>t, <1>2, HashIsPrefix, ParentIsBelow
<1>4. anchor' \in Anchors /\ anchor'.hash = HashAt(aHeight) /\ anchor'.height = aHeight
  BY <1>t, <1>1, <1>2, <1>3 DEF AnchorTypeOK, Anchors
<1>5. AnchorTypeOK'
  BY <1>t, <1>1, <1>4 DEF AnchorTypeOK, NodeTypeOK
<1>6. InProgress'
  BY <1>t, <1>1, <1>2, <1>3, <1>4 DEF InProgress, OnBest, HashAt
<1>7. AnchorIsOneBlock' /\ AnchorsChain' /\ Recorded'
  BY <1>t DEF AnchorInv, AnchorIsOneBlock, AnchorsChain, Recorded, Anchored, OnBest, HashAt,
    BlockTxs
<1> QED BY <1>5, <1>6, <1>7 DEF AnchorInv

LEMMA AnchorTxsKeeps == AnchorInv /\ AnchorTxs => AnchorInv'
<1> SUFFICES ASSUME AnchorInv, AnchorTxs PROVE AnchorInv'
  OBVIOUS
<1>t. /\ AnchorTypeOK /\ NodeTypeOK /\ InProgress
      /\ UNCHANGED <<nodeVars, aHeight, anchors>> /\ best' = best /\ replaced' = replaced
  BY DEF AnchorInv, AnchorTypeOK, AnchorTxs, nodeVars
<1>1. apc = "txs" /\ apc' = "prev" /\ anchor' = [anchor EXCEPT !.txids = BlockTxs(anchor.hash)]
  BY DEF AnchorTxs
<1>2. anchor.hash \in Chains /\ Len(anchor.hash) \in 1..MaxHeight
  <2>1. anchor.hash \in Chains
    BY <1>t DEF AnchorTypeOK, Anchors
  <2>2. Len(anchor.hash) = aHeight /\ aHeight > 0
    BY <1>t, <1>1 DEF InProgress
  <2> QED BY <1>t, <2>1, <2>2, HeightAssumption DEF InProgress
<1>3. BlockTxs(anchor.hash) \subseteq Txs
  BY <1>2, ChainIsHash
<1>4. /\ anchor' \in Anchors /\ anchor'.hash = anchor.hash
      /\ anchor'.txids = BlockTxs(anchor.hash) /\ anchor'.height = anchor.height
  BY <1>t, <1>1, <1>3 DEF AnchorTypeOK, Anchors
<1>5. AnchorTypeOK'
  BY <1>t, <1>1, <1>4 DEF AnchorTypeOK, NodeTypeOK
<1>6. InProgress'
  BY <1>t, <1>1, <1>4 DEF InProgress, OnBest, HashAt, BlockTxs
<1>7. AnchorIsOneBlock' /\ AnchorsChain' /\ Recorded'
  BY <1>t DEF AnchorInv, AnchorIsOneBlock, AnchorsChain, Recorded, Anchored, OnBest, HashAt,
    BlockTxs
<1> QED BY <1>5, <1>6, <1>7 DEF AnchorInv

\* A complete anchor joins the anchor of the previous Slura block, and an empty one
\* breaks no link.
LEMMA RecordKeeps ==
  ASSUME AnchorInv, NEW a \in Anchors, Record(a), UNCHANGED nodeVars,
         a.hash # <<>> =>
           /\ a.height \in 1..Len(best) /\ Len(a.hash) = a.height
           /\ a.txids = BlockTxs(a.hash) /\ OnBest(a.hash, a.height)
           /\ OnBest(Front(a.hash), a.height - 1) /\ a.prev = HashAt(a.height - 1)
  PROVE  /\ anchors' \in Seq(Anchors) /\ Len(anchors') <= 2
         /\ AnchorIsOneBlock' /\ AnchorsChain' /\ Recorded'
<1> DEFINE n == Len(anchors)
<1>1. anchors \in Seq(Anchors) /\ n \in 0..2 /\ (anchors # <<>> => n \in 1..2)
  <2>1. anchors \in Seq(Anchors) /\ n <= 2
    BY DEF AnchorInv, AnchorTypeOK
  <2>2. n \in Nat
    BY <2>1, LenProperties
  <2>3. anchors # <<>> => n \in Nat \ {0}
    BY <2>1, EmptySeq
  <2> HIDE DEF n
  <2> QED BY <2>1, <2>2, <2>3
<1>2. best' = best /\ replaced' = replaced
  BY DEF nodeVars
<1>3. CASE anchors = <<>>
  <2>1. anchors' = <<a>>
    BY <1>3 DEF Record
  <2>2. anchors' \in Seq(Anchors) /\ Len(anchors') = 1 /\ anchors'[1] = a
    BY <2>1
  <2>3. Anchored' = {k \in {1} : a.hash # <<>>}
    BY <2>2 DEF Anchored
  <2>4. AnchorIsOneBlock'
    BY <2>2, <2>3, <1>2 DEF AnchorIsOneBlock, BlockTxs
  <2>5. AnchorsChain'
    BY <2>2, <2>3, <1>2 DEF AnchorsChain, OnBest
  <2>6. Recorded'
    BY <2>2, <2>3, <1>2 DEF Recorded, OnBest, HashAt
  <2> QED BY <2>2, <2>4, <2>5, <2>6
<1>4. CASE anchors # <<>>
  <2> DEFINE b == anchors[n]
  <2>0. n \in 1..2 /\ b \in Anchors
    BY <1>1, <1>4, ElementOfSeq
  <2>1. anchors' = <<b, a>>
    BY <1>4 DEF Record, Last
  <2>2. anchors' \in Seq(Anchors) /\ Len(anchors') = 2 /\ anchors'[1] = b /\ anchors'[2] = a
    BY <2>0, <2>1
  <2>3. Anchored' = {k \in {1, 2} : anchors'[k].hash # <<>>}
    BY <2>2 DEF Anchored
  <2>b. ASSUME b.hash # <<>>
        PROVE  /\ n \in Anchored /\ Len(b.hash) = b.height /\ b.txids = BlockTxs(b.hash)
               /\ b.height \in 1..Len(best) /\ OnBest(b.hash, b.height)
               /\ (b.height - 1 \notin replaced => b.prev = Front(b.hash))
    <3>1. n \in Anchored
      BY <2>0, <2>b DEF Anchored
    <3> QED BY <3>1 DEF AnchorInv, AnchorIsOneBlock, AnchorsChain, Recorded
  <2> HIDE DEF b, n
  <2>4. AnchorIsOneBlock'
    BY <2>2, <2>3, <2>b, <1>2 DEF AnchorIsOneBlock, BlockTxs
  <2>5. AnchorsChain'
    <3> SUFFICES ASSUME NEW k \in Anchored', anchors'[k].height - 1 \notin replaced
                 PROVE  /\ anchors'[k].prev = Front(anchors'[k].hash)
                        /\ (k - 1 \in Anchored' /\ anchors'[k - 1].height = anchors'[k].height - 1)
                              => anchors'[k].prev = anchors'[k - 1].hash
      BY <1>2 DEF AnchorsChain
    <3>1. CASE k = 1
      <4>1. 0 \notin Anchored'
        BY <2>3
      <4> QED BY <3>1, <4>1, <2>2, <2>3, <2>b
    <3>2. CASE k = 2
      <4>1. a.hash # <<>> /\ a.prev = HashAt(a.height - 1) /\ OnBest(Front(a.hash), a.height - 1)
            /\ a.height - 1 \notin replaced
        BY <3>2, <2>2, <2>3
      <4>2. a.prev = Front(a.hash)
        BY <4>1 DEF OnBest
      <4>3. ASSUME 1 \in Anchored', b.height = a.height - 1 PROVE a.prev = b.hash
        <5>1. b.hash # <<>>
          BY <4>3, <2>2, <2>3
        <5>2. OnBest(b.hash, a.height - 1)
          BY <5>1, <4>3, <2>b
        <5> QED BY <5>2, <4>1 DEF OnBest
      <4> QED BY <3>2, <4>2, <4>3, <2>2
    <3> QED BY <3>1, <3>2, <2>3
  <2>6. Recorded'
    BY <2>2, <2>3, <2>b, <1>2 DEF Recorded, OnBest, HashAt
  <2> QED BY <2>2, <2>4, <2>5, <2>6
<1> QED BY <1>3, <1>4

LEMMA AnchorPreviousKeeps == AnchorInv /\ AnchorPrevious => AnchorInv'
<1> SUFFICES ASSUME AnchorInv, AnchorPrevious PROVE AnchorInv'
  OBVIOUS
<1> DEFINE a == [anchor EXCEPT !.prev = HashAt(aHeight - 1)]
<1>t. /\ AnchorTypeOK /\ NodeTypeOK /\ InProgress
      /\ UNCHANGED nodeVars /\ best' = best /\ replaced' = replaced
      /\ aHeight' = aHeight /\ anchor' = anchor
  BY DEF AnchorInv, AnchorTypeOK, AnchorPrevious, nodeVars
<1>1. apc = "prev" /\ apc' = "idle" /\ Record(a)
  BY DEF AnchorPrevious
<1>2. aHeight \in 1..Len(best) /\ aHeight - 1 \in 0..Len(best) /\ anchor.height = aHeight
  BY <1>t, <1>1 DEF InProgress
<1>3. HashAt(aHeight - 1) \in Chains
  BY <1>t, <1>2, HashIsPrefix
<1>4. /\ a \in Anchors /\ a.hash = anchor.hash /\ a.txids = anchor.txids
      /\ a.height = anchor.height /\ a.prev = HashAt(aHeight - 1)
  BY <1>t, <1>3 DEF AnchorTypeOK, Anchors
<1>5. /\ Len(anchor.hash) = aHeight /\ anchor.txids = BlockTxs(anchor.hash)
      /\ OnBest(anchor.hash, aHeight) /\ OnBest(Front(anchor.hash), aHeight - 1)
  BY <1>t, <1>1 DEF InProgress
<1> HIDE DEF a
<1>6. /\ anchors' \in Seq(Anchors) /\ Len(anchors') <= 2
      /\ AnchorIsOneBlock' /\ AnchorsChain' /\ Recorded'
  BY <1>t, <1>1, <1>2, <1>4, <1>5, RecordKeeps
<1>7. AnchorTypeOK' /\ InProgress'
  BY <1>t, <1>1, <1>6 DEF AnchorTypeOK, NodeTypeOK, InProgress
<1> QED BY <1>6, <1>7 DEF AnchorInv

LEMMA AnchorFailsKeeps == AnchorInv /\ AnchorFails => AnchorInv'
<1> SUFFICES ASSUME AnchorInv, AnchorFails PROVE AnchorInv'
  OBVIOUS
<1> DEFINE a == [hash |-> <<>>, txids |-> {}, prev |-> <<>>, height |-> aHeight]
<1>t. /\ AnchorTypeOK /\ NodeTypeOK /\ InProgress
      /\ UNCHANGED nodeVars /\ best' = best /\ replaced' = replaced
      /\ aHeight' = aHeight /\ anchor' = anchor
  BY DEF AnchorInv, AnchorTypeOK, AnchorFails, nodeVars
<1>1. apc' = "idle" /\ Record([NoAnchor EXCEPT !.height = aHeight])
  BY DEF AnchorFails
<1>2. [NoAnchor EXCEPT !.height = aHeight] = a
  <2> SUFFICES ASSUME NEW r, r = [NoAnchor EXCEPT !.height = aHeight] PROVE r = a
    OBVIOUS
  <2> QED BY DEF NoAnchor
<1>3. a \in Anchors /\ a.hash = <<>>
  <2>1. <<>> \in Chains
    BY EmptySeq DEF Chains
  <2> QED BY <1>t, <2>1 DEF Anchors, AnchorTypeOK
<1> HIDE DEF a
<1>4. /\ anchors' \in Seq(Anchors) /\ Len(anchors') <= 2
      /\ AnchorIsOneBlock' /\ AnchorsChain' /\ Recorded'
  BY <1>t, <1>1, <1>2, <1>3, RecordKeeps
<1>5. AnchorTypeOK' /\ InProgress'
  BY <1>t, <1>1, <1>4 DEF AnchorTypeOK, NodeTypeOK, InProgress
<1> QED BY <1>4, <1>5 DEF AnchorInv

-----------------------------------------------------------------------------

LEMMA AnchorInitially == AnchorInit => AnchorInv
<1> SUFFICES ASSUME AnchorInit PROVE AnchorInv
  OBVIOUS
<1>1. NodeTypeOK /\ Len(best) = 1
  BY NodeInitTypes DEF AnchorInit
<1>2. /\ apc = "idle" /\ aHeight = 0 /\ anchors = <<>>
      /\ anchor = [hash |-> <<>>, txids |-> {}, prev |-> <<>>, height |-> 0]
  BY DEF AnchorInit, NoAnchor
<1>3. AnchorTypeOK
  <2>1. <<>> \in Chains /\ anchors \in Seq(Anchors) /\ Len(anchors) = 0
    BY <1>2, EmptySeq DEF Chains
  <2> QED BY <1>1, <1>2, <2>1 DEF AnchorTypeOK, Anchors
<1>4. Anchored = {}
  BY <1>2, EmptySeq DEF Anchored
<1>5. AnchorIsOneBlock /\ AnchorsChain /\ Recorded
  BY <1>4 DEF AnchorIsOneBlock, AnchorsChain, Recorded
<1>6. InProgress
  BY <1>1, <1>2, HeightAssumption DEF InProgress
<1> QED BY <1>3, <1>5, <1>6 DEF AnchorInv

LEMMA AnchorStep == AnchorInv /\ [AnchorNext]_anchorVars => AnchorInv'
<1> SUFFICES ASSUME AnchorInv, [AnchorNext]_anchorVars PROVE AnchorInv'
  OBVIOUS
<1>1. CASE AnchorNewBlocks
  BY <1>1, AnchorBlocksKeeps
<1>2. CASE StartAnchor
  BY <1>2, StartAnchorKeeps
<1>3. CASE AnchorHash
  BY <1>3, AnchorHashKeeps
<1>4. CASE AnchorTxs
  BY <1>4, AnchorTxsKeeps
<1>5. CASE AnchorPrevious
  BY <1>5, AnchorPreviousKeeps
<1>6. CASE AnchorFails
  BY <1>6, AnchorFailsKeeps
<1>7. CASE UNCHANGED anchorVars
  BY <1>7 DEF anchorVars, nodeVars, AnchorInv, AnchorTypeOK, NodeTypeOK, AnchorIsOneBlock, AnchorsChain, InProgress,
    Recorded, Anchored, OnBest, HashAt, BlockTxs
<1> QED BY <1>1, <1>2, <1>3, <1>4, <1>5, <1>6, <1>7 DEF AnchorNext, Producer

\* Every variable of the block producer's anchors keeps its type.
THEOREM AnchorTypes == AnchorSpec => []AnchorTypeOK
<1>1. AnchorInv => AnchorTypeOK
  BY DEF AnchorInv
<1> QED BY AnchorInitially, AnchorStep, <1>1, PTL DEF AnchorSpec

\* The transactions of an anchor are those of the block it names, and it continues the
\* anchor of the Slura block before, whatever the node answers between the calls,
\* unless the height where the two meet is reorganised.
THEOREM AnchorsAlwaysHold == AnchorSpec => []AnchorsHold
<1>1. AnchorInv => AnchorsHold
  BY DEF AnchorInv, AnchorsHold
<1> QED BY AnchorInitially, AnchorStep, <1>1, PTL DEF AnchorSpec

-----------------------------------------------------------------------------
(* Deposits or anchors beside each other.                                   *)

PartsInv ==
  /\ part \in {"deposits", "anchors"}
  /\ part = "deposits" => BridgeInv /\ AnchorTypeOK /\ anchors = <<>>
  /\ part = "anchors" => AnchorInv /\ TypeOK /\ deposits = <<>>

LEMMA PartsStep == PartsInv /\ [DepositsNext \/ AnchorsNext]_PartsVars => PartsInv'
<1> SUFFICES ASSUME PartsInv, [DepositsNext \/ AnchorsNext]_PartsVars PROVE PartsInv'
  OBVIOUS
<1>1. part' = part /\ part \in {"deposits", "anchors"}
  BY DEF PartsInv, DepositsNext, AnchorsNext, PartsVars
<1>2. CASE part = "deposits"
  <2>1. [Next]_vars /\ UNCHANGED <<apc, aHeight, anchor, anchors>>
    BY <1>2 DEF DepositsNext, AnchorsNext, PartsVars, ownAnchorVars
  <2>2. BridgeInv'
    BY <1>2, <2>1, BridgeStep DEF PartsInv
  <2>3. NodeTypeOK'
    BY <2>2 DEF BridgeInv, TypeOK
  <2>4. AnchorTypeOK' /\ anchors' = <<>>
    BY <1>2, <2>1, <2>3 DEF PartsInv, AnchorTypeOK
  <2> QED BY <1>1, <1>2, <2>2, <2>4 DEF PartsInv
<1>3. CASE part = "anchors"
  <2>1. /\ [AnchorNext]_anchorVars
        /\ UNCHANGED <<vezContract, deposits, wpc, lastHeight, wHash, todo, tx, asked>>
    BY <1>3 DEF DepositsNext, AnchorsNext, PartsVars, ownAnchorVars, vars, anchorVars,
                watcherVars
  <2>2. AnchorInv'
    BY <1>3, <2>1, AnchorStep DEF PartsInv
  <2>3. NodeTypeOK'
    BY <2>2 DEF AnchorInv, AnchorTypeOK
  <2>4. TypeOK' /\ deposits' = <<>>
    BY <1>3, <2>1, <2>3 DEF PartsInv, TypeOK
  <2> QED BY <1>1, <1>3, <2>2, <2>4 DEF PartsInv
<1> QED BY <1>1, <1>2, <1>3

\* Deposits, the watcher and the anchors keep their types, for any transactions,
\* heights, reorganisations, lag and failures of calls.
THEOREM BitcoinTypes == PartsSpec => []PartsTypeOK
<1>1. PartsInit => PartsInv
  <2> SUFFICES ASSUME PartsInit PROVE PartsInv
    OBVIOUS
  <2>1. BridgeInv /\ AnchorInv /\ part \in {"deposits", "anchors"}
    BY BridgeInitially, AnchorInitially DEF PartsInit
  <2>2. deposits = <<>> /\ anchors = <<>>
    BY DEF PartsInit, Init, AnchorInit
  <2> QED BY <2>1, <2>2 DEF PartsInv, BridgeInv, AnchorInv
<1>2. PartsInv => PartsTypeOK
  BY DEF PartsInv, PartsTypeOK, BridgeInv, AnchorInv
<1> QED BY <1>1, <1>2, PartsStep, PTL DEF PartsSpec

===============================================================================
