--------------------------- MODULE SequencerProofs ---------------------------
(***************************************************************************)
(* Proofs about Sequencer for any set of operations, any channel capacity, *)
(* any number of crashes and any faults.                                   *)
(***************************************************************************)
EXTENDS Sequencer, TLAPS

USE SenderAssumption, BoundsAssumption, FaultsAssumption

-----------------------------------------------------------------------------
(* Type correctness.                                                       *)

\* get_block_height answers a number.
LEMMA HeightType ==
  ASSUME NEW c \in Seq(Blocks)
  PROVE  Height(c) \in Nat
<1>1. CASE c = <<>>
  BY <1>1 DEF Height
<1>2. CASE c # <<>>
  <2>1. c[Len(c)] \in Blocks
    BY <1>2
  <2>2. c[Len(c)].number \in Nat
    BY <2>1 DEF Blocks
  <2> QED BY <1>2, <2>2 DEF Height
<1> QED BY <1>1, <1>2

\* No step of the sequencer takes a variable out of its type.
LEMMA TypeStep == TypeOK /\ [Next]_vars => TypeOK'
<1> SUFFICES ASSUME TypeOK, [Next]_vars PROVE TypeOK'
  OBVIOUS
<1> USE DEF TypeOK, envVars, dbVars, roundVars, ledgerVars, mpVars, histVars,
            Stages
<1>1. CASE InitializeSystemValidator
  <2>1. \A answer \in Answers : AsU64(answer) \in Nat
    BY DEF AsU64
  <2> QED BY <1>1, <2>1 DEF InitializeSystemValidator
<1>2. CASE LoadHeight
  BY <1>2 DEF LoadHeight, Resume
<1>3. CASE Calibrate
  BY <1>3 DEF Calibrate, Save
<1>4. CASE PollNewHead
  BY <1>4 DEF PollNewHead
<1>5. CASE EndRound
  BY <1>5 DEF EndRound
<1>6. CASE RefuseBlock
  BY <1>6 DEF RefuseBlock, NextHeight
<1>7. CASE AssembleBlock
  <2>1. Height(chain) \in Nat
    BY HeightType
  <2>2. {e.tx : e \in pending} \subseteq Txs
    BY DEF Entries
  <2>3. draft' \in Blocks
    BY <1>7, <2>1, <2>2 DEF AssembleBlock, Blocks, NextHeight, NextNumber
  <2> QED BY <1>7, <2>3 DEF AssembleBlock, NextHeight
<1>8. CASE PublishHash
  BY <1>8 DEF PublishHash, BlockHash, Digest, Hashes, Blocks
<1>9. CASE PushBlock
  <2>1. chain' \in Seq(Blocks)
    BY <1>9 DEF PushBlock
  <2>2. produced' \subseteq Nat
    BY <1>9 DEF PushBlock, Blocks
  <2> QED BY <1>9, <2>1, <2>2 DEF PushBlock
<1>10. CASE StoreBlock
  BY <1>10 DEF StoreBlock, PutBlock
<1>11. CASE SendBlock
  BY <1>11 DEF SendBlock
<1>12. CASE RemoveProcessed
  <2>1. NoBlock \in Blocks
    BY DEF NoBlock, Blocks, Digest, Hashes
  <2> QED BY <1>12, <2>1 DEF RemoveProcessed
<1>13. CASE BftConsensus
  BY <1>13 DEF BftConsensus
<1>14. CASE SaveHeight
  BY <1>14 DEF SaveHeight, Save
<1>15. ASSUME NEW t \in Txs, AddTransaction(t) PROVE TypeOK'
  <2>1. Insert(pending, HashKey(t), t) \subseteq Entries
    BY DEF Insert, Entries, Keys
  <2> QED BY <1>15, <2>1 DEF AddTransaction
<1>16. ASSUME NEW r \in Readers, ReadHeight(r) \/ ReadHash(r) PROVE TypeOK'
  <2> DEFINE Reader == [pc : {"idle", "height", "done"}, height : Nat,
                        hash : Hashes]
  <2>1. Height(chain) \in Nat
    BY HeightType
  <2>2. CASE ReadHeight(r)
    <3>1. rd' = [rd EXCEPT ![r] = [rd[r] EXCEPT !.pc = "height",
                                                !.height = Height(chain)]]
      BY <2>2 DEF ReadHeight
    <3>2. [rd[r] EXCEPT !.pc = "height", !.height = Height(chain)] \in Reader
      BY <2>1
    <3>3. rd' \in [Readers -> Reader]
      BY <3>1, <3>2
    <3> QED BY <2>2, <3>3 DEF ReadHeight
  <2>3. CASE ReadHash(r)
    <3>1. rd' = [rd EXCEPT ![r] = [rd[r] EXCEPT !.pc = "done",
                                                !.hash = lastHash]]
      BY <2>3 DEF ReadHash
    <3>2. [rd[r] EXCEPT !.pc = "done", !.hash = lastHash] \in Reader
      OBVIOUS
    <3>3. rd' \in [Readers -> Reader]
      BY <3>1, <3>2
    <3> QED BY <2>3, <3>3 DEF ReadHash
  <2> QED BY <1>16, <2>2, <2>3
<1>17. CASE NewBitcoinBlock
  BY <1>17 DEF NewBitcoinBlock
<1>18. CASE DeployVez
  BY <1>18 DEF DeployVez
<1>19. CASE Crash
  <2>1. NoBlock \in Blocks /\ genesis' \in Hashes
    BY <1>19 DEF Crash, NoBlock, Blocks, Digest, Hashes
  <2> QED BY <1>19, <2>1 DEF Crash
<1>20. CASE PollNothing
  BY <1>20 DEF PollNothing, vars
<1>21. CASE UNCHANGED vars
  BY <1>21 DEF vars
<1> QED
  BY <1>1, <1>2, <1>3, <1>4, <1>5, <1>6, <1>7, <1>8, <1>9, <1>10, <1>11,
     <1>12, <1>13, <1>14, <1>15, <1>16, <1>17, <1>18, <1>19, <1>20, <1>21
  DEF Next, Consensus, Rpc, Environment

\* The variables keep their types in every state of the sequencer.
THEOREM TypeCorrect == Spec => []TypeOK
<1>1. Init => TypeOK
  BY DEF Init, TypeOK, Digest, Hashes, NoBlock, Blocks, Stages
<1> QED
  BY <1>1, TypeStep, PTL DEF Spec

-----------------------------------------------------------------------------
(* The inductive invariant.                                                *)

Building  == pc \in {"publish", "push"}
Recording == pc \in {"store", "send", "remove", "bft", "save"}

TipHash == IF chain = <<>> THEN genesis ELSE BlockHash(chain[Len(chain)])

\* The block being made fits the end of the chain until it is pushed: no other
\* step touches what AssembleBlock read.
LinkInv ==
  /\ ChainLinked
  /\ genesis.stamp < clock
  /\ lastHash = IF pc = "push" THEN BlockHash(draft) ELSE TipHash
  /\ pc \in {"boot", "load", "calibrate"} => chain = <<>>
  /\ Building => draft.number = Len(chain) + 1 /\ draft.parent = TipHash

\* The chain is at or below the cursor, and strictly below it until the block
\* of the cursor's height is pushed.
HeightInv ==
  /\ HeightsIncrease
  /\ cursor <= target
  /\ \A k \in 1..Len(chain) : chain[k].btc <= cursor
  /\ Building => /\ draft.btc = cursor
                 /\ \A k \in 1..Len(chain) : chain[k].btc < cursor
  /\ Recording => chain # <<>> /\ chain[Len(chain)].btc = cursor

\* The persisted height never passes the cursor, and is below it while the
\* cursor's block is made and recorded -- if RocksDB can be read at start-up.
WatermarkInv ==
  /\ pc \notin {"boot", "load"} => dbHeight <= cursor
  /\ pc = "calibrate" => dbHeight = 0
  /\ Building \/ Recording => dbHeight < cursor

ReadsSucceed == "read" \notin Faults

SeqInv == TypeOK /\ LinkInv /\ HeightInv /\ (ReadsSucceed => WatermarkInv)

-----------------------------------------------------------------------------
(* It is inductive.                                                        *)

\* get_block_height is the number of blocks in memory.
LEMMA HeightIsLength ==
  ASSUME TypeOK, ChainLinked
  PROVE  Height(chain) = Len(chain)
<1>1. CASE chain = <<>>
  BY <1>1 DEF Height
<1>2. CASE chain # <<>>
  <2>1. Len(chain) \in 1..Len(chain)
    BY <1>2 DEF TypeOK
  <2> QED BY <1>2, <2>1 DEF Height, ChainLinked
<1> QED BY <1>1, <1>2

\* Blocks carry Bitcoin heights that are numbers.
LEMMA BtcType ==
  ASSUME TypeOK
  PROVE  /\ draft.btc \in Nat
         /\ \A k \in 1..Len(chain) : chain[k].btc \in Nat
<1>1. draft \in Blocks /\ \A k \in 1..Len(chain) : chain[k] \in Blocks
  BY DEF TypeOK
<1> QED BY <1>1 DEF Blocks

\* A step that leaves alone the ledger, the block being made and the cursor,
\* and stays in the same phase of the loop, preserves the invariant.
LEMMA QuietStep ==
  ASSUME SeqInv, UNCHANGED <<ledgerVars, draft, roundVars, dbHeight, clock>>,
         pc' = pc
  PROVE  LinkInv' /\ HeightInv' /\ (ReadsSucceed => WatermarkInv')
BY DEF SeqInv, LinkInv, HeightInv, WatermarkInv, ChainLinked, HeightsIncrease,
       Building, Recording, TipHash, BlockHash, ledgerVars, roundVars

\* The start of the task: an empty chain, and a cursor at the saved height.
LEMMA StartUpStep ==
  ASSUME SeqInv, InitializeSystemValidator \/ LoadHeight \/ Calibrate
  PROVE  LinkInv' /\ HeightInv' /\ (ReadsSucceed => WatermarkInv')
<1> USE DEF SeqInv, TypeOK, LinkInv, HeightInv, WatermarkInv, ChainLinked,
            HeightsIncrease, Building, Recording, TipHash, BlockHash,
            ledgerVars, roundVars, dbVars
<1>1. CASE InitializeSystemValidator
  BY <1>1 DEF InitializeSystemValidator
<1>2. CASE LoadHeight
  <2>1. ReadsSucceed => cursor' = dbHeight
    BY <1>2 DEF LoadHeight, Resume, Outcomes, ReadsSucceed
  <2> QED BY <1>2, <2>1 DEF LoadHeight, Resume
<1>3. CASE Calibrate
  BY <1>3 DEF Calibrate, Save
<1> QED BY <1>1, <1>2, <1>3

\* The steps of the loop up to the assembly of a block.
LEMMA RoundStep ==
  ASSUME SeqInv, PollNewHead \/ EndRound \/ RefuseBlock \/ AssembleBlock
  PROVE  LinkInv' /\ HeightInv' /\ (ReadsSucceed => WatermarkInv')
<1> USE DEF SeqInv, TypeOK, LinkInv, HeightInv, WatermarkInv, ChainLinked,
            HeightsIncrease, Building, Recording, TipHash, BlockHash,
            ledgerVars, dbVars
<1>1. CASE PollNewHead
  BY <1>1 DEF PollNewHead
<1>2. CASE EndRound
  BY <1>2 DEF EndRound
<1>3. CASE RefuseBlock
  <2>1. \A k \in 1..Len(chain) : chain[k].btc <= cursor + 1
    BY BtcType
  <2> QED BY <1>3, <2>1 DEF RefuseBlock, NextHeight
<1>4. CASE AssembleBlock
  <2>1. NextNumber = Len(chain) + 1
    BY HeightIsLength DEF NextNumber
  <2>2. /\ draft'.number = Len(chain) + 1
        /\ draft'.parent = lastHash
        /\ draft'.btc = cursor + 1
    BY <1>4, <2>1 DEF AssembleBlock, NextHeight
  <2>3. LinkInv'
    <3>1. /\ pc = "next" /\ pc' = "publish" /\ clock' = clock + 1
          /\ UNCHANGED <<chain, genesis, lastHash>>
      BY <1>4 DEF AssembleBlock
    <3>2. genesis.stamp \in Nat
      BY DEF Hashes
    <3> QED BY <2>2, <3>1, <3>2
  <2>4. HeightInv'
    <3>1. \A k \in 1..Len(chain) : chain[k].btc < cursor + 1
      BY BtcType
    <3> QED BY <1>4, <2>2, <3>1, BtcType DEF AssembleBlock, NextHeight
  <2> QED BY <1>4, <2>3, <2>4 DEF AssembleBlock, NextHeight
<1> QED BY <1>1, <1>2, <1>3, <1>4

\* Publishing the hash and pushing the block.
LEMMA AppendStep ==
  ASSUME SeqInv, PublishHash \/ PushBlock
  PROVE  LinkInv' /\ HeightInv' /\ (ReadsSucceed => WatermarkInv')
<1> USE DEF SeqInv, TypeOK, LinkInv, HeightInv, WatermarkInv, ChainLinked,
            HeightsIncrease, Building, Recording, TipHash, BlockHash,
            roundVars, dbVars
<1>1. CASE PublishHash
  BY <1>1 DEF PublishHash
<1>2. CASE PushBlock
  <2>0. chain \in Seq(Blocks) /\ draft \in Blocks /\ chain' = Append(chain, draft)
    BY <1>2 DEF PushBlock
  <2>1. /\ Len(chain') = Len(chain) + 1
        /\ \A k \in 1..Len(chain) : chain'[k] = chain[k]
        /\ chain'[Len(chain) + 1] = draft
        /\ chain' # <<>>
    <3> HIDE DEF SeqInv, TypeOK, LinkInv, HeightInv, WatermarkInv, ChainLinked,
                 HeightsIncrease, Building, Recording, TipHash, BlockHash
    <3> QED BY <2>0
  <2>2. UNCHANGED <<draft, lastHash, genesis, cursor, target, dbHeight, clock>>
        /\ pc = "push" /\ pc' = "store"
    BY <1>2 DEF PushBlock
  <2>3. ChainLinked'
    <3> DEFINE n == Len(chain)
               new == chain'
    <3>1. /\ n \in Nat /\ Len(new) = n + 1 /\ new[n + 1] = draft
          /\ \A k \in 1..n : new[k] = chain[k]
      BY <2>0, <2>1
    <3>2. draft.number = n + 1 /\ draft.parent = TipHash
      BY <2>2
    <3>3. chain = <<>> <=> n = 0
      BY <2>0
    <3> HIDE DEF SeqInv, TypeOK, LinkInv, HeightInv, WatermarkInv, ChainLinked,
                 HeightsIncrease, Building, Recording, TipHash, BlockHash
    <3>4. \A k \in 1..n : /\ chain[k].number = k
                          /\ chain[k].parent = IF k = 1 THEN genesis
                                                ELSE BlockHash(chain[k - 1])
      BY DEF SeqInv, LinkInv, ChainLinked
    <3>5. draft.parent = IF n + 1 = 1 THEN genesis ELSE BlockHash(chain[n])
      BY <3>1, <3>2, <3>3 DEF TipHash
    <3> HIDE DEF n, new
    <3>6. \A k \in 1..n : k # 1 => k - 1 \in 1..n
      BY <3>1
    <3>7. ASSUME NEW k \in 1..Len(new)
          PROVE  /\ new[k].number = k
                 /\ new[k].parent = IF k = 1 THEN genesis ELSE BlockHash(new[k - 1])
      <4>1. CASE k \in 1..n
        BY <3>1, <3>4, <3>6, <4>1
      <4>2. CASE k = n + 1
        <5>1. k # 1 => n \in 1..n /\ k - 1 = n
          BY <3>1, <4>2
        <5> QED BY <3>1, <3>2, <3>5, <4>2, <5>1
      <4> QED BY <3>1, <4>1, <4>2
    <3> QED BY <2>2, <3>7 DEF ChainLinked, BlockHash, new
  <2>4. LinkInv'
    <3> HIDE DEF SeqInv, TypeOK, HeightInv, WatermarkInv, ChainLinked,
                 HeightsIncrease
    <3>1. lastHash = BlockHash(draft) /\ genesis.stamp < clock
      BY <2>2 DEF SeqInv
    <3> QED BY <2>1, <2>2, <2>3, <3>1
  <2>5. HeightInv'
    <3>1. /\ draft.btc = cursor /\ cursor \in Nat /\ Len(chain) \in Nat
          /\ \A k \in 1..Len(chain) :
               chain[k].btc \in Nat /\ chain[k].btc < cursor
      BY <2>2, BtcType
    <3>2. \A k \in 1..Len(chain') : k \in 1..Len(chain) \/ k = Len(chain) + 1
      BY <2>1, <3>1
    <3>3. HeightsIncrease'
      <4> HIDE DEF SeqInv, TypeOK, LinkInv, HeightInv, WatermarkInv, ChainLinked,
                   Building, Recording, TipHash, BlockHash
      <4> SUFFICES ASSUME NEW j \in 1..Len(chain'), NEW k \in 1..Len(chain'),
                          j < k
                   PROVE  chain'[j].btc < chain'[k].btc
        BY DEF HeightsIncrease
      <4>1. j \in 1..Len(chain)
        BY <2>1, <3>1
      <4>2. CASE k \in 1..Len(chain)
        <5>1. chain[j].btc < chain[k].btc
          BY <4>1, <4>2 DEF SeqInv, HeightInv, HeightsIncrease
        <5> QED BY <2>1, <4>1, <4>2, <5>1
      <4>3. CASE k = Len(chain) + 1
        BY <2>1, <3>1, <4>1, <4>3
      <4> QED BY <3>2, <4>2, <4>3
    <3>4. \A k \in 1..Len(chain') : chain'[k].btc <= cursor
      <4> HIDE DEF SeqInv, TypeOK, LinkInv, HeightInv, WatermarkInv, ChainLinked,
                   HeightsIncrease, Building, Recording, TipHash, BlockHash
      <4> QED BY <2>1, <3>1, <3>2
    <3>5. chain'[Len(chain')].btc = cursor
      BY <2>1, <3>1
    <3> QED BY <2>1, <2>2, <3>3, <3>4, <3>5
  <2> QED BY <2>2, <2>4, <2>5
<1> QED BY <1>1, <1>2

\* What is done about the block once it is in memory.
LEMMA RecordStep ==
  ASSUME SeqInv,
         StoreBlock \/ SendBlock \/ RemoveProcessed \/ BftConsensus \/ SaveHeight
  PROVE  LinkInv' /\ HeightInv' /\ (ReadsSucceed => WatermarkInv')
<1> USE DEF SeqInv, TypeOK, LinkInv, HeightInv, WatermarkInv, ChainLinked,
            HeightsIncrease, Building, Recording, TipHash, BlockHash,
            ledgerVars, roundVars, dbVars
<1>1. CASE StoreBlock
  BY <1>1 DEF StoreBlock
<1>2. CASE SendBlock
  BY <1>2 DEF SendBlock
<1>3. CASE RemoveProcessed
  BY <1>3 DEF RemoveProcessed
<1>4. CASE BftConsensus
  BY <1>4 DEF BftConsensus
<1>5. CASE SaveHeight
  BY <1>5 DEF SaveHeight, Save
<1> QED BY <1>1, <1>2, <1>3, <1>4, <1>5

\* A crash at any point, and the restart that follows it.
LEMMA CrashStep ==
  ASSUME SeqInv, Crash
  PROVE  LinkInv' /\ HeightInv' /\ (ReadsSucceed => WatermarkInv')
BY DEF Crash, SeqInv, TypeOK, LinkInv, HeightInv, WatermarkInv, ChainLinked,
       HeightsIncrease, Building, Recording, TipHash, Digest

LEMMA SeqInvStep == SeqInv /\ [Next]_vars => SeqInv'
<1> SUFFICES ASSUME SeqInv, [Next]_vars PROVE SeqInv'
  OBVIOUS
<1>1. TypeOK'
  BY TypeStep DEF SeqInv
<1>2. LinkInv' /\ HeightInv' /\ (ReadsSucceed => WatermarkInv')
  <2>1. CASE Consensus
    BY <2>1, StartUpStep, RoundStep, AppendStep, RecordStep DEF Consensus
  <2>2. CASE Rpc
    BY <2>2, QuietStep DEF Rpc, AddTransaction, ReadHeight, ReadHash,
                               dbVars
  <2>3. CASE NewBitcoinBlock \/ DeployVez
    BY <2>3, QuietStep DEF NewBitcoinBlock, DeployVez, dbVars
  <2>4. CASE Crash
    BY <2>4, CrashStep
  <2>5. CASE PollNothing \/ UNCHANGED vars
    BY <2>5, QuietStep DEF PollNothing, vars, dbVars
  <2> QED BY <2>1, <2>2, <2>3, <2>4, <2>5 DEF Next, Environment
<1> QED BY <1>1, <1>2 DEF SeqInv, ReadsSucceed

LEMMA SeqInvInit == Init => SeqInv
BY DEF Init, SeqInv, TypeOK, LinkInv, HeightInv, WatermarkInv, ChainLinked,
       HeightsIncrease, Building, Recording, TipHash, Digest, Hashes, NoBlock,
       Blocks, Stages

LEMMA SeqInvariant == Spec => []SeqInv
BY SeqInvInit, SeqInvStep, PTL DEF Spec

-----------------------------------------------------------------------------
(* What follows from it.                                                   *)

\* The chain in memory is always numbered and linked: slurachain_data and
\* last_block_hash, written under separate locks, agree across every await.
THEOREM ChainIsLinked == Spec => []ChainLinked
<1>1. SeqInv => ChainLinked
  BY DEF SeqInv, LinkInv
<1> QED BY <1>1, SeqInvariant, PTL

\* A process sequences each Bitcoin height at most once, in order, under any
\* faults.
THEOREM HeightsAreOrdered == Spec => []HeightsIncrease
<1>1. SeqInv => HeightsIncrease
  BY DEF SeqInv, HeightInv
<1> QED BY <1>1, SeqInvariant, PTL

\* When reads of RocksDB succeed, no process ever sequences again a height at
\* or below the persisted one.
THEOREM NoRepeat ==
  ASSUME ReadsSucceed
  PROVE  Spec => NoRepeatBelowSaved
<1>1. SeqInv /\ [Next]_vars =>
        [Len(chain') > Len(chain) => chain'[Len(chain')].btc > dbHeight]_vars
  <2> SUFFICES ASSUME SeqInv, [Next]_vars, Len(chain') > Len(chain)
               PROVE  chain'[Len(chain')].btc > dbHeight
    OBVIOUS
  <2>1. CASE PushBlock
    <3>1. chain'[Len(chain')] = draft /\ pc = "push"
      BY <2>1 DEF PushBlock, SeqInv, TypeOK
    <3>2. draft.btc = cursor /\ dbHeight < cursor
      BY <3>1, ReadsSucceed
      DEF SeqInv, HeightInv, WatermarkInv, Building
    <3> QED BY <3>1, <3>2 DEF SeqInv, TypeOK
  <2>2. CASE Crash
    BY <2>2 DEF Crash, SeqInv, TypeOK
  <2>3. CASE UNCHANGED chain
    BY <2>3 DEF SeqInv, TypeOK
  <2>4. PushBlock \/ Crash \/ UNCHANGED chain
    BY DEF Next, Consensus, Rpc, Environment, vars, ledgerVars,
       InitializeSystemValidator, LoadHeight, Calibrate, PollNewHead, EndRound,
       RefuseBlock, AssembleBlock, PublishHash, StoreBlock, SendBlock,
       RemoveProcessed, BftConsensus, SaveHeight, PollNothing, AddTransaction,
       ReadHeight, ReadHash, NewBitcoinBlock, DeployVez
  <2> QED BY <2>1, <2>2, <2>3, <2>4
<1> QED
  BY <1>1, SeqInvariant, PTL DEF Spec, NoRepeatBelowSaved

-----------------------------------------------------------------------------
(* The sequencer implements the abstract ledger.                           *)

\* A step of the sequencer is a step of the ledger or leaves it unchanged.
LEMMA LedgerStep ==
  ASSUME ReadsSucceed, SeqInv, [Next]_vars
  PROVE  [Ledger!Next]_(Ledger!ledgerVars)
<1> USE DEF Ledger!Next, Ledger!ledgerVars
<1>1. CASE PushBlock
  <2>1. /\ chain' = Append(chain, draft) /\ pc = "push"
        /\ UNCHANGED <<genesis, dbHeight>>
    BY <1>1 DEF PushBlock, dbVars
  <2>2. Len(chain') = Len(chain) + 1 /\ chain'[Len(chain) + 1] = draft
    BY <2>1 DEF SeqInv, TypeOK
  <2>3. /\ draft.number = Len(chain) + 1 /\ draft.parent = TipHash
        /\ draft.btc = cursor /\ dbHeight < cursor
        /\ \A k \in 1..Len(chain) : chain[k].btc < cursor
    BY <2>1, ReadsSucceed
    DEF SeqInv, LinkInv, HeightInv, WatermarkInv, Building
  <2>4. chain # <<>> => draft.btc > chain[Len(chain)].btc
    <3>1. chain # <<>> => Len(chain) \in 1..Len(chain)
      BY DEF SeqInv, TypeOK
    <3>2. \A k \in 1..Len(chain) : chain[k].btc \in Nat
      BY BtcType DEF SeqInv
    <3> QED BY <2>3, <3>1, <3>2 DEF SeqInv, TypeOK
  <2>5. Ledger!Linked(draft)
    BY <2>3, <2>4 DEF Ledger!Linked, Ledger!Tip, TipHash, SeqInv, TypeOK
  <2> QED BY <2>1, <2>2, <2>5 DEF Ledger!Extend
<1>2. CASE Calibrate
  BY <1>2, ReadsSucceed
  DEF Calibrate, Save, Ledger!Advance, SeqInv, TypeOK, WatermarkInv, ledgerVars
<1>3. CASE SaveHeight
  BY <1>3, ReadsSucceed
  DEF SaveHeight, Save, Ledger!Advance, SeqInv, TypeOK, HeightInv,
      WatermarkInv, Recording, ledgerVars
<1>4. CASE Crash
  BY <1>4
  DEF Crash, Ledger!Restart, SeqInv, LinkInv, TypeOK, Digest, Hashes, dbVars
<1>5. CASE UNCHANGED <<chain, genesis, dbHeight>>
  BY <1>5
<1>6. PushBlock \/ Calibrate \/ SaveHeight \/ Crash
        \/ UNCHANGED <<chain, genesis, dbHeight>>
  BY DEF Next, Consensus, Rpc, Environment, vars, ledgerVars, dbVars,
     InitializeSystemValidator, LoadHeight, PollNewHead, EndRound,
     RefuseBlock, AssembleBlock, PublishHash, StoreBlock, SendBlock,
     RemoveProcessed, BftConsensus, PollNothing, AddTransaction,
     ReadHeight, ReadHash, NewBitcoinBlock, DeployVez
<1> QED BY <1>1, <1>2, <1>3, <1>4, <1>5, <1>6

\* When reads of RocksDB succeed, the consensus task with its crashes, failed
\* writes and failed checks implements SidechainLedger.
THEOREM Refinement ==
  ASSUME ReadsSucceed
  PROVE  Spec => ImplementsLedger
<1>1. Init => Ledger!Init
  BY DEF Init, Ledger!Init
<1>2. SeqInv /\ [Next]_vars => [Ledger!Next]_(Ledger!ledgerVars)
  BY LedgerStep, ReadsSucceed
<1> QED
  BY <1>1, <1>2, SeqInvariant, PTL DEF Spec, Ledger!Spec, ImplementsLedger

-----------------------------------------------------------------------------
(* No height is jumped over.                                               *)

StoresSucceed == "store" \notin Faults

Covered(h) == h <= base \/ h \in produced \/ h \in refused

\* Every height up to the cursor is covered, but the cursor's own while its
\* block is being built; so is every height up to the persisted one, from which
\* a restart resumes.
CoverInv ==
  /\ base <= dbHeight
  /\ \A h \in 1..dbHeight : Covered(h)
  /\ pc \notin {"boot", "load"} =>
       \A h \in 1..cursor : Covered(h) \/ (Building /\ h = cursor)

LEMMA CoverStep ==
  ASSUME ReadsSucceed, StoresSucceed, SeqInv, CoverInv, [Next]_vars
  PROVE  CoverInv'
<1> USE DEF CoverInv, Covered, Building, SeqInv, TypeOK, WatermarkInv,
            HeightInv, histVars, dbVars, roundVars
<1>1. CASE LoadHeight
  <2>1. cursor' = dbHeight
    BY <1>1 DEF LoadHeight, Resume, Outcomes, ReadsSucceed
  <2> QED BY <1>1, <2>1 DEF LoadHeight, Resume
<1>2. CASE Calibrate
  <2>1. dbHeight = 0 /\ base = 0
    BY <1>2, ReadsSucceed DEF Calibrate
  <2>2. CASE cursor' = head /\ Save(head) /\ base' = dbHeight'
    <3>1. dbHeight' = head
      BY <2>2, StoresSucceed DEF Save, Outcomes, StoresSucceed
    <3> QED BY <1>2, <2>1, <2>2, <3>1 DEF Calibrate
  <2>3. CASE UNCHANGED <<cursor, dbHeight, base>>
    BY <1>2, <2>3 DEF Calibrate
  <2> QED BY <1>2, <2>1, <2>2, <2>3 DEF Calibrate
<1>3. CASE RefuseBlock
  BY <1>3 DEF RefuseBlock, NextHeight
<1>4. CASE AssembleBlock
  BY <1>4 DEF AssembleBlock, NextHeight
<1>5. CASE PushBlock
  <2>1. draft.btc = cursor
    BY <1>5 DEF PushBlock
  <2> QED BY <1>5, <2>1 DEF PushBlock
<1>6. CASE SaveHeight
  <2>1. dbHeight' = cursor
    BY <1>6, StoresSucceed DEF SaveHeight, Save, Outcomes, StoresSucceed
  <2>2. dbHeight < cursor
    BY <1>6, ReadsSucceed DEF SaveHeight, Recording
  <2> QED BY <1>6, <2>1, <2>2 DEF SaveHeight
<1>7. CASE EndRound
  BY <1>7 DEF EndRound
<1>8. CASE Crash
  BY <1>8 DEF Crash
<1>9. CASE InitializeSystemValidator \/ PollNewHead \/ PublishHash \/ StoreBlock
             \/ SendBlock \/ RemoveProcessed \/ BftConsensus
  BY <1>9 DEF InitializeSystemValidator, PollNewHead, PublishHash, StoreBlock,
              SendBlock, RemoveProcessed, BftConsensus
<1>10. CASE PollNothing \/ Rpc \/ NewBitcoinBlock \/ DeployVez \/ UNCHANGED vars
  BY <1>10 DEF PollNothing, Rpc, AddTransaction, ReadHeight, ReadHash,
               NewBitcoinBlock, DeployVez, vars
<1> QED
  BY <1>1, <1>2, <1>3, <1>4, <1>5, <1>6, <1>7, <1>8, <1>9, <1>10
  DEF Next, Consensus, Environment

\* When RocksDB can be read and written, a restart from the persisted height
\* never jumps over a height that was neither sequenced nor refused.
THEOREM SavedHeightIsCovered ==
  ASSUME ReadsSucceed, StoresSucceed
  PROVE  Spec => []SavedHeightCovered
<1>1. Init => CoverInv
  BY DEF Init, CoverInv, Covered
<1>2. SeqInv /\ CoverInv /\ [Next]_vars => CoverInv'
  BY CoverStep, ReadsSucceed, StoresSucceed
<1>3. CoverInv => SavedHeightCovered
  BY DEF CoverInv, Covered, SavedHeightCovered
<1> QED
  BY <1>1, <1>2, <1>3, SeqInvariant, PTL DEF Spec

-----------------------------------------------------------------------------
(* The database follows the chain.                                         *)

\* RocksDB holds one block under a number; it has every block of the chain but
\* the one that is about to be stored, which is still the draft.
DurableInv ==
  /\ \A a, b \in dbBlocks : a.number = b.number => a = b
  /\ \A k \in 1..Len(chain) :
       chain[k] \in dbBlocks \/ (k = Len(chain) /\ pc = "store")
  /\ pc = "store" => chain # <<>> /\ draft = chain[Len(chain)]

\* Storing the block of the chain's end replaces no other block of the chain.
LEMMA StoreKeepsChain ==
  ASSUME StoresSucceed, SeqInv, DurableInv, StoreBlock
  PROVE  DurableInv'
<1>1. /\ pc = "store" /\ pc' = "send" /\ UNCHANGED <<draft, chain>>
      /\ dbBlocks' = PutBlock(dbBlocks, draft)
  BY DEF StoreBlock, Outcomes, StoresSucceed, ledgerVars
<1>2. chain # <<>> /\ draft = chain[Len(chain)] /\ Len(chain) \in Nat
  BY <1>1 DEF DurableInv, SeqInv, TypeOK
<1>3. ASSUME NEW k \in 1..Len(chain) PROVE chain[k] \in dbBlocks'
  <2>1. CASE k = Len(chain)
    BY <1>1, <1>2, <2>1 DEF PutBlock
  <2>2. CASE k # Len(chain)
    <3>1. chain[k] \in dbBlocks
      BY <2>2 DEF DurableInv
    <3>2. chain[k].number = k /\ draft.number = Len(chain)
      BY <1>2 DEF SeqInv, LinkInv, ChainLinked
    <3> QED BY <1>1, <2>2, <3>1, <3>2 DEF PutBlock
  <2> QED BY <2>1, <2>2
<1>4. \A a, b \in dbBlocks' : a.number = b.number => a = b
  BY <1>1 DEF DurableInv, PutBlock
<1> QED BY <1>1, <1>3, <1>4 DEF DurableInv

LEMMA DurableStep ==
  ASSUME StoresSucceed, SeqInv, DurableInv, [Next]_vars
  PROVE  DurableInv'
<1>1. CASE StoreBlock
  BY <1>1, StoreKeepsChain
<1>2. CASE PushBlock
  <2>1. /\ pc = "push" /\ pc' = "store" /\ UNCHANGED <<draft, dbBlocks>>
        /\ chain' = Append(chain, draft)
    BY <1>2 DEF PushBlock, dbVars
  <2>2. /\ Len(chain') = Len(chain) + 1 /\ Len(chain) \in Nat
        /\ \A k \in 1..Len(chain) : chain'[k] = chain[k]
        /\ chain'[Len(chain')] = draft /\ chain' # <<>>
    BY <2>1 DEF SeqInv, TypeOK
  <2>3. ASSUME NEW k \in 1..Len(chain')
        PROVE  chain'[k] \in dbBlocks \/ k = Len(chain')
    BY <2>1, <2>2 DEF DurableInv
  <2> QED BY <2>1, <2>2, <2>3 DEF DurableInv
<1>3. CASE Crash
  BY <1>3 DEF Crash, DurableInv, dbVars
<1>4. CASE AssembleBlock
  BY <1>4 DEF AssembleBlock, DurableInv, dbVars, ledgerVars
<1>5. CASE /\ UNCHANGED <<chain, dbBlocks, draft>>
           /\ pc' = pc \/ (pc # "store" /\ pc' # "store")
  BY <1>5 DEF DurableInv
<1>6. CASE RemoveProcessed
  BY <1>6 DEF RemoveProcessed, DurableInv, dbVars, ledgerVars
<1>7. StoreBlock \/ PushBlock \/ Crash \/ AssembleBlock \/ RemoveProcessed
        \/ /\ UNCHANGED <<chain, dbBlocks, draft>>
           /\ pc' = pc \/ (pc # "store" /\ pc' # "store")
  BY DEF Next, Consensus, Rpc, Environment, vars, ledgerVars, dbVars,
     InitializeSystemValidator, LoadHeight, Resume, Calibrate, PollNewHead,
     EndRound, RefuseBlock, PublishHash, SendBlock, BftConsensus, SaveHeight,
     PollNothing, AddTransaction, ReadHeight, ReadHash, NewBitcoinBlock,
     DeployVez
<1> QED BY <1>1, <1>2, <1>3, <1>4, <1>5, <1>6, <1>7

\* When RocksDB can be written, get_block_by_number and the database agree on
\* every block of the chain but the one about to be stored, although a restart
\* numbers its blocks from 1 again over those of the process before.
THEOREM ChainIsDurable ==
  ASSUME StoresSucceed
  PROVE  Spec => []MemoryIsDurable
<1>1. Init => DurableInv
  BY DEF Init, DurableInv
<1>2. SeqInv /\ DurableInv /\ [Next]_vars => DurableInv'
  BY DurableStep, StoresSucceed
<1>3. DurableInv => MemoryIsDurable
  BY DEF DurableInv, MemoryIsDurable
<1> QED
  BY <1>1, <1>2, <1>3, SeqInvariant, PTL DEF Spec

-----------------------------------------------------------------------------
(* No accepted operation is lost.                                          *)

\* A pending operation is kept under its hash, and what the process accepted is
\* pending: remove_processed_transactions looks for other keys.
MempoolInv ==
  /\ \A e \in pending : e.key = HashKey(e.tx)
  /\ \A t \in submitted : \E e \in pending : e.tx = t

\* A new operation replaces the entry of its own hash only.
LEMMA InsertKeepsOthers ==
  ASSUME MempoolInv, NEW t \in Txs, AddTransaction(t)
  PROVE  MempoolInv'
<1> DEFINE new == [key |-> HashKey(t), tx |-> t]
<1>1. /\ pending' = {e \in pending : e.key # HashKey(t)} \cup {new}
      /\ submitted' = submitted \cup {t}
  BY DEF AddTransaction, Insert
<1>2. new.key = HashKey(new.tx) /\ new.tx = t /\ new \in pending'
  BY <1>1
<1>3. ASSUME NEW u \in submitted' PROVE \E e \in pending' : e.tx = u
  <2>1. CASE u = t
    BY <1>2, <2>1
  <2>2. CASE u # t
    <3>1. PICK e \in pending : e.tx = u
      BY <1>1, <2>2 DEF MempoolInv
    <3>2. e.key # HashKey(t)
      BY <2>2, <3>1 DEF MempoolInv, HashKey
    <3> QED BY <1>1, <3>1, <3>2
  <2> QED BY <2>1, <2>2
<1>4. \A e \in pending' : e.key = HashKey(e.tx)
  BY <1>1, <1>2 DEF MempoolInv
<1> QED BY <1>3, <1>4 DEF MempoolInv

\* The removal of a block's operations finds none of them.
LEMMA RemovalKeepsAll ==
  ASSUME MempoolInv, RemoveProcessed
  PROVE  pending' = pending
<1>1. \A e \in pending, t \in draft.txs : e.key # CompositeKey(t)
  BY DEF MempoolInv, HashKey, CompositeKey
<1> QED BY <1>1 DEF RemoveProcessed

LEMMA MempoolStep == MempoolInv /\ [Next]_vars => MempoolInv'
<1> SUFFICES ASSUME MempoolInv, [Next]_vars PROVE MempoolInv'
  OBVIOUS
<1>1. ASSUME NEW t \in Txs, AddTransaction(t) PROVE MempoolInv'
  BY <1>1, InsertKeepsOthers
<1>2. CASE RemoveProcessed
  BY <1>2, RemovalKeepsAll DEF RemoveProcessed, MempoolInv
<1>3. CASE Crash
  BY <1>3 DEF Crash, MempoolInv
<1>4. CASE UNCHANGED mpVars
  BY <1>4 DEF MempoolInv, mpVars
<1>5. (\E t \in Txs : AddTransaction(t)) \/ RemoveProcessed \/ Crash
        \/ UNCHANGED mpVars
  BY DEF Next, Consensus, Rpc, Environment, vars,
     InitializeSystemValidator, LoadHeight, Calibrate, PollNewHead,
     EndRound, RefuseBlock, AssembleBlock, PublishHash, PushBlock, StoreBlock,
     SendBlock, BftConsensus, SaveHeight, PollNothing, ReadHeight, ReadHash,
     NewBitcoinBlock, DeployVez
<1> QED BY <1>1, <1>2, <1>3, <1>4, <1>5

\* An operation that is accepted while a block is made, whether before or after
\* the snapshot of the mempool, stays pending until the process ends.
THEOREM AcceptedStays == Spec => []NoTxLost
<1>1. Init => MempoolInv
  BY DEF Init, MempoolInv
<1>2. MempoolInv => NoTxLost
  BY DEF MempoolInv, NoTxLost
<1> QED
  BY <1>1, <1>2, MempoolStep, PTL DEF Spec

-----------------------------------------------------------------------------
(* What get_latest_block_info answers.                                     *)

\* The draft is the block being made, then the last of the chain, and nothing
\* once its operations were removed.
DraftInv ==
  /\ pc \in {"store", "send", "remove"} =>
       chain # <<>> /\ draft = chain[Len(chain)]
  /\ ~Building /\ pc \notin {"store", "send", "remove"} => draft = NoBlock

Known == {chain[k] : k \in 1..Len(chain)} \cup {draft}

\* A reader between its two questions holds a height that was reached; one that
\* has its answer holds the hash of a block of that height or of a later one.
ReaderInv ==
  \A r \in Readers :
    /\ rd[r].pc = "height" => rd[r].height <= Len(chain)
    /\ rd[r].pc = "done" /\ rd[r].height > 0 =>
         \E b \in Known :
           b.number >= rd[r].height /\ BlockHash(b) = rd[r].hash

\* Blocks have numbers.
LEMMA KnownAreNumbered ==
  ASSUME TypeOK
  PROVE  \A b \in Known : b.number \in Nat
<1>1. draft \in Blocks /\ \A k \in 1..Len(chain) : chain[k] \in Blocks
  BY DEF TypeOK
<1> QED BY <1>1 DEF Blocks, Known

LEMMA DraftStep ==
  ASSUME SeqInv, DraftInv, [Next]_vars
  PROVE  DraftInv'
<1> USE DEF DraftInv, Building
<1>1. CASE PushBlock
  <2>1. chain' # <<>> /\ chain'[Len(chain')] = draft
    BY <1>1 DEF PushBlock, SeqInv, TypeOK
  <2> QED BY <1>1, <2>1 DEF PushBlock
<1>2. CASE AssembleBlock
  BY <1>2 DEF AssembleBlock
<1>3. CASE RemoveProcessed
  BY <1>3 DEF RemoveProcessed
<1>4. CASE Crash
  BY <1>4 DEF Crash
<1>5. CASE InitializeSystemValidator \/ LoadHeight \/ Calibrate \/ PollNewHead
             \/ EndRound \/ RefuseBlock
  BY <1>5 DEF InitializeSystemValidator, LoadHeight, Resume, Calibrate,
              PollNewHead, EndRound, RefuseBlock, ledgerVars
<1>6. CASE PublishHash \/ StoreBlock \/ SendBlock \/ BftConsensus \/ SaveHeight
  BY <1>6 DEF PublishHash, StoreBlock, SendBlock, BftConsensus, SaveHeight,
              ledgerVars
<1>7. CASE PollNothing \/ Rpc \/ NewBitcoinBlock \/ DeployVez \/ UNCHANGED vars
  BY <1>7 DEF PollNothing, Rpc, AddTransaction, ReadHeight, ReadHash,
              NewBitcoinBlock, DeployVez, vars, ledgerVars
<1> QED BY <1>1, <1>2, <1>3, <1>4, <1>5, <1>6, <1>7
        DEF Next, Consensus, Environment

\* Until the process dies the chain is not shortened, and a block that has a
\* number is not forgotten.
LEMMA KnownGrows ==
  ASSUME SeqInv, DraftInv, [Next]_vars, ~Crash
  PROVE  /\ Len(chain) <= Len(chain')
         /\ \A b \in Known : b.number > 0 => b \in Known'
<1> DEFINE InChain == {chain[k] : k \in 1..Len(chain)}
<1>1. CASE PushBlock
  <2>1. /\ Len(chain') = Len(chain) + 1 /\ Len(chain) \in Nat
        /\ \A k \in 1..Len(chain) : k \in 1..Len(chain') /\ chain'[k] = chain[k]
        /\ draft' = draft
    BY <1>1 DEF PushBlock, SeqInv, TypeOK
  <2>2. InChain \subseteq InChain'
    BY <2>1
  <2> QED BY <2>1, <2>2 DEF Known
<1>2. CASE AssembleBlock
  <2>1. draft = NoBlock /\ chain' = chain
    BY <1>2 DEF AssembleBlock, DraftInv, Building, ledgerVars
  <2>2. Len(chain) <= Len(chain')
    BY <2>1 DEF SeqInv, TypeOK
  <2>3. NoBlock.number = 0
    BY DEF NoBlock
  <2> QED BY <2>1, <2>2, <2>3 DEF Known
<1>3. CASE RemoveProcessed
  <2>1. /\ chain' = chain /\ chain # <<>> /\ draft = chain[Len(chain)]
        /\ Len(chain) \in Nat
    BY <1>3 DEF RemoveProcessed, DraftInv, ledgerVars, SeqInv, TypeOK
  <2>2. draft \in InChain
    BY <2>1 DEF SeqInv, TypeOK
  <2> QED BY <2>1, <2>2 DEF Known
<1>4. CASE UNCHANGED <<chain, draft>>
  <2>1. Known' = Known /\ Len(chain) <= Len(chain')
    BY <1>4 DEF Known, SeqInv, TypeOK
  <2> QED BY <2>1
<1>5. PushBlock \/ AssembleBlock \/ RemoveProcessed \/ UNCHANGED <<chain, draft>>
  BY DEF Next, Consensus, Rpc, Environment, vars, ledgerVars,
     InitializeSystemValidator, LoadHeight, Resume, Calibrate, PollNewHead,
     EndRound, RefuseBlock, PublishHash, StoreBlock, SendBlock, BftConsensus,
     SaveHeight, PollNothing, AddTransaction, ReadHeight, ReadHash,
     NewBitcoinBlock, DeployVez
<1> QED BY <1>1, <1>2, <1>3, <1>4, <1>5

\* last_block_hash is that of a block at least as high as the chain is long.
LEMMA LastHashIsRecent ==
  ASSUME SeqInv, Len(chain) > 0
  PROVE  \E b \in Known : b.number >= Len(chain) /\ BlockHash(b) = lastHash
<1>1. CASE pc = "push"
  <2>1. draft.number = Len(chain) + 1 /\ lastHash = BlockHash(draft)
    BY <1>1 DEF SeqInv, LinkInv, Building
  <2> QED BY <2>1 DEF Known, SeqInv, TypeOK
<1>2. CASE pc # "push"
  <2>1. chain # <<>> /\ Len(chain) \in 1..Len(chain)
    BY DEF SeqInv, TypeOK
  <2>2. lastHash = BlockHash(chain[Len(chain)]) /\ chain[Len(chain)].number = Len(chain)
    BY <1>2, <2>1 DEF SeqInv, LinkInv, TipHash, ChainLinked
  <2> QED BY <2>1, <2>2 DEF Known
<1> QED BY <1>1, <1>2

LEMMA ReaderStep ==
  ASSUME SeqInv, DraftInv, ReaderInv, [Next]_vars
  PROVE  ReaderInv'
<1>1. CASE Crash
  BY <1>1 DEF Crash, ReaderInv
<1>2. CASE UNCHANGED rd /\ ~Crash
  <2> SUFFICES ASSUME NEW r \in Readers
               PROVE  /\ rd[r].pc = "height" => rd[r].height <= Len(chain')
                      /\ rd[r].pc = "done" /\ rd[r].height > 0 =>
                           \E b \in Known' : /\ b.number >= rd[r].height
                                             /\ BlockHash(b) = rd[r].hash
    BY <1>2 DEF ReaderInv, BlockHash
  <2>1. rd[r].height \in Nat /\ Len(chain) \in Nat /\ Len(chain') \in Nat
    <3>1. TypeOK /\ TypeOK'
      BY TypeStep DEF SeqInv
    <3>2. chain \in Seq(Blocks) /\ chain' \in Seq(Blocks)
      BY <3>1 DEF TypeOK
    <3>3. rd \in [Readers -> [pc : {"idle", "height", "done"}, height : Nat,
                              hash : Hashes]]
      BY <3>1 DEF TypeOK
    <3> QED BY <3>2, <3>3
  <2>2. \A b \in Known : b.number \in Nat
    BY KnownAreNumbered DEF SeqInv
  <2> QED BY <1>2, <2>1, <2>2, KnownGrows DEF ReaderInv
<1>3. ASSUME NEW r \in Readers, ReadHeight(r) PROVE ReaderInv'
  <2>1. /\ Height(chain) = Len(chain) /\ UNCHANGED <<chain, draft>>
        /\ rd'[r].pc = "height" /\ rd'[r].height = Len(chain)
        /\ \A q \in Readers : q # r => rd'[q] = rd[q]
    BY <1>3, HeightIsLength
    DEF ReadHeight, ledgerVars, SeqInv, TypeOK, LinkInv
  <2>2. Len(chain) <= Len(chain) /\ Known' = Known
    BY <2>1 DEF Known, SeqInv, TypeOK
  <2> QED BY <2>1, <2>2 DEF ReaderInv, BlockHash
<1>4. ASSUME NEW r \in Readers, ReadHash(r) PROVE ReaderInv'
  <2>1. /\ UNCHANGED <<chain, draft>> /\ rd[r].pc = "height"
        /\ rd'[r].pc = "done" /\ rd'[r].height = rd[r].height
        /\ rd'[r].hash = lastHash
        /\ \A q \in Readers : q # r => rd'[q] = rd[q]
    BY <1>4 DEF ReadHash, ledgerVars, SeqInv, TypeOK
  <2>2. Known' = Known
    BY <2>1 DEF Known
  <2>3. ASSUME rd[r].height > 0
        PROVE  \E b \in Known : b.number >= rd[r].height /\ BlockHash(b) = lastHash
    <3>1. /\ rd[r].height <= Len(chain) /\ rd[r].height \in Nat
          /\ Len(chain) \in Nat
      BY <2>1 DEF ReaderInv, SeqInv, TypeOK
    <3>2. PICK b \in Known : b.number >= Len(chain) /\ BlockHash(b) = lastHash
      BY <2>3, <3>1, LastHashIsRecent
    <3>3. b.number \in Nat
      BY KnownAreNumbered DEF SeqInv
    <3> QED BY <3>1, <3>2, <3>3
  <2> QED BY <2>1, <2>2, <2>3 DEF ReaderInv, BlockHash
<1>5. (\E r \in Readers : ReadHeight(r) \/ ReadHash(r)) \/ Crash
        \/ (UNCHANGED rd /\ ~Crash)
  BY DEF Next, Consensus, Rpc, Environment, vars,
     InitializeSystemValidator, LoadHeight, Calibrate, PollNewHead,
     EndRound, RefuseBlock, AssembleBlock, PublishHash, PushBlock, StoreBlock,
     SendBlock, RemoveProcessed, BftConsensus, SaveHeight, PollNothing,
     AddTransaction, NewBitcoinBlock, DeployVez
<1> QED BY <1>1, <1>2, <1>3, <1>4, <1>5

LEMMA ReaderInvariant == Spec => [](DraftInv /\ ReaderInv)
<1>1. Init => DraftInv /\ ReaderInv
  BY DEF Init, DraftInv, ReaderInv, Building
<1>2. SeqInv /\ DraftInv /\ ReaderInv /\ [Next]_vars => DraftInv' /\ ReaderInv'
  BY DraftStep, ReaderStep
<1> QED BY <1>1, <1>2, SeqInvariant, PTL DEF Spec

\* get_latest_block_info reads the height and the hash under two locks: whatever
\* is appended between the two, its hash is that of the block of its height or
\* of a later one.
THEOREM LatestInfoIsCurrent == Spec => []LatestInfoNotBehind
<1>1. ReaderInv => LatestInfoNotBehind
  BY DEF ReaderInv, Known, LatestInfoNotBehind
<1> QED BY <1>1, ReaderInvariant, PTL

=============================================================================
