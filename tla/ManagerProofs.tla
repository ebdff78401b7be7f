---------------------------- MODULE ManagerProofs ----------------------------
(***************************************************************************)
(* Proofs about the consensus manager seen from its callers: what the RPC  *)
(* handlers answer while blocks are appended between two of their          *)
(* questions, for any operations, any number of calls in flight, any       *)
(* length of the chain and any number of restarts; and that no circle of   *)
(* tasks waits for the locks of the node, for any number of handlers.      *)
(***************************************************************************)
EXTENDS MCManager, SequencerProofs, WellFoundedInduction

USE ReadsAssumption

-----------------------------------------------------------------------------
(* The chain the handlers look into.                                       *)

ToldBlock == [number : Nat, txs : SUBSET Ops, stamp : Nat]
Receipt == [number : Nat, hash : Reads!Names]
LastHashes == [of : {"release", "published"}, stamp : Nat]

\* The block being made is the next one.
ToldInv ==
  /\ told \in Seq(ToldBlock) /\ Len(told) <= MaxBlocks
  /\ \A i \in 1..Len(told) : told[i].number = i /\ told[i].stamp < time
  /\ making # NoDraft => /\ making \in ToldBlock
                         /\ making.number = Len(told) + 1
                         /\ making.stamp < time /\ Len(told) < MaxBlocks
  /\ toldHash \in LastHashes /\ time \in Nat /\ restarts \in 0..MaxRestarts

\* The operations of a block stay in the mempool.
WaitingInv ==
  /\ waiting \subseteq Ops
  /\ \A i \in 1..Len(told) : told[i].txs \subseteq waiting
  /\ making # NoDraft => making.txs \subseteq waiting

\* A transaction is sent once: there is no receipt of it before the one made.
ReceiptsInv ==
  /\ receipts \in [Ops \cup Sent -> Receipt \cup {NoReceipt}]
  /\ sending \in [Sent -> Receipt \cup {NoReceipt}]
  /\ \A t \in Sent : sending[t] = NoReceipt \/ receipts[t] = NoReceipt
  /\ entering \subseteq Ops

StateInv == ToldInv /\ WaitingInv /\ ReceiptsInv

\* A set of numbers has a least one.
LEMMA LeastNumber ==
  ASSUME NEW S \in SUBSET Nat, S # {}
  PROVE  \E n \in S : \A m \in S : n <= m
<1>1. PICK n \in S : \A m \in S : ~(<<m, n>> \in OpToRel(<, Nat))
  BY NatLessThanWellFounded, WFMin
<1>2. \A m \in S : ~(m < n)
  BY <1>1 DEF OpToRel
<1> QED BY <1>2

\* get_block_height is the number of blocks.
LEMMA ToldHeight ==
  ASSUME ToldInv
  PROVE  Reads!Height = Len(told) /\ Len(told) \in Nat
<1>1. CASE told = <<>>
  BY <1>1 DEF Reads!Height
<1>2. CASE told # <<>>
  <2>1. Len(told) \in 1..Len(told)
    BY <1>2 DEF ToldInv
  <2> QED BY <1>2, <2>1 DEF ToldInv, Reads!Height
<1> QED BY <1>1, <1>2

\* get_block_by_number finds the one block of that number.
LEMMA ToldAt ==
  ASSUME ToldInv
  PROVE  /\ \A n \in 1..Len(told) : Reads!At(n) = {told[n]}
         /\ \A n : n \notin 1..Len(told) => Reads!At(n) = {}
<1>1. DOMAIN told = 1..Len(told)
  BY DEF ToldInv
<1>2. \A n : {j \in DOMAIN told : told[j].number = n}
               = IF n \in 1..Len(told) THEN {n} ELSE {}
  BY <1>1 DEF ToldInv
<1>3. ASSUME NEW n \in 1..Len(told) PROVE Reads!At(n) = {told[n]}
  BY <1>2 DEF Reads!At
<1>4. ASSUME NEW n, n \notin 1..Len(told) PROVE Reads!At(n) = {}
  BY <1>2, <1>4 DEF Reads!At
<1> QED BY <1>3, <1>4

\* The blocks are those of the chain.
LEMMA ToldBlocks ==
  ASSUME ToldInv
  PROVE  /\ \A b \in Reads!Blocks :
              /\ b \in ToldBlock /\ b.number \in 1..Len(told)
              /\ b = told[b.number]
         /\ \A i \in 1..Len(told) : told[i] \in Reads!Blocks
<1>1. DOMAIN told = 1..Len(told) /\ \A i \in 1..Len(told) : told[i] \in ToldBlock
  BY DEF ToldInv
<1> QED BY <1>1 DEF Reads!Blocks, ToldInv

LEMMA StateInit == Reads!Init => StateInv
<1> SUFFICES ASSUME Reads!Init PROVE StateInv
  OBVIOUS
<1>1. ToldInv /\ WaitingInv
  BY DEF Reads!Init, ToldInv, WaitingInv, LastHashes, Reads!Name
<1>2. ReceiptsInv
  BY DEF Reads!Init, ReceiptsInv
<1> QED BY <1>1, <1>2 DEF StateInv

\* A caller only reads.
LEMMA CallersRead ==
  ASSUME NEW c \in Asking, Reads!Ask(c) \/ Reads!Handler(c)
  PROVE  Reads!ReadsOnly
<1>1. CASE Reads!Ask(c)
  BY <1>1 DEF Reads!Ask, Reads!AskNumber, Reads!AskHash, Reads!AskStatus
<1>2. ASSUME Reads!FindNumber(c) \/ Reads!AnswerNumber(c) \/ Reads!FindHash(c)
               \/ Reads!ScanBlocks(c)
      PROVE  Reads!ReadsOnly
  BY <1>2 DEF Reads!FindNumber, Reads!AnswerNumber, Reads!FindHash, Reads!ScanBlocks
<1>3. ASSUME Reads!LookInReceipts(c) \/ Reads!LookInMempool(c) \/ Reads!LastBlock(c)
               \/ Reads!AnswerHash(c)
      PROVE  Reads!ReadsOnly
  BY <1>3 DEF Reads!LookInReceipts, Reads!LookInMempool, Reads!LastBlock, Reads!AnswerHash
<1>4. ASSUME Reads!LatestHeight(c) \/ Reads!MakeUp(c) \/ Reads!StatusOfReceipt(c)
               \/ Reads!StatusOfMempool(c)
      PROVE  Reads!ReadsOnly
  BY <1>4 DEF Reads!LatestHeight, Reads!MakeUp, Reads!StatusOfReceipt, Reads!StatusOfMempool
<1> QED BY <1>1, <1>2, <1>3, <1>4 DEF Reads!Handler

LEMMA ToldStep ==
  ASSUME StateInv, Reads!Next
  PROVE  ToldInv' /\ WaitingInv'
<1> USE DEF StateInv, ToldInv, WaitingInv, Reads!ledgerVars
<1>1. CASE Reads!StartBlock
  <2>1. Reads!Height = Len(told) /\ Len(told) \in Nat
    BY ToldHeight
  <2>2. /\ making' = [number |-> Len(told) + 1, txs |-> waiting, stamp |-> time]
        /\ time' = time + 1 /\ Len(told) < MaxBlocks
        /\ UNCHANGED <<told, toldHash, waiting, restarts>>
    BY <1>1, <2>1 DEF Reads!StartBlock
  <2>3. making' \in ToldBlock
    BY <2>1, <2>2 DEF ToldBlock
  <2>4. \A i \in 1..Len(told) : told[i].stamp \in Nat
    <3>1. \A i \in 1..Len(told) : told[i] \in ToldBlock
      OBVIOUS
    <3> QED BY <3>1 DEF ToldBlock
  <2>5. /\ making'.number = Len(told') + 1 /\ making'.stamp < time' /\ Len(told') < MaxBlocks
        /\ making'.txs = waiting' /\ time' \in Nat
    BY <2>1, <2>2
  <2>6. \A i \in 1..Len(told') : told'[i].number = i /\ told'[i].stamp < time'
    BY <2>2, <2>4
  <2>7. told' = told /\ toldHash' = toldHash /\ restarts' = restarts /\ waiting' = waiting
    BY <2>2
  <2>8. ToldInv'
    BY <2>3, <2>5, <2>6, <2>7
  <2>9. WaitingInv'
    BY <2>5, <2>7
  <2> QED BY <2>8, <2>9
<1>2. CASE Reads!PublishHash
  <2>1. making.stamp \in Nat
    BY <1>2 DEF Reads!PublishHash, ToldBlock
  <2> QED BY <1>2, <2>1 DEF Reads!PublishHash, Reads!Name, LastHashes
<1>3. CASE Reads!PushBlock
  <2>1. /\ told' = Append(told, making) /\ making' = NoDraft
        /\ making # NoDraft /\ waiting' = waiting
        /\ UNCHANGED <<toldHash, time, restarts>>
    BY <1>3 DEF Reads!PushBlock, Reads!Unprocessed
  <2>2. /\ told' \in Seq(ToldBlock) /\ Len(told') = Len(told) + 1
        /\ Len(told) \in Nat
        /\ \A i \in 1..Len(told) : told'[i] = told[i]
        /\ told'[Len(told) + 1] = making
    BY <2>1
  <2>3. \A i \in 1..Len(told') : i \in 1..Len(told) \/ i = Len(told) + 1
    BY <2>2
  <2> QED BY <2>1, <2>2, <2>3
<1>4. CASE Reads!RestartNode
  <2>1. toldHash' \in LastHashes
    BY <1>4 DEF Reads!RestartNode, Reads!Name, LastHashes
  <2> QED BY <1>4, <2>1 DEF Reads!RestartNode
<1>5. CASE \E o \in Ops : Reads!SendOp(o)
  BY <1>5 DEF Reads!SendOp
<1>6. CASE UNCHANGED <<told, toldHash, making, waiting, time, restarts>>
  BY <1>6
<1>7. (\E o \in Ops : Reads!SendOp(o)) \/ Reads!RestartNode \/ Reads!Consensus
        \/ UNCHANGED <<told, toldHash, making, waiting, time, restarts>>
  <2>1. ASSUME NEW o \in Ops, Reads!OpEntered(o)
        PROVE  UNCHANGED <<told, toldHash, making, waiting, time, restarts>>
    BY <2>1 DEF Reads!OpEntered
  <2>2. ASSUME NEW s \in Sent, Reads!SendTx(s) \/ Reads!TxHash(s) \/ Reads!TxEntered(s)
        PROVE  UNCHANGED <<told, toldHash, making, waiting, time, restarts>>
    BY <2>2 DEF Reads!SendTx, Reads!TxHash, Reads!TxEntered
  <2>3. ASSUME NEW c \in Asking, Reads!Ask(c) \/ Reads!Handler(c)
        PROVE  UNCHANGED <<told, toldHash, making, waiting, time, restarts>>
    BY <2>3, CallersRead DEF Reads!ReadsOnly
  <2> QED BY <2>1, <2>2, <2>3 DEF Reads!Next
<1> QED BY <1>1, <1>2, <1>3, <1>4, <1>5, <1>6, <1>7 DEF Reads!Consensus

LEMMA ReceiptsStep ==
  ASSUME StateInv, Reads!Next
  PROVE  ReceiptsInv'
<1> USE DEF StateInv, ReceiptsInv
<1> DEFINE Zero == [of |-> "zero", stamp |-> 0]
<1>1. Zero \in Reads!Names /\ toldHash \in Reads!Names
  BY DEF Reads!Names, ToldInv, LastHashes
<1>2. ASSUME NEW o \in Ops, Reads!SendOp(o) PROVE ReceiptsInv'
  BY <1>2 DEF Reads!SendOp
<1>3. ASSUME NEW o \in Ops, Reads!OpEntered(o) PROVE ReceiptsInv'
  <2>1. Reads!OpReceipt \in Receipt
    BY <1>1 DEF Reads!OpReceipt, Reads!Zero, Reads!Name, Receipt
  <2> QED BY <1>3, <2>1 DEF Reads!OpEntered
<1>4. ASSUME NEW t \in Sent, Reads!SendTx(t) PROVE ReceiptsInv'
  <2>1. [number |-> Reads!Height, hash |-> Reads!Zero] \in Receipt
    BY <1>1, ToldHeight DEF Reads!Zero, Reads!Name, Receipt
  <2> QED BY <1>4, <2>1 DEF Reads!SendTx
<1>5. ASSUME NEW t \in Sent, Reads!TxHash(t) PROVE ReceiptsInv'
  <2>1. sending[t] \in Receipt
    BY <1>5 DEF Reads!TxHash
  <2>2. [sending[t] EXCEPT !.hash = toldHash] \in Receipt
    BY <1>1, <2>1 DEF Receipt
  <2>3. sending' = [sending EXCEPT ![t] = [sending[t] EXCEPT !.hash = toldHash]]
    BY <1>5 DEF Reads!TxHash
  <2> QED BY <1>5, <2>2, <2>3 DEF Reads!TxHash
<1>6. ASSUME NEW t \in Sent, Reads!TxEntered(t) PROVE ReceiptsInv'
  BY <1>6 DEF Reads!TxEntered
<1>7. CASE Reads!RestartNode
  BY <1>7 DEF Reads!RestartNode
<1>8. CASE UNCHANGED <<receipts, sending, entering>>
  BY <1>8
<1> QED
  BY <1>2, <1>3, <1>4, <1>5, <1>6, <1>7, <1>8
  DEF Reads!Next, Reads!Consensus, Reads!StartBlock, Reads!PublishHash,
     Reads!PushBlock, Reads!Ask, Reads!Handler, Reads!ReadsOnly,
     Reads!AskNumber, Reads!AskHash, Reads!AskStatus, Reads!FindNumber,
     Reads!AnswerNumber, Reads!FindHash, Reads!ScanBlocks,
     Reads!LookInReceipts, Reads!LookInMempool, Reads!LastBlock,
     Reads!AnswerHash, Reads!LatestHeight, Reads!MakeUp,
     Reads!StatusOfReceipt, Reads!StatusOfMempool

-----------------------------------------------------------------------------
(* What the handlers hold between two questions.                           *)

\* an answer's parent and name, from the chain as it is now
ParentOf(of, n) == IF n = 1 THEN Reads!Zero ELSE Reads!Name(of, told[n - 1].stamp)

\* a hash that an answer told or a client made: never one that the search makes
Tellable == Ops \cup Sent \cup {n \in Reads!Names : n.of # "search"}

Searching == {"find", "scan", "receipts", "mempool", "last", "latest", "made"}
Search == [do : {"hash"}, at : Searching, arg : Tellable, known : BOOLEAN, height : Nat]
Asked == [do : {"status"}, at : {"receipts", "mempool"}, arg : Ops \cup Sent,
          known : {100, 200, 400}]

\* The block a handler found is one of the chain, and what it told of a block is
\* what the chain says.
BlocksInv(c) ==
  /\ DOMAIN calls = Asking
  /\ calls[c].at \in {"idle", "told", "parent"} \cup Searching
  /\ calls[c].at = "parent" /\ calls[c].do \in {"number", "hash"} =>
       calls[c].block \in Reads!Blocks
  /\ calls[c].at = "told" /\ calls[c].do \in {"number", "hash"}
       /\ calls[c].name # Reads!Genesis =>
       /\ calls[c].number \in 1..Len(told)
       /\ calls[c].name = Reads!Name(calls[c].name.of, told[calls[c].number].stamp)
       /\ calls[c].parent = ParentOf(calls[c].name.of, calls[c].number)

\* What a search finds: an operation in the mempool, once there is a block, or a
\* transaction placed at a block.
ToBeFound(h) ==
  \/ h \in waiting /\ Len(told) > 0
  \/ h \in Sent /\ receipts[h] # NoReceipt /\ receipts[h].number \in 1..Len(told)

\* The search for what could be found when it began can still find it, in what it
\* has not looked into.
SearchInv(c) ==
  /\ calls[c].do = "hash" /\ calls[c].at \in Searching =>
       /\ calls[c] \in Search
       /\ calls[c].known /\ calls[c].at \in {"find", "scan", "receipts"} =>
            ToBeFound(calls[c].arg)
       /\ calls[c].known /\ calls[c].at = "mempool" =>
            calls[c].arg \in waiting /\ Len(told) > 0
       /\ calls[c].known /\ calls[c].at = "last" => calls[c].height \in 1..Len(told)
       /\ calls[c].at \in {"latest", "made"} => ~calls[c].known
       /\ calls[c].at = "last" => calls[c].arg \in waiting
  /\ calls[c].do = "made" => ~calls[c].known
  /\ Reads!Doing(c, "hash", "parent") => calls[c].arg \in Ops \cup Sent

\* A status is looked for where it was.
StatusInv(c) ==
  /\ calls[c].do = "status" /\ calls[c].at \in {"receipts", "mempool"} =>
       /\ calls[c] \in Asked
       /\ calls[c].known = 200 =>
            receipts[calls[c].arg] # NoReceipt /\ calls[c].at = "receipts"
       /\ calls[c].known = 100 => calls[c].arg \in waiting
  /\ Reads!Doing(c, "status", "told") =>
       /\ calls[c].known = 200 => calls[c].code = 200
       /\ calls[c].known = 100 => calls[c].code # 400

CallInv(c) == BlocksInv(c) /\ SearchInv(c) /\ StatusInv(c)
ReadsInv == StateInv /\ \A c \in Asking : CallInv(c)

\* What a call has found is not taken away: the chain grows at its end, the mempool
\* keeps what it has, and a receipt that places a transaction stays.
NothingIsTaken ==
  /\ Len(told) <= Len(told')
  /\ \A i \in 1..Len(told) : told'[i] = told[i]
  /\ waiting \subseteq waiting'
  /\ \A h \in Ops \cup Sent : receipts[h] # NoReceipt => receipts'[h] # NoReceipt
  /\ \A t \in Sent : receipts[t] # NoReceipt => receipts'[t] = receipts[t]

\* What could be found when the search began is there to be found.
LEMMA FindableIs ==
  ASSUME StateInv, NEW h, Reads!Findable(h)
  PROVE  ToBeFound(h)
<1>1. Reads!Height = Len(told)
  BY ToldHeight DEF StateInv
<1>2. \A b \in Reads!Blocks : b.txs \subseteq waiting
  <2>1. \A b \in Reads!Blocks : b.number \in 1..Len(told) /\ b = told[b.number]
    BY ToldBlocks DEF StateInv
  <2> QED BY <2>1 DEF StateInv, WaitingInv
<1> QED BY <1>1, <1>2 DEF Reads!Findable, ToBeFound

\* The other tasks disturb no call.
LEMMA CallStays ==
  ASSUME StateInv, StateInv', NothingIsTaken, NEW c \in Asking, calls'[c] = calls[c],
         DOMAIN calls' = DOMAIN calls, CallInv(c)
  PROVE  CallInv(c)'
<1>1. Len(told) \in Nat /\ Len(told') \in Nat
  BY DEF StateInv, ToldInv
<1>2. BlocksInv(c)'
  <2>1. \A b \in Reads!Blocks : b \in Reads!Blocks'
    <3>1. DOMAIN told = 1..Len(told) /\ DOMAIN told' = 1..Len(told')
      BY DEF StateInv, ToldInv
    <3> QED BY <1>1, <3>1 DEF Reads!Blocks, NothingIsTaken
  <2>2. \A n \in 1..Len(told) : \A of : ParentOf(of, n)' = ParentOf(of, n)
                                     /\ told'[n] = told[n]
    BY <1>1 DEF ParentOf, NothingIsTaken, Reads!Name, Reads!Zero
  <2>3. 1..Len(told) \subseteq 1..Len(told')
    BY <1>1 DEF NothingIsTaken
  <2> QED
    BY <2>1, <2>2, <2>3
    DEF CallInv, BlocksInv, Reads!Name, Reads!Genesis, Reads!Zero
<1>3. SearchInv(c)'
  <2>1. \A h : ToBeFound(h) =>
          \/ h \in waiting' /\ Len(told') > 0
          \/ /\ h \in Sent /\ receipts'[h] # NoReceipt
             /\ receipts'[h].number \in 1..Len(told')
    BY <1>1 DEF ToBeFound, NothingIsTaken
  <2>2. ToBeFound(calls[c].arg) => ToBeFound(calls[c].arg)'
    BY <2>1 DEF ToBeFound
  <2>3. calls[c].height \in 1..Len(told) => calls[c].height \in 1..Len(told')
    BY <1>1 DEF NothingIsTaken
  <2>4. waiting \subseteq waiting' /\ (Len(told) > 0 => Len(told') > 0)
    BY <1>1 DEF NothingIsTaken
  <2> HIDE DEF ToBeFound
  <2> QED
    BY <2>2, <2>3, <2>4
    DEF CallInv, SearchInv, Reads!Doing, Search, Tellable, Reads!Names
<1>4. StatusInv(c)'
  BY DEF CallInv, StatusInv, NothingIsTaken, Reads!Doing, Asked
<1> QED BY <1>2, <1>3, <1>4 DEF CallInv

\* Until the process dies nothing is taken away.
LEMMA NothingTaken ==
  ASSUME StateInv, Reads!Next, ~Reads!RestartNode
  PROVE  NothingIsTaken
<1> USE DEF NothingIsTaken, StateInv, Reads!ledgerVars
<1>0. Len(told) \in Nat
  BY DEF ToldInv
<1>1. CASE Reads!Consensus
  <2>1. CASE Reads!PushBlock
    <3>1. /\ told' = Append(told, making) /\ making # NoDraft
          /\ waiting' = waiting /\ receipts' = receipts
      BY <2>1 DEF Reads!PushBlock, Reads!Unprocessed
    <3>2. Len(told') = Len(told) + 1 /\ \A i \in 1..Len(told) : told'[i] = told[i]
      BY <3>1 DEF ToldInv
    <3> QED BY <1>0, <3>1, <3>2
  <2>2. CASE Reads!StartBlock \/ Reads!PublishHash
    BY <1>0, <2>2 DEF Reads!StartBlock, Reads!PublishHash
  <2> QED BY <1>1, <2>1, <2>2 DEF Reads!Consensus
<1>2. ASSUME NEW o \in Ops, Reads!SendOp(o) \/ Reads!OpEntered(o)
      PROVE  NothingIsTaken
  BY <1>0, <1>2 DEF Reads!SendOp, Reads!OpEntered, Reads!OpReceipt, Reads!Zero,
                    Reads!Name, ReceiptsInv
<1>3. ASSUME NEW t \in Sent,
             Reads!SendTx(t) \/ Reads!TxHash(t) \/ Reads!TxEntered(t)
      PROVE  NothingIsTaken
  BY <1>0, <1>3 DEF Reads!SendTx, Reads!TxHash, Reads!TxEntered, ReceiptsInv
<1>4. CASE UNCHANGED <<told, waiting, receipts>>
  BY <1>0, <1>4
<1> QED
  BY <1>1, <1>2, <1>3, <1>4
  DEF Reads!Next, Reads!Ask, Reads!Handler, Reads!ReadsOnly,
     Reads!AskNumber, Reads!AskHash, Reads!AskStatus, Reads!FindNumber,
     Reads!AnswerNumber, Reads!FindHash, Reads!ScanBlocks,
     Reads!LookInReceipts, Reads!LookInMempool, Reads!LastBlock,
     Reads!AnswerHash, Reads!LatestHeight, Reads!MakeUp,
     Reads!StatusOfReceipt, Reads!StatusOfMempool

\* What a handler does leaves everything but its own call as it is.
ReadsOthers(c) ==
  /\ \A d \in Asking : d # c => calls'[d] = calls[d]
  /\ DOMAIN calls' = Asking
  /\ UNCHANGED <<told, waiting, receipts>>

\* A question is asked.
LEMMA AskStep ==
  ASSUME ReadsInv, NEW c \in Asking, Reads!Ask(c)
  PROVE  ReadsOthers(c) /\ CallInv(c)'
<1> USE DEF ReadsInv, CallInv, BlocksInv, Reads!Step, Reads!ReadsOnly,
            Reads!ledgerVars, ReadsOthers, Reads!Doing, Searching
<1>1. CASE Reads!AskNumber(c)
  BY <1>1 DEF Reads!AskNumber, SearchInv, StatusInv
<1>2. CASE Reads!AskHash(c)
  <2>1. PICK h \in Reads!Hashes :
          calls' = [calls EXCEPT ![c] =
                     [do |-> "hash", at |-> "find", arg |-> h,
                      known |-> Reads!Findable(h), height |-> 0]]
    BY <1>2 DEF Reads!AskHash
  <2>2. h \in Tellable
    <3>1. \A b \in Reads!Blocks : b.stamp \in Nat
      BY ToldBlocks DEF StateInv, ToldBlock
    <3>2. toldHash \in [of : {"release", "published"}, stamp : Nat]
      BY DEF StateInv, ToldInv, LastHashes
    <3> QED BY <3>1, <3>2 DEF Reads!Hashes, Tellable, Reads!Names, Reads!Zero,
                              Reads!Genesis, Reads!Name
  <2>3. Reads!Findable(h) \in BOOLEAN /\ (Reads!Findable(h) => ToBeFound(h))
    BY FindableIs DEF Reads!Findable
  <2>4. calls'[c] \in Search /\ calls'[c].at = "find" /\ calls'[c].do = "hash"
        /\ (calls'[c].known => ToBeFound(calls'[c].arg))
    BY <2>1, <2>2, <2>3 DEF Search
  <2>5. SearchInv(c)'
    BY <1>2, <2>4
    DEF Reads!AskHash, SearchInv, ToBeFound, Search, Tellable, Reads!Names
  <2> QED BY <1>2, <2>1, <2>4, <2>5 DEF Reads!AskHash, StatusInv
<1>3. CASE Reads!AskStatus(c)
  BY <1>3 DEF Reads!AskStatus, SearchInv, StatusInv, Asked
<1> QED BY <1>1, <1>2, <1>3 DEF Reads!Ask

\* The parent told of a block is the block before it.
LEMMA ParentTold ==
  ASSUME ToldInv, NEW of, NEW n \in 1..Len(told)
  PROVE  Reads!Parent(of, n - 1) = ParentOf(of, n)
<1>1. Len(told) \in Nat
  BY DEF ToldInv
<1>2. CASE n = 1
  <2>1. Reads!At(n - 1) = {}
    BY <1>1, <1>2, ToldAt
  <2> QED BY <1>2, <2>1 DEF Reads!Parent, ParentOf
<1>3. CASE n # 1
  <2>1. n - 1 \in 1..Len(told)
    BY <1>1, <1>3
  <2>2. Reads!At(n - 1) = {told[n - 1]}
    BY <2>1, ToldAt
  <2> QED BY <1>3, <2>2 DEF Reads!Parent, ParentOf
<1> QED BY <1>2, <1>3

\* A block of the chain is told, with the name of its parent.
LEMMA TellsBlock ==
  ASSUME ReadsInv, NEW c \in Asking, NEW i \in 1..Len(told), NEW of, Reads!ReadsOnly,
         calls[c].do \in {"number", "hash"},
         Reads!Told(c, Reads!Name(of, told[i].stamp), i, ParentOf(of, i))
  PROVE  ReadsOthers(c) /\ CallInv(c)'
<1>1. /\ told' = told /\ waiting' = waiting /\ receipts' = receipts
      /\ DOMAIN calls = Asking
  BY DEF Reads!ReadsOnly, Reads!ledgerVars, ReadsInv, CallInv, BlocksInv
<1> DEFINE r == [do |-> calls[c].do, at |-> "told", name |-> Reads!Name(of, told[i].stamp),
                 number |-> i, parent |-> ParentOf(of, i)]
<1>2. calls' = [calls EXCEPT ![c] = r]
  BY DEF Reads!Told, Reads!Step
<1>3. /\ r.do \in {"number", "hash"} /\ r.at = "told" /\ r.number = i
      /\ r.name = Reads!Name(of, told[i].stamp) /\ r.parent = ParentOf(of, i)
  OBVIOUS
<1> HIDE DEF r
<1>4. /\ calls'[c] = r /\ DOMAIN calls' = Asking
      /\ \A d \in Asking : d # c => calls'[d] = calls[d]
  BY <1>1, <1>2
<1>5. ReadsOthers(c)
  BY <1>1, <1>4 DEF ReadsOthers
<1>6. BlocksInv(c)'
  <2>1. r.name = Reads!Name(r.name.of, told[i].stamp) /\ r.parent = ParentOf(r.name.of, i)
    BY <1>3 DEF Reads!Name
  <2> QED BY <1>1, <1>3, <1>4, <2>1 DEF BlocksInv, Searching, ParentOf, Reads!Name
<1>7. SearchInv(c)' /\ StatusInv(c)'
  BY <1>3, <1>4 DEF SearchInv, StatusInv, Searching, Reads!Doing
<1> QED BY <1>5, <1>6, <1>7 DEF CallInv

\* eth_getBlockByNumber: what it tells is what the chain says of the block.
LEMMA NumberStep ==
  ASSUME ReadsInv, NEW c \in Asking, Reads!FindNumber(c) \/ Reads!AnswerNumber(c)
  PROVE  ReadsOthers(c) /\ CallInv(c)'
<1> USE DEF ReadsInv, CallInv, BlocksInv, Reads!Step, Reads!ReadsOnly,
            Reads!ledgerVars, ReadsOthers, Reads!Doing, Searching
<1>1. CASE Reads!FindNumber(c)
  <2>1. CASE Reads!At(calls[c].arg) = {}
    <3>1. calls'[c] = Reads!Idle
      BY <1>1, <2>1 DEF Reads!FindNumber
    <3> QED BY <1>1, <2>1, <3>1 DEF Reads!FindNumber, Reads!Idle, SearchInv, StatusInv
  <2>2. CASE Reads!At(calls[c].arg) # {}
    <3> DEFINE b == CHOOSE x \in Reads!At(calls[c].arg) : TRUE
    <3>1. b \in Reads!At(calls[c].arg)
      BY <2>2
    <3>2. b \in Reads!Blocks
      BY <3>1 DEF Reads!At, Reads!Blocks
    <3>3. calls' = [calls EXCEPT ![c] =
                     [do |-> "number", at |-> "parent", arg |-> calls[c].arg, block |-> b]]
      BY <1>1, <2>2 DEF Reads!FindNumber
    <3> HIDE DEF b
    <3> QED BY <1>1, <3>2, <3>3 DEF Reads!FindNumber, SearchInv, StatusInv, Reads!Blocks
  <2> QED BY <2>1, <2>2
<1>2. CASE Reads!AnswerNumber(c)
  <2> DEFINE b == calls[c].block
  <2>1. b \in Reads!Blocks /\ b.number \in 1..Len(told) /\ b = told[b.number]
    BY <1>2, ToldBlocks DEF Reads!AnswerNumber, StateInv
  <2> HIDE DEF ReadsInv, CallInv, BlocksInv, Reads!Step, Reads!ReadsOnly,
               Reads!ledgerVars, ReadsOthers, Searching
  <2>2. Reads!Parent("all", b.number - 1) = ParentOf("all", b.number)
    BY <2>1, ParentTold DEF StateInv, ReadsInv
  <2>3. /\ Reads!ReadsOnly /\ calls[c].do = "number"
        /\ Reads!Told(c, Reads!Name("all", b.stamp), b.number,
                      Reads!Parent("all", b.number - 1))
    BY <1>2 DEF Reads!AnswerNumber
  <2>4. Reads!Told(c, Reads!Name("all", told[b.number].stamp), b.number,
                   ParentOf("all", b.number))
    BY <2>1, <2>2, <2>3
  <2> QED BY <2>1, <2>3, <2>4, TellsBlock
<1> QED BY <1>1, <1>2

\* A block that is found is one of the chain: the search has its answer.
LEMMA FoundStep ==
  ASSUME ReadsInv, NEW c \in Asking, NEW b \in Reads!Blocks, Reads!Found(c, b),
         Reads!ReadsOnly, calls[c].arg \in Ops \cup Sent
  PROVE  ReadsOthers(c) /\ CallInv(c)'
BY DEF ReadsInv, CallInv, BlocksInv, SearchInv, StatusInv, Reads!Step, Reads!ReadsOnly,
       Reads!ledgerVars, ReadsOthers, Reads!Doing, Searching, Reads!Found, Reads!Blocks

\* The search goes on to the next place, if what it can still find is there.
LEMMA GoOnStep ==
  ASSUME ReadsInv, NEW c \in Asking, NEW at \in Searching, NEW height \in Nat,
         calls[c].do = "hash", calls[c].at \in Searching,
         calls' = [calls EXCEPT ![c] = [calls[c] EXCEPT !.at = at, !.height = height]],
         Reads!ReadsOnly,
         calls[c].known =>
           /\ at \in {"find", "scan", "receipts"} => ToBeFound(calls[c].arg)
           /\ at = "mempool" => calls[c].arg \in waiting /\ Len(told) > 0
           /\ at = "last" => height \in 1..Len(told)
           /\ at \notin {"latest", "made"},
         at = "last" => calls[c].arg \in waiting
  PROVE  ReadsOthers(c) /\ CallInv(c)'
<1>1. calls[c] \in Search /\ DOMAIN calls = Asking
  BY DEF ReadsInv, CallInv, SearchInv, BlocksInv
<1>2. /\ calls'[c] \in Search /\ calls'[c].at = at /\ calls'[c].height = height
      /\ calls'[c].arg = calls[c].arg /\ calls'[c].known = calls[c].known
      /\ calls'[c].do = "hash"
  BY <1>1 DEF Search
<1>3. ReadsOthers(c)
  BY <1>1 DEF ReadsOthers, Reads!ReadsOnly, Reads!ledgerVars
<1>4. BlocksInv(c)' /\ StatusInv(c)'
  BY <1>2, <1>3 DEF BlocksInv, StatusInv, ReadsOthers, Reads!Doing, Searching
<1>5. ToBeFound(calls[c].arg) => ToBeFound(calls[c].arg)'
  BY <1>2, <1>3 DEF ToBeFound, ReadsOthers
<1>6. SearchInv(c)'
  BY <1>2, <1>3, <1>5
  DEF SearchInv, ReadsOthers, Reads!Doing, Search, Tellable, Reads!Names, Searching
<1> QED BY <1>3, <1>4, <1>6 DEF CallInv

\* A search that only changes place.
LEMMA GoToIsGoOn ==
  ASSUME ReadsInv, NEW c \in Asking, NEW at \in Searching,
         calls[c].do = "hash", calls[c].at \in Searching, Reads!GoTo(c, at)
  PROVE  /\ calls' = [calls EXCEPT ![c] = [calls[c] EXCEPT !.at = at,
                                                          !.height = calls[c].height]]
         /\ calls[c].height \in Nat
<1>1. calls[c] \in Search
  BY DEF ReadsInv, CallInv, SearchInv
<1>2. [calls[c] EXCEPT !.at = at, !.height = calls[c].height]
        = [calls[c] EXCEPT !.at = at]
  BY <1>1 DEF Search
<1> QED BY <1>1, <1>2 DEF Reads!GoTo, Search

\* eth_getBlockByHash: the places a hash is looked for, one after the other.
LEMMA SearchStep ==
  ASSUME ReadsInv, NEW c \in Asking,
         \/ Reads!FindHash(c) \/ Reads!ScanBlocks(c) \/ Reads!LookInReceipts(c)
         \/ Reads!LookInMempool(c) \/ Reads!LastBlock(c) \/ Reads!LatestHeight(c)
  PROVE  ReadsOthers(c) /\ CallInv(c)'
<1> DEFINE r == calls[c]
<1>1. r.do = "hash" /\ r.at \in Searching /\ r \in Search /\ Reads!ReadsOnly
  BY DEF Reads!FindHash, Reads!ScanBlocks, Reads!LookInReceipts,
         Reads!LookInMempool, Reads!LastBlock, Reads!LatestHeight, Reads!Doing,
         Searching, ReadsInv, CallInv, SearchInv
<1>2. Reads!Height = Len(told) /\ Len(told) \in Nat
  BY ToldHeight DEF ReadsInv, StateInv
<1>3. r.known =>
        /\ r.at \in {"find", "scan", "receipts"} => ToBeFound(r.arg)
        /\ r.at = "mempool" => r.arg \in waiting /\ Len(told) > 0
        /\ r.at = "last" => r.height \in 1..Len(told)
        /\ r.at \notin {"latest", "made"}
  BY <1>1 DEF ReadsInv, CallInv, SearchInv
<1>4. CASE Reads!FindHash(c)
  <2> DEFINE hits == {b \in Reads!Blocks : Reads!SearchName(b) = r.arg}
  <2>1. CASE hits = {}
    <3>1. calls' = [calls EXCEPT ![c] = [r EXCEPT !.at = "scan", !.height = Len(told)]]
      BY <1>2, <1>4, <2>1 DEF Reads!FindHash
    <3>2. r.at = "find"
      BY <1>4 DEF Reads!FindHash, Reads!Doing
    <3> QED BY <1>1, <1>2, <1>3, <3>1, <3>2, GoOnStep DEF Searching
  <2>2. CASE hits # {}
    <3> DEFINE b == CHOOSE x \in hits : TRUE
    <3>1. b \in Reads!Blocks /\ Reads!SearchName(b) = r.arg
      BY <2>2
    <3>2. Reads!Found(c, b)
      BY <1>4, <2>2 DEF Reads!FindHash
    <3>3. r.arg \in Ops \cup Sent
      BY <1>1, <3>1 DEF Search, Tellable, Reads!SearchName, Reads!Name
    <3> HIDE DEF b
    <3> QED BY <1>1, <3>1, <3>2, <3>3, FoundStep
  <2> QED BY <2>1, <2>2
<1>5. CASE Reads!ScanBlocks(c)
  <2> DEFINE hits == {b \in Reads!Blocks : b.number <= r.height /\ r.arg \in b.txs}
  <2>0. r.at = "scan"
    BY <1>5 DEF Reads!ScanBlocks, Reads!Doing
  <2>1. CASE hits = {}
    <3>1. Reads!GoTo(c, "receipts")
      BY <1>5, <2>1 DEF Reads!ScanBlocks
    <3> QED BY <1>1, <1>3, <2>0, <3>1, GoToIsGoOn, GoOnStep DEF Searching
  <2>2. CASE hits # {}
    <3> DEFINE b == CHOOSE x \in hits : \A d \in hits : x.number <= d.number
    <3>1. b \in hits
      <4>1. \A d \in hits : d.number \in Nat
        BY ToldBlocks DEF ReadsInv, StateInv, ToldBlock
      <4>2. \E x \in hits : \A d \in hits : x.number <= d.number
        <5> DEFINE numbers == {d.number : d \in hits}
        <5>1. numbers \in SUBSET Nat /\ numbers # {}
          BY <2>2, <4>1
        <5>2. \E n \in numbers : \A m \in numbers : n <= m
          BY <5>1, LeastNumber
        <5> QED BY <5>2
      <4> QED BY <4>2
    <3>2. Reads!Found(c, b)
      BY <1>5, <2>2 DEF Reads!ScanBlocks
    <3>3. r.arg \in Ops \cup Sent
      BY <3>1, ToldBlocks DEF ReadsInv, StateInv, ToldBlock
    <3>4. b \in Reads!Blocks
      BY <3>1
    <3> HIDE DEF b
    <3> QED BY <1>1, <3>2, <3>3, <3>4, FoundStep
  <2> QED BY <2>1, <2>2
<1>6. CASE Reads!LookInReceipts(c)
  <2> DEFINE hits == Reads!ReceiptBlock(r.arg)
  <2>0. r.at = "receipts"
    BY <1>6 DEF Reads!LookInReceipts, Reads!Doing
  <2>1. CASE hits = {}
    <3>1. Reads!GoTo(c, "mempool")
      BY <1>6, <2>1 DEF Reads!LookInReceipts
    <3>2. r.known => r.arg \in waiting /\ Len(told) > 0
      <4>1. ASSUME r.arg \in Sent, receipts[r.arg] # NoReceipt,
                   receipts[r.arg].number \in 1..Len(told)
            PROVE  FALSE
        <5>1. Reads!At(receipts[r.arg].number) # {}
          BY <4>1, ToldAt DEF ReadsInv, StateInv
        <5> QED BY <2>1, <4>1, <5>1 DEF Reads!ReceiptBlock
      <4> QED BY <1>3, <2>0, <4>1 DEF ToBeFound
    <3> QED BY <1>1, <3>1, <3>2, GoToIsGoOn, GoOnStep DEF Searching
  <2>2. CASE hits # {}
    <3> DEFINE b == CHOOSE x \in hits : TRUE
    <3>1. b \in Reads!Blocks /\ r.arg \in Sent
      BY <2>2 DEF Reads!ReceiptBlock, Reads!At, Reads!Blocks
    <3>2. Reads!Found(c, b)
      BY <1>6, <2>2 DEF Reads!LookInReceipts
    <3> HIDE DEF b
    <3> QED BY <1>1, <3>1, <3>2, FoundStep
  <2> QED BY <2>1, <2>2
<1>7. CASE Reads!LookInMempool(c)
  <2>0. r.at = "mempool"
    BY <1>7 DEF Reads!LookInMempool, Reads!Doing
  <2>1. CASE r.arg \in waiting
    <3>1. calls' = [calls EXCEPT ![c] = [r EXCEPT !.at = "last", !.height = Len(told)]]
      BY <1>2, <1>7, <2>1 DEF Reads!LookInMempool
    <3>2. r.known => Len(told) \in 1..Len(told)
      BY <1>2, <1>3, <2>0
    <3> QED BY <1>1, <1>2, <2>1, <3>1, <3>2, GoOnStep DEF Searching
  <2>2. CASE r.arg \notin waiting
    <3>1. Reads!GoTo(c, "latest") /\ ~r.known
      BY <1>3, <1>7, <2>0, <2>2 DEF Reads!LookInMempool
    <3> QED BY <1>1, <3>1, GoToIsGoOn, GoOnStep DEF Searching
  <2> QED BY <2>1, <2>2
<1>8. CASE Reads!LastBlock(c)
  <2>0. r.at = "last"
    BY <1>8 DEF Reads!LastBlock, Reads!Doing
  <2>1. CASE Reads!At(r.height) = {}
    <3>1. Reads!GoTo(c, "latest")
      BY <1>8, <2>1 DEF Reads!LastBlock
    <3>2. ~r.known
      <4>1. \A n \in 1..Len(told) : Reads!At(n) = {told[n]}
        BY ToldAt DEF ReadsInv, StateInv
      <4> QED BY <1>3, <2>0, <2>1, <4>1
    <3> QED BY <1>1, <3>1, <3>2, GoToIsGoOn, GoOnStep DEF Searching
  <2>2. CASE Reads!At(r.height) # {}
    <3> DEFINE b == CHOOSE x \in Reads!At(r.height) : TRUE
    <3>1. b \in Reads!Blocks
      BY <2>2 DEF Reads!At, Reads!Blocks
    <3>2. Reads!Found(c, b)
      BY <1>8, <2>2 DEF Reads!LastBlock
    <3>3. r.arg \in Ops \cup Sent
      BY <1>1, <2>0 DEF ReadsInv, CallInv, SearchInv, StateInv, WaitingInv
    <3> HIDE DEF b
    <3> QED BY <1>1, <3>1, <3>2, <3>3, FoundStep
  <2> QED BY <2>1, <2>2
<1>9. CASE Reads!LatestHeight(c)
  <2>1. calls' = [calls EXCEPT ![c] = [r EXCEPT !.at = "made", !.height = Len(told)]]
        /\ r.at = "latest"
    BY <1>2, <1>9 DEF Reads!LatestHeight, Reads!Doing
  <2> QED BY <1>1, <1>2, <1>3, <2>1, GoOnStep DEF Searching
<1> QED BY <1>4, <1>5, <1>6, <1>7, <1>8, <1>9

\* The end of a search: the block found is told, or one is made up.
LEMMA AnswerStep ==
  ASSUME ReadsInv, NEW c \in Asking, Reads!AnswerHash(c) \/ Reads!MakeUp(c)
  PROVE  ReadsOthers(c) /\ CallInv(c)'
<1> USE DEF ReadsInv, CallInv, BlocksInv, Reads!Step, Reads!ReadsOnly,
            Reads!ledgerVars, ReadsOthers, Reads!Doing, Searching
<1>1. CASE Reads!AnswerHash(c)
  <2> DEFINE b == calls[c].block
  <2>1. b \in Reads!Blocks /\ b.number \in 1..Len(told) /\ b = told[b.number]
    BY <1>1, ToldBlocks DEF Reads!AnswerHash, StateInv
  <2> HIDE DEF ReadsInv, CallInv, BlocksInv, Reads!Step, Reads!ReadsOnly,
               Reads!ledgerVars, ReadsOthers, Searching
  <2>2. Reads!Parent("answer", b.number - 1) = ParentOf("answer", b.number)
    BY <2>1, ParentTold DEF StateInv, ReadsInv
  <2>3. /\ Reads!ReadsOnly /\ calls[c].do = "hash"
        /\ Reads!Told(c, Reads!Name("answer", b.stamp), b.number,
                      Reads!Parent("answer", b.number - 1))
    BY <1>1 DEF Reads!AnswerHash
  <2>4. Reads!Told(c, Reads!Name("answer", told[b.number].stamp), b.number,
                   ParentOf("answer", b.number))
    BY <2>1, <2>2, <2>3
  <2> QED BY <2>1, <2>3, <2>4, TellsBlock
<1>2. CASE Reads!MakeUp(c)
  BY <1>2 DEF Reads!MakeUp, SearchInv, StatusInv
<1> QED BY <1>1, <1>2

\* wallet_getCallsStatus: the receipts first, and the mempool if there is none.
LEMMA StatusStep ==
  ASSUME ReadsInv, NEW c \in Asking, Reads!StatusOfReceipt(c) \/ Reads!StatusOfMempool(c)
  PROVE  ReadsOthers(c) /\ CallInv(c)'
<1> USE DEF ReadsInv, CallInv, BlocksInv, Reads!Step, Reads!ReadsOnly,
            Reads!ledgerVars, ReadsOthers, Reads!Doing, Searching
<1>1. calls[c] \in Asked
  BY DEF StatusInv, Reads!StatusOfReceipt, Reads!StatusOfMempool
<1>2. CASE Reads!StatusOfReceipt(c) /\ receipts[calls[c].arg] # NoReceipt
  BY <1>1, <1>2 DEF Reads!StatusOfReceipt, Reads!Status, SearchInv, StatusInv, Asked
<1>3. CASE Reads!StatusOfReceipt(c) /\ receipts[calls[c].arg] = NoReceipt
  <2>1. calls' = [calls EXCEPT ![c] = [calls[c] EXCEPT !.at = "mempool"]]
    BY <1>3 DEF Reads!StatusOfReceipt, Reads!GoTo
  <2>2. calls'[c] = [do |-> "status", at |-> "mempool", arg |-> calls[c].arg,
                     known |-> calls[c].known]
    BY <1>1, <1>3, <2>1 DEF Reads!StatusOfReceipt, Asked
  <2>3. calls[c].known # 200 /\ (calls[c].known = 100 => calls[c].arg \in waiting)
    BY <1>1, <1>3 DEF Reads!StatusOfReceipt, StatusInv
  <2>4. ReadsOthers(c)
    BY <1>3, <2>1 DEF Reads!StatusOfReceipt
  <2>5. StatusInv(c)'
    BY <1>1, <2>2, <2>3, <2>4 DEF StatusInv, Asked
  <2> QED BY <2>2, <2>4, <2>5 DEF SearchInv
<1>4. CASE Reads!StatusOfMempool(c)
  BY <1>1, <1>4 DEF Reads!StatusOfMempool, Reads!Status, SearchInv, StatusInv, Asked
<1> QED BY <1>2, <1>3, <1>4

\* What one handler does disturbs no other call.
LEMMA OneCallStep ==
  ASSUME ReadsInv, StateInv', NEW c \in Asking, ReadsOthers(c), CallInv(c)'
  PROVE  ReadsInv'
<1>1. NothingIsTaken
  BY DEF NothingIsTaken, ReadsOthers, ReadsInv, StateInv, ToldInv
<1>2. ASSUME NEW d \in Asking, d # c PROVE CallInv(d)'
  <2>1. calls'[d] = calls[d] /\ DOMAIN calls' = DOMAIN calls /\ CallInv(d)
    BY <1>2 DEF ReadsOthers, ReadsInv, CallInv, BlocksInv
  <2> QED BY <1>1, <2>1, CallStays DEF ReadsInv
<1> QED BY <1>2 DEF ReadsInv

LEMMA ReadsInvStep ==
  ASSUME ReadsInv, [Reads!Next]_(Reads!readsVars)
  PROVE  ReadsInv'
<1>0. CASE UNCHANGED Reads!readsVars
  <2>1. NothingIsTaken /\ UNCHANGED calls
    BY <1>0 DEF NothingIsTaken, Reads!readsVars, Reads!ledgerVars, ReadsInv,
                StateInv, ToldInv
  <2>2. StateInv'
    BY <1>0 DEF ReadsInv, StateInv, ToldInv, WaitingInv, ReceiptsInv,
                Reads!readsVars, Reads!ledgerVars
  <2>3. ASSUME NEW c \in Asking PROVE CallInv(c)'
    <3>1. calls'[c] = calls[c] /\ DOMAIN calls' = DOMAIN calls /\ CallInv(c)
      BY <2>1 DEF ReadsInv
    <3> QED BY <2>1, <2>2, <3>1, CallStays DEF ReadsInv
  <2> QED BY <2>2, <2>3 DEF ReadsInv
<1> SUFFICES ASSUME Reads!Next PROVE ReadsInv'
  BY <1>0
<1>1. StateInv'
  BY ToldStep, ReceiptsStep DEF ReadsInv, StateInv
<1>2. ASSUME NEW c \in Asking, Reads!Ask(c) \/ Reads!Handler(c) PROVE ReadsInv'
  <2>1. ReadsOthers(c) /\ CallInv(c)'
    BY <1>2, AskStep, NumberStep, SearchStep, AnswerStep, StatusStep DEF Reads!Handler
  <2> QED BY <1>1, <2>1, OneCallStep
<1>3. CASE Reads!RestartNode
  <2>1. DOMAIN calls' = Asking /\ \A c \in Asking : calls'[c] = Reads!Idle
    BY <1>3 DEF Reads!RestartNode
  <2>2. ASSUME NEW c \in Asking PROVE CallInv(c)'
    BY <2>1 DEF CallInv, BlocksInv, SearchInv, StatusInv, Reads!Idle, Reads!Doing,
                Searching
  <2> QED BY <1>1, <2>2 DEF ReadsInv
<1>4. CASE UNCHANGED calls /\ ~Reads!RestartNode
  <2>1. NothingIsTaken
    BY <1>4, NothingTaken DEF ReadsInv
  <2>2. ASSUME NEW c \in Asking PROVE CallInv(c)'
    <3>1. calls'[c] = calls[c] /\ DOMAIN calls' = DOMAIN calls /\ CallInv(c)
      BY <1>4 DEF ReadsInv
    <3> QED BY <1>1, <2>1, <3>1, CallStays DEF ReadsInv
  <2> QED BY <1>1, <2>2 DEF ReadsInv
<1> QED
  BY <1>2, <1>3, <1>4
  DEF Reads!Next, Reads!Consensus, Reads!StartBlock, Reads!PublishHash,
      Reads!PushBlock, Reads!SendOp, Reads!OpEntered, Reads!SendTx, Reads!TxHash,
      Reads!TxEntered

LEMMA ReadsInvInit == Reads!Init => ReadsInv
<1> SUFFICES ASSUME Reads!Init PROVE ReadsInv
  OBVIOUS
<1>1. ASSUME NEW c \in Asking PROVE CallInv(c)
  BY DEF Reads!Init, CallInv, BlocksInv, SearchInv, StatusInv, Reads!Idle, Reads!Doing,
         Searching
<1> QED BY <1>1, StateInit DEF ReadsInv

\* What the invariant says of the answers.
LEMMA AnswersFollow ==
  ASSUME ReadsInv
  PROVE  /\ Reads!AnswersLinked /\ Reads!FoundByTransaction
         /\ Reads!KnownFound /\ Reads!StatusNotBehind
<1>1. Reads!AnswersLinked
  <2> SUFFICES ASSUME NEW c \in Asking,
                      calls[c].do \in {"number", "hash"}, calls[c].at = "told",
                      calls[c].name # Reads!Genesis
               PROVE  /\ Reads!At(calls[c].number) # {}
                      /\ \A b \in Reads!At(calls[c].number) :
                           calls[c].name = Reads!Name(calls[c].name.of, b.stamp)
                      /\ calls[c].parent =
                           IF calls[c].number = 1 THEN Reads!Zero
                           ELSE Reads!Name(calls[c].name.of,
                                  (CHOOSE b \in Reads!At(calls[c].number - 1) : TRUE).stamp)
    BY DEF Reads!AnswersLinked
  <2> DEFINE n == calls[c].number
             of == calls[c].name.of
  <2>1. /\ n \in 1..Len(told) /\ calls[c].name = Reads!Name(of, told[n].stamp)
        /\ calls[c].parent = ParentOf(of, n)
    BY DEF ReadsInv, CallInv, BlocksInv
  <2>2. Reads!At(n) = {told[n]}
    BY <2>1, ToldAt DEF ReadsInv, StateInv
  <2>3. n # 1 => Reads!At(n - 1) = {told[n - 1]}
    <3>1. n # 1 => n - 1 \in 1..Len(told)
      BY <2>1 DEF ReadsInv, StateInv, ToldInv
    <3> QED BY <3>1, ToldAt DEF ReadsInv, StateInv
  <2> QED BY <2>1, <2>2, <2>3 DEF ParentOf
<1>2. Reads!FoundByTransaction /\ Reads!KnownFound /\ Reads!StatusNotBehind
  BY DEF ReadsInv, CallInv, SearchInv, StatusInv, Reads!FoundByTransaction,
         Reads!KnownFound, Reads!StatusNotBehind
<1> QED BY <1>1, <1>2

\* The handlers keep to their types.
LEMMA ReadsTyped ==
  ASSUME ReadsInv
  PROVE  Reads!TypeOK
<1>1. \A b \in Reads!Blocks : b.number \in 1..MaxBlocks /\ b.txs \subseteq Ops /\ b.stamp < time
  <2> SUFFICES ASSUME NEW b \in Reads!Blocks
               PROVE  b.number \in 1..MaxBlocks /\ b.txs \subseteq Ops /\ b.stamp < time
    OBVIOUS
  <2>1. b \in ToldBlock /\ b.number \in 1..Len(told) /\ b = told[b.number]
    BY ToldBlocks DEF ReadsInv, StateInv
  <2>2. told[b.number].stamp < time /\ Len(told) \in Nat /\ Len(told) <= MaxBlocks
    BY <2>1 DEF ReadsInv, StateInv, ToldInv
  <2>3. b.number \in 1..MaxBlocks
    BY <2>1, <2>2
  <2> QED BY <2>1, <2>2, <2>3 DEF ToldBlock
<1>2. making = NoDraft \/ making.stamp < time
  BY DEF ReadsInv, StateInv, ToldInv
<1>3. toldHash \in Reads!Names /\ waiting \subseteq Ops
  BY DEF ReadsInv, StateInv, ToldInv, WaitingInv, LastHashes, Reads!Names
<1>4. ASSUME NEW h \in Ops \cup Sent
      PROVE  receipts[h] = NoReceipt \/ receipts[h].hash \in Reads!Names
  BY DEF ReadsInv, StateInv, ReceiptsInv, Receipt
<1>5. ASSUME NEW c \in Asking
      PROVE  calls[c].at \in {"idle", "told", "find", "parent", "scan", "receipts", "mempool",
                              "last", "latest", "made"}
  BY DEF ReadsInv, CallInv, BlocksInv, Searching
<1>6. /\ entering \subseteq Ops /\ \A t \in Sent : sending[t] = NoReceipt \/ receipts[t] = NoReceipt
      /\ time \in Nat /\ restarts \in 0..MaxRestarts
  BY DEF ReadsInv, StateInv, ToldInv, ReceiptsInv
<1> QED BY <1>1, <1>2, <1>3, <1>4, <1>5, <1>6 DEF Reads!TypeOK

-----------------------------------------------------------------------------
(* The guards a function takes and keeps.                                  *)

LockNames == {"receipts", "vm", "validators", "chain", "pending", "last_hash", "delegations",
              "leader", "accounts", "balances", "history", "room", "item"}
Modes == {"read", "write", "send", "receive"}
Guards == [lock : LockNames, mode : Modes]
Awaits == [lock : LockNames, mode : Modes, drop : SUBSET LockNames, out : BOOLEAN,
           opt : BOOLEAN, timed : BOOLEAN]
Guard(a) == [lock |-> a.lock, mode |-> a.mode]
Rd(l) == [lock |-> l, mode |-> "read"]
Wr(l) == [lock |-> l, mode |-> "write"]

\* The guard of the j-th await of f is kept until the k-th.
KeptUntil(f, j, k) == \A m \in j..k - 1 : f[j].lock \notin f[m].drop

\* What f keeps when it awaits more is as Nested says; it takes the guards Used, and keeps
\* the guards Left at its end.
Fits(f, Left, Used, Nested) ==
  /\ f \in Seq(Awaits) /\ Len(f) > 0
  /\ \A k \in 1..Len(f) : Guard(f[k]) \in Used
  /\ \A j \in 1..Len(f) : KeptUntil(f, j, Len(f) + 1) => Guard(f[j]) \in Left
  /\ \A k \in 1..Len(f), j \in 1..Len(f) :
       j < k /\ KeptUntil(f, j, k) => <<Guard(f[j]), Guard(f[k])>> \in Nested

LEMMA FitsMore ==
  ASSUME NEW f, NEW L, NEW U, NEW N, Fits(f, L, U, N),
         NEW L2, NEW U2, NEW N2, L \subseteq L2, U \subseteq U2, N \subseteq N2
  PROVE  Fits(f, L2, U2, N2)
BY DEF Fits

LEMMA OneFits ==
  ASSUME NEW l \in LockNames, NEW m \in Modes, NEW N
  PROVE  LET g == [lock |-> l, mode |-> m] IN Fits(<<Await(l, m)>>, {g}, {g}, N)
<1> DEFINE f == <<Await(l, m)>>
<1>1. Await(l, m) \in Awaits /\ Guard(Await(l, m)) = [lock |-> l, mode |-> m]
  BY DEF Await, Awaits, Guard
<1>2. f \in Seq(Awaits) /\ Len(f) = 1 /\ f[1] = Await(l, m)
  BY <1>1
<1> HIDE DEF f
<1>3. \A k \in 1..Len(f) : k = 1
  BY <1>2
<1>4. \A k \in 1..Len(f), j \in 1..Len(f) : ~(j < k)
  BY <1>2
<1>5. Fits(f, {[lock |-> l, mode |-> m]}, {[lock |-> l, mode |-> m]}, N)
  BY <1>1, <1>2, <1>3, <1>4 DEF Fits
<1> QED BY <1>5 DEF f

LEMMA JoinFits ==
  ASSUME NEW f, NEW L1, NEW U1, NEW N, Fits(f, L1, U1, N),
         NEW g, NEW L2, NEW U2, Fits(g, L2, U2, N), L1 \X U2 \subseteq N
  PROVE  Fits(f \o g, L1 \cup L2, U1 \cup U2, N)
<1> DEFINE h == f \o g
           n == Len(f)
<1>1. f \in Seq(Awaits) /\ g \in Seq(Awaits) /\ n \in Nat /\ Len(g) \in Nat /\ n > 0 /\ Len(g) > 0
  BY DEF Fits
<1>2. /\ h \in Seq(Awaits) /\ Len(h) = n + Len(g)
      /\ \A i \in 1..n : h[i] = f[i]
      /\ \A i \in 1..Len(g) : h[n + i] = g[i]
  BY <1>1
<1>3. \A i \in 1..Len(h) : i \in 1..n \/ \E k \in 1..Len(g) : i = n + k
  <2> SUFFICES ASSUME NEW i \in 1..Len(h), i \notin 1..n PROVE \E k \in 1..Len(g) : i = n + k
    OBVIOUS
  <2>1. i - n \in 1..Len(g) /\ i = n + (i - n)
    BY <1>1, <1>2
  <2> QED BY <2>1
<1> HIDE DEF h, n
<1>4. \A j \in 1..n : \A k \in 1..n + 1 : KeptUntil(h, j, k) => KeptUntil(f, j, k)
  <2> SUFFICES ASSUME NEW j \in 1..n, NEW k \in 1..n + 1, KeptUntil(h, j, k),
                      NEW m \in j..k - 1
               PROVE  f[j].lock \notin f[m].drop
    BY DEF KeptUntil
  <2>1. m \in 1..n
    BY <1>1
  <2> QED BY <1>2, <2>1 DEF KeptUntil
<1>5. \A j \in 1..Len(g), k \in 1..Len(g) + 1 : KeptUntil(h, n + j, n + k) => KeptUntil(g, j, k)
  <2> SUFFICES ASSUME NEW j \in 1..Len(g), NEW k \in 1..Len(g) + 1, KeptUntil(h, n + j, n + k),
                      NEW m \in j..k - 1
               PROVE  g[j].lock \notin g[m].drop
    BY DEF KeptUntil
  <2>1. m \in 1..Len(g) /\ n + m \in n + j..(n + k) - 1
    BY <1>1
  <2>2. h[n + j].lock \notin h[n + m].drop
    BY <2>1, Zenon DEF KeptUntil
  <2>3. h[n + j] = g[j] /\ h[n + m] = g[m]
    BY <1>2, <2>1
  <2> QED BY <2>2, <2>3, Zenon
<1>6. \A j \in 1..n, k \in 1..Len(g) + 1 : KeptUntil(h, j, n + k) => KeptUntil(f, j, n + 1)
  <2> SUFFICES ASSUME NEW j \in 1..n, NEW k \in 1..Len(g) + 1, KeptUntil(h, j, n + k)
               PROVE  KeptUntil(h, j, n + 1)
    BY <1>1, <1>4
  <2>1. \A m \in j..(n + 1) - 1 : m \in j..(n + k) - 1
    BY <1>1
  <2> QED BY <2>1 DEF KeptUntil
<1>7. \A k \in 1..Len(h) : Guard(h[k]) \in U1 \cup U2
  BY <1>2, <1>3 DEF Fits, n
<1>8. ASSUME NEW j \in 1..Len(h), KeptUntil(h, j, Len(h) + 1) PROVE Guard(h[j]) \in L1 \cup L2
  <2>0. Len(h) + 1 = n + (Len(g) + 1) /\ Len(g) + 1 \in 1..Len(g) + 1
    BY <1>1, <1>2
  <2>1. CASE j \in 1..n
    BY <1>2, <1>6, <1>8, <2>0, <2>1 DEF Fits, n
  <2>2. ASSUME NEW k \in 1..Len(g), j = n + k PROVE Guard(h[j]) \in L2
    BY <1>2, <1>5, <1>8, <2>0, <2>2 DEF Fits
  <2> QED BY <1>3, <2>1, <2>2
<1>9. ASSUME NEW k \in 1..Len(h), NEW j \in 1..Len(h), j < k, KeptUntil(h, j, k)
      PROVE  <<Guard(h[j]), Guard(h[k])>> \in N
  <2>1. CASE k \in 1..n
    <3>1. j \in 1..n /\ k \in 1..n + 1
      BY <1>1, <1>9, <2>1
    <3>2. KeptUntil(f, j, k)
      BY <1>4, <1>9, <3>1
    <3> QED BY <1>2, <1>9, <2>1, <3>1, <3>2 DEF Fits, n
  <2>2. ASSUME NEW y \in 1..Len(g), k = n + y, j \in 1..n PROVE <<Guard(h[j]), Guard(h[k])>> \in N
    <3>1. KeptUntil(f, j, n + 1)
      <4>1. y \in 1..Len(g) + 1
        BY <1>1
      <4> QED BY <1>6, <1>9, <2>2, <4>1
    <3>2. Guard(f[j]) \in L1 /\ Guard(g[y]) \in U2
      BY <2>2, <3>1 DEF Fits, n
    <3>3. h[j] = f[j] /\ h[k] = g[y]
      BY <1>2, <2>2
    <3> QED BY <3>2, <3>3
  <2>3. ASSUME NEW y \in 1..Len(g), k = n + y, NEW x \in 1..Len(g), j = n + x
        PROVE  <<Guard(h[j]), Guard(h[k])>> \in N
    <3>1. x < y /\ y \in 1..Len(g) + 1
      BY <1>1, <1>9, <2>3
    <3>2. KeptUntil(g, x, y)
      BY <1>5, <1>9, <2>3, <3>1
    <3>3. h[j] = g[x] /\ h[k] = g[y]
      BY <1>2, <2>3
    <3> QED BY <3>1, <3>2, <3>3 DEF Fits
  <2> QED BY <1>3, <2>1, <2>2, <2>3
<1>10. Fits(h, L1 \cup L2, U1 \cup U2, N)
  BY <1>1, <1>2, <1>7, <1>8, <1>9 DEF Fits
<1> QED BY <1>10 DEF h

\* Functions that keep nothing at their ends, one after the other.
LEMMA JoinClosed ==
  ASSUME NEW U, NEW N, NEW f, Fits(f, {}, U, N), NEW g, Fits(g, {}, U, N)
  PROVE  Fits(f \o g, {}, U, N)
<1>1. {} \X U \subseteq N
  OBVIOUS
<1>2. Fits(f \o g, {} \cup {}, U \cup U, N)
  BY <1>1, JoinFits
<1>3. {} \cup {} = {} /\ U \cup U = U
  OBVIOUS
<1> QED BY <1>2, <1>3, Zenon

LEMMA BlockFits ==
  ASSUME NEW f, NEW L, NEW U, NEW N, Fits(f, L, U, N)
  PROVE  Fits(Block(f), {}, U, N)
<1> DEFINE b == Block(f)
           n == Len(f)
<1>1. f \in Seq(Awaits) /\ n \in Nat /\ n > 0
  BY DEF Fits
<1>d. DOMAIN f = 1..n
  BY <1>1
<1>2. f[n] \in Awaits /\ Locks(f) \subseteq LockNames
  <2>1. \A i \in 1..n : f[i] \in Awaits
    BY <1>1
  <2>2. \A i \in 1..n : f[i].lock \in LockNames
    BY <2>1 DEF Awaits
  <2> QED BY <1>1, <1>d, <2>1, <2>2 DEF Locks
<1>3. /\ b \in Seq(Awaits) /\ Len(b) = n
      /\ \A i \in 1..n : /\ b[i].lock = f[i].lock /\ b[i].mode = f[i].mode
                         /\ i # n => b[i] = f[i]
      /\ \A i \in 1..n : b[i].lock \in b[n].drop
  <2>1. [f[n] EXCEPT !.drop = @ \cup Locks(f)] \in Awaits
    BY <1>2 DEF Awaits
  <2>2. b = [f EXCEPT ![n] = [f[n] EXCEPT !.drop = @ \cup Locks(f)]]
    BY DEF Block
  <2>3. b \in Seq(Awaits) /\ Len(b) = n
    BY <1>1, <2>1, <2>2
  <2>4. n \in DOMAIN f
    BY <1>1, <1>d
  <2>5. b[n] = [f[n] EXCEPT !.drop = @ \cup Locks(f)] /\ \A i \in 1..n : i # n => b[i] = f[i]
    BY <1>d, <2>2, <2>4, Zenon
  <2>6. b[n].lock = f[n].lock /\ b[n].mode = f[n].mode /\ b[n].drop = f[n].drop \cup Locks(f)
    BY <1>2, <2>5 DEF Awaits
  <2>7. \A i \in 1..n : f[i].lock \in Locks(f)
    BY <1>1 DEF Locks
  <2> QED BY <2>3, <2>5, <2>6, <2>7
<1> HIDE DEF b, n
<1>4. \A i \in 1..n : Guard(b[i]) = Guard(f[i])
  BY <1>3 DEF Guard
<1>5. \A j \in 1..n : ~KeptUntil(b, j, n + 1)
  <2> SUFFICES ASSUME NEW j \in 1..n, KeptUntil(b, j, n + 1) PROVE FALSE
    OBVIOUS
  <2>1. n \in j..(n + 1) - 1
    BY <1>1
  <2>2. b[j].lock \notin b[n].drop
    BY <2>1, Zenon DEF KeptUntil
  <2> QED BY <1>3, <2>2
<1>6. ASSUME NEW k \in 1..n, NEW j \in 1..n, j < k, KeptUntil(b, j, k)
      PROVE  KeptUntil(f, j, k)
  <2> SUFFICES ASSUME NEW m \in j..k - 1 PROVE f[j].lock \notin f[m].drop
    BY DEF KeptUntil
  <2>1. m \in 1..n /\ m # n
    BY <1>1, <1>6
  <2>2. b[j].lock \notin b[m].drop
    BY <1>6, Zenon DEF KeptUntil
  <2>3. b[j].lock = f[j].lock /\ b[m] = f[m]
    BY <1>3, <2>1
  <2> QED BY <2>2, <2>3, Zenon
<1>7. \A k \in 1..n : Guard(f[k]) \in U
  BY DEF Fits, n
<1>8. \A k \in 1..n, j \in 1..n : j < k /\ KeptUntil(f, j, k) => <<Guard(f[j]), Guard(f[k])>> \in N
  BY DEF Fits, n
<1>9. Fits(b, {}, U, N)
  BY <1>1, <1>3, <1>4, <1>5, <1>6, <1>7, <1>8 DEF Fits
<1> QED BY <1>9 DEF b

\* Where it may leave, what it may skip and what lasts no longer than a timeout has no
\* bearing on the guards.
LEMMA SameFits ==
  ASSUME NEW f, NEW L, NEW U, NEW N, Fits(f, L, U, N), NEW b \in Seq(Awaits), Len(b) = Len(f),
         \A i \in 1..Len(f) :
           b[i].lock = f[i].lock /\ b[i].mode = f[i].mode /\ b[i].drop = f[i].drop
  PROVE  Fits(b, L, U, N)
<1>1. \A i \in 1..Len(f) : Guard(b[i]) = Guard(f[i])
  BY DEF Guard
<1>2. Len(f) \in Nat /\ Len(f) > 0
  BY DEF Fits
<1>3. ASSUME NEW j \in 1..Len(f), NEW k \in 1..Len(f) + 1, KeptUntil(b, j, k)
      PROVE  KeptUntil(f, j, k)
  <2> SUFFICES ASSUME NEW m \in j..k - 1 PROVE f[j].lock \notin f[m].drop
    BY DEF KeptUntil
  <2>1. m \in 1..Len(f)
    BY <1>2
  <2>2. b[j].lock \notin b[m].drop
    BY <1>3, Zenon DEF KeptUntil
  <2> QED BY <2>1, <2>2, Zenon
<1>4. \A k \in 1..Len(f) : k \in 1..Len(f) + 1
  BY <1>2
<1>5. Len(f) + 1 \in 1..Len(f) + 1
  BY <1>2
<1> QED BY <1>1, <1>2, <1>3, <1>4, <1>5 DEF Fits

LEMMA MayLeaveFits ==
  ASSUME NEW f, NEW L, NEW U, NEW N, Fits(f, L, U, N)
  PROVE  Fits(MayLeave(f), L, U, N)
<1> DEFINE b == MayLeave(f)
           n == Len(f)
<1>1. f \in Seq(Awaits) /\ n \in Nat /\ n > 0
  BY DEF Fits
<1>2. f[n] \in Awaits
  BY <1>1
<1>3. [f[n] EXCEPT !.out = TRUE] \in Awaits
  BY <1>2 DEF Awaits
<1>4. b = [f EXCEPT ![n] = [f[n] EXCEPT !.out = TRUE]]
  BY DEF MayLeave
<1>5. b \in Seq(Awaits) /\ Len(b) = n
  BY <1>1, <1>3, <1>4
<1>6. \A i \in 1..n : b[i].lock = f[i].lock /\ b[i].mode = f[i].mode /\ b[i].drop = f[i].drop
  <2>0. n \in DOMAIN f /\ DOMAIN f = 1..n
    BY <1>1
  <2>1. b[n] = [f[n] EXCEPT !.out = TRUE] /\ \A i \in 1..n : i # n => b[i] = f[i]
    BY <1>4, <2>0, Zenon
  <2>2. b[n].lock = f[n].lock /\ b[n].mode = f[n].mode /\ b[n].drop = f[n].drop
    BY <1>2, <2>1 DEF Awaits
  <2> QED BY <2>1, <2>2
<1> HIDE DEF b
<1>7. Fits(b, L, U, N)
  BY <1>5, <1>6, SameFits
<1> QED BY <1>7 DEF b

LEMMA MaySkipFits ==
  ASSUME NEW f, NEW L, NEW U, NEW N, Fits(f, L, U, N)
  PROVE  Fits(MaySkip(f), L, U, N) /\ Fits(Timed(f), L, U, N)
<1>1. f \in Seq(Awaits) /\ Len(f) \in Nat /\ DOMAIN f = 1..Len(f)
  BY DEF Fits
<1>2. \A i \in 1..Len(f) : f[i] \in Awaits
  BY <1>1
<1>3. Fits(MaySkip(f), L, U, N)
  <2> DEFINE b == MaySkip(f)
  <2>1. \A i \in 1..Len(f) :
          /\ b[i] \in Awaits
          /\ b[i].lock = f[i].lock /\ b[i].mode = f[i].mode /\ b[i].drop = f[i].drop
    BY <1>1, <1>2 DEF MaySkip, Awaits
  <2>2. b \in Seq(Awaits) /\ Len(b) = Len(f)
    BY <1>1, <2>1 DEF MaySkip
  <2> HIDE DEF b
  <2>3. Fits(b, L, U, N)
    BY <2>1, <2>2, SameFits
  <2> QED BY <2>3 DEF b
<1>4. Fits(Timed(f), L, U, N)
  <2> DEFINE b == Timed(f)
  <2>1. \A i \in 1..Len(f) :
          /\ b[i] \in Awaits
          /\ b[i].lock = f[i].lock /\ b[i].mode = f[i].mode /\ b[i].drop = f[i].drop
    BY <1>1, <1>2 DEF Timed, Awaits
  <2>2. b \in Seq(Awaits) /\ Len(b) = Len(f)
    BY <1>1, <2>1 DEF Timed
  <2> HIDE DEF b
  <2>3. Fits(b, L, U, N)
    BY <2>1, <2>2, SameFits
  <2> QED BY <2>3 DEF b
<1> QED BY <1>3, <1>4

-----------------------------------------------------------------------------
(* The order of the guards.                                                *)

Rank(l) ==
  CASE l = "item" -> 0 [] l = "receipts" -> 1 [] l = "vm" -> 2 [] l = "validators" -> 3
    [] l = "chain" -> 4 [] l = "pending" -> 5 [] l = "last_hash" -> 6
    [] l = "delegations" -> 7 [] l = "leader" -> 8 [] l = "accounts" -> 9
    [] l = "balances" -> 10 [] l = "history" -> 11 [] l = "room" -> 12

\* Who keeps a guard awaits one of a higher rank, or what it hinders itself, but for
\* get_lurosonie_stats, that reads the validators with the chain; and nobody keeps
\* anything when it asks to write the chain.
Nested ==
  {p \in Guards \X Guards :
     /\ p[2] # Wr("chain")
     /\ \/ Rank(p[1].lock) < Rank(p[2].lock)
        \/ p[1].lock = p[2].lock /\ Clash(p[1].mode, p[2].mode)
        \/ p[1] = Rd("chain") /\ p[2] = Rd("validators")}

\* The consensus task reads the validators with the delegations, and is the only one that
\* writes the chain and the validators.
ConsensusNested == Nested \cup {<<Rd("delegations"), Rd("validators")>>}
Quiet == Guards \ {Wr("chain"), Wr("validators")}

LEMMA RankIs ==
  /\ Rank("item") = 0 /\ Rank("receipts") = 1 /\ Rank("vm") = 2 /\ Rank("validators") = 3
  /\ Rank("chain") = 4 /\ Rank("pending") = 5 /\ Rank("last_hash") = 6
  /\ Rank("delegations") = 7 /\ Rank("leader") = 8 /\ Rank("accounts") = 9
  /\ Rank("balances") = 10 /\ Rank("history") = 11 /\ Rank("room") = 12
BY DEF Rank

LEMMA RankRange == \A l \in LockNames : Rank(l) \in 0..12
BY RankIs DEF LockNames

LEMMA Higher ==
  ASSUME NEW k \in LockNames, NEW l \in LockNames, Rank(k) < Rank(l), NEW m \in Modes, NEW n \in Modes,
         l # "chain" \/ n # "write"
  PROVE  /\ <<[lock |-> k, mode |-> m], [lock |-> l, mode |-> n]>> \in Nested
         /\ <<[lock |-> k, mode |-> m], [lock |-> l, mode |-> n]>> \in ConsensusNested
<1> DEFINE g == [lock |-> k, mode |-> m]
           h == [lock |-> l, mode |-> n]
<1>1. g \in Guards /\ h \in Guards /\ g.lock = k /\ h.lock = l /\ h.mode = n
  BY DEF Guards
<1>2. h # Wr("chain")
  BY <1>1 DEF Wr
<1> HIDE DEF g, h
<1>3. <<g, h>> \in Nested
  BY <1>1, <1>2 DEF Nested
<1> QED BY <1>3 DEF g, h, ConsensusNested

\* One guard.
LEMMA SingleFits ==
  ASSUME NEW l \in LockNames, NEW m \in Modes, NEW U, [lock |-> l, mode |-> m] \in U, NEW N
  PROVE  Fits(Block(<<Await(l, m)>>), {}, U, N)
<1> DEFINE a == [lock |-> l, mode |-> m]
<1>1. Fits(<<Await(l, m)>>, {a}, {a}, N)
  BY OneFits
<1>2. {a} \subseteq U
  OBVIOUS
<1> HIDE DEF a
<1>3. Fits(<<Await(l, m)>>, {a}, U, N)
  BY <1>1, <1>2, FitsMore
<1> QED BY <1>3, BlockFits

\* One more guard, with those that are kept.
LEMMA ThenFits ==
  ASSUME NEW f, NEW L, NEW U, NEW N, Fits(f, L, U, N), NEW l \in LockNames, NEW m \in Modes,
         \A g \in L : <<g, [lock |-> l, mode |-> m]>> \in N
  PROVE  LET a == [lock |-> l, mode |-> m]
         IN  Fits(f \o <<Await(l, m)>>, L \cup {a}, U \cup {a}, N)
<1> DEFINE a == [lock |-> l, mode |-> m]
<1>1. Fits(<<Await(l, m)>>, {a}, {a}, N)
  BY OneFits
<1>2. L \X {a} \subseteq N
  OBVIOUS
<1> HIDE DEF a
<1>3. Fits(f \o <<Await(l, m)>>, L \cup {a}, U \cup {a}, N)
  BY <1>1, <1>2, JoinFits
<1> QED BY <1>3 DEF a

LEMMA PairFits ==
  ASSUME NEW k \in LockNames, NEW m \in Modes, NEW l \in LockNames, NEW n \in Modes, NEW N,
         <<[lock |-> k, mode |-> m], [lock |-> l, mode |-> n]>> \in N
  PROVE  LET g == [lock |-> k, mode |-> m]
             h == [lock |-> l, mode |-> n]
         IN  Fits(<<Await(k, m)>> \o <<Await(l, n)>>, {g, h}, {g, h}, N)
<1> DEFINE g == [lock |-> k, mode |-> m]
           h == [lock |-> l, mode |-> n]
<1>1. Fits(<<Await(k, m)>>, {g}, {g}, N)
  BY OneFits
<1>2. \A x \in {g} : <<x, h>> \in N
  OBVIOUS
<1>3. Fits(<<Await(k, m)>> \o <<Await(l, n)>>, {g} \cup {h}, {g} \cup {h}, N)
  BY <1>1, <1>2, ThenFits
<1>4. {g} \cup {h} = {g, h}
  OBVIOUS
<1> HIDE DEF g, h
<1>5. Fits(<<Await(k, m)>> \o <<Await(l, n)>>, {g, h}, {g, h}, N)
  BY <1>3, <1>4, Zenon
<1> QED BY <1>5 DEF g, h

\* Two guards in a block.
LEMMA TwoFits ==
  ASSUME NEW k \in LockNames, NEW m \in Modes, NEW l \in LockNames, NEW n \in Modes, NEW U, NEW N,
         <<[lock |-> k, mode |-> m], [lock |-> l, mode |-> n]>> \in N,
         [lock |-> k, mode |-> m] \in U, [lock |-> l, mode |-> n] \in U
  PROVE  Fits(Block(<<Await(k, m)>> \o <<Await(l, n)>>), {}, U, N)
<1> DEFINE g == [lock |-> k, mode |-> m]
           h == [lock |-> l, mode |-> n]
<1>1. Fits(<<Await(k, m)>> \o <<Await(l, n)>>, {g, h}, {g, h}, N)
  BY PairFits
<1>2. {g, h} \subseteq U
  OBVIOUS
<1> HIDE DEF g, h
<1>3. Fits(<<Await(k, m)>> \o <<Await(l, n)>>, {g, h}, U, N)
  BY <1>1, <1>2, FitsMore
<1> QED BY <1>3, BlockFits

\* A second guard that it may not need.
LEMMA SkipFits ==
  ASSUME NEW k \in LockNames, NEW m \in Modes, NEW l \in LockNames, NEW n \in Modes, NEW U, NEW N,
         <<[lock |-> k, mode |-> m], [lock |-> l, mode |-> n]>> \in N,
         [lock |-> k, mode |-> m] \in U, [lock |-> l, mode |-> n] \in U
  PROVE  Fits(Block(<<Await(k, m)>> \o MaySkip(<<Await(l, n)>>)), {}, U, N)
<1> DEFINE g == [lock |-> k, mode |-> m]
           h == [lock |-> l, mode |-> n]
<1>1. Fits(<<Await(k, m)>>, {g}, {g}, N) /\ Fits(<<Await(l, n)>>, {h}, {h}, N)
  BY OneFits
<1>2. {g} \X {h} \subseteq N /\ {g} \cup {h} \subseteq U
  OBVIOUS
<1> HIDE DEF g, h
<1>3. Fits(MaySkip(<<Await(l, n)>>), {h}, {h}, N)
  BY <1>1, MaySkipFits
<1>4. Fits(<<Await(k, m)>> \o MaySkip(<<Await(l, n)>>), {g} \cup {h}, {g} \cup {h}, N)
  BY <1>1, <1>2, <1>3, JoinFits
<1>5. Fits(<<Await(k, m)>> \o MaySkip(<<Await(l, n)>>), {g} \cup {h}, U, N)
  BY <1>2, <1>4, FitsMore
<1> QED BY <1>5, BlockFits

QuietGuard(l, m) == l \in LockNames /\ m \in Modes /\ (m = "write" => l # "chain" /\ l # "validators")

LEMMA QuietIs ==
  ASSUME NEW l, NEW m, QuietGuard(l, m)
  PROVE  [lock |-> l, mode |-> m] \in Quiet
BY DEF QuietGuard, Quiet, Guards, Wr

LEMMA QuietOne ==
  /\ \A l \in LockNames : Fits(Read(l), {}, Quiet, Nested)
  /\ \A l \in LockNames \ {"chain", "validators"} : Fits(Write(l), {}, Quiet, Nested)
<1>1. ASSUME NEW l \in LockNames PROVE Fits(Read(l), {}, Quiet, Nested)
  <2>1. "read" \in Modes /\ QuietGuard(l, "read")
    BY DEF Modes, QuietGuard
  <2>2. Fits(Block(<<Await(l, "read")>>), {}, Quiet, Nested)
    BY <2>1, QuietIs, SingleFits
  <2> QED BY <2>2 DEF Read, R
<1>2. ASSUME NEW l \in LockNames \ {"chain", "validators"} PROVE Fits(Write(l), {}, Quiet, Nested)
  <2>1. "write" \in Modes /\ QuietGuard(l, "write")
    BY DEF Modes, QuietGuard
  <2>2. Fits(Block(<<Await(l, "write")>>), {}, Quiet, Nested)
    BY <2>1, QuietIs, SingleFits
  <2> QED BY <2>2 DEF Write, W
<1> QED BY <1>1, <1>2

LEMMA QuietTwo ==
  ASSUME NEW k, NEW m, NEW l, NEW n, QuietGuard(k, m), QuietGuard(l, n), Rank(k) < Rank(l)
  PROVE  /\ Fits(Block(<<Await(k, m)>> \o <<Await(l, n)>>), {}, Quiet, Nested)
         /\ Fits(Block(<<Await(k, m)>> \o MaySkip(<<Await(l, n)>>)), {}, Quiet, Nested)
<1>1. /\ k \in LockNames /\ l \in LockNames /\ m \in Modes /\ n \in Modes
      /\ l # "chain" \/ n # "write"
  BY DEF QuietGuard
<1>2. <<[lock |-> k, mode |-> m], [lock |-> l, mode |-> n]>> \in Nested
  BY <1>1, Higher
<1>3. [lock |-> k, mode |-> m] \in Quiet /\ [lock |-> l, mode |-> n] \in Quiet
  BY QuietIs
<1> QED BY <1>1, <1>2, <1>3, TwoFits, SkipFits

LEMMA LoudOne ==
  \A l \in LockNames : /\ Fits(Read(l), {}, Guards, ConsensusNested)
                       /\ Fits(Write(l), {}, Guards, ConsensusNested)
<1> SUFFICES ASSUME NEW l \in LockNames
             PROVE  /\ Fits(Read(l), {}, Guards, ConsensusNested)
                    /\ Fits(Write(l), {}, Guards, ConsensusNested)
  OBVIOUS
<1>1. /\ "read" \in Modes /\ "write" \in Modes
      /\ [lock |-> l, mode |-> "read"] \in Guards /\ [lock |-> l, mode |-> "write"] \in Guards
  BY DEF Modes, Guards
<1>2. /\ Fits(Block(<<Await(l, "read")>>), {}, Guards, ConsensusNested)
      /\ Fits(Block(<<Await(l, "write")>>), {}, Guards, ConsensusNested)
  BY <1>1, SingleFits
<1> QED BY <1>2 DEF Read, Write, R, W

LEMMA Names ==
  /\ "receipts" \in LockNames /\ "vm" \in LockNames /\ "validators" \in LockNames
  /\ "chain" \in LockNames /\ "pending" \in LockNames /\ "last_hash" \in LockNames
  /\ "delegations" \in LockNames /\ "leader" \in LockNames /\ "accounts" \in LockNames
  /\ "balances" \in LockNames /\ "history" \in LockNames /\ "room" \in LockNames
  /\ "item" \in LockNames
  /\ "read" \in Modes /\ "write" \in Modes /\ "send" \in Modes /\ "receive" \in Modes
BY DEF LockNames, Modes

LEMMA QuietGuards ==
  /\ \A l \in LockNames, m \in Modes \ {"write"} : QuietGuard(l, m)
  /\ \A l \in LockNames \ {"chain", "validators"}, m \in Modes : QuietGuard(l, m)
BY DEF QuietGuard

-----------------------------------------------------------------------------
(* Every function keeps to the order.                                      *)

LEMMA ConsensusFits == \A f \in consensus_calls : Fits(f, {}, Guards, ConsensusNested)
<1> DEFINE Ok(f) == Fits(f, {}, Guards, ConsensusNested)
<1>1. \A l \in LockNames : Ok(Read(l)) /\ Ok(Write(l))
  BY LoudOne
<1>2. \A f, g : Ok(f) /\ Ok(g) => Ok(f \o g)
  BY JoinClosed
<1>3. \A f : Ok(f) => Ok(MayLeave(f))
  BY MayLeaveFits
<1>4. /\ Ok(Block(W("validators") \o W("leader")))
      /\ Ok(Block(W("validators") \o R("delegations")))
      /\ Ok(Block(R("delegations") \o R("validators")))
  <2>1. /\ <<Wr("validators"), Wr("leader")>> \in ConsensusNested
        /\ <<Wr("validators"), Rd("delegations")>> \in ConsensusNested
    BY Names, RankIs, Higher DEF Rd, Wr
  <2>2. <<Rd("delegations"), Rd("validators")>> \in ConsensusNested
    BY DEF ConsensusNested
  <2>3. /\ Rd("delegations") \in Guards /\ Rd("validators") \in Guards
        /\ Wr("validators") \in Guards /\ Wr("leader") \in Guards
    BY Names DEF Guards, Rd, Wr
  <2> QED BY <2>1, <2>2, <2>3, Names, TwoFits DEF R, W, Rd, Wr
<1> HIDE DEF Ok
<1>5. Ok(find_vezcur_contract_address) /\ Ok(call_vez)
  BY <1>1, <1>2, Names DEF find_vezcur_contract_address, call_vez
<1>6. Ok(initialize_system_validator)
  BY <1>2, <1>4, <1>5 DEF initialize_system_validator
<1>7. Ok(calculate_relay_powers) /\ Ok(calculate_stake_power)
  BY <1>4 DEF calculate_relay_powers, calculate_stake_power
<1>8. Ok(MayLeave(get_consensus_threshold)) /\ Ok(add_lurosonie_block_to_chain)
  BY <1>1, <1>2, <1>3, Names DEF get_consensus_threshold, add_lurosonie_block_to_chain
<1>9. Ok(produce_lurosonie_block)
  <2>1. Ok(Read("pending") \o calculate_relay_powers \o calculate_stake_power)
    BY <1>1, <1>2, <1>7, Names
  <2>2. Ok(Read("pending") \o calculate_relay_powers \o calculate_stake_power
             \o MayLeave(get_consensus_threshold) \o Read("last_hash"))
    BY <1>1, <1>2, <1>8, <2>1, Names
  <2> QED BY <1>1, <1>2, <1>8, <2>2, Names DEF produce_lurosonie_block
<1>10. Ok(lurosonie_bft_consensus)
  BY <1>1, <1>2, <1>3, <1>5, Names DEF lurosonie_bft_consensus
<1>11. Ok(make_block)
  BY <1>1, <1>2, <1>9, <1>10, Names DEF make_block
<1> QED BY <1>6, <1>11 DEF consensus_calls, Ok

\* get_lurosonie_stats keeps four guards.
LEMMA StatsFits == Fits(get_lurosonie_stats, {}, Quiet, Nested)
<1>1. /\ Rd("chain") \in Guards /\ Rd("validators") \in Guards
      /\ Rd("delegations") \in Guards /\ Rd("leader") \in Guards
  BY Names DEF Guards, Rd
<1>2. <<Rd("chain"), Rd("validators")>> \in Nested
  BY <1>1 DEF Nested, Rd, Wr
<1>3. Fits(R("chain") \o R("validators"), {Rd("chain"), Rd("validators")},
           {Rd("chain"), Rd("validators")}, Nested)
  BY <1>2, Names, PairFits DEF R, Rd
<1>4. /\ <<Rd("chain"), Rd("delegations")>> \in Nested
      /\ <<Rd("validators"), Rd("delegations")>> \in Nested
      /\ <<Rd("chain"), Rd("leader")>> \in Nested
      /\ <<Rd("validators"), Rd("leader")>> \in Nested
      /\ <<Rd("delegations"), Rd("leader")>> \in Nested
  BY Names, RankIs, Higher DEF Rd
<1> DEFINE three == {Rd("chain"), Rd("validators")} \cup {Rd("delegations")}
           four == three \cup {Rd("leader")}
<1>5. Fits(R("chain") \o R("validators") \o R("delegations"), three, three, Nested)
  BY <1>3, <1>4, Names, ThenFits DEF R, Rd
<1>6. \A g \in three : <<g, Rd("leader")>> \in Nested
  BY <1>4
<1> HIDE DEF three
<1>7. Fits(R("chain") \o R("validators") \o R("delegations") \o R("leader"), four, four, Nested)
  BY <1>5, <1>6, Names, ThenFits DEF R, Rd
<1>8. four \subseteq Quiet
  BY Names, QuietGuards, QuietIs DEF three, Rd
<1> HIDE DEF four
<1>9. {} \subseteq {} /\ Nested \subseteq Nested
  OBVIOUS
<1>10. Fits(get_lurosonie_stats, {}, four, Nested)
  BY <1>7, BlockFits DEF get_lurosonie_stats
<1> QED BY <1>8, <1>9, <1>10, FitsMore

LEMMA MetricsFits == Fits(get_network_metrics, {}, Quiet, Nested)
<1>1. /\ <<Rd("validators"), Rd("chain")>> \in Nested
      /\ <<Rd("validators"), Rd("pending")>> \in Nested
      /\ <<Rd("chain"), Rd("pending")>> \in Nested
  BY Names, RankIs, Higher DEF Rd
<1> DEFINE two == {Rd("validators"), Rd("chain")}
           three == two \cup {Rd("pending")}
<1>2. Fits(R("validators") \o R("chain"), two, two, Nested)
  BY <1>1, Names, PairFits DEF R, Rd
<1>3. \A g \in two : <<g, Rd("pending")>> \in Nested
  BY <1>1
<1> HIDE DEF two
<1>4. Fits(R("validators") \o R("chain") \o R("pending"), three, three, Nested)
  BY <1>2, <1>3, Names, ThenFits DEF R, Rd
<1>5. three \subseteq Quiet
  BY Names, QuietGuards, QuietIs DEF two, Rd
<1> HIDE DEF three
<1>6. {} \subseteq {} /\ Nested \subseteq Nested
  OBVIOUS
<1>7. Fits(get_network_metrics, {}, three, Nested)
  BY <1>4, BlockFits DEF get_network_metrics
<1> QED BY <1>5, <1>6, <1>7, FitsMore

LEMMA AnnounceFits == Fits(announce, {}, Quiet, Nested)
<1>1. QuietGuard("item", "receive") /\ QuietGuard("chain", "read")
  BY Names, QuietGuards
<1>2. Rank("item") < Rank("chain")
  BY RankIs
<1> QED BY <1>1, <1>2, QuietTwo DEF announce, R

LEMMA ManagerFits == \A f \in manager_calls : Fits(f, {}, Quiet, Nested)
<1> DEFINE Ok(f) == Fits(f, {}, Quiet, Nested)
<1>1. /\ \A l \in LockNames : Ok(Read(l))
      /\ \A l \in LockNames \ {"chain", "validators"} : Ok(Write(l))
  BY QuietOne
<1>2. \A f, g : Ok(f) /\ Ok(g) => Ok(f \o g)
  BY JoinClosed
<1>3. \A f : Ok(f) => Ok(MayLeave(f))
  BY MayLeaveFits
<1>4. Ok(get_lurosonie_stats)
  BY StatsFits
<1>5. Ok(get_performance_stats)
  BY Names, QuietGuards, RankIs, QuietTwo DEF get_performance_stats, R
<1>6. Ok(add_transaction_to_mempool)
  BY Names, QuietGuards, RankIs, QuietTwo DEF add_transaction_to_mempool, W
<1>7. Ok(get_complete_contract_data)
  BY Names, QuietGuards, RankIs, QuietTwo DEF get_complete_contract_data, W
<1>8. Ok(validate_transaction)
  <2>1. Rd("balances") \in Guards /\ Wr("balances") \in Guards
    BY Names DEF Guards, Rd, Wr
  <2>2. <<Rd("balances"), Wr("balances")>> \in Nested
    BY <2>1 DEF Nested, Rd, Wr, Clash
  <2>3. Rd("balances") \in Quiet /\ Wr("balances") \in Quiet
    BY <2>1 DEF Quiet, Rd, Wr
  <2> QED BY <2>2, <2>3, Names, SkipFits DEF validate_transaction, R, W, Rd, Wr
<1> HIDE DEF Ok
<1>9. Ok(add_pending_transaction)
  BY <1>1, <1>2, Names DEF add_pending_transaction
<1>10. Ok(delegate_stake)
  <2>1. Ok(MayLeave(Read("validators")) \o MayLeave(Write("vm")))
    BY <1>1, <1>2, <1>3, Names
  <2> QED BY <1>1, <1>2, <2>1, Names DEF delegate_stake
<1>11. Ok(get_contract_state_at_block)
  <2>1. Ok(MayLeave(Read("chain")) \o MayLeave(Write("history")))
    BY <1>1, <1>2, <1>3, Names
  <2> QED BY <1>1, <1>2, <2>1, Names DEF get_contract_state_at_block
<1>12. /\ Ok(get_contract_state) /\ Ok(chain_readers) /\ Ok(last_hash_readers)
       /\ Ok(add_block_to_chain) /\ Ok(validator_readers) /\ Ok(mempool_readers)
       /\ Ok(balance_writers)
  BY <1>1, Names
  DEF get_contract_state, chain_readers, last_hash_readers, add_block_to_chain,
      validator_readers, mempool_readers, balance_writers
<1> QED BY <1>4, <1>5, <1>6, <1>7, <1>8, <1>9, <1>10, <1>11, <1>12 DEF manager_calls, Ok

LEMMA RpcFits == \A f \in rpc_calls : Fits(f, {}, Quiet, Nested)
<1> DEFINE Ok(f) == Fits(f, {}, Quiet, Nested)
<1>1. /\ \A l \in LockNames : Ok(Read(l))
      /\ \A l \in LockNames \ {"chain", "validators"} : Ok(Write(l))
  BY QuietOne
<1>2. \A f, g : Ok(f) /\ Ok(g) => Ok(f \o g)
  BY JoinClosed
<1>3. \A f : Ok(f) => Ok(MayLeave(f)) /\ Ok(Timed(f))
  BY MayLeaveFits, MaySkipFits
<1>4. Ok(read_accounts) /\ Ok(write_accounts)
  BY Names, QuietGuards, RankIs, QuietTwo DEF read_accounts, write_accounts, R, W
<1>5. Ok(insert_receipt)
  BY Names, QuietGuards, RankIs, QuietTwo DEF insert_receipt, R, W
<1>6. Ok(wallet_getCallsStatus) /\ Ok(Block(R("receipts") \o MaySkip(R("chain"))))
  BY Names, QuietGuards, RankIs, QuietTwo DEF wallet_getCallsStatus, R
<1>7. Ok(add_transaction_to_mempool)
  BY ManagerFits DEF manager_calls
<1>8. Ok(get_transaction_receipt)
  <2> DEFINE two == {Rd("chain"), Rd("last_hash")}
             three == {Rd("receipts")} \cup two
  <2>1. Rd("chain") \in two /\ Rd("last_hash") \in two
    OBVIOUS
  <2>2. {Rd("receipts")} \X two \subseteq Nested
    BY Names, RankIs, Higher DEF Rd
  <2>3. three \subseteq Quiet
    BY Names, QuietGuards, QuietIs DEF Rd
  <2> HIDE DEF two
  <2>4. Fits(chain_readers, {}, two, Nested) /\ Fits(last_hash_readers, {}, two, Nested)
    BY <2>1, Names, SingleFits DEF chain_readers, last_hash_readers, Read, R, Rd
  <2>5. Fits(get_latest_block_info, {}, two, Nested)
    BY <2>4, JoinClosed DEF get_latest_block_info
  <2>6. Fits(MayLeave(R("receipts")), {Rd("receipts")}, {Rd("receipts")}, Nested)
    BY Names, OneFits, MayLeaveFits DEF R, Rd
  <2>7. Fits(MayLeave(R("receipts")) \o get_latest_block_info, {Rd("receipts")} \cup {}, three, Nested)
    BY <2>2, <2>5, <2>6, JoinFits
  <2> HIDE DEF three
  <2>8. {} \subseteq {} /\ Nested \subseteq Nested
    OBVIOUS
  <2>9. Fits(get_transaction_receipt, {}, three, Nested)
    BY <2>7, BlockFits DEF get_transaction_receipt
  <2> QED BY <2>3, <2>8, <2>9, FitsMore
<1>9. /\ Ok(Block(W("vm") \o execute_module))
      /\ Ok(install)
  <2> DEFINE a == Wr("accounts")
             v == Wr("vm")
  <2>1. {v} \X {a} \subseteq Nested
    BY Names, RankIs, Higher DEF Wr
  <2>2. {v} \cup {a} \subseteq Quiet
    BY Names, QuietGuards, QuietIs DEF Wr
  <2>3. Fits(Write("accounts"), {}, {a}, Nested) /\ Fits(W("vm"), {v}, {v}, Nested)
    BY Names, SingleFits, OneFits DEF Write, W, Wr
  <2>4. {v} \cup {} = {v} /\ {v} \cup {a} \cup {a} = {v} \cup {a}
    OBVIOUS
  <2> HIDE DEF v, a
  <2>5. Fits(W("vm") \o Write("accounts"), {v}, {v} \cup {a}, Nested)
    <3>1. Fits(W("vm") \o Write("accounts"), {v} \cup {}, {v} \cup {a}, Nested)
      BY <2>1, <2>3, JoinFits
    <3> QED BY <2>4, <3>1, Zenon
  <2>6. \A f : Fits(f, {v}, {v} \cup {a}, Nested) => Fits(f \o Write("accounts"), {v}, {v} \cup {a}, Nested)
    <3> SUFFICES ASSUME NEW f, Fits(f, {v}, {v} \cup {a}, Nested)
                 PROVE  Fits(f \o Write("accounts"), {v}, {v} \cup {a}, Nested)
      OBVIOUS
    <3>1. Fits(f \o Write("accounts"), {v} \cup {}, {v} \cup {a} \cup {a}, Nested)
      BY <2>1, <2>3, JoinFits
    <3> QED BY <2>4, <3>1, Zenon
  <2>7. Fits(W("vm") \o Write("accounts") \o Write("accounts") \o Write("accounts"), {v},
             {v} \cup {a}, Nested)
    BY <2>5, <2>6
  <2>8. \A f : Fits(f, {v}, {v} \cup {a}, Nested) => Fits(Block(f), {}, Quiet, Nested)
    <3> SUFFICES ASSUME NEW f, Fits(f, {v}, {v} \cup {a}, Nested)
                 PROVE  Fits(Block(f), {}, Quiet, Nested)
      OBVIOUS
    <3>1. Fits(f, {v}, Quiet, Nested)
      BY <2>2, FitsMore
    <3> QED BY <3>1, BlockFits
  <2> QED BY <2>5, <2>7, <2>8 DEF install, execute_module
<1>10. Ok(import_delta)
  <2>1. Rd("vm") \in Guards /\ Wr("vm") \in Guards
    BY Names DEF Guards, Rd, Wr
  <2>2. <<Rd("vm"), Wr("vm")>> \in Nested
    BY <2>1 DEF Nested, Rd, Wr, Clash
  <2>3. <<Rd("vm"), Wr("accounts")>> \in Nested /\ <<Wr("vm"), Wr("accounts")>> \in Nested
    BY Names, RankIs, Higher DEF Rd, Wr
  <2> DEFINE two == {Rd("vm"), Wr("vm")}
             three == two \cup {Wr("accounts")}
  <2>4. Fits(R("vm") \o W("vm"), two, two, Nested)
    BY <2>2, Names, PairFits DEF R, W, Rd, Wr
  <2>5. \A g \in two : <<g, Wr("accounts")>> \in Nested
    BY <2>3
  <2>6. three \subseteq Quiet
    BY Names, QuietGuards, QuietIs DEF Rd, Wr
  <2> HIDE DEF two
  <2>7. Fits(R("vm") \o W("vm") \o W("accounts"), three, three, Nested)
    BY <2>4, <2>5, Names, ThenFits DEF W, Wr
  <2> HIDE DEF three
  <2>8. Fits(import_delta, {}, three, Nested)
    BY <2>7, BlockFits DEF import_delta
  <2>9. {} \subseteq {} /\ Nested \subseteq Nested
    OBVIOUS
  <2> QED BY <2>6, <2>8, <2>9, FitsMore
<1> HIDE DEF Ok
<1>11. /\ Ok(persist_all_state) /\ Ok(get_transaction_count)
       /\ Ok(chain_readers) /\ Ok(last_hash_readers) /\ Ok(mempool_readers)
  BY <1>1, Names
  DEF persist_all_state, get_transaction_count, chain_readers, last_hash_readers,
      mempool_readers
<1>12. Ok(get_latest_block_info)
  BY <1>2, <1>11 DEF get_latest_block_info
<1>13. Ok(eth_call)
  BY <1>1, <1>2, <1>9, Names DEF eth_call
<1>14. Ok(send_transaction)
  <2>1. Ok(get_transaction_count \o MayLeave(Block(W("vm") \o execute_module)) \o read_accounts)
    BY <1>2, <1>3, <1>4, <1>9, <1>11
  <2>2. Ok(get_transaction_count \o MayLeave(Block(W("vm") \o execute_module)) \o read_accounts
             \o install \o write_accounts)
    BY <1>2, <1>4, <1>9, <2>1
  <2> QED BY <1>2, <1>5, <1>12, <2>2 DEF send_transaction
<1>15. Ok(perform_contract_deployment)
  <2>1. Ok(MayLeave(Read("vm")) \o write_accounts \o send_transaction)
    BY <1>1, <1>2, <1>3, <1>4, <1>14, Names
  <2> QED BY <1>2, <1>4, <1>11, <2>1 DEF perform_contract_deployment
<1>16. Ok(eth_sendUserOperation) /\ Ok(get_block_by_number) /\ Ok(eth_maxPriorityFeePerGas)
  BY <1>1, <1>2, <1>4, <1>7, <1>11, Names
  DEF eth_sendUserOperation, get_block_by_number, eth_maxPriorityFeePerGas
<1>17. Ok(get_block_by_hash)
  <2>1. Ok(chain_readers \o Block(R("receipts") \o MaySkip(R("chain"))) \o mempool_readers)
    BY <1>2, <1>6, <1>11
  <2> QED BY <1>2, <1>4, <1>11, <2>1 DEF get_block_by_hash
<1>18. Ok(eth_getCode) /\ Ok(load_persisted_receipts)
  BY <1>1, <1>2, <1>3, <1>4, Names DEF eth_getCode, load_persisted_receipts
<1>19. Ok(load_persisted_contracts)
  <2>1. Ok(Read("vm") \o write_accounts)
    BY <1>1, <1>2, <1>4, Names
  <2> QED BY <1>1, <1>2, <2>1, Names DEF load_persisted_contracts
<1> QED BY <1>4, <1>6, <1>8, <1>10, <1>11, <1>13, <1>14, <1>15, <1>16, <1>17, <1>18, <1>19
        DEF rpc_calls, Ok

\* What a task may hold, and what it keeps when it awaits more.
Used(t) == IF t = ConsensusTask THEN Guards ELSE Quiet
NestedOf(t) == IF t = ConsensusTask THEN ConsensusNested ELSE Nested

LEMMA CallsFit ==
  ASSUME NEW t \in Tasks, NEW f \in Calls(t)
  PROVE  Fits(f, {}, Used(t), NestedOf(t))
<1>1. CASE t = ConsensusTask
  <2>1. f \in consensus_calls
    BY <1>1 DEF Calls, ConsensusTask, Metrics, Announcer, Main
  <2>2. Used(t) = Guards /\ NestedOf(t) = ConsensusNested
    BY <1>1 DEF Used, NestedOf
  <2> QED BY <2>1, <2>2, ConsensusFits
<1>2. CASE t # ConsensusTask
  <2>1. f \in {get_network_metrics} \cup {announce} \cup manager_calls \cup rpc_calls
    BY <1>2 DEF Calls, node_calls
  <2>2. Used(t) = Quiet /\ NestedOf(t) = Nested
    BY <1>2 DEF Used, NestedOf
  <2> QED BY <2>1, <2>2, MetricsFits, AnnounceFits, ManagerFits, RpcFits
<1> QED BY <1>1, <1>2

\* What lies between two points where nothing is kept.
LEMMA CutFits ==
  ASSUME NEW f, NEW U, NEW N, Fits(f, {}, U, N), NEW c \in Cuts(f), NEW d \in Cuts(f), c < d
  PROVE  Fits(SubSeq(f, c + 1, d), {}, U, N)
<1> DEFINE s == SubSeq(f, c + 1, d)
           n == d - c
<1>1. /\ f \in Seq(Awaits) /\ Len(f) \in Nat
      /\ c \in 0..Len(f) /\ d \in 0..Len(f) /\ Kept(f, d) = {}
  BY DEF Fits, Cuts
<1>2. s \in Seq(Awaits) /\ Len(s) = n /\ \A i \in 1..n : s[i] = f[c + i]
  BY <1>1
<1>3. n \in Nat /\ n > 0
  BY <1>1
<1>4. \A i \in 1..n : c + i \in 1..Len(f)
  BY <1>1
<1> HIDE DEF s
<1>5. ASSUME NEW j \in 1..n, NEW k \in 1..n + 1, KeptUntil(s, j, k)
      PROVE  KeptUntil(f, c + j, c + k)
  <2> SUFFICES ASSUME NEW m \in c + j..(c + k) - 1 PROVE f[c + j].lock \notin f[m].drop
    BY DEF KeptUntil
  <2> DEFINE i == m - c
  <2>1. i \in j..k - 1 /\ i \in 1..n /\ m = c + i
    BY <1>1
  <2> HIDE DEF i
  <2>2. s[j].lock \notin s[i].drop
    BY <1>5, <2>1, Zenon DEF KeptUntil
  <2>3. s[j] = f[c + j] /\ s[i] = f[m]
    BY <1>2, <2>1
  <2> QED BY <2>2, <2>3, Zenon
<1>6. ASSUME NEW j \in 1..n, KeptUntil(s, j, n + 1) PROVE FALSE
  <2>1. KeptUntil(f, c + j, c + (n + 1))
    BY <1>3, <1>5, <1>6
  <2>2. c + (n + 1) = d + 1 /\ (d + 1) - 1 = d
    BY <1>1
  <2>3. \A m \in c + j..d : f[c + j].lock \notin f[m].drop
    BY <2>1, <2>2, Zenon DEF KeptUntil
  <2>4. c + j \in 1..d
    BY <1>1
  <2>5. c + j \in Kept(f, d)
    BY <2>3, <2>4 DEF Kept
  <2> QED BY <1>1, <2>5
<1>7. \A i \in 1..n : Guard(s[i]) = Guard(f[c + i])
  BY <1>2 DEF Guard
<1>8. \A k \in 1..n : Guard(s[k]) \in U
  BY <1>4, <1>7 DEF Fits
<1>9. ASSUME NEW k \in 1..n, NEW j \in 1..n, j < k, KeptUntil(s, j, k)
      PROVE  <<Guard(s[j]), Guard(s[k])>> \in N
  <2>1. KeptUntil(f, c + j, c + k) /\ c + j < c + k
    BY <1>1, <1>3, <1>5, <1>9
  <2>2. <<Guard(f[c + j]), Guard(f[c + k])>> \in N
    BY <1>4, <2>1 DEF Fits
  <2> QED BY <1>7, <2>2
<1>10. Fits(s, {}, U, N)
  BY <1>2, <1>3, <1>6, <1>8, <1>9 DEF Fits
<1> QED BY <1>10 DEF s

LEMMA StepsFit ==
  ASSUME NEW t \in Tasks, NEW s \in Steps[t]
  PROVE  /\ Fits(s, {}, Used(t), NestedOf(t))
         /\ \A k \in 1..Len(s) : s[k].lock \in AllLocks
<1>1. Steps[t] = UNION {Segments(f) : f \in Calls(t)}
  BY DEF Steps
<1>2. PICK f \in Calls(t) : s \in Segments(f)
  BY <1>1
<1>3. PICK c \in Cuts(f), d \in Cuts(f) : c < d /\ s = SubSeq(f, c + 1, d)
  <2>1. PICK p \in Cuts(f) \X Cuts(f) : p[1] < p[2] /\ s = SubSeq(f, p[1] + 1, p[2])
    BY <1>2 DEF Segments
  <2> QED BY <2>1
<1>4. Fits(s, {}, Used(t), NestedOf(t))
  BY <1>3, CallsFit, CutFits
<1>5. DOMAIN s = 1..Len(s)
  BY <1>4 DEF Fits
<1>6. \A k \in 1..Len(s) : s[k].lock \in Locks(s)
  BY <1>5 DEF Locks
<1>7. Locks(s) \subseteq AllLocks
  BY DEF AllLocks
<1> QED BY <1>4, <1>6, <1>7

-----------------------------------------------------------------------------
(* The inductive invariant.                                                *)

\* What is left of a segment keeps to the order; and so does what the task holds, which is
\* dropped before the end.
Keeps(f, h, U, N) ==
  LET n == Len(f)
  IN  /\ f \in Seq(Awaits)
      /\ \A k \in 1..n : Guard(f[k]) \in U /\ f[k].lock \in AllLocks
      /\ \A j \in 1..n : ~KeptUntil(f, j, n + 1)
      /\ \A k \in 1..n, j \in 1..n :
           j < k /\ KeptUntil(f, j, k) => <<Guard(f[j]), Guard(f[k])>> \in N
      /\ h \subseteq U
      /\ \A g \in h :
           /\ \E m \in 1..n : g.lock \in f[m].drop
           /\ \A k \in 1..n :
                (\A m \in 1..k - 1 : g.lock \notin f[m].drop) => <<g, Guard(f[k])>> \in N

TaskInv(t) == Keeps(todo[t], held[t], Used(t), NestedOf(t))

\* Who stands in the line of a lock awaits that lock, and stands there once.
LineInv ==
  /\ line \in [AllLocks -> Seq(Tasks)]
  /\ \A l \in AllLocks :
       /\ IsInjective(line[l])
       /\ \A i \in 1..Len(line[l]) : todo[line[l][i]] # <<>> /\ Lock(line[l][i]) = l

LocksInv ==
  /\ todo \in [Tasks -> Seq(Awaits)]
  /\ held \in [Tasks -> SUBSET Guards]
  /\ \A t \in Tasks : TaskInv(t)
  /\ LineInv
  /\ sent \in 0..Room

\* Who has done a segment holds nothing.
LEMMA DoneKeeps == \A U, N : Keeps(<<>>, {}, U, N)
<1>1. <<>> \in Seq(Awaits) /\ Len(<<>>) = 0 /\ 1..0 = {}
  OBVIOUS
<1> QED BY <1>1 DEF Keeps

LEMMA DoneHolds ==
  ASSUME NEW h, NEW U, NEW N, Keeps(<<>>, h, U, N)
  PROVE  h = {}
<1>1. Len(<<>>) = 0 /\ 1..0 = {}
  OBVIOUS
<1> QED BY <1>1 DEF Keeps

\* A segment begins.
LEMMA FreshKeeps ==
  ASSUME NEW t \in Tasks, NEW s \in Steps[t]
  PROVE  Keeps(s, {}, Used(t), NestedOf(t)) /\ s \in Seq(Awaits) /\ Len(s) > 0 /\ s # <<>>
<1>1. Fits(s, {}, Used(t), NestedOf(t)) /\ \A k \in 1..Len(s) : s[k].lock \in AllLocks
  BY StepsFit
<1> QED BY <1>1 DEF Fits, Keeps

\* Past an await.
LEMMA TailKeeps ==
  ASSUME NEW f, NEW h, NEW U, NEW N, Keeps(f, h, U, N), f # <<>>,
         NEW e \in SUBSET (h \cup {Guard(f[1])})
  PROVE  Keeps(Tail(f), {g \in e : g.lock \notin f[1].drop}, U, N)
<1> DEFINE r == Tail(f)
           n == Len(f)
           d == {g \in e : g.lock \notin f[1].drop}
<1>1. f \in Seq(Awaits) /\ n \in Nat /\ n > 0
  BY DEF Keeps
<1>2. r \in Seq(Awaits) /\ Len(r) = n - 1 /\ \A i \in 1..n - 1 : r[i] = f[i + 1] /\ i + 1 \in 1..n
  BY <1>1
<1> HIDE DEF r, n
<1>3. \A i \in 1..n - 1 : Guard(r[i]) = Guard(f[i + 1]) /\ r[i].lock = f[i + 1].lock
  BY <1>2 DEF Guard
<1>4. ASSUME NEW j \in 1..n - 1, NEW k \in 1..n, KeptUntil(r, j, k)
      PROVE  KeptUntil(f, j + 1, k + 1)
  <2> SUFFICES ASSUME NEW m \in j + 1..(k + 1) - 1 PROVE f[j + 1].lock \notin f[m].drop
    BY DEF KeptUntil
  <2> DEFINE i == m - 1
  <2>1. i \in j..k - 1 /\ i \in 1..n - 1 /\ m = i + 1
    BY <1>1
  <2> HIDE DEF i
  <2>2. r[j].lock \notin r[i].drop
    BY <1>4, <2>1, Zenon DEF KeptUntil
  <2>3. r[j] = f[j + 1] /\ r[i] = f[m]
    BY <1>2, <2>1
  <2> QED BY <2>2, <2>3, Zenon
<1>5. ASSUME NEW k \in 1..n - 1 PROVE Guard(r[k]) \in U /\ r[k].lock \in AllLocks
  <2>1. k + 1 \in 1..n
    BY <1>2
  <2>2. Guard(f[k + 1]) \in U /\ f[k + 1].lock \in AllLocks
    BY <2>1 DEF Keeps, n
  <2> QED BY <1>3, <2>2
<1>6. ASSUME NEW j \in 1..n - 1, KeptUntil(r, j, (n - 1) + 1) PROVE FALSE
  <2>1. (n - 1) + 1 = n /\ n \in 1..n /\ j + 1 \in 1..n
    BY <1>1
  <2>2. KeptUntil(f, j + 1, n + 1)
    BY <1>4, <1>6, <2>1
  <2>3. \A i \in 1..n : ~KeptUntil(f, i, n + 1)
    BY DEF Keeps, n
  <2> QED BY <2>1, <2>2, <2>3
<1>7. ASSUME NEW k \in 1..n - 1, NEW j \in 1..n - 1, j < k, KeptUntil(r, j, k)
      PROVE  <<Guard(r[j]), Guard(r[k])>> \in N
  <2>1. k \in 1..n /\ k + 1 \in 1..n /\ j + 1 \in 1..n /\ j + 1 < k + 1
    BY <1>1, <1>7
  <2>2. KeptUntil(f, j + 1, k + 1)
    BY <1>4, <1>7, <2>1
  <2>3. <<Guard(f[j + 1]), Guard(f[k + 1])>> \in N
    BY <2>1, <2>2 DEF Keeps, n
  <2> QED BY <1>3, <2>3
<1>8. d \subseteq U
  <2>1. Guard(f[1]) \in U /\ h \subseteq U
    BY <1>1 DEF Keeps, n
  <2> QED BY <2>1
<1>9. ASSUME NEW g \in d
      PROVE  /\ \E m \in 1..n - 1 : g.lock \in r[m].drop
             /\ \A k \in 1..n - 1 :
                  (\A m \in 1..k - 1 : g.lock \notin r[m].drop) => <<g, Guard(r[k])>> \in N
  <2>0. g.lock \notin f[1].drop
    OBVIOUS
  <2>1. /\ \E m \in 1..n : g.lock \in f[m].drop
        /\ \A k \in 2..n :
             (\A m \in 1..k - 1 : g.lock \notin f[m].drop) => <<g, Guard(f[k])>> \in N
    <3>1. CASE g \in h
      <4>1. \A k \in 2..n : k \in 1..n
        BY <1>1
      <4> QED BY <3>1, <4>1 DEF Keeps, n
    <3>2. CASE g = Guard(f[1])
      <4>1. g.lock = f[1].lock
        BY <3>2 DEF Guard
      <4>2. 1 \in 1..n /\ (n + 1) - 1 = n
        BY <1>1
      <4>3. ~KeptUntil(f, 1, n + 1)
        BY <4>2 DEF Keeps, n
      <4>4. \E m \in 1..n : g.lock \in f[m].drop
        BY <4>1, <4>2, <4>3 DEF KeptUntil
      <4>5. ASSUME NEW k \in 2..n, \A m \in 1..k - 1 : g.lock \notin f[m].drop
            PROVE  <<g, Guard(f[k])>> \in N
        <5>1. KeptUntil(f, 1, k)
          BY <4>1, <4>5 DEF KeptUntil
        <5>2. k \in 1..n /\ 1 < k
          BY <1>1
        <5> QED BY <3>2, <4>2, <5>1, <5>2 DEF Keeps, n
      <4> QED BY <4>4, <4>5
    <3> QED BY <3>1, <3>2
  <2>2. \E m \in 1..n - 1 : g.lock \in r[m].drop
    <3>1. PICK m \in 1..n : g.lock \in f[m].drop
      BY <2>1
    <3>2. m - 1 \in 1..n - 1 /\ m = (m - 1) + 1
      BY <1>1, <2>0, <3>1
    <3>3. r[m - 1] = f[m]
      BY <1>2, <3>2
    <3> QED BY <3>1, <3>2, <3>3
  <2>3. ASSUME NEW k \in 1..n - 1, \A m \in 1..k - 1 : g.lock \notin r[m].drop
        PROVE  <<g, Guard(r[k])>> \in N
    <3>1. k + 1 \in 2..n
      BY <1>1
    <3>2. ASSUME NEW m \in 1..(k + 1) - 1 PROVE g.lock \notin f[m].drop
      <4>1. CASE m = 1
        BY <2>0, <4>1
      <4>2. CASE m # 1
        <5>1. m - 1 \in 1..k - 1 /\ m - 1 \in 1..n - 1 /\ m = (m - 1) + 1
          BY <1>1, <4>2
        <5>2. r[m - 1] = f[m]
          BY <1>2, <5>1
        <5> QED BY <2>3, <5>1, <5>2
      <4> QED BY <4>1, <4>2
    <3>3. <<g, Guard(f[k + 1])>> \in N
      BY <2>1, <3>1, <3>2
    <3> QED BY <1>3, <3>3
  <2> QED BY <2>2, <2>3
<1>10. Keeps(r, d, U, N)
  <2> HIDE DEF d
  <2> QED BY <1>2, <1>5, <1>6, <1>7, <1>8, <1>9 DEF Keeps
<1> QED BY <1>10 DEF r, d

LEMMA LocksInvInit == LocksInit => LocksInv
<1> SUFFICES ASSUME LocksInit PROVE LocksInv
  OBVIOUS
<1>1. <<>> \in Seq(Awaits) /\ <<>> \in Seq(Tasks) /\ Len(<<>>) = 0
  OBVIOUS
<1>2. todo \in [Tasks -> Seq(Awaits)] /\ held \in [Tasks -> SUBSET Guards]
  BY <1>1 DEF LocksInit
<1>3. ASSUME NEW t \in Tasks PROVE TaskInv(t)
  <2>1. todo[t] = <<>> /\ held[t] = {}
    BY DEF LocksInit
  <2> QED BY <2>1, DoneKeeps DEF TaskInv
<1>4. LineInv
  BY <1>1 DEF LocksInit, LineInv, IsInjective
<1>5. sent \in 0..Room
  BY LocksAssumption DEF LocksInit
<1> QED BY <1>2, <1>3, <1>4, <1>5 DEF LocksInv

\* Nobody stands in the line of another lock than that it awaits.
NotInLine(t) == \A l \in AllLocks : \A i \in 1..Len(line[l]) : line[l][i] # t

LEMMA WaitsInLine ==
  ASSUME LocksInv, NEW t \in Tasks, ~Waits(t)
  PROVE  NotInLine(t)
<1> SUFFICES ASSUME NEW l \in AllLocks, NEW i \in 1..Len(line[l]), line[l][i] = t PROVE FALSE
  BY DEF NotInLine
<1>1. Busy(t) /\ Lock(t) = l
  BY DEF LocksInv, LineInv, Busy
<1>2. i \in DOMAIN line[l]
  BY DEF LocksInv, LineInv
<1> QED BY <1>1, <1>2 DEF Waits

LEMMA LineSame ==
  ASSUME LineInv, NEW t \in Tasks, NotInLine(t), line' = line,
         \A u \in Tasks : u # t => todo'[u] = todo[u]
  PROVE  LineInv'
<1>1. \A l \in AllLocks : \A i \in 1..Len(line[l]) :
        line[l][i] \in Tasks /\ todo'[line[l][i]] = todo[line[l][i]]
  BY DEF LineInv, NotInLine
<1> QED BY <1>1 DEF LineInv, Lock, Awaited

LEMMA LineJoined ==
  ASSUME LineInv, NEW t \in Tasks, NotInLine(t), NEW l \in AllLocks,
         line' = [line EXCEPT ![l] = Append(@, t)],
         \A u \in Tasks : u # t => todo'[u] = todo[u],
         todo'[t] # <<>>, todo'[t][1].lock = l
  PROVE  LineInv'
<1> DEFINE q == line[l]
           r == Append(q, t)
<1>1. q \in Seq(Tasks) /\ Len(q) \in Nat /\ DOMAIN q = 1..Len(q) /\ IsInjective(q)
  BY DEF LineInv
<1>2. /\ r \in Seq(Tasks) /\ Len(r) = Len(q) + 1 /\ DOMAIN r = 1..Len(q) + 1
      /\ r[Len(q) + 1] = t /\ \A i \in 1..Len(q) : r[i] = q[i]
  BY <1>1
<1>3. \A i \in 1..Len(q) + 1 : i \in 1..Len(q) \/ i = Len(q) + 1
  BY <1>1
<1>4. IsInjective(r)
  <2>1. \A i \in 1..Len(q) : q[i] # t
    BY DEF NotInLine
  <2>2. \A i, j \in 1..Len(q) : q[i] = q[j] => i = j
    BY <1>1 DEF IsInjective
  <2>3. \A i, j \in 1..Len(q) + 1 : r[i] = r[j] => i = j
    BY <1>2, <1>3, <2>1, <2>2
  <2> QED BY <1>2, <2>3 DEF IsInjective
<1> HIDE DEF r
<1>5. line' \in [AllLocks -> Seq(Tasks)] /\ line'[l] = r
      /\ \A k \in AllLocks : k # l => line'[k] = line[k]
  BY <1>2 DEF LineInv, r
<1>6. ASSUME NEW k \in AllLocks, k # l
      PROVE  /\ IsInjective(line'[k])
             /\ \A i \in 1..Len(line'[k]) : todo'[line'[k][i]] # <<>> /\ todo'[line'[k][i]][1].lock = k
  <2>1. line'[k] = line[k]
    BY <1>5, <1>6
  <2>2. \A i \in 1..Len(line[k]) :
          line[k][i] \in Tasks /\ todo'[line[k][i]] = todo[line[k][i]]
    BY DEF LineInv, NotInLine
  <2>3. IsInjective(line[k]) /\ \A i \in 1..Len(line[k]) : todo[line[k][i]] # <<>> /\ todo[line[k][i]][1].lock = k
    BY DEF LineInv, Lock, Awaited
  <2> QED BY <2>1, <2>2, <2>3
<1>7. \A i \in 1..Len(r) : todo'[r[i]] # <<>> /\ todo'[r[i]][1].lock = l
  <2>1. \A i \in 1..Len(q) : q[i] \in Tasks /\ todo'[q[i]] = todo[q[i]]
    BY DEF LineInv, NotInLine
  <2>2. \A i \in 1..Len(q) : todo[q[i]] # <<>> /\ todo[q[i]][1].lock = l
    BY DEF LineInv, Lock, Awaited
  <2> QED BY <1>2, <1>3, <2>1, <2>2
<1>8. ASSUME NEW k \in AllLocks
      PROVE  /\ IsInjective(line'[k])
             /\ \A i \in 1..Len(line'[k]) : todo'[line'[k][i]] # <<>> /\ todo'[line'[k][i]][1].lock = k
  <2>1. CASE k # l
    BY <1>6, <2>1
  <2>2. CASE k = l
    <3>1. line'[k] = r
      BY <1>5, <2>2
    <3> QED BY <1>4, <1>7, <2>2, <3>1, Zenon
  <2> QED BY <2>1, <2>2
<1> QED BY <1>5, <1>8 DEF LineInv, Lock, Awaited

\* Others stay in the line when one has left it.
LEMMA LineLeft ==
  ASSUME LineInv, NEW t \in Tasks, NEW l \in AllLocks, Lock(t) = l,
         NEW q \in Seq(Tasks), IsInjective(q), line' = [line EXCEPT ![l] = q],
         \A i \in 1..Len(q) : q[i] # t /\ \E k \in 1..Len(line[l]) : q[i] = line[l][k],
         \A u \in Tasks : u # t => todo'[u] = todo[u]
  PROVE  LineInv'
<1>1. line' \in [AllLocks -> Seq(Tasks)] /\ line'[l] = q
      /\ \A k \in AllLocks : k # l => line'[k] = line[k]
  BY DEF LineInv
<1>2. ASSUME NEW k \in AllLocks, k # l
      PROVE  /\ IsInjective(line'[k])
             /\ \A i \in 1..Len(line'[k]) : todo'[line'[k][i]] # <<>> /\ todo'[line'[k][i]][1].lock = k
  <2>1. line'[k] = line[k]
    BY <1>1, <1>2
  <2>2. \A i \in 1..Len(line[k]) : todo[line[k][i]] # <<>> /\ Lock(line[k][i]) = k /\ line[k][i] \in Tasks
    BY DEF LineInv
  <2>3. \A i \in 1..Len(line[k]) : line[k][i] # t
    BY <1>2, <2>2
  <2>4. IsInjective(line[k])
    BY DEF LineInv
  <2> QED BY <2>1, <2>2, <2>3, <2>4 DEF Lock, Awaited
<1>3. \A i \in 1..Len(q) : todo'[q[i]] # <<>> /\ todo'[q[i]][1].lock = l
  <2> SUFFICES ASSUME NEW i \in 1..Len(q) PROVE todo'[q[i]] # <<>> /\ todo'[q[i]][1].lock = l
    OBVIOUS
  <2>1. PICK k \in 1..Len(line[l]) : q[i] = line[l][k]
    OBVIOUS
  <2>2. todo[q[i]] # <<>> /\ todo[q[i]][1].lock = l /\ q[i] \in Tasks
    BY <2>1 DEF LineInv, Lock, Awaited
  <2> QED BY <2>2
<1>4. ASSUME NEW k \in AllLocks
      PROVE  /\ IsInjective(line'[k])
             /\ \A i \in 1..Len(line'[k]) : todo'[line'[k][i]] # <<>> /\ todo'[line'[k][i]][1].lock = k
  <2>1. CASE k # l
    BY <1>2, <2>1
  <2>2. CASE k = l
    <3>1. line'[k] = q
      BY <1>1, <2>2
    <3> QED BY <1>3, <2>2, <3>1, Zenon
  <2> QED BY <2>1, <2>2
<1> QED BY <1>1, <1>4 DEF LineInv, Lock, Awaited

\* A sequence without its i-th element.
LEMMA Removed ==
  ASSUME NEW S, NEW q \in Seq(S), IsInjective(q), NEW i \in 1..Len(q)
  PROVE  /\ RemoveAt(q, i) \in Seq(S) /\ IsInjective(RemoveAt(q, i))
         /\ \A j \in 1..Len(RemoveAt(q, i)) :
              RemoveAt(q, i)[j] # q[i] /\ \E k \in 1..Len(q) : RemoveAt(q, i)[j] = q[k]
<1> DEFINE a == SubSeq(q, 1, i - 1)
           b == SubSeq(q, i + 1, Len(q))
           n == Len(q)
           r == RemoveAt(q, i)
<1>1. n \in Nat /\ i \in Nat /\ i > 0 /\ i <= n
  OBVIOUS
<1>2. a \in Seq(S) /\ Len(a) = i - 1 /\ \A j \in 1..i - 1 : a[j] = q[j]
  BY <1>1
<1>3. b \in Seq(S) /\ Len(b) = n - i /\ \A j \in 1..n - i : b[j] = q[i + j]
  BY <1>1
<1>4. r = a \o b
  BY DEF RemoveAt
<1> HIDE DEF a, b, n, r
<1>5. r \in Seq(S) /\ Len(r) = (i - 1) + (n - i)
  <2>1. a \in Seq(S) /\ b \in Seq(S)
    BY <1>2, <1>3
  <2>2. a \o b \in Seq(S)
    BY <2>1
  <2>3. Len(a \o b) = Len(a) + Len(b)
    BY <2>1
  <2> QED BY <1>2, <1>3, <1>4, <2>2, <2>3
<1>6. \A j \in 1..Len(r) : r[j] = IF j < i THEN q[j] ELSE q[j + 1]
  <2> SUFFICES ASSUME NEW j \in 1..Len(r) PROVE r[j] = IF j < i THEN q[j] ELSE q[j + 1]
    OBVIOUS
  <2>1. CASE j < i
    <3>1. j \in 1..i - 1
      BY <1>1, <2>1
    <3>2. r[j] = a[j]
      BY <1>1, <1>2, <1>3, <1>4, <3>1
    <3> QED BY <1>2, <2>1, <3>1, <3>2
  <2>2. CASE ~(j < i)
    <3>1. j - (i - 1) \in 1..n - i /\ j \notin 1..i - 1 /\ i + (j - (i - 1)) = j + 1
      BY <1>1, <1>5, <2>2
    <3>2. r[j] = b[j - (i - 1)]
      BY <1>1, <1>2, <1>3, <1>4, <1>5, <3>1
    <3> QED BY <1>3, <2>2, <3>1, <3>2
  <2> QED BY <2>1, <2>2
<1>7. \A j, k \in 1..n : q[j] = q[k] => j = k
  BY DEF IsInjective, n
<1>8. \A j \in 1..Len(r) : j \in Nat /\ (j < i => j \in 1..n) /\ (~(j < i) => j + 1 \in 1..n) /\ i \in 1..n
  BY <1>1, <1>5
<1>9. ASSUME NEW j \in 1..Len(r), NEW k \in 1..Len(r), r[j] = r[k] PROVE j = k
  <2> DEFINE x == IF j < i THEN j ELSE j + 1
             y == IF k < i THEN k ELSE k + 1
  <2>1. x \in 1..n /\ y \in 1..n /\ j \in Nat /\ k \in Nat
    BY <1>8
  <2>2. r[j] = q[x] /\ r[k] = q[y]
    BY <1>6
  <2>3. x = y
    BY <1>7, <1>9, <2>1, <2>2
  <2> QED BY <1>1, <2>1, <2>3
<1>10. DOMAIN r = 1..Len(r)
  BY <1>5
<1>11. IsInjective(r)
  BY <1>9, <1>10 DEF IsInjective
<1>12. \A j \in 1..Len(r) : r[j] # q[i] /\ \E k \in 1..n : r[j] = q[k]
  BY <1>1, <1>6, <1>7, <1>8
<1> QED BY <1>5, <1>11, <1>12 DEF r, n

\* What a busy task awaits.
LEMMA AwaitedIs ==
  ASSUME LocksInv, NEW t \in Tasks, Busy(t)
  PROVE  /\ Lock(t) \in AllLocks /\ Lock(t) \in LockNames /\ Mode(t) \in Modes
         /\ Guard(todo[t][1]) = [lock |-> Lock(t), mode |-> Mode(t)]
         /\ todo[t] \in Seq(Awaits) /\ Len(todo[t]) > 0 /\ Tail(todo[t]) \in Seq(Awaits)
<1>1. todo[t] \in Seq(Awaits) /\ todo[t] # <<>>
  BY DEF LocksInv, Busy
<1>2. Len(todo[t]) \in Nat /\ Len(todo[t]) > 0 /\ 1 \in 1..Len(todo[t]) /\ Tail(todo[t]) \in Seq(Awaits)
  BY <1>1
<1>3. todo[t][1] \in Awaits
  BY <1>1, <1>2
<1>4. todo[t][1].lock \in AllLocks
  BY <1>2 DEF LocksInv, TaskInv, Keeps
<1>5. todo[t][1].lock \in LockNames /\ todo[t][1].mode \in Modes
  BY <1>3 DEF Awaits
<1> QED BY <1>1, <1>2, <1>4, <1>5 DEF Lock, Mode, Awaited, Guard

LEMMA TaskMoves ==
  ASSUME LocksInv, NEW t \in Tasks, NEW f \in Seq(Awaits), NEW h,
         Keeps(f, h, Used(t), NestedOf(t)),
         todo' = [todo EXCEPT ![t] = f], held' = [held EXCEPT ![t] = h]
  PROVE  /\ todo' \in [Tasks -> Seq(Awaits)] /\ held' \in [Tasks -> SUBSET Guards]
         /\ \A u \in Tasks : TaskInv(u)'
         /\ \A u \in Tasks : u # t => todo'[u] = todo[u]
         /\ todo'[t] = f
<1>1. /\ todo' \in [Tasks -> Seq(Awaits)] /\ held' \in [Tasks -> SUBSET Guards]
      /\ \A u \in Tasks : u # t => todo'[u] = todo[u] /\ held'[u] = held[u]
      /\ todo'[t] = f /\ held'[t] = h
  <2>1. h \subseteq Guards
    BY DEF Keeps, Used, Quiet
  <2> QED BY <2>1 DEF LocksInv
<1>2. ASSUME NEW u \in Tasks PROVE TaskInv(u)'
  <2>1. CASE u = t
    <3>1. Keeps(todo'[t], held'[t], Used(t), NestedOf(t))
      BY <1>1
    <3> QED BY <2>1, <3>1 DEF TaskInv, Keeps
  <2>2. CASE u # t
    <3>1. Keeps(todo'[u], held'[u], Used(u), NestedOf(u))
      BY <1>1, <2>2 DEF LocksInv, TaskInv
    <3> QED BY <3>1 DEF TaskInv, Keeps
  <2> QED BY <2>1, <2>2
<1> QED BY <1>1, <1>2

LEMMA CallStep ==
  ASSUME LocksInv, NEW t \in Tasks, Call(t)
  PROVE  LocksInv'
<1>1. PICK s \in Steps[t] : todo' = [todo EXCEPT ![t] = s] /\ Asks(t, s[1].lock)
  BY DEF Call
<1>2. /\ Keeps(s, {}, Used(t), NestedOf(t)) /\ s \in Seq(Awaits) /\ Len(s) > 0 /\ s # <<>>
      /\ s[1].lock \in AllLocks
  <2>1. Keeps(s, {}, Used(t), NestedOf(t)) /\ s \in Seq(Awaits) /\ Len(s) > 0 /\ s # <<>>
    BY FreshKeeps
  <2>2. 1 \in 1..Len(s)
    BY <2>1
  <2>3. s[1].lock \in AllLocks
    BY <2>1, <2>2 DEF Keeps
  <2> QED BY <2>1, <2>3
<1>3. ~Busy(t) /\ todo[t] = <<>> /\ held' = held /\ sent' = sent
  BY DEF Call, Busy
<1>4. held[t] = {}
  BY <1>3, DoneHolds DEF LocksInv, TaskInv
<1>5. held' = [held EXCEPT ![t] = {}]
  BY <1>3, <1>4 DEF LocksInv
<1>6. NotInLine(t)
  BY <1>3, WaitsInLine DEF Waits
<1>7. /\ todo' \in [Tasks -> Seq(Awaits)] /\ held' \in [Tasks -> SUBSET Guards]
      /\ \A u \in Tasks : TaskInv(u)'
      /\ \A u \in Tasks : u # t => todo'[u] = todo[u]
      /\ todo'[t] = s
  BY <1>1, <1>2, <1>5, TaskMoves
<1>8. LineInv'
  BY <1>1, <1>2, <1>6, <1>7, LineJoined DEF Asks, LocksInv
<1> QED BY <1>3, <1>7, <1>8 DEF LocksInv

LEMMA AskLockStep ==
  ASSUME LocksInv, NEW t \in Tasks, Ask(t)
  PROVE  LocksInv'
<1>1. /\ Busy(t) /\ ~Waits(t) /\ todo' = todo /\ held' = held /\ sent' = sent
      /\ line' = [line EXCEPT ![Lock(t)] = Append(@, t)]
  BY DEF Ask, Asks
<1>2. NotInLine(t)
  BY <1>1, WaitsInLine
<1>3. Lock(t) \in AllLocks /\ todo'[t] # <<>> /\ todo'[t][1].lock = Lock(t)
  BY <1>1, AwaitedIs DEF Lock, Awaited, Busy
<1>4. \A u \in Tasks : u # t => todo'[u] = todo[u]
  BY <1>1
<1>5. LineInv'
  BY <1>1, <1>2, <1>3, <1>4, LineJoined DEF LocksInv
<1>6. \A u \in Tasks : TaskInv(u)'
  BY <1>1 DEF LocksInv, TaskInv, Keeps
<1> QED BY <1>1, <1>5, <1>6 DEF LocksInv

LEMMA SkipStep ==
  ASSUME LocksInv, NEW t \in Tasks, Skip(t)
  PROVE  LocksInv'
<1> DEFINE h == {g \in held[t] : g.lock \notin todo[t][1].drop}
<1>1. /\ Busy(t) /\ ~Waits(t) /\ line' = line /\ sent' = sent /\ todo[t] # <<>>
      /\ todo' = [todo EXCEPT ![t] = Tail(todo[t])] /\ held' = [held EXCEPT ![t] = h]
  BY DEF Skip, Goes, Awaited, Busy
<1>2. Keeps(Tail(todo[t]), h, Used(t), NestedOf(t))
  <2>1. held[t] \in SUBSET (held[t] \cup {Guard(todo[t][1])})
    OBVIOUS
  <2> QED BY <1>1, <2>1, TailKeeps DEF LocksInv, TaskInv
<1>3. Tail(todo[t]) \in Seq(Awaits)
  BY <1>1, AwaitedIs
<1> HIDE DEF h
<1>4. /\ todo' \in [Tasks -> Seq(Awaits)] /\ held' \in [Tasks -> SUBSET Guards]
      /\ \A u \in Tasks : TaskInv(u)'
      /\ \A u \in Tasks : u # t => todo'[u] = todo[u]
  BY <1>1, <1>2, <1>3, TaskMoves
<1>5. LineInv'
  BY <1>1, <1>4, WaitsInLine, LineSame DEF LocksInv
<1> QED BY <1>1, <1>4, <1>5 DEF LocksInv

LEMMA GiveUpStep ==
  ASSUME LocksInv, NEW t \in Tasks, GiveUp(t)
  PROVE  LocksInv'
<1> DEFINE q == line[Lock(t)]
           i == CHOOSE j \in DOMAIN q : q[j] = t
<1>1. /\ Busy(t) /\ Waits(t) /\ sent' = sent
      /\ line' = [line EXCEPT ![Lock(t)] = RemoveAt(q, i)]
      /\ todo' = [todo EXCEPT ![t] = <<>>] /\ held' = [held EXCEPT ![t] = {}]
  BY DEF GiveUp
<1>2. Lock(t) \in AllLocks
  BY <1>1, AwaitedIs
<1>3. q \in Seq(Tasks) /\ IsInjective(q) /\ DOMAIN q = 1..Len(q)
  BY <1>2 DEF LocksInv, LineInv
<1>4. i \in 1..Len(q) /\ q[i] = t
  BY <1>1, <1>3 DEF Waits
<1> HIDE DEF i, q
<1>5. /\ RemoveAt(q, i) \in Seq(Tasks) /\ IsInjective(RemoveAt(q, i))
      /\ \A j \in 1..Len(RemoveAt(q, i)) :
           RemoveAt(q, i)[j] # t /\ \E k \in 1..Len(q) : RemoveAt(q, i)[j] = q[k]
  BY <1>3, <1>4, Removed
<1>6. Keeps(<<>>, {}, Used(t), NestedOf(t)) /\ <<>> \in Seq(Awaits)
  BY DoneKeeps
<1>7. /\ todo' \in [Tasks -> Seq(Awaits)] /\ held' \in [Tasks -> SUBSET Guards]
      /\ \A u \in Tasks : TaskInv(u)'
      /\ \A u \in Tasks : u # t => todo'[u] = todo[u]
  BY <1>1, <1>6, TaskMoves
<1>8. LineInv'
  BY <1>1, <1>2, <1>5, <1>7, LineLeft DEF LocksInv, q
<1> QED BY <1>1, <1>7, <1>8 DEF LocksInv

LEMMA GrantStep ==
  ASSUME LocksInv, NEW t \in Tasks, Grant(t)
  PROVE  LocksInv'
<1> DEFINE q == line[Lock(t)]
           a == [lock |-> Lock(t), mode |-> Mode(t)]
           h == {g \in held[t] \cup {a} : g.lock \notin todo[t][1].drop}
<1>1. /\ Busy(t) /\ Waits(t) /\ Head(q) = t /\ Free(t)
      /\ line' = [line EXCEPT ![Lock(t)] = Tail(q)] /\ todo[t] # <<>>
  BY DEF Grant, Busy
<1>2. /\ Lock(t) \in AllLocks /\ Guard(todo[t][1]) = a
      /\ Tail(todo[t]) \in Seq(Awaits)
  BY <1>1, AwaitedIs
<1>3. q \in Seq(Tasks) /\ IsInjective(q) /\ DOMAIN q = 1..Len(q) /\ Len(q) \in Nat
  BY <1>2 DEF LocksInv, LineInv
<1>4. q # <<>> /\ Len(q) > 0 /\ q[1] = t
  <2>1. \E j \in 1..Len(q) : q[j] = t
    BY <1>1, <1>3 DEF Waits
  <2>2. Len(q) > 0
    BY <1>3, <2>1
  <2> QED BY <1>1, <1>3, <2>2
<1>5. /\ Tail(q) \in Seq(Tasks) /\ IsInjective(Tail(q))
      /\ \A j \in 1..Len(Tail(q)) : Tail(q)[j] # t /\ \E k \in 1..Len(q) : Tail(q)[j] = q[k]
  <2>1. /\ Tail(q) \in Seq(Tasks) /\ Len(Tail(q)) = Len(q) - 1 /\ DOMAIN Tail(q) = 1..Len(q) - 1
        /\ \A j \in 1..Len(q) - 1 : Tail(q)[j] = q[j + 1] /\ j + 1 \in 1..Len(q) /\ j + 1 # 1
    BY <1>3, <1>4
  <2>2. \A j, k \in 1..Len(q) : q[j] = q[k] => j = k
    BY <1>3 DEF IsInjective
  <2>3. 1 \in 1..Len(q)
    BY <1>3, <1>4
  <2> HIDE DEF q
  <2>4. \A j, k \in 1..Len(q) - 1 : j + 1 = k + 1 => j = k
    BY <1>3
  <2>5. IsInjective(Tail(q))
    BY <2>1, <2>2, <2>4 DEF IsInjective
  <2>6. \A j \in 1..Len(q) - 1 : Tail(q)[j] # t
    BY <1>4, <2>1, <2>2, <2>3
  <2> QED BY <2>1, <2>5, <2>6
<1>6. \/ /\ todo' = [todo EXCEPT ![t] = Tail(todo[t])]
         /\ held' = [held EXCEPT ![t] = h]
      \/ todo' = [todo EXCEPT ![t] = <<>>] /\ held' = [held EXCEPT ![t] = {}]
  BY DEF Grant, Taken, Goes, Awaited
<1>7. Keeps(Tail(todo[t]), h, Used(t), NestedOf(t))
  <2>1. Keeps(todo[t], held[t], Used(t), NestedOf(t))
    BY DEF LocksInv, TaskInv
  <2>2. held[t] \cup {a} \in SUBSET (held[t] \cup {Guard(todo[t][1])})
    BY <1>2
  <2> QED BY <1>1, <2>1, <2>2, TailKeeps
<1>8. Keeps(<<>>, {}, Used(t), NestedOf(t)) /\ <<>> \in Seq(Awaits)
  BY DoneKeeps
<1> HIDE DEF h
<1>9. /\ todo' \in [Tasks -> Seq(Awaits)] /\ held' \in [Tasks -> SUBSET Guards]
      /\ \A u \in Tasks : TaskInv(u)'
      /\ \A u \in Tasks : u # t => todo'[u] = todo[u]
  <2>1. CASE todo' = [todo EXCEPT ![t] = Tail(todo[t])] /\ held' = [held EXCEPT ![t] = h]
    BY <1>2, <1>7, <2>1, TaskMoves
  <2>2. CASE todo' = [todo EXCEPT ![t] = <<>>] /\ held' = [held EXCEPT ![t] = {}]
    BY <1>8, <2>2, TaskMoves
  <2> QED BY <1>6, <2>1, <2>2
<1>10. LineInv'
  BY <1>1, <1>2, <1>5, <1>9, LineLeft DEF LocksInv
<1>11. sent' \in 0..Room
  <2>1. sent \in 0..Room /\ Room \in Nat
    BY LocksAssumption DEF LocksInv
  <2>2. ~(Lock(t) = "room" /\ sent = Room) /\ ~(Lock(t) = "item" /\ sent = 0)
    BY <1>1 DEF Free, Full, Empty
  <2>3. sent' = CASE Lock(t) = "room" -> sent + 1 [] Lock(t) = "item" -> sent - 1 [] OTHER -> sent
    BY DEF Grant, Taken
  <2> QED BY <2>1, <2>2, <2>3
<1> QED BY <1>9, <1>10, <1>11 DEF LocksInv

LEMMA LocksInvStep ==
  ASSUME LocksInv, LocksNext
  PROVE  LocksInv'
BY CallStep, AskLockStep, GrantStep, SkipStep, GiveUpStep DEF LocksNext

-----------------------------------------------------------------------------
(* No circle of tasks that wait for one another.                           *)

\* What a task holds and what it waits for are in order.
LEMMA HoldsInOrder ==
  ASSUME LocksInv, NEW t \in Tasks, Busy(t), NEW g \in held[t]
  PROVE  LET a == [lock |-> Lock(t), mode |-> Mode(t)]
         IN  <<g, a>> \in NestedOf(t) /\ g \in Used(t) /\ a \in Used(t)
<1> DEFINE f == todo[t]
<1>1. Guard(f[1]) = [lock |-> Lock(t), mode |-> Mode(t)] /\ f \in Seq(Awaits) /\ Len(f) > 0
  BY AwaitedIs
<1>2. 1 \in 1..Len(f) /\ 1..1 - 1 = {}
  BY <1>1
<1>3. Keeps(f, held[t], Used(t), NestedOf(t))
  BY DEF LocksInv, TaskInv
<1> HIDE DEF f
<1>4. <<g, Guard(f[1])>> \in NestedOf(t) /\ g \in Used(t) /\ Guard(f[1]) \in Used(t)
  BY <1>2, <1>3 DEF Keeps
<1> QED BY <1>1, <1>4

\* The tasks T that wait for one another for ever.
Circle(T) ==
  /\ T \subseteq {t \in Tasks : Waits(t)} /\ Hopeless(T)
  /\ \A t \in T : ~Full(t) /\ ~Holds(t, t)

\* Of those in the line of a lock, the first waits for one that holds it.
LEMMA FirstInLine ==
  ASSUME LocksInv, NEW T, Circle(T), NEW t \in T
  PROVE  \E s, v \in T : Lock(s) = Lock(t) /\ s # v /\ Holds(v, s)
<1> DEFINE l == Lock(t)
           q == line[l]
           S == {i \in 1..Len(q) : q[i] \in T}
<1>1. T \subseteq Tasks /\ \A u \in T : Busy(u) /\ Waits(u)
  BY DEF Circle, Waits
<1>2. l \in AllLocks
  BY <1>1, AwaitedIs
<1>3. /\ q \in Seq(Tasks) /\ DOMAIN q = 1..Len(q) /\ Len(q) \in Nat
      /\ \A i \in 1..Len(q) : Lock(q[i]) = l
  BY <1>2 DEF LocksInv, LineInv
<1>4. S \in SUBSET Nat /\ S # {}
  <2>1. \E i \in 1..Len(q) : q[i] = t
    BY <1>1, <1>3 DEF Waits
  <2> QED BY <1>3, <2>1
<1>5. PICK i \in S : \A j \in S : i <= j
  BY <1>4, LeastNumber
<1> DEFINE s == q[i]
<1>6. i \in 1..Len(q) /\ s \in T /\ Lock(s) = l
  BY <1>3
<1>7. PICK u \in T : Hinders(u, s)
  BY <1>6 DEF Circle, Hopeless
<1>8. ~Before(u, s)
  <2> SUFFICES ASSUME Before(u, s) PROVE FALSE
    OBVIOUS
  <2>1. PICK j \in 1..Len(q), k \in 1..Len(q) : j < k /\ q[j] = u /\ q[k] = s
    BY <1>3, <1>6 DEF Before
  <2>2. IsInjective(q)
    BY <1>2 DEF LocksInv, LineInv
  <2>3. k = i
    BY <1>3, <1>6, <2>1, <2>2 DEF IsInjective
  <2>4. j \in S
    BY <2>1
  <2>5. i <= j
    BY <1>5, <2>4
  <2> QED BY <2>1, <2>3, <2>5
<1>9. Holds(u, s) /\ u # s
  BY <1>6, <1>7, <1>8 DEF Hinders, Circle
<1> HIDE DEF s
<1> QED BY <1>6, <1>9

\* Only the consensus task writes the chain and the validators.
LEMMA OnlyConsensus ==
  ASSUME LocksInv, NEW t \in Tasks, t # ConsensusTask
  PROVE  /\ \A g \in held[t] : g # Wr("chain") /\ g # Wr("validators")
         /\ Busy(t) => LET a == [lock |-> Lock(t), mode |-> Mode(t)]
                       IN  a # Wr("chain") /\ a # Wr("validators")
<1>1. Used(t) = Quiet
  BY DEF Used
<1>2. held[t] \subseteq Quiet
  BY <1>1 DEF LocksInv, TaskInv, Keeps
<1>3. ASSUME Busy(t) PROVE [lock |-> Lock(t), mode |-> Mode(t)] \in Quiet
  <2>1. Guard(todo[t][1]) = [lock |-> Lock(t), mode |-> Mode(t)]
        /\ todo[t] \in Seq(Awaits) /\ Len(todo[t]) > 0
    BY <1>3, AwaitedIs
  <2>2. 1 \in 1..Len(todo[t])
    BY <2>1
  <2>3. Guard(todo[t][1]) \in Quiet
    BY <1>1, <2>2 DEF LocksInv, TaskInv, Keeps
  <2> QED BY <2>1, <2>3
<1> QED BY <1>2, <1>3 DEF Quiet

LEMMA GuardIs ==
  ASSUME NEW g \in Guards
  PROVE  g = [lock |-> g.lock, mode |-> g.mode]
BY DEF Guards

\* Who waits behind a holder that has not to write: then it writes itself.
LEMMA ReadersDoNotClash ==
  ASSUME LocksInv, NEW v \in Tasks, NEW s \in Tasks, Busy(s), Holds(v, s),
         Lock(s) = "chain" \/ Lock(s) = "validators"
  PROVE  v = ConsensusTask \/ s = ConsensusTask
<1> SUFFICES ASSUME v # ConsensusTask, s # ConsensusTask PROVE FALSE
  OBVIOUS
<1>1. PICK g \in held[v] : g.lock = Lock(s) /\ (g.mode = "write" \/ Mode(s) = "write")
  BY DEF Holds, Clash
<1>2. g \in Guards
  BY DEF LocksInv
<1>3. g # Wr("chain") /\ g # Wr("validators")
  BY OnlyConsensus
<1>4. /\ [lock |-> Lock(s), mode |-> Mode(s)] # Wr("chain")
      /\ [lock |-> Lock(s), mode |-> Mode(s)] # Wr("validators")
  BY OnlyConsensus
<1>5. g = [lock |-> Lock(s), mode |-> g.mode]
  BY <1>1, <1>2, GuardIs
<1> QED BY <1>1, <1>3, <1>4, <1>5 DEF Wr

LEMMA NoCircle ==
  ASSUME LocksInv, NEW T, Circle(T)
  PROVE  T = {}
<1> SUFFICES ASSUME T # {} PROVE FALSE
  OBVIOUS
<1>1. T \subseteq Tasks /\ \A t \in T : Busy(t) /\ ~Holds(t, t)
  BY DEF Circle, Waits
<1>2. \A t \in T : Rank(Lock(t)) \in 0..12
  BY <1>1, AwaitedIs, RankRange
<1>3. PICK top \in T : \A t \in T : Rank(Lock(t)) <= Rank(Lock(top))
  <2> DEFINE S == {12 - Rank(Lock(t)) : t \in T}
  <2>1. S \in SUBSET Nat /\ S # {}
    BY <1>2
  <2>2. PICK n \in S : \A m \in S : n <= m
    BY <2>1, LeastNumber
  <2>3. PICK top \in T : n = 12 - Rank(Lock(top))
    OBVIOUS
  <2>4. ASSUME NEW t \in T PROVE Rank(Lock(t)) <= Rank(Lock(top))
    <3>1. n <= 12 - Rank(Lock(t))
      BY <2>2
    <3> HIDE DEF S
    <3> QED BY <1>2, <2>3, <3>1
  <2> QED BY <2>4
<1>4. PICK s \in T, v \in T : Lock(s) = Lock(top) /\ Holds(v, s)
  BY FirstInLine
<1>5. PICK g \in held[v] : g.lock = Lock(top) /\ Clash(g.mode, Mode(s))
  BY <1>4 DEF Holds
<1> DEFINE a == [lock |-> Lock(v), mode |-> Mode(v)]
<1>6. <<g, a>> \in NestedOf(v) /\ g \in Guards /\ a.lock = Lock(v) /\ a.mode = Mode(v)
  BY <1>1, HoldsInOrder DEF LocksInv
<1>7. <<g, a>> \in Nested \/ (v = ConsensusTask /\ g = Rd("delegations") /\ a = Rd("validators"))
  <2>1. CASE v = ConsensusTask
    BY <1>6, <2>1 DEF NestedOf, ConsensusNested
  <2>2. CASE v # ConsensusTask
    BY <1>6, <2>2 DEF NestedOf
  <2> QED BY <2>1, <2>2
<1> HIDE DEF a
<1>8. \/ Rank(g.lock) < Rank(a.lock)
      \/ g.lock = a.lock /\ Clash(g.mode, a.mode)
      \/ g = Rd("chain") /\ a = Rd("validators")
      \/ v = ConsensusTask /\ g = Rd("delegations") /\ a = Rd("validators")
  BY <1>7 DEF Nested
<1>9. CASE Rank(g.lock) < Rank(a.lock)
  <2>1. Rank(Lock(v)) <= Rank(Lock(top)) /\ Rank(Lock(top)) < Rank(Lock(v))
    BY <1>3, <1>5, <1>6, <1>9
  <2> QED BY <1>2, <2>1
<1>10. CASE g.lock = a.lock /\ Clash(g.mode, a.mode)
  <2>1. Holds(v, v)
    BY <1>6, <1>10 DEF Holds
  <2> QED BY <1>1, <2>1
<1>11. ASSUME a = Rd("validators")
       PROVE  \E w \in T, x \in T : Lock(w) = "validators" /\ Holds(x, w)
  <2>1. Lock(v) = "validators"
    BY <1>6, <1>11 DEF Rd
  <2> QED BY <2>1, FirstInLine
<1>12. CASE g = Rd("chain") /\ a = Rd("validators")
  <2>1. Lock(s) = "chain" /\ Mode(s) = "write"
    BY <1>4, <1>5, <1>12 DEF Rd, Clash
  <2>2. s = ConsensusTask
    <3>1. [lock |-> Lock(s), mode |-> Mode(s)] = Wr("chain")
      BY <2>1 DEF Wr
    <3> QED BY <1>1, <3>1, OnlyConsensus
  <2>3. held[s] = {}
    <3> SUFFICES ASSUME NEW h \in held[s] PROVE FALSE
      OBVIOUS
    <3>1. <<h, Wr("chain")>> \in ConsensusNested
      BY <1>1, <2>1, <2>2, HoldsInOrder DEF Wr, NestedOf
    <3>2. Wr("chain") # Rd("validators")
      BY DEF Wr, Rd
    <3> QED BY <3>1, <3>2 DEF ConsensusNested, Nested
  <2>4. PICK w \in T, x \in T : Lock(w) = "validators" /\ Holds(x, w)
    BY <1>11, <1>12
  <2>5. x = ConsensusTask \/ w = ConsensusTask
    BY <1>1, <2>4, ReadersDoNotClash
  <2>6. w # s
    BY <2>1, <2>4
  <2> QED BY <2>2, <2>3, <2>4, <2>5, <2>6 DEF Holds
<1>13. CASE v = ConsensusTask /\ g = Rd("delegations") /\ a = Rd("validators")
  <2>1. PICK w \in T, x \in T : Lock(w) = "validators" /\ Holds(x, w)
    BY <1>11, <1>13
  <2>2. PICK h \in held[x] : h.lock = "validators" /\ Clash(h.mode, Mode(w))
    BY <2>1 DEF Holds
  <2>3. Lock(v) = "validators" /\ Mode(v) = "read"
    BY <1>6, <1>13 DEF Rd
  <2>4. Mode(w) # "write"
    <3> SUFFICES ASSUME Mode(w) = "write" PROVE FALSE
      OBVIOUS
    <3>1. [lock |-> Lock(w), mode |-> Mode(w)] = Wr("validators")
      BY <2>1 DEF Wr
    <3>2. w = ConsensusTask
      BY <1>1, <3>1, OnlyConsensus
    <3> QED BY <1>13, <2>3, <3>2
  <2>5. h.mode = "write" /\ h \in Guards
    BY <1>1, <2>2, <2>4 DEF Clash, LocksInv
  <2>6. h = Wr("validators")
    BY <2>2, <2>5, GuardIs DEF Wr
  <2>7. x = ConsensusTask
    BY <1>1, <2>6, OnlyConsensus
  <2>8. Holds(v, v)
    BY <1>13, <2>2, <2>3, <2>5, <2>7 DEF Holds, Clash
  <2> QED BY <1>1, <2>8
<1> QED BY <1>8, <1>9, <1>10, <1>12, <1>13

LEMMA LocksFollow ==
  ASSUME LocksInv
  PROVE  LocksTypeOK /\ LocksGranted
<1>1. LocksTypeOK
  <2>1. \A l \in AllLocks : IsInjective(line[l]) /\ \A i \in DOMAIN line[l] : line[l][i] \in Tasks
    BY DEF LocksInv, LineInv
  <2>2. ASSUME NEW t \in Tasks, ~Busy(t) PROVE held[t] = {}
    BY <2>2, DoneHolds DEF LocksInv, TaskInv, Busy
  <2> QED BY <2>1, <2>2 DEF LocksTypeOK, LocksInv
<1>2. LocksGranted
  <2> SUFFICES ASSUME NEW T \in SUBSET {t \in Tasks : Waits(t)}, T # {}, Hopeless(T),
                      \A t \in T : ~(Full(t) \/ Holds(t, t))
               PROVE  FALSE
    BY DEF LocksGranted
  <2>1. Circle(T)
    BY DEF Circle
  <2> QED BY <2>1, NoCircle
<1> QED BY <1>1, <1>2

LEMMA LocksInvStutters ==
  ASSUME LocksInv, [LocksNext]_lockVars
  PROVE  LocksInv'
<1>1. CASE LocksNext
  BY <1>1, LocksInvStep
<1>2. CASE UNCHANGED lockVars
  BY <1>2 DEF lockVars, LocksInv, TaskInv, Keeps, LineInv, Lock, Awaited
<1> QED BY <1>1, <1>2

-----------------------------------------------------------------------------
(* The manager as a whole.                                                 *)

\* A step of the manager is one of the sequencer or leaves it as it is, and so for
\* the handlers and the locks.
LEMMA ManagerSteps ==
  ASSUME [ChainNext \/ ReadsNext \/ GuardsNext]_managerVars
  PROVE  [Next]_vars /\ [Reads!Next]_(Reads!readsVars) /\ [LocksNext]_lockVars
BY DEF ChainNext, ReadsNext, GuardsNext, managerVars, answerVars, Reads!readsVars,
       Reads!ledgerVars

LEMMA ManagerInvariant ==
  ManagerSpec => [](SeqInv /\ DraftInv /\ ReaderInv /\ ReadsInv /\ LocksInv)
<1>1. ManagerInit => SeqInv /\ DraftInv /\ ReaderInv /\ ReadsInv /\ LocksInv
  BY SeqInvInit, ReadsInvInit, LocksInvInit
  DEF ManagerInit, Init, DraftInv, ReaderInv, Building
<1>2. /\ SeqInv /\ DraftInv /\ ReaderInv /\ ReadsInv /\ LocksInv
      /\ [ChainNext \/ ReadsNext \/ GuardsNext]_managerVars
      => SeqInv' /\ DraftInv' /\ ReaderInv' /\ ReadsInv' /\ LocksInv'
  BY ManagerSteps, SeqInvStep, DraftStep, ReaderStep, ReadsInvStep, LocksInvStutters
<1> QED BY <1>1, <1>2, PTL DEF ManagerSpec

\* The RPC handlers hold no lock between two questions: get_latest_block_info does not
\* fall behind; the blocks that eth_getBlockByNumber and eth_getBlockByHash tell are
\* linked; an operation that is in the mempool or in a block is found and one that was
\* entered is not unknown, whatever is appended in between; and no hash told finds a
\* block.
THEOREM AnswersAreSound == ManagerSpec => []AnswersHold
<1>1. SeqInv /\ DraftInv /\ ReaderInv /\ ReadsInv /\ LocksInv => AnswersHold
  BY AnswersFollow DEF AnswersHold, ReaderInv, Known, LatestInfoNotBehind
<1> QED BY <1>1, ManagerInvariant, PTL

\* No call waits for ever for a lock of the node, whatever the number of handlers, the
\* order the guards are asked for and dropped and the calls that are given up, but behind
\* the full channel of the mempool or for what it holds itself.
THEOREM LocksAreGranted == ManagerSpec => []LocksGranted
<1>1. LocksInv => LocksGranted
  BY LocksFollow
<1> QED BY <1>1, ManagerInvariant, PTL

\* The sequencer's chain and channel, the handlers' calls and the lines of the locks keep
\* to their types; who stands in a line stands there once, and who has done its call
\* holds no guard.
THEOREM ManagerTypes == ManagerSpec => []ManagerTypeOK
<1>1. SeqInv /\ DraftInv /\ ReaderInv /\ ReadsInv /\ LocksInv => ManagerTypeOK
  <2> SUFFICES ASSUME SeqInv, ReadsInv, LocksInv PROVE ManagerTypeOK
    OBVIOUS
  <2>1. TypeOK
    BY DEF SeqInv
  <2>2. Reads!TypeOK
    BY ReadsTyped
  <2>3. LocksTypeOK
    BY LocksFollow
  <2> QED BY <2>1, <2>2, <2>3 DEF ManagerTypeOK
<1> QED BY <1>1, ManagerInvariant, PTL
=============================================================================
