------------------------------ MODULE MCManager ------------------------------
(***************************************************************************)
(* The consensus manager from three sides: its task and the chain, as      *)
(* Sequencer has them; the RPC handlers that look for blocks in that chain *)
(* while it grows; and the locks that all of its functions take.  Each     *)
(* behaviour is one of a single side, chosen at the start, while the       *)
(* others keep their initial state: what one of them does to another, that *)
(* other has as steps of its own.                                          *)
(***************************************************************************)
EXTENDS MCSequencer, NodeLocks

CONSTANTS Ops, Sent, Asking, MaxBlocks, MaxRestarts, NoReceipt, NoDraft

\* an operation and a transaction have different hashes
ASSUME ReadsAssumption ==
  /\ Ops \cap Sent = {}
  /\ MaxBlocks \in Nat /\ MaxRestarts \in Nat
  /\ NoReceipt # [number |-> 0, hash |-> [of |-> "zero", stamp |-> 0]]

VARIABLES
  part,
  told, toldHash, making, waiting, receipts, entering, sending, calls, time, restarts

answerVars == <<told, toldHash, making, waiting, receipts, entering, sending, calls,
                time, restarts>>
managerVars == <<part, vars, answerVars, lockVars>>

Reads == INSTANCE RpcReads WITH
  Callers <- Asking, chain <- told, lastHash <- toldHash, draft <- making,
  pending <- waiting, clock <- time

ManagerInit ==
  /\ part \in {"chain", "reads", "locks"}
  /\ Init /\ Reads!Init /\ LocksInit
  /\ part # "chain" => head = 1 /\ ~vez

ChainNext == part = "chain" /\ Next /\ UNCHANGED <<part, answerVars, lockVars>>
ReadsNext == part = "reads" /\ Reads!Next /\ UNCHANGED <<part, vars, lockVars>>
GuardsNext == part = "locks" /\ LocksNext /\ UNCHANGED <<part, vars, answerVars>>

ManagerSpec == ManagerInit /\ [][ChainNext \/ ReadsNext \/ GuardsNext]_managerVars

ManagerTypeOK ==
  /\ part = "chain" => TypeOK
  /\ part = "reads" => Reads!TypeOK
  /\ part = "locks" => LocksTypeOK

\* The RPC handlers: get_latest_block_info does not fall behind; the blocks that
\* eth_getBlockByNumber and eth_getBlockByHash tell are linked, an operation that is
\* in the mempool or in a block is found and one that was entered is not unknown,
\* whatever is appended between their steps; and no hash told finds a block
AnswersHold ==
  /\ LatestInfoNotBehind
  /\ part = "reads" =>
       /\ Reads!AnswersLinked /\ Reads!FoundByTransaction
       /\ Reads!KnownFound /\ Reads!StatusNotBehind
=============================================================================
