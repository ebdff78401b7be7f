--------------------------- MODULE MCBitcoinBridge ---------------------------
(***************************************************************************)
(* A small instance of the bridge: transactions t1 and t2 mined at         *)
(* different heights of the two branches; t1 pays the bridge twice, t2     *)
(* once.  Deposits and anchors have only the Bitcoin node in common, which *)
(* neither changes: a behaviour has the steps of one of them, chosen at    *)
(* the start, and the node's.                                              *)
(***************************************************************************)
EXTENDS BitcoinBridge, BlockAnchor

CONSTANTS b1, b2, t1, t2

MCBranches == {b1, b2}
MCTxs == {t1, t2}

MCOutputs == t1 :> <<1, 2>> @@ t2 :> <<3>>

\* t1 is in the first block of either branch, t2 in the second block of one
\* branch or, when that block is of the other branch, in the third
MCTxsIn ==
  [hash \in Hashes |->
     CASE Len(hash) = 1 -> {t1}
       [] Len(hash) = 2 /\ hash[2] = b1 -> {t2}
       [] Len(hash) = 3 /\ hash[2] = b2 /\ hash[3] = b1 -> {t2}
       [] OTHER -> {}]

VARIABLE part

ownAnchorVars == <<apc, aHeight, anchor, anchors>>

PartsInit == part \in {"deposits", "anchors"} /\ Init /\ AnchorInit

DepositsNext == part = "deposits" /\ Next /\ UNCHANGED <<part, ownAnchorVars>>
AnchorsNext ==
  part = "anchors" /\ AnchorNext
    /\ UNCHANGED <<part, vezContract, deposits, watcherVars, asked>>

PartsVars == <<part, vars, ownAnchorVars>>

\* the fairness of FairSpec
PartsSpec ==
  /\ PartsInit /\ [][DepositsNext \/ AnchorsNext]_PartsVars
  /\ WF_PartsVars(DepositsNext /\ Watcher)
  /\ WF_PartsVars(DepositsNext /\ GetPendingDeposits)
  /\ SF_PartsVars(DepositsNext /\ WatchNewHeight /\ lastHeight' = Len(best))

PartsTypeOK == TypeOK /\ AnchorTypeOK

\* The watcher sees every new height, though a call that fails costs it a block, and
\* who asks for the pending deposits is answered, unless a VEZ contract is set
BridgeGoesOn == part = "deposits" => WatcherFollows /\ PendingAnswered
=============================================================================
