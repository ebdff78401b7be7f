----------------------------- MODULE BlockAnchor -----------------------------
(***************************************************************************)
(* The Bitcoin anchors of the Slura blocks: get_block_anchor makes three   *)
(* RPC calls for the height of the block being produced, and the node's    *)
(* best chain may change between them.  The Merkle root, which comes from  *)
(* a fourth call by hash and may be missing, is left out.                  *)
(***************************************************************************)
EXTENDS BitcoinNode

VARIABLES
  apc,         \* where get_block_anchor is
  aHeight,     \* btc_height of the Slura block being produced
  anchor,      \* the anchor being assembled
  anchors      \* bitcoin_anchor of the last two Slura blocks

anchorVars == <<nodeVars, apc, aHeight, anchor, anchors>>

NoAnchor == [hash |-> <<>>, txids |-> {}, prev |-> <<>>, height |-> 0]

AnchorInit ==
  /\ NodeInit
  /\ apc = "idle" /\ aHeight = 0 /\ anchor = NoAnchor /\ anchors = <<>>

AnchorNewBlocks == NodeStep /\ UNCHANGED <<apc, aHeight, anchor, anchors>>

\* the anchor of the block that is appended to the chain
Record(a) ==
  anchors' = IF anchors = <<>> THEN <<a>> ELSE <<Last(anchors), a>>

-----------------------------------------------------------------------------
(* The block producer's anchors: get_block_anchor(btc_height).             *)

\* The consensus task anchors a Bitcoin height at most once, in order: it starts
\* at the head, and a height whose block is refused is not anchored.
StartAnchor ==
  /\ apc = "idle" /\ apc' = "hash"
  /\ aHeight' \in (aHeight + 1)..Len(best)
  /\ anchor' = [NoAnchor EXCEPT !.height = aHeight']
  /\ UNCHANGED <<nodeVars, anchors>>

AnchorHash ==
  /\ apc = "hash" /\ apc' = "txs"
  /\ anchor' = [anchor EXCEPT !.hash = HashAt(aHeight)]
  /\ UNCHANGED <<nodeVars, aHeight, anchors>>

AnchorTxs_ByHeight ==
  /\ apc = "txs" /\ apc' = "prev"
  /\ anchor' = [anchor EXCEPT !.txids = BlockTxs(HashAt(aHeight))]
  /\ UNCHANGED <<nodeVars, aHeight, anchors>>
AnchorTxs ==
  /\ apc = "txs" /\ apc' = "prev"
  /\ anchor' = [anchor EXCEPT !.txids = BlockTxs(anchor.hash)]
  /\ UNCHANGED <<nodeVars, aHeight, anchors>>

\* the hash at height - 1, asked for after the block itself: the anchor is
\* complete (a missing Merkle root is not an error) and goes into the block
AnchorPrevious_Own ==
  /\ apc = "prev" /\ apc' = "idle"
  /\ Record([anchor EXCEPT !.prev = HashAt(aHeight)])
  /\ UNCHANGED <<nodeVars, aHeight, anchor>>
AnchorPrevious ==
  /\ apc = "prev" /\ apc' = "idle"
  /\ Record([anchor EXCEPT !.prev = HashAt(aHeight - 1)])
  /\ UNCHANGED <<nodeVars, aHeight, anchor>>

\* a failed call leaves the block without an anchor (.ok())
AnchorFails ==
  /\ RpcFails /\ apc \in {"hash", "txs", "prev"} /\ apc' = "idle"
  /\ Record([NoAnchor EXCEPT !.height = aHeight])
  /\ UNCHANGED <<nodeVars, aHeight, anchor>>

-----------------------------------------------------------------------------
Producer == StartAnchor \/ AnchorHash \/ AnchorTxs \/ AnchorPrevious \/ AnchorFails

AnchorNext == AnchorNewBlocks \/ Producer

AnchorSpec == AnchorInit /\ [][AnchorNext]_anchorVars

-----------------------------------------------------------------------------
(* Properties.                                                             *)

Anchors == [hash : Chains, txids : SUBSET Txs, prev : Chains, height : Nat]

\* Every variable has the type its Rust declaration gives it.
AnchorTypeOK ==
  /\ NodeTypeOK
  /\ apc \in {"idle", "hash", "txs", "prev"} /\ aHeight \in Nat
  /\ anchor \in Anchors /\ anchors \in Seq(Anchors) /\ Len(anchors) <= 2

Anchored == {k \in 1..Len(anchors) : anchors[k].hash # <<>>}

\* The transactions of an anchor are those of the block it names, although the
\* two come from different calls and the height may change hands in between.
AnchorIsOneBlock ==
  \A k \in Anchored :
    /\ Len(anchors[k].hash) = anchors[k].height
    /\ anchors[k].txids = BlockTxs(anchors[k].hash)

\* The anchors of successive Slura blocks form a chain of Bitcoin blocks: only
\* a reorganisation of the height they meet at can break the link.
AnchorsChain ==
  \A k \in Anchored :
    anchors[k].height - 1 \notin replaced =>
      /\ anchors[k].prev = Front(anchors[k].hash)
      /\ (k - 1 \in Anchored /\ anchors[k - 1].height = anchors[k].height - 1)
           => anchors[k].prev = anchors[k - 1].hash

AnchorsHold == AnchorIsOneBlock /\ AnchorsChain

=============================================================================
