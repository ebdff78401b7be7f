--------------------------- MODULE SidechainLedger ---------------------------
(***************************************************************************)
(* What the sequencer promises its users, without tasks, locks, mempool or *)
(* database keys: a ledger that only grows at its end, each block linked   *)
(* to the one before it, in the order of the Bitcoin heights, and a        *)
(* durable watermark below which no Bitcoin height is sequenced again.  A  *)
(* restart forgets the blocks and never the watermark.                     *)
(***************************************************************************)
EXTENDS Integers, Sequences

CONSTANT HashOf(_)   \* the hash a block is referred to by

VARIABLES blocks, root, watermark

ledgerVars == <<blocks, root, watermark>>

Tip == IF blocks = <<>> THEN root ELSE HashOf(blocks[Len(blocks)])

Init == blocks = <<>> /\ watermark = 0

Linked(b) ==
  /\ b.number = Len(blocks) + 1
  /\ b.parent = Tip
  /\ b.btc > watermark
  /\ blocks # <<>> => b.btc > blocks[Len(blocks)].btc

Extend ==
  /\ Len(blocks') = Len(blocks) + 1
  /\ blocks' = Append(blocks, blocks'[Len(blocks) + 1])
  /\ Linked(blocks'[Len(blocks) + 1])
  /\ UNCHANGED <<root, watermark>>

\* the first watermark is the height the ledger starts after; a later one is
\* the height of the last block
Advance ==
  /\ watermark' > watermark
  /\ watermark = 0 \/ (blocks # <<>> /\ watermark' = blocks[Len(blocks)].btc)
  /\ UNCHANGED <<blocks, root>>

Restart ==
  /\ blocks' = <<>>
  /\ root' # root
  /\ UNCHANGED watermark

Next == Extend \/ Advance \/ Restart

Spec == Init /\ [][Next]_ledgerVars

=============================================================================
