------------------------------ MODULE MCEvmCalls ------------------------------
(* A small instance of EvmCalls: three contracts with one slot. *)
EXTENDS EvmCalls

CONSTANTS c1, c2, c3, slot, owner

Three == {c1, c2, c3}
OneSlot == {slot}
TwoValues == {1, 2}

AnyContract == Permutations(Three)

=============================================================================
