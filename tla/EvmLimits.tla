------------------------------ MODULE EvmLimits ------------------------------
(***************************************************************************)
(* The widths of the interpreter's words, the limits a frame of            *)
(* execute_program runs into, and the words its instructions are given.    *)
(***************************************************************************)
EXTENDS Integers

\* EvmAlu
CONSTANTS
  Bits, ByteBits, LowBits, \* widths of a word, of a byte, and of usize and i64
  Modulus,  \* two to the power of Bits
  Low,      \* and of LowBits
  MaxStack  \* bound: words on the stack

ASSUME WidthsAssumption ==
  /\ Bits \in Nat /\ ByteBits \in Nat \ {0} /\ LowBits \in 2 .. Bits
  /\ Bits % ByteBits = 0

\* the powers of two, by which the words are shifted
Power[n \in 0 .. Bits] == IF n = 0 THEN 1 ELSE 2 * Power[n - 1]
ASSUME ModulusAssumption == Modulus = Power[Bits] /\ Low = Power[LowBits]
ASSUME SizesAssumption == Modulus \in Nat \ {0} /\ Low \in 2 .. Modulus /\ MaxStack \in Nat

\* EvmFrame
CONSTANTS
  MaxDepth,  \* 1024 words of stack
  MaxReach,  \* 16, the reach of DUP and SWAP
  WordSize, StartMem, MaxMem, \* 32 bytes, 0x10000 and MAX_MEM
  SizeTop,   \* usize::MAX
  Operands   \* operands tried: those above SizeTop are the words of more than 64 bits

ASSUME LimitsAssumption ==
  /\ MaxDepth \in Nat /\ MaxReach \in Nat \ {0} /\ WordSize \in Nat \ {0}
  /\ StartMem \in Nat /\ MaxMem \in Nat /\ StartMem <= MaxMem
  /\ SizeTop \in Nat /\ 2 * MaxMem <= SizeTop /\ WordSize <= MaxMem
ASSUME WordsAssumption == Operands \subseteq Nat

=============================================================================
