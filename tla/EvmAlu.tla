-------------------------------- MODULE EvmAlu --------------------------------
(***************************************************************************)
(* The arithmetic of execute_program: words of Bits bits on the stack of   *)
(* the interpreter, of which the signed operations keep the LowBits low    *)
(* bits (an i64), next to what the Ethereum specification says of each     *)
(* operation.  The build is the release one, whose usize and i64           *)
(* operations wrap; those of the 256-bit type panic on overflow, and the   *)
(* workspace's profiles abort the process on a panic.                      *)
(***************************************************************************)
EXTENDS EvmLimits, Sequences

VARIABLES
  stack,    \* evm_stack, its top first
  op,       \* the operation executed last
  aborted   \* has a panic ended the process

vars == <<stack, op, aborted>>

Words == 0 .. Modulus - 1
Bytes == Bits \div ByteBits
Panic == Modulus   \* no word

Init == stack = <<>> /\ op = "none" /\ aborted = FALSE

Truth(p) == IF p THEN 1 ELSE 0
Bit(x, i) == (x \div Power[i]) % 2 = 1
IsNegative(x) == Bit(x, Bits - 1)

-----------------------------------------------------------------------------
(* The helpers.                                                            *)

\* the sum of two residues that would not fit a word is taken modulo n first
AddModSafe_NoCheck(a, b, n) == (((a % n) + (b % n)) % Modulus) % n
AddModSafe(a, b, n) ==
  LET am == a % n
      bm == b % n
  IN IF am > Modulus - 1 - bm THEN (am - (n - bm)) % n ELSE (am + bm) % n

\* double and add when the product of the residues does not fit a word: the result,
\* the doubled base and what is left of b after k of its bits
MulModSafe_Wraps(a, b, n) == IF n <= 1 THEN 0 ELSE ((a * b) % Modulus) % n
MulModSafe(a, b, n) ==
  LET am == a % n
      bm == b % n
      loop[k \in 0 .. Bits] ==
        IF k = 0 THEN [result |-> 0, base |-> am, exp |-> bm]
        ELSE LET p == loop[k - 1]
             IN [result |-> IF p.exp % 2 = 1 THEN AddModSafe(p.result, p.base, n) ELSE p.result,
                 base |-> AddModSafe(p.base, p.base, n), exp |-> p.exp \div 2]
  IN CASE n <= 1 \/ a = 0 \/ b = 0 -> 0
       [] OTHER -> IF am * bm < Modulus THEN (am * bm) % n ELSE loop[Bits].result

\* i256_from_u256 and u256_from_i256, through an i64 that may wrap
AsI64(m) == IF m >= Low \div 2 THEN m - Low ELSE m
ToSigned_Low(v) == AsI64(v % Low)
ToSigned(v) ==
  IF IsNegative(v)
  THEN LET i == AsI64((Modulus - v) % Low) IN IF i = -(Low \div 2) THEN i ELSE -i
  ELSE AsI64(v % Low)

FromSigned_Negative(i) == i
FromSigned(i) == IF i < 0 THEN Modulus + i ELSE i

\* the quotient of two i64 towards zero; dividing by zero panics, and so does
\* the one quotient that is no i64
Abs(i) == IF i < 0 THEN -i ELSE i
Quotient(i, j) == IF (i < 0) = (j < 0) THEN Abs(i) \div Abs(j) ELSE -(Abs(i) \div Abs(j))
DividePanics(i, j) == j = 0 \/ (i = -(Low \div 2) /\ j = -1)

-----------------------------------------------------------------------------
(* The operations, a popped first.                                         *)

Div(a, b) == IF b = 0 THEN 0 ELSE a \div b
Mod(a, b) == IF b = 0 THEN 0 ELSE a % b

SDiv_Floor(a, b) ==
  IF b = 0 \/ ToSigned(b) <= 0 THEN 0 ELSE FromSigned(ToSigned(a) \div ToSigned(b))
SDiv(a, b) ==
  LET i == ToSigned(a)
      j == ToSigned(b)
  IN IF b = 0 THEN 0
     ELSE IF DividePanics(i, j) THEN Panic ELSE FromSigned(Quotient(i, j))

SMod(a, b) ==
  LET i == ToSigned(a)
      j == ToSigned(b)
  IN IF b = 0 THEN 0
     ELSE IF DividePanics(i, j) THEN Panic ELSE FromSigned(i - j * Quotient(i, j))

\* the mask of all the bytes is 1 << Bits, which is 0, less 1
SignExtend(b, x) ==
  LET size == Power[b * ByteBits + ByteBits]
  IN CASE b >= Bytes -> x
       [] b = Bytes - 1 -> Panic
       [] OTHER -> (x % size) + (IF Bit(x, b * ByteBits + ByteBits - 1) THEN Modulus - size ELSE 0)

ByteAt(i, x) ==
  IF i >= Bytes THEN 0 ELSE (x \div Power[(Bytes - 1 - i) * ByteBits]) % Power[ByteBits]

Shl(s, v) == IF s >= Bits THEN 0 ELSE (v * Power[s]) % Modulus
Shr(s, v) == IF s >= Bits THEN 0 ELSE v \div Power[s]
\* the sign mask MAX << (Bits - s) is 0 when s is
Sar(s, v) ==
  IF s >= Bits THEN IF IsNegative(v) THEN Modulus - 1 ELSE 0
  ELSE Shr(s, v) + (IF IsNegative(v) /\ s > 0 THEN Modulus - Power[Bits - s] ELSE 0)

Unary == {"ISZERO", "NOT"}
Signed == {"SDIV", "SMOD", "SLT", "SGT"}
Binary == {"ADD", "MUL", "SUB", "DIV", "MOD", "LT", "GT", "EQ",
           "SIGNEXTEND", "BYTE", "SHL", "SHR", "SAR"} \cup Signed
Ternary == {"ADDMOD", "MULMOD"}

Result1(o, a) == IF o = "NOT" THEN Modulus - 1 - a ELSE Truth(a = 0)

Result2(o, a, b) ==
  CASE o = "ADD" -> (a + b) % Modulus
    [] o = "MUL" -> (a * b) % Modulus
    [] o = "SUB" -> (a - b) % Modulus
    [] o = "DIV" -> Div(a, b)          [] o = "MOD" -> Mod(a, b)
    [] o = "SDIV" -> SDiv(a, b)        [] o = "SMOD" -> SMod(a, b)
    [] o = "LT" -> Truth(a < b)        [] o = "GT" -> Truth(a > b)
    [] o = "SLT" -> Truth(ToSigned(a) < ToSigned(b))
    [] o = "SGT" -> Truth(ToSigned(a) > ToSigned(b))
    [] o = "EQ" -> Truth(a = b)
    [] o = "SIGNEXTEND" -> SignExtend(a, b)
    [] o = "BYTE" -> ByteAt(a, b)
    [] o = "SHL" -> Shl(a, b)          [] o = "SHR" -> Shr(a, b)
    [] o = "SAR" -> Sar(a, b)

Result3(o, a, b, n) ==
  IF n = 0 THEN 0
  ELSE IF o = "ADDMOD" THEN AddModSafe(a, b, n) ELSE MulModSafe(a, b, n)

-----------------------------------------------------------------------------
\* PUSH: a program may push any word
PushWord ==
  /\ ~aborted /\ Len(stack) < MaxStack
  /\ \E w \in Words : stack' = <<w>> \o stack
  /\ op' = "PUSH" /\ UNCHANGED aborted

\* the operation o has taken k words and leaves w, or panics
Leave(o, k, w) ==
  /\ op' = o /\ aborted' = (w = Panic)
  /\ stack' = IF w = Panic THEN <<>> ELSE <<w>> \o SubSeq(stack, k + 1, Len(stack))

Execute1(o) == ~aborted /\ Len(stack) >= 1 /\ Leave(o, 1, Result1(o, stack[1]))
Execute2(o) == ~aborted /\ Len(stack) >= 2 /\ Leave(o, 2, Result2(o, stack[1], stack[2]))
Execute3(o) ==
  ~aborted /\ Len(stack) >= 3 /\ Leave(o, 3, Result3(o, stack[1], stack[2], stack[3]))

Next ==
  \/ PushWord
  \/ \E o \in Unary : Execute1(o)
  \/ \E o \in Binary : Execute2(o)
  \/ \E o \in Ternary : Execute3(o)

Spec == Init /\ [][Next]_vars

-----------------------------------------------------------------------------
(* Properties.                                                             *)

TypeOK ==
  /\ stack \in Seq(Words) /\ Len(stack) <= MaxStack
  /\ op \in Unary \cup Binary \cup Ternary \cup {"none", "PUSH"}
  /\ aborted \in BOOLEAN

\* ADDMOD and MULMOD work on the sum and the product of unbounded integers, though
\* neither fits a word: "addmod_safe gere l'overflow correctement".
ModularStep ==
  op' \in Ternary =>
    LET n == stack[3]
        exact == IF op' = "ADDMOD" THEN stack[1] + stack[2] ELSE stack[1] * stack[2]
    IN stack'[1] = (IF n = 0 THEN 0 ELSE exact % n)
ModularAgree == [][ModularStep]_vars

TwosComplement(v) == IF v >= Modulus \div 2 THEN v - Modulus ELSE v
InI64(v) == TwosComplement(v) \in -(Low \div 2) .. (Low \div 2) - 1

\* what Ethereum specifies of a signed operation on i and j
SignedExact(o, i, j) ==
  CASE o = "SLT" -> Truth(i < j)
    [] o = "SGT" -> Truth(i > j)
    [] o = "SDIV" -> IF j = 0 THEN 0 ELSE Quotient(i, j) % Modulus
    [] o = "SMOD" -> IF j = 0 THEN 0 ELSE (i - j * Quotient(i, j)) % Modulus
SignedPanics(o, i, j) == o \in {"SDIV", "SMOD"} /\ DividePanics(i, j) /\ j # 0

\* The signed operations agree with two's complement of the whole word as long
\* as both operands are in the range of the i64 they are squeezed through, and a
\* division panics then only if its quotient is out of that range.
SignedStep ==
  op' \in Signed =>
    LET i == TwosComplement(stack[1])
        j == TwosComplement(stack[2])
    IN InI64(stack[1]) /\ InI64(stack[2]) =>
         IF SignedPanics(op', i, j) THEN aborted' ELSE stack'[1] = SignedExact(op', i, j)
SignedAgree == [][SignedStep]_vars

Shift(s) == IF s > Bits THEN Bits ELSE s   \* which shifts everything out too

\* v is the one number of size bits that is congruent to x, and w that number as a word
Extends(v, w, x, size) ==
  /\ w = v % Modulus /\ 2 * v \in -size .. size - 1 /\ (v - x) % size = 0

\* Shifts and sign extension agree with arithmetic on the signed value, at shifts
\* of nothing and of a whole word too.
ShiftsStep ==
  /\ op' = "SAR" =>
       stack'[1] = (TwosComplement(stack[2]) \div Power[Shift(stack[1])]) % Modulus
  /\ op' = "SHL" => stack'[1] = (stack[2] * Power[Shift(stack[1])]) % Modulus
  /\ op' = "SHR" => stack'[1] = stack[2] \div Power[Shift(stack[1])]
  /\ op' = "SIGNEXTEND" /\ stack[1] < Bytes - 1 =>
       \E v \in -Modulus .. Modulus :
         Extends(v, stack'[1], stack[2], Power[(stack[1] + 1) * ByteBits])
  /\ op' = "SIGNEXTEND" /\ stack[1] >= Bytes => stack'[1] = stack[2]
ShiftsAgree == [][ShiftsStep]_vars

=============================================================================
