--------------------------------- MODULE OvcIr ---------------------------------
(***************************************************************************)
(* The instructions of LLVM's text that ovc_exec interprets.  A register   *)
(* is an i64 whatever the type in the text says; an i32 that was read from *)
(* the text, or sign-extended, is a canonical value: one in the range of   *)
(* the narrow type.  The phi instructions of a block are taken in turn.    *)
(***************************************************************************)
EXTENDS Integers, Bitwise

CONSTANTS
  Bits,     \* width of a register, a power of two, 64 in the code
  Narrow,   \* width of the type the text names
  Registers \* registers of the phi instructions

VARIABLES op, a, b, phis, regs, out, after

irVars == <<op, a, b, phis, regs, out, after>>

Top == 2^(Narrow - 1)
Canonical == -Top..Top - 1
Wide == -(2^(Bits - 1))..2^(Bits - 1) - 1

Compares == {"eq", "ne", "sgt", "sge", "slt", "sle", "ugt", "uge", "ult", "ule"}
Arithmetic == {"add", "sub", "mul", "sdiv", "srem", "udiv", "urem", "shl", "ashr", "lshr",
               "and", "or", "xor"}
Casts == {"zext", "sext", "trunc"}
Ops == Compares \cup Arithmetic \cup Casts \cup {"samesign slt", "phi"}

Unsigned(n) == n % 2^Bits
Signed_Unsigned(n) == n % 2^Bits
Signed(n) == LET u == n % 2^Bits IN IF u >= 2^(Bits - 1) THEN u - 2^Bits ELSE u
Bit(truth) == IF truth THEN 1 ELSE 0
Magnitude(n) == IF n < 0 THEN -n ELSE n
Sign(n) == IF n < 0 THEN -1 ELSE 1

\* the quotient of a machine is truncated, and 0 when the divisor is
Quotient(x, y) ==
  IF y = 0 THEN 0 ELSE Sign(x) * Sign(y) * (Magnitude(x) \div Magnitude(y))
Remainder(x, y) == IF y = 0 THEN 0 ELSE x - y * Quotient(x, y)

Below_Signed(x, y) == x < y
Below(x, y) == Unsigned(x) < Unsigned(y)

\* run_instr: icmp reads "samesign", and not the predicate after it, as ugt
Compared(o, x, y) ==
  Bit(CASE o = "eq" -> x = y [] o = "ne" -> x # y
        [] o = "sgt" -> x > y [] o = "sge" -> x >= y
        [] o = "slt" -> x < y [] o = "sle" -> x <= y
        [] o \in {"ugt", "samesign slt"} -> Below(y, x) [] o = "uge" -> ~Below(x, y)
        [] o = "ult" -> Below(x, y) [] o = "ule" -> ~Below(y, x))

\* run_instr: arithmetic on the whole register; a cast is its operand
Computed(o, x, y) ==
  CASE o = "add" -> Signed(x + y) [] o = "sub" -> Signed(x - y) [] o = "mul" -> Signed(x * y)
    [] o = "sdiv" -> Quotient(x, y) [] o = "srem" -> Remainder(x, y)
    [] o = "udiv" -> Signed(Quotient(Unsigned(x), Unsigned(y)))
    [] o = "urem" -> Signed(Remainder(Unsigned(x), Unsigned(y)))
    [] o = "shl" -> Signed(x * 2^(y % Bits))
    [] o = "ashr" -> x \div 2^(y % Bits)
    [] o = "lshr" -> Signed(Unsigned(x) \div 2^(y % Bits))
    [] o = "and" -> Signed(Unsigned(x) & Unsigned(y))
    [] o = "or" -> Signed(Unsigned(x) | Unsigned(y))
    [] o = "xor" -> Signed(Unsigned(x) ^^ Unsigned(y))
    [] o \in Casts -> x

\* a phi takes the value of the predecessor that was left, which may be a register;
\* one that does not name this predecessor leaves its register as it is
PhiValue(values, from, dst) == IF from = "unnamed" THEN values[dst] ELSE values[from]
PhisInTurn(values, list) ==
  LET first == [values EXCEPT ![list[1].dst] = PhiValue(values, list[1].from, list[1].dst)]
  IN [first EXCEPT ![list[2].dst] = PhiValue(first, list[2].from, list[2].dst)]

IrInit ==
  /\ op = "none" /\ a = 0 /\ b = 0 /\ phis = <<>> /\ out = 0
  /\ regs \in [Registers -> {0, 1}] /\ after = regs

Compute(o, x, y) ==
  /\ op = "none" /\ op' = o /\ a' = x /\ b' = y
  /\ out' = IF o \in Compares \cup {"samesign slt"} THEN Compared(o, x, y) ELSE Computed(o, x, y)
  /\ UNCHANGED <<phis, regs, after>>

EnterBlock ==
  /\ op = "none" /\ op' = "phi"
  /\ \E d, e \in Registers, f, g \in Registers \cup {"unnamed"} :
       /\ d # e /\ phis' = <<[dst |-> d, from |-> f], [dst |-> e, from |-> g]>>
       /\ after' = PhisInTurn(regs, phis')
  /\ UNCHANGED <<a, b, regs, out>>

IrNext ==
  \/ \E o \in Ops \ {"phi"}, x, y \in Canonical : Compute(o, x, y)
  \/ EnterBlock

-----------------------------------------------------------------------------
(* Properties.                                                             *)

IrTypeOK ==
  /\ op \in Ops \cup {"none"} /\ a \in Canonical /\ b \in Canonical /\ out \in Wide
  /\ regs \in [Registers -> {0, 1}] /\ after \in [Registers -> {0, 1}]

\* LLVM's meaning of an instruction of the narrow type, and where it has one; the
\* unsigned ones and the shifts are stated from the narrow bits
Small(n) == n % 2^Narrow
Meaning(o, x, y) ==
  CASE o = "add" -> x + y [] o = "sub" -> x - y [] o = "mul" -> x * y
    [] o = "sdiv" -> Quotient(x, y) [] o = "srem" -> Remainder(x, y)
    [] o = "udiv" -> Small(x) \div Small(y) [] o = "urem" -> Small(x) % Small(y)
    [] o = "shl" -> x * 2^y [] o = "ashr" -> x \div 2^y [] o = "lshr" -> Small(x) \div 2^y
    [] o = "and" -> Small(x) & Small(y) [] o = "or" -> Small(x) | Small(y)
    [] o = "xor" -> Small(x) ^^ Small(y)
    [] o \in Casts -> x
    [] o = "ugt" -> Bit(Small(x) > Small(y)) [] o = "uge" -> Bit(Small(x) >= Small(y))
    [] o = "ult" -> Bit(Small(x) < Small(y)) [] o = "ule" -> Bit(Small(x) <= Small(y))
    [] o = "sgt" -> Bit(x > y) [] o = "sge" -> Bit(x >= y)
    [] o = "slt" -> Bit(x < y) [] o = "sle" -> Bit(x <= y)
    [] o = "eq" -> Bit(x = y) [] o = "ne" -> Bit(x # y)

\* no overflow of the narrow type, no division by zero, no shift by its width; and
\* no negative operand where the code's wider register shows: udiv, urem, lshr, zext
Defined(o, x, y) ==
  CASE o \in {"add", "sub", "mul"} -> Meaning(o, x, y) \in Canonical
    [] o \in {"sdiv", "srem"} -> y # 0 /\ Quotient(x, y) \in Canonical
    [] o \in {"udiv", "urem"} -> y > 0 /\ x >= 0
    [] o = "shl" -> y \in 0..Narrow - 1 /\ x * 2^y \in Canonical
    [] o = "ashr" -> y \in 0..Narrow - 1
    [] o = "lshr" -> y \in 0..Narrow - 1 /\ x >= 0
    [] o = "zext" -> x >= 0
    [] OTHER -> o \notin {"samesign slt", "phi", "none"}

\* Where LLVM defines an instruction of the narrow type, and neither operand is
\* negative when it is an unsigned division, a logical shift or a zero extension,
\* the register has its value; an unsigned comparison needs no such condition.
InstructionsAgree == Defined(op, a, b) => Small(out) = Small(Meaning(op, a, b))

\* The phis of a block, taken in turn, are those of LLVM, taken at once, unless the
\* second reads the register of the first.
PhisAgree ==
  op = "phi" /\ phis[2].from # phis[1].dst =>
    \A k \in {1, 2} : after[phis[k].dst] = PhiValue(regs, phis[k].from, phis[k].dst)

IrAgrees == InstructionsAgree /\ PhisAgree
=============================================================================
