------------------------------- MODULE EbpfWords -------------------------------
(***************************************************************************)
(* What the two compilers make of one eBPF instruction: the machine code   *)
(* that jit.rs emits, with r0 in rax and r3 in rdx, and the code that      *)
(* cranelift.rs describes, on words of 2 * Half bits whose low half is     *)
(* what the 32-bit instructions see.  Only whole words and halves are      *)
(* loaded and stored.                                                      *)
(***************************************************************************)
EXTENDS Naturals, Integers
LOCAL INSTANCE Bitwise

CONSTANT Half   \* the bits of an immediate, and of half a register

VARIABLES
  insn,     \* the instruction executed, with the registers before it
  jitted,   \* what the code of jit.rs did
  craned    \* what that of cranelift.rs did

vars == <<insn, jitted, craned>>

Width(wide) == IF wide THEN 2 * Half ELSE Half
Size(wide) == 2 ^ Width(wide)
Word == 0 .. Size(TRUE) - 1
Imm == -(2 ^ (Half - 1)) .. 2 ^ (Half - 1) - 1
Regs == {"r0", "r3", "r6"}
Rest == 5   \* what a register holds that no operand is read from

NoInsn == [form |-> "none"]
Init == insn = NoInsn /\ jitted = NoInsn /\ craned = NoInsn

Signed(wide, x) == IF x >= Size(wide) \div 2 THEN x - Size(wide) ELSE x
Extended(imm) == imm % Size(TRUE)

Products == {"mul", "div", "mod"}
AluOps == Products \cup {"add", "sub", "or", "and", "xor", "lsh", "rsh", "arsh", "mov", "neg"}

\* an instruction of either processor on operands of a width, shift counts masked
Machine(op, wide, a, b) ==
  LET count == 2 ^ (b % Width(wide))
      size == Size(wide)
  IN CASE op = "add" -> (a + b) % size
       [] op = "sub" -> (a - b) % size
       [] op = "mul" -> (a * b) % size
       [] op = "div" -> a \div b
       [] op = "mod" -> a % b
       [] op = "or" -> a | b
       [] op = "and" -> a & b
       [] op = "xor" -> a ^^ b
       [] op = "lsh" -> (a * count) % size
       [] op = "rsh" -> a \div count
       [] op = "arsh" -> (Signed(wide, a) \div count) % size
       [] op = "mov" -> b
       [] op = "neg" -> (-a) % size

Conditions == {"jeq", "jne", "jgt", "jge", "jlt", "jle", "jsgt", "jsge", "jslt", "jsle", "jset"}

Holds(cond, wide, a, b) ==
  LET x == Signed(wide, a)
      y == Signed(wide, b)
  IN CASE cond = "jeq" -> a = b
       [] cond = "jne" -> a # b
       [] cond = "jgt" -> a > b
       [] cond = "jge" -> a >= b
       [] cond = "jlt" -> a < b
       [] cond = "jle" -> a <= b
       [] cond = "jsgt" -> x > y
       [] cond = "jsge" -> x >= y
       [] cond = "jslt" -> x < y
       [] cond = "jsle" -> x <= y
       [] cond = "jset" -> a & b # 0

\* the operand of an instruction: a register, or the immediate with its sign
Operand(i) == IF i.reg THEN i.regs[i.src] ELSE Extended(i.imm)

-----------------------------------------------------------------------------
(* jit.rs.                                                                 *)

\* emit_muldivmod: the product and the quotient are left in rax, the remainder
\* and the upper half of the product in rdx, both saved unless they are the
\* destination; an immediate that is not 0 is taken in the register form too
Restored(i, lo, hi) ==
  LET m == [i.regs EXCEPT !["r0"] = lo, !["r3"] = hi]
      afterRdx == IF i.dst = "r3" THEN m
                  ELSE [(IF i.op = "mod" THEN [m EXCEPT ![i.dst] = hi] ELSE m)
                          EXCEPT !["r3"] = i.regs["r3"]]
  IN IF i.dst = "r0" THEN afterRdx
     ELSE [(IF i.op # "mod" THEN [afterRdx EXCEPT ![i.dst] = lo] ELSE afterRdx)
             EXCEPT !["r0"] = i.regs["r0"]]

MulDivMod_Dirty(i) ==
  LET size == Size(i.wide)
      a == i.regs[i.dst] % size
      b == (IF i.imm # 0 THEN Extended(i.imm) ELSE i.regs[i.src]) % size
      dividend == (i.regs["r3"] % size) * size + a
  IN IF i.op \in {"div", "mod"} /\ (IF i.reg THEN i.regs[i.src] % size ELSE i.imm) = 0
     THEN IF i.op = "div" THEN [i.regs EXCEPT ![i.dst] = 0] ELSE i.regs
     ELSE IF i.op = "mul" THEN Restored(i, (a * b) % size, (a * b) \div size)
     ELSE Restored(i, (dividend \div b) % size, dividend % b)
MulDivMod_NoSave(i) ==
  LET size == Size(i.wide)
      a == i.regs[i.dst] % size
      b == Operand(i) % size
  IN IF b = 0 THEN [i.regs EXCEPT ![i.dst] = IF i.op = "mod" THEN @ ELSE 0]
     ELSE [i.regs EXCEPT !["r3"] = 0, ![i.dst] = Machine(i.op, i.wide, a, b)]
MulDivMod(i) ==
  LET size == Size(i.wide)
      a == i.regs[i.dst] % size
      b == (IF i.imm # 0 THEN Extended(i.imm) ELSE i.regs[i.src]) % size
      divisor == IF i.reg THEN i.regs[i.src] % size ELSE i.imm
  IN IF ~i.reg /\ i.imm = 0 /\ i.op = "mul" THEN [i.regs EXCEPT ![i.dst] = 0]
     ELSE IF i.op \in {"div", "mod"} /\ divisor = 0
     THEN IF i.op = "div" THEN [i.regs EXCEPT ![i.dst] = 0] ELSE i.regs
     ELSE IF i.op = "mul" THEN Restored(i, (a * b) % size, (a * b) \div size)
     ELSE Restored(i, a \div b, a % b)

\* the register form of a narrow move is that of a wide one
JitAlu(i) ==
  IF i.op \in Products THEN MulDivMod(i)
  ELSE IF i.op = "mov" /\ i.reg THEN [i.regs EXCEPT ![i.dst] = i.regs[i.src]]
  ELSE [i.regs EXCEPT ![i.dst] =
          Machine(i.op, i.wide, @ % Size(i.wide), Operand(i) % Size(i.wide))]

JitTaken_Swapped(i) ==
  Holds(i.op, i.wide, Operand(i) % Size(i.wide), i.regs[i.dst] % Size(i.wide))
JitTaken(i) ==
  Holds(i.op, i.wide, i.regs[i.dst] % Size(i.wide), Operand(i) % Size(i.wide))

\* an absolute or indirect load reads from the packet into r0, the displacement
\* with its sign; there is no check
JitLoad(i) ==
  [reg |-> IF i.form = "packet" THEN "r0" ELSE i.dst,
   address |-> (i.base + (IF i.reg THEN i.regs[i.src] ELSE 0) + i.imm) % Size(TRUE)]

-----------------------------------------------------------------------------
(* cranelift.rs.                                                           *)

\* dividing by a register that is 0 selects 0, the remainder the dividend
CraneAlu(i) ==
  LET size == Size(i.wide)
      a == i.regs[i.dst] % size
      b == Operand(i) % size
  IN IF i.op = "mod" /\ ~i.reg /\ i.imm = 0 THEN i.regs
     ELSE [i.regs EXCEPT ![i.dst] =
             IF i.op \in {"div", "mod"} /\ b = 0 THEN (IF i.op = "div" THEN 0 ELSE a)
             ELSE Machine(i.op, i.wide, a, b)]

\* is_32 is opc & BPF_JMP32 # 0, and the class of a wide jump is 5
Is32(wide) == (IF wide THEN 5 ELSE 6) & 6 # 0
CraneTaken(i) ==
  LET wide == ~Is32(i.wide)
  IN Holds(i.op, wide, i.regs[i.dst] % Size(wide), Operand(i) % Size(wide))

\* the stack, the packet and the metadata, as <<start, end>>; the last two may
\* be missing, and start at the null address then
Areas == {<<1, 4>>} \X {<<0, 0>>, <<6, 9>>} \X {<<0, 0>>, <<11, 14>>}

\* insert_bounds_check
Bytes(wide) == IF wide THEN 2 ELSE 1
Allowed_NoOverflow(address, wide, areas) ==
  LET end == (address + Bytes(wide)) % Size(TRUE)
  IN \E k \in 1 .. 3 : /\ k > 1 => areas[k][1] # 0
                       /\ address >= areas[k][1] /\ end <= areas[k][2]
Allowed_Null(address, wide, areas) ==
  LET end == (address + Bytes(wide)) % Size(TRUE)
  IN end >= address /\ \E k \in 1 .. 3 : address >= areas[k][1] /\ address <= areas[k][2]
Allowed(address, wide, areas) ==
  LET end == (address + Bytes(wide)) % Size(TRUE)
  IN /\ end >= address
     /\ \E k \in 1 .. 3 : /\ k > 1 => areas[k][1] # 0
                          /\ address >= areas[k][1] /\ end <= areas[k][2]

\* the immediate of a packet load is taken without its sign
CraneLoad(i) ==
  LET imm == IF i.form = "packet" THEN i.imm % Size(FALSE) ELSE i.imm
  IN [reg |-> i.dst,
      address |-> (i.base + imm + (IF i.reg THEN i.regs[i.src] ELSE 0)) % Size(TRUE)]

-----------------------------------------------------------------------------
(* One instruction, from registers of which its operands may hold any word. *)

Registers(dst, src, x, y) ==
  [[r \in Regs |-> Rest] EXCEPT ![dst] = x, ![src] = y]

Forms(op) ==
  {[form |-> "reg", reg |-> TRUE, op |-> op, wide |-> w, dst |-> d, src |-> s, imm |-> i,
    regs |-> Registers(d, s, x, y)] :
     w \in BOOLEAN, d \in Regs, s \in Regs, x \in Word, y \in Word,
     i \in IF op \in Products THEN {0, 1} ELSE {0}}
  \cup
  {[form |-> "imm", reg |-> FALSE, op |-> op, wide |-> w, dst |-> d, src |-> d, imm |-> i,
    regs |-> Registers(d, d, x, x)] : w \in BOOLEAN, d \in Regs, x \in Word, i \in Imm}

Alu ==
  /\ insn = NoInsn
  /\ \E op \in AluOps : \E i \in Forms(op) :
       insn' = i /\ jitted' = JitAlu(i) /\ craned' = CraneAlu(i)

Jump ==
  /\ insn = NoInsn
  /\ \E op \in Conditions : \E i \in Forms(op) :
       /\ i.dst = "r6" /\ i.src \in {"r0", "r6"}
       /\ insn' = i /\ jitted' = [taken |-> JitTaken(i)] /\ craned' = [taken |-> CraneTaken(i)]

\* LD_ABS and LD_IND read from the packet, a LDX or a store through a register,
\* the immediate standing for its offset
Access ==
  /\ insn = NoInsn
  /\ \E form \in {"packet", "register"}, reg, wide \in BOOLEAN, dst \in Regs, x \in Word,
        imm \in Imm, areas \in Areas :
       LET i == [form |-> form, reg |-> reg, wide |-> wide, dst |-> dst, src |-> "r6",
                 imm |-> imm, regs |-> Registers("r6", "r6", x, x), areas |-> areas,
                 base |-> IF form = "packet" THEN areas[2][1] ELSE 0]
       IN /\ form = "register" => reg
          /\ insn' = i /\ jitted' = JitLoad(i)
          /\ craned' = [to |-> CraneLoad(i),
                        allowed |-> Allowed(CraneLoad(i).address, wide, areas)]

Next == Alu \/ Jump \/ Access

Spec == Init /\ [][Next]_vars

-----------------------------------------------------------------------------
IsAlu == insn # NoInsn /\ "op" \in DOMAIN insn /\ insn.op \in AluOps
IsJump == insn # NoInsn /\ "op" \in DOMAIN insn /\ insn.op \in Conditions
IsAccess == insn # NoInsn /\ "areas" \in DOMAIN insn

TypeOK ==
  /\ IsAlu => jitted \in [Regs -> Word] /\ craned \in [Regs -> Word]
  /\ IsJump => jitted.taken \in BOOLEAN /\ craned.taken \in BOOLEAN
  /\ IsAccess => jitted.address \in Word /\ craned.to.address \in Word

\* An operation leaves the same registers behind whichever compiler was used,
\* rax and rdx with their values, but for a narrow move of a register whose
\* upper half is in use, a narrow remainder by a register that is 0, and a
\* product, quotient or remainder by a register with an immediate in the
\* unused field
OperationsAgree ==
  IsAlu =>
    \/ jitted = craned
    \/ insn.op = "mov" /\ ~insn.wide /\ insn.reg /\ insn.regs[insn.src] >= Size(FALSE)
    \/ /\ insn.op = "mod" /\ ~insn.wide /\ insn.reg
       /\ insn.regs[insn.src] % Size(FALSE) = 0 /\ insn.regs[insn.dst] >= Size(FALSE)
    \/ insn.op \in Products /\ insn.reg /\ insn.imm # 0

\* A jump goes the same way unless it is a wide one and an operand does not fit
\* the positive half words, the only ones cranelift's code compares right
JumpsAgree ==
  IsJump =>
    \/ jitted = craned
    \/ insn.wide /\ {insn.regs[insn.dst], Operand(insn)} \ (0 .. 2 ^ (Half - 1) - 1) # {}

\* Both read or write at the same place, but for a packet load with a negative
\* immediate or into another register than r0; cranelift's code goes there
\* exactly when each byte lies in one of the areas that exist
AccessesAgree ==
  IsAccess =>
    /\ \/ craned.to = jitted
       \/ insn.form = "packet" /\ (insn.imm < 0 \/ insn.dst # "r0")
    /\ craned.allowed <=>
         \E k \in 1 .. 3 : insn.areas[k][1] # 0 /\
           \A b \in 0 .. Bytes(insn.wide) - 1 :
             craned.to.address + b \in insn.areas[k][1] .. insn.areas[k][2] - 1
=============================================================================
