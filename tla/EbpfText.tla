------------------------------- MODULE EbpfText -------------------------------
(***************************************************************************)
(* One eBPF instruction through the four forms the runtime gives it: the   *)
(* bytes that insn_builder.rs makes, the fields that ebpf.rs reads from    *)
(* them, the text that disassembler.rs writes and the fields that          *)
(* asm_parser.rs and assembler.rs make of the text.  A text is a name and  *)
(* its operands as the parser reads them: of a number it is known at what  *)
(* width and with which sign it was written.                               *)
(***************************************************************************)
EXTENDS Integers, Sequences
LOCAL INSTANCE Bitwise

CONSTANTS
  ImmBits,   \* the bits of an immediate
  OffBits    \* the bits of an offset

VARIABLES
  code,    \* the instruction, with the immediate of a second one for a lddw
  meant,   \* what the builder that made it was asked for
  text,    \* what the disassembler writes
  again    \* what the assembler makes of that

vars == <<code, meant, text, again>>

Status(s) == [status |-> s]
Nothing == Status("none")

Range(bits) == -(2 ^ (bits - 1)) .. 2 ^ (bits - 1) - 1
Imm == Range(ImmBits)
Off == Range(OffBits)
Sizes == {1, 2, 3}   \* the immediates 16, 32 and 64 of a byte swap

-----------------------------------------------------------------------------
(* The opcodes of ebpf.rs.                                                 *)

AluOps == {16 * k : k \in 0 .. 7 \cup 9 .. 12}
Conditions == {16 * k : k \in 1 .. 7 \cup 10 .. 13}
MemSizes == {0, 8, 16, 24}
BPF_X == 8
LE == 212
BE == 220
LD_DW_IMM == 24
CALL == 133

ByRegister(o) == o & BPF_X # 0

Type(o) ==
  LET class == o % 8
      op == 16 * (o \div 16)
      mode == 32 * (o \div 32)
  IN CASE o = LD_DW_IMM -> "lddw"
       [] class = 0 /\ mode = 32 -> "ldabs"
       [] class = 0 /\ mode = 64 -> "ldind"
       [] class = 1 /\ mode = 96 -> "ldx"
       [] class = 2 /\ mode = 96 -> "st"
       [] class = 3 /\ mode = 96 -> "stx"
       [] o \in {195, 219} -> "xadd"
       [] class \in {4, 7} /\ op \in AluOps -> "binary"
       [] class \in {4, 7} /\ op = 128 /\ ~ByRegister(o) -> "unary"
       [] o \in {LE, BE} -> "swap"
       [] o = 5 -> "ja"
       [] class \in {5, 6} /\ op \in Conditions -> "jump"
       [] o = CALL -> "call"
       [] o = 141 -> "tail_call"
       [] o = 149 -> "exit"
       [] OTHER -> "unknown"

Opcodes == {o \in 0 .. 255 : Type(o) # "unknown"}

-----------------------------------------------------------------------------
(* The builder.                                                            *)

\* the kind of each of its methods, with the opcode that opt_code_byte makes; the
\* second half of a lddw is made as a load of a word
Built ==
  {[kind |-> "binary", opc |-> op | x | arch] :
     op \in AluOps, x \in {0, BPF_X}, arch \in {4, 7}}
  \cup {[kind |-> "unary", opc |-> 128 | arch] : arch \in {4, 7}}
  \cup {[kind |-> "swap", opc |-> o] : o \in {LE, BE}}
  \cup {[kind |-> "lddw", opc |-> 0 | size] : size \in MemSizes}
  \cup {[kind |-> "ldabs", opc |-> 32 | size] : size \in MemSizes}
  \cup {[kind |-> "ldind", opc |-> 64 | size] : size \in MemSizes}
  \cup {[kind |-> "ldx", opc |-> 96 | size | 1] : size \in MemSizes}
  \cup {[kind |-> "st", opc |-> 96 | 2 | size | 0] : size \in MemSizes}
  \cup {[kind |-> "stx", opc |-> 96 | 2 | size | (96 | 3)] : size \in MemSizes}
  \cup {[kind |-> "ja", opc |-> 0 | x | 5] : x \in {0, BPF_X}}
  \cup {[kind |-> "jump", opc |-> c | x | 5] : c \in Conditions, x \in {0, BPF_X}}
  \cup {[kind |-> "call", opc |-> 128 | 5], [kind |-> "exit", opc |-> 144 | 5]}

\* into_bytes, and get_insn: both registers share a byte
Registers_Swapped(dst, src) ==
  LET byte == ((dst * 16) % 256) | src IN [dst |-> byte & 15, src |-> byte \div 16]
Registers(dst, src) ==
  LET byte == ((src * 16) % 256) | dst IN [dst |-> byte & 15, src |-> byte \div 16]

Made(opc, dst, src, off, imm) ==
  [opc |-> opc, dst |-> Registers(dst, src).dst, src |-> Registers(dst, src).src,
   off |-> off, imm |-> imm, next |-> 0, first |-> TRUE]

-----------------------------------------------------------------------------
(* The disassembler.                                                       *)

Register(r) == <<"register", r>>
Integer(n) == <<"integer", n>>
Memory(r, n) == <<"memory", r, n>>

\* an i32 is written in hexadecimal without its sign; an offset with it
Shown_Signed(imm) == imm
Shown(imm) == imm % 2 ^ ImmBits

\* the two halves of a lddw are written as one i64, which reads back as it was
Merged(i) == (i.imm % 2 ^ ImmBits) + i.next * 2 ^ ImmBits

OperandsOf(i) ==
  LET type == Type(i.opc)
      second == IF ByRegister(i.opc) THEN Register(i.src) ELSE Integer(Shown(i.imm))
  IN CASE type = "lddw" -> <<Register(i.dst), Integer(Merged(i))>>
       [] type = "ldabs" -> <<Integer(Shown(i.imm))>>
       [] type = "ldind" -> <<Register(i.src), Integer(Shown(i.imm))>>
       [] type = "ldx" -> <<Register(i.dst), Memory(i.src, i.off)>>
       [] type = "st" -> <<Memory(i.dst, i.off), Integer(Shown(i.imm))>>
       [] type \in {"stx", "xadd"} -> <<Memory(i.dst, i.off), Register(i.src)>>
       [] type = "binary" -> <<Register(i.dst), second>>
       [] type \in {"unary", "swap"} -> <<Register(i.dst)>>
       [] type = "ja" -> <<Integer(i.off)>>
       [] type = "jump" -> <<Register(i.dst), second, Integer(i.off)>>
       [] type = "call" -> <<Integer(Shown(i.imm))>>
       [] OTHER -> <<>>

\* a name stands for both forms of its second operand; a byte swap carries its
\* size, a call whether it is local
Name(i) ==
  [type |-> Type(i.opc),
   opc |-> IF Type(i.opc) \in {"binary", "jump"} /\ ByRegister(i.opc)
           THEN i.opc - BPF_X ELSE i.opc,
   variant |-> CASE Type(i.opc) = "swap" -> i.imm
                 [] Type(i.opc) = "call" -> i.src
                 [] OTHER -> 0]

\* `ja` negates its offset as the i16 it is
Printed(i) ==
  IF \/ Type(i.opc) = "unknown"
     \/ Type(i.opc) = "call" /\ i.src \notin {0, 1}
     \/ Type(i.opc) = "ja" /\ i.off = -(2 ^ (OffBits - 1))
  THEN Status("panic")
  ELSE [name |-> Name(i), operands |-> OperandsOf(i), first |-> i.first]

-----------------------------------------------------------------------------
(* The assembler.                                                          *)

\* behind an instruction without operands the parser looks for one in the next
\* name, and does not give up the "r" of a register once it has read it
Parsed(t) == ~t.first => ~(t.name.type = "binary" /\ t.name.opc \in {112 | 4, 112 | 7})

\* make_instruction_map
Known_AnySize(name) == name.type \notin {"xadd", "tail_call"}
Known(name) ==
  /\ name.type \notin {"xadd", "tail_call"}
  /\ name.type = "swap" => name.variant \in Sizes

\* insn, which reports what does not fit; a lddw cuts its low half to size
Insn(opc, dst, src, off, imm) ==
  IF dst \in 0 .. 15 /\ src \in 0 .. 15 /\ off \in Off /\ imm \in Imm
  THEN [opc |-> opc, dst |-> dst, src |-> src, off |-> off, imm |-> imm, next |-> 0,
        first |-> TRUE]
  ELSE Status("error")

Low_Whole(n) == n
Low32(n) ==
  LET low == n % 2 ^ ImmBits
  IN IF low \in Imm THEN low ELSE low - 2 ^ ImmBits

Encode(name, ops) ==
  LET opc == name.opc
      type == name.type
  IN CASE type \in {"binary", "jump"} ->
            LET off == IF type = "jump" THEN ops[3][2] ELSE 0
            IN IF ops[2][1] = "register"
               THEN Insn(opc | BPF_X, ops[1][2], ops[2][2], off, 0)
               ELSE Insn(opc, ops[1][2], 0, off, ops[2][2])
       [] type = "unary" -> Insn(opc, ops[1][2], 0, 0, 0)
       [] type = "ldabs" -> Insn(opc, 0, 0, 0, ops[1][2])
       [] type = "ldind" -> Insn(opc, 0, ops[1][2], 0, ops[2][2])
       [] type = "ldx" -> Insn(opc, ops[1][2], ops[2][2], ops[2][3], 0)
       [] type = "stx" -> Insn(opc, ops[1][2], ops[2][2], ops[1][3], 0)
       [] type = "st" -> Insn(opc, ops[1][2], 0, ops[1][3], ops[2][2])
       [] type = "exit" -> Insn(opc, 0, 0, 0, 0)
       [] type = "ja" -> Insn(opc, 0, 0, ops[1][2], 0)
       [] type = "call" -> Insn(opc, 0, name.variant, 0, ops[1][2])
       [] type = "swap" -> Insn(opc, ops[1][2], 0, 0, name.variant)
       [] type = "lddw" -> Insn(opc, ops[1][2], 0, 0, Low32(ops[2][2]))

\* assemble_internal, with the second instruction of a lddw
Assembled(t) ==
  IF ~Parsed(t) \/ ~Known(t.name) THEN Status("error")
  ELSE LET i == Encode(t.name, t.operands)
       IN IF t.name.type = "lddw" /\ "opc" \in DOMAIN i
          THEN [i EXCEPT !.next = t.operands[2][2] \div 2 ^ ImmBits]
          ELSE i

-----------------------------------------------------------------------------
Init == code = Nothing /\ meant = Nothing /\ text = Nothing /\ again = Nothing

\* the setters take any u8 for a register
Build ==
  /\ code = Nothing
  /\ \E b \in Built, dst, src \in {0, 3, 17}, off \in Off, imm \in Imm :
       /\ code' = Made(b.opc, dst, src, off, imm)
       /\ meant' = [kind |-> b.kind, dst |-> dst, src |-> src]
  /\ UNCHANGED <<text, again>>

\* bytes from elsewhere; first says that no exit stands before the instruction
Read ==
  /\ code = Nothing
  /\ \E opc \in Opcodes, dst \in {0, 3}, src \in {0, 1, 3}, off \in Off, imm, next \in Imm,
        first \in BOOLEAN :
       /\ next # 0 => opc = LD_DW_IMM
       /\ ~first => dst = 3 /\ src = 0 /\ off = 0 /\ next = 0
       /\ code' = [opc |-> opc, dst |-> dst, src |-> src, off |-> off, imm |-> imm,
                   next |-> next, first |-> first]
  /\ UNCHANGED <<meant, text, again>>

Disassemble ==
  /\ code # Nothing /\ text = Nothing
  /\ text' = Printed(code)
  /\ UNCHANGED <<code, meant, again>>

Assemble ==
  /\ "name" \in DOMAIN text /\ again = Nothing
  /\ again' = Assembled(text)
  /\ UNCHANGED <<code, meant, text>>

Next == Build \/ Read \/ Disassemble \/ Assemble

Spec == Init /\ [][Next]_vars

-----------------------------------------------------------------------------
Fields ==
  [opc : 0 .. 255, dst : 0 .. 15, src : 0 .. 15, off : Off, imm : Imm, next : Imm,
   first : BOOLEAN]

TypeOK ==
  /\ code = Nothing \/ code \in Fields
  /\ again = Nothing \/ again = Status("error") \/ again \in Fields

\* the fields that mean something in an instruction
Used(i) ==
  LET type == Type(i.opc)
      two == type \in {"binary", "jump"}
  IN {"opc"}
       \cup {f \in {"dst"} : two \/ type \in {"lddw", "ldx", "st", "stx", "unary", "swap"}}
       \cup {f \in {"src"} : (two /\ ByRegister(i.opc)) \/ type \in {"ldind", "ldx", "stx", "call"}}
       \cup {f \in {"off"} : type \in {"ldx", "st", "stx", "ja", "jump"}}
       \cup {f \in {"imm"} : \/ two /\ ~ByRegister(i.opc)
                            \/ type \in {"lddw", "ldabs", "ldind", "st", "swap", "call"}}
       \cup {f \in {"next"} : type = "lddw"}

\* What the builder is asked for is what the bytes say, but for registers that do
\* not exist, a jump always taken that compares a register, and loads of an
\* immediate that is no double word
BuildersMean ==
  meant # Nothing =>
    /\ \/ Type(code.opc) = meant.kind
       \/ meant.kind = "ja" /\ ByRegister(code.opc)
       \/ meant.kind = "lddw" /\ code.opc \in MemSizes \ {LD_DW_IMM}
    /\ meant.dst < 16 /\ meant.src < 16 => code.dst = meant.dst /\ code.src = meant.src

\* The text of an instruction assembles to the same instruction, unless it has an
\* immediate below zero, a name or a size the assembler does not know, or is a right
\* shift that follows an exit: all of these are errors
TextReadsBack ==
  again # Nothing =>
    LET type == Type(code.opc)
        refused == \/ "imm" \in Used(code) /\ type \notin {"lddw", "swap"} /\ code.imm < 0
                   \/ type \in {"xadd", "tail_call"}
                   \/ type = "swap" /\ code.imm \notin Sizes
                   \/ ~code.first /\ type = "binary" /\ code.opc \div 16 = 7
    IN IF refused THEN again = Status("error")
       ELSE again \in Fields /\ \A f \in Used(code) : again[f] = code[f]
=============================================================================
