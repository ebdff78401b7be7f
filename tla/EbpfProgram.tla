------------------------------ MODULE EbpfProgram ------------------------------
(***************************************************************************)
(* An eBPF program from the verifier to its machine code: what             *)
(* verifier.rs accepts, the control flow of what jit.rs emits for it, and  *)
(* the blocks cranelift.rs builds of it.  Of an instruction only what      *)
(* directs the control is kept: its kind and its offset, which for a local *)
(* call is the immediate.  A program is numbered from 0.                   *)
(***************************************************************************)
EXTENDS Integers, Sequences, FiniteSets

CONSTANTS
  MaxInsns,      \* bound: instructions of a program
  Back, Ahead,   \* bounds: the offsets of jumps and local calls are -Back .. Ahead
  MaxCalls,      \* local calls in progress that the native stack has room for
  Page           \* what the code of a program may take: NUM_PAGES

VARIABLES
  prog,       \* the program
  status,     \* what has become of it
  pc,         \* the instruction the machine code is at
  calls,      \* the return addresses pushed by local calls
  restarts    \* the kinds of the instructions that led to the start of the code

vars == <<prog, status, pc, calls, restarts>>

\* "access" is a load or a store, "zero" the second half of a lddw, "other" an
\* opcode the verifier has no case for, or one (xadd, tail call) at which it
\* panics, "nohelper" a call of a helper that was not registered
Insns ==
  [opc : {"alu", "access", "lddw", "zero", "other", "helper", "nohelper"}, off : {0}]
    \cup [opc : {"ja", "jcc", "local"}, off : -Back .. Ahead]
    \cup [opc : {"exit"}, off : {0, -Back}]

At(p, i) == p[i + 1]
Last(p) == p[Len(p)]
Target(p, i) == i + 1 + At(p, i).off

\* the second halves of lddw, which the loops over a program step over
Halves(p) ==
  LET half[i \in 0 .. Len(p) - 1] == i > 0 /\ At(p, i - 1).opc = "lddw" /\ ~half[i - 1]
  IN {i \in 0 .. Len(p) - 1 : half[i]}
Visited(p) == (0 .. Len(p) - 1) \ Halves(p)
After(p, i) == IF At(p, i).opc = "lddw" THEN i + 2 ELSE i + 1

-----------------------------------------------------------------------------
(* The verifier.                                                           *)

\* check_prog_len: the class of the last instruction is BPF_JMP
EndsInJump(p) == Last(p).opc \in {"ja", "jcc", "helper", "nohelper", "local", "exit"}

Within(p, t) == t \in 0 .. Len(p) - 1

JumpChecked_NoHalf(p, i) == At(p, i).off # -1 /\ Within(p, Target(p, i))
JumpChecked_NoLower(p, i) ==
  /\ At(p, i).off # -1
  /\ Target(p, i) < Len(p)
  /\ Target(p, i) >= 0 => At(p, Target(p, i)).opc # "zero"
JumpChecked(p, i) ==
  /\ At(p, i).off # -1
  /\ Within(p, Target(p, i))
  /\ At(p, Target(p, i)).opc # "zero"

Passes_AnyCall(p, i) ==
  CASE At(p, i).opc \in {"alu", "access", "exit", "helper", "nohelper", "local"} -> TRUE
    [] At(p, i).opc = "lddw" -> At(p, i + 1).opc = "zero"
    [] At(p, i).opc \in {"ja", "jcc"} -> JumpChecked(p, i)
    [] OTHER -> FALSE
Passes(p, i) ==
  CASE At(p, i).opc \in {"alu", "access", "exit", "helper", "nohelper"} -> TRUE
    [] At(p, i).opc = "lddw" -> At(p, i + 1).opc = "zero"
    [] At(p, i).opc \in {"ja", "jcc"} -> JumpChecked(p, i)
    [] At(p, i).opc = "local" -> Within(p, Target(p, i))
    [] OTHER -> FALSE

Accepted_AnyEnd(p) ==
  \A i \in Visited(p) : (At(p, i).opc = "lddw" => Within(p, i + 1)) /\ Passes(p, i)
Accepted(p) == EndsInJump(p) /\ \A i \in Visited(p) : Passes(p, i)

-----------------------------------------------------------------------------
(* jit.rs.                                                                 *)

\* the space the code of an instruction takes, in units of a small one
Space(opc) ==
  CASE opc \in {"helper", "local"} -> 3
    [] opc \in {"lddw", "jcc"} -> 2
    [] OTHER -> 1

SpaceTo(p, i) ==
  LET sum[k \in 0 .. Len(p)] ==
        IF k = 0 THEN 0
        ELSE sum[k - 1] + IF k - 1 \in Halves(p) THEN 0 ELSE Space(At(p, k - 1).opc)
  IN sum[i + 1]

\* the instructions are emitted in their order: no room is a panic, an unknown
\* helper an error; then each jump looks its target up among the locations,
\* one more than there are instructions
JitOutcome(p) ==
  LET full == {i \in Visited(p) : SpaceTo(p, i) > Page}
      unknown == {i \in Visited(p) : At(p, i).opc = "nohelper"}
      jumps == {i \in Visited(p) : At(p, i).opc \in {"ja", "jcc", "local"}}
  IN IF \E i \in full : \A j \in unknown : i < j THEN "panic"
     ELSE IF unknown # {} THEN "error"
     ELSE IF \E i \in jumps : Target(p, i) \notin 0 .. Len(p) THEN "panic"
     ELSE "running"

\* nothing is recorded for the second half of a lddw nor behind the program:
\* their location is 0, where the code starts with its prologue
HasLocation(p, t) == t \in Visited(p)

-----------------------------------------------------------------------------
(* cranelift.rs.                                                           *)

\* build_cfg prepares the block behind and the block at the target of every
\* jump, the exits, whose offset nothing checked, among them
Jumping(p) == {i \in Visited(p) : At(p, i).opc \in {"ja", "jcc", "exit"}}
Prepared(p) == UNION {{i + 1, Target(p, i)} : i \in Jumping(p)}

\* translate_program switches to the blocks of the instructions it visits;
\* that of instruction 0 was replaced by the prelude's own
Switched(p) == (Prepared(p) \cap Visited(p)) \ {0}
Jumped(p) ==
  {Target(p, i) : i \in {j \in Jumping(p) : At(p, j).opc # "exit"}}
    \cup {i + 1 : i \in {j \in Jumping(p) : At(p, j).opc = "jcc"}}
Terminated(p) == Last(p).opc \in {"ja", "jcc", "exit"}

\* a call takes its immediate for the number of a helper, a local one too
CraneOutcomes(p) ==
  LET kinds == {At(p, i).opc : i \in Visited(p)}
      built == IF Jumped(p) \subseteq Switched(p) /\ Terminated(p) THEN "compiled" ELSE "broken"
  IN IF \E i \in Jumping(p) : Target(p, i) < 0 THEN {"broken"}
     ELSE IF "nohelper" \in kinds THEN {"error"}
     ELSE IF "local" \in kinds THEN {"error", built}
     ELSE {built}

-----------------------------------------------------------------------------
Init == prog = <<>> /\ status = "none" /\ pc = 0 /\ calls = <<>> /\ restarts = {}

Load ==
  /\ status = "none"
  /\ \E n \in 1 .. MaxInsns : \E p \in [1 .. n -> Insns] : Accepted(p) /\ prog' = p
  /\ status' = "accepted"
  /\ UNCHANGED <<pc, calls, restarts>>

JitCompile ==
  /\ status = "accepted"
  /\ status' = JitOutcome(prog)
  /\ UNCHANGED <<prog, pc, calls, restarts>>

CraneliftCompile ==
  /\ status = "accepted"
  /\ status' \in CraneOutcomes(prog)
  /\ UNCHANGED <<prog, pc, calls, restarts>>

\* the code of the program runs on at instruction t
GoTo(t) ==
  /\ pc' = IF HasLocation(prog, t) THEN t ELSE 0
  /\ restarts' = IF HasLocation(prog, t) THEN restarts ELSE restarts \cup {At(prog, pc).opc}
  /\ UNCHANGED <<prog, status>>

Running(opcs) == status = "running" /\ pc < Len(prog) /\ At(prog, pc).opc \in opcs

Plain ==
  /\ Running({"alu", "access", "lddw", "jcc"})
  /\ pc' = After(prog, pc)
  /\ UNCHANGED <<prog, status, calls, restarts>>

\* from here on the processor may execute anything, or the process has ended
Lost == status' = "lost" /\ UNCHANGED <<prog, pc, calls, restarts>>

\* no address is tested: it may not be mapped, or be that of a return address, which
\* r10 points near to, or of the code
AccessOutside == Running({"access"}) /\ Lost

\* the address called is that of the data of the helper's closure, not of its code
HelperCall == Running({"helper"}) /\ Lost

Jump == Running({"ja", "jcc"}) /\ GoTo(Target(prog, pc)) /\ UNCHANGED calls

LocalCall ==
  /\ Running({"local"}) /\ Len(calls) < MaxCalls
  /\ calls' = <<pc + 1>> \o calls
  /\ GoTo(Target(prog, pc))
StackFull == Running({"local"}) /\ Len(calls) = MaxCalls /\ Lost

Exit ==
  /\ Running({"exit"})
  /\ IF calls = <<>>
     THEN status' = "returned" /\ UNCHANGED <<pc, calls>>
     ELSE pc' = Head(calls) /\ calls' = Tail(calls) /\ UNCHANGED status
  /\ UNCHANGED <<prog, restarts>>

\* behind the last instruction is the epilogue, which finds a return address
\* where it expects the saved registers
FallOff == status = "running" /\ pc = Len(prog) /\ Lost

Next ==
  \/ Load \/ JitCompile \/ CraneliftCompile \/ Plain \/ AccessOutside \/ HelperCall
  \/ Jump \/ LocalCall \/ StackFull \/ Exit \/ FallOff

Spec == Init /\ [][Next]_vars

-----------------------------------------------------------------------------
TypeOK ==
  /\ prog \in Seq(Insns) /\ Len(prog) <= MaxInsns
  /\ status \in {"none", "accepted", "error", "panic", "running", "returned", "lost",
                 "compiled", "broken"}
  /\ pc \in 0 .. MaxInsns
  /\ calls \in Seq(1 .. MaxInsns) /\ Len(calls) <= MaxCalls
  /\ restarts \subseteq {i.opc : i \in Insns}

\* Of what the verifier accepts, the machine code leaves itself only by a call of a
\* helper, by a load or a store, by local calls the native stack has no room for, or
\* behind its last instruction when that is a conditional jump or a local call; and
\* it starts over only by a local call into the middle of a lddw
RunsInside ==
  /\ status = "lost" =>
       \/ pc = Len(prog) /\ Last(prog).opc \in {"jcc", "local"}
       \/ pc < Len(prog) /\ At(prog, pc).opc \in {"helper", "access"}
       \/ pc < Len(prog) /\ At(prog, pc).opc = "local" /\ Len(calls) = MaxCalls
  /\ restarts \subseteq {"local"}

\* An accepted program makes the JIT panic only when its code does not fit the
\* page, and the other compiler only by the offset of an exit before the
\* program, by a jump to its first instruction, or by such a last instruction
CompilersSurvive ==
  /\ status = "panic" => SpaceTo(prog, Len(prog) - 1) > Page
  /\ status = "broken" =>
       \/ \E i \in Visited(prog) : At(prog, i).opc = "exit" /\ Target(prog, i) < 0
       \/ \E i \in Visited(prog) : At(prog, i).opc \in {"ja", "jcc"} /\ Target(prog, i) = 0
       \/ Last(prog).opc \in {"jcc", "helper", "local"}
=============================================================================
