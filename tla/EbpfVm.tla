-------------------------------- MODULE EbpfVm --------------------------------
(***************************************************************************)
(* A virtual machine of the eBPF runtime as its owner sees it: the program *)
(* it holds, the verifier and the stack calculator that passed it, the     *)
(* metadata buffer laid out for it, and the code compiled from it.  The    *)
(* four kinds differ in the buffer: EbpfVmMbuff is given one at each call, *)
(* EbpfVmFixedMbuff keeps its own, EbpfVmRaw and EbpfVmNoData have none.   *)
(***************************************************************************)
EXTENDS Naturals, FiniteSets

CONSTANTS
  Programs,      \* programs
  Calling,       \* those that call a helper
  Verifiers,     \* a verifier is the set of the programs it accepts
  Calculators,   \* functions that compute the stack usage of a program
  MaxOffset,     \* bound: offsets in the metadata buffer
  None

VARIABLES
  vm,            \* the machine, None before new
  past,          \* "replaced" since the last compilation, "refused" since then
  laid           \* the offsets that came with the program held

vars == <<vm, past, laid>>

Kinds == {"mbuff", "fixed", "raw", "nodata"}
Layouts == (0 .. MaxOffset) \X (0 .. MaxOffset)
NoLayout == <<0, 0>>

\* the offset, and the eight bytes of a pointer behind it
BuffLen_First(l) == l[1] + 8
BuffLen(l) == IF l[1] >= l[2] THEN l[1] + 8 ELSE l[2] + 8

\* stack_validate: the usage of each function of the program, by a calculator
Usage_Always(p, c) == <<p, c>>
Usage(p, c) == IF p = None THEN None ELSE <<p, c>>

Init == vm = None /\ past = {} /\ laid = NoLayout

-----------------------------------------------------------------------------
\* new, with the verifier that accepts every program here and no calculator;
\* only the fixed kind is given offsets; std says how the crate was built
New ==
  /\ vm = None
  /\ \E k \in Kinds, s \in BOOLEAN, p \in Programs \cup {None}, l \in Layouts :
       /\ k # "fixed" => l = NoLayout
       /\ vm' = [kind |-> k, std |-> s, prog |-> p, verifier |-> Programs,
                 calculator |-> None, usage |-> Usage(p, None), helpers |-> FALSE,
                 memory |-> FALSE, jit |-> None, layout |-> l, buffer |-> BuffLen(l)]
       /\ laid' = l
  /\ UNCHANGED past

\* the fixed kind takes the offsets and a new buffer before the program has
\* passed the verifier
Taken(l) == past' = (past \ {"refused"}) \cup {"replaced"} /\ laid' = l
Refused == past' = past \cup {"refused"} /\ UNCHANGED laid

SetProgram_OldBuffer(p, l) ==
  /\ vm # None /\ (vm.kind # "fixed" => l = NoLayout)
  /\ IF p \in vm.verifier
     THEN /\ vm' = [vm EXCEPT !.prog = p, !.usage = Usage(p, vm.calculator), !.layout = l]
          /\ Taken(l)
     ELSE vm' = [vm EXCEPT !.layout = l] /\ Refused
SetProgram(p, l) ==
  /\ vm # None /\ (vm.kind # "fixed" => l = NoLayout)
  /\ IF p \in vm.verifier
     THEN /\ vm' = [vm EXCEPT !.prog = p, !.usage = Usage(p, vm.calculator),
                              !.layout = l, !.buffer = BuffLen(l)]
          /\ Taken(l)
     ELSE vm' = [vm EXCEPT !.layout = l, !.buffer = BuffLen(l)] /\ Refused

\* the program that is loaded must pass it
SetVerifier_Later(v) == vm # None /\ vm' = [vm EXCEPT !.verifier = v] /\ UNCHANGED <<past, laid>>
SetVerifier(v) ==
  /\ vm # None /\ vm.prog \in v \cup {None}
  /\ vm' = [vm EXCEPT !.verifier = v]
  /\ UNCHANGED <<past, laid>>

SetStackUsageCalculator_Later(c) ==
  vm # None /\ vm' = [vm EXCEPT !.calculator = c] /\ UNCHANGED <<past, laid>>
SetStackUsageCalculator(c) ==
  /\ vm # None
  /\ vm' = [vm EXCEPT !.calculator = c, !.usage = Usage(vm.prog, c)]
  /\ UNCHANGED <<past, laid>>

RegisterHelper == vm # None /\ vm' = [vm EXCEPT !.helpers = TRUE] /\ UNCHANGED <<past, laid>>

SetJitExecMemory ==
  vm # None /\ ~vm.std /\ vm' = [vm EXCEPT !.memory = TRUE] /\ UNCHANGED <<past, laid>>

\* without std the memory is taken before the program is compiled into it, and
\* may be too small or not aligned; a compilation that fails, as it does at a
\* helper that is not registered, leaves the code of an earlier one
Unregistered == vm.prog \in Calling /\ ~vm.helpers

JitCompile ==
  /\ vm # None /\ vm.prog # None /\ (vm.std \/ vm.memory)
  /\ \/ /\ ~Unregistered
        /\ vm' = [vm EXCEPT !.memory = FALSE,
                            !.jit = [prog |-> vm.prog, layout |-> vm.layout]]
        /\ past' = past \ {"replaced"}
     \/ /\ Unregistered \/ ~vm.std
        /\ vm' = [vm EXCEPT !.memory = FALSE]
        /\ UNCHANGED past
  /\ UNCHANGED laid

Next ==
  \/ New
  \/ \E p \in Programs, l \in Layouts : SetProgram(p, l)
  \/ \E v \in Verifiers : SetVerifier(v)
  \/ \E c \in Calculators : SetStackUsageCalculator(c)
  \/ RegisterHelper \/ SetJitExecMemory \/ JitCompile

Spec == Init /\ [][Next]_vars

-----------------------------------------------------------------------------
TypeOK ==
  /\ vm = None \/ vm \in
       [kind : Kinds, std : BOOLEAN, prog : Programs \cup {None},
        verifier : Verifiers \cup {Programs}, calculator : Calculators \cup {None},
        usage : ((Programs \X (Calculators \cup {None}))) \cup {None},
        helpers : BOOLEAN, memory : BOOLEAN,
        jit : [prog : Programs, layout : Layouts] \cup {None},
        layout : Layouts, buffer : 8 .. MaxOffset + 8]
  /\ past \subseteq {"replaced", "refused"} /\ laid \in Layouts

\* The program held is one the verifier in force accepts, and its stack usage
\* is the one the calculator in force computes for it
HeldChecked ==
  vm # None /\ vm.prog # None =>
    vm.prog \in vm.verifier /\ vm.usage = <<vm.prog, vm.calculator>>

\* "Can this ever happen? Probably not, should be ensured at mbuff creation": both
\* pointers fit the buffer, and the offsets are those of the program held,
\* unless another program was refused after it
LaidOut ==
  vm # None =>
    /\ vm.layout[1] + 8 <= vm.buffer /\ vm.layout[2] + 8 <= vm.buffer
    /\ vm.layout # laid => "refused" \in past

\* The code was compiled from the program held for the offsets in force, unless a
\* program was set, or refused, after the compilation: set_program keeps the code
CodeCurrent ==
  vm # None /\ vm.jit # None =>
    /\ vm.jit # [prog |-> vm.prog, layout |-> vm.layout] => past # {}
    /\ vm.jit.prog \notin vm.verifier => "replaced" \in past
=============================================================================
