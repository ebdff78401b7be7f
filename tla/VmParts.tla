-------------------------------- MODULE VmParts --------------------------------
(***************************************************************************)
(* Parts of the VM crate that have no state in common: the parallel        *)
(* engine, the frames of the interpreter and its arithmetic, and of the    *)
(* eBPF runtime a program's way to machine code and the machine that holds *)
(* it.  Each behaviour is one of a single part, chosen at the start, while *)
(* the other parts keep their initial state.  The two compilers' words and *)
(* the forms of an instruction, EbpfWords and EbpfText, are added by MCVm. *)
(***************************************************************************)
EXTENDS ParallelEngine, EvmFrame

CONSTANTS
  Parts,                                    \* the parts whose behaviours are taken
  MaxInsns, Back, Ahead, MaxCalls, Page,    \* EbpfProgram
  Programs, Calling, Verifiers, Calculators, MaxOffset, None  \* EbpfVm

ASSUME ProgramsAssumption ==
  /\ MaxInsns \in Nat /\ Back \in Nat /\ Ahead \in Nat /\ MaxCalls \in Nat /\ Page \in Nat
  /\ MaxOffset \in Nat

VARIABLES
  part,
  stack, operation, aborted,                  \* EvmAlu
  prog, progress, insnAt, returns, restarts,  \* EbpfProgram
  vm, past, laid                              \* EbpfVm

aluVars == <<stack, operation, aborted>>
codeVars == <<prog, progress, insnAt, returns, restarts>>
vmVars == <<vm, past, laid>>
partsVars == <<part, vars, frameVars, aluVars, codeVars, vmVars>>

Words == INSTANCE EvmAlu WITH op <- operation
Code == INSTANCE EbpfProgram WITH status <- progress, pc <- insnAt, calls <- returns
Machine == INSTANCE EbpfVm

PartsInit ==
  part \in Parts /\ Init /\ FrameInit /\ Words!Init /\ Code!Init /\ Machine!Init

EngineNext ==
  part = "engine" /\ Next /\ UNCHANGED <<part, frameVars, aluVars, codeVars, vmVars>>
FrameNext ==
  part = "frame" /\ Step /\ UNCHANGED <<part, vars, aluVars, codeVars, vmVars>>
WordsNext ==
  part = "words" /\ Words!Next /\ UNCHANGED <<part, vars, frameVars, codeVars, vmVars>>
CodeNext ==
  part = "code" /\ Code!Next /\ UNCHANGED <<part, vars, frameVars, aluVars, vmVars>>
MachineNext ==
  part = "machine" /\ Machine!Next /\ UNCHANGED <<part, vars, frameVars, aluVars, codeVars>>

PartsNext == EngineNext \/ FrameNext \/ WordsNext \/ CodeNext \/ MachineNext

PartsSpec == PartsInit /\ [][PartsNext]_partsVars

-----------------------------------------------------------------------------
PartsTypeOK ==
  TypeOK /\ FrameTypeOK /\ Words!TypeOK /\ Code!TypeOK /\ Machine!TypeOK

\* What the interpreter's operations leave is what the Ethereum specification says of the
\* integers, in the ranges that ModularAgree, SignedAgree and ShiftsAgree state.
ArithmeticAgrees == Words!ModularAgree /\ Words!SignedAgree /\ Words!ShiftsAgree

\* The eBPF runtime: a program its verifier accepts can be compiled, and its code
\* stays inside it, but for the exceptions CompilersSurvive and RunsInside name; and a
\* machine holds a program its verifier accepts, with the buffer and the code made
\* for it
EbpfSound ==
  /\ Code!RunsInside /\ Code!CompilersSurvive
  /\ Machine!HeldChecked /\ Machine!LaidOut /\ Machine!CodeCurrent
=============================================================================
