--------------------------------- MODULE MCVm ---------------------------------
(***************************************************************************)
(* Small instances of the parts of the VM crate, with two more of the eBPF *)
(* runtime: the two compilers' instructions and the forms of one           *)
(* instruction.                                                            *)
(***************************************************************************)
EXTENDS VmParts

CONSTANTS s1, s2, p1, p2, c1, Half, ImmBits, OffBits
MCSlots == {s1, s2}
MCPrograms == {p1, p2}
MCCalling == {p2}
MCVerifiers == {{p1}, {p2}, MCPrograms}

VARIABLES
  insn, jitted, craned,                      \* EbpfWords
  code, meant, text, again                   \* EbpfText

wordVars == <<insn, jitted, craned>>
textVars == <<code, meant, text, again>>
allVars == <<partsVars, wordVars, textVars>>

Compilers == INSTANCE EbpfWords
Forms == INSTANCE EbpfText

VmInit == PartsInit /\ Compilers!Init /\ Forms!Init

CompilersNext == part = "compilers" /\ Compilers!Next /\ UNCHANGED <<partsVars, textVars>>
FormsNext == part = "forms" /\ Forms!Next /\ UNCHANGED <<partsVars, wordVars>>

VmNext == (PartsNext /\ UNCHANGED <<wordVars, textVars>>) \/ CompilersNext \/ FormsNext

\* the fairness of a frame
FrameGoesOn == FrameNext /\ UNCHANGED <<wordVars, textVars>>

VmSpec == VmInit /\ [][VmNext]_allVars /\ WF_allVars(FrameGoesOn)

\* What is computed from words: the interpreter's operations agree with the integers; the
\* two eBPF compilers give an instruction one meaning; and the builder, the disassembler
\* and the assembler agree on what it says
WordsTypeOK == Compilers!TypeOK /\ Forms!TypeOK
WordsAgree ==
  /\ ArithmeticAgrees
  /\ [](/\ WordsTypeOK
        /\ Compilers!OperationsAgree /\ Compilers!JumpsAgree /\ Compilers!AccessesAgree
        /\ Forms!BuildersMean /\ Forms!TextReadsBack)
=============================================================================
