------------------------------- MODULE MCKernel -------------------------------
(***************************************************************************)
(* Small instances of the parts of the Lunee kernel, with the instructions *)
(* of the modules as one more part.                                        *)
(***************************************************************************)
EXTENDS KernelParts

CONSTANTS Bits, Narrow, Registers

VARIABLES op, a, b, phis, regs, out, after

\* an application of two modules beside OEntry, and a screen where a rotation by a
\* right angle and three others, exact in tenths, leave part of each rectangle visible
AppModules == <<"App", "Lib">>
ExactRotations == {<<10, 0>>, <<0, 10>>, <<6, 8>>, <<8, -6>>, <<-6, 8>>}
TwoPivots == {<<0, 0>>, <<2, 3>>}
ThreeCorners == {<<-1, 2>>, <<1, 0>>, <<3, 3>>}

\* version 1 of the bundles has two chunks to an asset, version 2 one; the medium has
\* everything on one volume, a driver on two, or an invalid bundle before a good one
OneAsset == <<"img">>
TwoSizes == <<2, 1>>
BootFiles == Drivers \cup {"ShiLauncher", "ShiBoot", "slurabsd.bin"}
All(state) == [f \in BootFiles |-> state]
ThreeMedia ==
  {<<All("good"), [f \in BootFiles |-> IF f \in Drivers THEN "good" ELSE "none"]>>,
   <<[f \in BootFiles |-> IF f = "ShiBoot" THEN "bad" ELSE "none"], All("good")>>,
   <<[f \in BootFiles |-> IF f = "ShiLauncher" THEN "bad" ELSE "none"], All("good")>>}

Ir == INSTANCE OvcIr

irVars == <<op, a, b, phis, regs, out, after>>
kernelVars == <<partsVars, irVars>>

\* runs inside runs are taken of a whole application whose modules have their own
\* function, and of fonts of one module
KernelInit ==
  /\ PartsInit /\ Ir!IrInit
  /\ part # "ir" => \A r \in Registers : regs[r] = 0
  /\ fonts \in {{}, {"Lib"}}
  /\ filled = (fonts # {})
  /\ filled => loaded = Run!Modules /\ \A m \in loaded : has[m] = {"own"}

KernelNext ==
  \/ PartsNext /\ UNCHANGED irVars
  \/ part = "ir" /\ Ir!IrNext /\ UNCHANGED partsVars

\* the processor goes on with the run, or the boot, it is in
RunGoesOn ==
  part = "run" /\ Run!RunStep /\ UNCHANGED <<part, assetVars, lookVars, irVars, bootVars>>
BootGoesOn ==
  part = "boot" /\ Boot!BootStep /\ UNCHANGED <<part, assetVars, lookVars, runVars, irVars>>

KernelSpec ==
  KernelInit /\ [][KernelNext]_kernelVars
  /\ WF_kernelVars(RunGoesOn) /\ WF_kernelVars(BootGoesOn)

\* The values that instructions and turned rectangles come to: every instruction leaves
\* what LLVM says in registers of their type, and a turned rectangle has no holes.
ValuesAgree == Ir!IrTypeOK /\ Ir!IrAgrees /\ Canvas!NoHoles

KernelGoesOn == Run!RunEnds /\ (part = "boot" => Boot!BootEnds)
=============================================================================
