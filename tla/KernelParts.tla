------------------------------ MODULE KernelParts ------------------------------
(***************************************************************************)
(* The parts of the Lunee kernel, which share no state that any of them    *)
(* decides on.  Each behaviour is one of a single part, chosen at the      *)
(* start, while the other parts keep one initial state.  The instructions  *)
(* of the modules, OvcIr, are added by MCKernel.                           *)
(***************************************************************************)
EXTENDS SrfsCache, Integers, FiniteSets

CONSTANTS
  Parts, \* the parts whose behaviours are taken
  NImages, NScaled, NVector, Pictures, Drawings, Blank,
  Width, NApps, Step, Throttle, LongPress, BootFrames, MaxWindows,
  Components, MaxDepth, MaxBlocks, NConsts, NBlocks, MaxCalls, MaxNested, MaxRuns,
  ScreenW, ScreenH, Unit, Rotations, Pivots, Corners, Sides, Radii, MaxBlur, MaxClips,
  NVolumes, Media, Drivers, AppAssets, Size, MaxCuts

VARIABLES
  part,
  images, ages, scaled, turn, drawn, vectors, holders, recent, reused, recycled,
  frame, cursor, pinned, windows, hold, dockMenu, menu, pressed, blind, shown,
  loaded, has, filled, fonts, cross, queue, frames, below, overrun, consts, blocks, parsed,
  built, runs,
  transform, opaque, clips, call, shape, painted,
  stage, media, writable, version, bsdLoaded, started, install, files, dirs, scanned,
  failed, cuts

Handles == INSTANCE AssetHandles WITH rank <- ages
Desktop == INSTANCE Desktop
Run == INSTANCE OvcRun
Canvas == INSTANCE GpuCanvas
Boot == INSTANCE KernelBoot

\* the caches have slots, and a slot's asset is not the mark of an empty slot
ASSUME HandlesAssumption ==
  /\ NImages \in Nat \ {0} /\ NScaled \in Nat \ {0} /\ NVector \in Nat \ {0}
  /\ Blank \notin Drawings
  /\ Blank \notin [pic : Pictures, at : 1..NImages + 1]
  /\ Blank \notin [at : 1..NImages + 1, size : {"own", "fitted"}, pic : Pictures]
ASSUME DesktopAssumption ==
  /\ Width \in Nat \ {0} /\ NApps \in Nat /\ Step \in Nat /\ Throttle \in Nat \ {0}
  /\ LongPress \in Nat \ {0} /\ BootFrames \in Nat /\ MaxWindows \in Nat
\* OEntry is listed apart
ASSUME RunAssumption ==
  /\ Components \in Seq(STRING) /\ \A i \in DOMAIN Components : Components[i] # "OEntry"
  /\ MaxDepth \in Nat /\ MaxBlocks \in Nat \ {0} /\ NConsts \in Nat /\ NBlocks \in Nat
  /\ MaxCalls \in Nat /\ MaxNested \in Nat /\ MaxRuns \in Nat
ASSUME CanvasAssumption ==
  /\ ScreenW \in Nat /\ ScreenH \in Nat /\ Unit \in Nat \ {0}
  /\ Rotations \subseteq Int \X Int /\ Pivots \subseteq Int \X Int
  /\ Corners \subseteq Int \X Int /\ Sides \subseteq Nat /\ Radii \subseteq Nat
  /\ MaxClips \in Nat
\* an asset is not empty
ASSUME BootAssumption ==
  /\ NVolumes \in Nat \ {0} /\ MaxCuts \in Nat
  /\ Media # {} /\ Media \subseteq [1..NVolumes -> [Boot!Bundles -> {"none", "bad", "good"}]]
  /\ Size \in Seq(Nat \ {0}) /\ Size # <<>>
  /\ AppAssets \in Seq(STRING)

handlesVars ==
  <<images, ages, scaled, turn, drawn, vectors, holders, recent, reused, recycled>>
screenVars == <<frame, cursor, pinned, windows, hold, dockMenu, menu, pressed, blind, shown>>
runVars ==
  <<loaded, has, filled, fonts, cross, queue, frames, below, overrun, consts, blocks, parsed,
    built, runs>>
canvasVars == <<transform, opaque, clips, call, shape, painted>>
bootVars ==
  <<stage, media, writable, version, bsdLoaded, started, install, files, dirs, scanned,
    failed, cuts>>
assetVars == <<srfsVars, handlesVars>>
lookVars == <<screenVars, canvasVars>>
partsVars == <<part, assetVars, lookVars, runVars, bootVars>>

PartsInit ==
  /\ part \in Parts
  /\ SrfsInit /\ Handles!HandlesInit /\ Desktop!DesktopInit
  /\ Run!RunInit /\ Canvas!CanvasInit /\ Boot!BootInit
  /\ part # "desktop" => pinned = {}
  /\ part # "run" => /\ loaded = Run!Listed /\ \A m \in DOMAIN has : has[m] = {}
                     /\ ~filled /\ fonts = {}
  /\ part # "boot" => /\ media = CHOOSE m \in Media : TRUE
                      /\ writable = {} /\ version = 1 /\ dirs = {}

FilesNext ==
  part = "files" /\ SrfsNext /\ UNCHANGED <<part, handlesVars, lookVars, runVars, bootVars>>
ImagesNext ==
  part = "images" /\ Handles!ImageNext
  /\ UNCHANGED <<part, srfsVars, lookVars, runVars, bootVars>>
VectorsNext ==
  part = "vectors" /\ Handles!VectorNext
  /\ UNCHANGED <<part, srfsVars, lookVars, runVars, bootVars>>
DesktopNext ==
  part = "desktop" /\ Desktop!DesktopNext
  /\ UNCHANGED <<part, assetVars, canvasVars, runVars, bootVars>>
CanvasNext ==
  part = "canvas" /\ Canvas!CanvasNext
  /\ UNCHANGED <<part, assetVars, screenVars, runVars, bootVars>>
RunNext ==
  part = "run" /\ Run!RunNext /\ UNCHANGED <<part, assetVars, lookVars, bootVars>>
BootNext ==
  part = "boot" /\ Boot!BootNext /\ UNCHANGED <<part, assetVars, lookVars, runVars>>

PartsNext ==
  FilesNext \/ ImagesNext \/ VectorsNext \/ DesktopNext \/ CanvasNext \/ RunNext \/ BootNext

PartsSpec == PartsInit /\ [][PartsNext]_partsVars

-----------------------------------------------------------------------------
(* Properties.                                                             *)

KernelTypeOK ==
  /\ SrfsTypeOK /\ Handles!HandlesTypeOK /\ Desktop!DesktopTypeOK
  /\ Run!RunTypeOK /\ Canvas!CanvasTypeOK /\ Boot!BootTypeOK

\* What a handle, a font or a path was given for is what it denotes: no cache gives a
\* slot away while something that is read through it is still there.
AssetsHold == FontsStay /\ WrittenOnceIsRead /\ Handles!HandlesDenote

\* Windows, menus and contents fit what was clicked, nothing is drawn elsewhere than on
\* the screen but by the two calls that test no bound, and a line reaches its end.
ScreenSound == Desktop!DesktopConsistent /\ Canvas!InsideScreen /\ Canvas!LineReaches

\* Modules are built before the application starts, and the assets of a boot are
\* installed whole before they are scanned, whatever cuts came before.
StartsSound == Run!RunSound /\ Boot!BootSound
=============================================================================
