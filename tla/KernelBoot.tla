------------------------------ MODULE KernelBoot ------------------------------
(***************************************************************************)
(* The boot of the Lunee kernel: the BSD image and the graphics protocol,  *)
(* the driver bundles, the bundle of the desktop, whose assets are         *)
(* installed on the first volume that takes any, the scan of the installed *)
(* applications and the boot screen's bundle.  Power may go at any moment; *)
(* volumes keep what was written to them and the medium may come back with *)
(* another version of the bundles.                                         *)
(***************************************************************************)
EXTENDS Naturals, Sequences, FiniteSets

CONSTANTS
  NVolumes,   \* volumes with a SimpleFileSystem
  Media,      \* what the volumes hold: volume -> bundle -> "none", "bad" (an invalid
              \* bundle, or a BSD image that cannot be read) or "good"
  Drivers,    \* the .slul bundles, 11 in the code
  AppAssets,  \* assets of an application, as a sequence
  Size,       \* version of the bundles -> 4096-byte chunks of each of their assets
  MaxCuts     \* bound: times the power goes

VARIABLES
  stage,      \* what the kernel does, or the state it ended in
  media,      \* the medium
  writable,   \* volumes that can be written
  version,    \* version of the bundles on the medium
  bsdLoaded,  \* kernel_loaded: is the BSD image in memory
  started,    \* times OnPowerOn of a driver ran since power-on
  install,    \* install_assets_to_esp under way: app, volume, file, chunk, wrote
  files,      \* volume -> application -> asset -> versions of its chunks
  dirs,       \* volumes with \SDC\slu64\apps
  scanned,    \* installed_apps, which publish_registry lists but the desktop itself
  failed,     \* history: has a write failed since power-on
  cuts        \* times the power went

bootVars ==
  <<stage, media, writable, version, bsdLoaded, started, install, files, dirs, scanned,
    failed, cuts>>

Home == "ShiLauncher"
Screen == "ShiBoot"
Apps == {Home, Screen}
Versions == DOMAIN Size
Bundles == Drivers \cup Apps \cup {"slurabsd.bin"}
Manifest == "Maraset.yaml"
Items == Append(AppAssets, Manifest)
Names == {Items[i] : i \in DOMAIN Items}
Volumes == 1..NVolumes
NoInstall == [app |-> Home, volume |-> 1, file |-> 1, chunk |-> 0, wrote |-> 0]

\* the bundle is read from the first volume on which it opens, be it bad
Holding(bundle) == {v \in Volumes : media[v][bundle] # "none"}
Lowest(S) == CHOOSE v \in S : \A u \in S : v <= u
Loads(bundle) == Holding(bundle) # {} /\ media[Lowest(Holding(bundle))][bundle] = "good"

BootInit ==
  /\ stage = "whesere" /\ media \in Media /\ writable \in SUBSET Volumes
  /\ version \in Versions /\ bsdLoaded = FALSE /\ started = [d \in Drivers |-> 0]
  /\ install = NoInstall
  /\ files = [v \in Volumes |-> [a \in Apps |-> [n \in Names |-> <<>>]]]
  /\ dirs \in SUBSET (Volumes \ writable) /\ scanned = {} /\ failed = FALSE /\ cuts = 0

\* WhesereKernel.init: a BSD image that is missing or cannot be read is done without, and
\* the other volumes are not asked when the first cannot read it; graphics that cannot be initialised end the boot
Whesere ==
  /\ stage = "whesere"
  /\ bsdLoaded' = /\ media[1]["slurabsd.bin"] # "bad"
                   /\ \E v \in Volumes : media[v]["slurabsd.bin"] = "good"
  /\ stage' \in {"drivers", "halted"}
  /\ UNCHANGED <<media, writable, version, started, install, files, dirs, scanned,
                 failed, cuts>>

\* load_drivers: every bundle of every volume; one that fails stops no other
StartDrivers ==
  /\ stage = "drivers" /\ stage' = "home"
  /\ started' = [d \in Drivers |-> Cardinality({v \in Volumes : media[v][d] = "good"})]
  /\ UNCHANGED <<media, writable, version, bsdLoaded, install, files, dirs, scanned,
                 failed, cuts>>

\* load_marep_modules up to the assets
LoadBundle(app, installing, without) ==
  /\ install' = [NoInstall EXCEPT !.app = app]
  /\ stage' = IF Loads(app) THEN installing ELSE without
  /\ UNCHANGED <<media, writable, version, bsdLoaded, started, files, dirs, scanned, failed,
                 cuts>>

LoadHome == stage = "home" /\ LoadBundle(Home, "install home", "idle")
LoadScreen == stage = "screen" /\ LoadBundle(Screen, "install screen", "desktop")

Installing == stage \in {"install home", "install screen"}
Now == Items[install.file]
Target == files[install.volume][install.app][Now]
Installed == stage' = IF stage = "install home" THEN "render" ELSE "desktop"

NextVolume_Same(v) == v
NextVolume(v) == v + 1

\* the next file, else the next volume unless this one took an asset
Following(wrote) ==
  IF install.file < Len(Items)
  THEN /\ install' = [install EXCEPT !.file = @ + 1, !.chunk = 0, !.wrote = wrote]
       /\ stage' = stage
  ELSE IF wrote = 0 /\ install.volume < NVolumes
  THEN /\ install' = [NoInstall EXCEPT !.app = install.app, !.volume = NextVolume(install.volume)]
       /\ stage' = stage
  ELSE install' = NoInstall /\ Installed

\* esp_write_file: the file is opened as it is, and written chunk by chunk over what
\* it had; what was longer stays
Rewritten(old, i, v) == IF i > Len(old) THEN Append(old, v) ELSE [old EXCEPT ![i] = v]

WriteChunk ==
  /\ Installing /\ install.volume \in writable /\ install.chunk < Size[version]
  /\ dirs' = dirs \cup {install.volume}
  /\ files' = [files EXCEPT ![install.volume][install.app][Now] =
                 Rewritten(@, install.chunk + 1, version)]
  /\ install' = [install EXCEPT !.chunk = @ + 1]
  /\ UNCHANGED <<stage, media, writable, version, bsdLoaded, started, scanned, failed, cuts>>

CloseFile ==
  /\ Installing /\ install.volume \in writable /\ install.chunk = Size[version]
  /\ Following(IF Now = Manifest THEN install.wrote ELSE install.wrote + 1)
  /\ UNCHANGED <<media, writable, version, bsdLoaded, started, files, dirs, scanned, failed,
                 cuts>>

\* a volume that cannot be written, or a write that fails (bound: once per power-on): the
\* file is not counted
SkipFile ==
  /\ Installing
  /\ \/ install.volume \notin writable /\ UNCHANGED <<failed, dirs>>
     \/ /\ install.volume \in writable /\ install.chunk < Size[version]
        /\ ~failed /\ failed' = TRUE /\ dirs' = dirs \cup {install.volume}
  /\ Following(install.wrote)
  /\ UNCHANGED <<media, writable, version, bsdLoaded, started, files, scanned, cuts>>

\* render_from_marep: graphics again, then scan_installed_apps on the first volume with
\* the directory, and publish_registry
Scanned_Unread == {a \in Apps : dirs # {}}
Scanned == {a \in Apps : dirs # {} /\ files[Lowest(dirs)][a][Manifest] # <<>>}

Render ==
  /\ stage = "render"
  /\ \/ stage' = "idle" /\ scanned' = scanned
     \/ stage' = "screen" /\ scanned' = Scanned
  /\ UNCHANGED <<media, writable, version, bsdLoaded, started, install, files, dirs, failed, cuts>>

PowerCut ==
  /\ cuts < MaxCuts /\ cuts' = cuts + 1
  /\ stage' = "whesere" /\ version' \in Versions /\ bsdLoaded' = FALSE
  /\ started' = [d \in Drivers |-> 0] /\ install' = NoInstall
  /\ scanned' = {} /\ failed' = FALSE
  /\ UNCHANGED <<media, writable, files, dirs>>

BootStep ==
  \/ Whesere \/ StartDrivers \/ LoadHome \/ WriteChunk \/ CloseFile \/ SkipFile
  \/ Render \/ LoadScreen
BootNext == BootStep \/ PowerCut

-----------------------------------------------------------------------------
(* Properties.                                                             *)

Final == {"halted", "idle", "desktop"}
BootTypeOK ==
  /\ stage \in Final \cup {"whesere", "drivers", "home", "install home", "install screen",
                           "render", "screen"}
  /\ media \in Media /\ writable \subseteq Volumes /\ version \in Versions
  /\ bsdLoaded \in BOOLEAN /\ started \in [Drivers -> 0..NVolumes]
  /\ install.volume \in Volumes /\ install.file \in DOMAIN Items
  /\ install.chunk \in 0..Size[version] /\ install.wrote \in 0..Len(AppAssets)
  /\ dirs \subseteq Volumes /\ scanned \subseteq Apps
  /\ failed \in BOOLEAN /\ cuts \in 0..MaxCuts

\* Whatever cuts came before, on the first volume that can be written the desktop's
\* assets begin with all of the bundle's once its installation is over, unless a write
\* has failed since.
HomeInstalled == stage \in {"render", "screen", "install screen", "desktop"}
First == Lowest(writable)
InstalledIsBundle ==
  HomeInstalled /\ writable # {} /\ ~failed =>
    \A n \in Names : \A i \in 1..Size[version] :
      /\ i \in DOMAIN files[First][Home][n]
      /\ files[First][Home][n][i] = version

\* What is scanned is what was installed: the desktop's own entry is among the
\* applications unless an earlier volume, which cannot be written, came with the
\* directory; the boot screen's, which is installed after the scan, is there only when a
\* former boot came to its installation.
ScanFindsInstall ==
  /\ /\ stage \in {"screen", "install screen", "desktop"} /\ writable # {} /\ ~failed
     /\ \A v \in dirs : v >= First
     => Home \in scanned
  /\ Screen \in scanned => cuts > 0

BootSound == InstalledIsBundle /\ ScanFindsInstall

\* Every boot comes to an end, in the desktop or without it, though no volume takes
\* what is installed.
BootEnds == <>[](stage \in Final)
=============================================================================
