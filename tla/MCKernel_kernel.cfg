\* Three slots for seven paths, two images and two vector handles of each kind, a dock
\* of two applications on three places, two modules beside OEntry with one call below
\* the first and one run inside a run, 8-bit registers with 3-bit types, a screen of 6
\* by 5 pixels, and boots from two volumes with two power cuts; a run and an instruction
\* may be the last, hence no deadlock check
CONSTANTS
  Parts = {"files", "images", "vectors", "desktop", "run", "ir", "canvas", "boot"}
  NSlots = 3
  Fonts = {"font"}
  Assets = {"cursor", "image", "wallpaper"}
  Chain = {"chain1", "chain2"}
  Written = {"index"}
  Entries = {1, 2}
  None = None
  NImages = 2
  NScaled = 2
  NVector = 2
  Pictures = {"a", "b"}
  Drawings = {"a", "b"}
  Blank = Blank
  Width = 3
  NApps = 2
  Step = 2
  Throttle = 2
  LongPress = 2
  BootFrames = 1
  MaxWindows = 2
  Components <- AppModules
  MaxDepth = 1
  MaxBlocks = 2
  NConsts = 2
  NBlocks = 2
  MaxCalls = 1
  MaxNested = 1
  MaxRuns = 2
  Bits = 8
  Narrow = 3
  Registers = {"x", "y"}
  ScreenW = 6
  ScreenH = 5
  Unit = 10
  Rotations <- ExactRotations
  Pivots <- TwoPivots
  Corners <- ThreeCorners
  Sides = {1, 3, 4}
  Radii = {0, 1}
  MaxBlur = 12
  MaxClips = 1
  NVolumes = 2
  Media <- ThreeMedia
  Drivers = {"SluGpu"}
  AppAssets <- OneAsset
  Size <- TwoSizes
  MaxCuts = 2
SPECIFICATION KernelSpec
CHECK_DEADLOCK FALSE
INVARIANT KernelTypeOK AssetsHold ScreenSound StartsSound ValuesAgree
PROPERTY KernelGoesOn
