\* Three contracts with one slot, two words besides zero, three frames.
SPECIFICATION Spec
CONSTANTS
  c1 = c1
  c2 = c2
  c3 = c3
  slot = slot
  owner = owner
  User = User
  Contracts <- Three
  Slots <- OneSlot
  OwnerSlot = owner
  Values <- TwoValues
  MaxDepth = 3
  MaxSteps = 6
INVARIANTS TypeOK StorageIsEvm ReadsLastStore
SYMMETRY AnyContract
