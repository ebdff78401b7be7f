\* Discovery, rounds, start and the VM of two nodes and a foreign peer
CONSTANTS
  p1 = p1
  p2 = p2
  f1 = f1
  Nodes <- MCNodes
  Foreign <- MCForeign
  Boot <- MCBoot
  AtSeed <- MCAtSeed
  Allowed <- MCAllowed
  Users <- MCUsers
  MaxTalks = 1
SPECIFICATION FairSpec
INVARIANT TypeOK
PROPERTY NodesGoOn TalksNeverEnd
\* with the bound on discoveries reached and no peer known nothing moves
CHECK_DEADLOCK FALSE
