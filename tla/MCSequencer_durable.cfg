\* What survives crashes when RocksDB stores what it is given, what happens to
\* the operations, and progress while the block channel has room
CONSTANTS
  t1 = t1
  t2 = t2
  alice = alice
  r1 = r1
  Txs <- MCTxs
  Accounts <- MCAccounts
  Sender <- MCSender
  Readers <- NoReaders
  Faults <- NoStoreRead
  Answers = {3, Object}
  Object = Object
  ChannelCap = 8
  MaxHead = 3
  MaxCrashes = 1
SPECIFICATION FairSpec
INVARIANT SavedHeightCovered MemoryIsDurable NoTxLost
PROPERTY EveryHeightHandled
