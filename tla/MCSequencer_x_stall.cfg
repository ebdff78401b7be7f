\* Refuted with a VM that answers balanceOf with a number, as the interpreter does not
\* (MCSequencer_x_stake.cfg), once the block channel, which nothing drains, is full
CONSTANTS
  t1 = t1
  t2 = t2
  alice = alice
  r1 = r1
  Txs <- NoTxs
  Accounts <- MCAccounts
  Sender <- NoSender
  Readers <- NoReaders
  Faults <- NoFaults
  Answers = {3}
  Object = Object
  ChannelCap = 1
  MaxHead = 4
  MaxCrashes = 0
SPECIFICATION FairSpec
PROPERTY EveryHeightHandled
CHECK_DEADLOCK FALSE
