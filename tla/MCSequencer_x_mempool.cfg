\* Refuted with a VM that answers balanceOf with a number, as the interpreter does not
\* (MCSequencer_x_stake.cfg): a block's transactions leave the mempool
CONSTANTS
  t1 = t1
  t2 = t2
  alice = alice
  r1 = r1
  Txs <- OneTx
  Accounts <- MCAccounts
  Sender <- OneSender
  Readers <- NoReaders
  Faults <- NoFaults
  Answers = {3}
  Object = Object
  ChannelCap = 4
  MaxHead = 2
  MaxCrashes = 0
SPECIFICATION Spec
PROPERTY ProcessedLeave
