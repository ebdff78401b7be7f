\* Refuted by the answer of the interpreter, an object that as_u64 does not read
CONSTANTS
  t1 = t1
  t2 = t2
  alice = alice
  r1 = r1
  Txs <- NoTxs
  Accounts <- MCAccounts
  Sender <- NoSender
  Readers <- NoReaders
  Faults <- NoFaults
  Answers = {Object}
  Object = Object
  ChannelCap = 4
  MaxHead = 2
  MaxCrashes = 0
SPECIFICATION FairSpec
PROPERTY StakeCounts
CHECK_DEADLOCK FALSE
