\* The chain in memory against the abstract ledger, under every fault but read errors;
\* the answers of the RPC handlers; the manager's locks
CONSTANTS
  t1 = t1
  t2 = t2
  alice = alice
  r1 = r1
  Txs <- NoTxs
  Accounts <- MCAccounts
  Sender <- NoSender
  Readers <- MCReaders
  Faults <- AnyButRead
  Answers = {3, Object}
  Object = Object
  ChannelCap = 4
  MaxHead = 3
  MaxCrashes = 1
  Ops = {o1}
  Sent = {s1}
  Asking = {a1}
  MaxBlocks = 3
  MaxRestarts = 1
  NoReceipt = NoReceipt
  NoDraft = NoDraft
  Handlers = {h1}
  Room = 1
SPECIFICATION ManagerSpec
INVARIANT ManagerTypeOK ChainLinked HeightsIncrease AnswersHold LocksGranted
PROPERTY NoRepeatBelowSaved ImplementsLedger
\* after the last block and crash nothing may be left to do
CHECK_DEADLOCK FALSE
