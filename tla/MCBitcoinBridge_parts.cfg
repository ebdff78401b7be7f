\* The watcher and the anchors, their callers and a node that is reorganised, late and failing
CONSTANTS
  b1 = b1
  b2 = b2
  t1 = t1
  t2 = t2
  Branches <- MCBranches
  Txs <- MCTxs
  TxsIn <- MCTxsIn
  Outputs <- MCOutputs
  MinConf = 3
  MaxHeight = 4
  MaxReorg = 2
  MaxLag = 1
  ContractIsSet = TRUE
  RpcFails = TRUE
SPECIFICATION PartsSpec
INVARIANT PartsTypeOK ConfirmedStays AnchorsHold
PROPERTY BridgeGoesOn
\* with a contract the watcher may wait for ever for a lock it holds
CHECK_DEADLOCK FALSE
