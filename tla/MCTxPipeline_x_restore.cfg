\* The instance of sends, for what load_persisted_contracts promises.
SPECIFICATION Spec
CONSTANTS
  client = client
  validator = validator
  vez = vez
  x = x
  Clients <- OneClient
  Deployer = Deployer
  Saver = Saver
  NoOne = NoOne
  Users <- OnlyValidator
  Validator = validator
  Contracts <- VezAndOne
  Vez = vez
  Provided <- NoneOrOne
  MaxTx = 2
  MaxCrashes = 1
INVARIANTS ContractsRestored
