\* A client and the VEZ task with one sender, VEZ and one more contract, a crash
\* or shutdown; ten deployments at one address, two of them in a run, and a restart.
SPECIFICATION PartsSpec
CONSTANTS
  client = client
  validator = validator
  vez = vez
  x = x
  Clients <- OneClient
  Deployer = Deployer
  Saver = Saver
  NoOne = NoOne
  Users <- OnlyValidator
  Validator = validator
  Contracts <- VezAndOne
  Vez = vez
  Provided <- NoneOrOne
  MaxTx = 2
  MaxCrashes = 1
  Programs <- MCBytecodes
  Bytes <- MCBytes
  Selectors <- MCSelectors
  FallbackHash <- MCFallbackHash
  UnknownHash <- MCUnknownHash
  TextHash <- MCTextHash
  Deployments <- MCDeployments
  NoProgram = NoProgram
  MaxDeploys = 2
  MaxReboots = 1
INVARIANTS TypeOK AnsweredIsKept NextNonceIsNew VezDeployed LocksReleasable CallsFindCode
