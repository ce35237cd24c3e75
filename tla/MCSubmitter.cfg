\* Two claims for one validator; one other account, which is also the owner.
SPECIFICATION SubSpec
CONSTANTS
  v1 = v1
  alice = alice
  Index = {v1}
  Account = {alice}
  This = This
  NoOne = NoOne
  NotDeployed = NotDeployed
  NoEntry = NoEntry
  NoCall = NoCall
  NoProof = NoProof
  Call = {c1, c2}
  Epoch <- MCEpoch
  FarFuture = 3
  Genesis <- MCGenesis
  GenesisQueue = {v1}
  DeployParams <- MCDeployParams
  Impl = {impl1}
  BufferLength = 2
  Amount = {1}
  MaxFunded = 2
  MaxTime = 2
  MaxGap = 1
  MaxDepth = 2
INVARIANTS SubTypeOK ConfirmedIsPaid RetriesPayOnce
PROPERTY ClaimsReturn
CHECK_DEADLOCK FALSE
