\* Two claimants that call back into the contract; the chain stays small.
SPECIFICATION Spec
CONSTANTS
  v1 = v1
  v2 = v2
  alice = alice
  bob = bob
  Index = {v1, v2}
  Account = {alice, bob}
  This = This
  NoOne = NoOne
  NotDeployed = NotDeployed
  NoEntry = NoEntry
  Epoch <- MCEpoch
  FarFuture <- MCFarFuture
  Genesis <- ReentrancyGenesis
  GenesisQueue = {v1, v2}
  DeployParams <- TermsNoDelay
  Impl = {impl1}
  BufferLength = 2
  Amount = {1, 2}
  MaxFunded = 3
  MaxTime = 1
  MaxGap = 1
  MaxDepth = 4
INVARIANTS TypeOK NoDoubleReward LogMatchesMarks
PROPERTIES RewardsArePermanent ImplementsAbstractRewards
