\* Missed slots, the ring buffer wrapping round, credentials and activations
\* that change between the block a proof is made against and the claim.
SPECIFICATION FSpec
CONSTANTS
  v1 = v1
  v2 = v2
  alice = alice
  Index = {v1, v2}
  Account = {alice}
  This = This
  NoOne = NoOne
  NotDeployed = NotDeployed
  NoEntry = NoEntry
  Epoch <- MCEpoch
  FarFuture <- MCFarFuture
  Genesis <- MCGenesis
  GenesisQueue = {v1}
  DeployParams <- MCTerms
  Impl = {impl1}
  BufferLength = 3
  Amount = {1}
  MaxFunded = 1
  MaxTime = 4
  MaxGap = 2
  MaxDepth = 2
  MaxFinalityLag = 2
INVARIANTS RewardedAreEntitled RewardedAreFinal
PROPERTIES UsableBeforeEviction
