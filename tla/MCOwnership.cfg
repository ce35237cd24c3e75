\* The owner: withdrawals, transfers of ownership, upgrades and a reward paid to the contract itself.
SPECIFICATION Spec
CONSTANTS
  v1 = v1
  v2 = v2
  alice = alice
  bob = bob
  Index = {v1, v2}
  Account = {alice, bob}
  This = This
  NoOne = NoOne
  NotDeployed = NotDeployed
  NoEntry = NoEntry
  Epoch <- MCEpoch
  FarFuture <- MCFarFuture
  Genesis <- SelfGenesis
  GenesisQueue = {v1, v2}
  DeployParams <- TermsTwo
  Impl = {impl1, impl2}
  BufferLength = 2
  Amount = {1, 2}
  MaxFunded = 2
  MaxTime = 1
  MaxGap = 1
  MaxDepth = 3
INVARIANTS Solvency CallsAreConsistent
PROPERTIES RenouncedIsFinal
