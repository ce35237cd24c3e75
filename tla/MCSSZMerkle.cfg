CONSTANTS
  ValidatorListDepth = 1
  ConsolidationListDepth = 1
  WordSteps = 5
  U64Bits = 16
  World <- Worlds
  NoClaim = NoClaim
  MaxEpoch = 10
SPECIFICATION VSpec
INVARIANTS ProverBundlesVerify AcceptedIsTrue GindexesAgree VerifiersAgree ProversAgree VectorsHold
CHECK_DEADLOCK FALSE
