\* Two epochs of two slots after genesis; a restore point that outlives pruning.
SPECIFICATION Spec
CONSTANTS
  SlotsPerEpoch = 2
  MaxEpoch = 2
  RestorePoint = {0}
  Args <- MCArgs
  None = None
  Torn = Torn
  FinalizedId = FinalizedId
  HeadId = HeadId
INVARIANTS TypeOK HitsAreCurrent PollingMeansEmpty EventsTellEveryPoll SnapshotIsOfOneState SnapshotIsFinalized ScanMissesNothing ScanResultIsExtreme
PROPERTIES ProgramEnds
CHECK_DEADLOCK FALSE
