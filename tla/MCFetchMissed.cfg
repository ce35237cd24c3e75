\* Scans over missed slots, against a node that may also fail and prune.
SPECIFICATION Spec
CONSTANTS
  SlotsPerEpoch = 2
  MaxEpoch = 2
  RestorePoint = {0}
  Args <- MCArgs
  None = None
  Torn = Torn
  FinalizedId = FinalizedId
  HeadId = HeadId
INVARIANTS ScanSurvivesMissedSlots
CHECK_DEADLOCK FALSE
