\* The watcher with its progress file, against a node that may fail at any request.
SPECIFICATION Spec
CONSTANTS
  SlotsPerEpoch = 2
  MaxEpoch = 2
  RestorePoint = {0}
  Args <- MCArgs
  None = None
  Torn = Torn
  FinalizedId = FinalizedId
  HeadId = HeadId
INVARIANTS ProgressTellsTheExit
CHECK_DEADLOCK FALSE
