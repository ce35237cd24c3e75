\* One consolidation (no rule relates two), failed polls, jumps of finality, a
\* restart, servers that do not start, and a handler of any endpoint; 2 slots stand
\* for the 64 of is_healthy.
SPECIFICATION SSpec
CONSTANTS
  Source = {s1}
  SlotsPerEpoch = 2
  MaxEpoch = 2
  MaxCrash = 1
  HealthyLag = 2
  None = None
INVARIANTS STypeOK ProcessedMeansTracked TrackedWasFinal UnprocessedShowsError
PROPERTIES ResponsesShowProcessed RecordsAreKept NoFalseAlarm QuietStatusIsProcessed EventuallyTracked NoHalfService
CHECK_DEADLOCK FALSE
