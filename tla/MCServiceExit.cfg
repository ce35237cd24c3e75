\* A port that is taken when the service starts is enough.
SPECIFICATION SSpec
CONSTANTS
  Source = {s1}
  SlotsPerEpoch = 2
  MaxEpoch = 2
  MaxCrash = 1
  HealthyLag = 2
  None = None
INVARIANTS DownMeansAsked
CHECK_DEADLOCK FALSE
