\* No failure at all: finality alone jumps over an epoch.
SPECIFICATION Spec
CONSTANTS
  Source = {s1}
  SlotsPerEpoch = 2
  MaxEpoch = 3
  MaxCrash = 0
INVARIANTS EveryFinalizedEpochTracked
