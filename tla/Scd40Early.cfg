SPECIFICATION Spec
CONSTANTS
  TICK = 3
  MaxSamples = 3
INVARIANT MillisecondKept
