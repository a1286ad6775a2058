SPECIFICATION WdSpec
CONSTANTS
  TICK = 3
  MaxSamples = 3
INVARIANTS ScdTypeOK MeasuringWhenPolled FreshOnly AtMostATickEarly BitesAfterFailure
PROPERTY InRounds
