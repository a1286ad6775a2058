SPECIFICATION FairSpec
CONSTANTS
  Block = {b1, b2, b3}
  NULL = NULL
PROPERTIES MeasurementsAreSent
