SPECIFICATION Spec
CONSTANTS
  LOG_QUEUE_LENGTH = 2
  DISPLAY_QUEUE_LENGTH = 1
  NETWORK_QUEUE_LENGTH = 1
  MaxSamples = 2
  FRAME_WRITES = 1
  MaxResets = 1
  BootMessages <- MCBootMessages
INVARIANTS
  TypeOK
  LwipExclusion
  LastCommandWins
  SomeTaskRuns
  OnlyNewer
  StopsAreGuarded
PROPERTIES
  DisplayInOrder
  NetworkInOrder
  InRounds
CHECK_DEADLOCK FALSE
