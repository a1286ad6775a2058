SPECIFICATION FairSpec
CONSTANTS
  LOG_QUEUE_LENGTH = 2
  DISPLAY_QUEUE_LENGTH = 1
  NETWORK_QUEUE_LENGTH = 1
  MaxSamples = 1
  FRAME_WRITES = 0
  MaxResets = 0
  BootMessages <- MCBootMessages
PROPERTIES
  LogDrains
  SampleShown
  CommandTaken
CHECK_DEADLOCK FALSE
