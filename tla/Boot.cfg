SPECIFICATION Spec
CONSTANTS
  LOG_QUEUE_LENGTH = 25
  OLED_COMMANDS = 25
  MaxDevices = 10
  MaxReboots = 1
INVARIANTS BootTypeOK WedgedOnlyWhenCrowded BacklogAtStart
CHECK_DEADLOCK FALSE
