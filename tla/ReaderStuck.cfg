\* A reader cancelled at a full queue never ends, and neither does the call.
SPECIFICATION FairSpec
CONSTANTS
  Capacity = 2
  MaxLines = 3
CHECK_DEADLOCK FALSE
PROPERTIES
  CallReturns
