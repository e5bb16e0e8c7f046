SPECIFICATION FairSpec
CONSTANTS
  CALLBACK_TIMEOUT = 2
  MaxDevices = 2
  MaxCalls = 3
INVARIANTS
  TypeOK
  CallbackEndsWait
PROPERTIES
  SelectionInList
  EarlyReturnIsOwn
  WaitEnds
