SPECIFICATION Spec
CONSTANTS
  CALLBACK_TIMEOUT = 2
  MaxDevices = 2
  MaxCalls = 3
PROPERTIES
  ActsLikeBlocking
