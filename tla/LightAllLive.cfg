SPECIFICATION FairSpec
CONSTANTS
  MaxObservations = 2
  MaxInstances = 0
  NotifyType = 0
  WithPresence = TRUE
  ObsIds = {o1, o2}
  o1 = o1
  o2 = o2
  NoId = NoId
PROPERTIES
  AllObserversNotified
  ShutdownCompletes
