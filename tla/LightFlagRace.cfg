SPECIFICATION Spec
CONSTANTS
  MaxObservations = 2
  MaxInstances = 0
  NotifyType = 0
  WithPresence = FALSE
  ObsIds = {o1, o2}
  o1 = o1
  o2 = o2
  NoId = NoId
INVARIANTS
  ContinueWhileObserved
