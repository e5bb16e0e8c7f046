SPECIFICATION FairSpec
CONSTANTS
  MaxObservations = 4
  MaxInstances = 0
  NotifyType = 1
  WithPresence = FALSE
  ObsIds = {o1, o2, o3}
  o1 = o1
  o2 = o2
  o3 = o3
  NoId = NoId
INVARIANTS
  NotifyListFits
  NotifiedIdsRegistered
PROPERTIES
  EvenSlotsNotified
