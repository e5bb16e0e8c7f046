SPECIFICATION Spec
CONSTANTS
  MaxObservations = 2
  MaxInstances = 1
  NotifyType = 0
  WithPresence = TRUE
  ObsIds = {o1, o2, o3}
  o1 = o1
  o2 = o2
  o3 = o3
  NoId = NoId
SYMMETRY ObsSymmetry
INVARIANTS
  TypeOK
  TableMatchesStack
  FlagMatchesTable
  QuietAfterStop
  DeletesWhatItCreated
