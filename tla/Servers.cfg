SPECIFICATION FairSpec
CONSTANTS
  MaxInstances = 2
  Requests <- MCRequests
  MaxRequests = 3
  Configurations <- MCConfigurations
  MaxTicks = 2
  StopPresenceAfter = 1
INVARIANTS
  TypeOK
  PowerAccounted
  QueryHonoured
  UriNamesResource
  InstancesAnnounced
  SurvivesRequests
  QuietAfterStop
PROPERTIES
  ShutdownCompletes
