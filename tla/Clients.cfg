SPECIFICATION Spec
CONSTANTS
  MaxNotifications = 2
  Endpoints = {e1, e2}
  DeviceOf <- MCDeviceOf
  NoEndpoint = NoEndpoint
  ResourceLists <- MCResourceLists
  MaxAnswers = 2
  MaxResponses <- MCMaxResponses
  MaxFailures = 1
  MaxSeen = 5
  e1 = e1
  e2 = e2
INVARIANTS
  TypeOK
  NotificationsBounded
  CancelsLive
  RequestsReachResponders
  QueriedOnce
