SPECIFICATION FairSpec
CONSTANTS
  Servers = {s1, s2}
  Uris = {temperature, other}
  TEMPERATURE = temperature
  NoServer = NoServer
  s1 = s1
  s2 = s2
  temperature = temperature
  other = other
INVARIANTS
  TypeOK
  PromptMeansIdle
  AddressIsWhole
  QuietAfterStop
PROPERTIES
  MissedResponseIsFinal
  ShutdownCompletes
