\* Two clients that have read the defaults.
CONSTANTS
  Fields <- MCFields
  ProviderFields <- MCProviderFields
  Optional = {}
  Policy <- MCPolicy
  Sink <- MCSink
  Clients = {"console", "cli"}
  Contexts = {"default"}
  Values = {"a", "b"}
  MaxRevision = 3
  MaxPersistFailures = 0
  MaxReloadFailures = 0
  MaxCrashes = 0
SPECIFICATION ConfigSpec
INVARIANTS
  NoLostUpdate
CHECK_DEADLOCK FALSE
