\* A reload fails and the apply is repeated.
CONSTANTS
  Fields <- MCFields
  ProviderFields <- MCProviderFields
  Optional = {}
  Policy <- MCPolicy
  Sink <- MCSink
  Clients = {"console"}
  Contexts = {"default"}
  Values = {"a", "b"}
  MaxRevision = 3
  MaxPersistFailures = 0
  MaxReloadFailures = 1
  MaxCrashes = 0
SPECIFICATION ConfigSpec
INVARIANTS
  DoneMeansRunning
CHECK_DEADLOCK FALSE
