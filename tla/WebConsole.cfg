\* Two clients of one provider, failures and a crash; or a session with the form of
\* another; or an upgrade by two command lines and the console.
CONSTANTS
  Fields <- MCFields
  ProviderFields <- MCProviderFields
  Optional = {"profile", "instance_id"}
  Policy <- MCPolicy
  Sink <- MCSink
  Clients = {cli1, cli2}
  Contexts = {"default"}
  Values = {"a", "b"}
  MaxRevision = 4
  MaxPersistFailures = 1
  MaxReloadFailures = 1
  MaxCrashes = 1
  Budgets <- MCBudgets
  FormProviders <- MCFormProviders
  TheProvider = "adapter"
  FormDefaults <- MCFormDefaults
  FormContexts <- MCFormContexts
  FormCandidates <- MCFormCandidates
  CapabilitySets <- MCCapabilitySets
  Meant <- MCMeant
  FitsBudgets <- SchemaWithinBudgets
  Accepts <- Valid
  ValueDepth = 2
  MaxFormRevision = 2
  Repositories <- MCRepositories
  PluginKits = {"bot_plugins", "script_plugins"}
  Revisions = {"r1", "r2"}
  cli1 = cli1
  cli2 = cli2
  Callers = {cli1, cli2, "web"}
  Checkouts <- MCCheckouts
  OptionSets <- MCOptionSets
SYMMETRY SameCommands
SPECIFICATION ConsoleSpec
INVARIANTS
  MemoryMatchesFile
  StaleWriteRefused
  ReloadsCatchUp
  EveryCommitAnnounced
  StoredAsMeant
  SuccessIsOfTarget
PROPERTIES
  FormKeepsSecrets
  SecretsGuarded
  PreviewChangesNothing
CHECK_DEADLOCK FALSE
