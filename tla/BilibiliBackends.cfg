\* One chat and one web caller, one operator and two accounts; two refreshes more than
\* the first bundle.
CONSTANTS
  Slots = {"chat", "web"}
  Chats = {"chat"}
  Writers = {"web"}
  Operators = {"o1"}
  Admins = {"o1"}
  Uids = {"u1", "u2"}
  AdminIds <- MCAdminIds
  MaxRequests = 4
  MaxFaults = 1
  MaxSigns = 1
  MaxRestarts = 1
  MaxRefreshes = 3
  MaxOAuthFaults = 1
  WordBits = 3
  MaxSourceStops = 2
SPECIFICATION BackendSpec
INVARIANTS
  OnlyProvenBindings
  StoresAgree
  PauseLostOnlyByStaleCopy
  AuthorisationKept
  TokenUsedOnce
  EveryRequestServed
PROPERTIES
  DelayNeverShrinks
  Recovers
CHECK_DEADLOCK FALSE
