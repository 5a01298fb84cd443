\* A pause against a binding that is being verified.
CONSTANTS
  Slots = {"chat", "web"}
  Chats = {"chat"}
  Writers = {"web"}
  Operators = {"o1"}
  Admins = {"o1"}
  Uids = {"u1"}
  AdminIds <- MCAdminIds
  MaxRequests = 4
  MaxFaults = 1
  MaxSigns = 1
  MaxRestarts = 1
  MaxRefreshes = 3
  MaxOAuthFaults = 1
  WordBits = 3
  MaxSourceStops = 2
SPECIFICATION BackendSpec
INVARIANT
  PauseKept
CHECK_DEADLOCK FALSE
