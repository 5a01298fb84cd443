\* The OpenAPI runner and the blocking task of the event source: what they
\* share, and that every call comes to an end.
CONSTANTS
  Threads = {runner, gateway}
  Ttl = 1
  Margin = 0
  MaxAttempts = 2
  MaxTime = 1
  MaxCalls = 2
  MaxStarts = 2
  MaxFaults = 2
SPECIFICATION FairAuthSpec
INVARIANTS
  AskedOnlyWhenStale
  RetryUsesAnotherToken
  LateStoreAtMostOnce
PROPERTIES
  CallsEnd
CHECK_DEADLOCK FALSE
