\* The connection loop, with rejections: safety and the event channel.
CONSTANTS
  Window = 3
  Ids = {1}
  SeqNumbers = {1}
  Sessions = {1}
  MaxTasks = 1
  MaxEvents = 2
  MaxFaults = 2
  MaxRejects = 1
  Overlap = 1
SPECIFICATION GatewaySpec
INVARIANTS
  HealthTracksPhase
  NothingLeftOver
  CondemnedTokenNotReused
PROPERTIES
  DeliversInOrder
CHECK_DEADLOCK FALSE
