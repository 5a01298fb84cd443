\* One rejected task: the event is lost.
CONSTANTS
  Window = 3
  Ids = {1}
  SeqNumbers = {1}
  Sessions = {1}
  MaxTasks = 1
  MaxEvents = 2
  MaxFaults = 0
  MaxRejects = 1
  Overlap = 0
SPECIFICATION GatewaySpec
INVARIANTS
  ResumePointCovered
CHECK_DEADLOCK FALSE
