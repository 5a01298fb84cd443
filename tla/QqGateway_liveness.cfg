\* Without rejections: what must happen does.
CONSTANTS
  Window = 3
  Ids = {1}
  SeqNumbers = {1}
  Sessions = {1}
  MaxTasks = 1
  MaxEvents = 1
  MaxFaults = 2
  MaxRejects = 0
  Overlap = 1
SPECIFICATION FairGatewaySpec
PROPERTIES
  DeadConnectionNoticed
  StopEnds
  EventsArrive
CHECK_DEADLOCK FALSE
