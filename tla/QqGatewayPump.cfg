\* The pump alone: every frame over two ids and two sequence numbers.
CONSTANTS
  Window = 2
  Ids = {1, 2}
  SeqNumbers = {1, 2}
  Sessions = {1}
  MaxTasks = 5
SPECIFICATION PumpSpec
INVARIANTS
  NoRepeatWithinWindow
  ResumeHasSession
CHECK_DEADLOCK FALSE
