SPECIFICATION FairFlowSpec
CONSTANTS
  Frames <- MCFrames
  Subscriptions <- MCSubscriptions
  CommandPrefixes <- MCPrefixes
  Answers <- MCAnswers
  MaxOthers = 1
  BatchSize = 2
  MaxFrames = 2
  SeqBits = 2
  Seeds = {3}
  Resources <- MCResources
  MaxAttempts = 2
  MaxTasks = 2
INVARIANTS
  CommandsOnce
  AnswersReturn
  PartsArriveInOrder
  RepeatsRecognised
  ImageIsWhole
PROPERTY TasksEnd
CHECK_DEADLOCK FALSE
