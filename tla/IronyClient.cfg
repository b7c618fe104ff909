SPECIFICATION Spec
CONSTANTS
  MaxRequest = 3
  MaxProcess = 2
  MaxTick = 2
  MaxKilled = 1
  Again <- MCAgain
  NoState = NoState
  Nothing = Nothing
CONSTRAINT InBounds
INVARIANTS
  TypeOK
  FinishedInOrder
  InStep
  FreshAnswers
  TempFilesDeleted
PROPERTIES
  EventuallyCalled
CHECK_DEADLOCK FALSE
