SPECIFICATION Spec
CONSTANTS
  t1 = t1
  t2 = t2
  i1 = i1
  i2 = i2
  i3 = i3
  None = None
  Null = Null
  Free = Free
  File <- MCFile
  TempPath <- MCTempPath
  Flags <- MCFlags
  NoFlags <- MCNoFlags
  Text = {t1, t2}
  TuId = {i1, i2, i3}
  Dir <- MCDir
  JsonFile <- MCJsonFile
  Command <- MCCommand
  Opening <- MCOpening
  MaxVersion = 2
  MaxClock = 3
  UIntMax = 127
  LongMax = 255
  Word <- MCWord
  Number <- MCNumber
  Letter = {"a", "b", "A"}
  Upper = {"A"}
  Lower <- MCLower
  Wide = {"w"}
  Completion <- MCCompletion
  Message <- MCMessage
CONSTRAINT OnePartMoves
SYMMETRY Symmetric
INVARIANTS
  TypeOK
  HandlesOwned
  AnswersCurrent
  DbCurrent
  CommandsReadBack
  RepliesRead
  PrefixMonotone
  SnippetsFaithful
PROPERTIES
  ImplementsApi
CHECK_DEADLOCK FALSE
