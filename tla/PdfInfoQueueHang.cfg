CONSTANTS
  q1 = q1
  q2 = q2
  q3 = q3
  quit = quit
  Query = {q1, q2, q3}
  QuitQuery = {}
  None = None
  Restart = "t"
  ForeignText = FALSE
  MayCrash = TRUE
  MaxServers = 2
  MaxFrames = 2
SPECIFICATION FairSpec
PROPERTIES QueryEnds
