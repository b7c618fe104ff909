CONSTANTS
  q1 = q1
  q2 = q2
  q3 = q3
  quit = quit
  Query = {q1, q2, quit}
  QuitQuery = {quit}
  None = None
  Restart = "ask"
  ForeignText = FALSE
  MayCrash = FALSE
  MaxServers = 1
  MaxFrames = 2
SPECIFICATION Spec
PROPERTIES QuitDrains
