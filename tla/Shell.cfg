SPECIFICATION FairSpec
CONSTANTS
  c1 = c1
  c2 = c2
  Clients = {c1, c2}
  NoClient = NoClient
  Chars = {"x"}
  MaxOut = 3
  Programs <- MCPrograms
  MaxLine = 2
  PipeSize = 1
  MaxOpen = 3
INVARIANTS ShellTypeOK OneProgram PrintIgnoresTiming
PROPERTIES CommandAnswered ClientServed ServesOne
CHECK_DEADLOCK FALSE
