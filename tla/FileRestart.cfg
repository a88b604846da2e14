SPECIFICATION BoundedSpec
CONSTANTS
  b1 = b1
  b2 = b2
  f1 = f1
  t1 = t1
  t2 = t2
  Threads = {t1, t2}
  Names = {f1}
  Fds = {1}
  Blocks = {b1, b2}
  Writers = {t1, t2}
  Closers = {t1}
  Peers = {}
  Sent = {"FREAD", "FWRITE", "FCLOSE"}
  NoName = NoName
  Nil = Nil
  MaxSignals = 1
  MaxRequests = 3
INVARIANTS RestartTypeOK RegistriesSurvive
PROPERTIES AccessCompletes SimultaneousReading
CHECK_DEADLOCK FALSE
