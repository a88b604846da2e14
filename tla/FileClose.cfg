SPECIFICATION SoleSpec
CONSTANTS
  b1 = b1
  b2 = b2
  f1 = f1
  t1 = t1
  t2 = t2
  Threads = {t1, t2}
  Names = {f1}
  Fds = {1, 2}
  Blocks = {b1, b2}
  Writers = {t1, t2}
  Closers = {t1, t2}
  Peers = {}
  Sent = {"FWRITE", "FCLOSE"}
  NoName = NoName
  Nil = Nil
INVARIANTS LockNotLeaked SoleTableSound SoleNoPoisonedFile
SYMMETRY Symmetry
\* Two FCLOSEs may end the process or leave every thread asleep.
CHECK_DEADLOCK FALSE
