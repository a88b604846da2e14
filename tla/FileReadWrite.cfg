SPECIFICATION Spec
CONSTANTS
  b1 = b1
  f1 = f1
  t1 = t1
  t2 = t2
  Threads = {t1, t2}
  Names = {f1}
  Fds = {1}
  Blocks = {b1}
  Writers = {t1}
  Closers = {}
  Peers = {}
  Sent = {"FSEEK", "FREAD", "FWRITE", "FCLOSE"}
  NoName = NoName
  Nil = Nil
INVARIANT ReadWriteExclusion
