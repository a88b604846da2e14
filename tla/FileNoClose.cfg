SPECIFICATION Spec
CONSTANTS
  b1 = b1
  b2 = b2
  f1 = f1
  t1 = t1
  t2 = t2
  t3 = t3
  Threads = {t1, t2, t3}
  Names = {f1}
  Fds = {1, 2}
  Blocks = {b1, b2}
  Writers = {t1, t2, t3}
  Closers = {}
  Peers = {t3}
  Sent = {"FSEEK", "FREAD", "FWRITE", "FCLOSE"}
  NoName = NoName
  Nil = Nil
INVARIANTS TypeOK WriteExclusion CountersExact RegistryAgrees
PROPERTY OneWriterAtATime
SYMMETRY Symmetry
