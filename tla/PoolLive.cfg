SPECIFICATION FairRunSpec
CONSTANTS
  w1 = w1
  w2 = w2
  d1 = d1
  d2 = d2
  Workers = {w1, w2}
  Servers = {0, 1}
  Fds = {d1, d2}
  T_incr = 1
  tmax = 1
  Backlog = 1
  MaxHups = 0
  NoFd = NoFd
  NoServer = NoServer
PROPERTIES ConnectionServed ServedByOne
