SPECIFICATION BoundedSpec
CONSTANTS
  w1 = w1
  w2 = w2
  w3 = w3
  d1 = d1
  d2 = d2
  Workers = {w1, w2, w3}
  Servers = {0}
  Fds = {d1, d2}
  T_incr = 1
  tmax = 1
  Backlog = 1
  MaxHups = 1
  MaxClients = 2
  NoFd = NoFd
  NoServer = NoServer
INVARIANTS LiveBounded SessionsListed
SYMMETRY Symmetry
