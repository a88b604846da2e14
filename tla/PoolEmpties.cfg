SPECIFICATION Spec
CONSTANTS
  w1 = w1
  w2 = w2
  w3 = w3
  d1 = d1
  Workers = {w1, w2, w3}
  Servers = {0}
  Fds = {d1}
  T_incr = 1
  tmax = 2
  Backlog = 1
  MaxHups = 0
  NoFd = NoFd
  NoServer = NoServer
INVARIANT AcceptorsRemain
SYMMETRY Symmetry
