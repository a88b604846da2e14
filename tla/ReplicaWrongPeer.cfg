SPECIFICATION Spec
CONSTANTS
  a = a
  b = b
  d = d
  c1 = c1
  c2 = c2
  Nodes = {a, b, d}
  Clients = {c1}
  Home <- SoloHome
  Peers <- AllPeers
  Spare = 1
  Requests <- SoloCommands
  Opened = {a}
  Content <- OneCell
INVARIANT EveryPeerAsked
CHECK_DEADLOCK FALSE
