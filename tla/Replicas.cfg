SPECIFICATION FairSpec
CONSTANTS
  a = a
  b = b
  d = d
  c1 = c1
  c2 = c2
  Nodes = {a, b}
  Clients = {c1, c2}
  Home <- TwoHomes
  Peers <- TwoPeers
  Spare = 1
  Requests <- Commands
  Opened = {a}
  Content <- OneCell
INVARIANTS TypeOK CopiesAgree MajorityRead
PROPERTIES OrderKept ActsAsOneFile CommandAnswered
CHECK_DEADLOCK FALSE
