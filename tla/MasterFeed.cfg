SPECIFICATION FairSpec
CONSTANTS
  Sym = {a, b}
  Nets <- MCTwoNets
  Accounts = {m}
  Main = m
  Conns = {c1, c2}
  MaxChanges = 2
  MaxDrops = 1
  MaxApplies = 1
INVARIANTS
  TypeOK
  PointInTime
  Lockstep
  NoLostApply
PROPERTIES
  FeedConverges
