SPECIFICATION FairSpec
CONSTANTS
  Account = {"A", "B"}
  Behind <- MCBehind
  LivePorts = {4001, 7496}
  PaperPorts = {4002}
  Multipliers = {100}
  Symbol = {"s1", "s2"}
  Holdings <- MCHoldings
  MaxQty = 1
  MaxSaves = 2
  MaxMoves = 1
  MaxTroubles = 2
INVARIANT OneAccountShown
PROPERTIES PortfolioFollows
CHECK_DEADLOCK FALSE
