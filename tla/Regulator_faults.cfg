SPECIFICATION FaultsSpec
CONSTANTS
  r1 = r1
  r2 = r2
  Rails = {r1, r2}
  Paged = TRUE
  Format = "absolute"
  Requests <- MCRequests
  Parts = 100
  Limited <- MCLimited
  MinVolt <- MCMinVolt
  MaxVolt <- MCMaxVolt
  PowerUp <- MCPowerUp
  MayFail = TRUE
INVARIANTS
  TypeOK
  OverLimits
  Bounded
  Promise
  UnderLimits
PROPERTIES
  OnlyTheRailAsked
  NeverWrittenLive
  ComesBack
