SPECIFICATION FaultsSpec
CONSTANTS
  r1 = r1
  r2 = r2
  Rails = {r1}
  Paged = FALSE
  Format = "fixed"
  Requests <- WideRequests
  Parts = 100
  Limited <- MCLimited
  MinVolt <- MCMinVolt
  MaxVolt <- MCMaxVolt
  PowerUp <- MCPowerUp
  MayFail = TRUE
INVARIANTS
  UnderLimitsHold
