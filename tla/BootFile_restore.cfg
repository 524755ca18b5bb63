SPECIFICATION Spec
CONSTANTS
  a = a
  b = b
  c = c
  Off = Off
  None = None
  Devices <- MCDevices
  Low <- MCLow
  High <- MCHigh
  Default <- MCDefault
  PowerUp <- MCPowerUp
  Retired = {}
  Ranged = {a, b}
  Requests <- MCRequests
  Files <- NoFile
  MaxEntries = 2
  MayFail = FALSE
  FileFails = TRUE
SYMMETRY Alike
INVARIANTS
  Forgotten
