SPECIFICATION CommandsSpec
CONSTANTS
  PWR = PWR
  PRSNT = PRSNT
  EN = EN
  SW3 = SW3
  Selects = {"SC", "FTDI", "EXT"}
  Value <- MCValue
  SC = "SC"
  FTDI = "FTDI"
  MayFail = TRUE
  Others = {PWR, PRSNT, EN}
  Type <- MCType
  Groups <- MCGroups
  Sensors <- MCSensors
  Shunt <- MCShunt
  Domains <- MCDomains
  PartOf <- MCPartOf
  Meant <- MCMeant
  Settings <- MCSettings
  PowerFails = TRUE
  Table <- MCTable
  Line <- MCLine
  Number <- MCNumber
  Constraints <- MCConstraints
  PowerLine = PWR
  Requests <- MCRequests
INVARIANTS
  CommandsTypeOK
  Served
  PoweredPrepared
  Whole
  Measured
  ScriptOnSC
  BackToCurrent
PROPERTIES
  Recorded
