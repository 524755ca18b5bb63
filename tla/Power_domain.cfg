SPECIFICATION PowerSpec
CONSTANTS
  Sensors <- MCSensors
  Shunt <- MCShunt
  Domains <- MCDomains
  PartOf <- MCPartOf
  Meant <- MCMeant
  Settings = {}
  PowerFails = FALSE
INVARIANTS
  Totals
