SPECIFICATION Spec
CONSTANTS
  p1 = p1
  p2 = p2
  reset = reset
  prsnt = prsnt
  q1 = q1
  q2 = q2
  sfp1 = sfp1
  None = None
  Pins = {p1, p2, reset, prsnt}
  Upper = {p1, p2}
  Outputs = {p1, p2, reset}
  ResetPin = reset
  Modules = {q1, q2, sfp1}
  Listing <- MCListing
  Method <- MCMethod
  Scanned = {}
  SelectPin <- MCSelectPin
  UserValues = {}
  MayFail = FALSE
INVARIANTS
  StillExclusive
