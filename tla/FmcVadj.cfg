SPECIFICATION BoardSpec
CONSTANTS
  p1 = p1
  p2 = p2
  reset = reset
  prsnt1 = prsnt1
  prsnt2 = prsnt2
  q1 = q1
  q2 = q2
  viaPdi = viaPdi
  scanned = scanned
  None = None
  Off = Off
  Pins = {p1, p2, reset, prsnt1, prsnt2}
  Upper = {p1, p2}
  Outputs = {p1, p2, reset}
  ResetPin = reset
  Modules = {q1, q2, viaPdi, scanned}
  Listing <- MCListing
  Method <- MCMethod
  Scanned = {scanned}
  SelectPin <- MCSelectPin
  UserValues <- MCUserValues
  MayFail = TRUE
  Slots = {1, 2}
  Cards <- MCCards
  Gated = {2}
  Lines = TRUE
  PresencePin <- MCPresencePin
  Supported <- MCSupported
  Default = 15
  Initial = 0
INVARIANTS
  BoardTypeOK
  Exclusive
  ResetReleased
  Fits
  GatesClosed
PROPERTIES
  OnlyRestoreResets
  NeverGuessed
