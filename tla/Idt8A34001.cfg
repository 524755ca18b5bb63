SPECIFICATION Spec
CONSTANTS
  d0 = d0
  d1 = d1
  c1 = c1
  c2 = c2
  Blank = Blank
  Torn = Torn
  None = None
  Designs = {d0, d1, c1, c2}
  HasBin = {d0, d1}
  Default = d0
INVARIANTS
  Restored
  ReadsTell
PROPERTIES
  VolatileSet
