SPECIFICATION Spec
CONSTANTS
  jtag = jtag
  sd = sd
  qspi = qspi
  custom = custom
  pdiES1 = pdiES1
  pdiPROD = pdiPROD
  Garbled = Garbled
  Empty = Empty
  None = None
  Modes = {jtag, qspi, sd}
  NumLines = 2
  Ones <- MCOnes
  Switch = {0}
  Readback = TRUE
  PDIs = {custom, pdiES1, pdiPROD}
  Revisions = {"ES1", "PROD"}
  Actual = "PROD"
  Default <- MCDefault
  Ignored = FALSE
INVARIANTS
  DefaultFits
  RevisionTrue
  RunsPDI
  RunsMode
