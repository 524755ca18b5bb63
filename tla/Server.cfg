SPECIFICATION FairSpec
CONSTANTS
  k1 = k1
  k2 = k2
  Clients = {k1, k2}
  Commands = {"empty", "quiet", "usage", "list", "long", "leaky"}
  Bytes = {"E", ":", "t"}
  Prefix <- MCPrefix
  BufSize = 4
  Output <- MCOutput
  Failed <- MCFailed
  Opens <- MCOpens
  Leaks <- MCLeaks
  Empty = "empty"
  Backlog = 1
  OwnFds = 4
  MaxFds = 7
  MayDie = TRUE
INVARIANTS
  AcceptSucceeds
  OwnAnswer
  OkMeansTaken
  ExitTells
PROPERTIES
  Answered
