SPECIFICATION FairSpec
CONSTANTS
  Null = Null
  Devices = {1, 2}
  Snippets = {1}
  Groups = {}
  Servers = {}
  Names = {n1, n2}
  Vaults = {v1}
  Creator <- MCCreator
  BatchLimit = 1
  MaxClock = 3
  MaxEdits = 3
  MaxBreaks = 1
  MaxFiles = 0
INVARIANTS TypeOK EditNotLost
PROPERTY EventuallyConverged
