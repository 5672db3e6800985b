SPECIFICATION Spec
CONSTANTS
  Null = Null
  Devices = {1, 2}
  Snippets = {}
  Groups = {1, 2}
  Servers = {}
  Names = {n1}
  Vaults = {v1}
  Creator <- MCCreator
  BatchLimit = 2
  MaxClock = 3
  MaxEdits = 3
  MaxBreaks = 0
  MaxFiles = 0
SYMMETRY MCSymmetry
INVARIANT Convergence
