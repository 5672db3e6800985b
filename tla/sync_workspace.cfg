SPECIFICATION Spec
CONSTANTS
  Null = Null
  Devices = {1, 2}
  Snippets = {5}
  Groups = {1, 2}
  Servers = {4}
  Names = {n1}
  Vaults = {v1, v2}
  Creator <- MCCreator
  BatchLimit = 2
  MaxClock = 3
  MaxEdits = 3
  MaxBreaks = 1
  MaxFiles = 1
CONSTRAINT MCScenarios
INVARIANTS StoreConsistent MintedOnce UncontestedConvergence
