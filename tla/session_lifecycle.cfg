SPECIFICATION FairSpec
CONSTANTS
  Sessions = {s1, s2}
  Terminals = {t1}
  Commands = {c1}
  Agents = {a1}
  MaxCalls = 1
CHECK_DEADLOCK FALSE
CONSTRAINT MCScenarios
INVARIANTS CountExact GoneIsRetired
PROPERTIES TeardownSpec BrokenStreamEnds
