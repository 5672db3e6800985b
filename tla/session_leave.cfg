SPECIFICATION FairSpec
CONSTANTS
  Sessions = {s1}
  Terminals = {t1}
  Commands = {}
  Agents = {}
  MaxCalls = 1
CHECK_DEADLOCK FALSE
PROPERTY LeavingReturns
