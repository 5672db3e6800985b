SPECIFICATION ConnSpec
CONSTANTS
  Sess = {s1, s2}
  Calls = {d1}
  MaxTries = 2
CHECK_DEADLOCK FALSE
INVARIANT CommandRunsOnce
