SPECIFICATION Spec
CONSTANTS
  s1 = s1
  s2 = s2
  t1 = t1
  t2 = t2
  t3 = t3
  r1 = r1
  r2 = r2
  Sessions = {s1, s2}
  Tunnels = {t1, t3}
  Recordings = {r1, r2}
  TunnelOf <- MCTunnelOf
  RecordingOf <- MCRecordingOf
CHECK_DEADLOCK FALSE
INVARIANT GoneHasNoServices
