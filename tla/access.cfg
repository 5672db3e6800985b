SPECIFICATION AccessSpec
CONSTANTS
  NoKey = NoKey
  KeySet = {k1, k2}
  Connects = {c1, c2}
  MaxRotations = 1
  sess1 = sess1
  sess2 = sess2
  Sess = {sess1, sess2}
  Calls = {d1}
  MaxTries = 2
  app1 = app1
  app2 = app2
  Apps = {app1, app2}
  Daemons = {daemon1}
  Commands = {command1}
  MaxPolls = 1
  conn2 = conn2
  Conns = {conn1, conn2}
  MaxActive = 1
  MaxChunks = 1
  Clients = {script1, script2}
  Ports = {port1, port2}
  MaxStarts = 3
  MaxLooks = 2
  job1 = job1
  job2 = job2
  Jobs = {job1, job2}
  MaxSess = 3
  MaxLines = 1
CHECK_DEADLOCK FALSE
INVARIANT AccessTypeOK
INVARIANT ConsentFirst
INVARIANT NoIdleHop
INVARIANT ForwardsAreWhole
INVARIANT GatewayIsFound
INVARIANT CommandsKeepToTheirs
PROPERTY SentToTrusted
PROPERTY OneServer
