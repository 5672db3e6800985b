SPECIFICATION DesktopSpec
CONSTANTS
  text1 = text1
  text2 = text2
  win1 = win1
  win2 = win2
  remote1 = remote1
  shell1 = shell1
  poll1 = poll1
  Nothing = Nothing
  Partial = Partial
  Texts = {text1, text2}
  MaxHandoffs = 2
  MaxTyped = 2
  MaxLoads = 1
  MaxSaves = 1
  Windows = {win1, win2}
  None = None
  Ssh = {remote1}
  Shells = {shell1}
  Paged = {remote1}
  Polls = {poll1}
  MaxPanes = 2
  MaxPolls = 1
  op1 = op1
  op2 = op2
  Home = Home
  Sub = Sub
  InHome = InHome
  InSub = InSub
  Ops = {op1, op2}
  MaxKills = 1
  MaxTracked = 1
  MaxLine = 2
  MaxKeys = 2
  conn1 = conn1
  conn2 = conn2
  DbIds = {conn1, conn2}
  Hosts = {"p1", "p2"}
  Secrets = {"q1", "q2"}
  Tasks = {"task1"}
  Listings <- MCListings
  HardMaxRows = 2
  ListLimit = 1
  Tables = {1, 2, 3}
  Requests = {1, 3}
  MaxDbSaves = 2
  MaxHarm = 2
  tty1 = tty1
  tty2 = tty2
  kill1 = kill1
  kill2 = kill2
  LocalIds = {tty1, tty2}
  Killers = {kill1, kill2}
  Launches <- MCLaunches
  Installed = {"claude", "codex", "pi-agent"}
CHECK_DEADLOCK FALSE
INVARIANT DesktopTypeOK
INVARIANT EditsAreSafe
INVARIANT LayoutFits
INVARIANT LineIsTracked
PROPERTY TabsKept
PROPERTY LandsWhereAsked
INVARIANT ConnectionsKept
INVARIANT ShellsEndCleanly
