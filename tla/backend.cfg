SPECIFICATION BackendSpec
CONSTANTS
  rootPath = rootPath
  dir1 = dir1
  file1 = file1
  file2 = file2
  beside = beside
  session1 = session1
  session2 = session2
  tunnel1 = tunnel1
  tunnel2 = tunnel2
  recording1 = recording1
  Root = rootPath
  Paths = {dir1, file1, file2, beside}
  Above <- MCAbove
  Contents = {"c1", "c2"}
  LocalTrees <- MCLocalTrees
  RemoteTrees <- MCRemoteTrees
  Rules <- MCRules
  MaxOthers = 1
  Manifests <- MCManifests
  Catalog <- MCCatalog
  Risky <- MCRisky
  Runs = {x1}
  MaxChanges = 3
  Sessions = {session1, session2}
  Tunnels = {tunnel1, tunnel2}
  Recordings = {recording1}
  TunnelOf <- MCTunnelOf
  RecordingOf <- MCRecordingOf
  id1 = id1
  name1 = name1
  None = None
  Ids = {id1, id2}
  Names = {name1, name2}
  MaxBook = 3
  window1 = window1
  window2 = window2
  Windows = {window1, window2}
  MaxOutput = 4
  ReplayLimit = 2
  Capacity = 2
  MaxAttaches = 2
  vault1 = vault1
  device1 = device1
  Devices = {device1, device2}
  Vaults = {vault1, vault2}
  MaxAttempts = 2
  PageLimit = 2
  MaxRounds = 2
  MaxEdits = 2
  Profiles <- MCProfiles
  Alphabet <- MCAlphabet
  FirstRows <- MCFirstRows
  OtherHost = "h0"
  RowIds = {1, 2, 3, 4, 5, 6, 7, 8, 9, 10, 11, 12, 13, 14, 15, 16}
  MaxDepth = 2
  MaxImports = 2
  MaxMeddling = 1
CHECK_DEADLOCK FALSE
INVARIANT BackendTypeOK
INVARIANT TransferEndsWell
INVARIANT OnlyReviewed
INVARIANT TeardownStopsServices
INVARIANT SecretsAreOwn
INVARIANT ImportsAreFaithful
PROPERTY OutputIsWhole
PROPERTY FreshEntriesSurvive
PROPERTY ExchangeIsAppend
