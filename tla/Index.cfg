SPECIFICATION ServerSpec
CONSTANTS
  c1 = c1
  Clients = {c1}
  Watcher = Watcher
  MaxDbs = 5
  Servers <- MCServers
INVARIANTS ServerTypeOK
PROPERTIES OneSidedEditsVisible EndsOnWatchedDb WritesReachReaders
