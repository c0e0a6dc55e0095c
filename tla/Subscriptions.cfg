CONSTANTS
  Ids        = {"a", "b"}
  Nowhere    = 0
  Paths      = {1, 2}
  Places     <- MCPlaces
  NodeOf     <- MCNodeOf
  Sessions   = {s1, s2}
  NoUri      = NoUri
  MaxChanges = 2
  MaxAsks    = 3
  Servers    <- MCServers
SPECIFICATION Spec
CHECK_DEADLOCK FALSE
INVARIANT TypeOK
PROPERTY ChangesAnnounced
PROPERTY OnlyOneselfLeaves
PROPERTY ToldAfterReload
