SPECIFICATION Spec
CONSTANTS
  Ids = {1, 2, 3}
  Shapes <- MCShapes
  FirstVault <- MCFirstVault
  Walks <- MCWalks
  Queries <- MCQueries
  MaxChanges = 1
INVARIANTS TypeOK GrowthHidesNothing BestMatchesFound
PROPERTIES HitsBearTheTag
