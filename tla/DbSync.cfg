SPECIFICATION Spec
CONSTANTS
  MaxGen = 3
  Settings <- MCSettings
INVARIANTS TypeOK LockDiscipline LastSyncHonest OneDbWriterIfNoneIsKilled NoLostWrite
PROPERTIES RealSyncCoversItsRequest EveryRequestEnds PromiseKept ProgressKept
