SPECIFICATION Spec
CONSTANTS
  MaxGen = 3
  Settings <- Queued
INVARIANTS CoalescedMeansCovered
