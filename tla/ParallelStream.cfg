CONSTANTS
  Total = 6
  Parallelism = 3
SPECIFICATION FairSpec
INVARIANTS MemoryBound EachInOnePlace EndMeansAll NoLostWakeup LittleOvertaking
PROPERTY ReachesEnd
