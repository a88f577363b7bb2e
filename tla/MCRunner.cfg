CONSTANTS
  p1 = p1  p2 = p2  p3 = p3  w1 = w1  w2 = w2
  MaxHeight = 1
  Worker <- TwoWorkers
  Proc <- ThreeProcs
  Primary <- TwoPrimaries
  ProcOf <- ThreeProcOf
  CommandOf <- TwoCommands
  Batch = 2
  Ready <- AllHeights
  HasTopUp = TRUE
  Faults = {"crash", "fail", "lost_ack", "swallow", "slow", "requeue", "requeue_features"}
  MaxFaults = 1
  MaxRuns = 1
SPECIFICATION Spec
INVARIANT ExclusiveJobs HeldRowsInProgress ContiguousJobs
PROPERTY DoneIsFinal
CHECK_DEADLOCK FALSE
