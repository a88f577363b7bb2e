CONSTANTS
  p1 = p1  p2 = p2  p3 = p3  w1 = w1  w2 = w2
  MaxHeight = 1
  Worker <- TwoWorkers
  Proc <- TwoProcs
  Primary <- OneProc
  ProcOf <- TwoProcOf
  CommandOf <- Family
  Batch = 2
  Ready <- AllHeights
  HasTopUp = TRUE
  Faults = {}
  MaxFaults = 0
  MaxRuns = 1
SPECIFICATION Spec
PROPERTY NoPrematureShutdown
CHECK_DEADLOCK FALSE
