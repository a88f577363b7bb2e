CONSTANTS
  p1 = p1  p2 = p2  p3 = p3  w1 = w1  w2 = w2
  MaxHeight = 1
  Worker <- TwoWorkers
  Proc <- OneProc
  Primary <- OneProc
  ProcOf <- OneProcOf
  CommandOf <- OneCommand
  Batch = 2
  Ready <- AllHeights
  HasTopUp = TRUE
  Faults = {"fail", "signal", "crash", "monitor_error", "rpc_down", "claim_error", "lost_ack", "swallow", "slow"}
  MaxFaults = 1
  MaxRuns = 2
SPECIFICATION FairSpec
INVARIANT NoStrandedJob
PROPERTY NoPrematureShutdown Terminates AbandonedRecovers
CHECK_DEADLOCK FALSE
