CONSTANTS
  w1 = w1  w2 = w2
  Height <- SmallHeight
  Tx <- SmallTx
  Out <- SmallOut
  BlockOf <- SmallBlockOf
  TxOf <- SmallTxOf
  SpentBy <- SmallSpentBy
  Unspent = "unspent"
  Addr <- MCAddr
  AddrOf <- SmallAddrOf
  Amount <- SmallAmount
  Worker <- TwoWorkers
  Batch = 2
  Order = "any"
  Faults = {"fail", "lost_ack", "swallow", "die", "reset", "reset_live", "requeue", "recompute"}
  MaxFaults = 2
SYMMETRY WorkerSymmetry
SPECIFICATION Spec
INVARIANT OrderlyIsExact AppliedOnce DoneIffApplied
CHECK_DEADLOCK FALSE
