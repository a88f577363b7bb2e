CONSTANTS
  e1 = e1  e2 = e2  b1 = b1
  Height <- SmallHeight
  Tx <- MCTx
  Out <- MCOut
  BlockOf <- MCBlockOf
  TxOf <- MCTxOf
  SpentBy <- MCSpentBy
  Unspent = "unspent"
  Valued <- MCOut
  Addressed <- MCAddressed
  Extractor <- TwoExtractors
  Backfiller <- OneBackfiller
  Batch = 1
  Verbosity = {2, 3}
  Phased = FALSE
  Faults = {"rpc_error", "abort", "lost_ack", "swallow", "reset", "requeue", "requeue_features"}
  MaxFaults = 2
SPECIFICATION Spec
CHECK_DEADLOCK FALSE
INVARIANT VoutDoneStored VinDoneSpends BlockAtomic TotalsBacked
PROPERTY RowsOnlyGrow ImplementsArchive
