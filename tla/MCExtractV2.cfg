CONSTANTS
  e1 = e1  e2 = e2  b1 = b1
  Height <- SmallHeight
  Tx <- MCTx
  Out <- MCOut
  BlockOf <- MCBlockOf
  TxOf <- MCTxOf
  SpentBy <- MCSpentBy
  Unspent = "unspent"
  Valued <- MCOut
  Addressed <- MCAddressed
  Extractor <- OneExtractor
  Backfiller <- OneBackfiller
  Batch = 1
  Verbosity = {2}
  Phased = TRUE
  Faults = {"rpc_error"}
  MaxFaults = 1
SPECIFICATION Spec
CHECK_DEADLOCK FALSE
INVARIANT VinDoneComplete
