CONSTANTS
  e1 = e1  e2 = e2  b1 = b1
  Height <- MCHeight
  Tx <- MCTx
  Out <- MCOut
  BlockOf <- MCBlockOf
  TxOf <- MCTxOf
  SpentBy <- MCSpentBy
  Unspent = "unspent"
  Valued <- MCOut
  Addressed <- MCAddressed
  Extractor <- OneExtractor
  Backfiller <- OneBackfiller
  Batch = 1
  Verbosity = {2, 3}
  Phased = TRUE
  Faults = {"db_crash", "reset", "die"}
  MaxFaults = 2
SPECIFICATION Spec
CHECK_DEADLOCK FALSE
INVARIANT RunAllComplete
PROPERTY ImplementsArchive
