CONSTANTS
  w1 = w1  w2 = w2
  Height <- MCHeight
  Tx <- MCTx
  Out <- MCOut
  BlockOf <- MCBlockOf
  TxOf <- MCTxOf
  SpentBy <- MCSpentBy
  Unspent = "unspent"
  Addr <- MCAddr
  AddrOf <- MCAddrOf
  Amount <- MCAmount
  Worker <- OneWorker
  Batch = 1
  Order = "ordered"
  Faults = {"recompute"}
  MaxFaults = 2
SPECIFICATION Spec
INVARIANT BalancesCurrent
CHECK_DEADLOCK FALSE
