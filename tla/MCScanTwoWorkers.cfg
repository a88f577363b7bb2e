CONSTANTS
  w1 = w1  w2 = w2
  Height <- MCHeight
  Tx <- MCTx
  Out <- MCOut
  BlockOf <- MCBlockOf
  TxOf <- MCTxOf
  SpentBy <- MCSpentBy
  Unspent = "unspent"
  Addr <- MCAddr
  AddrOf <- MCAddrOf
  Amount <- MCAmount
  Worker <- TwoWorkers
  Batch = 1
  Order = "first"
  Faults = {}
  MaxFaults = 2
SPECIFICATION Spec
INVARIANT BalancesCurrent
CHECK_DEADLOCK FALSE
