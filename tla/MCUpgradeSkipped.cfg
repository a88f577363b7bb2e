CONSTANTS
  o = o a = a b = b c = c d = d
  Addr = {o, a, b, c, d}
  Origin = o
  FlowSets = {{}}
  Sizes <- FewOrOne
  Owners <- OneOrTwo
  Limits <- SomeLimits
  MaxWorkers = 3
  Knobs = {}
  Table = {"transactions", "transaction_io", "block_jobs"}
  MaxCommits = 0
  TagAddr = {a, b}
  Session = {"one", "other"}
  Lists <- SomeLists
  Sheets <- SomeSheets
  MaxImports = 0
  MaxRemovals = 0
  EnvFile <- TheEnvFile
  Confs <- SomeConfs
  MaxEdits = 0
  MaxRestores = 0
  MaxClock = 0
  k1 = k1 k2 = k2 k3 = k3 x1 = x1 x2 = x2
  Key = {k1, k2, k3}
  Form <- KeyForms
  Digest <- Digests
  Checksum <- Checksums
  Byte = 4
  Radix = 3
  Coin = {x1, x2}
  Chains = {}
  Spent = {x1, x2}
  f1 = f1 f2 = f2
  Fetcher = {f1, f2}
  Slots = 1
  MaxErrors = 0
  Delta = {3, 4, 5}
  Watched = {a, b, c}
  Touches <- SomeTouches
  BlockTime <- SomeTimes
  Height <- SomeHeights
  Tx <- SomeTx
  Out <- SomeOut
  BlockOf <- SomeBlocks
  TxOf <- SomeMakers
  SpentBy <- SomeSpenders
  Unspent = "no"
  Valued <- SomeOut
  Addressed <- SomeOut
  Shown = {"a2", "b2", "a3"}
  LegacyBatch = 2
  MaxMishaps = 0
SPECIFICATION Spec
INVARIANT SkippedSuffices
CHECK_DEADLOCK FALSE
