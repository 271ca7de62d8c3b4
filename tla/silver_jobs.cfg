CONSTANTS
  w1 = w1
  w2 = w2
  history = history
  state = state
  k1 = k1
  a = a
  b = b
  orders = orders
  users = users
  NullKey = NullKey
  Keys = {k1}
  Values = {a, b}
  Tables = {orders, users}
  Workers = {w1, w2}
  Jobs = {history, state}
  JobOf <- TwoJobs
  ScdType <- Types
  SourceOf <- OwnSource
  Contents <- OutOfOrder
  MaxAborts = 1
  MaxProbeErrors = 1
SPECIFICATION FairSpec
INVARIANTS TypeOK OneCurrent NoFabricatedHistory IntervalsDisjoint CurrentIsLastMerged NoSilentDrop
PROPERTIES HistoryKept EventuallyMerged
CHECK_DEADLOCK FALSE
