CONSTANTS
  w1 = w1
  w2 = w2
  history = history
  state = state
  k1 = k1
  a = a
  b = b
  orders = orders
  users = users
  NullKey = NullKey
  Keys = {k1}
  Values = {a, b}
  Tables = {orders}
  Workers = {w1, w2}
  Jobs = {history, state}
  JobOf <- TwoJobs
  ScdType <- Types
  SourceOf <- OneSource
  Contents <- OutOfOrder
  MaxAborts = 0
  MaxProbeErrors = 0
SPECIFICATION Spec
INVARIANT NoSilentDropShared
CHECK_DEADLOCK FALSE
