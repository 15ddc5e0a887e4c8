SPECIFICATION Spec
CONSTANTS
  o1 = o1
  Orders = {o1}
  d1 = d1
  w1 = w1
  Deposits = {d1}
  Withdrawals = {w1}
  MaxWork = 1
  MaxFreeze = 2
  MaxExec = 2
  Expiry = 3
  TxLife = 2
  CycleBudget = 1
  Outcomes <- AlwaysFailing
  Faults <- CapOnly
INVARIANT AbandonedNotExecuted
