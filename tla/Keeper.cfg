SPECIFICATION CapSpec
CONSTANTS
  o1 = o1
  Orders = {o1}
  d1 = d1
  w1 = w1
  Deposits = {d1}
  Withdrawals = {w1}
  MaxWork = 1
  MaxFreeze = 1
  MaxExec = 2
  Expiry = 2
  TxLife = 1
  CycleBudget = 1
  Outcomes <- AnyReport
  Faults <- AnyFault
PROPERTY InFlightReleased
PROPERTY CyclesEnd
INVARIANT UndecidedInFlight
INVARIANT NoResubmission
INVARIANT BlacklistedNotExecuted
PROPERTY BrokenKeyBlacklisted
