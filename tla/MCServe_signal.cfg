SPECIFICATION Spec
CONSTANTS
  t1 = t1
  t2 = t2
  NoTxn = NoTxn
  Traffic <- TwoTransactions
  MaxSignals = 1
  IOErrors = FALSE
INVARIANTS SignalExitsClean
