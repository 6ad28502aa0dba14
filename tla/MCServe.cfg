SPECIFICATION FairSpec
CONSTANTS
  t1 = t1
  t2 = t2
  NoTxn = NoTxn
  Traffic <- MixedTraffic
  MaxSignals = 2
  IOErrors = TRUE
INVARIANTS BeginNotOvertaken AnsweredInv NothingOutlivesClose
PROPERTIES ShutdownCompletes RequestsAnswered
