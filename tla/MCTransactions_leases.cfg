SPECIFICATION FairSpec
CONSTANTS
  r1 = r1  r2 = r2  r3 = r3  r4 = r4  t1 = t1  t2 = t2  h1 = h1  h2 = h2
  NoTxn = NoTxn  NoHive = NoHive  Nobody = Nobody
  Requests = {r1, r2}
  Txns = {t1}
  Hives = {h1}
  Scenarios <- LeaseScenarios
  AutoRollback = FALSE
PROPERTIES NoRevival EveryRequestAnswered AbandonedIsReclaimed ShutdownEnds
