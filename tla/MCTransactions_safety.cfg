SPECIFICATION Spec
CONSTANTS
  r1 = r1  r2 = r2  r3 = r3  r4 = r4  t1 = t1  t2 = t2  h1 = h1  h2 = h2
  NoTxn = NoTxn  NoHive = NoHive  Nobody = Nobody
  Requests = {r1, r2, r3, r4}
  Txns = {t1, t2}
  Hives = {h1, h2}
  Scenarios <- SafetyScenarios
  AutoRollback = FALSE
INVARIANTS ConnectionInv VisibleOnlyByCommit AcknowledgedIsVisible CoherentReads StableSnapshot LayerDeletedEverywhere
