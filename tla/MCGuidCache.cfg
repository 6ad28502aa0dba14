SPECIFICATION Spec
CONSTANTS
  h1 = h1
  h2 = h2
  root1 = root1
  root2 = root2
  k = k
  n = n
  reader = reader
  other = other
  ender = ender
  r4 = r4
  rw = rw
  ro = ro
  Guids = {root1, root2, k, n}
  Hives = {h1, h2}
  Txns = {rw, ro}
  ReadOnly = {ro}
  Requests = {reader, other, ender, r4}
  Scenarios <- MCScenarios
  Home <- MCHome
  RootGUID <- MCRoots
  NoTxn = NoTxn
  NoHive = NoHive
  Nobody = Nobody
INVARIANTS NeverLost CacheInv
