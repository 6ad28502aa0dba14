SPECIFICATION MCSpec
CONSTANTS
  Ranges <- caseFoldRanges
  Pairs <- caseFoldPairs
  Strings <- MCStrings
  MaxRequestSize = 90
  MaxWord = 100
  Lengths = {0, 1, 3, 100}
  FoldOf <- MCFold
  Hidden = 0
  Contents <- MCContents
  h1 = h1
  h2 = h2
  g1 = g1
  g2 = g2
  Hives = {h1, h2}
  Keys <- MCKeys
  Layers = {base, l1, l2}
  Base = base
  Guids = {g0, g1}
  Root = g0
  Descriptors = {d1, d2}
  Times = {t1, t2}
  NoKey = NoKey
INVARIANTS FoldsEveryRune RefusedExactly ChildrenInv ValuesCanonical WalkInv
PROPERTIES Terminates OneMap
