-------------------------- MODULE ComponentProofs --------------------------
(***************************************************************************)
(* Proofs about five components whose state no other component touches     *)
(* while they run: case folding (Fold), the request codec (Wire), the walk *)
(* of RSI_DELETE_LAYER over the hives (LayerWalk), the two key tables      *)
(* (KeyTables) and the making of an answer from rows (Answers).  They      *)
(* share no variable; each has its own inductive invariant and its own     *)
(* specification.                                                          *)
(***************************************************************************)
EXTENDS Fold, Wire, LayerWalk, KeyTables, Answers, FiniteSetTheorems, FunctionTheorems,
        SequenceTheorems, WellFoundedInduction, TLAPS

-----------------------------------------------------------------------------
(* Fold.  Case folding is right for every table that is sorted, and for    *)
(* every string: Rune's searches lose no entry and String's passes skip no *)
(* rune.                                                                   *)

\* Where a search may still find the rune: an entry that folds it, if there
\* is one, lies between lo and hi.
Searching ==
  /\ phase = "ranges" =>
       \A i \in DOMAIN Ranges : InRange(cur, i) => lo < i /\ i <= hi
  /\ phase = "pairs" =>
       /\ Unranged(cur)
       /\ \A j \in DOMAIN Pairs : Pairs[j][1] = cur => lo < j /\ j <= hi
  /\ phase = "return" => IsFold(cur, rune)
  /\ phase # "call" => pass \in {"scan", "build"} /\ pos <= Len(s)

\* What the passes have established of the runes before pos.
Passing ==
  /\ pass = "idle" => pos = 1 /\ phase = "call" /\ buf = <<>>
  /\ pass = "scan" => buf = <<>> /\ \A k \in 1 .. pos - 1 : IsFold(s[k], s[k])
  /\ pass = "build" => Len(buf) = pos - 1 /\ \A k \in 1 .. pos - 1 : IsFold(s[k], buf[k])
  /\ pass = "done" => Len(result) = Len(s) /\ \A k \in 1 .. Len(s) : IsFold(s[k], result[k])

FoldIInv == FoldTypeOK /\ InBounds /\ Searching /\ Passing

-----------------------------------------------------------------------------
\* The middle of a non-empty interval lies in it.
LEMMA MidInside ==
  ASSUME lo \in Nat, hi \in Nat, lo < hi
  PROVE  mid \in Nat /\ lo <= mid /\ mid < hi
BY DEF mid

\* The folding of a rune is itself folded to itself.
LEMMA FoldIsFixed ==
  ASSUME NEW x \in Nat, NEW f, IsFold(x, f)
  PROVE  IsFold(f, f)
<1>1. CASE \E i \in DOMAIN Ranges : InRange(x, i)
  <2>1. PICK i \in DOMAIN Ranges : InRange(x, i)
    BY <1>1
  <2>2. x \in Ranges[i][1] .. Ranges[i][2]
    BY <2>1, TableTypes DEF InRange
  <2>3. f = Mapped(x, i)
    BY <2>1 DEF IsFold
  <2> QED
    BY <2>2, <2>3, TargetsFixed
<1>2. CASE Unranged(x)
  <2>1. CASE \E j \in DOMAIN Pairs : Pairs[j][1] = x
    BY <1>2, <2>1, TargetsFixed DEF IsFold
  <2>2. CASE \A j \in DOMAIN Pairs : Pairs[j][1] # x
    <3>1. f = x
      BY <1>2, <2>2 DEF IsFold
    <3> QED
      BY <3>1
  <2> QED
    BY <2>1, <2>2
<1> QED
  BY <1>1, <1>2 DEF Unranged

\* A rune in range i is in no other, so the search may return at once.
LEMMA RangeDecides ==
  ASSUME NEW x \in Nat, NEW i \in DOMAIN Ranges, InRange(x, i)
  PROVE  IsFold(x, Mapped(x, i)) /\ Mapped(x, i) \in Nat
<1>1. /\ \A j \in DOMAIN Ranges : Ranges[j] \in Nat \X Nat \X Nat
      /\ DOMAIN Ranges = 1 .. Len(Ranges) /\ Len(Ranges) \in Nat
  BY TableTypes
<1>2. ASSUME NEW j \in DOMAIN Ranges, InRange(x, j)
      PROVE  j = i
  <2>1. ~(i < j)
    BY <1>1, <1>2, TablesSorted DEF InRange
  <2>2. ~(j < i)
    BY <1>1, <1>2, TablesSorted DEF InRange
  <2> QED
    BY <1>1, <2>1, <2>2
<1>3. ~Unranged(x)
  BY DEF Unranged
<1>4. Mapped(x, i) \in Nat
  BY <1>1 DEF Mapped, InRange
<1> QED
  BY <1>2, <1>3, <1>4 DEF IsFold

\* A rune outside all ranges is decided by the one pair it has.
LEMMA PairDecides ==
  ASSUME NEW x \in Nat, Unranged(x), NEW j \in DOMAIN Pairs, Pairs[j][1] = x
  PROVE  IsFold(x, Pairs[j][2]) /\ Pairs[j][2] \in Nat
<1>1. /\ \A k \in DOMAIN Pairs : Pairs[k] \in Nat \X Nat
      /\ DOMAIN Pairs = 1 .. Len(Pairs) /\ Len(Pairs) \in Nat
  BY TableTypes
<1>2. ASSUME NEW k \in DOMAIN Pairs, Pairs[k][1] = x
      PROVE  k = j
  <2>1. ~(k < j) /\ ~(j < k)
    BY <1>1, <1>2, TablesSorted
  <2> QED
    BY <1>1, <2>1
<1> QED
  BY <1>1, <1>2 DEF IsFold, Unranged

LEMMA CurIsRune ==
  ASSUME FoldTypeOK, pos <= Len(s)
  PROVE  cur \in Nat /\ s \in Seq(Nat) /\ pos \in 1 .. Len(s)
BY TableTypes DEF FoldTypeOK, cur

-----------------------------------------------------------------------------
LEMMA InitEstablishes == FoldInit => FoldIInv
<1> SUFFICES ASSUME FoldInit PROVE FoldIInv
  OBVIOUS
<1> QED
  BY DEF FoldInit, FoldIInv, FoldTypeOK, InBounds, Searching, Passing

LEMMA StringStep ==
  ASSUME FoldIInv, NEW name \in Strings, String(name)
  PROVE  FoldIInv'
<1>1. name \in Seq(Nat) /\ Len(name) \in Nat
  BY TableTypes
<1>2. pos = 1 /\ phase = "call" /\ buf = <<>>
  BY DEF FoldIInv, Passing, String
<1>3. FoldTypeOK' /\ InBounds' /\ Searching' /\ Passing'
  BY <1>1, <1>2 DEF FoldIInv, FoldTypeOK, InBounds, Searching, Passing, String
<1> QED
  BY <1>3 DEF FoldIInv

LEMMA CallRuneStep ==
  ASSUME FoldIInv, CallRune
  PROVE  FoldIInv'
<1>1. cur \in Nat /\ s \in Seq(Nat) /\ pos \in 1 .. Len(s)
  BY CurIsRune DEF FoldIInv, CallRune
<1>2. Len(Ranges) \in Nat /\ DOMAIN Ranges = 1 .. Len(Ranges)
  BY TableTypes
<1>3. FoldTypeOK' /\ InBounds'
  BY <1>1, <1>2 DEF FoldIInv, FoldTypeOK, InBounds, CallRune
<1>4. Searching'
  BY <1>1, <1>2 DEF FoldIInv, Searching, CallRune, cur
<1>5. Passing'
  BY DEF FoldIInv, Passing, CallRune
<1> QED
  BY <1>3, <1>4, <1>5 DEF FoldIInv

\* Both halvings, and the return, of the search over ranges.
LEMMA SearchRangesStep ==
  ASSUME FoldIInv, SearchRanges
  PROVE  FoldIInv'
<1> DEFINE rg == Ranges[mid + 1]
<1>1. cur \in Nat /\ s \in Seq(Nat) /\ pos \in 1 .. Len(s) /\ pass \in {"scan", "build"}
  BY CurIsRune DEF FoldIInv, SearchRanges, Searching
<1>2. mid \in Nat /\ lo <= mid /\ mid < hi /\ lo \in Nat /\ hi \in Nat /\ hi <= Len(Ranges)
  BY MidInside DEF FoldIInv, SearchRanges, FoldTypeOK, InBounds
<1>3. /\ Len(Ranges) \in Nat /\ DOMAIN Ranges = 1 .. Len(Ranges)
      /\ mid + 1 \in DOMAIN Ranges
      /\ \A i \in DOMAIN Ranges : Ranges[i] \in Nat \X Nat \X Nat
  BY <1>2, TableTypes
<1>4. cur' = cur /\ Passing'
  BY DEF FoldIInv, Passing, SearchRanges, cur
<1>5. \A i \in DOMAIN Ranges : InRange(cur, i) => lo < i /\ i <= hi
  BY DEF FoldIInv, Searching, SearchRanges
<1>6. CASE cur < rg[1] /\ GoLow
  <2>1. ASSUME NEW i \in DOMAIN Ranges, InRange(cur, i)
        PROVE  i <= mid
    <3>1. i # mid + 1
      BY <1>1, <1>3, <1>6, <2>1 DEF InRange
    <3>2. ~(mid + 1 < i)
      <4>1. SUFFICES ASSUME mid + 1 < i PROVE FALSE
        OBVIOUS
      <4>2. rg[2] < Ranges[i][1]
        BY <1>3, <4>1, TablesSorted
      <4>3. rg[2] < cur
        BY <1>1, <1>3, <2>1, <4>2 DEF InRange
      <4> QED
        BY <1>1, <1>3, <1>6, <4>3, TablesSorted
    <3> QED
      BY <1>2, <1>3, <3>1, <3>2
  <2>2. FoldTypeOK' /\ InBounds'
    BY <1>1, <1>2, <1>6 DEF FoldIInv, FoldTypeOK, InBounds, SearchRanges, GoLow
  <2>3. Searching'
    BY <1>1, <1>4, <1>5, <1>6, <2>1 DEF Searching, SearchRanges, GoLow
  <2> QED
    BY <1>4, <2>2, <2>3 DEF FoldIInv
<1>7. CASE cur > rg[2] /\ GoHigh
  <2>1. ASSUME NEW i \in DOMAIN Ranges, InRange(cur, i)
        PROVE  mid + 1 < i
    <3>1. i # mid + 1
      BY <1>1, <1>3, <1>7, <2>1 DEF InRange
    <3>2. ~(i < mid + 1)
      <4>1. SUFFICES ASSUME i < mid + 1 PROVE FALSE
        OBVIOUS
      <4>2. Ranges[i][2] < rg[1]
        BY <1>3, <4>1, TablesSorted
      <4>3. cur < rg[1]
        BY <1>1, <1>3, <2>1, <4>2 DEF InRange
      <4> QED
        BY <1>1, <1>3, <1>7, <4>3, TablesSorted
    <3> QED
      BY <1>2, <1>3, <3>1, <3>2
  <2>2. FoldTypeOK' /\ InBounds'
    BY <1>1, <1>2, <1>7 DEF FoldIInv, FoldTypeOK, InBounds, SearchRanges, GoHigh
  <2>3. Searching'
    BY <1>1, <1>4, <1>5, <1>7, <2>1 DEF Searching, SearchRanges, GoHigh
  <2> QED
    BY <1>4, <2>2, <2>3 DEF FoldIInv
<1>8. CASE cur >= rg[1] /\ cur <= rg[2] /\ RuneReturns(rg[3] + (cur - rg[1]))
  <2>1. InRange(cur, mid + 1)
    BY <1>1, <1>3, <1>8 DEF InRange
  <2>2. IsFold(cur, rune') /\ rune' \in Nat
    BY <1>1, <1>3, <1>8, <2>1, RangeDecides DEF RuneReturns, Mapped
  <2>3. FoldTypeOK' /\ InBounds'
    BY <1>1, <1>2, <1>8, <2>2 DEF FoldIInv, FoldTypeOK, InBounds, SearchRanges, RuneReturns
  <2>4. Searching'
    BY <1>1, <1>4, <1>8, <2>2 DEF Searching, SearchRanges, RuneReturns
  <2> QED
    BY <1>4, <2>3, <2>4 DEF FoldIInv
<1> QED
  BY <1>6, <1>7, <1>8 DEF SearchRanges

\* The rune is in no range once the interval is empty.
LEMMA RangesExhaustedStep ==
  ASSUME FoldIInv, RangesExhausted
  PROVE  FoldIInv'
<1>1. cur \in Nat /\ s \in Seq(Nat) /\ pos \in 1 .. Len(s) /\ pass \in {"scan", "build"}
  BY CurIsRune DEF FoldIInv, RangesExhausted, Searching
<1>2. Len(Pairs) \in Nat /\ DOMAIN Pairs = 1 .. Len(Pairs) /\ DOMAIN Ranges \subseteq Nat
  BY TableTypes
<1>3. FoldTypeOK' /\ InBounds'
  BY <1>1, <1>2 DEF FoldIInv, FoldTypeOK, InBounds, RangesExhausted
<1>4. cur' = cur /\ Passing'
  BY DEF FoldIInv, Passing, RangesExhausted, cur
<1>5. Unranged(cur)
  BY <1>2 DEF FoldIInv, FoldTypeOK, Searching, RangesExhausted, Unranged
<1>6. Searching'
  BY <1>1, <1>2, <1>4, <1>5 DEF Searching, RangesExhausted
<1> QED
  BY <1>3, <1>4, <1>6 DEF FoldIInv

LEMMA SearchPairsStep ==
  ASSUME FoldIInv, SearchPairs
  PROVE  FoldIInv'
<1> DEFINE p == Pairs[mid + 1]
<1>1. cur \in Nat /\ s \in Seq(Nat) /\ pos \in 1 .. Len(s) /\ pass \in {"scan", "build"}
  BY CurIsRune DEF FoldIInv, SearchPairs, Searching
<1>2. mid \in Nat /\ lo <= mid /\ mid < hi /\ lo \in Nat /\ hi \in Nat /\ hi <= Len(Pairs)
  BY MidInside DEF FoldIInv, SearchPairs, FoldTypeOK, InBounds
<1>3. /\ Len(Pairs) \in Nat /\ DOMAIN Pairs = 1 .. Len(Pairs)
      /\ mid + 1 \in DOMAIN Pairs
      /\ \A j \in DOMAIN Pairs : Pairs[j] \in Nat \X Nat
  BY <1>2, TableTypes
<1>4. cur' = cur /\ Passing'
  BY DEF FoldIInv, Passing, SearchPairs, cur
<1>5. /\ Unranged(cur)
      /\ \A j \in DOMAIN Pairs : Pairs[j][1] = cur => lo < j /\ j <= hi
  BY DEF FoldIInv, Searching, SearchPairs
<1>6. CASE cur < p[1] /\ GoLow
  <2>1. ASSUME NEW j \in DOMAIN Pairs, Pairs[j][1] = cur
        PROVE  j <= mid
    <3>1. j # mid + 1 /\ ~(mid + 1 < j)
      BY <1>1, <1>3, <1>6, <2>1, TablesSorted
    <3> QED
      BY <1>2, <1>3, <3>1
  <2>2. FoldTypeOK' /\ InBounds'
    BY <1>1, <1>2, <1>6 DEF FoldIInv, FoldTypeOK, InBounds, SearchPairs, GoLow
  <2>3. Searching'
    BY <1>1, <1>4, <1>5, <1>6, <2>1 DEF Searching, SearchPairs, GoLow
  <2> QED
    BY <1>4, <2>2, <2>3 DEF FoldIInv
<1>7. CASE cur > p[1] /\ GoHigh
  <2>1. ASSUME NEW j \in DOMAIN Pairs, Pairs[j][1] = cur
        PROVE  mid + 1 < j
    <3>1. j # mid + 1 /\ ~(j < mid + 1)
      BY <1>1, <1>3, <1>7, <2>1, TablesSorted
    <3> QED
      BY <1>2, <1>3, <3>1
  <2>2. FoldTypeOK' /\ InBounds'
    BY <1>1, <1>2, <1>7 DEF FoldIInv, FoldTypeOK, InBounds, SearchPairs, GoHigh
  <2>3. Searching'
    BY <1>1, <1>4, <1>5, <1>7, <2>1 DEF Searching, SearchPairs, GoHigh
  <2> QED
    BY <1>4, <2>2, <2>3 DEF FoldIInv
<1>8. CASE cur = p[1] /\ RuneReturns(p[2])
  <2>1. IsFold(cur, rune') /\ rune' \in Nat
    BY <1>1, <1>3, <1>5, <1>8, PairDecides DEF RuneReturns
  <2>2. FoldTypeOK' /\ InBounds'
    BY <1>1, <1>2, <1>8, <2>1 DEF FoldIInv, FoldTypeOK, InBounds, SearchPairs, RuneReturns
  <2>3. Searching'
    BY <1>1, <1>4, <1>8, <2>1 DEF Searching, SearchPairs, RuneReturns
  <2> QED
    BY <1>4, <2>2, <2>3 DEF FoldIInv
<1> QED
  BY <1>6, <1>7, <1>8 DEF SearchPairs

LEMMA PairsExhaustedStep ==
  ASSUME FoldIInv, PairsExhausted
  PROVE  FoldIInv'
<1>1. cur \in Nat /\ s \in Seq(Nat) /\ pos \in 1 .. Len(s) /\ pass \in {"scan", "build"}
  BY CurIsRune DEF FoldIInv, PairsExhausted, Searching
<1>2. DOMAIN Pairs \subseteq Nat
  BY TableTypes
<1>3. \A j \in DOMAIN Pairs : Pairs[j][1] # cur
  BY <1>2 DEF FoldIInv, FoldTypeOK, Searching, PairsExhausted
<1>4. IsFold(cur, cur)
  BY <1>3 DEF FoldIInv, Searching, PairsExhausted, IsFold, Unranged
<1>5. cur' = cur /\ Passing'
  BY DEF FoldIInv, Passing, PairsExhausted, cur
<1>6. FoldTypeOK' /\ InBounds'
  BY <1>1 DEF FoldIInv, FoldTypeOK, InBounds, PairsExhausted, RuneReturns
<1>7. Searching'
  BY <1>1, <1>4, <1>5 DEF Searching, PairsExhausted, RuneReturns
<1> QED
  BY <1>5, <1>6, <1>7 DEF FoldIInv

\* The rune at pos has just been folded to itself, or the second pass begins.
LEMMA ScannedStep ==
  ASSUME FoldIInv, Scanned
  PROVE  FoldIInv'
<1>1. cur \in Nat /\ s \in Seq(Nat) /\ pos \in 1 .. Len(s) /\ IsFold(cur, rune)
  BY CurIsRune DEF FoldIInv, Scanned, Searching
<1>2. FoldTypeOK' /\ InBounds' /\ Searching'
  BY <1>1 DEF FoldIInv, FoldTypeOK, InBounds, Searching, Scanned
<1>3. CASE rune = cur
  <2>1. \A k \in 1 .. pos : IsFold(s[k], s[k])
    BY <1>1, <1>3 DEF FoldIInv, Passing, Scanned, cur
  <2> QED
    BY <1>1, <1>2, <1>3, <2>1 DEF FoldIInv, Passing, Scanned
<1>4. CASE rune # cur
  BY <1>1, <1>2, <1>4 DEF FoldIInv, Passing, Scanned
<1> QED
  BY <1>3, <1>4

LEMMA AppendedStep ==
  ASSUME FoldIInv, Appended
  PROVE  FoldIInv'
<1>1. /\ cur \in Nat /\ s \in Seq(Nat) /\ pos \in 1 .. Len(s) /\ IsFold(cur, rune)
      /\ buf \in Seq(Nat) /\ rune \in Nat /\ Len(buf) = pos - 1
  BY CurIsRune DEF FoldIInv, FoldTypeOK, Appended, Searching, Passing
<1>2. /\ buf' \in Seq(Nat) /\ Len(buf') = pos /\ buf'[pos] = rune
      /\ \A k \in 1 .. pos - 1 : buf'[k] = buf[k]
  BY <1>1 DEF Appended
<1>3. FoldTypeOK' /\ InBounds' /\ Searching'
  BY <1>1, <1>2 DEF FoldIInv, FoldTypeOK, InBounds, Searching, Appended
<1>4. \A k \in 1 .. pos : IsFold(s[k], buf'[k])
  BY <1>1, <1>2 DEF FoldIInv, Passing, Appended, cur
<1> QED
  BY <1>1, <1>2, <1>3, <1>4 DEF FoldIInv, Passing, Appended

LEMMA ReturnStep ==
  ASSUME FoldIInv, AllFolded \/ Built
  PROVE  FoldIInv'
<1>1. s \in Seq(Nat) /\ pos \in Nat /\ pos - 1 = Len(s)
  BY TableTypes DEF FoldIInv, FoldTypeOK, AllFolded, Built
<1>2. FoldTypeOK' /\ InBounds' /\ Searching'
  BY <1>1 DEF FoldIInv, FoldTypeOK, InBounds, Searching, AllFolded, Built
<1>3. Passing'
  BY <1>1 DEF FoldIInv, Passing, AllFolded, Built
<1> QED
  BY <1>2, <1>3 DEF FoldIInv

\* Every step of the two loops and of the searches preserves the invariant.
LEMMA StepPreserves == FoldIInv /\ [FoldNext]_foldVars => FoldIInv'
<1>1. ASSUME FoldIInv, UNCHANGED foldVars PROVE FoldIInv'
  BY <1>1 DEF foldVars, FoldIInv, FoldTypeOK, InBounds, Searching, Passing, cur
<1> QED
  BY <1>1, StringStep, CallRuneStep, SearchRangesStep, RangesExhaustedStep, SearchPairsStep,
     PairsExhaustedStep, ScannedStep, AppendedStep, ReturnStep
     DEF FoldNext, Work, Search

\* The searches and the passes stay within their types.
THEOREM FoldTypeCorrect == FoldSpec => []FoldTypeOK
<1>1. FoldIInv => FoldTypeOK
  BY DEF FoldIInv
<1> QED
  BY <1>1, InitEstablishes, StepPreserves, PTL DEF FoldSpec

\* Rune never reads past the end of a table, of whatever size.
THEOREM SearchInBounds == FoldSpec => []InBounds
<1>1. FoldIInv => InBounds
  BY DEF FoldIInv
<1> QED
  BY <1>1, InitEstablishes, StepPreserves, PTL DEF FoldSpec

\* For every sorted table whose targets are fixed, and for every string, what
\* String returns is the folding of each rune, and folds to itself.
THEOREM FoldCorrect == FoldSpec => []FoldsEveryRune
<1>1. FoldIInv => FoldsEveryRune
  <2> SUFFICES ASSUME FoldIInv, pass = "done"
               PROVE  /\ Len(result) = Len(s)
                      /\ \A k \in 1 .. Len(s) :
                           IsFold(s[k], result[k]) /\ IsFold(result[k], result[k])
    BY DEF FoldsEveryRune
  <2>1. s \in Seq(Nat)
    BY TableTypes DEF FoldIInv, FoldTypeOK
  <2>2. /\ Len(result) = Len(s)
        /\ \A k \in 1 .. Len(s) : IsFold(s[k], result[k])
    BY DEF FoldIInv, Passing
  <2> QED
    BY <2>1, <2>2, FoldIsFixed
<1> QED
  BY <1>1, InitEstablishes, StepPreserves, PTL DEF FoldSpec

-----------------------------------------------------------------------------
(* Wire, for every message size and every length prefix.                   *)

\* A decoded field as the model records it.
Field == [kind : Kinds, at : Nat, end : Nat, word : (0 .. None) \cup Masks \cup Modes]

\* Where the last complete field ends: before a length prefix whose body is due.
FieldsEnd == IF prefix = None THEN off ELSE off - 4

Types ==
  /\ msg \in [len : 0 .. MaxRequestSize, total : Nat, op : OpCodes]
  /\ stage \in {"read", "parse", "dispatch", "decode", "short", "invalid", "handle", "down"}
  /\ off \in Nat
  /\ reads \in Seq(Kinds)
  /\ prefix \in 0 .. None
  /\ fields \in Seq(Field)

\* A payload is only taken from a framed message, and only in it are bytes read.
Framed ==
  /\ stage \in {"dispatch", "decode", "short", "handle"} => WellFramed(msg)
  /\ off # 0 \/ fields # <<>> => WellFramed(msg) /\ off <= Payload

\* Before its decoder exists a message has no decoding state.
Fresh ==
  stage \in {"read", "parse", "dispatch"} => off = 0 /\ fields = <<>> /\ prefix = None

\* A length prefix is pending only in front of the field it belongs to.
Pending ==
  prefix # None => /\ stage \in {"decode", "short"}
                   /\ reads # <<>> /\ Head(reads) \in Prefixed
                   /\ off >= 4

Tiled ==
  /\ fields = <<>> => FieldsEnd = 0
  /\ fields # <<>> => /\ fields[1].at = 0
                      /\ \A i \in 1 .. Len(fields) - 1 : fields[i].end = fields[i + 1].at
                      /\ fields[Len(fields)].end = FieldsEnd

\* The inductive invariant: FieldsInside alone does not say where an empty
\* decoder stands, nor that a prefix is read only in front of its own body.
WireIInv == Types /\ Framed /\ Fresh /\ Pending /\ Tiled

-----------------------------------------------------------------------------
(* Every decoder of messages.go makes reads of the kinds the model gives a *)
(* width to.                                                               *)
LEMMA DecodersTyped ==
  ASSUME NEW op \in DOMAIN handlers
  PROVE  handlers[op] \in Seq(Kinds)
<1> USE DEF Kinds, Width, Prefixed
<1>1. /\ DecodeLookupRequest \in Seq(Kinds) /\ DecodeCreateEntryRequest \in Seq(Kinds)
      /\ DecodeHideEntryRequest \in Seq(Kinds) /\ DecodeDeleteEntryRequest \in Seq(Kinds)
      /\ DecodeEnumChildrenRequest \in Seq(Kinds)
  BY DEF DecodeLookupRequest, DecodeCreateEntryRequest, DecodeHideEntryRequest,
         DecodeDeleteEntryRequest, DecodeEnumChildrenRequest
<1>2. /\ DecodeCreateKeyRequest \in Seq(Kinds) /\ DecodeReadKeyRequest \in Seq(Kinds)
      /\ DecodeWriteKeyRequest \in Seq(Kinds) /\ DecodeDropKeyRequest \in Seq(Kinds)
  BY DEF DecodeCreateKeyRequest, DecodeReadKeyRequest, DecodeWriteKeyRequest,
         DecodeDropKeyRequest
<1>3. /\ DecodeQueryValuesRequest \in Seq(Kinds) /\ DecodeSetValueRequest \in Seq(Kinds)
      /\ DecodeDeleteValueEntryRequest \in Seq(Kinds)
      /\ DecodeSetBlanketTombstoneRequest \in Seq(Kinds)
  BY DEF DecodeQueryValuesRequest, DecodeSetValueRequest,
         DecodeDeleteValueEntryRequest, DecodeSetBlanketTombstoneRequest
<1>4. /\ DecodeBeginTransactionRequest \in Seq(Kinds)
      /\ DecodeCommitTransactionRequest \in Seq(Kinds)
      /\ DecodeAbortTransactionRequest \in Seq(Kinds)
      /\ DecodeDeleteLayerRequest \in Seq(Kinds) /\ DecodeFlushRequest \in Seq(Kinds)
  BY DEF DecodeBeginTransactionRequest, DecodeCommitTransactionRequest,
         DecodeAbortTransactionRequest, DecodeDeleteLayerRequest, DecodeFlushRequest
<1> HIDE DEF Kinds, Width, Prefixed
<1> QED BY <1>1, <1>2, <1>3, <1>4 DEF handlers

LEMMA MaskedTyped == ASSUME NEW word PROVE Masked(word) \in Seq(Kinds)
<1> DEFINE a == IF "sd" \in word THEN <<"blob">> ELSE <<>>
           b == IF "last_write_time" \in word THEN <<"u64">> ELSE <<>>
<1>1. "blob" \in Kinds /\ "u64" \in Kinds BY DEF Kinds, Width, Prefixed
<1>2. <<"blob">> \in Seq(Kinds) /\ <<"u64">> \in Seq(Kinds) /\ <<>> \in Seq(Kinds) BY <1>1
<1>3. a \in Seq(Kinds) /\ b \in Seq(Kinds) BY <1>2
<1> HIDE DEF a, b
<1>4. a \o b \in Seq(Kinds) BY <1>3
<1> QED BY <1>4 DEF Masked, a, b

\* The reads left after one more field are again reads the model knows.
LEMMA AfterTyped ==
  ASSUME reads \in Seq(Kinds), reads # <<>>, NEW kind, NEW word
  PROVE  After(kind, word) \in Seq(Kinds)
<1>1. Tail(reads) \in Seq(Kinds) OBVIOUS
<1> QED BY <1>1, MaskedTyped DEF After

\* Appending a field that starts where the last one ended keeps the tiling.
LEMMA TilesGrow ==
  ASSUME NEW q \in Seq(Field), NEW f \in Field, NEW d,
         q = <<>> => f.at = 0,
         q # <<>> => /\ q[1].at = 0
                     /\ \A i \in 1 .. Len(q) - 1 : q[i].end = q[i + 1].at
                     /\ q[Len(q)].end = f.at,
         f.end = d
  PROVE  LET t == Append(q, f)
         IN /\ t \in Seq(Field) /\ t # <<>>
            /\ t[1].at = 0
            /\ \A i \in 1 .. Len(t) - 1 : t[i].end = t[i + 1].at
            /\ t[Len(t)].end = d
<1> DEFINE t == Append(q, f)
<1>1. t \in Seq(Field) /\ t # <<>> /\ Len(t) = Len(q) + 1 /\ Len(q) \in Nat
  <2>1. t \in Seq(Field) OBVIOUS
  <2>2. Len(t) = Len(q) + 1 /\ Len(q) \in Nat OBVIOUS
  <2>3. t # <<>>
    <3> HIDE DEF t
    <3>1. Len(t) # 0 BY <2>2
    <3> QED BY <3>1
  <2> QED BY <2>1, <2>2, <2>3
<1>2. /\ t[Len(t)] = f
      /\ \A i \in 1 .. Len(q) : t[i] = q[i]
  OBVIOUS
<1>3. t[1].at = 0
  <2>1. CASE q = <<>> BY <2>1, <1>1, <1>2
  <2>2. CASE q # <<>>
    <3>1. 1 \in 1 .. Len(q) BY <2>2, <1>1
    <3> QED BY <3>1, <2>2, <1>2
  <2> QED BY <2>1, <2>2
<1>4. \A i \in 1 .. Len(t) - 1 : t[i].end = t[i + 1].at
  <2> TAKE i \in 1 .. Len(t) - 1
  <2>1. i \in 1 .. Len(q) /\ q # <<>> /\ t[i] = q[i] BY <1>1, <1>2
  <2>2. CASE i = Len(q)
    <3>1. t[i + 1] = f BY <2>2, <1>1, <1>2
    <3> QED BY <3>1, <2>1, <2>2
  <2>3. CASE i # Len(q)
    <3>1. i \in 1 .. Len(q) - 1 /\ i + 1 \in 1 .. Len(q) BY <2>1, <2>3, <1>1
    <3>2. t[i + 1] = q[i + 1] BY <3>1, <1>2
    <3> QED BY <3>1, <3>2, <2>1
  <2> QED BY <2>2, <2>3
<1> QED BY <1>1, <1>2, <1>3, <1>4

-----------------------------------------------------------------------------
LEMMA InitWireIInv == WireInit => WireIInv
BY SizesAssumption
DEF WireInit, NoMessage, WireIInv, Types, Framed, Fresh, Pending, Tiled, FieldsEnd, None, OpCodes

\* A read that fails leaves the decoder where it was.
LEMMA ShortReadKeeps ==
  ASSUME WireIInv, stage = "decode", NEW n \in Nat, ShortRead(n)
  PROVE  WireIInv'
BY DEF WireIInv, Types, Framed, Fresh, Pending, Tiled, FieldsEnd, ShortRead, WellFramed, decoder, None,
       Payload

\* Taking a fixed-width field.
LEMMA FixedKeeps == ASSUME WireIInv, Fixed PROVE WireIInv'
<1> DEFINE kind == Head(reads)
           n == Width[kind]
<1>0. /\ stage = "decode" /\ reads # <<>> /\ reads \in Seq(Kinds) /\ kind \notin Prefixed
      /\ prefix = None /\ off \in Nat /\ None \in Nat
  BY SizesAssumption DEF Fixed, WireIInv, Types, Pending, None
<1>1. kind \in Kinds /\ kind \in DOMAIN Width BY <1>0 DEF Kinds
<1>2. n \in 1 .. 16 BY <1>1 DEF Width
<1>3. CASE ShortRead(n) BY <1>0, <1>2, <1>3, ShortReadKeeps
<1>4. CASE /\ need(n)
           /\ \E word \in Words(kind) :
                /\ fields' = Append(fields, [kind |-> kind, at |-> off,
                                             end |-> off + n, word |-> word])
                /\ reads' = After(kind, word)
           /\ off' = off + n
           /\ UNCHANGED <<msg, stage, prefix>>
  <2>1. PICK word \in Words(kind) :
          /\ fields' = Append(fields, [kind |-> kind, at |-> off,
                                       end |-> off + n, word |-> word])
          /\ reads' = After(kind, word)
    BY <1>4
  <2> DEFINE f == [kind |-> kind, at |-> off, end |-> off + n, word |-> word]
  <2>2. word \in (0 .. None) \cup Masks \cup Modes BY <1>0 DEF Words
  <2>3. f \in Field BY <1>0, <1>1, <1>2, <2>2 DEF Field
  <2>4. f.at = off /\ f.end = off + n OBVIOUS
  <2>5. reads' \in Seq(Kinds) BY <2>1, <1>0, AfterTyped
  <2>6. FieldsEnd = off /\ FieldsEnd' = off + n BY <1>0, <1>4 DEF FieldsEnd
  <2>7. /\ fields' \in Seq(Field) /\ fields' # <<>>
        /\ fields'[1].at = 0
        /\ \A i \in 1 .. Len(fields') - 1 : fields'[i].end = fields'[i + 1].at
        /\ fields'[Len(fields')].end = off + n
    <3>1. fields \in Seq(Field) BY DEF WireIInv, Types
    <3>2. fields = <<>> => f.at = 0 BY <2>4, <2>6 DEF WireIInv, Tiled
    <3>3. fields # <<>> => /\ fields[1].at = 0
                           /\ \A i \in 1 .. Len(fields) - 1 : fields[i].end = fields[i + 1].at
                           /\ fields[Len(fields)].end = f.at
      BY <2>4, <2>6 DEF WireIInv, Tiled
    <3> HIDE DEF f
    <3> QED BY <3>1, <3>2, <3>3, <2>1, <2>3, <2>4, TilesGrow DEF f
  <2>8. Types'
    <3>0. off' = off + n BY <1>4
    <3>1. off' \in Nat
      <4> HIDE DEF n
      <4> QED BY <3>0, <1>0, <1>2
    <3>2. UNCHANGED <<msg, stage, prefix>> BY <1>4
    <3> QED BY <3>1, <3>2, <2>5, <2>7 DEF WireIInv, Types, None
  <2>9. Framed'
    BY <1>0, <1>2, <1>4 DEF WireIInv, Types, Framed, WellFramed, need, Payload, RequestHeaderSize
  <2>10. Fresh' /\ Pending' BY <1>0, <1>4 DEF Fresh, Pending, None
  <2>11. Tiled' BY <2>6, <2>7 DEF Tiled
  <2> QED BY <2>8, <2>9, <2>10, <2>11 DEF WireIInv
<1> QED BY <1>3, <1>4 DEF Fixed

\* Reading a length prefix.
LEMMA PrefixKeeps == ASSUME WireIInv, Prefix PROVE WireIInv'
<1>1. /\ stage = "decode" /\ reads # <<>> /\ Head(reads) \in Prefixed
      /\ prefix = None /\ off \in Nat /\ None \in Nat
  BY SizesAssumption DEF Prefix, WireIInv, Types, None
<1>2. CASE ShortRead(4) BY <1>1, <1>2, ShortReadKeeps
<1>3. CASE /\ need(4)
           /\ prefix' \in Lengths
           /\ off' = off + 4
           /\ UNCHANGED <<msg, stage, reads, fields>>
  <2>1. prefix' \in 0 .. MaxWord /\ prefix' # None /\ prefix' \in 0 .. None
    BY <1>3, SizesAssumption DEF None
  <2>2. FieldsEnd' = FieldsEnd BY <1>1, <1>3, <2>1 DEF FieldsEnd, None
  <2>3. Types' BY <1>1, <1>3, <2>1 DEF WireIInv, Types, None
  <2>4. Framed'
    BY <1>1, <1>3 DEF WireIInv, Types, Framed, WellFramed, need, Payload, RequestHeaderSize
  <2>5. Fresh' /\ Pending' BY <1>1, <1>3 DEF Fresh, Pending, None
  <2>6. Tiled' BY <1>3, <2>2 DEF WireIInv, Tiled
  <2> QED BY <2>3, <2>4, <2>5, <2>6 DEF WireIInv
<1> QED BY <1>2, <1>3 DEF Prefix

\* Taking the bytes a length prefix announced.
LEMMA BodyKeeps == ASSUME WireIInv, Body PROVE WireIInv'
<1>0. /\ stage = "decode" /\ reads # <<>> /\ reads \in Seq(Kinds) /\ prefix # None
      /\ off \in Nat /\ off >= 4 /\ None \in Nat /\ prefix \in Nat /\ prefix \in 0 .. None
  BY SizesAssumption DEF Body, WireIInv, Types, Pending, None
<1>1. Head(reads) \in Kinds /\ Tail(reads) \in Seq(Kinds) BY <1>0
<1>2. CASE ShortRead(prefix) BY <1>0, <1>2, ShortReadKeeps
<1>3. CASE /\ need(prefix)
           /\ fields' = Append(fields, [kind |-> Head(reads), at |-> off - 4,
                                        end |-> off + prefix, word |-> prefix])
           /\ off' = off + prefix
           /\ prefix' = None
           /\ reads' = Tail(reads)
           /\ UNCHANGED <<msg, stage>>
  <2> DEFINE f == [kind |-> Head(reads), at |-> off - 4, end |-> off + prefix, word |-> prefix]
  <2>1. f \in Field BY <1>0, <1>1 DEF Field
  <2>2. f.at = off - 4 /\ f.end = off + prefix OBVIOUS
  <2>3. FieldsEnd = off - 4 /\ FieldsEnd' = off + prefix BY <1>0, <1>3 DEF FieldsEnd, None
  <2>4. /\ fields' \in Seq(Field) /\ fields' # <<>>
        /\ fields'[1].at = 0
        /\ \A i \in 1 .. Len(fields') - 1 : fields'[i].end = fields'[i + 1].at
        /\ fields'[Len(fields')].end = off + prefix
    <3>1. fields \in Seq(Field) BY DEF WireIInv, Types
    <3>2. fields = <<>> => f.at = 0 BY <2>2, <2>3 DEF WireIInv, Tiled
    <3>3. fields # <<>> => /\ fields[1].at = 0
                           /\ \A i \in 1 .. Len(fields) - 1 : fields[i].end = fields[i + 1].at
                           /\ fields[Len(fields)].end = f.at
      BY <2>2, <2>3 DEF WireIInv, Tiled
    <3>4. fields' = Append(fields, f) BY <1>3
    <3> HIDE DEF f
    <3> QED BY <3>1, <3>2, <3>3, <3>4, <2>1, <2>2, TilesGrow
  <2>5. Types' BY <1>0, <1>1, <1>3, <2>4 DEF WireIInv, Types, None
  <2>6. Framed'
    BY <1>0, <1>3 DEF WireIInv, Types, Framed, WellFramed, need, Payload, RequestHeaderSize
  <2>7. Fresh' /\ Pending' BY <1>0, <1>3 DEF Fresh, Pending, None
  <2>8. Tiled' BY <2>3, <2>4 DEF Tiled
  <2> QED BY <2>5, <2>6, <2>7, <2>8 DEF WireIInv
<1> QED BY <1>2, <1>3 DEF Body

LEMMA NextWireIInv == WireIInv /\ [WireNext]_wireVars => WireIInv'
<1> SUFFICES ASSUME WireIInv, [WireNext]_wireVars PROVE WireIInv' OBVIOUS
<1> USE SizesAssumption
<1>1. CASE Receive
  <2>1. \A len \in 0 .. MaxRequestSize : len \in Nat OBVIOUS
  <2>2. msg' \in [len : 0 .. MaxRequestSize, total : Nat, op : OpCodes] BY <1>1, <2>1 DEF Receive
  <2>3. UNCHANGED decoder /\ stage = "read" /\ stage' = "parse" BY <1>1 DEF Receive
  <2> QED BY <2>2, <2>3 DEF WireIInv, Types, Framed, Fresh, Pending, Tiled, FieldsEnd, decoder, None
<1>2. CASE RejectFraming
  BY <1>2 DEF RejectFraming, WireIInv, Types, Framed, Fresh, Pending, Tiled, FieldsEnd, decoder, None,
              WellFramed, Payload
<1>3. CASE ParseRequest
  BY <1>3 DEF ParseRequest, WireIInv, Types, Framed, Fresh, Pending, Tiled, FieldsEnd, decoder, None,
              WellFramed, Payload
<1>4. CASE UnknownOp
  BY <1>4 DEF UnknownOp, WireIInv, Types, Framed, Fresh, Pending, Tiled, FieldsEnd, decoder, None,
              WellFramed, Payload
<1>5. CASE NewDecoder
  <2>1. reads' \in Seq(Kinds) BY <1>5, DecodersTyped DEF NewDecoder
  <2> QED BY <1>5, <2>1 DEF NewDecoder, WireIInv, Types, Framed, Fresh, Pending, Tiled, FieldsEnd, None,
                           WellFramed
<1>6. CASE Fixed BY <1>6, FixedKeeps
<1>7. CASE Prefix BY <1>7, PrefixKeeps
<1>8. CASE Body BY <1>8, BodyKeeps
<1>9. CASE Decoded
  <2>1. stage' \in {"invalid", "handle"} /\ stage = "decode" /\ reads = <<>>
        /\ UNCHANGED <<msg, decoder>>
    BY <1>9 DEF Decoded
  <2> QED BY <2>1 DEF WireIInv, Types, Framed, Fresh, Pending, Tiled, FieldsEnd, decoder, None,
                      WellFramed, Payload
<1>10. CASE Answer
  BY <1>10 DEF Answer, NoMessage, WireIInv, Types, Framed, Fresh, Pending, Tiled, FieldsEnd, None, OpCodes
<1>11. CASE UNCHANGED wireVars
  BY <1>11 DEF wireVars, WireIInv, Types, Framed, Fresh, Pending, Tiled, FieldsEnd, None, WellFramed, Payload
<1> QED BY <1>1, <1>2, <1>3, <1>4, <1>5, <1>6, <1>7, <1>8, <1>9, <1>10, <1>11 DEF WireNext

-----------------------------------------------------------------------------
(* The codec's variables keep their types whatever the messages say: in    *)
(* particular ParseRequest never hands out a payload of negative length,   *)
(* and the offset stays within the largest message.                        *)
THEOREM WireTypeCorrect == WireSpec => []WireTypeOK
<1>1. WireIInv => WireTypeOK
  <2> SUFFICES ASSUME WireIInv PROVE WireTypeOK OBVIOUS
  <2>1. off \in 0 .. MaxRequestSize
    BY SizesAssumption DEF WireIInv, Types, Framed, WellFramed, Payload, RequestHeaderSize
  <2>2. stage \in {"dispatch", "decode", "short", "handle"} => Payload \in Nat
    BY DEF WireIInv, Types, Framed, WellFramed, Payload, RequestHeaderSize
  <2>3. \A i \in DOMAIN fields : fields[i].kind \in Kinds
    <3>1. fields \in Seq(Field) BY DEF WireIInv, Types
    <3>2. \A i \in DOMAIN fields : fields[i] \in Field BY <3>1
    <3> QED BY <3>2 DEF Field
  <2> QED BY <2>1, <2>2, <2>3 DEF WireIInv, Types, WireTypeOK
<1> QED BY <1>1, InitWireIInv, NextWireIInv, PTL DEF WireSpec

(* For every message and every length prefix in it, the fields a handler's *)
(* decoder returns tile the payload from its first byte and stay inside it. *)
THEOREM FieldsStayInside == WireSpec => []FieldsInside
<1>1. WireIInv => FieldsInside
  BY DEF WireIInv, Framed, Tiled, FieldsEnd, FieldsInside
<1> QED BY <1>1, InitWireIInv, NextWireIInv, PTL DEF WireSpec

-----------------------------------------------------------------------------
(* What the codec refuses.  The fields a decoder has taken and those it has *)
(* left make up the request of its opcode, and each field is as long as its *)
(* encoding, so that off is the sum of the encodings.                       *)

\* A field ends where its encoding ends.
Measured ==
  \A i \in 1 .. Len(fields) :
    /\ EncodedSize(fields[i]) \in Nat
    /\ fields[i].end = fields[i].at + EncodedSize(fields[i])

\* The fields of the request being decoded, as far as its mask tells them.
Expected ==
  handlers[msg.op]
    \o (IF msg.op = "OpWriteKey" /\ Len(fields) >= 2 THEN Masked(fields[2].word) ELSE <<>>)

Following ==
  /\ stage = "decode" =>
       /\ msg.op \in DOMAIN handlers
       /\ Len(fields) + Len(reads) = Len(Expected)
       /\ \A i \in 1 .. Len(fields) : fields[i].kind = Expected[i]
       /\ \A j \in 1 .. Len(reads) : reads[j] = Expected[Len(fields) + j]
  /\ stage = "handle" => Complete(msg.op, fields)

\* A read was refused because the least it can take is not there.
Short ==
  stage = "short" =>
    /\ reads # <<>>
    /\ off + (IF prefix = None THEN LeastSize(Head(reads)) ELSE prefix) > Payload

CodecIInv == WireIInv /\ Measured /\ Following /\ Short

-----------------------------------------------------------------------------
(* Sums.                                                                   *)

\* A set of numbers that is not empty has a least one.
LEMMA LeastNumber ==
  ASSUME NEW T \in SUBSET Nat, T # {}
  PROVE  \E m \in T : \A k \in T : m <= k
<1>1. IsWellFoundedOn(OpToRel(<, Nat), Nat)
  BY NatLessThanWellFounded
<1>2. PICK m \in T : \A k \in T : ~(<<k, m>> \in OpToRel(<, Nat))
  BY <1>1, WFMin
<1>3. \A k \in T : ~(k < m)
  BY <1>2 DEF OpToRel
<1> QED BY <1>3

\* p[k] is the sum of the first k sizes, up to n of them.
Adds(p, sizes, n) ==
  p = [k \in 0 .. n |-> IF k = 0 THEN 0 ELSE p[k - 1] + sizes[k]]

\* The recursion of Total is over something that exists.
LEMMA SumsExist ==
  ASSUME NEW sizes \in Seq(Nat)
  PROVE  \E p : Adds(p, sizes, Len(sizes)) /\ p \in [0 .. Len(sizes) -> Nat]
<1> DEFINE Summed(n) == \E p : Adds(p, sizes, n) /\ p \in [0 .. n -> Nat]
           Bad == {n \in 0 .. Len(sizes) : ~Summed(n)}
<1> SUFFICES ASSUME Bad # {} PROVE FALSE
  <2>1. Len(sizes) \in 0 .. Len(sizes) OBVIOUS
  <2> QED BY <2>1
<1>1. Bad \in SUBSET Nat OBVIOUS
<1>2. PICK m \in Bad : \A k \in Bad : m <= k
  <2> HIDE DEF Bad
  <2> QED BY <1>1, LeastNumber
<1>3. CASE m = 0
  <2> DEFINE p == [k \in 0 .. 0 |-> 0]
  <2>1. p = [k \in 0 .. 0 |-> IF k = 0 THEN 0 ELSE p[k - 1] + sizes[k]] OBVIOUS
  <2>2. p \in [0 .. 0 -> Nat] OBVIOUS
  <2>3. Summed(0) BY <2>1, <2>2 DEF Adds
  <2> QED BY <1>2, <1>3, <2>3
<1>4. CASE m # 0
  <2>1. m \in 1 .. Len(sizes) /\ m - 1 \in 0 .. Len(sizes) /\ m - 1 \notin Bad
    <3>1. m \in 0 .. Len(sizes) BY <1>2
    <3>2. m - 1 \notin Bad
      <4> HIDE DEF Bad
      <4> QED BY <1>2, <3>1
    <3> QED BY <1>4, <3>1, <3>2
  <2>2. PICK q : Adds(q, sizes, m - 1) /\ q \in [0 .. m - 1 -> Nat] BY <2>1
  <2>3. sizes[m] \in Nat BY <2>1
  <2> DEFINE p == [k \in 0 .. m |-> IF k = m THEN q[m - 1] + sizes[m] ELSE q[k]]
  <2>4. p \in [0 .. m -> Nat] BY <2>1, <2>2, <2>3
  <2>5. ASSUME NEW k \in 0 .. m PROVE p[k] = IF k = 0 THEN 0 ELSE p[k - 1] + sizes[k]
    <3>1. CASE k = m
      <4>1. p[m] = q[m - 1] + sizes[m] /\ p[m - 1] = q[m - 1] BY <2>1
      <4> QED BY <1>4, <3>1, <4>1
    <3>2. CASE k # m
      <4>1. k \in 0 .. m - 1 /\ p[k] = q[k] BY <2>1, <3>2
      <4>2. q[k] = IF k = 0 THEN 0 ELSE q[k - 1] + sizes[k]
        <5> HIDE DEF p
        <5> QED BY <2>2, <4>1 DEF Adds
      <4>3. k # 0 => p[k - 1] = q[k - 1] BY <2>1, <3>2
      <4> QED BY <4>1, <4>2, <4>3
    <3> QED BY <3>1, <3>2
  <2>6. p = [k \in 0 .. m |-> p[k]] OBVIOUS
  <2> HIDE DEF p
  <2>7. p = [k \in 0 .. m |-> IF k = 0 THEN 0 ELSE p[k - 1] + sizes[k]] BY <2>5, <2>6
  <2>8. Summed(m) BY <2>4, <2>7 DEF Adds
  <2> QED BY <1>2, <2>8
<1> QED BY <1>3, <1>4

\* Total is the last of the partial sums.
LEMMA TotalSums ==
  ASSUME NEW sizes \in Seq(Nat)
  PROVE  \E p : /\ p[0] = 0
                /\ \A k \in 1 .. Len(sizes) : p[k] = p[k - 1] + sizes[k]
                /\ Total(sizes) = p[Len(sizes)]
<1> DEFINE p == CHOOSE q : Adds(q, sizes, Len(sizes))
<1>1. Adds(p, sizes, Len(sizes)) BY SumsExist
<1>2. Total(sizes) = p[Len(sizes)] BY DEF Total, Adds
<1> HIDE DEF p
<1>3. \A k \in 0 .. Len(sizes) : p[k] = IF k = 0 THEN 0 ELSE p[k - 1] + sizes[k]
  BY <1>1 DEF Adds
<1>4. p[0] = 0 BY <1>3
<1> QED BY <1>2, <1>3, <1>4

\* A sum is at least its first term.
LEMMA TotalAtLeast ==
  ASSUME NEW sizes \in Seq(Nat), sizes # <<>>
  PROVE  Total(sizes) \in Nat /\ Total(sizes) >= sizes[1]
<1>1. PICK p : /\ p[0] = 0
               /\ \A k \in 1 .. Len(sizes) : p[k] = p[k - 1] + sizes[k]
               /\ Total(sizes) = p[Len(sizes)]
  BY TotalSums
<1>2. Len(sizes) \in Nat \ {0} /\ \A k \in 1 .. Len(sizes) : sizes[k] \in Nat OBVIOUS
<1> DEFINE Bad == {k \in 1 .. Len(sizes) : ~(p[k] \in Nat /\ p[k] >= sizes[1])}
<1>3. Bad = {}
  <2> SUFFICES ASSUME Bad # {} PROVE FALSE OBVIOUS
  <2>1. Bad \in SUBSET Nat OBVIOUS
  <2>2. PICK m \in Bad : \A k \in Bad : m <= k
    <3> HIDE DEF Bad
    <3> QED BY <2>1, LeastNumber
  <2>3. p[1] = sizes[1] BY <1>1, <1>2
  <2>4. m # 1 BY <1>2, <2>3
  <2>5. m - 1 \in 1 .. Len(sizes) /\ m - 1 \notin Bad BY <2>2, <2>4
  <2>6. p[m - 1] \in Nat /\ p[m - 1] >= sizes[1] BY <2>5
  <2>7. p[m] = p[m - 1] + sizes[m] BY <1>1
  <2> QED BY <1>2, <2>6, <2>7
<1> QED BY <1>1, <1>2, <1>3

\* Fields that tile the payload from its first byte, each as long as its
\* encoding, take together the bytes up to the end of the last.
LEMMA FieldsTotal ==
  ASSUME WireIInv, Measured
  PROVE  EncodedTotal(fields) = FieldsEnd
<1> DEFINE sizes == [i \in DOMAIN fields |-> EncodedSize(fields[i])]
<1>1. Len(fields) \in Nat /\ DOMAIN fields = 1 .. Len(fields)
  BY DEF WireIInv, Types
<1>2. sizes \in Seq(Nat) /\ Len(sizes) = Len(fields)
      /\ \A i \in 1 .. Len(fields) : sizes[i] = EncodedSize(fields[i])
  BY <1>1 DEF Measured
<1> HIDE DEF sizes
<1>3. EncodedTotal(fields) = Total(sizes) BY DEF EncodedTotal, sizes
<1>4. PICK p : /\ p[0] = 0
               /\ \A k \in 1 .. Len(sizes) : p[k] = p[k - 1] + sizes[k]
               /\ Total(sizes) = p[Len(sizes)]
  BY <1>2, TotalSums
<1>5. CASE fields = <<>>
  <2>1. Len(sizes) = 0 /\ FieldsEnd = 0 BY <1>2, <1>5 DEF WireIInv, Tiled
  <2> QED BY <1>3, <1>4, <2>1
<1>6. CASE fields # <<>>
  <2>1. Len(fields) \in 1 .. Len(fields) BY <1>1, <1>6 DEF WireIInv, Types
  <2> DEFINE Bad == {k \in 1 .. Len(fields) : p[k] # fields[k].end}
  <2>2. Bad = {}
    <3> SUFFICES ASSUME Bad # {} PROVE FALSE OBVIOUS
    <3>1. Bad \in SUBSET Nat OBVIOUS
    <3>2. PICK m \in Bad : \A k \in Bad : m <= k
      <4> HIDE DEF Bad
      <4> QED BY <3>1, LeastNumber
    <3>3. p[m] = p[m - 1] + sizes[m] BY <1>2, <1>4
    <3>4. fields[m].end = fields[m].at + sizes[m] BY <1>2 DEF Measured
    <3>5. CASE m = 1
      <4>1. fields[1].at = 0 BY <1>6 DEF WireIInv, Tiled
      <4> QED BY <1>4, <3>3, <3>4, <3>5, <4>1
    <3>6. CASE m # 1
      <4>1. m - 1 \in 1 .. Len(fields) - 1 /\ m - 1 \notin Bad BY <1>1, <3>2, <3>6
      <4>2. p[m - 1] = fields[m - 1].end BY <1>1, <4>1
      <4>3. fields[m - 1].end = fields[(m - 1) + 1].at BY <1>6, <4>1 DEF WireIInv, Tiled
      <4>4. (m - 1) + 1 = m OBVIOUS
      <4> QED BY <3>3, <3>4, <4>2, <4>3, <4>4
    <3> QED BY <3>5, <3>6
  <2>3. p[Len(fields)] = fields[Len(fields)].end BY <2>1, <2>2
  <2> QED BY <1>2, <1>3, <1>4, <1>6, <2>3 DEF WireIInv, Tiled
<1> QED BY <1>5, <1>6

-----------------------------------------------------------------------------
(* Only RSI_WRITE_KEY carries a mask, as its second and last fixed field.  *)
LEMMA OneMask ==
  /\ handlers["OpWriteKey"] = <<"guid", "mask">>
  /\ \A op \in DOMAIN handlers \ {"OpWriteKey"} :
       \A i \in 1 .. Len(handlers[op]) : handlers[op][i] # "mask"
<1> DEFINE Plain(d) == \A i \in 1 .. Len(d) : d[i] # "mask"
<1>1. /\ Plain(DecodeLookupRequest) /\ Plain(DecodeCreateEntryRequest)
      /\ Plain(DecodeHideEntryRequest) /\ Plain(DecodeDeleteEntryRequest)
      /\ Plain(DecodeEnumChildrenRequest)
  BY DEF DecodeLookupRequest, DecodeCreateEntryRequest, DecodeHideEntryRequest,
         DecodeDeleteEntryRequest, DecodeEnumChildrenRequest
<1>2. /\ Plain(DecodeCreateKeyRequest) /\ Plain(DecodeReadKeyRequest)
      /\ Plain(DecodeDropKeyRequest) /\ Plain(DecodeQueryValuesRequest)
      /\ Plain(DecodeSetValueRequest)
  BY DEF DecodeCreateKeyRequest, DecodeReadKeyRequest, DecodeDropKeyRequest,
         DecodeQueryValuesRequest, DecodeSetValueRequest
<1>3. /\ Plain(DecodeDeleteValueEntryRequest) /\ Plain(DecodeSetBlanketTombstoneRequest)
      /\ Plain(DecodeBeginTransactionRequest) /\ Plain(DecodeCommitTransactionRequest)
  BY DEF DecodeDeleteValueEntryRequest, DecodeSetBlanketTombstoneRequest,
         DecodeBeginTransactionRequest, DecodeCommitTransactionRequest
<1>4. /\ Plain(DecodeAbortTransactionRequest) /\ Plain(DecodeDeleteLayerRequest)
      /\ Plain(DecodeFlushRequest)
  BY DEF DecodeAbortTransactionRequest, DecodeDeleteLayerRequest, DecodeFlushRequest
<1>5. handlers["OpWriteKey"] = <<"guid", "mask">> BY DEF handlers, DecodeWriteKeyRequest
<1>6. ASSUME NEW op \in DOMAIN handlers \ {"OpWriteKey"} PROVE Plain(handlers[op])
  <2> HIDE DEF Plain
  <2> QED BY <1>1, <1>2, <1>3, <1>4, <1>6 DEF handlers
<1> QED BY <1>5, <1>6

\* No field of a mask is another mask.
LEMMA MaskedPlain ==
  ASSUME NEW word
  PROVE  \A i \in 1 .. Len(Masked(word)) : Masked(word)[i] # "mask"
BY DEF Masked

\* What is expected is a sequence of kinds, and up to a mask the decoder's own.
LEMMA ExpectedTyped ==
  ASSUME WireIInv, msg.op \in DOMAIN handlers
  PROVE  /\ Expected \in Seq(Kinds)
         /\ msg.op # "OpWriteKey" => Expected = handlers[msg.op]
         /\ msg.op = "OpWriteKey" /\ Len(fields) < 2 => Expected = <<"guid", "mask">>
         /\ msg.op = "OpWriteKey" /\ Len(fields) >= 2 =>
              Expected = <<"guid", "mask">> \o Masked(fields[2].word)
<1>1. handlers[msg.op] \in Seq(Kinds) BY DecodersTyped
<1>2. handlers[msg.op] \o <<>> = handlers[msg.op] BY <1>1
<1>3. Masked(fields[2].word) \in Seq(Kinds) BY MaskedTyped
<1>4. Len(fields) \in Nat BY DEF WireIInv, Types
<1>5. CASE msg.op = "OpWriteKey" /\ Len(fields) >= 2
  BY <1>1, <1>3, <1>5, OneMask DEF Expected
<1>6. CASE ~(msg.op = "OpWriteKey" /\ Len(fields) >= 2)
  <2>1. Expected = handlers[msg.op] BY <1>2, <1>6 DEF Expected
  <2> QED BY <1>1, <1>4, <1>6, <2>1, OneMask
<1> QED BY <1>5, <1>6

\* Taking a field that is no mask does not change what is expected; a mask is
\* the second field of a WRITE_KEY and the last one so far.
LEMMA NextExpected ==
  ASSUME WireIInv, Following, stage = "decode", reads # <<>>
  PROVE  /\ Head(reads) = "mask" =>
              msg.op = "OpWriteKey" /\ Len(fields) = 1 /\ Len(reads) = 1
         /\ \A f : fields' = Append(fields, f) /\ msg' = msg /\ Head(reads) # "mask" =>
              Expected' = Expected
<1>1. /\ msg.op \in DOMAIN handlers
      /\ Len(fields) + Len(reads) = Len(Expected)
      /\ Head(reads) = Expected[Len(fields) + 1]
      /\ Len(fields) \in Nat /\ Len(reads) \in Nat \ {0} /\ Len(Expected) \in Nat
  <2>1. fields \in Seq(Field) /\ reads \in Seq(Kinds) BY DEF WireIInv, Types
  <2>2. Len(reads) \in Nat \ {0} /\ Head(reads) = reads[1] /\ 1 \in 1 .. Len(reads) BY <2>1
  <2>3. Len(fields) \in Nat BY <2>1
  <2>4. msg.op \in DOMAIN handlers BY DEF Following
  <2>5. Expected \in Seq(Kinds) BY <2>4, ExpectedTyped
  <2> QED BY <2>2, <2>3, <2>4, <2>5 DEF Following
<1>2. CASE msg.op # "OpWriteKey"
  <2>1. Expected = handlers[msg.op] BY <1>1, <1>2, ExpectedTyped
  <2>2. Head(reads) # "mask"
    <3>1. Len(fields) + 1 \in 1 .. Len(handlers[msg.op]) BY <1>1, <2>1
    <3> QED BY <1>1, <1>2, <2>1, <3>1, OneMask
  <2> QED BY <1>2, <2>2 DEF Expected
<1>3. CASE msg.op = "OpWriteKey" /\ Len(fields) < 2
  <2>1. Expected = <<"guid", "mask">> BY <1>1, <1>3, ExpectedTyped
  <2>2. Len(Expected) = 2 /\ Expected[1] = "guid" /\ Expected[2] = "mask" BY <2>1
  <2>0. \A n \in Nat : n < 2 => n \in {0, 1} OBVIOUS
  <2>3. Len(fields) \in {0, 1}
    <3>1. Len(fields) \in Nat BY <1>1
    <3> QED BY <1>3, <2>0, <3>1
  <2>4. Head(reads) = "mask" => Len(fields) = 1 /\ Len(reads) = 1 BY <1>1, <2>2, <2>3
  <2>5. Head(reads) # "mask" => Len(fields) = 0 BY <1>1, <2>2, <2>3
  <2>6. ASSUME NEW f, fields' = Append(fields, f), msg' = msg, Head(reads) # "mask"
        PROVE  Expected' = Expected
    <3>1. fields \in Seq(Field) BY DEF WireIInv, Types
    <3>2. Len(fields') = 1 BY <2>5, <2>6, <3>1
    <3>3. ~(Len(fields) >= 2) BY <2>5, <2>6
    <3>4. ~(Len(fields') >= 2) BY <3>2
    <3> QED BY <2>6, <3>3, <3>4 DEF Expected
  <2> QED BY <1>3, <2>4, <2>6
<1>4. CASE msg.op = "OpWriteKey" /\ Len(fields) >= 2
  <2> DEFINE m == Masked(fields[2].word)
  <2>0. m \in Seq(Kinds) /\ \A i \in 1 .. Len(m) : m[i] # "mask" BY MaskedTyped, MaskedPlain
  <2>1. Expected = <<"guid", "mask">> \o m BY <1>1, <1>4, ExpectedTyped
  <2> HIDE DEF m
  <2>2. /\ Len(Expected) = 2 + Len(m)
        /\ \A i \in 3 .. 2 + Len(m) : Expected[i] = m[i - 2]
    <3> DEFINE d == <<"guid", "mask">>
    <3>1. "guid" \in Kinds /\ "mask" \in Kinds BY DEF Kinds, Width
    <3>2. d \in Seq(Kinds) /\ Len(d) = 2 BY <3>1
    <3> HIDE DEF d
    <3> QED BY <2>0, <2>1, <3>2, ConcatProperties DEF d
  <2>3. Head(reads) # "mask"
    <3>1. Len(fields) + 1 \in 3 .. 2 + Len(m) BY <1>1, <1>4, <2>2
    <3>2. (Len(fields) + 1) - 2 \in 1 .. Len(m) BY <2>0, <3>1
    <3> QED BY <1>1, <2>0, <2>2, <3>1, <3>2
  <2>4. ASSUME NEW f, fields' = Append(fields, f), msg' = msg
        PROVE  Expected' = Expected
    <3>1. fields \in Seq(Field) BY DEF WireIInv, Types
    <3>2. Len(fields') >= 2 /\ fields'[2] = fields[2] BY <1>4, <2>4, <3>1
    <3> QED BY <1>4, <2>4, <3>2 DEF Expected
  <2> QED BY <2>3, <2>4
<1> QED BY <1>1, <1>2, <1>3, <1>4

\* One field more is the next one expected.
LEMMA TakeNext ==
  ASSUME NEW x \in Seq(Kinds), NEW q \in Seq(Field), NEW r \in Seq(Kinds), r # <<>>,
         NEW f \in Field, f.kind = Head(r),
         Len(q) + Len(r) = Len(x),
         \A i \in 1 .. Len(q) : q[i].kind = x[i],
         \A j \in 1 .. Len(r) : r[j] = x[Len(q) + j]
  PROVE  /\ Len(Append(q, f)) + Len(Tail(r)) = Len(x)
         /\ \A i \in 1 .. Len(Append(q, f)) : Append(q, f)[i].kind = x[i]
         /\ \A j \in 1 .. Len(Tail(r)) : Tail(r)[j] = x[Len(Append(q, f)) + j]
<1>1. /\ Len(Append(q, f)) = Len(q) + 1 /\ Append(q, f)[Len(q) + 1] = f
      /\ \A i \in 1 .. Len(q) : Append(q, f)[i] = q[i]
      /\ Len(q) \in Nat
  OBVIOUS
<1>2. /\ Len(r) \in Nat \ {0} /\ Head(r) = r[1] /\ Len(Tail(r)) = Len(r) - 1
      /\ \A j \in 1 .. Len(r) - 1 : Tail(r)[j] = r[j + 1]
  OBVIOUS
<1>3. ASSUME NEW i \in 1 .. Len(q) + 1 PROVE Append(q, f)[i].kind = x[i]
  <2>1. CASE i = Len(q) + 1 BY <1>1, <1>2, <2>1
  <2>2. CASE i # Len(q) + 1
    <3>1. i \in 1 .. Len(q) BY <1>1, <2>2
    <3> QED BY <1>1, <3>1
  <2> QED BY <2>1, <2>2
<1>4. ASSUME NEW j \in 1 .. Len(r) - 1 PROVE Tail(r)[j] = x[Len(q) + 1 + j]
  <2>1. j + 1 \in 1 .. Len(r) BY <1>2
  <2>2. r[j + 1] = x[Len(q) + (j + 1)] BY <2>1
  <2>3. Len(q) + (j + 1) = Len(q) + 1 + j BY <1>1, <1>2
  <2> QED BY <1>2, <2>2, <2>3
<1> DEFINE a == Append(q, f)
           t == Tail(r)
<1>5. Len(a) = Len(q) + 1 /\ Len(t) = Len(r) - 1 BY <1>1, <1>2
<1>6. /\ \A i \in 1 .. Len(q) + 1 : a[i].kind = x[i]
      /\ \A j \in 1 .. Len(r) - 1 : t[j] = x[Len(q) + 1 + j]
  BY <1>3, <1>4
<1> HIDE DEF a, t
<1>7. Len(a) + Len(t) = Len(x)
  <2>1. Len(q) \in Nat /\ Len(r) \in Nat OBVIOUS
  <2>2. \A m, n \in Nat : (m + 1) + (n - 1) = m + n OBVIOUS
  <2>3. (Len(q) + 1) + (Len(r) - 1) = Len(q) + Len(r) BY <2>1, <2>2
  <2>4. Len(q) + Len(r) = Len(x) OBVIOUS
  <2> QED BY <1>5, <2>3, <2>4
<1> QED BY <1>5, <1>6, <1>7 DEF a, t

\* The field taken is as long as its encoding, and the ones before it are untouched.
LEMMA MeasureNext ==
  ASSUME WireIInv, Measured, NEW f \in Field, fields' = Append(fields, f),
         EncodedSize(f) \in Nat, f.end = f.at + EncodedSize(f)
  PROVE  Measured'
<1>1. fields \in Seq(Field) BY DEF WireIInv, Types
<1>2. /\ Len(fields') = Len(fields) + 1 /\ fields'[Len(fields) + 1] = f
      /\ \A i \in 1 .. Len(fields) : fields'[i] = fields[i]
      /\ Len(fields) \in Nat
  BY <1>1
<1> SUFFICES ASSUME NEW i \in 1 .. Len(fields) + 1
             PROVE  /\ EncodedSize(fields'[i]) \in Nat
                    /\ fields'[i].end = fields'[i].at + EncodedSize(fields'[i])
  BY <1>2 DEF Measured, EncodedSize
<1>3. CASE i = Len(fields) + 1 BY <1>2, <1>3
<1>4. CASE i # Len(fields) + 1
  <2>1. i \in 1 .. Len(fields) BY <1>2, <1>4
  <2> QED BY <1>2, <2>1 DEF Measured
<1> QED BY <1>3, <1>4

\* A read that is refused leaves the fields as they are.
LEMMA ShortReadRefuses ==
  ASSUME WireIInv, Measured, stage = "decode", reads # <<>>, NEW n \in Nat,
         n = (IF prefix = None THEN LeastSize(Head(reads)) ELSE prefix), ShortRead(n)
  PROVE  Measured' /\ Following' /\ Short'
<1>1. UNCHANGED <<msg, off, reads, prefix, fields>> /\ stage' = "short" BY DEF ShortRead, decoder
<1>2. Measured' BY <1>1 DEF Measured, EncodedSize
<1>3. Following' BY <1>1 DEF Following
<1>4. Short'
  <2>1. ~(off + n <= Payload) BY DEF ShortRead, need
  <2>2. off \in Nat /\ Payload \in Int
    BY SizesAssumption DEF WireIInv, Types, Payload, RequestHeaderSize
  <2>3. off + n > Payload BY <2>1, <2>2
  <2> QED BY <1>1, <2>3 DEF Short, Payload, LeastSize
<1> QED BY <1>2, <1>3, <1>4

\* A field that is no mask leaves the rest of the request as it was expected.
LEMMA PlainFollows ==
  ASSUME WireIInv, Following, stage = "decode", stage' = "decode", msg' = msg,
         reads # <<>>, Head(reads) # "mask", reads' = Tail(reads),
         NEW f \in Field, f.kind = Head(reads), fields' = Append(fields, f)
  PROVE  Following'
<1>1. reads \in Seq(Kinds) /\ fields \in Seq(Field) BY DEF WireIInv, Types
<1>2. Expected' = Expected BY NextExpected
<1>3. msg.op \in DOMAIN handlers /\ Expected \in Seq(Kinds) BY ExpectedTyped DEF Following
<1>4. /\ Len(fields') + Len(reads') = Len(Expected)
      /\ \A i \in 1 .. Len(fields') : fields'[i].kind = Expected[i]
      /\ \A j \in 1 .. Len(reads') : reads'[j] = Expected[Len(fields') + j]
  <2>1. /\ Len(fields) + Len(reads) = Len(Expected)
        /\ \A i \in 1 .. Len(fields) : fields[i].kind = Expected[i]
        /\ \A j \in 1 .. Len(reads) : reads[j] = Expected[Len(fields) + j]
    BY DEF Following
  <2> QED BY <1>1, <1>3, <2>1, TakeNext
<1> QED BY <1>2, <1>3, <1>4 DEF Following

\* A fixed-width field: its width is the least it can take, and its encoding.
LEMMA FixedFollows ==
  ASSUME CodecIInv, Fixed
  PROVE  Measured' /\ Following' /\ Short'
<1> DEFINE kind == Head(reads)
           n == Width[kind]
<1>1. WireIInv /\ Measured /\ Following BY DEF CodecIInv
<1>2. /\ stage = "decode" /\ reads # <<>> /\ reads \in Seq(Kinds) /\ kind \notin Prefixed
      /\ prefix = None /\ off \in Nat /\ fields \in Seq(Field)
  BY <1>1 DEF Fixed, WireIInv, Types, Pending
<1>3. kind \in Kinds /\ kind \in DOMAIN Width BY <1>2 DEF Kinds
<1>4. n \in 1 .. 16 /\ LeastSize(kind) = n BY <1>2, <1>3 DEF Width, LeastSize
<1>5. CASE ShortRead(n)
  <2> HIDE DEF n
  <2> QED BY <1>1, <1>2, <1>4, <1>5, ShortReadRefuses
<1>6. CASE /\ need(n)
           /\ \E word \in Words(kind) :
                /\ fields' = Append(fields, [kind |-> kind, at |-> off,
                                             end |-> off + n, word |-> word])
                /\ reads' = After(kind, word)
           /\ off' = off + n
           /\ UNCHANGED <<msg, stage, prefix>>
  <2>1. PICK word \in Words(kind) :
          /\ fields' = Append(fields, [kind |-> kind, at |-> off,
                                       end |-> off + n, word |-> word])
          /\ reads' = After(kind, word)
    BY <1>6
  <2> DEFINE f == [kind |-> kind, at |-> off, end |-> off + n, word |-> word]
  <2>2. word \in (0 .. None) \cup Masks \cup Modes
    BY SizesAssumption DEF Words, None
  <2>3. f \in Field
    <3>1. off + n \in Nat
      <4> HIDE DEF n
      <4> QED BY <1>2, <1>4
    <3> QED BY <1>2, <1>3, <2>2, <3>1 DEF Field
  <2>4. EncodedSize(f) = n BY <1>2 DEF EncodedSize
  <2>5. f.at = off /\ f.end = off + n /\ f.kind = kind /\ f.word = word OBVIOUS
  <2>6. stage' = "decode" /\ msg' = msg BY <1>2, <1>6
  <2>7. fields' = Append(fields, f) BY <2>1
  <2> HIDE DEF f
  <2>8. Measured' BY <1>1, <1>4, <2>3, <2>4, <2>5, <2>7, MeasureNext
  <2>9. Short' BY <2>6 DEF Short
  <2>10. CASE kind # "mask"
    <3>1. reads' = Tail(reads) BY <2>1, <2>10 DEF After
    <3>2. Following'
      <4>1. f.kind = Head(reads) BY <2>5
      <4> QED BY <1>1, <1>2, <2>3, <2>6, <2>7, <2>10, <3>1, <4>1, PlainFollows
    <3> QED BY <2>8, <2>9, <3>2
  <2>11. CASE kind = "mask"
    <3>1. msg.op = "OpWriteKey" /\ Len(fields) = 1 /\ Len(reads) = 1
      BY <1>1, <1>2, <2>11, NextExpected
    <3> DEFINE m == Masked(word)
    <3>2. m \in Seq(Kinds) BY MaskedTyped
    <3>3. reads' = m
      <4>1. Tail(reads) = <<>>
        <5>1. Tail(reads) \in Seq(Kinds) /\ Len(Tail(reads)) = 0 BY <1>2, <3>1
        <5> QED BY <5>1, EmptySeq
      <4>2. m \o <<>> = m
        <5> HIDE DEF m
        <5> QED BY <3>2
      <4> QED BY <2>1, <2>11, <4>1, <4>2 DEF After
    <3>4. /\ Len(fields') = 2 /\ fields'[1] = fields[1] /\ fields'[2] = f
      <4>1. /\ Len(fields') = Len(fields) + 1 /\ fields'[Len(fields) + 1] = f
            /\ \A i \in 1 .. Len(fields) : fields'[i] = fields[i]
        BY <1>2, <2>3, <2>7
      <4> QED BY <3>1, <4>1
    <3>5. fields[1].kind = "guid"
      <4>1. msg.op \in DOMAIN handlers BY <1>1, <1>2 DEF Following
      <4>2. Expected = <<"guid", "mask">> BY <1>1, <3>1, <4>1, ExpectedTyped
      <4>3. fields[1].kind = Expected[1] BY <1>1, <1>2, <3>1 DEF Following
      <4> QED BY <4>2, <4>3
    <3>6. Expected' = <<"guid", "mask">> \o m
      BY <2>5, <2>6, <3>1, <3>4, OneMask DEF Expected
    <3> DEFINE d == <<"guid", "mask">>
    <3>7. "guid" \in Kinds /\ "mask" \in Kinds BY DEF Kinds, Width
    <3>8. d \in Seq(Kinds) /\ Len(d) = 2 /\ d[1] = "guid" /\ d[2] = "mask" BY <3>7
    <3> HIDE DEF d, m
    <3>9. /\ Len(d \o m) = 2 + Len(m)
          /\ \A i \in 1 .. 2 + Len(m) : (d \o m)[i] = IF i <= 2 THEN d[i] ELSE m[i - 2]
      <4>1. /\ Len(d \o m) = Len(d) + Len(m)
            /\ \A i \in 1 .. Len(d) + Len(m) :
                 (d \o m)[i] = IF i <= Len(d) THEN d[i] ELSE m[i - Len(d)]
        BY <3>2, <3>8, ConcatProperties
      <4> QED BY <3>8, <4>1
    <3>10. Expected' = d \o m BY <3>6 DEF d
    <3>11. /\ Len(fields') + Len(reads') = Len(Expected')
           /\ \A i \in 1 .. Len(fields') : fields'[i].kind = Expected'[i]
           /\ \A j \in 1 .. Len(reads') : reads'[j] = Expected'[Len(fields') + j]
      <4>1. Len(m) \in Nat BY <3>2
      <4>2. Len(fields') + Len(reads') = Len(Expected') BY <3>3, <3>4, <3>9, <3>10, <4>1
      <4>3. ASSUME NEW i \in 1 .. 2 PROVE fields'[i].kind = Expected'[i]
        <5>1. i \in {1, 2} OBVIOUS
        <5>2. Expected'[i] = d[i] BY <3>9, <3>10, <4>1
        <5>3. fields'[1].kind = "guid" /\ fields'[2].kind = "mask"
          BY <2>5, <2>11, <3>4, <3>5
        <5> QED BY <3>8, <5>1, <5>2, <5>3
      <4>4. ASSUME NEW j \in 1 .. Len(m) PROVE m[j] = Expected'[2 + j]
        <5>1. 2 + j \in 1 .. 2 + Len(m) /\ ~(2 + j <= 2) /\ (2 + j) - 2 = j BY <4>1
        <5> QED BY <3>9, <3>10, <5>1
      <4> QED BY <3>3, <3>4, <4>2, <4>3, <4>4
    <3>12. msg.op \in DOMAIN handlers BY <1>1, <1>2 DEF Following
    <3>13. Following' BY <2>6, <3>11, <3>12 DEF Following
    <3> QED BY <2>8, <2>9, <3>13
  <2> QED BY <2>10, <2>11
<1> QED BY <1>5, <1>6 DEF Fixed

\* A length prefix: four bytes are the least its field can take.
LEMMA PrefixFollows ==
  ASSUME CodecIInv, Prefix
  PROVE  Measured' /\ Following' /\ Short'
<1>1. WireIInv /\ Measured /\ Following BY DEF CodecIInv
<1>2. stage = "decode" /\ reads # <<>> /\ Head(reads) \in Prefixed /\ prefix = None
  BY DEF Prefix
<1>3. LeastSize(Head(reads)) = 4 BY <1>2 DEF LeastSize
<1>4. CASE ShortRead(4) BY <1>1, <1>2, <1>3, <1>4, ShortReadRefuses
<1>5. CASE UNCHANGED <<msg, stage, reads, fields>>
  <2>1. Measured' BY <1>1, <1>5 DEF Measured, EncodedSize
  <2>2. Following' BY <1>1, <1>5 DEF Following, Expected
  <2>3. Short' BY <1>2, <1>5 DEF Short
  <2> QED BY <2>1, <2>2, <2>3
<1> QED BY <1>4, <1>5 DEF Prefix

\* A body is as long as its prefix says: with the prefix it is the encoding.
LEMMA BodyFollows ==
  ASSUME CodecIInv, Body
  PROVE  Measured' /\ Following' /\ Short'
<1>1. WireIInv /\ Measured /\ Following BY DEF CodecIInv
<1>2. /\ stage = "decode" /\ reads # <<>> /\ reads \in Seq(Kinds) /\ fields \in Seq(Field)
      /\ prefix # None /\ prefix \in Nat /\ prefix \in 0 .. None
      /\ off \in Nat /\ off >= 4 /\ Head(reads) \in Prefixed
  BY <1>1, SizesAssumption DEF Body, WireIInv, Types, Pending, None
<1>3. Head(reads) \in Kinds /\ Head(reads) # "mask" BY <1>2 DEF Kinds, Prefixed
<1>4. CASE ShortRead(prefix) BY <1>1, <1>2, <1>4, ShortReadRefuses
<1>5. CASE /\ fields' = Append(fields, [kind |-> Head(reads), at |-> off - 4,
                                        end |-> off + prefix, word |-> prefix])
           /\ reads' = Tail(reads)
           /\ UNCHANGED <<msg, stage>>
  <2> DEFINE f == [kind |-> Head(reads), at |-> off - 4, end |-> off + prefix, word |-> prefix]
  <2>1. f \in Field BY <1>2, <1>3 DEF Field
  <2>2. /\ f.kind = Head(reads) /\ f.at = off - 4 /\ f.end = off + prefix /\ f.word = prefix
        /\ fields' = Append(fields, f)
    BY <1>5
  <2> HIDE DEF f
  <2>3. EncodedSize(f) = 4 + prefix BY <1>2, <2>2 DEF EncodedSize
  <2>4. EncodedSize(f) \in Nat /\ f.end = f.at + EncodedSize(f) BY <1>2, <2>2, <2>3
  <2>5. Measured' BY <1>1, <2>1, <2>2, <2>4, MeasureNext
  <2>6. Following' BY <1>1, <1>2, <1>3, <1>5, <2>1, <2>2, PlainFollows
  <2>7. Short' BY <1>2, <1>5 DEF Short
  <2> QED BY <2>5, <2>6, <2>7
<1> QED BY <1>4, <1>5 DEF Body

\* With no read left the fields are those of a complete request.
LEMMA DecodedFollows ==
  ASSUME CodecIInv, Decoded
  PROVE  Measured' /\ Following' /\ Short'
<1>1. WireIInv /\ Measured /\ Following BY DEF CodecIInv
<1>2. /\ stage = "decode" /\ reads = <<>> /\ stage' \in {"invalid", "handle"}
      /\ msg' = msg /\ fields' = fields
  BY DEF Decoded, decoder
<1>3. Measured' /\ Short' BY <1>1, <1>2 DEF Measured, EncodedSize, Short
<1>4. Complete(msg.op, fields)
  <2> DEFINE kinds == [i \in DOMAIN fields |-> fields[i].kind]
  <2>1. fields \in Seq(Field) BY <1>1 DEF WireIInv, Types
  <2>2. /\ msg.op \in DOMAIN handlers /\ Len(fields) = Len(Expected)
        /\ \A i \in 1 .. Len(fields) : fields[i].kind = Expected[i]
    <3>1. Len(fields) + Len(reads) = Len(Expected) /\ Len(reads) = 0 BY <1>1, <1>2 DEF Following
    <3>2. Len(fields) \in Nat BY <2>1
    <3> QED BY <1>1, <1>2, <3>1, <3>2 DEF Following
  <2>3. Expected \in Seq(Kinds) BY <1>1, <2>2, ExpectedTyped
  <2>4. /\ kinds \in Seq(Kinds) /\ Len(kinds) = Len(fields)
        /\ \A i \in 1 .. Len(fields) : kinds[i] = fields[i].kind
    <3>1. \A f \in Field : f.kind \in Kinds BY DEF Field
    <3>2. /\ DOMAIN fields = 1 .. Len(fields) /\ Len(fields) \in Nat
          /\ \A i \in 1 .. Len(fields) : fields[i] \in Field
      BY <2>1
    <3> QED BY <3>1, <3>2
  <2> HIDE DEF kinds
  <2>5. kinds = Expected BY <2>2, <2>3, <2>4, SeqEqual
  <2> QED BY <2>5 DEF kinds, Complete, Expected
<1>5. Following' BY <1>2, <1>4 DEF Following, Complete
<1> QED BY <1>3, <1>5

\* A new decoder has everything left to read.
LEMMA NewDecoderFollows ==
  ASSUME CodecIInv, NewDecoder
  PROVE  Measured' /\ Following' /\ Short'
<1>1. /\ msg.op \in DOMAIN handlers /\ msg' = msg /\ stage' = "decode"
      /\ fields' = <<>> /\ reads' = handlers[msg.op]
  BY DEF NewDecoder
<1>2. handlers[msg.op] \in Seq(Kinds) BY <1>1, DecodersTyped
<1>3. Len(fields') = 0 BY <1>1
<1>4. Expected' = handlers[msg.op]
  <2>1. handlers[msg.op] \o <<>> = handlers[msg.op] BY <1>2
  <2>2. ~(Len(fields') >= 2) BY <1>3
  <2> QED BY <1>1, <2>1, <2>2 DEF Expected
<1>5. Len(reads') \in Nat /\ \A j \in 1 .. Len(reads') : 0 + j = j BY <1>1, <1>2
<1>6. Following' BY <1>1, <1>3, <1>4, <1>5 DEF Following
<1>7. Measured' BY <1>3 DEF Measured
<1>8. Short' BY <1>1 DEF Short
<1> QED BY <1>6, <1>7, <1>8

LEMMA InitCodec == WireInit => CodecIInv
BY InitWireIInv DEF WireInit, CodecIInv, Measured, Following, Short

LEMMA NextCodec == CodecIInv /\ [WireNext]_wireVars => CodecIInv'
<1> SUFFICES ASSUME CodecIInv, [WireNext]_wireVars PROVE CodecIInv' OBVIOUS
<1>1. WireIInv /\ Measured /\ Following /\ Short BY DEF CodecIInv
<1>2. WireIInv' BY <1>1, NextWireIInv
<1>3. CASE /\ UNCHANGED fields
           /\ stage' \in {"parse", "dispatch", "invalid", "down"}
  BY <1>1, <1>2, <1>3 DEF CodecIInv, Measured, Following, Short, EncodedSize
<1>4. CASE Fixed BY <1>2, <1>4, FixedFollows DEF CodecIInv
<1>5. CASE Prefix BY <1>2, <1>5, PrefixFollows DEF CodecIInv
<1>6. CASE Body BY <1>2, <1>6, BodyFollows DEF CodecIInv
<1>7. CASE Decoded BY <1>2, <1>7, DecodedFollows DEF CodecIInv
<1>8. CASE NewDecoder BY <1>2, <1>8, NewDecoderFollows DEF CodecIInv
<1>9. CASE Answer
  <2>1. fields' = <<>> /\ stage' = "read" BY <1>9 DEF Answer
  <2> QED BY <1>2, <2>1 DEF CodecIInv, Measured, Following, Short
<1>10. CASE UNCHANGED wireVars
  <2>1. Measured' BY <1>1, <1>10 DEF wireVars, Measured, EncodedSize
  <2>2. Following' BY <1>1, <1>10 DEF wireVars, Following, Expected, Complete
  <2>3. Short' BY <1>1, <1>10 DEF wireVars, Short, LeastSize, Payload
  <2> QED BY <1>2, <2>1, <2>2, <2>3 DEF CodecIInv
<1>11. Receive \/ RejectFraming \/ ParseRequest \/ UnknownOp =>
         UNCHANGED fields /\ stage' \in {"parse", "dispatch", "invalid", "down"}
  BY DEF Receive, RejectFraming, ParseRequest, UnknownOp, decoder
<1> QED BY <1>3, <1>4, <1>5, <1>6, <1>7, <1>8, <1>9, <1>10, <1>11 DEF WireNext

\* What is left of a request takes at least the least size of its next field.
LEMMA LeftAtLeast ==
  ASSUME NEW kinds \in Seq(Kinds), kinds # <<>>
  PROVE  LeastTotal(kinds) \in Nat /\ LeastTotal(kinds) >= LeastSize(Head(kinds))
<1> DEFINE sizes == [i \in DOMAIN kinds |-> LeastSize(kinds[i])]
<1>1. \A k \in Kinds : LeastSize(k) \in Nat BY DEF Kinds, LeastSize, Width, Prefixed
<1>2. sizes \in Seq(Nat) /\ Len(sizes) = Len(kinds) /\ sizes[1] = LeastSize(kinds[1])
  <2>1. Len(kinds) \in Nat \ {0} /\ DOMAIN kinds = 1 .. Len(kinds)
        /\ \A i \in 1 .. Len(kinds) : kinds[i] \in Kinds
    OBVIOUS
  <2> QED BY <1>1, <2>1
<1>3. LeastTotal(kinds) = Total(sizes) BY DEF LeastTotal
<1>4. sizes # <<>> /\ Head(kinds) = kinds[1]
  <2>1. Len(kinds) # 0 OBVIOUS
  <2> HIDE DEF sizes
  <2> QED BY <1>2, <2>1
<1> HIDE DEF sizes
<1> QED BY <1>2, <1>3, <1>4, TotalAtLeast

(* The codec refuses exactly the messages that do not hold their encoding: *)
(* for every message, every length prefix and every mask in it, a handler  *)
(* goes on only with a request whose fields are those of its opcode and    *)
(* whose encoding the payload holds, so that a truncated field never turns *)
(* into a zero value; and a read is refused only when no request that      *)
(* starts with the words read so far fits the payload.                     *)
THEOREM CodecRefusesExactly == WireSpec => []RefusedExactly
<1>1. CodecIInv => RefusedExactly
  <2> SUFFICES ASSUME CodecIInv PROVE TruncationRefused /\ CompleteNotRefused
    BY DEF RefusedExactly
  <2>1. WireIInv /\ Measured /\ Following /\ Short BY DEF CodecIInv
  <2>2. EncodedTotal(fields) = FieldsEnd BY <2>1, FieldsTotal
  <2>3. off \in Nat /\ reads \in Seq(Kinds) /\ prefix \in Nat /\ Payload \in Int
    BY <2>1, SizesAssumption DEF WireIInv, Types, None, Payload, RequestHeaderSize
  <2>4. TruncationRefused
    <3> SUFFICES ASSUME stage = "handle"
                 PROVE  Complete(msg.op, fields) /\ EncodedTotal(fields) <= Payload
      BY DEF TruncationRefused
    <3>1. Complete(msg.op, fields) BY <2>1 DEF Following
    <3>2. prefix = None BY <2>1 DEF WireIInv, Pending
    <3>3. EncodedTotal(fields) = off BY <2>2, <3>2 DEF FieldsEnd
    <3>4. off <= Payload
      BY <2>1, <2>3 DEF WireIInv, Types, Framed, WellFramed, Payload, RequestHeaderSize
    <3> QED BY <3>1, <3>3, <3>4
  <2>5. CompleteNotRefused
    <3> SUFFICES ASSUME stage = "short"
                 PROVE  EncodedTotal(fields) + (IF prefix = None THEN 0 ELSE prefix)
                          + LeastTotal(reads) > Payload
      BY DEF CompleteNotRefused
    <3>1. /\ reads # <<>>
          /\ off + (IF prefix = None THEN LeastSize(Head(reads)) ELSE prefix) > Payload
      BY <2>1 DEF Short
    <3>2. LeastTotal(reads) \in Nat /\ LeastTotal(reads) >= LeastSize(Head(reads))
      BY <2>3, <3>1, LeftAtLeast
    <3>3. CASE prefix = None
      <4>1. EncodedTotal(fields) = off BY <2>2, <3>3 DEF FieldsEnd
      <4>2. LeastSize(Head(reads)) \in Nat
        <5>1. Head(reads) \in Kinds BY <2>3, <3>1
        <5> QED BY <5>1 DEF Kinds, LeastSize, Width, Prefixed
      <4> QED BY <2>3, <3>1, <3>2, <3>3, <4>1, <4>2
    <3>4. CASE prefix # None
      <4>1. EncodedTotal(fields) = off - 4 BY <2>2, <3>4 DEF FieldsEnd
      <4>2. LeastSize(Head(reads)) = 4 BY <2>1, <3>4 DEF WireIInv, Pending, LeastSize
      <4> QED BY <2>3, <3>1, <3>2, <3>4, <4>1, <4>2
    <3> QED BY <3>3, <3>4
  <2> QED BY <2>4, <2>5
<1> QED BY <1>1, InitCodec, NextCodec, PTL DEF WireSpec

-----------------------------------------------------------------------------
(* LayerWalk, for any hives, keys and layers: no order of the walk, no     *)
(* failure of it and no restart loses a key another layer names, and every *)
(* key it leaves without an entry is reported, unless that walk fails.     *)

\* Nothing of a walk is left when it ends, however it ends.
Forgotten == ~Walking => left = {} /\ orphans = {}

\* The keys the base layer names have their record and that entry still, and
\* no walk has ever taken one for an orphan.
BaseNames ==
  \A g \in kept :
    /\ \E h \in Hives : g \in keys[h] /\ <<Base, g>> \in refs[h]
    /\ g \notin orphans \cup toDrop

\* The inductive invariant: OtherLayersKeepKeys does not say why a key stays,
\* and OrphansReported needs orphans to be empty when Start clears them.
WalkIInv ==
  /\ WalkTypeOK /\ refs = [h \in Hives |-> refs[h]]
  /\ Forgotten /\ OrphansReported /\ BaseNames

-----------------------------------------------------------------------------
\* A GUID belongs to one hive.
LEMMA OneHome ==
  ASSUME NEW g \in Hives, NEW h \in Hives, NEW k \in Keys[g], k \in Keys[h]
  PROVE  g = h
BY LayerWalkAssumption

LEMMA InitWalkIInv == WalkInit => WalkIInv
<1> SUFFICES ASSUME WalkInit PROVE WalkIInv OBVIOUS
<1> PICK E \in SUBSET UNION {Entries(h) : h \in Hives} :
      Targets(E) = AllKeys /\ refs = [h \in Hives |-> E \cap Entries(h)]
  BY DEF WalkInit
<1>1. ASSUME NEW h \in Hives, NEW k \in Keys[h] PROVE k \in Targets(refs[h])
  <2>1. k \in AllKeys BY DEF AllKeys
  <2>2. PICK e \in E : k = e[2] BY <2>1 DEF Targets
  <2>3. PICK i \in Hives : e \in Entries(i) BY <2>2
  <2>4. i = h BY <2>2, <2>3, OneHome DEF Entries
  <2> QED BY <2>2, <2>3, <2>4 DEF Targets
<1>2. WalkTypeOK
  <2>1. \A h \in Hives : keys[h] \subseteq Keys[h] /\ refs[h] \subseteq Entries(h)
    BY DEF WalkInit
  <2>2. kept \subseteq AllKeys
    BY DEF WalkInit, AllKeys
  <2> QED BY <2>1, <2>2, LayerWalkAssumption DEF WalkInit, WalkTypeOK
<1>3. OrphansReported
  BY <1>1 DEF WalkInit, OrphansReported, AllUnnamed, Unnamed
<1>4. BaseNames
  BY DEF WalkInit, BaseNames
<1> QED BY <1>2, <1>3, <1>4 DEF WalkIInv, Forgotten, WalkInit, Walking

-----------------------------------------------------------------------------
\* What the transaction of one hive leaves unreferenced is what it reports.
LEMMA HiveOrphans ==
  ASSUME NEW h \in Hives, NEW l,
         NEW k \in Targets(refs[h]), k \notin Targets(refs[h] \ OfLayer(h, l))
  PROVE  k \in LayerOrphans(h, l)
BY DEF LayerOrphans, Targets, OfLayer

\* A key the base layer names is no orphan of another layer, in any hive.
LEMMA BaseNoOrphan ==
  ASSUME WalkIInv, Walking, NEW g \in kept, NEW h \in Hives
  PROVE  g \notin LayerOrphans(h, layer)
<1>1. PICK i \in Hives : g \in keys[i] /\ <<Base, g>> \in refs[i]
  BY DEF WalkIInv, BaseNames
<1> SUFFICES ASSUME g \in LayerOrphans(h, layer) PROVE FALSE OBVIOUS
<1>2. PICK e \in refs[h] : g = e[2] BY DEF LayerOrphans, Targets, OfLayer
<1>3. g \in Keys[h] /\ g \in Keys[i]
  BY <1>1, <1>2 DEF WalkIInv, WalkTypeOK, Entries
<1>4. i = h BY <1>3, OneHome
<1>5. <<Base, g>> \in refs[h] \ OfLayer(h, layer) BY <1>1, <1>4 DEF OfLayer, Walking
<1>6. g \in Targets(refs[h] \ OfLayer(h, layer)) BY <1>5 DEF Targets
<1> QED BY <1>6 DEF LayerOrphans

LEMMA StartKeeps == ASSUME WalkIInv, NEW l \in Layers \ {Base}, Start(l) PROVE WalkIInv'
BY DEF WalkIInv, Start, WalkTypeOK, Forgotten, OrphansReported, AllUnnamed, Unnamed, BaseNames,
       Walking, Targets

LEMMA DeleteFromHiveKeeps ==
  ASSUME WalkIInv, NEW h \in Hives, DeleteFromHive(h)
  PROVE  WalkIInv'
<1> USE DEF DeleteFromHive
<1>1. /\ refs' = [i \in Hives |-> refs'[i]]
      /\ refs'[h] = refs[h] \ OfLayer(h, layer)
      /\ \A i \in Hives \ {h} : refs'[i] = refs[i]
  BY DEF WalkIInv
<1>2. LayerOrphans(h, layer) \subseteq Keys[h]
  BY DEF LayerOrphans, Targets, OfLayer, WalkIInv, WalkTypeOK, Entries
<1>3. WalkTypeOK'
  BY <1>1, <1>2 DEF WalkIInv, WalkTypeOK, AllKeys
<1>4. Forgotten' BY DEF Forgotten, Walking
<1>5. OrphansReported'
  <2>1. ASSUME NEW i \in Hives, NEW k \in Unnamed(i) PROVE k \in Unnamed(i)'
    BY <1>1, <2>1 DEF Unnamed, Targets
  <2>2. ASSUME NEW i \in Hives, NEW k \in Unnamed(i)'
        PROVE  k \in toDrop \cup orphans' \cup lost
    <3>1. CASE k \notin Targets(refs[i])
      BY <2>2, <3>1 DEF WalkIInv, OrphansReported, AllUnnamed, Unnamed
    <3>2. CASE k \in Targets(refs[i])
      <4>1. k \notin Targets(refs'[i]) BY <2>2 DEF Unnamed, Targets
      <4>2. i = h BY <1>1, <3>2, <4>1
      <4> QED BY <4>1, <4>2, <1>1, <3>2, HiveOrphans
    <3> QED BY <3>1, <3>2
  <2> QED BY <2>1, <2>2 DEF WalkIInv, OrphansReported, AllUnnamed
<1>6. BaseNames'
  <2> SUFFICES ASSUME NEW g \in kept
               PROVE  /\ \E i \in Hives : g \in keys[i] /\ <<Base, g>> \in refs'[i]
                      /\ g \notin orphans' \cup toDrop
    BY DEF BaseNames
  <2>1. PICK i \in Hives : g \in keys[i] /\ <<Base, g>> \in refs[i]
    BY DEF WalkIInv, BaseNames
  <2>2. <<Base, g>> \in refs'[i] BY <1>1, <2>1 DEF OfLayer, Walking
  <2>3. g \notin orphans \cup toDrop BY DEF WalkIInv, BaseNames
  <2> QED BY <2>1, <2>2, <2>3, BaseNoOrphan
<1> QED BY <1>1, <1>3, <1>4, <1>5, <1>6 DEF WalkIInv

\* A walk that fails throws its orphans away, those that are still unnamed.
LEMMA GiveUpKeeps == ASSUME WalkIInv, GiveUp PROVE WalkIInv'
<1> USE LayerWalkAssumption DEF GiveUp
<1>1. AllUnnamed' = AllUnnamed BY DEF AllUnnamed, Unnamed, Targets
<1>2. WalkTypeOK' BY DEF WalkIInv, WalkTypeOK
<1>3. OrphansReported' BY <1>1 DEF WalkIInv, OrphansReported
<1>4. BaseNames' BY DEF WalkIInv, BaseNames
<1> QED BY <1>2, <1>3, <1>4 DEF WalkIInv, Forgotten, Walking

LEMMA ReportKeeps == ASSUME WalkIInv, Report PROVE WalkIInv'
<1> USE LayerWalkAssumption DEF Report
<1>1. WalkTypeOK' BY DEF WalkIInv, WalkTypeOK
<1>2. Forgotten' BY DEF Forgotten, Walking
<1>3. OrphansReported' BY DEF WalkIInv, OrphansReported, AllUnnamed, Unnamed, Targets
<1>4. BaseNames' BY DEF WalkIInv, BaseNames
<1> QED BY <1>1, <1>2, <1>3, <1>4 DEF WalkIInv

\* A new entry names its key, which is no longer lost, and takes no name away.
LEMMA LinkKeeps == ASSUME WalkIInv, NEW h \in Hives, Link(h) PROVE WalkIInv'
<1> PICK e \in Entries(h) :
      /\ e[2] \in keys[h]
      /\ refs' = [refs EXCEPT ![h] = @ \cup {e}]
      /\ lost' = lost \ {e[2]}
      /\ UNCHANGED <<keys, left, layer, orphans, toDrop, kept>>
  BY DEF Link
<1>1. /\ refs' = [i \in Hives |-> refs'[i]]
      /\ \A i \in Hives : refs[i] \subseteq refs'[i] /\ refs'[i] \subseteq refs[i] \cup {e}
      /\ \A i \in Hives \ {h} : refs'[i] = refs[i]
      /\ e \in refs'[h]
  BY DEF WalkIInv
<1>2. WalkTypeOK' BY <1>1 DEF WalkIInv, WalkTypeOK
<1>3. Forgotten' BY DEF WalkIInv, Forgotten, Walking
<1>4. OrphansReported'
  <2>1. ASSUME NEW i \in Hives, NEW k \in Unnamed(i), k # e[2] PROVE k \in Unnamed(i)'
    BY <1>1, <2>1 DEF Unnamed, Targets
  <2>2. ASSUME NEW i \in Hives, NEW k \in Unnamed(i)' PROVE k \in Unnamed(i) /\ k # e[2]
    <3>1. k \in keys[i] /\ k \notin Targets(refs'[i]) BY <2>2 DEF Unnamed, Targets
    <3>2. k \notin Targets(refs[i]) BY <1>1, <3>1 DEF Targets
    <3>3. ASSUME k = e[2] PROVE FALSE
      <4>1. i = h BY <3>1, <3>3, OneHome DEF WalkIInv, WalkTypeOK
      <4> QED BY <1>1, <3>1, <3>3, <4>1 DEF Targets
    <3> QED BY <3>1, <3>2, <3>3 DEF Unnamed
  <2> QED BY <2>1, <2>2 DEF WalkIInv, OrphansReported, AllUnnamed
<1>5. BaseNames' BY <1>1 DEF WalkIInv, BaseNames
<1> QED BY <1>1, <1>2, <1>3, <1>4, <1>5 DEF WalkIInv

\* The kernel drops what was reported to it, and that names no kept key.
LEMMA DropKeeps == ASSUME WalkIInv, NEW g \in AllKeys, Drop(g) PROVE WalkIInv'
<1> USE DEF Drop
<1>1. WalkTypeOK' BY DEF WalkIInv, WalkTypeOK
<1>2. Forgotten' BY DEF WalkIInv, Forgotten, Walking
<1>3. OrphansReported'
  <2>1. ASSUME NEW h \in Hives PROVE Unnamed(h)' = Unnamed(h) \ {g}
    <3>1. ASSUME NEW k, k # g PROVE k \in Targets(refs'[h]) <=> k \in Targets(refs[h])
      BY <3>1 DEF Targets
    <3> QED BY <3>1 DEF Unnamed, Targets
  <2>2. AllUnnamed' = AllUnnamed \ {g} BY <2>1 DEF AllUnnamed
  <2> QED BY <2>2 DEF WalkIInv, OrphansReported
<1>4. BaseNames'
  <2> SUFFICES ASSUME NEW k \in kept
               PROVE  /\ \E h \in Hives : k \in keys'[h] /\ <<Base, k>> \in refs'[h]
                      /\ k \notin orphans \cup toDrop'
    BY DEF BaseNames
  <2>1. k # g BY DEF WalkIInv, BaseNames
  <2> QED BY <2>1 DEF WalkIInv, BaseNames
<1> QED BY <1>1, <1>2, <1>3, <1>4 DEF WalkIInv

LEMMA ReopenKeeps == ASSUME WalkIInv, Reopen PROVE WalkIInv'
<1> USE LayerWalkAssumption DEF Reopen
<1>1. WalkTypeOK' BY DEF WalkIInv, WalkTypeOK
<1>2. OrphansReported'
  <2>1. ASSUME NEW h \in Hives PROVE Unnamed(h)' = {} BY DEF Unnamed, Targets
  <2> QED BY <2>1 DEF OrphansReported, AllUnnamed
<1>3. BaseNames'
  <2> SUFFICES ASSUME NEW g \in kept
               PROVE  /\ \E h \in Hives : g \in keys'[h] /\ <<Base, g>> \in refs[h]
                      /\ g \notin orphans' \cup toDrop
    BY DEF BaseNames
  <2>1. PICK h \in Hives : g \in keys[h] /\ <<Base, g>> \in refs[h] BY DEF WalkIInv, BaseNames
  <2>2. g \in Targets(refs[h]) BY <2>1 DEF Targets
  <2> QED BY <2>1, <2>2 DEF WalkIInv, BaseNames, Unnamed
<1> QED BY <1>1, <1>2, <1>3 DEF WalkIInv, Forgotten, Walking

LEMMA NextWalkIInv == WalkIInv /\ [WalkNext]_walkVars => WalkIInv'
<1> SUFFICES ASSUME WalkIInv, [WalkNext]_walkVars PROVE WalkIInv' OBVIOUS
<1>1. CASE UNCHANGED walkVars
  BY <1>1 DEF walkVars, WalkIInv, WalkTypeOK, Forgotten, OrphansReported, AllUnnamed, Unnamed,
              BaseNames, Walking, Targets
<1>2. CASE WalkNext
  BY <1>2, StartKeeps, DeleteFromHiveKeeps, GiveUpKeeps, ReportKeeps, LinkKeeps, DropKeeps,
     ReopenKeeps DEF WalkNext
<1> QED BY <1>1, <1>2

-----------------------------------------------------------------------------
(* The invariant holds of every behaviour of the walk.                     *)
THEOREM WalkInvariant == WalkSpec => []WalkIInv
BY InitWalkIInv, NextWalkIInv, PTL DEF WalkSpec

(* RSI_DELETE_LAYER loses no key another layer names and leaves no key     *)
(* unreported but the orphans a failed walk had found before it failed, in *)
(* whatever order the hives are taken.                                     *)
THEOREM WalkLosesNothing == WalkSpec => []WalkInv
<1>1. WalkIInv => WalkInv
  BY DEF WalkIInv, WalkInv, OtherLayersKeepKeys, BaseNames
<1> QED BY <1>1, WalkInvariant, PTL

-----------------------------------------------------------------------------
(* KeyTables: the two key tables of a hive implement the one map of        *)
(* KeyMap, for every set of GUIDs, descriptors and times.                  *)

\* Rows carry the flag of their store, and no GUID has two.
Sound(d) ==
  /\ d \in Tables
  /\ \A q \in Stores, g \in Guids :
       KeyExistsIn(d, q, g) => /\ d[q][g].volatile = (q = "volatile")
                               /\ ~KeyExistsIn(d, Other(q), g)

\* The inductive invariant: both sets of tables are sound, and they differ only
\* while a transaction is open.
TablesIInv ==
  /\ Sound(db) /\ Sound(work)
  /\ open \in BOOLEAN
  /\ ~open => work = db

-----------------------------------------------------------------------------
LEMMA NoKeyIsNoRecord == NoKey \notin Record
BY KeysAssumption DEF Record

\* A row put where no other store has the key.
LEMMA PutSound ==
  ASSUME NEW d, Sound(d), NEW q \in Stores, NEW g \in Guids, NEW r \in Record,
         r.volatile = (q = "volatile"), ~KeyExistsIn(d, Other(q), g)
  PROVE  Sound(Put(d, q, g, r))
<1> DEFINE e == Put(d, q, g, r)
<1>1. d \in Tables BY DEF Sound
<1>2. e \in Tables BY <1>1 DEF Put, Tables
<1>3. /\ e[q][g] = r
      /\ \A t \in Stores, h \in Guids : t # q \/ h # g => e[t][h] = d[t][h]
  BY <1>1 DEF Put, Tables
<1>4. \A t \in Stores : Other(t) \in Stores /\ Other(t) # t /\ Other(Other(t)) = t
  BY DEF Other, Stores
<1> HIDE DEF e
<1>5. ASSUME NEW t \in Stores, NEW h \in Guids, KeyExistsIn(e, t, h)
      PROVE  e[t][h].volatile = (t = "volatile") /\ ~KeyExistsIn(e, Other(t), h)
  <2>1. CASE t = q /\ h = g
    BY <2>1, <1>3, <1>4 DEF KeyExistsIn
  <2>2. CASE h = g /\ t # q
    <3>1. t = Other(q) BY <2>2 DEF Other, Stores
    <3>2. e[t][h] = d[t][h] BY <1>3, <2>2
    <3> QED BY <3>1, <3>2, <1>5, <2>2 DEF KeyExistsIn
  <2>3. CASE h # g
    <3>1. e[t][h] = d[t][h] /\ e[Other(t)][h] = d[Other(t)][h] BY <2>3, <1>3, <1>4
    <3> QED BY <3>1, <1>5 DEF KeyExistsIn, Sound
  <2> QED BY <2>1, <2>2, <2>3
<1> QED BY <1>2, <1>5 DEF Sound, e

\* A put in the one table that may have the key is an update of the map.
LEMMA PutUnion ==
  ASSUME NEW d, Sound(d), NEW q \in Stores, NEW g \in Guids, NEW r \in Record,
         ~KeyExistsIn(d, Other(q), g)
  PROVE  Union(Put(d, q, g, r)) = [Union(d) EXCEPT ![g] = r]
<1> DEFINE e == Put(d, q, g, r)
<1>1. d \in Tables BY DEF Sound
<1>2. /\ e[q][g] = r
      /\ \A t \in Stores, h \in Guids : t # q \/ h # g => e[t][h] = d[t][h]
  BY <1>1 DEF Put, Tables
<1> HIDE DEF e
<1>3. "main" \in Stores /\ "volatile" \in Stores BY DEF Stores
<1>4. \A h \in Guids : h # g => ReadKeyFull(e, h) = ReadKeyFull(d, h)
  BY <1>2, <1>3 DEF ReadKeyFull, KeyExistsIn
<1>5. ReadKeyFull(e, g) = r
  <2>1. CASE q = "main" BY <2>1, <1>2, NoKeyIsNoRecord DEF ReadKeyFull, KeyExistsIn
  <2>2. CASE q = "volatile"
    <3>1. d["main"][g] = NoKey BY <2>2 DEF Other, KeyExistsIn
    <3>2. e["main"][g] = NoKey BY <3>1, <2>2, <1>2, <1>3
    <3> QED BY <3>2, <2>2, <1>2 DEF ReadKeyFull, KeyExistsIn
  <2> QED BY <2>1, <2>2 DEF Stores
<1>6. Union(e) = [Union(d) EXCEPT ![g] = r] BY <1>4, <1>5 DEF Union
<1> QED BY <1>6 DEF e

\* Deleting a key from the first tables keeps the rest sound.
LEMMA DeletedSound ==
  ASSUME NEW d, Sound(d), NEW g \in Guids, NEW stores \in SUBSET Stores
  PROVE  Sound(Deleted(d, g, stores))
<1> DEFINE e == Deleted(d, g, stores)
<1>1. d \in Tables BY DEF Sound
<1>2. e \in Tables BY <1>1 DEF Deleted, Tables
<1>3. \A t \in Stores, h \in Guids :
        e[t][h] = IF t \in stores /\ h = g THEN NoKey ELSE d[t][h]
  BY <1>1 DEF Deleted, Tables
<1>4. \A t \in Stores : Other(t) \in Stores BY DEF Other, Stores
<1> HIDE DEF e
<1>5. ASSUME NEW t \in Stores, NEW h \in Guids, KeyExistsIn(e, t, h)
      PROVE  e[t][h].volatile = (t = "volatile") /\ ~KeyExistsIn(e, Other(t), h)
  <2>1. e[t][h] = d[t][h] /\ KeyExistsIn(d, t, h) BY <1>3, <1>5 DEF KeyExistsIn
  <2>2. d[t][h].volatile = (t = "volatile") /\ ~KeyExistsIn(d, Other(t), h)
    BY <2>1 DEF Sound
  <2> QED BY <2>1, <2>2, <1>3, <1>4 DEF KeyExistsIn
<1> QED BY <1>2, <1>5 DEF Sound, e

\* Deleting it from both removes it from the map.
LEMMA DeletedUnion ==
  ASSUME NEW d, Sound(d), NEW g \in Guids
  PROVE  Union(Deleted(d, g, Stores)) = [Union(d) EXCEPT ![g] = NoKey]
<1> DEFINE e == Deleted(d, g, Stores)
<1>1. d \in Tables BY DEF Sound
<1>2. \A t \in Stores, h \in Guids : e[t][h] = IF h = g THEN NoKey ELSE d[t][h]
  BY <1>1 DEF Deleted, Tables
<1> HIDE DEF e
<1>3. \A h \in Guids : ReadKeyFull(e, h) = IF h = g THEN NoKey ELSE ReadKeyFull(d, h)
  BY <1>2 DEF ReadKeyFull, KeyExistsIn, Stores
<1>4. Union(e) = [Union(d) EXCEPT ![g] = NoKey] BY <1>3 DEF Union
<1> QED BY <1>4 DEF e

\* Deleting it from main only removes it or, if it is volatile, changes nothing:
\* it never uncovers a second row.
LEMMA DeletedMainUnion ==
  ASSUME NEW d, Sound(d), NEW g \in Guids
  PROVE  \/ Union(Deleted(d, g, {"main"})) = [Union(d) EXCEPT ![g] = NoKey]
         \/ Deleted(d, g, {"main"}) = d
<1> DEFINE e == Deleted(d, g, {"main"})
<1>0. "main" \in Stores /\ "volatile" \in Stores BY DEF Stores
<1>1. d \in Tables BY DEF Sound
<1>2. \A t \in Stores, h \in Guids :
        e[t][h] = IF t = "main" /\ h = g THEN NoKey ELSE d[t][h]
  BY <1>1 DEF Deleted, Tables
<1>3. e \in Tables BY <1>1 DEF Deleted, Tables
<1> HIDE DEF e
<1>4. CASE d["main"][g] = NoKey
  <2>1. \A t \in Stores, h \in Guids : e[t][h] = d[t][h] BY <1>2, <1>4
  <2>2. \A t \in Stores : e[t] = d[t] BY <2>1, <1>1, <1>3 DEF Tables
  <2>3. e = d BY <2>2, <1>1, <1>3 DEF Tables
  <2> QED BY <2>3 DEF e
<1>5. CASE d["main"][g] # NoKey
  <2>1. d["volatile"][g] = NoKey BY <1>5, <1>0 DEF Sound, KeyExistsIn, Other
  <2>2. ReadKeyFull(e, g) = NoKey BY <2>1, <1>0, <1>2 DEF ReadKeyFull, KeyExistsIn
  <2>3. \A h \in Guids : h # g => ReadKeyFull(e, h) = ReadKeyFull(d, h)
    BY <1>0, <1>2 DEF ReadKeyFull, KeyExistsIn
  <2>4. Union(e) = [Union(d) EXCEPT ![g] = NoKey] BY <2>2, <2>3 DEF Union
  <2> QED BY <2>4 DEF e
<1> QED BY <1>4, <1>5

\* What a WRITE_KEY leaves is a record with the same flag.
LEMMA UpdatedRecord ==
  ASSUME NEW r \in Record, NEW mask, NEW sd \in Descriptors, NEW t \in Times
  PROVE  Updated(r, mask, sd, t) \in Record /\ Updated(r, mask, sd, t).volatile = r.volatile
BY DEF Updated, Record

\* The mapped transaction step of an installed change.
LEMMA InstallMaps ==
  ASSUME NEW d, NEW m, Install(d), Union(d) = m
  PROVE  Abstract!Becomes(m)
BY DEF Install, Abstract!Becomes, Union, ReadKeyFull, KeyExistsIn

\* An installed change of sound tables keeps the invariant.
LEMMA InstallSound ==
  ASSUME TablesIInv, NEW d, Sound(d), Install(d)
  PROVE  TablesIInv'
<1>1. work' = d /\ open' = open /\ db' = IF open THEN db ELSE d BY DEF Install
<1>2. Sound(work)' BY <1>1 DEF Sound, KeyExistsIn
<1>3. Sound(db)' BY <1>1 DEF Sound, KeyExistsIn, TablesIInv
<1> QED BY <1>1, <1>2, <1>3 DEF TablesIInv

\* A request that changes nothing keeps the invariant.
LEMMA UnchangedSound == ASSUME TablesIInv, UNCHANGED <<db, work, open>> PROVE TablesIInv'
BY DEF TablesIInv, Sound, KeyExistsIn

LEMMA RefuseMaps ==
  ASSUME UNCHANGED <<db, work, open>>
  PROVE  UNCHANGED <<Union(db), Union(work), open>>
BY DEF Union, ReadKeyFull, KeyExistsIn

-----------------------------------------------------------------------------
(* Each action of KeyTables is a step of KeyMap.                           *)

LEMMA InitMaps == TablesInit => TablesIInv /\ Abstract!Init
<1> SUFFICES ASSUME TablesInit PROVE TablesIInv /\ Abstract!Init OBVIOUS
<1>1. PICK sd \in Descriptors, t \in Times :
        db = [q \in Stores |-> [g \in Guids |-> IF q = "main" /\ g = Root
                THEN [sd |-> sd, last_write_time |-> t, volatile |-> FALSE] ELSE NoKey]]
  BY DEF TablesInit
<1> DEFINE r == [sd |-> sd, last_write_time |-> t, volatile |-> FALSE]
<1>2. r \in Record /\ r.volatile = FALSE BY DEF Record
<1> HIDE DEF r
<1>3. \A q \in Stores, g \in Guids : db[q][g] = IF q = "main" /\ g = Root THEN r ELSE NoKey
  BY <1>1 DEF r
<1>4. db \in Tables BY <1>1, <1>2 DEF Tables, r
<1>5. \A q \in Stores : Other(q) \in Stores /\ Other(q) # q BY DEF Other, Stores
<1>6. Sound(db)
  <2> SUFFICES ASSUME NEW q \in Stores, NEW g \in Guids, KeyExistsIn(db, q, g)
               PROVE  db[q][g].volatile = (q = "volatile") /\ ~KeyExistsIn(db, Other(q), g)
    BY <1>4 DEF Sound
  <2>1. q = "main" /\ g = Root BY <1>3 DEF KeyExistsIn
  <2> QED BY <2>1, <1>2, <1>3, <1>5 DEF KeyExistsIn
<1>7. TablesIInv BY <1>6 DEF TablesInit, TablesIInv
<1>8. \A g \in Guids : ReadKeyFull(db, g) = IF g = Root THEN r ELSE NoKey
  BY <1>3, <1>2, NoKeyIsNoRecord DEF ReadKeyFull, KeyExistsIn, Stores
<1>9. Union(db) = [g \in Guids |->
         IF g = Root THEN [sd |-> sd, last_write_time |-> t, volatile |-> FALSE] ELSE NoKey]
  BY <1>8 DEF Union, r
<1>10. Abstract!Init
  BY <1>9 DEF TablesInit, Abstract!Init, Status, Abstract!Status
<1> QED BY <1>7, <1>10

LEMMA CreateKeyMaps ==
  ASSUME TablesIInv, NEW g \in Guids, NEW q \in Stores, NEW sd \in Descriptors, NEW t \in Times,
         CreateKey(g, q, sd, t)
  PROVE  TablesIInv' /\ Abstract!Next
<1> DEFINE r == NewRow(sd, t, q)
<1>1. r \in Record /\ r.volatile = (q = "volatile") BY DEF NewRow, Record
<1>2. r \in Abstract!Record BY <1>1 DEF Record, Abstract!Record
<1>3. GuidTaken(work, q, g) <=> Union(work)[g] # NoKey
  BY DEF GuidTaken, KeyExistsIn, Union, ReadKeyFull, Other, Stores
<1> HIDE DEF r
<1>4. CASE GuidTaken(work, q, g) /\ Refuse("AlreadyExists")
  <2>1. TablesIInv' BY <1>4, UnchangedSound DEF Refuse
  <2>2. Abstract!Create(g, r)
    BY <1>3, <1>4, RefuseMaps DEF Refuse, Abstract!Create, Status, Abstract!Status
  <2> QED BY <2>1, <2>2, <1>2 DEF Abstract!Next
<1>5. CASE /\ ~GuidTaken(work, q, g)
           /\ Install(Put(work, q, g, NewRow(sd, t, q)))
           /\ answer' = Status("OK")
  <2>1. Sound(work) /\ ~KeyExistsIn(work, Other(q), g) BY <1>5 DEF TablesIInv, GuidTaken
  <2>2. Sound(Put(work, q, g, r)) BY <2>1, <1>1, PutSound
  <2>3. TablesIInv' BY <2>2, <1>5, InstallSound DEF r
  <2>4. Union(Put(work, q, g, r)) = [Union(work) EXCEPT ![g] = r] BY <2>1, <1>1, PutUnion
  <2>5. Abstract!Becomes([Union(work) EXCEPT ![g] = r]) BY <2>4, <1>5, InstallMaps DEF r
  <2>6. Abstract!Create(g, r) BY <2>5, <1>3, <1>5 DEF Abstract!Create, Status, Abstract!Status
  <2> QED BY <2>3, <2>6, <1>2 DEF Abstract!Next
<1> QED BY <1>4, <1>5 DEF CreateKey

LEMMA WriteKeyMaps ==
  ASSUME TablesIInv, NEW g \in Guids, NEW mask \in SUBSET Fields,
         NEW sd \in Descriptors, NEW t \in Times, WriteKey(g, mask, sd, t)
  PROVE  TablesIInv' /\ Abstract!Next
<1> DEFINE q == Table(work, g)
           found == \E store \in Stores : KeyExistsIn(work, store, g)
           old == work[q][g]
           new == Updated(old, mask, sd, t)
<1>0. q \in Stores /\ Sound(work) /\ work \in Tables /\ mask \in SUBSET Abstract!Fields
  BY DEF Table, Stores, TablesIInv, Sound, Fields, Abstract!Fields
<1>1. (found /\ KeyExistsIn(work, q, g)) <=> Union(work)[g] # NoKey
  BY DEF KeyExistsIn, Union, ReadKeyFull, Table, Stores
<1>2. Union(work)[g] = old
  BY DEF KeyExistsIn, Union, ReadKeyFull, Table
<1> SUFFICES TablesIInv' /\ Abstract!Write(g, mask, sd, t)
  BY <1>0 DEF Abstract!Next
<1>3. CASE ~(found /\ KeyExistsIn(work, q, g)) /\ Refuse("NotFound")
  <2>1. TablesIInv' BY <1>3, UnchangedSound DEF Refuse
  <2>2. Union(work)[g] = NoKey BY <1>1, <1>3
  <2> QED BY <2>1, <2>2, <1>3, RefuseMaps DEF Refuse, Abstract!Write, Status, Abstract!Status
<1>4. ASSUME found /\ KeyExistsIn(work, q, g), answer' = Status("OK")
      PROVE  /\ mask = {} /\ UNCHANGED <<db, work, open>> => TablesIInv' /\ Abstract!Write(g, mask, sd, t)
             /\ mask # {} /\ Install(Put(work, q, g, new)) => TablesIInv' /\ Abstract!Write(g, mask, sd, t)
  <2>1. old \in Record /\ old # NoKey BY <1>0, <1>4 DEF Tables, KeyExistsIn
  <2>2. old.volatile = (q = "volatile") /\ ~KeyExistsIn(work, Other(q), g)
    BY <1>0, <1>4 DEF Sound
  <2>3. new \in Record /\ new.volatile = old.volatile BY <2>1, UpdatedRecord
  <2>4. new = Abstract!With(old, mask, sd, t) BY DEF Updated, Abstract!With
  <2>5. Union(Put(work, q, g, new)) = [Union(work) EXCEPT ![g] = new]
    BY <1>0, <2>2, <2>3, PutUnion
  <2>6. [Union(work) EXCEPT ![g] = new]
          = [Union(work) EXCEPT ![g] = Abstract!With(@, mask, sd, t)]
    BY <1>2, <2>4
  <2>7. ASSUME mask = {}, UNCHANGED <<db, work, open>>
        PROVE  TablesIInv' /\ Abstract!Write(g, mask, sd, t)
    <3>1. TablesIInv' BY <2>7, UnchangedSound
    <3>2. new = old BY <2>1, <2>7 DEF Updated, Record
    <3>3. [Union(work) EXCEPT ![g] = new] = Union(work) BY <1>2, <3>2 DEF Union
    <3>4. UNCHANGED <<Union(db), Union(work), open>> BY <2>7, RefuseMaps
    <3>5. open \in BOOLEAN /\ (~open => Union(db) = Union(work)) BY DEF TablesIInv
    <3>6. Abstract!Becomes(Union(work)) BY <3>4, <3>5 DEF Abstract!Becomes
    <3> QED BY <3>1, <3>3, <3>6, <2>1, <2>6, <1>2, <1>4
            DEF Abstract!Write, Status, Abstract!Status
  <2>8. ASSUME mask # {}, Install(Put(work, q, g, new))
        PROVE  TablesIInv' /\ Abstract!Write(g, mask, sd, t)
    <3>1. Sound(Put(work, q, g, new)) BY <1>0, <2>2, <2>3, PutSound
    <3>2. TablesIInv' BY <3>1, <2>8, InstallSound
    <3>3. Abstract!Becomes([Union(work) EXCEPT ![g] = new]) BY <2>5, <2>8, InstallMaps
    <3> QED BY <3>2, <3>3, <2>1, <2>6, <1>2, <1>4 DEF Abstract!Write, Status, Abstract!Status
  <2> QED BY <2>7, <2>8
<1> QED BY <1>3, <1>4 DEF WriteKey

LEMMA DropKeyMaps ==
  ASSUME TablesIInv, NEW g \in Guids, DropKey(g)
  PROVE  TablesIInv' /\ Abstract!Next
<1>1. Sound(work) BY DEF TablesIInv
<1>2. Sound(Deleted(work, g, Stores)) BY <1>1, DeletedSound
<1>3. TablesIInv' BY <1>2, InstallSound DEF DropKey
<1>4. Abstract!Becomes([Union(work) EXCEPT ![g] = NoKey])
  BY <1>1, DeletedUnion, InstallMaps DEF DropKey
<1>5. Abstract!Drop(g) BY <1>4 DEF DropKey, Abstract!Drop, Status, Abstract!Status
<1> QED BY <1>3, <1>5 DEF Abstract!Next, DropKey

LEMMA DropKeyFailsMaps ==
  ASSUME TablesIInv, NEW g \in Guids, DropKeyFails(g)
  PROVE  TablesIInv' /\ Abstract!Next
<1>1. Sound(work) BY DEF TablesIInv
<1>2. PICK stores \in {{"main"}, Stores} : Install(Deleted(work, g, stores))
  BY DEF DropKeyFails
<1>3. stores \in SUBSET Stores BY DEF Stores
<1>4. Sound(Deleted(work, g, stores)) BY <1>1, <1>3, DeletedSound
<1>5. TablesIInv' BY <1>2, <1>4, InstallSound
<1>6. CASE Union(Deleted(work, g, stores)) = [Union(work) EXCEPT ![g] = NoKey]
  <2>1. Abstract!Becomes([Union(work) EXCEPT ![g] = NoKey]) BY <1>2, <1>6, InstallMaps
  <2>2. Abstract!DropFails(g)
    BY <2>1 DEF DropKeyFails, Abstract!DropFails, Status, Abstract!Status
  <2> QED BY <1>5, <2>2 DEF Abstract!Next, DropKeyFails
<1>7. CASE Deleted(work, g, stores) = work
  <2>1. UNCHANGED <<db, work, open>> BY <1>2, <1>7 DEF Install, DropKeyFails
  <2>2. Abstract!Fails
    BY <2>1, RefuseMaps DEF DropKeyFails, Abstract!Fails, Status, Abstract!Status
  <2> QED BY <1>5, <2>2 DEF Abstract!Next
<1> QED BY <1>1, <1>2, <1>6, <1>7, DeletedUnion, DeletedMainUnion

LEMMA ReadKeyMaps ==
  ASSUME TablesIInv, NEW g \in Guids, ReadKey(g)
  PROVE  TablesIInv' /\ Abstract!Next
<1>1. UNCHANGED <<db, work, open>> BY DEF ReadKey
<1>2. TablesIInv' BY <1>1, UnchangedSound
<1>3. \/ Abstract!ReadFrom(Union(db), g)
      \/ Abstract!ReadFrom(Union(work), g)
  <2>1. PICK d \in {db, work} : answer' = Found(ReadKeyFull(d, g)) BY DEF ReadKey
  <2>2. Union(d)[g] = ReadKeyFull(d, g) BY DEF Union
  <2>3. answer' = Abstract!Found(Union(d)[g]) BY <2>1, <2>2 DEF Found, Abstract!Found
  <2>4. UNCHANGED <<Union(db), Union(work), open>> BY <1>1, RefuseMaps
  <2>5. CASE d = db BY <2>3, <2>4, <2>5 DEF Abstract!ReadFrom
  <2>6. CASE d = work BY <2>3, <2>4, <2>6 DEF Abstract!ReadFrom
  <2> QED BY <2>5, <2>6
<1> QED BY <1>2, <1>3 DEF Abstract!Next

\* What a restart leaves is the persistent part of what was committed.
LEMMA RestartMaps ==
  ASSUME TablesIInv, Restart
  PROVE  TablesIInv' /\ Abstract!Next
<1>1. PICK rest \in SUBSET Guids :
        /\ Root \in rest
        /\ db' = [q \in Stores |-> [g \in Guids |->
                   IF q = "main" /\ g \in rest THEN db["main"][g] ELSE NoKey]]
  BY DEF Restart
<1>2. work' = db' /\ open' = FALSE /\ answer' = answer BY DEF Restart
<1>3. Sound(db) /\ db \in Tables /\ "main" \in Stores /\ "volatile" \in Stores
  BY DEF TablesIInv, Sound, Stores
<1>4. \A q \in Stores, g \in Guids :
        db'[q][g] = IF q = "main" /\ g \in rest THEN db["main"][g] ELSE NoKey
  BY <1>1
<1>5. db' \in Tables BY <1>1, <1>3 DEF Tables
<1>6. \A q \in Stores : Other(q) \in Stores /\ Other(q) # q BY DEF Other, Stores
<1>7. \A q \in Stores, g \in Guids : db'[q][g] # NoKey =>
         /\ q = "main" /\ db'[q][g] = db["main"][g]
         /\ db["main"][g].volatile = FALSE
  <2> SUFFICES ASSUME NEW q \in Stores, NEW g \in Guids, db'[q][g] # NoKey
               PROVE  /\ q = "main" /\ db'[q][g] = db["main"][g]
                      /\ db["main"][g].volatile = FALSE
    OBVIOUS
  <2>1. q = "main" /\ g \in rest /\ db'[q][g] = db["main"][g] BY <1>4
  <2>2. KeyExistsIn(db, "main", g) BY <2>1 DEF KeyExistsIn
  <2>3. db["main"][g].volatile = ("main" = "volatile") BY <2>2, <1>3 DEF Sound
  <2> QED BY <2>1, <2>3
<1>8. Sound(db)'
  <2> SUFFICES ASSUME NEW q \in Stores, NEW g \in Guids, db'[q][g] # NoKey
               PROVE  db'[q][g].volatile = (q = "volatile") /\ db'[Other(q)][g] = NoKey
    BY <1>5 DEF Sound, KeyExistsIn, Tables, Other
  <2>1. q = "main" /\ db'[q][g].volatile = FALSE BY <1>7
  <2>2. Other(q) \in Stores /\ Other(q) # "main" BY <1>6, <2>1
  <2> QED BY <2>1, <2>2, <1>4
<1>9. TablesIInv' BY <1>8, <1>2 DEF TablesIInv, Sound, KeyExistsIn
<1>10. \A g \in Guids :
         (IF db'["main"][g] # NoKey THEN db'["main"][g] ELSE db'["volatile"][g])
           = IF Union(db)[g] # NoKey /\ ~Union(db)[g].volatile /\ g \in rest
               THEN Union(db)[g] ELSE NoKey
  <2> TAKE g \in Guids
  <2>1. db'["volatile"][g] = NoKey BY <1>3, <1>4
  <2>2. db'["main"][g] = IF g \in rest THEN db["main"][g] ELSE NoKey BY <1>3, <1>4
  <2>3. Union(db)[g] = IF db["main"][g] # NoKey THEN db["main"][g] ELSE db["volatile"][g]
    BY DEF Union, ReadKeyFull, KeyExistsIn
  <2>4. CASE db["main"][g] # NoKey
    <3>1. db["main"][g].volatile = FALSE BY <2>4, <1>3 DEF Sound, KeyExistsIn
    <3> QED BY <3>1, <2>1, <2>2, <2>3, <2>4
  <2>5. CASE db["main"][g] = NoKey
    <3>1. db["volatile"][g] # NoKey => db["volatile"][g].volatile = TRUE
      BY <1>3 DEF Sound, KeyExistsIn
    <3> QED BY <3>1, <2>1, <2>2, <2>3, <2>5
  <2> QED BY <2>4, <2>5
<1>11. Union(db)' = [g \in Guids |->
         IF Union(db)[g] # NoKey /\ ~Union(db)[g].volatile /\ g \in rest
           THEN Union(db)[g] ELSE NoKey]
  BY <1>10 DEF Union, ReadKeyFull, KeyExistsIn
<1>12. Union(work)' = Union(db)' BY <1>2 DEF Union, ReadKeyFull, KeyExistsIn
<1>13. Abstract!Restart BY <1>1, <1>2, <1>11, <1>12 DEF Abstract!Restart
<1> QED BY <1>9, <1>13 DEF Abstract!Next

LEMMA NextMaps == TablesIInv /\ [TablesNext]_tableVars => TablesIInv' /\ [Abstract!Next]_(Abstract!vars)
<1> SUFFICES ASSUME TablesIInv, [TablesNext]_tableVars PROVE TablesIInv' /\ [Abstract!Next]_(Abstract!vars) OBVIOUS
<1>1. ASSUME NEW g \in Guids, NEW sd \in Descriptors, NEW t \in Times, NEW q \in Stores,
             CreateKey(g, q, sd, t)
      PROVE  TablesIInv' /\ Abstract!Next
  BY <1>1, CreateKeyMaps
<1>2. ASSUME NEW g \in Guids, NEW sd \in Descriptors, NEW t \in Times,
             NEW mask \in SUBSET Fields, WriteKey(g, mask, sd, t)
      PROVE  TablesIInv' /\ Abstract!Next
  BY <1>2, WriteKeyMaps
<1>3. ASSUME NEW g \in Guids, DropKey(g) \/ DropKeyFails(g) \/ ReadKey(g)
      PROVE  TablesIInv' /\ Abstract!Next
  BY <1>3, DropKeyMaps, DropKeyFailsMaps, ReadKeyMaps
<1>4. CASE StorageError
  <2>1. UNCHANGED <<db, work, open>> BY <1>4 DEF StorageError, Refuse
  <2>2. Abstract!Fails
    BY <2>1, <1>4, RefuseMaps DEF StorageError, Refuse, Abstract!Fails, Status, Abstract!Status
  <2> QED BY <2>1, <2>2, UnchangedSound DEF Abstract!Next
<1>5. CASE Bind
  <2>1. TablesIInv' BY <1>5 DEF Bind, TablesIInv, Sound, KeyExistsIn
  <2>2. Abstract!Bind BY <1>5 DEF Bind, Abstract!Bind, Union, ReadKeyFull, KeyExistsIn
  <2> QED BY <2>1, <2>2 DEF Abstract!Next
<1>6. CASE Commit
  <2>1. TablesIInv' BY <1>6 DEF Commit, TablesIInv, Sound, KeyExistsIn
  <2>2. Abstract!Commit BY <1>6 DEF Commit, Abstract!Commit, Union, ReadKeyFull, KeyExistsIn
  <2> QED BY <2>1, <2>2 DEF Abstract!Next
<1>7. CASE Abort
  <2>1. TablesIInv' BY <1>7 DEF Abort, TablesIInv, Sound, KeyExistsIn
  <2>2. Abstract!Abort BY <1>7 DEF Abort, Abstract!Abort, Union, ReadKeyFull, KeyExistsIn
  <2> QED BY <2>1, <2>2 DEF Abstract!Next
<1>8. CASE Restart BY <1>8, RestartMaps
<1>9. CASE UNCHANGED tableVars
  <2>1. TablesIInv' BY <1>9, UnchangedSound DEF tableVars
  <2>2. UNCHANGED Abstract!vars
    BY <1>9 DEF tableVars, Abstract!vars, Union, ReadKeyFull, KeyExistsIn
  <2> QED BY <2>1, <2>2
<1> QED BY <1>1, <1>2, <1>3, <1>4, <1>5, <1>6, <1>7, <1>8, <1>9 DEF TablesNext

-----------------------------------------------------------------------------
(* The volatile flag a client reads names the table of the row in every    *)
(* reachable state, and no GUID ever has a row in both tables.             *)
THEOREM FlagCorrect == TablesSpec => []FlagTellsStore
<1>1. TablesIInv => FlagTellsStore BY DEF TablesIInv, Sound, FlagTellsStore
<1> QED BY <1>1, InitMaps, NextMaps, PTL DEF TablesSpec

(* The two key tables implement the one map of keys: the initial states    *)
(* map to initial states and every step maps to a step or a stutter.       *)
THEOREM KeyTablesImplementKeyMap == TablesSpec => OneMap
<1>1. TablesInit => TablesIInv /\ Abstract!Init BY InitMaps
<1>2. TablesIInv /\ [TablesNext]_tableVars => TablesIInv' /\ [Abstract!Next]_(Abstract!vars) BY NextMaps
<1> QED BY <1>1, <1>2, PTL DEF TablesSpec, OneMap, Abstract!Spec

-----------------------------------------------------------------------------
(* Answers.  A sort is a numbering: in a strict total order on a finite    *)
(* set, counting what goes before an element gives each a rank of its own, *)
(* from 0 without a gap.  InOrder and StableSort put the element of rank   *)
(* k - 1 at position k, so what they return has every element once and in  *)
(* order.                                                                  *)

\* B orders the elements of S strictly and totally.
StrictOrder(B, S) ==
  /\ \A x \in S : <<x, x>> \notin B
  /\ \A x, y, z \in S : <<x, y>> \in B /\ <<y, z>> \in B => <<x, z>> \in B
  /\ \A x, y \in S : x # y => <<x, y>> \in B \/ <<y, x>> \in B

\* What goes before x in S.
Before(B, S, x) == {y \in S : <<y, x>> \in B}

\* Counting what goes before an element numbers S in the order B.
Numbered(B, S) ==
  /\ Cardinality(S) \in Nat
  /\ \A x \in S : Cardinality(Before(B, S, x)) \in 0 .. Cardinality(S) - 1
  /\ \A x, y \in S :
       <<x, y>> \in B => Cardinality(Before(B, S, x)) < Cardinality(Before(B, S, y))
  /\ \A k \in 0 .. Cardinality(S) - 1 : \E x \in S : Cardinality(Before(B, S, x)) = k

\* A strict total order on a finite set numbers it.
LEMMA Ranks ==
  ASSUME NEW S, IsFiniteSet(S), NEW B, StrictOrder(B, S)
  PROVE  Numbered(B, S)
<1> DEFINE n == Cardinality(S)
           rank == [x \in S |-> Cardinality(Before(B, S, x))]
<1>1. n \in Nat BY FS_CardinalityType
<1>2. ASSUME NEW x \in S
      PROVE  IsFiniteSet(Before(B, S, x)) /\ Cardinality(Before(B, S, x)) \in 0 .. n - 1
  <2>1. IsFiniteSet(S \ {x}) /\ Cardinality(S \ {x}) = n - 1 BY FS_RemoveElement
  <2>2. Before(B, S, x) \subseteq S \ {x} BY DEF Before, StrictOrder
  <2>3. IsFiniteSet(Before(B, S, x)) /\ Cardinality(Before(B, S, x)) <= Cardinality(S \ {x})
    BY <2>1, <2>2, FS_Subset
  <2>4. Cardinality(Before(B, S, x)) \in Nat BY <2>3, FS_CardinalityType
  <2> QED BY <1>1, <2>1, <2>3, <2>4
<1>3. \A x \in S : rank[x] = Cardinality(Before(B, S, x)) OBVIOUS
<1>4. rank \in [S -> 0 .. n - 1] BY <1>2
<1> HIDE DEF rank, n
<1>5. ASSUME NEW x \in S, NEW y \in S, <<x, y>> \in B PROVE rank[x] < rank[y]
  <2>1. Before(B, S, x) \subseteq Before(B, S, y) /\ Before(B, S, x) # Before(B, S, y)
    BY <1>5 DEF Before, StrictOrder
  <2>2. IsFiniteSet(Before(B, S, y)) BY <1>2
  <2>3. Cardinality(Before(B, S, x)) <= Cardinality(Before(B, S, y)) BY <2>1, <2>2, FS_Subset
  <2>4. Cardinality(Before(B, S, x)) # Cardinality(Before(B, S, y)) BY <2>1, <2>2, FS_Subset
  <2>5. Cardinality(Before(B, S, x)) \in 0 .. n - 1 /\ Cardinality(Before(B, S, y)) \in 0 .. n - 1
    BY <1>2
  <2> QED BY <1>1, <1>3, <2>3, <2>4, <2>5
<1>6. rank \in Surjection(S, 0 .. n - 1)
  <2>1. \A x \in S : rank[x] \in Int BY <1>1, <1>4
  <2>2. ASSUME NEW x \in S, NEW y \in S, x # y PROVE rank[x] # rank[y]
    <3>1. rank[x] < rank[y] \/ rank[y] < rank[x] BY <1>5, <2>2 DEF StrictOrder
    <3> QED BY <2>1, <3>1
  <2>3. rank \in Injection(S, 0 .. n - 1) BY <1>4, <2>2 DEF Injection, IsInjective
  <2>4. IsFiniteSet(0 .. n - 1) /\ Cardinality(0 .. n - 1) = n
    <3>1. 0 \in Int /\ n - 1 \in Int /\ (0 > n - 1 => n = 0) /\ (n - 1) - 0 + 1 = n BY <1>1
    <3> QED BY <3>1, FS_Interval
  <2>5. Cardinality(S) = Cardinality(0 .. n - 1) BY <2>4 DEF n
  <2> QED BY <2>3, <2>4, <2>5, FS_Injection
<1>7. \A k \in 0 .. n - 1 : \E x \in S : rank[x] = k BY <1>6 DEF Surjection
<1> QED BY <1>1, <1>2, <1>3, <1>5, <1>7 DEF n, Numbered

\* InOrder lists the numbers of a finite set, each once, ascending.
LEMMA InOrderSorts ==
  ASSUME NEW S \in SUBSET Nat, IsFiniteSet(S)
  PROVE  /\ Cardinality(S) \in Nat
         /\ InOrder(S) \in [1 .. Cardinality(S) -> S]
         /\ \A i, j \in 1 .. Cardinality(S) : i < j => InOrder(S)[i] < InOrder(S)[j]
         /\ \A x \in S : \E i \in 1 .. Cardinality(S) : InOrder(S)[i] = x
<1> DEFINE n == Cardinality(S)
           B == {p \in S \X S : p[1] < p[2]}
           rank == [x \in S |-> Cardinality(Before(B, S, x))]
           o == InOrder(S)
<1>1. \A x, y \in S : <<x, y>> \in B <=> x < y OBVIOUS
<1>2. \A x \in S : Cardinality({y \in S : y < x}) = rank[x]
  <2>1. ASSUME NEW x \in S PROVE Before(B, S, x) = {y \in S : y < x} BY <1>1 DEF Before
  <2> QED BY <2>1
<1>3. o = [k \in 1 .. n |-> CHOOSE x \in S : rank[x] = k - 1]
  <2> DEFINE c(k) == CHOOSE x \in S : Cardinality({y \in S : y < x}) = k - 1
             d(k) == CHOOSE x \in S : rank[x] = k - 1
  <2>1. ASSUME NEW k \in 1 .. n PROVE c(k) = d(k)
    <3> HIDE DEF rank
    <3> QED BY <1>2
  <2>2. o = [k \in 1 .. n |-> c(k)] BY DEF InOrder
  <2> HIDE DEF c, d, o, n
  <2>3. o = [k \in 1 .. n |-> d(k)] BY <2>1, <2>2
  <2> QED BY <2>3 DEF d
<1>4. /\ n \in Nat
      /\ \A x \in S : rank[x] \in 0 .. n - 1
      /\ \A x, y \in S : x < y => rank[x] < rank[y]
      /\ \A k \in 0 .. n - 1 : \E x \in S : rank[x] = k
  <2>1. StrictOrder(B, S) BY <1>1 DEF StrictOrder
  <2> HIDE DEF B
  <2>2. Numbered(B, S) BY <2>1, Ranks
  <2> QED BY <1>1, <2>2 DEF Numbered
<1> HIDE DEF rank, o, n
<1>5. \A k \in 1 .. n : o[k] \in S /\ rank[o[k]] = k - 1
  <2> TAKE k \in 1 .. n
  <2>1. k - 1 \in 0 .. n - 1 BY <1>4
  <2>2. \E x \in S : rank[x] = k - 1 BY <1>4, <2>1
  <2> QED BY <1>3, <2>2
<1>6. o \in [1 .. n -> S] BY <1>3, <1>5
<1>7. ASSUME NEW i \in 1 .. n, NEW j \in 1 .. n, i < j PROVE o[i] < o[j]
  <2>1. o[i] \in S /\ o[j] \in S /\ rank[o[i]] = i - 1 /\ rank[o[j]] = j - 1 BY <1>5
  <2>2. o[i] \in Nat /\ o[j] \in Nat BY <2>1
  <2>3. ~(j - 1 < i - 1) /\ i - 1 # j - 1 BY <1>4, <1>7
  <2>4. ~(o[j] < o[i]) /\ o[i] # o[j] BY <1>4, <2>1, <2>3
  <2> QED BY <2>2, <2>4
<1>8. ASSUME NEW x \in S PROVE \E i \in 1 .. n : o[i] = x
  <2> DEFINE i == rank[x] + 1
  <2>1. i \in 1 .. n /\ i - 1 = rank[x] /\ rank[x] \in Int BY <1>4
  <2> HIDE DEF i
  <2>2. o[i] \in S /\ rank[o[i]] = rank[x] BY <1>5, <2>1
  <2>3. ~(rank[x] < rank[x]) BY <2>1
  <2>4. ~(o[i] < x) /\ ~(x < o[i]) BY <1>4, <2>2, <2>3
  <2>5. o[i] \in Nat /\ x \in Nat BY <2>2
  <2>6. o[i] = x BY <2>4, <2>5
  <2> QED BY <2>1, <2>6
<1> QED BY <1>4, <1>6, <1>7, <1>8 DEF o, n

\* t lists the elements of q at the positions in at, in their order.
Selected(t, q, at) ==
  \E o \in [1 .. Len(t) -> at] : /\ \A k \in 1 .. Len(t) : t[k] = q[o[k]]
                                 /\ \A i, j \in 1 .. Len(t) : i < j => o[i] < o[j]
                                 /\ \A x \in at : \E k \in 1 .. Len(t) : o[k] = x

\* Kept has the elements of q at the kept positions, in their order.
LEMMA KeptKeeps ==
  ASSUME NEW T, NEW q \in Seq(T), NEW at \in SUBSET (1 .. Len(q))
  PROVE  Kept(q, at) \in Seq(T) /\ Selected(Kept(q, at), q, at)
<1> DEFINE n == Cardinality(at)
           o == InOrder(at)
           t == Kept(q, at)
<1>1. Len(q) \in Nat /\ at \in SUBSET Nat OBVIOUS
<1>2. IsFiniteSet(at)
  <2>1. IsFiniteSet(1 .. Len(q)) BY <1>1, FS_Interval
  <2> QED BY <2>1, FS_Subset
<1>3. /\ n \in Nat /\ o \in [1 .. n -> at]
      /\ \A i, j \in 1 .. n : i < j => o[i] < o[j]
      /\ \A x \in at : \E k \in 1 .. n : o[k] = x
  BY <1>1, <1>2, InOrderSorts
<1>4. t = [k \in DOMAIN o |-> q[o[k]]] BY DEF Kept
<1> HIDE DEF o, t, n
<1>5. t = [k \in 1 .. n |-> q[o[k]]] BY <1>3, <1>4
<1>6. \A k \in 1 .. n : q[o[k]] \in T
  <2> TAKE k \in 1 .. n
  <2>1. o[k] \in 1 .. Len(q) BY <1>3
  <2> QED BY <2>1
<1>7. t \in Seq(T) /\ Len(t) = n BY <1>3, <1>5, <1>6
<1>8. \A k \in 1 .. n : t[k] = q[o[k]] BY <1>5
<1> QED BY <1>3, <1>7, <1>8 DEF t, Selected

\* t lists q in the order B of its positions.
RankSort(t, q, B) ==
  t = [k \in 1 .. Len(q) |->
         q[CHOOSE j \in 1 .. Len(q) : 1 + Cardinality(Before(B, 1 .. Len(q), j)) = k]]

\* What that is: the elements of q, each position once, in the order B.
Permuted(t, q, B) ==
  /\ Len(t) = Len(q)
  /\ \E o \in [1 .. Len(q) -> 1 .. Len(q)] :
       /\ \A k \in 1 .. Len(q) : t[k] = q[o[k]]
       /\ \A i, j \in 1 .. Len(q) : i < j => <<o[i], o[j]>> \in B
       /\ \A x \in 1 .. Len(q) : \E k \in 1 .. Len(q) : o[k] = x

\* A sort by rank is such a list.
LEMMA SortedBy ==
  ASSUME NEW T, NEW q \in Seq(T), NEW B, StrictOrder(B, 1 .. Len(q)), NEW t, RankSort(t, q, B)
  PROVE  t \in Seq(T) /\ Permuted(t, q, B)
<1> DEFINE S == 1 .. Len(q)
           rank == [j \in S |-> Cardinality(Before(B, S, j))]
           o == [k \in S |-> CHOOSE j \in S : 1 + Cardinality(Before(B, S, j)) = k]
<1>1. Len(q) \in Nat /\ Cardinality(S) = Len(q) /\ IsFiniteSet(S)
  <2>1. Len(q) \in Nat /\ 1 \in Int /\ Len(q) - 1 + 1 = Len(q) OBVIOUS
  <2>2. 1 > Len(q) => Len(q) = 0 BY <2>1
  <2> QED BY <2>1, <2>2, FS_Interval
<1>2. t = [k \in S |-> q[o[k]]] BY DEF RankSort
<1>3. Numbered(B, S)
  <2> HIDE DEF S
  <2>1. StrictOrder(B, S) BY DEF S
  <2> QED BY <1>1, <2>1, Ranks
<1> HIDE DEF S
<1>4. /\ \A x \in S : rank[x] \in 0 .. Len(q) - 1
      /\ \A x, y \in S : <<x, y>> \in B => rank[x] < rank[y]
      /\ \A k \in 0 .. Len(q) - 1 : \E x \in S : rank[x] = k
  BY <1>1, <1>3 DEF Numbered
<1>5. \A k \in S : o[k] \in S /\ 1 + rank[o[k]] = k
  <2> TAKE k \in S
  <2>1. k - 1 \in 0 .. Len(q) - 1 /\ 1 + (k - 1) = k BY <1>1 DEF S
  <2>2. \E x \in S : 1 + rank[x] = k
    <3> HIDE DEF rank
    <3> QED BY <1>4, <2>1
  <2>3. \E x \in S : 1 + Cardinality(Before(B, S, x)) = k BY <2>2
  <2>4. o[k] = CHOOSE j \in S : 1 + Cardinality(Before(B, S, j)) = k OBVIOUS
  <2> HIDE DEF o
  <2>5. o[k] \in S /\ 1 + Cardinality(Before(B, S, o[k])) = k BY <2>3, <2>4
  <2> QED BY <2>5
<1>6. o \in [S -> S] BY <1>5
<1> HIDE DEF rank, o
<1>7. ASSUME NEW i \in S, NEW j \in S, i < j PROVE <<o[i], o[j]>> \in B
  <2>1. o[i] \in S /\ o[j] \in S /\ 1 + rank[o[i]] = i /\ 1 + rank[o[j]] = j BY <1>5
  <2>2. rank[o[i]] \in Int /\ rank[o[j]] \in Int BY <1>1, <1>4, <2>1
  <2>3. ~(rank[o[j]] < rank[o[i]]) /\ rank[o[i]] # rank[o[j]] BY <1>7, <2>1, <2>2
  <2>4. ~(<<o[j], o[i]>> \in B) /\ o[i] # o[j] BY <1>4, <2>1, <2>3
  <2> QED BY <2>1, <2>4 DEF StrictOrder, S
<1>8. ASSUME NEW x \in S PROVE \E k \in S : o[k] = x
  <2> DEFINE k == 1 + rank[x]
  <2>1. k \in S /\ rank[x] \in Int BY <1>1, <1>4 DEF S
  <2>2. o[k] \in S /\ 1 + rank[o[k]] = 1 + rank[x] /\ rank[o[k]] \in Int BY <1>1, <1>4, <1>5, <2>1
  <2> HIDE DEF k
  <2>3. ~(rank[o[k]] < rank[x]) /\ ~(rank[x] < rank[o[k]]) BY <2>1, <2>2
  <2>4. o[k] = x BY <1>4, <2>2, <2>3 DEF StrictOrder, S
  <2> QED BY <2>1, <2>4
<1>9. t \in Seq(T) /\ Len(t) = Len(q) /\ \A k \in S : t[k] = q[o[k]]
  <2>1. \A k \in S : q[o[k]] \in T
    <3>1. \A k \in 1 .. Len(q) : q[k] \in T OBVIOUS
    <3> QED BY <1>6, <3>1 DEF S
  <2>2. t = [k \in 1 .. Len(q) |-> q[o[k]]] BY <1>2 DEF S
  <2> QED BY <1>1, <2>1, <2>2 DEF S
<1> QED BY <1>6, <1>7, <1>8, <1>9 DEF S, Permuted

\* The three orders of the answers are lexicographic in three numbers.
Lex(a, b) ==
  \/ a[1] < b[1]
  \/ a[1] = b[1] /\ (a[2] < b[2] \/ (a[2] = b[2] /\ a[3] < b[3]))

Triple == Nat \X Nat \X Nat

\* On triples, that order is strict and total.
LEMMA LexOrders ==
  ASSUME NEW a \in Triple, NEW b \in Triple, NEW c \in Triple
  PROVE  /\ ~Lex(a, a)
         /\ Lex(a, b) /\ Lex(b, c) => Lex(a, c)
         /\ Lex(a, b) => ~Lex(b, a)
         /\ a # b => Lex(a, b) \/ Lex(b, a)
<1>1. /\ a = <<a[1], a[2], a[3]>> /\ b = <<b[1], b[2], b[3]>>
      /\ a[1] \in Nat /\ a[2] \in Nat /\ a[3] \in Nat
      /\ b[1] \in Nat /\ b[2] \in Nat /\ b[3] \in Nat
      /\ c[1] \in Nat /\ c[2] \in Nat /\ c[3] \in Nat
  BY DEF Triple
<1>2. a # b => a[1] # b[1] \/ a[2] # b[2] \/ a[3] # b[3] BY <1>1
<1> QED BY <1>1, <1>2 DEF Lex

\* A stable sort of q by keys that are all distinct.
SortKeys(t, q, K) ==
  LET n == Len(q) IN
  t = [k \in 1 .. n |->
         q[CHOOSE j \in 1 .. n :
             1 + Cardinality({i \in 1 .. n : \/ Lex(K[i], K[j])
                                             \/ ~Lex(K[j], K[i]) /\ i < j}) = k]]

\* t has the elements of q, and their keys ascend.
KeysAscend(t, q, K) ==
  \E o \in [1 .. Len(q) -> 1 .. Len(q)] :
    /\ \A k \in 1 .. Len(q) : t[k] = q[o[k]]
    /\ \A i, j \in 1 .. Len(q) : i < j => Lex(K[o[i]], K[o[j]])

\* With distinct keys the sort loses nothing and the keys ascend.
LEMMA SortsByKey ==
  ASSUME NEW T, NEW q \in Seq(T), NEW K \in [1 .. Len(q) -> Triple],
         \A i, j \in 1 .. Len(q) : i # j => K[i] # K[j],
         NEW t, SortKeys(t, q, K)
  PROVE  t \in Seq(T) /\ Len(t) = Len(q) /\ Range(t) = Range(q) /\ KeysAscend(t, q, K)
<1> DEFINE S == 1 .. Len(q)
           B == {p \in S \X S : Lex(K[p[1]], K[p[2]])}
<1>1. \A i, j \in S : <<i, j>> \in B <=> Lex(K[i], K[j]) OBVIOUS
<1>2. ASSUME NEW i \in S, NEW j \in S, NEW k \in S
      PROVE  /\ ~Lex(K[i], K[i])
             /\ Lex(K[i], K[j]) /\ Lex(K[j], K[k]) => Lex(K[i], K[k])
             /\ Lex(K[i], K[j]) => ~Lex(K[j], K[i])
             /\ i # j => Lex(K[i], K[j]) \/ Lex(K[j], K[i])
  <2>1. K[i] \in Triple /\ K[j] \in Triple /\ K[k] \in Triple OBVIOUS
  <2> QED BY <2>1, LexOrders
<1> HIDE DEF B
<1>3. StrictOrder(B, S) BY <1>1, <1>2 DEF StrictOrder
<1>4. \A j \in S : Before(B, S, j) =
                     {i \in S : Lex(K[i], K[j]) \/ (~Lex(K[j], K[i]) /\ i < j)}
  <2> TAKE j \in S
  <2>1. ASSUME NEW i \in S
        PROVE  <<i, j>> \in B <=> Lex(K[i], K[j]) \/ (~Lex(K[j], K[i]) /\ i < j)
    <3>1. i < j => i # j OBVIOUS
    <3> QED BY <1>1, <1>2, <3>1
  <2> QED BY <2>1 DEF Before
<1>5. t = [k \in S |-> q[CHOOSE j \in S : 1 + Cardinality(Before(B, S, j)) = k]]
  <2> DEFINE c(k) == CHOOSE j \in S :
                       1 + Cardinality({i \in S : Lex(K[i], K[j])
                                                   \/ (~Lex(K[j], K[i]) /\ i < j)}) = k
             d(k) == CHOOSE j \in S : 1 + Cardinality(Before(B, S, j)) = k
  <2>1. ASSUME NEW k \in S PROVE c(k) = d(k) BY <1>4
  <2>2. t = [k \in S |-> q[c(k)]] BY DEF SortKeys
  <2> HIDE DEF c, d
  <2>3. t = [k \in S |-> q[d(k)]] BY <2>1, <2>2
  <2> QED BY <2>3 DEF d
<1>6. t \in Seq(T) /\ Permuted(t, q, B)
  <2>1. RankSort(t, q, B) BY <1>5 DEF RankSort
  <2> QED BY <1>3, <2>1, SortedBy
<1>7. PICK o \in [S -> S] : /\ \A k \in S : t[k] = q[o[k]]
                            /\ \A i, j \in S : i < j => <<o[i], o[j]>> \in B
                            /\ \A x \in S : \E k \in S : o[k] = x
  BY <1>6 DEF Permuted
<1>8. Range(t) = Range(q)
  <2>1. DOMAIN t = S /\ DOMAIN q = S BY <1>6 DEF Permuted
  <2>2. \A k \in S : o[k] \in S OBVIOUS
  <2> QED BY <1>7, <2>1, <2>2 DEF Range
<1>9. \A i, j \in S : i < j => Lex(K[o[i]], K[o[j]]) BY <1>1, <1>7
<1> QED BY <1>6, <1>7, <1>8, <1>9 DEF Permuted, KeysAscend

-----------------------------------------------------------------------------
\* The three sorts.
Entry == [layer : Nat, target : Nat, seq : Nat]
Row == [name : Names, layer : Nat, target : Nat, seq : Nat]
Blanket == [layer : Names, seq : Nat]

LEMMA EntriesSorted ==
  ASSUME NEW q \in Seq(Entry),
         \A i, j \in 1 .. Len(q) : i # j => q[i].layer # q[j].layer \/ q[i].seq # q[j].seq
  PROVE  /\ StableSort(q, EntryLess) \in Seq(Entry)
         /\ Len(StableSort(q, EntryLess)) = Len(q)
         /\ Range(StableSort(q, EntryLess)) = Range(q)
         /\ \A i, j \in 1 .. Len(q) :
              i < j => EntryLess(StableSort(q, EntryLess)[i], StableSort(q, EntryLess)[j])
<1> DEFINE t == StableSort(q, EntryLess)
           S == 1 .. Len(q)
           K == [i \in S |-> <<q[i].layer, q[i].seq, 0>>]
<1>1. DOMAIN q = S /\ \A i \in S : q[i].layer \in Nat /\ q[i].seq \in Nat
  <2>1. DOMAIN q = S /\ \A i \in S : q[i] \in Entry OBVIOUS
  <2> QED BY <2>1 DEF Entry
<1>2. K \in [S -> Triple] BY <1>1 DEF Triple
<1>3. ASSUME NEW i \in S, NEW j \in S PROVE Lex(K[i], K[j]) <=> EntryLess(q[i], q[j])
  <2>1. K[i] = <<q[i].layer, q[i].seq, 0>> /\ K[j] = <<q[j].layer, q[j].seq, 0>> OBVIOUS
  <2>2. ~(0 < 0) OBVIOUS
  <2> HIDE DEF K
  <2> QED BY <2>1, <2>2 DEF Lex, EntryLess
<1>4. \A i, j \in S : i # j => K[i] # K[j] OBVIOUS
<1>5. SortKeys(t, q, K)
  <2> DEFINE c(k) == CHOOSE j \in S :
                       1 + Cardinality({i \in S : EntryLess(q[i], q[j])
                                           \/ (~EntryLess(q[j], q[i]) /\ i < j)}) = k
             d(k) == CHOOSE j \in S :
                       1 + Cardinality({i \in S : Lex(K[i], K[j])
                                           \/ (~Lex(K[j], K[i]) /\ i < j)}) = k
  <2>1. t = [k \in S |-> q[c(k)]] BY <1>1 DEF StableSort
  <2>2. \A k \in S : c(k) = d(k)
    <3>1. ASSUME NEW j \in S
          PROVE  {i \in S : EntryLess(q[i], q[j]) \/ (~EntryLess(q[j], q[i]) /\ i < j)}
                   = {i \in S : Lex(K[i], K[j]) \/ (~Lex(K[j], K[i]) /\ i < j)}
      <4> HIDE DEF K
      <4> QED BY <1>3
    <3> HIDE DEF K
    <3> QED BY <3>1
  <2> HIDE DEF c, d, K, t
  <2>3. t = [k \in S |-> q[d(k)]] BY <2>1, <2>2
  <2> QED BY <2>3 DEF SortKeys, d
<1> HIDE DEF K, t
<1>6. t \in Seq(Entry) /\ Len(t) = Len(q) /\ Range(t) = Range(q) /\ KeysAscend(t, q, K)
  BY <1>2, <1>4, <1>5, SortsByKey
<1>7. \A i, j \in S : i < j => EntryLess(t[i], t[j]) BY <1>3, <1>6 DEF KeysAscend
<1> QED BY <1>6, <1>7 DEF t

LEMMA ValuesSorted ==
  ASSUME NEW q \in Seq(Row),
         \A i, j \in 1 .. Len(q) :
           i # j => FoldOf[q[i].name] # FoldOf[q[j].name] \/ q[i].layer # q[j].layer
  PROVE  /\ StableSort(q, ValueLess) \in Seq(Row)
         /\ Len(StableSort(q, ValueLess)) = Len(q)
         /\ Range(StableSort(q, ValueLess)) = Range(q)
         /\ \A i, j \in 1 .. Len(q) :
              i < j => ValueLess(StableSort(q, ValueLess)[i], StableSort(q, ValueLess)[j])
<1> DEFINE t == StableSort(q, ValueLess)
           S == 1 .. Len(q)
           K == [i \in S |-> <<FoldOf[q[i].name], q[i].layer, q[i].seq>>]
<1>1. /\ DOMAIN q = S
      /\ \A i \in S : FoldOf[q[i].name] \in Nat /\ q[i].layer \in Nat /\ q[i].seq \in Nat
  <2>1. DOMAIN q = S /\ \A i \in S : q[i] \in Row OBVIOUS
  <2> QED BY <2>1, AnswersAssumption DEF Row
<1>2. K \in [S -> Triple] BY <1>1 DEF Triple
<1>3. ASSUME NEW i \in S, NEW j \in S PROVE Lex(K[i], K[j]) <=> ValueLess(q[i], q[j])
  <2>1. /\ K[i] = <<FoldOf[q[i].name], q[i].layer, q[i].seq>>
        /\ K[j] = <<FoldOf[q[j].name], q[j].layer, q[j].seq>>
    OBVIOUS
  <2> HIDE DEF K
  <2> QED BY <2>1 DEF Lex, ValueLess, EntryLess
<1>4. \A i, j \in S : i # j => K[i] # K[j] OBVIOUS
<1>5. SortKeys(t, q, K)
  <2> DEFINE c(k) == CHOOSE j \in S :
                       1 + Cardinality({i \in S : ValueLess(q[i], q[j])
                                           \/ (~ValueLess(q[j], q[i]) /\ i < j)}) = k
             d(k) == CHOOSE j \in S :
                       1 + Cardinality({i \in S : Lex(K[i], K[j])
                                           \/ (~Lex(K[j], K[i]) /\ i < j)}) = k
  <2>1. t = [k \in S |-> q[c(k)]] BY <1>1 DEF StableSort
  <2>2. \A k \in S : c(k) = d(k)
    <3>1. ASSUME NEW j \in S
          PROVE  {i \in S : ValueLess(q[i], q[j]) \/ (~ValueLess(q[j], q[i]) /\ i < j)}
                   = {i \in S : Lex(K[i], K[j]) \/ (~Lex(K[j], K[i]) /\ i < j)}
      <4> HIDE DEF K
      <4> QED BY <1>3
    <3> HIDE DEF K
    <3> QED BY <3>1
  <2> HIDE DEF c, d, K, t
  <2>3. t = [k \in S |-> q[d(k)]] BY <2>1, <2>2
  <2> QED BY <2>3 DEF SortKeys, d
<1> HIDE DEF K, t
<1>6. t \in Seq(Row) /\ Len(t) = Len(q) /\ Range(t) = Range(q) /\ KeysAscend(t, q, K)
  BY <1>2, <1>4, <1>5, SortsByKey
<1>7. \A i, j \in S : i < j => ValueLess(t[i], t[j]) BY <1>3, <1>6 DEF KeysAscend
<1> QED BY <1>6, <1>7 DEF t

LEMMA BlanketsSorted ==
  ASSUME NEW q \in Seq(Blanket),
         \A i, j \in 1 .. Len(q) : i # j => q[i].seq # q[j].seq
  PROVE  /\ StableSort(q, BlanketLess) \in Seq(Blanket)
         /\ Len(StableSort(q, BlanketLess)) = Len(q)
         /\ Range(StableSort(q, BlanketLess)) = Range(q)
         /\ \A i, j \in 1 .. Len(q) :
              i < j => BlanketLess(StableSort(q, BlanketLess)[i], StableSort(q, BlanketLess)[j])
<1> DEFINE t == StableSort(q, BlanketLess)
           S == 1 .. Len(q)
           K == [i \in S |-> <<FoldOf[q[i].layer], q[i].seq, 0>>]
<1>1. DOMAIN q = S /\ \A i \in S : FoldOf[q[i].layer] \in Nat /\ q[i].seq \in Nat
  <2>1. DOMAIN q = S /\ \A i \in S : q[i] \in Blanket OBVIOUS
  <2> QED BY <2>1, AnswersAssumption DEF Blanket
<1>2. K \in [S -> Triple] BY <1>1 DEF Triple
<1>3. ASSUME NEW i \in S, NEW j \in S PROVE Lex(K[i], K[j]) <=> BlanketLess(q[i], q[j])
  <2>1. K[i] = <<FoldOf[q[i].layer], q[i].seq, 0>> /\ K[j] = <<FoldOf[q[j].layer], q[j].seq, 0>> OBVIOUS
  <2>2. ~(0 < 0) OBVIOUS
  <2> HIDE DEF K
  <2> QED BY <2>1, <2>2 DEF Lex, BlanketLess
<1>4. \A i, j \in S : i # j => K[i] # K[j] OBVIOUS
<1>5. SortKeys(t, q, K)
  <2> DEFINE c(k) == CHOOSE j \in S :
                       1 + Cardinality({i \in S : BlanketLess(q[i], q[j])
                                           \/ (~BlanketLess(q[j], q[i]) /\ i < j)}) = k
             d(k) == CHOOSE j \in S :
                       1 + Cardinality({i \in S : Lex(K[i], K[j])
                                           \/ (~Lex(K[j], K[i]) /\ i < j)}) = k
  <2>1. t = [k \in S |-> q[c(k)]] BY <1>1 DEF StableSort
  <2>2. \A k \in S : c(k) = d(k)
    <3>1. ASSUME NEW j \in S
          PROVE  {i \in S : BlanketLess(q[i], q[j]) \/ (~BlanketLess(q[j], q[i]) /\ i < j)}
                   = {i \in S : Lex(K[i], K[j]) \/ (~Lex(K[j], K[i]) /\ i < j)}
      <4> HIDE DEF K
      <4> QED BY <1>3
    <3> HIDE DEF K
    <3> QED BY <3>1
  <2> HIDE DEF c, d, K, t
  <2>3. t = [k \in S |-> q[d(k)]] BY <2>1, <2>2
  <2> QED BY <2>3 DEF SortKeys, d
<1> HIDE DEF K, t
<1>6. t \in Seq(Blanket) /\ Len(t) = Len(q) /\ Range(t) = Range(q) /\ KeysAscend(t, q, K)
  BY <1>2, <1>4, <1>5, SortsByKey
<1>7. \A i, j \in S : i < j => BlanketLess(t[i], t[j]) BY <1>3, <1>6 DEF KeysAscend
<1> QED BY <1>6, <1>7 DEF t

-----------------------------------------------------------------------------
(* The inductive invariant: one part for each place of a call.             *)

\* What the request asks for, among the path entries and among the values.
Asked == Matching(hive.paths, asked.name)
AskedValues == Matching(hive.values, asked.name)

TargetsOf(rows) == {r.target : r \in rows} \ {Hidden}
FoldedAs(rows, f) == {r \in rows : FoldOf[r.name] = f}

\* Every variable has its type, also where it is not used any more.

AnswerTypes ==
  /\ hive \in Contents
  /\ todo \subseteq hive.paths \cup hive.values \cup hive.blankets
  /\ pc \in {"idle", "paths", "metadata", "values", "blankets", "answered"}
  /\ asked.op \in {"none", "lookup", "enum", "query"} /\ asked.name \in Names \cup {0}
  /\ DOMAIN groups \subseteq Nat
  /\ guids \subseteq TargetsOf(hive.paths)
  /\ meta \in Seq(TargetsOf(hive.paths)) /\ dangling \subseteq TargetsOf(hive.paths)
  /\ entries \in Seq(hive.values) /\ blankets \in Seq(hive.blankets)

\* Nothing is read before it is asked for, and nothing answered before the end.
Unasked ==
  /\ pc = "idle" => /\ groups = << >> /\ guids = {} /\ meta = <<>> /\ dangling = {}
                    /\ entries = <<>> /\ blankets = <<>>
  /\ pc # "answered" => response = NoAnswer
  /\ pc \in {"paths", "metadata"} => asked.op \in {"lookup", "enum"}
  /\ pc \in {"values", "blankets"} => asked.op = "query"

\* The rows of one folded name: their lowest spelling, and their entries.
Lists(name, q, rows) ==
  /\ name \in {r.name : r \in rows} /\ \A r \in rows : name <= r.name
  /\ q \in Seq(Entry) /\ Range(q) = EntriesOf(rows)

\* A group has one entry of each layer.
Groups(name, q, rows) ==
  /\ Lists(name, q, rows)
  /\ \A i, j \in DOMAIN q : i # j => q[i].layer # q[j].layer

\* The rows scanned so far are in their groups, their targets in guidSet.
PathsScanned ==
  pc = "paths" =>
    LET seen == Asked \ todo IN
    /\ todo \subseteq Asked
    /\ DOMAIN groups = {FoldOf[r.name] : r \in seen}
    /\ \A f \in DOMAIN groups : Groups(groups[f].name, groups[f].entries, FoldedAs(seen, f))
    /\ guids = TargetsOf(seen) /\ meta = <<>> /\ dangling = {}

\* The children are the groups in ascending order, each with its entries in order.
ChildrenOrdered ==
  pc = "metadata" =>
    /\ children \in Seq([name : Names, entries : Seq(Entry)])
    /\ \A i \in DOMAIN children :
         /\ Lists(children[i].name, children[i].entries,
                  FoldedAs(Asked, FoldOf[children[i].name]))
         /\ \A k, m \in DOMAIN children[i].entries :
              k < m => EntryLess(children[i].entries[k], children[i].entries[m])
    /\ \A i, j \in DOMAIN children :
         i < j => FoldOf[children[i].name] < FoldOf[children[j].name]
    /\ \A r \in Asked : \E i \in DOMAIN children : FoldOf[children[i].name] = FoldOf[r.name]

\* Every GUID asked for has its block, is dangling, or is a higher one yet to be read.
MetadataRead ==
  pc = "metadata" =>
    /\ guids \cup Range(meta) \cup dangling = TargetsOf(Asked)
    /\ Range(meta) \subseteq hive.keys /\ dangling \cap hive.keys = {}
    /\ \A i, j \in DOMAIN meta : i < j => meta[i] < meta[j]
    /\ \A i \in DOMAIN meta, g \in guids : meta[i] < g

Distinct(q) == \A i, j \in DOMAIN q : i # j => q[i] # q[j]

ValuesScanned ==
  pc = "values" => /\ todo \subseteq AskedValues /\ Range(entries) = AskedValues \ todo
                   /\ Distinct(entries) /\ blankets = <<>>

BlanketsScanned ==
  pc = "blankets" =>
    /\ Range(entries) = AskedValues
    /\ \A i, j \in DOMAIN entries : i < j => ValueLess(entries[i], entries[j])
    /\ todo \subseteq hive.blankets /\ Range(blankets) = hive.blankets \ todo
    /\ Distinct(blankets)

\* The answer, once it is there.
Answered ==
  pc = "answered" => /\ response.status \in {"OK", "StorageError"}
                     /\ ChildrenCanonical /\ SpellingStable /\ MetadataExact /\ ValuesCanonical

AnswersIInv ==
  /\ AnswerTypes /\ Unasked /\ PathsScanned /\ ChildrenOrdered /\ MetadataRead
  /\ ValuesScanned /\ BlanketsScanned /\ Answered

-----------------------------------------------------------------------------
\* What the assumption says of the hive that is read.
LEMMA HiveRows ==
  ASSUME hive \in Contents
  PROVE  /\ hive.paths \subseteq Row /\ hive.values \subseteq Row /\ hive.blankets \subseteq Blanket
         /\ IsFiniteSet(hive.paths) /\ Hidden \notin hive.keys
         /\ \A e, f \in hive.paths : FoldOf[e.name] = FoldOf[f.name] /\ e.layer = f.layer => e = f
         /\ \A v, w \in hive.values : FoldOf[v.name] = FoldOf[w.name] /\ v.layer = w.layer => v = w
         /\ \A x, y \in hive.blankets : x.seq = y.seq => x = y
         /\ Names \subseteq Nat \ {0} /\ \A n \in Names : FoldOf[n] \in Nat
<1>1. /\ \A r \in hive.paths \cup hive.values :
           r \in [name : Names, layer : Nat, target : Nat, seq : Nat]
      /\ \A b \in hive.blankets : b \in [layer : Names, seq : Nat]
      /\ IsFiniteSet(hive.paths)
      /\ \A e, f \in hive.paths : FoldOf[e.name] = FoldOf[f.name] /\ e.layer = f.layer => e = f
      /\ \A v, w \in hive.values : FoldOf[v.name] = FoldOf[w.name] /\ v.layer = w.layer => v = w
      /\ \A x, y \in hive.paths \cup hive.values \cup hive.blankets : x.seq = y.seq => x = y
      /\ Hidden \notin hive.keys
      /\ Names \subseteq Nat \ {0} /\ FoldOf \in [Names -> Nat]
  BY AnswersAssumption
<1> QED BY <1>1 DEF Row, Blanket

\* A list without repetitions stays one when something new is put at its end.
LEMMA AppendFresh ==
  ASSUME NEW T, NEW q \in Seq(T), NEW v \in T, v \notin Range(q), Distinct(q)
  PROVE  /\ Append(q, v) \in Seq(T) /\ Range(Append(q, v)) = Range(q) \cup {v}
         /\ Distinct(Append(q, v))
<1>1. /\ Append(q, v) \in Seq(T) /\ DOMAIN q = 1 .. Len(q) /\ Len(q) \in Nat
      /\ DOMAIN Append(q, v) = 1 .. Len(q) + 1
      /\ Append(q, v)[Len(q) + 1] = v
      /\ \A i \in 1 .. Len(q) : Append(q, v)[i] = q[i]
  OBVIOUS
<1>2. \A i \in 1 .. Len(q) + 1 : i \in 1 .. Len(q) \/ i = Len(q) + 1 BY <1>1
<1>3. \A i \in 1 .. Len(q) : i \in 1 .. Len(q) + 1 /\ i # Len(q) + 1 BY <1>1
<1>4. Len(q) + 1 \in 1 .. Len(q) + 1 BY <1>1
<1>5. Range(Append(q, v)) = Range(q) \cup {v}
  BY <1>1, <1>2, <1>3, <1>4 DEF Range
<1>6. Distinct(Append(q, v))
  <2> SUFFICES ASSUME NEW i \in 1 .. Len(q) + 1, NEW j \in 1 .. Len(q) + 1, i # j
               PROVE  Append(q, v)[i] # Append(q, v)[j]
    BY <1>1 DEF Distinct
  <2>1. CASE i \in 1 .. Len(q) /\ j \in 1 .. Len(q) BY <1>1, <2>1 DEF Distinct
  <2>2. CASE i = Len(q) + 1 \/ j = Len(q) + 1
    <3>1. \A k \in 1 .. Len(q) : q[k] # v BY <1>1 DEF Range
    <3> QED BY <1>1, <1>2, <2>2, <3>1
  <2> QED BY <1>2, <2>1, <2>2
<1> QED BY <1>1, <1>5, <1>6

\* Parts that speak of another place of the call.
LEMMA Elsewhere ==
  /\ pc # "paths" => PathsScanned
  /\ pc # "metadata" => ChildrenOrdered /\ MetadataRead
  /\ pc # "values" => ValuesScanned
  /\ pc # "blankets" => BlanketsScanned
  /\ pc # "answered" => Answered
BY DEF PathsScanned, ChildrenOrdered, MetadataRead, ValuesScanned, BlanketsScanned, Answered

LEMMA InitAnswers == AnswersInit => AnswersIInv
<1> SUFFICES ASSUME AnswersInit PROVE AnswersIInv OBVIOUS
<1>1. AnswerTypes BY DEF AnswersInit, AnswerTypes
<1>2. Unasked BY DEF AnswersInit, Unasked
<1> QED BY <1>1, <1>2, Elsewhere DEF AnswersInit, AnswersIInv

LEMMA AskKeeps == ASSUME AnswersIInv, Ask PROVE AnswersIInv'
<1>1. PICK a \in {[op |-> "lookup", name |-> n] : n \in Names}
                 \cup {[op |-> "enum", name |-> 0]}
                 \cup {[op |-> "query", name |-> n] : n \in Names \cup {0}} :
       /\ asked' = a
       /\ pc' = IF a.op = "query" THEN "values" ELSE "paths"
       /\ todo' = Matching(IF a.op = "query" THEN hive.values ELSE hive.paths, a.name)
  BY DEF Ask
<1>2. a.op \in {"lookup", "enum", "query"} /\ a.name \in Names \cup {0} OBVIOUS
<1>3. /\ pc = "idle" /\ UNCHANGED <<hive, groups, children, entries, blankets, guids, meta, dangling,
                                    response>>
      /\ pc' \in {"values", "paths"}
      /\ AnswerTypes /\ Unasked
  BY <1>1 DEF Ask, rowVars, metaVars, AnswersIInv
<1>4. AnswerTypes'
  <2>1. todo' \subseteq hive.paths \cup hive.values BY <1>1 DEF Matching
  <2> QED BY <1>1, <1>2, <1>3, <2>1 DEF AnswerTypes
<1>5. Unasked' BY <1>1, <1>2, <1>3 DEF Unasked
<1>6. PathsScanned'
  <2> SUFFICES ASSUME pc' = "paths" PROVE PathsScanned' BY DEF PathsScanned
  <2>1. todo' = Asked' BY <1>1, <1>3 DEF Asked
  <2>2. groups' = << >> /\ guids' = {} /\ meta' = <<>> /\ dangling' = {} BY <1>3 DEF Unasked
  <2> QED BY <2>1, <2>2 DEF PathsScanned, TargetsOf
<1>7. ValuesScanned'
  <2> SUFFICES ASSUME pc' = "values" PROVE ValuesScanned' BY DEF ValuesScanned
  <2>1. todo' = AskedValues' BY <1>1, <1>3 DEF AskedValues
  <2>2. entries' = <<>> /\ blankets' = <<>> BY <1>3 DEF Unasked
  <2> QED BY <2>1, <2>2 DEF ValuesScanned, Range, Distinct
<1>8. ChildrenOrdered' /\ MetadataRead' /\ BlanketsScanned' /\ Answered'
  BY <1>3 DEF ChildrenOrdered, MetadataRead, BlanketsScanned, Answered
<1> QED BY <1>4, <1>5, <1>6, <1>7, <1>8 DEF AnswersIInv

LEMMA ScanValueKeeps == ASSUME AnswersIInv, NEW v \in todo, ScanValue(v) PROVE AnswersIInv'
<1>1. /\ pc = "values" /\ pc' = "values" /\ entries' = Append(entries, v) /\ todo' = todo \ {v}
      /\ UNCHANGED <<hive, asked, groups, children, blankets, guids, meta, dangling, response>>
      /\ AnswerTypes /\ Unasked /\ ValuesScanned
  BY DEF ScanValue, metaVars, AnswersIInv
<1>2. /\ entries \in Seq(hive.values) /\ v \in hive.values /\ v \notin Range(entries)
      /\ Distinct(entries)
  BY <1>1 DEF AnswerTypes, ValuesScanned, AskedValues, Matching
<1>3. /\ entries' \in Seq(hive.values) /\ Range(entries') = Range(entries) \cup {v}
      /\ Distinct(entries')
  BY <1>1, <1>2, AppendFresh
<1>4. AnswerTypes' BY <1>1, <1>3 DEF AnswerTypes
<1>5. Unasked' BY <1>1 DEF Unasked
<1>6. ValuesScanned' BY <1>1, <1>3 DEF ValuesScanned, AskedValues, Distinct
<1>7. PathsScanned' /\ ChildrenOrdered' /\ MetadataRead' /\ BlanketsScanned' /\ Answered'
  BY <1>1 DEF PathsScanned, ChildrenOrdered, MetadataRead, BlanketsScanned, Answered
<1> QED BY <1>4, <1>5, <1>6, <1>7 DEF AnswersIInv

LEMMA ScanBlanketKeeps == ASSUME AnswersIInv, NEW b \in todo, ScanBlanket(b) PROVE AnswersIInv'
<1>1. /\ pc = "blankets" /\ pc' = "blankets" /\ blankets' = Append(blankets, b) /\ todo' = todo \ {b}
      /\ UNCHANGED <<hive, asked, groups, children, entries, guids, meta, dangling, response>>
      /\ AnswerTypes /\ Unasked /\ BlanketsScanned
  BY DEF ScanBlanket, metaVars, AnswersIInv
<1>2. /\ blankets \in Seq(hive.blankets) /\ b \in hive.blankets /\ b \notin Range(blankets)
      /\ Distinct(blankets)
  BY <1>1 DEF AnswerTypes, BlanketsScanned
<1>3. /\ blankets' \in Seq(hive.blankets) /\ Range(blankets') = Range(blankets) \cup {b}
      /\ Distinct(blankets')
  BY <1>1, <1>2, AppendFresh
<1>4. AnswerTypes' BY <1>1, <1>3 DEF AnswerTypes
<1>5. Unasked' BY <1>1 DEF Unasked
<1>6. BlanketsScanned'
  BY <1>1, <1>3 DEF BlanketsScanned, AskedValues, Distinct, ValueLess, EntryLess
<1>7. PathsScanned' /\ ChildrenOrdered' /\ MetadataRead' /\ ValuesScanned' /\ Answered'
  BY <1>1 DEF PathsScanned, ChildrenOrdered, MetadataRead, ValuesScanned, Answered
<1> QED BY <1>4, <1>5, <1>6, <1>7 DEF AnswersIInv

\* A sequence whose elements are all in U is a sequence over U.
LEMMA SeqInto ==
  ASSUME NEW T, NEW U, NEW q \in Seq(T), Range(q) \subseteq U
  PROVE  q \in Seq(U)
BY DEF Range

LEMMA OrderValuesKeeps == ASSUME AnswersIInv, OrderValues PROVE AnswersIInv'
<1> DEFINE t == StableSort(entries, ValueLess)
<1>1. /\ pc = "values" /\ todo = {} /\ pc' = "blankets" /\ entries' = t /\ todo' = hive.blankets
      /\ UNCHANGED <<hive, asked, groups, children, blankets, guids, meta, dangling, response>>
      /\ AnswerTypes /\ Unasked /\ ValuesScanned
  BY DEF OrderValues, metaVars, AnswersIInv
<1> HIDE DEF t
<1>2. /\ entries \in Seq(hive.values) /\ Range(entries) = AskedValues /\ Distinct(entries)
      /\ blankets = <<>> /\ hive \in Contents
  BY <1>1 DEF AnswerTypes, ValuesScanned
<1>3. Range(entries) \subseteq Row /\ entries \in Seq(Row)
  <2>1. Range(entries) \subseteq Row BY <1>2, HiveRows DEF AskedValues, Matching
  <2> QED BY <1>2, <2>1, SeqInto
<1>4. \A i, j \in 1 .. Len(entries) :
        i # j => FoldOf[entries[i].name] # FoldOf[entries[j].name]
                   \/ entries[i].layer # entries[j].layer
  <2>1. DOMAIN entries = 1 .. Len(entries) BY <1>2
  <2>2. \A i \in 1 .. Len(entries) : entries[i] \in hive.values BY <1>2
  <2> QED BY <1>2, <2>1, <2>2, HiveRows DEF Distinct
<1>5. /\ t \in Seq(Row) /\ Len(t) = Len(entries) /\ Range(t) = Range(entries)
      /\ \A i, j \in 1 .. Len(entries) : i < j => ValueLess(t[i], t[j])
  BY <1>3, <1>4, ValuesSorted DEF t
<1>6. t \in Seq(hive.values) /\ DOMAIN t = 1 .. Len(entries)
  <2>1. Range(t) \subseteq hive.values BY <1>2, <1>5 DEF AskedValues, Matching
  <2> QED BY <1>5, <2>1, SeqInto
<1>7. AnswerTypes' BY <1>1, <1>6 DEF AnswerTypes
<1>8. Unasked' BY <1>1 DEF Unasked
<1>9. BlanketsScanned'
  <2>1. AskedValues' = AskedValues BY <1>1 DEF AskedValues, Matching
  <2>2. Range(blankets') = {} /\ Distinct(blankets') BY <1>1, <1>2 DEF Range, Distinct
  <2>3. \A i, j \in DOMAIN entries' : i < j => ValueLess(entries'[i], entries'[j])
    BY <1>1, <1>5, <1>6
  <2> QED BY <1>1, <1>2, <1>5, <2>1, <2>2, <2>3 DEF BlanketsScanned, ValueLess, EntryLess
<1>10. PathsScanned' /\ ChildrenOrdered' /\ MetadataRead' /\ ValuesScanned' /\ Answered'
  BY <1>1 DEF PathsScanned, ChildrenOrdered, MetadataRead, ValuesScanned, Answered
<1> QED BY <1>7, <1>8, <1>9, <1>10 DEF AnswersIInv

LEMMA AnswerValuesKeeps == ASSUME AnswersIInv, AnswerValues PROVE AnswersIInv'
<1> DEFINE t == StableSort(blankets, BlanketLess)
<1>1. /\ pc = "blankets" /\ todo = {} /\ pc' = "answered"
      /\ response' = [status |-> "OK", entries |-> entries, blankets |-> t]
      /\ UNCHANGED <<hive, asked, todo, groups, children, entries, blankets, guids, meta, dangling>>
      /\ AnswerTypes /\ Unasked /\ BlanketsScanned
  BY DEF AnswerValues, rowVars, metaVars, AnswersIInv
<1> HIDE DEF t
<1>2. /\ blankets \in Seq(hive.blankets) /\ Range(blankets) = hive.blankets /\ Distinct(blankets)
      /\ hive \in Contents /\ entries \in Seq(hive.values) /\ Range(entries) = AskedValues
      /\ \A i, j \in DOMAIN entries : i < j => ValueLess(entries[i], entries[j])
  BY <1>1 DEF AnswerTypes, BlanketsScanned
<1>3. blankets \in Seq(Blanket)
  <2>1. Range(blankets) \subseteq Blanket BY <1>2, HiveRows
  <2> QED BY <1>2, <2>1, SeqInto
<1>4. \A i, j \in 1 .. Len(blankets) : i # j => blankets[i].seq # blankets[j].seq
  <2>1. DOMAIN blankets = 1 .. Len(blankets) BY <1>2
  <2>2. \A i \in 1 .. Len(blankets) : blankets[i] \in hive.blankets BY <1>2
  <2> QED BY <1>2, <2>1, <2>2, HiveRows DEF Distinct
<1>5. /\ t \in Seq(Blanket) /\ Len(t) = Len(blankets) /\ Range(t) = Range(blankets)
      /\ \A i, j \in 1 .. Len(blankets) : i < j => BlanketLess(t[i], t[j])
  BY <1>3, <1>4, BlanketsSorted DEF t
<1>6. \A i, j \in DOMAIN entries :
        i < j => \/ FoldOf[entries[i].name] < FoldOf[entries[j].name]
                 \/ /\ FoldOf[entries[i].name] = FoldOf[entries[j].name]
                    /\ entries[i].layer < entries[j].layer
  <2> SUFFICES ASSUME NEW i \in DOMAIN entries, NEW j \in DOMAIN entries, i < j
               PROVE  \/ FoldOf[entries[i].name] < FoldOf[entries[j].name]
                      \/ /\ FoldOf[entries[i].name] = FoldOf[entries[j].name]
                         /\ entries[i].layer < entries[j].layer
    OBVIOUS
  <2>1. entries[i] \in hive.values /\ entries[j] \in hive.values BY <1>2
  <2>2. entries[i] \in Row /\ entries[j] \in Row BY <1>2, <2>1, HiveRows
  <2>3. ValueLess(entries[i], entries[j]) BY <1>2
  <2>4. CASE FoldOf[entries[i].name] = FoldOf[entries[j].name] /\ entries[i].layer = entries[j].layer
    <3>1. entries[i] = entries[j] BY <1>2, <2>1, <2>4, HiveRows
    <3>2. entries[i].seq \in Nat /\ entries[i].layer \in Nat /\ entries[i].name \in Names
      BY <2>2 DEF Row
    <3>3. FoldOf[entries[i].name] \in Nat BY <1>2, <3>2, HiveRows
    <3>4. ~(entries[i].seq < entries[i].seq) /\ ~(entries[i].layer < entries[i].layer)
          /\ ~(FoldOf[entries[i].name] < FoldOf[entries[i].name])
      BY <3>2, <3>3
    <3> QED BY <2>3, <3>1, <3>4 DEF ValueLess, EntryLess
  <2> QED BY <2>3, <2>4 DEF ValueLess, EntryLess
<1>7. AnswerTypes' BY <1>1 DEF AnswerTypes
<1>8. Unasked' BY <1>1 DEF Unasked
<1>9. Answered'
  <2>1. /\ response'.status = "OK" /\ response'.entries = entries /\ response'.blankets = t
        /\ asked'.op = "query" /\ hive' = hive /\ asked' = asked
    BY <1>1 DEF Unasked
  <2>2. ~PathAnswer' BY <2>1 DEF PathAnswer
  <2>3. DOMAIN t = 1 .. Len(blankets) BY <1>5
  <2>4. \A i, j \in DOMAIN t :
          i < j => \/ FoldOf[t[i].layer] < FoldOf[t[j].layer]
                   \/ FoldOf[t[i].layer] = FoldOf[t[j].layer] /\ t[i].seq < t[j].seq
    BY <1>5, <2>3 DEF BlanketLess
  <2>5. ValuesCanonical'
    BY <1>2, <1>5, <1>6, <2>1, <2>4 DEF ValuesCanonical, Ascending, AskedValues
  <2> QED BY <2>1, <2>2, <2>5 DEF Answered, ChildrenCanonical, SpellingStable, MetadataExact
<1>10. PathsScanned' /\ ChildrenOrdered' /\ MetadataRead' /\ ValuesScanned' /\ BlanketsScanned'
  BY <1>1 DEF PathsScanned, ChildrenOrdered, MetadataRead, ValuesScanned, BlanketsScanned
<1> QED BY <1>7, <1>8, <1>9, <1>10 DEF AnswersIInv

LEMMA FailKeeps == ASSUME AnswersIInv, Fail PROVE AnswersIInv'
<1>1. /\ pc' = "answered" /\ response' = [status |-> "StorageError"]
      /\ UNCHANGED <<hive, asked, todo, groups, children, entries, blankets, guids, meta, dangling>>
      /\ AnswerTypes
  BY DEF Fail, rowVars, metaVars, AnswersIInv
<1>2. AnswerTypes' BY <1>1 DEF AnswerTypes
<1>3. Unasked' BY <1>1 DEF Unasked
<1>4. Answered'
  BY <1>1 DEF Answered, ChildrenCanonical, SpellingStable, MetadataExact, ValuesCanonical, PathAnswer
<1>5. PathsScanned' /\ ChildrenOrdered' /\ MetadataRead' /\ ValuesScanned' /\ BlanketsScanned'
  BY <1>1 DEF PathsScanned, ChildrenOrdered, MetadataRead, ValuesScanned, BlanketsScanned
<1> QED BY <1>2, <1>3, <1>4, <1>5 DEF AnswersIInv

LEMMA StutterKeeps == ASSUME AnswersIInv, UNCHANGED answersVars PROVE AnswersIInv'
<1>1. UNCHANGED <<hive, pc, asked, todo, groups, children, entries, blankets, guids, meta, dangling,
                  response>>
  BY DEF answersVars, rowVars, metaVars
<1>2. AnswerTypes' /\ Unasked' BY <1>1 DEF AnswersIInv, AnswerTypes, Unasked
<1>0. Asked' = Asked /\ Live' = Live /\ PathAnswer' = PathAnswer
  BY <1>1 DEF Asked, Live, PathAnswer, Matching
<1>3. PathsScanned' BY <1>0, <1>1 DEF AnswersIInv, PathsScanned
<1>4. ChildrenOrdered' BY <1>0, <1>1 DEF AnswersIInv, ChildrenOrdered
<1>5. MetadataRead' BY <1>1 DEF AnswersIInv, MetadataRead, Asked, Matching
<1>6. ValuesScanned' BY <1>1 DEF AnswersIInv, ValuesScanned, AskedValues, Distinct
<1>7. BlanketsScanned'
  BY <1>1 DEF AnswersIInv, BlanketsScanned, AskedValues, Distinct, ValueLess, EntryLess
<1>8. Answered'
  <2>1. ChildrenCanonical => ChildrenCanonical'
    BY <1>0, <1>1 DEF ChildrenCanonical
  <2>2. SpellingStable => SpellingStable' BY <1>1 DEF SpellingStable, PathAnswer, Matching
  <2>3. MetadataExact => MetadataExact' BY <1>1 DEF MetadataExact, PathAnswer, Ascending
  <2>4. ValuesCanonical => ValuesCanonical' BY <1>1 DEF ValuesCanonical, Ascending, Matching
  <2> QED BY <1>1, <2>1, <2>2, <2>3, <2>4 DEF AnswersIInv, Answered
<1> QED BY <1>2, <1>3, <1>4, <1>5, <1>6, <1>7, <1>8 DEF AnswersIInv

LEMMA TargetsNumbers == ASSUME hive \in Contents PROVE TargetsOf(hive.paths) \subseteq Nat
BY HiveRows DEF TargetsOf, Row

LEMMA ReadKeyMetaKeeps == ASSUME AnswersIInv, ReadKeyMeta PROVE AnswersIInv'
<1> DEFINE g == Min(guids)
<1>1. /\ pc = "metadata" /\ pc' = "metadata" /\ guids # {} /\ guids' = guids \ {g}
      /\ IF g \in hive.keys THEN meta' = Append(meta, g) /\ UNCHANGED dangling
                            ELSE dangling' = dangling \cup {g} /\ UNCHANGED meta
      /\ UNCHANGED <<hive, asked, todo, groups, children, entries, blankets, response>>
      /\ AnswerTypes /\ Unasked /\ ChildrenOrdered /\ MetadataRead
  BY DEF ReadKeyMeta, rowVars, AnswersIInv
<1>2. /\ guids \subseteq TargetsOf(hive.paths) /\ meta \in Seq(TargetsOf(hive.paths))
      /\ dangling \subseteq TargetsOf(hive.paths) /\ TargetsOf(hive.paths) \subseteq Nat
  BY <1>1, TargetsNumbers DEF AnswerTypes
<1>3. g \in guids /\ \A h \in guids : g <= h
  <2>1. \E m \in guids : \A h \in guids : m <= h BY <1>1, <1>2, LeastNumber
  <2> QED BY <2>1 DEF Min
<1> HIDE DEF g
<1>4. g \in Nat /\ \A h \in guids \ {g} : g < h
  <2>1. g \in Nat BY <1>2, <1>3
  <2>2. ASSUME NEW h \in guids \ {g} PROVE g < h
    <3>1. h \in Nat /\ g <= h /\ h # g BY <1>2, <1>3
    <3> QED BY <2>1, <3>1
  <2> QED BY <2>1, <2>2
<1>5. Asked' = Asked BY <1>1 DEF Asked, Matching
<1>6. /\ guids \cup Range(meta) \cup dangling = TargetsOf(Asked)
      /\ Range(meta) \subseteq hive.keys /\ dangling \cap hive.keys = {}
      /\ \A i, j \in DOMAIN meta : i < j => meta[i] < meta[j]
      /\ \A i \in DOMAIN meta, h \in guids : meta[i] < h
  BY <1>1 DEF MetadataRead
<1>7. ChildrenOrdered' BY <1>1, <1>5 DEF ChildrenOrdered
<1>8. Unasked' BY <1>1 DEF Unasked
<1>9. PathsScanned' /\ ValuesScanned' /\ BlanketsScanned' /\ Answered'
  BY <1>1 DEF PathsScanned, ValuesScanned, BlanketsScanned, Answered
<1>10. CASE g \in hive.keys
  <2>1. meta' = Append(meta, g) /\ dangling' = dangling BY <1>1, <1>10
  <2>2. /\ meta' \in Seq(TargetsOf(hive.paths)) /\ DOMAIN meta = 1 .. Len(meta) /\ Len(meta) \in Nat
        /\ DOMAIN meta' = 1 .. Len(meta) + 1 /\ meta'[Len(meta) + 1] = g
        /\ \A i \in 1 .. Len(meta) : meta'[i] = meta[i]
    <3>1. g \in TargetsOf(hive.paths) BY <1>2, <1>3
    <3> QED BY <1>2, <2>1, <3>1
  <2>3. \A i \in 1 .. Len(meta) + 1 : i \in 1 .. Len(meta) \/ i = Len(meta) + 1 BY <2>2
  <2>4. Range(meta') = Range(meta) \cup {g}
    <3>1. \A i \in 1 .. Len(meta) : i \in 1 .. Len(meta) + 1 BY <2>2
    <3>2. Len(meta) + 1 \in 1 .. Len(meta) + 1 BY <2>2
    <3> QED BY <2>2, <2>3, <3>1, <3>2 DEF Range
  <2>5. \A i, j \in DOMAIN meta' : i < j => meta'[i] < meta'[j]
    <3> SUFFICES ASSUME NEW i \in 1 .. Len(meta) + 1, NEW j \in 1 .. Len(meta) + 1, i < j
                 PROVE  meta'[i] < meta'[j]
      BY <2>2
    <3>1. i \in 1 .. Len(meta) BY <2>2
    <3>2. CASE j \in 1 .. Len(meta) BY <1>6, <2>2, <3>1, <3>2
    <3>3. CASE j = Len(meta) + 1 BY <1>3, <1>6, <2>2, <3>1, <3>3
    <3> QED BY <2>3, <3>2, <3>3
  <2>6. \A i \in DOMAIN meta', h \in guids' : meta'[i] < h
    <3> SUFFICES ASSUME NEW i \in 1 .. Len(meta) + 1, NEW h \in guids \ {g}
                 PROVE  meta'[i] < h
      BY <1>1, <2>2
    <3>1. CASE i \in 1 .. Len(meta) BY <1>6, <2>2, <3>1
    <3>2. CASE i = Len(meta) + 1 BY <1>4, <2>2, <3>2
    <3> QED BY <2>3, <3>1, <3>2
  <2>7. MetadataRead'
    <3>1. guids' \cup Range(meta') \cup dangling' = TargetsOf(Asked') BY <1>1, <1>3, <1>5, <1>6, <2>1, <2>4
    <3> QED BY <1>1, <1>6, <1>10, <2>1, <2>4, <2>5, <2>6, <3>1 DEF MetadataRead
  <2>8. AnswerTypes' BY <1>1, <2>1, <2>2 DEF AnswerTypes
  <2> QED BY <1>7, <1>8, <1>9, <2>7, <2>8 DEF AnswersIInv
<1>11. CASE g \notin hive.keys
  <2>1. meta' = meta /\ dangling' = dangling \cup {g} BY <1>1, <1>11
  <2>2. guids' \cup Range(meta') \cup dangling' = TargetsOf(Asked') BY <1>1, <1>3, <1>5, <1>6, <2>1
  <2>3. MetadataRead' BY <1>1, <1>6, <1>11, <2>1, <2>2 DEF MetadataRead
  <2>4. AnswerTypes' BY <1>1, <1>2, <1>3, <2>1 DEF AnswerTypes
  <2> QED BY <1>7, <1>8, <1>9, <2>3, <2>4 DEF AnswersIInv
<1> QED BY <1>10, <1>11

\* A row that is scanned joins its group, and the lower spelling stays.
LEMMA GroupGrows ==
  ASSUME hive \in Contents, NEW rows \in SUBSET hive.paths, NEW r \in hive.paths, r \notin rows,
         \A x \in rows : FoldOf[x.name] = FoldOf[r.name],
         NEW name, NEW q, Groups(name, q, rows), NEW e,
         e = [layer |-> r.layer, target |-> r.target, seq |-> r.seq]
  PROVE  Groups(IF r.name < name THEN r.name ELSE name, Append(q, e), rows \cup {r})
<1>1. r \in Row /\ e \in Entry /\ EntriesOf(rows \cup {r}) = EntriesOf(rows) \cup {e}
  <2>1. r \in Row BY HiveRows
  <2> QED BY <2>1 DEF Row, Entry, EntriesOf
<1>2. /\ name \in {x.name : x \in rows} /\ \A x \in rows : name <= x.name
      /\ q \in Seq(Entry) /\ Range(q) = EntriesOf(rows)
      /\ \A i, j \in DOMAIN q : i # j => q[i].layer # q[j].layer
  BY DEF Groups, Lists
<1>3. ASSUME NEW i \in DOMAIN q PROVE q[i].layer # r.layer
  <2>1. q[i] \in EntriesOf(rows) BY <1>2 DEF Range
  <2>2. PICK x \in rows : q[i] = [layer |-> x.layer, target |-> x.target, seq |-> x.seq]
    BY <2>1 DEF EntriesOf
  <2>3. x \in hive.paths /\ x # r /\ FoldOf[x.name] = FoldOf[r.name] OBVIOUS
  <2>4. x.layer # r.layer BY <2>3, HiveRows
  <2> QED BY <2>2, <2>4
<1>4. /\ Append(q, e) \in Seq(Entry) /\ DOMAIN q = 1 .. Len(q) /\ Len(q) \in Nat
      /\ DOMAIN Append(q, e) = 1 .. Len(q) + 1 /\ Append(q, e)[Len(q) + 1] = e
      /\ \A i \in 1 .. Len(q) : Append(q, e)[i] = q[i]
  BY <1>1, <1>2
<1>5. Range(Append(q, e)) = Range(q) \cup {e}
  <2>1. \A i \in 1 .. Len(q) + 1 : i \in 1 .. Len(q) \/ i = Len(q) + 1 BY <1>4
  <2>2. \A i \in 1 .. Len(q) : i \in 1 .. Len(q) + 1 BY <1>4
  <2>3. Len(q) + 1 \in 1 .. Len(q) + 1 BY <1>4
  <2> QED BY <1>4, <2>1, <2>2, <2>3 DEF Range
<1>6. \A i, j \in DOMAIN Append(q, e) : i # j => Append(q, e)[i].layer # Append(q, e)[j].layer
  <2> SUFFICES ASSUME NEW i \in 1 .. Len(q) + 1, NEW j \in 1 .. Len(q) + 1, i # j
               PROVE  Append(q, e)[i].layer # Append(q, e)[j].layer
    BY <1>4
  <2>0. e.layer = r.layer OBVIOUS
  <2>1. CASE i \in 1 .. Len(q) /\ j \in 1 .. Len(q) BY <1>2, <1>4, <2>1
  <2>2. CASE i = Len(q) + 1 /\ j \in 1 .. Len(q) BY <1>3, <1>4, <2>0, <2>2
  <2>3. CASE j = Len(q) + 1 /\ i \in 1 .. Len(q) BY <1>3, <1>4, <2>0, <2>3
  <2>4. \A k \in 1 .. Len(q) + 1 : k \in 1 .. Len(q) \/ k = Len(q) + 1 BY <1>4
  <2> QED BY <2>1, <2>2, <2>3, <2>4
<1>7. \A x \in rows \cup {r} : x.name \in Nat
  <2>1. \A x \in rows \cup {r} : x \in Row BY HiveRows
  <2> QED BY <2>1, HiveRows DEF Row
<1> DEFINE low == IF r.name < name THEN r.name ELSE name
<1>8. low \in {x.name : x \in rows \cup {r}} /\ \A x \in rows \cup {r} : low <= x.name
  <2>1. name \in Nat BY <1>2, <1>7
  <2> QED BY <1>2, <1>7, <2>1
<1> HIDE DEF low
<1>9. Groups(low, Append(q, e), rows \cup {r}) BY <1>1, <1>2, <1>4, <1>5, <1>6, <1>8 DEF Groups, Lists
<1> QED BY <1>9 DEF low

\* The first row of a name starts its group.
LEMMA GroupStarts ==
  ASSUME hive \in Contents, NEW r \in hive.paths, NEW e,
         e = [layer |-> r.layer, target |-> r.target, seq |-> r.seq]
  PROVE  Groups(r.name, <<e>>, {r})
<1>1. r \in Row BY HiveRows
<1>2. r.name \in Nat /\ e \in Entry BY <1>1, HiveRows DEF Row, Entry
<1>3. <<e>> \in Seq(Entry) /\ DOMAIN <<e>> = {1} /\ <<e>>[1] = e BY <1>2
<1>4. Range(<<e>>) = EntriesOf({r}) BY <1>3 DEF Range, EntriesOf
<1> QED BY <1>2, <1>3, <1>4 DEF Groups, Lists

LEMMA ScanPathKeeps == ASSUME AnswersIInv, NEW r \in todo, ScanPath(r) PROVE AnswersIInv'
<1> DEFINE folded == FoldOf[r.name]
           entry == [layer |-> r.layer, target |-> r.target, seq |-> r.seq]
           group == IF folded \in DOMAIN groups
                    THEN [name |-> LowerSpelling(groups[folded], r.name),
                          entries |-> Append(groups[folded].entries, entry)]
                    ELSE [name |-> r.name, entries |-> <<entry>>]
           seen == Asked \ todo
<1>1. /\ pc = "paths" /\ pc' = "paths" /\ guids' = guids \cup Referenced(r) /\ todo' = todo \ {r}
      /\ groups' = [f \in DOMAIN groups \cup {folded} |-> IF f = folded THEN group ELSE groups[f]]
      /\ UNCHANGED <<hive, asked, children, meta, dangling, entries, blankets, response>>
      /\ AnswerTypes /\ Unasked /\ PathsScanned
  BY DEF ScanPath, AnswersIInv
<1> HIDE DEF group
<1>2. hive \in Contents /\ r \in Asked /\ Asked \subseteq hive.paths /\ r \in Row /\ r \in hive.paths
  <2>1. hive \in Contents /\ r \in Asked /\ Asked \subseteq hive.paths
    BY <1>1 DEF PathsScanned, Asked, Matching, AnswerTypes
  <2> QED BY <2>1, HiveRows
<1>3. folded \in Nat /\ r.target \in Nat BY <1>2, HiveRows DEF Row
<1>4. Asked' = Asked /\ Asked' \ todo' = seen \cup {r}
  <2>1. Asked' = Asked BY <1>1 DEF Asked, Matching
  <2> QED BY <1>1, <1>2, <2>1
<1>5. /\ todo \subseteq Asked /\ DOMAIN groups = {FoldOf[x.name] : x \in seen}
      /\ \A f \in DOMAIN groups : Groups(groups[f].name, groups[f].entries, FoldedAs(seen, f))
      /\ guids = TargetsOf(seen) /\ meta = <<>> /\ dangling = {}
  BY <1>1 DEF PathsScanned
<1>6. r \notin seen /\ seen \subseteq hive.paths BY <1>2
<1> HIDE DEF seen
<1>7. DOMAIN groups' = {FoldOf[x.name] : x \in seen \cup {r}} BY <1>1, <1>5
<1>8. Groups(group.name, group.entries, FoldedAs(seen \cup {r}, folded))
  <2>1. FoldedAs(seen \cup {r}, folded) = FoldedAs(seen, folded) \cup {r} BY DEF FoldedAs
  <2>2. CASE folded \in DOMAIN groups
    <3> DEFINE rows == FoldedAs(seen, folded)
               name == groups[folded].name
               q == groups[folded].entries
    <3>1. group.name = (IF r.name < name THEN r.name ELSE name) /\ group.entries = Append(q, entry)
      BY <2>2 DEF group, LowerSpelling
    <3>2. Groups(name, q, rows) BY <1>5, <2>2
    <3>3. /\ rows \in SUBSET hive.paths /\ r \notin rows
          /\ \A x \in rows : FoldOf[x.name] = FoldOf[r.name]
      BY <1>6 DEF FoldedAs
    <3> DEFINE e == entry
    <3>4. e = [layer |-> r.layer, target |-> r.target, seq |-> r.seq] OBVIOUS
    <3> HIDE DEF rows, name, q, e
    <3>5. Groups(IF r.name < name THEN r.name ELSE name, Append(q, e), rows \cup {r})
      BY <1>2, <3>2, <3>3, <3>4, GroupGrows
    <3> QED BY <2>1, <3>1, <3>5 DEF rows, e
  <2>3. CASE folded \notin DOMAIN groups
    <3>1. FoldedAs(seen, folded) = {} BY <1>5, <2>3 DEF FoldedAs
    <3>2. group.name = r.name /\ group.entries = <<entry>> BY <2>3 DEF group
    <3> DEFINE e == entry
    <3>3. e = [layer |-> r.layer, target |-> r.target, seq |-> r.seq] OBVIOUS
    <3> HIDE DEF e
    <3>4. Groups(r.name, <<e>>, {r}) BY <1>2, <3>3, GroupStarts
    <3> QED BY <2>1, <3>1, <3>2, <3>4 DEF e
  <2> QED BY <2>2, <2>3
<1>9. ASSUME NEW f \in DOMAIN groups'
      PROVE  Groups(groups'[f].name, groups'[f].entries, FoldedAs(seen \cup {r}, f))
  <2>1. CASE f = folded
    <3>1. groups'[f] = group BY <1>1, <2>1
    <3> QED BY <1>8, <2>1, <3>1
  <2>2. CASE f # folded
    <3>1. groups'[f] = groups[f] /\ f \in DOMAIN groups BY <1>1, <2>2
    <3>2. FoldedAs(seen \cup {r}, f) = FoldedAs(seen, f) BY <2>2 DEF FoldedAs
    <3> QED BY <1>5, <3>1, <3>2
  <2> QED BY <2>1, <2>2
<1>10. guids' = TargetsOf(seen \cup {r}) BY <1>1, <1>5 DEF TargetsOf, Referenced
<1>11. PathsScanned'
  BY <1>1, <1>4, <1>5, <1>7, <1>9, <1>10 DEF PathsScanned
<1>12. AnswerTypes'
  <2>1. DOMAIN groups' \subseteq Nat BY <1>1, <1>3 DEF AnswerTypes
  <2>2. guids' \subseteq TargetsOf(hive.paths) BY <1>2, <1>6, <1>10 DEF TargetsOf
  <2> QED BY <1>1, <2>1, <2>2 DEF AnswerTypes
<1>13. Unasked' BY <1>1 DEF Unasked
<1>14. ChildrenOrdered' /\ MetadataRead' /\ ValuesScanned' /\ BlanketsScanned' /\ Answered'
  BY <1>1 DEF ChildrenOrdered, MetadataRead, ValuesScanned, BlanketsScanned, Answered
<1> QED BY <1>11, <1>12, <1>13, <1>14 DEF AnswersIInv

LEMMA OrderChildrenKeeps == ASSUME AnswersIInv, OrderChildren PROVE AnswersIInv'
<1> DEFINE o == InOrder(DOMAIN groups)
           n == Cardinality(DOMAIN groups)
<1>1. /\ pc = "paths" /\ todo = {} /\ pc' = "metadata"
      /\ children' = [i \in DOMAIN o |->
                        [name |-> groups[o[i]].name,
                         entries |-> StableSort(groups[o[i]].entries, EntryLess)]]
      /\ UNCHANGED <<hive, asked, todo, groups, guids, meta, dangling, entries, blankets, response>>
      /\ AnswerTypes /\ Unasked /\ PathsScanned
  BY DEF OrderChildren, metaVars, AnswersIInv
<1>2. hive \in Contents /\ Asked \subseteq hive.paths /\ Asked' = Asked
  BY <1>1 DEF AnswerTypes, Asked, Matching
<1>3. /\ DOMAIN groups = {FoldOf[r.name] : r \in Asked}
      /\ \A f \in DOMAIN groups : Groups(groups[f].name, groups[f].entries, FoldedAs(Asked, f))
      /\ guids = TargetsOf(Asked) /\ meta = <<>> /\ dangling = {}
  <2>1. Asked \ todo = Asked BY <1>1
  <2> QED BY <1>1, <2>1 DEF PathsScanned
<1>4. DOMAIN groups \in SUBSET Nat /\ IsFiniteSet(DOMAIN groups)
  <2>1. DOMAIN groups \in SUBSET Nat BY <1>1 DEF AnswerTypes
  <2>2. IsFiniteSet(Asked) BY <1>2, HiveRows, FS_Subset
  <2> DEFINE m == [r \in Asked |-> FoldOf[r.name]]
  <2>3. m \in Surjection(Asked, DOMAIN groups) BY <1>3 DEF Surjection
  <2> HIDE DEF m
  <2> QED BY <2>1, <2>2, <2>3, FS_Surjection
<1>5. /\ n \in Nat /\ o \in [1 .. n -> DOMAIN groups]
      /\ \A i, j \in 1 .. n : i < j => o[i] < o[j]
      /\ \A f \in DOMAIN groups : \E i \in 1 .. n : o[i] = f
  BY <1>4, InOrderSorts
<1> HIDE DEF o, n
<1>6. ASSUME NEW f \in DOMAIN groups
      PROVE  /\ groups[f].name \in Names /\ FoldOf[groups[f].name] = f
             /\ groups[f].entries \in Seq(Entry)
             /\ StableSort(groups[f].entries, EntryLess) \in Seq(Entry)
             /\ Lists(groups[f].name, StableSort(groups[f].entries, EntryLess), FoldedAs(Asked, f))
             /\ \A k, m \in DOMAIN StableSort(groups[f].entries, EntryLess) :
                  k < m => EntryLess(StableSort(groups[f].entries, EntryLess)[k],
                                     StableSort(groups[f].entries, EntryLess)[m])
  <2> DEFINE q == groups[f].entries
             t == StableSort(q, EntryLess)
             name == groups[f].name
             rows == FoldedAs(Asked, f)
  <2>1. Groups(name, q, rows) BY <1>3
  <2>2. /\ name \in {x.name : x \in rows} /\ \A x \in rows : name <= x.name
        /\ q \in Seq(Entry) /\ Range(q) = EntriesOf(rows)
        /\ \A i, j \in DOMAIN q : i # j => q[i].layer # q[j].layer
    BY <2>1 DEF Groups, Lists
  <2>3. name \in Names /\ FoldOf[name] = f
    <3>1. PICK x \in rows : name = x.name BY <2>2
    <3>2. x \in hive.paths /\ FoldOf[x.name] = f BY <1>2 DEF FoldedAs
    <3>3. x \in Row BY <1>2, <3>2, HiveRows
    <3> QED BY <3>1, <3>2, <3>3 DEF Row
  <2> HIDE DEF q, name, rows
  <2>4. DOMAIN q = 1 .. Len(q) BY <2>2
  <2>5. /\ t \in Seq(Entry) /\ Len(t) = Len(q) /\ Range(t) = Range(q)
        /\ \A i, j \in 1 .. Len(q) : i < j => EntryLess(t[i], t[j])
    BY <2>2, <2>4, EntriesSorted
  <2> HIDE DEF t
  <2>6. DOMAIN t = 1 .. Len(q) /\ Len(q) \in Nat BY <2>2, <2>5
  <2>7. Lists(name, t, rows) BY <2>2, <2>5 DEF Lists
  <2> QED BY <2>2, <2>3, <2>5, <2>6, <2>7 DEF q, t, name, rows
<1>7. /\ DOMAIN o = 1 .. n
      /\ children' \in Seq([name : Names, entries : Seq(Entry)]) /\ DOMAIN children' = 1 .. n
      /\ \A i \in 1 .. n : /\ children'[i].name = groups[o[i]].name
                           /\ children'[i].entries = StableSort(groups[o[i]].entries, EntryLess)
  <2> DEFINE c(i) == [name |-> groups[o[i]].name,
                      entries |-> StableSort(groups[o[i]].entries, EntryLess)]
  <2>1. DOMAIN o = 1 .. n /\ \A i \in 1 .. n : o[i] \in DOMAIN groups BY <1>5
  <2>2. \A i \in 1 .. n : c(i) \in [name : Names, entries : Seq(Entry)] BY <1>6, <2>1
  <2>3. \A i \in 1 .. n : /\ c(i).name = groups[o[i]].name
                          /\ c(i).entries = StableSort(groups[o[i]].entries, EntryLess)
    OBVIOUS
  <2>4. children' = [i \in 1 .. n |-> c(i)] BY <1>1, <2>1
  <2> HIDE DEF c
  <2> QED BY <1>5, <2>1, <2>2, <2>3, <2>4
<1>8. ChildrenOrdered'
  <2>1. ASSUME NEW i \in 1 .. n
        PROVE  /\ o[i] \in DOMAIN groups /\ FoldOf[children'[i].name] = o[i]
               /\ Lists(children'[i].name, children'[i].entries,
                        FoldedAs(Asked, FoldOf[children'[i].name]))
               /\ \A k, m \in DOMAIN children'[i].entries :
                    k < m => EntryLess(children'[i].entries[k], children'[i].entries[m])
    <3>1. o[i] \in DOMAIN groups BY <1>5
    <3> QED BY <1>6, <1>7, <3>1
  <2>2. \A i, j \in 1 .. n : i < j => FoldOf[children'[i].name] < FoldOf[children'[j].name]
    BY <1>5, <2>1
  <2>3. \A r \in Asked : \E i \in 1 .. n : FoldOf[children'[i].name] = FoldOf[r.name]
    <3> TAKE r \in Asked
    <3>1. FoldOf[r.name] \in DOMAIN groups BY <1>3
    <3> QED BY <1>5, <2>1, <3>1
  <2> QED BY <1>2, <1>7, <2>1, <2>2, <2>3 DEF ChildrenOrdered
<1>9. MetadataRead'
  <2>1. guids' = TargetsOf(Asked') /\ meta' = <<>> /\ dangling' = {} BY <1>1, <1>2, <1>3
  <2>2. Range(meta') = {} /\ DOMAIN meta' = {} BY <2>1 DEF Range
  <2> QED BY <2>1, <2>2 DEF MetadataRead
<1>10. AnswerTypes' BY <1>1 DEF AnswerTypes
<1>11. Unasked' BY <1>1 DEF Unasked
<1>12. PathsScanned' /\ ValuesScanned' /\ BlanketsScanned' /\ Answered'
  BY <1>1 DEF PathsScanned, ValuesScanned, BlanketsScanned, Answered
<1> QED BY <1>8, <1>9, <1>10, <1>11, <1>12 DEF AnswersIInv

\* Removing the dangling entries keeps the others, in their order.
LEMMA EntriesPruned ==
  ASSUME NEW q \in Seq(Entry), \A k, m \in DOMAIN q : k < m => EntryLess(q[k], q[m])
  PROVE  /\ RemoveDanglingEntries(q) \in Seq(Entry)
         /\ Range(RemoveDanglingEntries(q)) = {e \in Range(q) : e.target \notin dangling}
         /\ \A k, m \in DOMAIN RemoveDanglingEntries(q) :
              k < m => EntryLess(RemoveDanglingEntries(q)[k], RemoveDanglingEntries(q)[m])
<1> DEFINE at == {i \in DOMAIN q : q[i].target \notin dangling}
           t == RemoveDanglingEntries(q)
<1>1. t = Kept(q, at) BY DEF RemoveDanglingEntries
<1>2. DOMAIN q = 1 .. Len(q) /\ at \in SUBSET (1 .. Len(q)) OBVIOUS
<1>3. \A i \in DOMAIN q : i \in at <=> q[i].target \notin dangling OBVIOUS
<1> HIDE DEF at, t
<1>4. t \in Seq(Entry) /\ Selected(t, q, at) BY <1>1, <1>2, KeptKeeps
<1>5. DOMAIN t = 1 .. Len(t) BY <1>4
<1>6. PICK o \in [1 .. Len(t) -> at] : /\ \A k \in 1 .. Len(t) : t[k] = q[o[k]]
                                       /\ \A i, j \in 1 .. Len(t) : i < j => o[i] < o[j]
                                       /\ \A x \in at : \E k \in 1 .. Len(t) : o[k] = x
  BY <1>4 DEF Selected
<1>7. \A k \in 1 .. Len(t) : o[k] \in at /\ o[k] \in DOMAIN q BY <1>2
<1>8. Range(t) = {e \in Range(q) : e.target \notin dangling}
  <2>1. \A e \in Range(t) : e \in Range(q) /\ e.target \notin dangling
    BY <1>3, <1>5, <1>6, <1>7 DEF Range
  <2>2. ASSUME NEW e \in Range(q), e.target \notin dangling PROVE e \in Range(t)
    <3>1. PICK i \in DOMAIN q : e = q[i] BY DEF Range
    <3>2. i \in at BY <1>3, <2>2, <3>1
    <3> QED BY <1>5, <1>6, <3>1, <3>2 DEF Range
  <2> QED BY <2>1, <2>2
<1>9. \A k, m \in DOMAIN t : k < m => EntryLess(t[k], t[m]) BY <1>5, <1>6, <1>7
<1> QED BY <1>4, <1>8, <1>9 DEF t

\* c has the children that keep an entry, in their order: child k of c is child o[k].
Pruned(c) ==
  \E o \in [DOMAIN c -> DOMAIN children] :
    /\ \A i, j \in DOMAIN c : i < j => o[i] < o[j]
    /\ \A x \in DOMAIN children :
         RemoveDanglingEntries(children[x].entries) # <<>> => \E k \in DOMAIN c : o[k] = x
    /\ \A k \in DOMAIN c : /\ c[k].name = children[o[k]].name
                           /\ c[k].entries = RemoveDanglingEntries(children[o[k]].entries)
                           /\ c[k].entries # <<>>

\* Every child that keeps an entry keeps its place; the others are gone.
LEMMA ChildrenPruned ==
  ASSUME children \in Seq([name : Names, entries : Seq(Entry)]),
         \A i \in DOMAIN children :
           \A k, m \in DOMAIN children[i].entries :
             k < m => EntryLess(children[i].entries[k], children[i].entries[m])
  PROVE  /\ RemoveDanglingChildren(children) \in Seq([name : Names, entries : Seq(Entry)])
         /\ Pruned(RemoveDanglingChildren(children))
<1> DEFINE Child == [name : Names, entries : Seq(Entry)]
           c == RemoveDanglingChildren(children)
           prune(i) == RemoveDanglingEntries(children[i].entries)
           pruned == [i \in DOMAIN children |->
                        [children[i] EXCEPT !.entries = RemoveDanglingEntries(@)]]
           at == {i \in DOMAIN children : pruned[i].entries # <<>>}
<1>1. c = Kept(pruned, at) BY DEF RemoveDanglingChildren
<1>2. children \in Seq(Child) OBVIOUS
<1>3. \A i \in DOMAIN children : pruned[i] = [children[i] EXCEPT !.entries = prune(i)] OBVIOUS
<1>4. \A i \in DOMAIN children : i \in at <=> pruned[i].entries # <<>> OBVIOUS
<1>5. pruned = [i \in DOMAIN children |-> pruned[i]] /\ at \in SUBSET DOMAIN children OBVIOUS
<1> HIDE DEF c, pruned, at
<1>6. DOMAIN children = 1 .. Len(children) /\ Len(children) \in Nat
  <2> HIDE DEF Child
  <2> QED BY <1>2
<1>7. ASSUME NEW i \in DOMAIN children
      PROVE  pruned[i] \in Child /\ pruned[i].name = children[i].name /\ pruned[i].entries = prune(i)
  <2>1. children[i] \in Child
    <3> HIDE DEF Child
    <3> QED BY <1>2
  <2>2. prune(i) \in Seq(Entry) BY <2>1, EntriesPruned
  <2>3. pruned[i] = [children[i] EXCEPT !.entries = prune(i)] BY <1>3
  <2> HIDE DEF prune
  <2> QED BY <2>1, <2>2, <2>3
<1> HIDE DEF Child, prune
<1>8. pruned \in Seq(Child) /\ Len(pruned) = Len(children)
  <2>1. pruned = [i \in 1 .. Len(children) |-> pruned[i]] BY <1>5, <1>6
  <2>2. \A i \in 1 .. Len(children) : pruned[i] \in Child BY <1>6, <1>7
  <2> QED BY <1>6, <2>1, <2>2
<1>9. at \in SUBSET (1 .. Len(pruned)) BY <1>5, <1>6, <1>8
<1>10. c \in Seq(Child) /\ Selected(c, pruned, at) BY <1>1, <1>8, <1>9, KeptKeeps
<1>11. DOMAIN c = 1 .. Len(c) /\ Len(c) \in Nat BY <1>10
<1>12. PICK o \in [1 .. Len(c) -> at] : /\ \A k \in 1 .. Len(c) : c[k] = pruned[o[k]]
                                        /\ \A i, j \in 1 .. Len(c) : i < j => o[i] < o[j]
                                        /\ \A x \in at : \E k \in 1 .. Len(c) : o[k] = x
  BY <1>10 DEF Selected
<1>13. \A k \in DOMAIN c : o[k] \in at /\ o[k] \in DOMAIN children BY <1>5, <1>11
<1>14. o \in [DOMAIN c -> DOMAIN children] BY <1>11, <1>13
<1>15. \A k \in DOMAIN c : /\ c[k].name = children[o[k]].name /\ c[k].entries = prune(o[k])
                           /\ c[k].entries # <<>>
  BY <1>4, <1>7, <1>11, <1>12, <1>13
<1>16. \A x \in DOMAIN children : prune(x) # <<>> => \E k \in DOMAIN c : o[k] = x
  BY <1>4, <1>7, <1>11, <1>12
<1>17. Pruned(c) BY <1>11, <1>12, <1>14, <1>15, <1>16 DEF Pruned, prune
<1> QED BY <1>10, <1>17 DEF c, Child

\* The rows of a child, without those whose key is missing, are what is left of its list.
LEMMA LiveEntries ==
  ASSUME NEW q \in Seq(Entry), NEW rows \in SUBSET Asked, hive \in Contents,
         \A k, m \in DOMAIN q : k < m => EntryLess(q[k], q[m]), Range(q) = EntriesOf(rows),
         \A r \in Asked : r \in Live <=> r.target \notin dangling
  PROVE  /\ Range(RemoveDanglingEntries(q)) = EntriesOf(rows \cap Live)
         /\ EntriesAscend(RemoveDanglingEntries(q))
         /\ rows \cap Live # {} => RemoveDanglingEntries(q) # <<>>
         /\ RemoveDanglingEntries(q) # <<>> => rows \cap Live # {}
<1> DEFINE t == RemoveDanglingEntries(q)
<1>1. /\ t \in Seq(Entry) /\ Range(t) = {e \in Range(q) : e.target \notin dangling}
      /\ \A k, m \in DOMAIN t : k < m => EntryLess(t[k], t[m])
  BY EntriesPruned
<1> HIDE DEF t
<1>2. Range(t) = EntriesOf(rows \cap Live) BY <1>1 DEF EntriesOf
<1>3. EntriesAscend(t) BY <1>1 DEF EntriesAscend, Ascending, EntryLess
<1>4. t # <<>> => Range(t) # {}
  <2>1. t # <<>> => 1 \in DOMAIN t BY <1>1
  <2> QED BY <2>1 DEF Range
<1>5. t = <<>> => Range(t) = {} BY DEF Range
<1>6. rows \cap Live # {} <=> EntriesOf(rows \cap Live) # {}
  <2> DEFINE f(e) == [layer |-> e.layer, target |-> e.target, seq |-> e.seq]
  <2>1. EntriesOf(rows \cap Live) = {f(e) : e \in rows \cap Live} BY DEF EntriesOf
  <2> HIDE DEF f
  <2> QED BY <2>1
<1> QED BY <1>2, <1>3, <1>4, <1>5, <1>6 DEF t

\* What is answered of one child, n its name and t its entries.
LiveChild(n, t) ==
  LET rows == FoldedAs(Asked, FoldOf[n]) IN
  /\ n \in Names /\ n \in {r.name : r \in rows} /\ \A r \in rows : n <= r.name
  /\ Range(t) = EntriesOf(rows \cap Live) /\ EntriesAscend(t)
  /\ rows \cap Live # {} <=> t # <<>>

LEMMA AnswerPathsKeeps == ASSUME AnswersIInv, AnswerPaths PROVE AnswersIInv'
<1> DEFINE c == RemoveDanglingChildren(children)
           rows(n) == FoldedAs(Asked, FoldOf[n])
<1>1. /\ pc = "metadata" /\ guids = {} /\ pc' = "answered"
      /\ response' = [status |-> "OK", meta |-> meta, children |-> c]
      /\ UNCHANGED <<hive, asked, todo, groups, children, guids, meta, dangling, entries, blankets>>
      /\ AnswerTypes /\ Unasked /\ ChildrenOrdered /\ MetadataRead
  BY DEF AnswerPaths, rowVars, metaVars, AnswersIInv
<1>2. hive \in Contents /\ Asked \subseteq hive.paths /\ asked.op \in {"lookup", "enum"}
      /\ Live' = Live /\ Live \subseteq Asked /\ hive.paths \subseteq Row
  <2>1. hive \in Contents /\ Asked \subseteq hive.paths
    BY <1>1 DEF AnswerTypes, Asked, Matching
  <2>2. hive.paths \subseteq Row BY <2>1, HiveRows
  <2>3. Live' = Live /\ Live \subseteq Asked BY <1>1 DEF Live, Matching, Asked
  <2> QED BY <1>1, <2>1, <2>2, <2>3 DEF Unasked
<1>3. /\ Range(meta) \cup dangling = TargetsOf(Asked)
      /\ Range(meta) \subseteq hive.keys /\ dangling \cap hive.keys = {}
      /\ \A i, j \in DOMAIN meta : i < j => meta[i] < meta[j]
      /\ Hidden \notin hive.keys /\ Hidden \notin dangling
  BY <1>1, <1>2, HiveRows DEF MetadataRead, AnswerTypes, TargetsOf
<1>4. \A r \in Asked : r \in Live <=> r.target \notin dangling
  BY <1>3 DEF Live, Asked, TargetsOf
<1>5. ASSUME NEW x \in DOMAIN children
      PROVE  LiveChild(children[x].name, RemoveDanglingEntries(children[x].entries))
  <2> DEFINE n == children[x].name
             q == children[x].entries
  <2>1. /\ n \in Names /\ q \in Seq(Entry) /\ Lists(n, q, rows(n))
        /\ \A k, m \in DOMAIN q : k < m => EntryLess(q[k], q[m])
    <3>1. children \in Seq([name : Names, entries : Seq(Entry)]) BY <1>1 DEF ChildrenOrdered
    <3>2. children[x] \in [name : Names, entries : Seq(Entry)]
      <4> DEFINE Child == [name : Names, entries : Seq(Entry)]
      <4>1. children \in Seq(Child) BY <3>1
      <4> HIDE DEF Child
      <4>2. children[x] \in Child BY <4>1
      <4> QED BY <4>2 DEF Child
    <3>3. n \in Names /\ q \in Seq(Entry) BY <3>2
    <3>4. /\ Lists(children[x].name, children[x].entries,
                   FoldedAs(Asked, FoldOf[children[x].name]))
          /\ \A k, m \in DOMAIN children[x].entries :
               k < m => EntryLess(children[x].entries[k], children[x].entries[m])
      BY <1>1 DEF ChildrenOrdered
    <3> QED BY <3>3, <3>4
  <2>2. rows(n) \in SUBSET Asked BY DEF FoldedAs
  <2> HIDE DEF n, q, rows
  <2>3. Range(q) = EntriesOf(rows(n)) /\ n \in {r.name : r \in rows(n)}
        /\ \A r \in rows(n) : n <= r.name
    BY <2>1 DEF Lists
  <2>4. /\ Range(RemoveDanglingEntries(q)) = EntriesOf(rows(n) \cap Live)
        /\ EntriesAscend(RemoveDanglingEntries(q))
        /\ rows(n) \cap Live # {} => RemoveDanglingEntries(q) # <<>>
        /\ RemoveDanglingEntries(q) # <<>> => rows(n) \cap Live # {}
    BY <1>2, <1>4, <2>1, <2>2, <2>3, LiveEntries
  <2> QED BY <2>1, <2>3, <2>4 DEF n, q, rows, LiveChild
<1>6. c \in Seq([name : Names, entries : Seq(Entry)]) /\ Pruned(c)
  BY <1>1, ChildrenPruned DEF ChildrenOrdered
<1> HIDE DEF c, rows
<1>7. PICK o \in [DOMAIN c -> DOMAIN children] :
        /\ \A i, j \in DOMAIN c : i < j => o[i] < o[j]
        /\ \A x \in DOMAIN children :
             RemoveDanglingEntries(children[x].entries) # <<>> => \E k \in DOMAIN c : o[k] = x
        /\ \A k \in DOMAIN c : /\ c[k].name = children[o[k]].name
                               /\ c[k].entries = RemoveDanglingEntries(children[o[k]].entries)
                               /\ c[k].entries # <<>>
  BY <1>6 DEF Pruned
<1>8. ASSUME NEW k \in DOMAIN c
      PROVE  LET n == c[k].name IN
             /\ n \in Names /\ n \in {r.name : r \in rows(n)} /\ \A r \in rows(n) : n <= r.name
             /\ Range(c[k].entries) = EntriesOf(rows(n) \cap Live) /\ EntriesAscend(c[k].entries)
             /\ rows(n) \cap Live # {}
  <2>1. o[k] \in DOMAIN children OBVIOUS
  <2>2. LiveChild(c[k].name, c[k].entries) /\ c[k].entries # <<>> BY <1>5, <1>7, <2>1
  <2> QED BY <2>2 DEF LiveChild, rows
<1>9. \A i, j \in DOMAIN c : i < j => FoldOf[c[i].name] < FoldOf[c[j].name]
  <2>1. \A x, y \in DOMAIN children :
          x < y => FoldOf[children[x].name] < FoldOf[children[y].name]
    BY <1>1 DEF ChildrenOrdered
  <2> QED BY <1>7, <2>1
<1>10. \A r \in Live : \E k \in DOMAIN c : FoldOf[c[k].name] = FoldOf[r.name]
  <2> TAKE r \in Live
  <2>1. PICK x \in DOMAIN children : FoldOf[children[x].name] = FoldOf[r.name]
    BY <1>1, <1>2 DEF ChildrenOrdered
  <2>2. r \in rows(children[x].name) \cap Live BY <1>2, <2>1 DEF rows, FoldedAs
  <2>3. RemoveDanglingEntries(children[x].entries) # <<>> BY <1>5, <2>2 DEF LiveChild, rows
  <2> QED BY <1>7, <2>1, <2>3
<1>11. \A n : rows(n) \cap Live = {r \in Live : FoldOf[r.name] = FoldOf[n]}
  BY <1>2 DEF rows, FoldedAs
<1>12. Canonical(c, Live)
  <2>1. \A k \in DOMAIN c : \E r \in Live : FoldOf[r.name] = FoldOf[c[k].name]
    BY <1>8, <1>11
  <2>2. {Range(c[i].entries) : i \in DOMAIN c} =
          {EntriesOf({r \in Live : FoldOf[r.name] = f}) : f \in {FoldOf[r.name] : r \in Live}}
    <3> DEFINE E(f) == EntriesOf({r \in Live : FoldOf[r.name] = f})
    <3>1. \A k \in DOMAIN c : Range(c[k].entries) = E(FoldOf[c[k].name]) BY <1>8, <1>11
    <3> HIDE DEF E
    <3>2. {Range(c[i].entries) : i \in DOMAIN c} = {E(f) : f \in {FoldOf[r.name] : r \in Live}}
      BY <1>10, <2>1, <3>1
    <3> QED BY <3>2 DEF E
  <2>3. NamesAscend(c) BY <1>9 DEF NamesAscend, Ascending
  <2>4. \A i \in DOMAIN c : EntriesAscend(c[i].entries) BY <1>8
  <2> QED BY <2>1, <2>2, <2>3, <2>4 DEF Canonical
<1>13. \A k \in DOMAIN c :
         c[k].name = Min({r.name : r \in Matching(hive.paths, c[k].name)})
  <2> TAKE k \in DOMAIN c
  <2> DEFINE n == c[k].name
             S == {r.name : r \in Matching(hive.paths, n)}
  <2>1. n \in Names /\ n \in {r.name : r \in rows(n)} /\ \A r \in rows(n) : n <= r.name
    BY <1>8
  <2>2. Matching(hive.paths, n) = rows(n)
    <3>1. n # 0 BY <1>2, <2>1, HiveRows
    <3>2. PICK r \in Asked : FoldOf[r.name] = FoldOf[n]
      BY <2>1 DEF rows, FoldedAs
    <3> HIDE DEF n
    <3> QED BY <3>1, <3>2 DEF rows, FoldedAs, Asked, Matching
  <2>3. \A r \in rows(n) : r.name \in Nat BY <1>2, HiveRows DEF rows, FoldedAs, Row
  <2> HIDE DEF n
  <2>4. n \in S /\ S \subseteq Nat /\ \A y \in S : n <= y BY <2>1, <2>2, <2>3
  <2> HIDE DEF S
  <2>5. Min(S) \in S /\ \A y \in S : Min(S) <= y BY <2>4 DEF Min
  <2>6. n = Min(S)
    <3>1. n <= Min(S) /\ Min(S) <= n BY <2>4, <2>5
    <3>2. n \in Nat /\ Min(S) \in Nat BY <2>4, <2>5
    <3> QED BY <3>1, <3>2
  <2> QED BY <2>6 DEF n, S
<1>14. /\ Range(meta) = (UNION {{e.target : e \in Range(d.entries)} : d \in Range(c)}) \ {Hidden}
       /\ \A d \in Range(c) : d.entries # <<>>
  <2>1. \A k \in DOMAIN c : c[k] \in Range(c) BY DEF Range
  <2>2. ASSUME NEW g \in Range(meta)
        PROVE  /\ g # Hidden
               /\ \E d \in Range(c) : \E e \in Range(d.entries) : e.target = g
    <3>1. g \in TargetsOf(Asked) /\ g \in hive.keys /\ g # Hidden BY <1>3
    <3>2. PICK r \in Asked : r.target = g BY <3>1 DEF TargetsOf
    <3>3. r \in Live BY <1>3, <1>4, <3>1, <3>2
    <3>4. PICK k \in DOMAIN c : FoldOf[c[k].name] = FoldOf[r.name] BY <1>10, <3>3
    <3>5. r \in rows(c[k].name) \cap Live BY <1>11, <3>3, <3>4
    <3>6. \E e \in Range(c[k].entries) : e.target = g
      <4>1. Range(c[k].entries) = EntriesOf(rows(c[k].name) \cap Live) BY <1>8
      <4> DEFINE e == [layer |-> r.layer, target |-> r.target, seq |-> r.seq]
      <4>2. e \in EntriesOf(rows(c[k].name) \cap Live) BY <3>5 DEF EntriesOf
      <4>3. e.target = g BY <3>2
      <4> HIDE DEF e
      <4> QED BY <4>1, <4>2, <4>3
    <3> QED BY <2>1, <3>1, <3>6
  <2>3. ASSUME NEW d \in Range(c), NEW e \in Range(d.entries), e.target # Hidden
        PROVE  e.target \in Range(meta)
    <3>1. PICK k \in DOMAIN c : d = c[k] BY DEF Range
    <3>2. Range(d.entries) = EntriesOf(rows(c[k].name) \cap Live) BY <1>8, <3>1
    <3>3. PICK r \in Live : e.target = r.target BY <3>2 DEF EntriesOf
    <3>4. r.target \in TargetsOf(Asked) /\ r.target \notin dangling
      BY <1>2, <1>4, <2>3, <3>3 DEF TargetsOf
    <3> QED BY <1>3, <3>3, <3>4
  <2>4. \A d \in Range(c) : d.entries # <<>> BY <1>7 DEF Range
  <2> DEFINE U == UNION {{e.target : e \in Range(d.entries)} : d \in Range(c)}
  <2>5. \A g : g \in U <=> \E d \in Range(c) : \E e \in Range(d.entries) : e.target = g OBVIOUS
  <2> HIDE DEF U
  <2>6. Range(meta) = U \ {Hidden} BY <2>2, <2>3, <2>5
  <2> QED BY <2>4, <2>6 DEF U
<1>15. Answered'
  <2>1. response'.status = "OK" /\ response'.meta = meta /\ response'.children = c BY <1>1
  <2>2. ChildrenCanonical' BY <1>2, <1>12, <2>1 DEF ChildrenCanonical
  <2>3. SpellingStable' BY <1>1, <1>13, <2>1 DEF SpellingStable
  <2>4. MetadataExact' BY <1>3, <1>14, <2>1 DEF MetadataExact, Ascending
  <2>5. ValuesCanonical' BY <1>1, <1>2 DEF ValuesCanonical
  <2> QED BY <2>1, <2>2, <2>3, <2>4, <2>5 DEF Answered
<1>16. AnswerTypes' BY <1>1 DEF AnswerTypes
<1>17. Unasked' BY <1>1 DEF Unasked
<1>18. PathsScanned' /\ ChildrenOrdered' /\ MetadataRead' /\ ValuesScanned' /\ BlanketsScanned'
  BY <1>1 DEF PathsScanned, ChildrenOrdered, MetadataRead, ValuesScanned, BlanketsScanned
<1> QED BY <1>15, <1>16, <1>17, <1>18 DEF AnswersIInv

\* The types are those that the run checks.
LEMMA TypesSuffice ==
  ASSUME AnswerTypes, response.status \in {"none", "OK", "StorageError"}
  PROVE  AnswersTypeOK
<1>1. TargetsOf(hive.paths) \subseteq {r.target : r \in hive.paths} BY DEF TargetsOf
<1>2. /\ meta \in Seq(TargetsOf(hive.paths))
      /\ entries \in Seq(hive.values) /\ blankets \in Seq(hive.blankets)
  BY DEF AnswerTypes
<1>3. Range(meta) \subseteq TargetsOf(hive.paths)
  <2> DEFINE T == TargetsOf(hive.paths)
  <2>1. meta \in Seq(T) BY <1>2
  <2> HIDE DEF T
  <2>2. Range(meta) \subseteq T BY <2>1 DEF Range
  <2> QED BY <2>2 DEF T
<1>4. Range(entries) \subseteq hive.values /\ Range(blankets) \subseteq hive.blankets
  BY <1>2 DEF Range
<1>5. guids \subseteq {r.target : r \in hive.paths} \ {Hidden} BY DEF AnswerTypes, TargetsOf
<1>6. dangling \subseteq {r.target : r \in hive.paths} BY <1>1 DEF AnswerTypes
<1> QED BY <1>1, <1>3, <1>4, <1>5, <1>6 DEF AnswersTypeOK, AnswerTypes

LEMMA NextAnswers == AnswersIInv /\ [AnswersNext]_answersVars => AnswersIInv'
<1> SUFFICES ASSUME AnswersIInv, [AnswersNext]_answersVars PROVE AnswersIInv' OBVIOUS
<1>1. CASE Ask BY <1>1, AskKeeps
<1>2. CASE OrderChildren BY <1>2, OrderChildrenKeeps
<1>3. CASE ReadKeyMeta BY <1>3, ReadKeyMetaKeeps
<1>4. CASE AnswerPaths BY <1>4, AnswerPathsKeeps
<1>5. CASE OrderValues BY <1>5, OrderValuesKeeps
<1>6. CASE AnswerValues BY <1>6, AnswerValuesKeeps
<1>7. CASE Fail BY <1>7, FailKeeps
<1>8. CASE UNCHANGED answersVars BY <1>8, StutterKeeps
<1>9. CASE \E r \in todo : ScanPath(r) BY <1>9, ScanPathKeeps
<1>10. CASE \E v \in todo : ScanValue(v) BY <1>10, ScanValueKeeps
<1>11. CASE \E b \in todo : ScanBlanket(b) BY <1>11, ScanBlanketKeeps
<1> QED
  BY <1>1, <1>2, <1>3, <1>4, <1>5, <1>6, <1>7, <1>8, <1>9, <1>10, <1>11
     DEF AnswersNext, Done

\* What a call has read so far gives the answers their properties.
LEMMA AnswersSafe == AnswersIInv => ChildrenInv /\ ValuesCanonical
<1> SUFFICES ASSUME AnswersIInv PROVE ChildrenInv /\ ValuesCanonical OBVIOUS
<1>1. AnswerTypes /\ Unasked /\ Answered BY DEF AnswersIInv
<1>2. CASE pc = "answered"
  <2>1. /\ response.status \in {"OK", "StorageError"}
        /\ ChildrenCanonical /\ SpellingStable /\ MetadataExact /\ ValuesCanonical
    BY <1>1, <1>2 DEF Answered
  <2>2. response.status \in {"none", "OK", "StorageError"} BY <2>1
  <2>3. AnswersTypeOK BY <1>1, <2>2, TypesSuffice
  <2> QED BY <2>1, <2>3 DEF ChildrenInv
<1>3. CASE pc # "answered"
  <2>1. response.status = "none" BY <1>1, <1>3 DEF Unasked, NoAnswer
  <2>2. AnswersTypeOK BY <1>1, <2>1, TypesSuffice
  <2>3. ~PathAnswer /\ response.status # "OK" BY <2>1 DEF PathAnswer
  <2> QED
    BY <2>2, <2>3 DEF ChildrenInv, ChildrenCanonical, SpellingStable, MetadataExact, ValuesCanonical
<1> QED BY <1>2, <1>3

\* The answer to a LOOKUP or an ENUM_CHILDREN (orderedChildren,
\* readReferencedMetadata and removeDanglingChildren in paths.go) is a function
\* of the rows that are stored, in whatever order the queries yield them: each
\* child once under its lowest spelling, all its live entries in order, and the
\* metadata of exactly the keys they name.
THEOREM ChildrenAlwaysCanonical == AnswersSpec => []ChildrenInv
<1>1. AnswersSpec => []AnswersIInv BY InitAnswers, NextAnswers, PTL DEF AnswersSpec
<1> QED BY <1>1, AnswersSafe, PTL

\* The answer to a QUERY_VALUES (queryValueEntries and queryBlanketTombstones
\* in values.go) has every value asked for and every blanket tombstone, in an
\* order that does not depend on how the queries yield them.
THEOREM ValuesAlwaysCanonical == AnswersSpec => []ValuesCanonical
<1>1. AnswersSpec => []AnswersIInv BY InitAnswers, NextAnswers, PTL DEF AnswersSpec
<1> QED BY <1>1, AnswersSafe, PTL
=============================================================================
