-------------------------------- MODULE Fold --------------------------------
(***************************************************************************)
(* Unicode simple case folding (fold.go): String's two passes over a name, *)
(* each calling Rune, and Rune's two binary searches, one over ranges and  *)
(* one over pairs.  Every name is stored beside its folded form and looked *)
(* up by it.                                                               *)
(*                                                                         *)
(* A rune is a number and a string a sequence of runes: names are valid    *)
(* UTF-8 when they get here.  lo and hi count from 0, as in the code.      *)
(***************************************************************************)
EXTENDS Naturals, Sequences

CONSTANTS
  Ranges,   \* caseFoldRanges: <<start, end, mappedStart>>
  Pairs,    \* caseFoldPairs: <<source, target>>
  Strings   \* the names that are folded

ASSUME TableTypes ==
  /\ Ranges \in Seq(Nat \X Nat \X Nat) /\ Pairs \in Seq(Nat \X Nat)
  /\ Strings \subseteq Seq(Nat)

\* What the searches need: the tables ascend, ranges do not overlap and none
\* is empty.
ASSUME TablesSorted ==
  /\ \A i \in DOMAIN Ranges : Ranges[i][1] <= Ranges[i][2]
  /\ \A i, j \in DOMAIN Ranges : i < j => Ranges[i][2] < Ranges[j][1]
  /\ \A i, j \in DOMAIN Pairs : i < j => Pairs[i][1] < Pairs[j][1]

InRange(r, i) == Ranges[i][1] <= r /\ r <= Ranges[i][2]
Mapped(r, i) == Ranges[i][3] + (r - Ranges[i][1])
Unranged(r) == \A i \in DOMAIN Ranges : ~InRange(r, i)

\* f is the folding of r by the tables, however they are searched.
IsFold(r, f) ==
  /\ \A i \in DOMAIN Ranges : InRange(r, i) => f = Mapped(r, i)
  /\ Unranged(r) =>
       /\ \A j \in DOMAIN Pairs : Pairs[j][1] = r => f = Pairs[j][2]
       /\ (\A j \in DOMAIN Pairs : Pairs[j][1] # r) => f = r

\* What makes folding a projection: no target is itself folded away.
ASSUME TargetsFixed ==
  /\ \A i \in DOMAIN Ranges : \A r \in Ranges[i][1] .. Ranges[i][2] :
       IsFold(Mapped(r, i), Mapped(r, i))
  /\ \A j \in DOMAIN Pairs : IsFold(Pairs[j][2], Pairs[j][2])

VARIABLES
  s,        \* the argument of String
  pass,     \* "idle" before the call, "scan" for the first loop, "build" for
            \* the second, "done"
  pos,      \* the rune being looked at
  phase,    \* of Rune: "call", "ranges", "pairs", "return"
  lo, hi,
  rune,     \* what Rune returned
  buf,
  result    \* what String returned

foldVars == <<s, pass, pos, phase, lo, hi, rune, buf, result>>

FoldInit ==
  /\ s = <<>> /\ pass = "idle" /\ pos = 1 /\ phase = "call"
  /\ lo = 0 /\ hi = 0 /\ rune = 0 /\ buf = <<>> /\ result = <<>>

-----------------------------------------------------------------------------
\* A handler folds a name: the first loop starts at its first rune.
String(name) ==
  /\ pass = "idle" /\ pass' = "scan" /\ s' = name
  /\ UNCHANGED <<pos, phase, lo, hi, rune, buf, result>>

cur == s[pos]

mid == lo + (hi - lo) \div 2

RuneReturns(f) == phase' = "return" /\ rune' = f /\ UNCHANGED <<lo, hi>>

GoLow == hi' = mid /\ UNCHANGED <<lo, rune, phase>>

\* Faulty: the upper half keeps its lower end.
GoHighFromMid == lo' = mid /\ UNCHANGED <<hi, rune, phase>>

GoHigh == lo' = mid + 1 /\ UNCHANGED <<hi, rune, phase>>

CallRune ==
  /\ pass \in {"scan", "build"} /\ pos <= Len(s) /\ phase = "call"
  /\ phase' = "ranges" /\ lo' = 0 /\ hi' = Len(Ranges)
  /\ UNCHANGED <<s, pass, pos, rune, buf, result>>

SearchRanges ==
  /\ phase = "ranges" /\ lo < hi
  /\ LET rg == Ranges[mid + 1] IN
     \/ cur < rg[1] /\ GoLow
     \/ cur >= rg[1] /\ cur > rg[2] /\ GoHigh
     \/ cur >= rg[1] /\ cur <= rg[2] /\ RuneReturns(rg[3] + (cur - rg[1]))
  /\ UNCHANGED <<s, pass, pos, buf, result>>

RangesExhausted ==
  /\ phase = "ranges" /\ lo >= hi
  /\ phase' = "pairs" /\ lo' = 0 /\ hi' = Len(Pairs)
  /\ UNCHANGED <<s, pass, pos, rune, buf, result>>

SearchPairs ==
  /\ phase = "pairs" /\ lo < hi
  /\ LET p == Pairs[mid + 1] IN
     \/ cur < p[1] /\ GoLow
     \/ cur > p[1] /\ GoHigh
     \/ cur = p[1] /\ RuneReturns(p[2])
  /\ UNCHANGED <<s, pass, pos, buf, result>>

PairsExhausted ==
  /\ phase = "pairs" /\ lo >= hi
  /\ RuneReturns(cur)
  /\ UNCHANGED <<s, pass, pos, buf, result>>

\* Faulty: the second loop goes on where the first one broke off.
ScannedGoesOn ==
  /\ pass = "scan" /\ phase = "return"
  /\ IF rune = cur THEN pos' = pos + 1 /\ UNCHANGED pass
                   ELSE pass' = "build" /\ UNCHANGED pos
  /\ phase' = "call"
  /\ UNCHANGED <<s, lo, hi, rune, buf, result>>

\* The first loop: break at the first rune that folding changes.
Scanned ==
  /\ pass = "scan" /\ phase = "return"
  /\ IF rune = cur THEN pos' = pos + 1 /\ UNCHANGED pass
                 ELSE pos' = 1 /\ pass' = "build"
  /\ phase' = "call"
  /\ UNCHANGED <<s, lo, hi, rune, buf, result>>

AllFolded ==
  /\ pass = "scan" /\ phase = "call" /\ pos > Len(s)
  /\ result' = s /\ pass' = "done"
  /\ UNCHANGED <<s, pos, phase, lo, hi, rune, buf>>

Appended ==
  /\ pass = "build" /\ phase = "return"
  /\ buf' = Append(buf, rune) /\ pos' = pos + 1 /\ phase' = "call"
  /\ UNCHANGED <<s, pass, lo, hi, rune, result>>

Built ==
  /\ pass = "build" /\ phase = "call" /\ pos > Len(s)
  /\ result' = buf /\ pass' = "done"
  /\ UNCHANGED <<s, pos, phase, lo, hi, rune, buf>>

Search == CallRune \/ SearchRanges \/ RangesExhausted \/ SearchPairs \/ PairsExhausted
Work == Search \/ Scanned \/ AllFolded \/ Appended \/ Built

FoldNext == (\E name \in Strings : String(name)) \/ Work \/ (pass = "done" /\ UNCHANGED foldVars)

\* A function that is called runs.
FoldSpec == FoldInit /\ [][FoldNext]_foldVars /\ WF_foldVars(Work)

-----------------------------------------------------------------------------
\* Every variable holds a value of its kind.
FoldTypeOK ==
  /\ s \in Seq(Nat) /\ pass \in {"idle", "scan", "build", "done"} /\ pos \in 1 .. Len(s) + 1
  /\ phase \in {"call", "ranges", "pairs", "return"}
  /\ lo \in Nat /\ hi \in Nat /\ rune \in Nat
  /\ buf \in Seq(Nat) /\ result \in Seq(Nat)

\* Neither binary search reads past the end of its table.
InBounds ==
  /\ phase = "ranges" => lo <= hi /\ hi <= Len(Ranges)
  /\ phase = "pairs" => lo <= hi /\ hi <= Len(Pairs)

\* String returns the folding of every rune of its argument, whichever pass
\* produced the result and wherever in the tables the runes are: what the two
\* binary searches find is what the tables say.  Folding the result again
\* changes nothing, so a folded name looks itself up.
FoldsEveryRune ==
  pass = "done" =>
    /\ Len(result) = Len(s)
    /\ \A k \in 1 .. Len(s) : IsFold(s[k], result[k]) /\ IsFold(result[k], result[k])

\* String, once called, returns: the halving searches and both loops come to
\* an end.
Terminates == pass = "scan" ~> pass = "done"
=============================================================================
