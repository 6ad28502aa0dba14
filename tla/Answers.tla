------------------------------ MODULE Answers ------------------------------
(***************************************************************************)
(* How RSI_LOOKUP, RSI_ENUM_CHILDREN and RSI_QUERY_VALUES turn rows into an*)
(* answer (paths.go, values.go).  The queries carry no ORDER BY and range  *)
(* over two stores, so rows are scanned in any order, and a Go map adds    *)
(* its own; the kernel walks the answers of repeated calls by index and    *)
(* refuses one whose metadata does not match its entries.                  *)
(*                                                                         *)
(* The hive does not change while it is read (Transactions.tla); it holds  *)
(* rows as HiveStore.tla lets them come about: one entry per folded name   *)
(* and layer, no sequence twice, and possibly an entry whose key record    *)
(* has yet to be created.  Names, layers and GUIDs are numbers in their    *)
(* bytewise order; data and metadata fields are left out.                  *)
(***************************************************************************)
EXTENDS Naturals, Sequences, FiniteSets, FiniteSetsExt, Functions

CONSTANTS
  FoldOf,   \* FoldOf[n]: the folded form of a name or of a layer name
  Hidden,   \* the target of a HIDDEN entry
  Contents  \* the hive contents to be read: [paths, values, blankets, keys]

Names == DOMAIN FoldOf

ASSUME AnswersAssumption ==
  /\ Names \subseteq Nat \ {0} /\ FoldOf \in [Names -> Nat]
  /\ \A h \in Contents :
       /\ \A r \in h.paths \cup h.values :
            r \in [name : Names, layer : Nat, target : Nat, seq : Nat]
       /\ \A b \in h.blankets : b \in [layer : Names, seq : Nat]
       /\ IsFiniteSet(h.paths)
       /\ \A e, f \in h.paths : FoldOf[e.name] = FoldOf[f.name] /\ e.layer = f.layer => e = f
       /\ \A v, w \in h.values : FoldOf[v.name] = FoldOf[w.name] /\ v.layer = w.layer => v = w
       /\ \A x, y \in h.paths \cup h.values \cup h.blankets : x.seq = y.seq => x = y
       /\ Hidden \notin h.keys

VARIABLES
  hive,      \* what is stored below the key that the request names
  pc,
  asked,     \* the operation and the name asked for, 0 for all
  todo,      \* rows the query has yet to yield
  groups,    \* folded name -> [name, entries]; a lookup has at most one
  children,  \* the groups in order
  guids,     \* guidSet, less the GUIDs whose metadata has been read
  meta, dangling,
  entries,   \* value entries
  blankets,
  response   \* [status, children, meta, entries, blankets]

rowVars == <<groups, children, entries, blankets>>
metaVars == <<guids, meta, dangling>>
answersVars == <<hive, pc, asked, todo, rowVars, metaVars, response>>

NoAnswer == [status |-> "none"]

AnswersInit ==
  /\ hive \in Contents /\ pc = "idle" /\ asked = [op |-> "none", name |-> 0]
  /\ todo = {} /\ groups = << >> /\ children = <<>> /\ entries = <<>> /\ blankets = <<>>
  /\ guids = {} /\ meta = <<>> /\ dangling = {} /\ response = NoAnswer

-----------------------------------------------------------------------------
(* sort.SliceStable, whose result is also sort.Slice's when no two elements *)
(* are equal: position k gets the element that k - 1 others go before.      *)

StableSort(s, Less(_, _)) ==
  LET goesBefore(i, j) == Less(s[i], s[j]) \/ (~Less(s[j], s[i]) /\ i < j)
      rank(j) == 1 + Cardinality({i \in DOMAIN s : goesBefore(i, j)})
  IN  [k \in DOMAIN s |-> s[CHOOSE j \in DOMAIN s : rank(j) = k]]

\* The elements of S in ascending order: position k gets the one with k - 1 below it.
InOrder(S) ==
  [k \in 1 .. Cardinality(S) |-> CHOOSE x \in S : Cardinality({y \in S : y < x}) = k - 1]

\* What s has at the positions in at, in their order.
Kept(s, at) == LET order == InOrder(at) IN [k \in DOMAIN order |-> s[order[k]]]

\* Faulty: by target.
EntryByTarget(e, f) == e.target < f.target

\* sortPathEntries
EntryLess(e, f) == e.layer < f.layer \/ (e.layer = f.layer /\ e.seq < f.seq)

\* queryValueEntries: folded name, layer as it is written, sequence.
ValueLess(v, w) ==
  \/ FoldOf[v.name] < FoldOf[w.name]
  \/ FoldOf[v.name] = FoldOf[w.name] /\ EntryLess(v, w)

\* Faulty: by folded layer alone.
BlanketByLayer(b, c) == FoldOf[b.layer] < FoldOf[c.layer]

\* queryBlanketTombstones: folded layer, sequence.
BlanketLess(b, c) ==
  \/ FoldOf[b.layer] < FoldOf[c.layer]
  \/ FoldOf[b.layer] = FoldOf[c.layer] /\ b.seq < c.seq

-----------------------------------------------------------------------------
Matching(rows, n) == {r \in rows : n = 0 \/ FoldOf[r.name] = FoldOf[n]}

Ask ==
  /\ pc = "idle"
  /\ \E a \in {[op |-> "lookup", name |-> n] : n \in Names}
              \cup {[op |-> "enum", name |-> 0]}
              \cup {[op |-> "query", name |-> n] : n \in Names \cup {0}} :
       /\ asked' = a
       /\ pc' = IF a.op = "query" THEN "values" ELSE "paths"
       /\ todo' = Matching(IF a.op = "query" THEN hive.values ELSE hive.paths, a.name)
  /\ UNCHANGED <<hive, rowVars, metaVars, response>>

\* Faulty: the spelling of the first row scanned.
FirstSpelling(g, n) == g.name

\* The display name of a group that meets another spelling.
LowerSpelling(g, n) == IF n < g.name THEN n ELSE g.name

\* What the row adds to guidSet.
Referenced(r) == {r.target} \ {Hidden}

\* One row of readChildGroups, or of handleLookup's loop.
ScanPath(r) ==
  /\ pc = "paths" /\ r \in todo
  /\ LET folded == FoldOf[r.name]
         entry == [layer |-> r.layer, target |-> r.target, seq |-> r.seq]
         group == IF folded \in DOMAIN groups
                  THEN [name |-> LowerSpelling(groups[folded], r.name),
                        entries |-> Append(groups[folded].entries, entry)]
                  ELSE [name |-> r.name, entries |-> <<entry>>]
     IN groups' = [f \in DOMAIN groups \cup {folded} |->
                     IF f = folded THEN group ELSE groups[f]]
  /\ guids' = guids \cup Referenced(r)
  /\ todo' = todo \ {r}
  /\ UNCHANGED <<hive, pc, asked, children, meta, dangling, entries, blankets, response>>

\* orderedChildren: by folded name, each with its entries in order.
OrderChildren ==
  /\ pc = "paths" /\ todo = {}
  /\ LET folded == InOrder(DOMAIN groups)
     IN children' = [i \in DOMAIN folded |->
                       [name |-> groups[folded[i]].name,
                        entries |-> StableSort(groups[folded[i]].entries, EntryLess)]]
  /\ pc' = "metadata"
  /\ UNCHANGED <<hive, asked, todo, groups, metaVars, entries, blankets, response>>

\* Faulty: a missing record still gets its (empty) block.
ReadKeyMetaAlways ==
  /\ pc = "metadata" /\ guids # {}
  /\ LET g == Min(guids) IN
     /\ guids' = guids \ {g} /\ meta' = Append(meta, g)
     /\ dangling' = IF g \in hive.keys THEN dangling ELSE dangling \cup {g}
  /\ UNCHANGED <<hive, pc, asked, todo, rowVars, response>>

\* readReferencedMetadata: sortedGUIDs, one query each.
ReadKeyMeta ==
  /\ pc = "metadata" /\ guids # {}
  /\ LET g == Min(guids) IN
     /\ guids' = guids \ {g}
     /\ IF g \in hive.keys THEN meta' = Append(meta, g) /\ UNCHANGED dangling
                           ELSE dangling' = dangling \cup {g} /\ UNCHANGED meta
  /\ UNCHANGED <<hive, pc, asked, todo, rowVars, response>>

RemoveDanglingEntries(s) == Kept(s, {i \in DOMAIN s : s[i].target \notin dangling})

RemoveDanglingChildren(s) ==
  LET pruned == [i \in DOMAIN s |-> [s[i] EXCEPT !.entries = RemoveDanglingEntries(@)]]
  IN  Kept(pruned, {i \in DOMAIN s : pruned[i].entries # <<>>})

AnswerPaths ==
  /\ pc = "metadata" /\ guids = {}
  /\ response' = [status |-> "OK", meta |-> meta, children |-> RemoveDanglingChildren(children)]
  /\ pc' = "answered"
  /\ UNCHANGED <<hive, asked, todo, rowVars, metaVars>>

-----------------------------------------------------------------------------
ScanValue(v) ==
  /\ pc = "values" /\ v \in todo
  /\ entries' = Append(entries, v) /\ todo' = todo \ {v}
  /\ UNCHANGED <<hive, pc, asked, groups, children, blankets, metaVars, response>>

\* The values are in order; on to the tombstones, a query of their own.
OrderValues ==
  /\ pc = "values" /\ todo = {}
  /\ entries' = StableSort(entries, ValueLess)
  /\ todo' = hive.blankets /\ pc' = "blankets"
  /\ UNCHANGED <<hive, asked, groups, children, blankets, metaVars, response>>

ScanBlanket(b) ==
  /\ pc = "blankets" /\ b \in todo
  /\ blankets' = Append(blankets, b) /\ todo' = todo \ {b}
  /\ UNCHANGED <<hive, pc, asked, groups, children, entries, metaVars, response>>

AnswerValues ==
  /\ pc = "blankets" /\ todo = {}
  /\ response' = [status |-> "OK", entries |-> entries,
                blankets |-> StableSort(blankets, BlanketLess)]
  /\ pc' = "answered"
  /\ UNCHANGED <<hive, asked, todo, rowVars, metaVars>>

\* A query, a scan, or the iteration fails: nothing of what was read is sent.
Fail ==
  /\ pc \in {"paths", "metadata", "values", "blankets"}
  /\ response' = [status |-> "StorageError"] /\ pc' = "answered"
  /\ UNCHANGED <<hive, asked, todo, rowVars, metaVars>>

Done == pc = "answered" /\ UNCHANGED answersVars

AnswersNext ==
  \/ Ask \/ OrderChildren \/ ReadKeyMeta \/ AnswerPaths \/ OrderValues \/ AnswerValues
  \/ Fail \/ Done
  \/ \E r \in todo : ScanPath(r) \/ ScanValue(r) \/ ScanBlanket(r)

AnswersSpec == AnswersInit /\ [][AnswersNext]_answersVars

-----------------------------------------------------------------------------
EntriesOf(s) == {[layer |-> e.layer, target |-> e.target, seq |-> e.seq] : e \in s}
Ascending(s, Less(_, _)) == \A i, j \in DOMAIN s : i < j => Less(s[i], s[j])
NamesAscend(c) == Ascending(c, LAMBDA x, y : FoldOf[x.name] < FoldOf[y.name])
EntriesAscend(s) ==
  Ascending(s, LAMBDA e, f : e.layer < f.layer \/ (e.layer = f.layer /\ e.seq < f.seq))

\* The rows a request asks for and whose target, if they have one, is a key.
Live ==
  {r \in Matching(hive.paths, asked.name) : r.target = Hidden \/ r.target \in hive.keys}

PathAnswer == asked.op \in {"lookup", "enum"} /\ response.status = "OK"

\* Every variable holds a value of its kind.
AnswersTypeOK ==
  /\ todo \subseteq hive.paths \cup hive.values \cup hive.blankets
  /\ pc \in {"idle", "paths", "metadata", "values", "blankets", "answered"}
  /\ asked.name \in Names \cup {0} /\ DOMAIN groups \subseteq Nat
  /\ guids \subseteq {r.target : r \in hive.paths} \ {Hidden}
  /\ {dangling, Range(meta)} \subseteq SUBSET {r.target : r \in hive.paths}
  /\ Range(entries) \subseteq hive.values /\ Range(blankets) \subseteq hive.blankets
  /\ response.status \in {"none", "OK", "StorageError"}

\* The answer that the rows give: a block for each folded name of theirs and
\* no other, in ascending order of folded name, its entries all those of the
\* name and ascending by layer and sequence.
Canonical(c, rows) ==
  /\ {Range(c[i].entries) : i \in DOMAIN c} =
       {EntriesOf({r \in rows : FoldOf[r.name] = f}) : f \in {FoldOf[r.name] : r \in rows}}
  /\ NamesAscend(c)
  /\ \A i \in DOMAIN c : /\ EntriesAscend(c[i].entries)
                         /\ \E r \in rows : FoldOf[r.name] = FoldOf[c[i].name]

\* An answer about children is a function of the stored rows alone, however
\* they were scanned.  An entry whose key record does not exist yet leaves no
\* trace in it.
ChildrenCanonical == PathAnswer => Canonical(response.children, Live)

\* The name reported for a child is the lowest of the stored spellings, so
\* that two enumerations report the same one.
SpellingStable ==
  PathAnswer =>
    \A i \in DOMAIN response.children : LET n == response.children[i].name IN
      n = Min({r.name : r \in Matching(hive.paths, n)})

\* What the kernel demands of an answer: a metadata block for every GUID an
\* entry names, no block that no entry names, none twice, ascending; and no
\* child without an entry.
MetadataExact ==
  PathAnswer =>
    /\ Range(response.meta) =
         (UNION {{e.target : e \in Range(c.entries)} : c \in Range(response.children)}) \ {Hidden}
    /\ Ascending(response.meta, <)
    /\ \A c \in Range(response.children) : c.entries # <<>>

\* LOOKUP and ENUM_CHILDREN answer with what is stored, in one order, under
\* one spelling, with the metadata of what they name.
ChildrenInv ==
  AnswersTypeOK /\ ChildrenCanonical /\ SpellingStable /\ MetadataExact

\* Values and tombstones come back complete and in an order that is a
\* property of what is stored: two calls give the same list, also when layer
\* names differ in case only.
ValuesCanonical ==
  asked.op = "query" /\ response.status = "OK" =>
    /\ Range(response.entries) = Matching(hive.values, asked.name)
    /\ Range(response.blankets) = hive.blankets
    /\ Ascending(response.entries, LAMBDA v, w :
         \/ FoldOf[v.name] < FoldOf[w.name]
         \/ FoldOf[v.name] = FoldOf[w.name] /\ v.layer < w.layer)
    /\ Ascending(response.blankets, LAMBDA b, c :
         \/ FoldOf[b.layer] < FoldOf[c.layer]
         \/ FoldOf[b.layer] = FoldOf[c.layer] /\ b.seq < c.seq)
=============================================================================
