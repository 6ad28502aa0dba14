----------------------------- MODULE HiveStore -----------------------------
(***************************************************************************)
(* One hive's tables and the RSI operations that change them: keys.go,     *)
(* paths.go, values.go, the layer deletion of txn_handlers.go, and the     *)
(* startup of hivedb.go (root key, crash recovery, maximum sequence).      *)
(*                                                                         *)
(* A row carries the store it lives in: "main" is the hive's file,         *)
(* "volatile" the attached tmpfs database with the same four tables.       *)
(* Columns no property is about (security descriptor, times, data, the     *)
(* stored case of a name) are left out; names stand for folded names.      *)
(*                                                                         *)
(* Transactions.tla shows that the write connection of a hive has one user *)
(* at a time, that a competing mutation is declined while a transaction    *)
(* holds it and that a reader sees a commit as a whole.  So a mutation is  *)
(* one step here, on the open transaction if there is one.                 *)
(***************************************************************************)
EXTENDS Naturals, FiniteSets

CONSTANTS
  Guids,    \* key GUIDs
  Root,     \* the one ensureRootKey generates
  Names,    \* folded child names and value names
  Layers,
  NoGuid,   \* SQL NULL, the target of a HIDDEN entry
  MaxSeq,   \* bound: highest sequence number the kernel hands out
  DropFaults \* whether a drop in a client's transaction may fail part-way

ASSUME StoreAssumption ==
  /\ Root \in Guids /\ NoGuid \notin Guids
  /\ MaxSeq \in Nat /\ DropFaults \in BOOLEAN
  /\ IsFiniteSet(Guids) /\ IsFiniteSet(Names) /\ IsFiniteSet(Layers)

Stores == {"main", "volatile"}
Opposite(s) == IF s = "main" THEN "volatile" ELSE "main"
Sequences == 1 .. MaxSeq

KeyRow == [store : Stores, guid : Guids]
EntryRow == [store : Stores, parent : Guids, name : Names, layer : Layers,
             target : Guids \cup {NoGuid}, seq : Sequences]
ValueRow == [store : Stores, key : Guids, name : Names, layer : Layers, seq : Sequences]
BlanketRow == [store : Stores, key : Guids, layer : Layers, seq : Sequences]

Database == [keys : SUBSET KeyRow, entries : SUBSET EntryRow,
             values : SUBSET ValueRow, blankets : SUBSET BlanketRow]

EmptyDatabase == [keys |-> {}, entries |-> {}, values |-> {}, blankets |-> {}]

VARIABLES
  db,      \* what is committed
  work,    \* what the open transaction sees; db when none is open
  open,    \* whether a read-write transaction holds the write connection
  known,   \* GUIDs some request has been routed to this hive by
  lastSeq, \* the last sequence number the kernel handed out
  phase    \* "down", "rooted" (root key present, not yet cleaned), "serving"

vars == <<db, work, open, known, lastSeq, phase>>

Init ==
  /\ db = EmptyDatabase /\ work = EmptyDatabase
  /\ open = FALSE /\ known = {} /\ lastSeq = 0
  /\ phase = "down"

-----------------------------------------------------------------------------
(* Queries                                                                 *)

HasKey(d, g) == \E k \in d.keys : k.guid = g

KeyExistsIn(d, s, g) == [store |-> s, guid |-> g] \in d.keys

\* isVolatileQ: the store whose table has the key, main first.
StoreOf(d, g) == IF KeyExistsIn(d, "main", g) THEN "main" ELSE "volatile"

\* (parent_guid, child_name_folded, layer), the primary key of an entry.
Names3(e, p, n, l) == e.parent = p /\ e.name = n /\ e.layer = l

PathEntryExistsIn(d, s, p, n, l) ==
  \E e \in d.entries : e.store = s /\ Names3(e, p, n, l)

ValueIs(v, g, n, l) == v.key = g /\ v.name = n /\ v.layer = l
BlanketIs(b, g, l) == b.key = g /\ b.layer = l

\* x NOT IN (SELECT ...): never true once the subquery yields a NULL.
NotIn(x, S) == NoGuid \notin S /\ x \notin S

\* SELECT target_guid ... WHERE target_type = 0.
TargetsWithHidden(entries) == {e.target : e \in entries}
Targets(entries) == {e.target : e \in {f \in entries : f.target # NoGuid}}

-----------------------------------------------------------------------------
(* Where a mutation goes                                                   *)

\* The bound transaction's connection, or the database itself.
Current == IF open THEN work ELSE db

Install(d) ==
  /\ work' = d
  /\ db' = IF open THEN db ELSE d
  /\ UNCHANGED <<open, phase>>

\* resolveHive finds the key, in the pool or in its own transaction.  It is a
\* step of its own: the key may be gone when the mutation runs, and the cached
\* answer may be older still.
Resolve(g) ==
  /\ phase = "serving"
  /\ HasKey(db, g) \/ HasKey(Current, g)
  /\ known' = known \cup {g}
  /\ UNCHANGED <<db, work, open, lastSeq, phase>>

\* The kernel numbers the writes it sends.
NextSeq == lastSeq + 1
Numbered == lastSeq < MaxSeq /\ lastSeq' = NextSeq

-----------------------------------------------------------------------------
(* Keys                                                                    *)

\* The cross-schema check RSI_CREATE_KEY makes beside its primary key.
GuidFree(d, s, g) == ~KeyExistsIn(d, s, g) /\ ~KeyExistsIn(d, Opposite(s), g)

\* RSI_CREATE_KEY, under a parent that resolves or is the root the hive was
\* registered with; the new GUID is cached.
CreateKey(p, g, s) ==
  /\ phase = "serving"
  /\ p \in known \cup {Root}
  /\ GuidFree(Current, s, g)
  /\ Install([Current EXCEPT !.keys = @ \cup {[store |-> s, guid |-> g]}])
  /\ known' = known \cup {p, g}
  /\ UNCHANGED lastSeq

\* RSI_DROP_KEY: eight deletes, the four tables of main and then those of
\* volatile.  What is left after the first n of them:
Ran(s, i, n) == (IF s = "main" THEN i ELSE i + 4) <= n

AfterDeletes(d, g, n) ==
  [keys |-> {k \in d.keys : ~(k.guid = g /\ Ran(k.store, 1, n))},
   entries |-> {e \in d.entries : ~(e.target = g /\ Ran(e.store, 2, n))},
   values |-> {v \in d.values : ~(v.key = g /\ Ran(v.store, 3, n))},
   blankets |-> {b \in d.blankets : ~(b.key = g /\ Ran(b.store, 4, n))}]

DroppedButVolatileValues(d, g) == AfterDeletes(d, g, 6)
Dropped(d, g) == AfterDeletes(d, g, 8)

\* The kernel does not drop the root of a registered hive.
DropKey(g) ==
  /\ phase = "serving"
  /\ g \in known \ {Root}
  /\ Install(Dropped(Current, g))
  /\ UNCHANGED <<known, lastSeq>>

\* A storage fault part-way.  The handler's own transaction is rolled back; in
\* one of the client the first deletes stay done.
DropKeyFails(g) ==
  /\ DropFaults
  /\ phase = "serving" /\ open
  /\ g \in known \ {Root}
  /\ \E n \in 1 .. 7 : Install(AfterDeletes(Current, g, n))
  /\ UNCHANGED <<known, lastSeq>>

-----------------------------------------------------------------------------
(* Path entries                                                            *)

\* The entry goes where the child key is, to main if there is none yet.
EntryStoreUnknownVolatile(d, g) == StoreOf(d, g)
EntryStore(d, g) == IF HasKey(d, g) THEN StoreOf(d, g) ELSE "main"

\* Neither the table's primary key nor the check of the other store objects.
TripleFreeInOwnStore(d, s, p, n, l) == ~PathEntryExistsIn(d, s, p, n, l)
TripleFree(d, s, p, n, l) ==
  ~PathEntryExistsIn(d, s, p, n, l) /\ ~PathEntryExistsIn(d, Opposite(s), p, n, l)

EntryTo(s, p, n, l, target) ==
  [store |-> s, parent |-> p, name |-> n, layer |-> l, target |-> target, seq |-> NextSeq]

\* RSI_CREATE_ENTRY.  Nothing asks again whether the parent is still there.
CreateEntry(p, n, l, g) ==
  LET s == EntryStore(Current, g)
  IN  /\ phase = "serving"
      /\ p \in known
      /\ TripleFree(Current, s, p, n, l)
      /\ Install([Current EXCEPT !.entries = @ \cup {EntryTo(s, p, n, l, g)}])
      /\ Numbered
      /\ UNCHANGED known

\* RSI_HIDE_ENTRY, in the store of the parent: the entry of the other store is
\* deleted and that of its own replaced, under one savepoint.
HideEntry(p, n, l) ==
  LET s == StoreOf(Current, p)
  IN  /\ phase = "serving"
      /\ p \in known /\ HasKey(Current, p)
      /\ Install([Current EXCEPT !.entries =
                    {e \in @ : ~Names3(e, p, n, l)} \cup {EntryTo(s, p, n, l, NoGuid)}])
      /\ Numbered
      /\ UNCHANGED known

\* The deletions visit main, then volatile, and may fail in between.
DeletedFrom == {Stores, {"main"}}

\* RSI_DELETE_ENTRY.
DeleteEntry(p, n, l) ==
  /\ phase = "serving"
  /\ p \in known
  /\ \E stores \in DeletedFrom :
       Install([Current EXCEPT !.entries =
                  {e \in @ : ~(e.store \in stores /\ Names3(e, p, n, l))}])
  /\ UNCHANGED <<known, lastSeq>>

-----------------------------------------------------------------------------
(* Values and blanket tombstones                                           *)

\* INSERT OR REPLACE in the table of store s.
Put(d, s, g, n, l) ==
  [d EXCEPT !.values = {v \in @ : ~(v.store = s /\ ValueIs(v, g, n, l))}
              \cup {[store |-> s, key |-> g, name |-> n, layer |-> l, seq |-> NextSeq]}]

\* RSI_SET_VALUE; the key is looked up again on the write connection.
SetValue(g, n, l) ==
  /\ phase = "serving"
  /\ g \in known /\ HasKey(Current, g)
  /\ Install(Put(Current, StoreOf(Current, g), g, n, l))
  /\ Numbered
  /\ UNCHANGED known

\* The same with an expected sequence: setValueCAS finds the row unchanged.
SetValueCAS(g, n, l, expected) ==
  LET s == StoreOf(Current, g)
  IN  /\ phase = "serving"
      /\ g \in known /\ HasKey(Current, g)
      /\ \E v \in Current.values : v.store = s /\ ValueIs(v, g, n, l) /\ v.seq = expected
      /\ Install(Put(Current, s, g, n, l))
      /\ Numbered
      /\ UNCHANGED known

\* RSI_DELETE_VALUE_ENTRY.
DeleteValueEntry(g, n, l) ==
  /\ phase = "serving"
  /\ g \in known
  /\ \E stores \in DeletedFrom :
       Install([Current EXCEPT !.values =
                  {v \in @ : ~(v.store \in stores /\ ValueIs(v, g, n, l))}])
  /\ UNCHANGED <<known, lastSeq>>

\* RSI_SET_BLANKET_TOMBSTONE, setting and clearing.
SetBlanketTombstone(g, l) ==
  LET s == StoreOf(Current, g)
  IN  /\ phase = "serving"
      /\ g \in known /\ HasKey(Current, g)
      /\ Install([Current EXCEPT !.blankets =
                    {b \in @ : ~(b.store = s /\ BlanketIs(b, g, l))}
                      \cup {[store |-> s, key |-> g, layer |-> l, seq |-> NextSeq]}])
      /\ Numbered
      /\ UNCHANGED known

ClearBlanketTombstone(g, l) ==
  LET s == StoreOf(Current, g)
  IN  /\ phase = "serving"
      /\ g \in known /\ HasKey(Current, g)
      /\ Install([Current EXCEPT !.blankets = {b \in @ : ~(b.store = s /\ BlanketIs(b, g, l))}])
      /\ UNCHANGED <<known, lastSeq>>

-----------------------------------------------------------------------------
(* Layers                                                                  *)

\* findLayerOrphans, the query that runs before the deletes.
FindLayerOrphansPerStore(d, l) ==
  UNION {{g \in Targets({e \in d.entries : e.layer = l /\ e.store = s}) :
            NotIn(g, Targets({e \in d.entries : e.layer # l /\ e.store = s}))} : s \in Stores}
FindLayerOrphans(d, l) ==
  {g \in Targets({e \in d.entries : e.layer = l}) :
     NotIn(g, Targets({e \in d.entries : e.layer # l}))}

WithoutLayer(d, l) ==
  [keys |-> d.keys,
   entries |-> {e \in d.entries : e.layer # l},
   values |-> {v \in d.values : v.layer # l},
   blankets |-> {b \in d.blankets : b.layer # l}]

\* RSI_DELETE_LAYER in this hive.  It cannot join a transaction.
DeleteLayer(l) ==
  /\ phase = "serving"
  /\ ~open
  /\ Install(WithoutLayer(Current, l))
  /\ UNCHANGED <<known, lastSeq>>

-----------------------------------------------------------------------------
(* Transactions, crashes and startup                                       *)

\* getOrBindWrite: BEGIN IMMEDIATE.
Bind ==
  /\ phase = "serving" /\ ~open
  /\ open' = TRUE
  /\ UNCHANGED <<db, work, known, lastSeq, phase>>

Commit ==
  /\ open
  /\ db' = work
  /\ open' = FALSE
  /\ UNCHANGED <<work, known, lastSeq, phase>>

Abort ==
  /\ open
  /\ work' = db
  /\ open' = FALSE
  /\ UNCHANGED <<db, known, lastSeq, phase>>

\* The process ends, at any point; only what main has committed is left, and a
\* fresh volatile database replaces the old one.
Persistent(d) ==
  [keys |-> {k \in d.keys : k.store = "main"},
   entries |-> {e \in d.entries : e.store = "main"},
   values |-> {v \in d.values : v.store = "main"},
   blankets |-> {b \in d.blankets : b.store = "main"}]

Crash ==
  /\ db' = Persistent(db) /\ work' = Persistent(db)
  /\ open' = FALSE /\ known' = {} /\ lastSeq' = 0
  /\ phase' = "down"

\* ensureRootKey.
EnsureRootKey ==
  /\ phase = "down"
  /\ db' = [db EXCEPT !.keys = @ \cup {[store |-> "main", guid |-> Root]}]
  /\ work' = db'
  /\ phase' = "rooted"
  /\ UNCHANGED <<open, known, lastSeq>>

\* The keys cleanOrphans deletes: not the root, and no entry of main has them
\* for its target.
OrphanKeysByAnyRow(d) ==
  {g \in Guids \ {Root} : KeyExistsIn(d, "main", g)
      /\ NotIn(g, TargetsWithHidden({e \in d.entries : e.store = "main"}))}
OrphanKeys(d) ==
  {g \in Guids \ {Root} : KeyExistsIn(d, "main", g)
      /\ NotIn(g, Targets({e \in d.entries : e.store = "main"}))}

\* cleanOrphans: values, tombstones and key rows, in one SQL transaction.
Cleaned(d) ==
  [keys |-> {k \in d.keys : ~(k.store = "main" /\ k.guid \in OrphanKeys(d))},
   entries |-> d.entries,
   values |-> {v \in d.values : ~(v.store = "main" /\ v.key \in OrphanKeys(d))},
   blankets |-> {b \in d.blankets : ~(b.store = "main" /\ b.key \in OrphanKeys(d))}]

\* MaxSequence, 0 for empty tables.
SequencesExceptBlankets(d) == {e.seq : e \in d.entries} \cup {v.seq : v \in d.values}
SequencesIn(d) ==
  {e.seq : e \in d.entries} \cup {v.seq : v \in d.values} \cup {b.seq : b \in d.blankets}
MaxSequence(d) ==
  CHOOSE m \in SequencesIn(d) \cup {0} : \A n \in SequencesIn(d) : n <= m

\* The hive is cleaned and registered with its highest sequence, from which the
\* kernel goes on; the GUID cache starts with the root.
CleanAndRegister ==
  /\ phase = "rooted"
  /\ db' = Cleaned(db) /\ work' = Cleaned(db)
  /\ lastSeq' = MaxSequence(Cleaned(db))
  /\ known' = {Root}
  /\ phase' = "serving"
  /\ UNCHANGED open

-----------------------------------------------------------------------------
KeyOps ==
  \E g \in Guids :
    \/ Resolve(g) \/ DropKey(g) \/ DropKeyFails(g)
    \/ \E p \in Guids, s \in Stores : CreateKey(p, g, s)

EntryOps ==
  \E p \in Guids, n \in Names, l \in Layers :
    \/ HideEntry(p, n, l) \/ DeleteEntry(p, n, l)
    \/ \E g \in Guids \ {p, Root} : CreateEntry(p, n, l, g)

ValueOps ==
  \E g \in Guids, l \in Layers :
    \/ SetBlanketTombstone(g, l) \/ ClearBlanketTombstone(g, l)
    \/ \E n \in Names :
         \/ SetValue(g, n, l) \/ DeleteValueEntry(g, n, l)
         \/ \E expected \in Sequences : SetValueCAS(g, n, l, expected)

Next ==
  \/ KeyOps \/ EntryOps \/ ValueOps
  \/ \E l \in Layers : DeleteLayer(l)
  \/ Bind \/ Commit \/ Abort
  \/ Crash \/ EnsureRootKey \/ CleanAndRegister

Spec == Init /\ [][Next]_vars

-----------------------------------------------------------------------------
(* Properties                                                              *)

\* The tables hold rows of their types, and without an open transaction there
\* is nothing uncommitted.
TypeOK ==
  /\ db \in Database /\ work \in Database
  /\ open \in BOOLEAN
  /\ known \subseteq Guids
  /\ lastSeq \in 0 .. MaxSeq
  /\ phase \in {"down", "rooted", "serving"}
  /\ ~open => work = db

\* A primary key binds one schema only: a GUID never comes to exist in both
\* stores, where every read would resolve it to the main row.
GuidInOneStore ==
  \A j, k \in work.keys : j.guid = k.guid => j.store = k.store

\* Nothing de-duplicates on read: UNION ALL over the two stores never yields
\* two entries claiming the same name in the same layer.
OneEntryPerLayer ==
  \A e, f \in work.entries : Names3(e, f.parent, f.name, f.layer) => e = f

\* Values and tombstones belong to a key of their own store, so a GUID that is
\* created again never inherits rows, and a query never yields two values of
\* one name in one layer.
RowsHaveTheirKey ==
  /\ \A v \in work.values : KeyExistsIn(work, v.store, v.key)
  /\ \A b \in work.blankets : KeyExistsIn(work, b.store, b.key)
  /\ \A v, w \in work.values : ValueIs(v, w.key, w.name, w.layer) => v = w

\* An entry is volatile only if its target is a volatile key (or its parent is,
\* for a HIDDEN one), so no name of a persistent key dies with the process.
VolatileNamesVolatileKeys ==
  \A e \in work.entries :
    e.store = "volatile" /\ e.target # NoGuid => KeyExistsIn(work, "volatile", e.target)

\* What RSI_DELETE_LAYER reports is exactly what the deletion leaves without a
\* reference, whichever store the references are in.
OrphansExact ==
  \A l \in Layers :
    FindLayerOrphans(work, l)
      = Targets(work.entries) \ Targets(WithoutLayer(work, l).entries)

\* Two rows never carry the same sequence, across tables, transactions and
\* restarts: the kernel rejects a tie as malformed source data.
SequencesDistinct ==
  LET rows == work.entries \cup work.values \cup work.blankets
  IN  \A x, y \in rows : x.seq = y.seq => x = y

\* Crash recovery removes exactly the keys no path entry points at, with their
\* rows: every other key, entry, value and tombstone of the file survives.
RecoveryExact ==
  [][phase = "rooted" /\ phase' = "serving" =>
       LET named(g) == g = Root \/ \E e \in db.entries : e.target = g
       IN  /\ db'.keys = {k \in db.keys : named(k.guid)}
           /\ db'.entries = db.entries
           /\ db'.values = {v \in db.values : named(v.key)}
           /\ db'.blankets = {b \in db.blankets : named(b.key)}]_vars

\* A committed drop is a whole one, "the outer transaction provides atomicity":
\* when a key leaves the database its values and tombstones leave with it.
\* RowsHaveTheirKey implies it as long as no drop fails part-way.
DropsAreWhole ==
  [][phase = "serving" /\ phase' = "serving" =>
       \A g \in Guids : HasKey(db, g) /\ ~HasKey(db', g) =>
         /\ \A v \in db'.values : v.key # g
         /\ \A b \in db'.blankets : b.key # g]_vars

\* A crash costs nothing that is persistent and was named: a committed main
\* key with an entry in either store is there again when the hive serves.
NamedKeysSurvive ==
  \A g \in Guids :
    KeyExistsIn(db, "main", g) /\ g \in Targets(db.entries)
    => KeyExistsIn(Cleaned(Persistent(db)), "main", g)
=============================================================================
