-------------------------- MODULE HiveStoreProofs --------------------------
(***************************************************************************)
(* What the tables of a hive keep, for any numbers of keys, names, layers  *)
(* and writes: every GUID lives in one store, every name is bound once per *)
(* layer, and no two rows carry the same sequence.  Unless a drop fails    *)
(* part-way in a client's transaction, rows also go when their key goes    *)
(* and crash recovery deletes exactly what nothing names.                  *)
(***************************************************************************)
EXTENDS HiveStore, WellFoundedInduction, TLAPS

\* The properties as facts about one database: the committed one has them
\* besides the open transaction's, since an abort falls back on it.
OneStore(d) == \A j, k \in d.keys : j.guid = k.guid => j.store = k.store

OneEntry(d) == \A e, f \in d.entries : Names3(e, f.parent, f.name, f.layer) => e = f

Rows(d) == d.entries \cup d.values \cup d.blankets

Distinct(d) == \A x, y \in Rows(d) : x.seq = y.seq => x = y

Sound(d) == d \in Database /\ OneStore(d) /\ OneEntry(d) /\ Distinct(d)

\* Every write of d was numbered by n.
AtMost(d, n) == \A x \in Rows(d) : x.seq <= n

\* The inductive invariant.  A new row is distinct because the kernel's counter
\* is ahead of both databases; the root is new to both stores because volatile
\* is empty before the hive serves.
IInv ==
  /\ TypeOK
  /\ Sound(db) /\ Sound(work)
  /\ phase = "serving" => AtMost(db, lastSeq) /\ AtMost(work, lastSeq)
  /\ phase # "serving" => ~open /\ \A k \in db.keys : k.store = "main"

-----------------------------------------------------------------------------
(* Sequence numbers                                                        *)

\* Every row of a database is numbered between 1 and MaxSeq.
LEMMA RowsNumbered ==
  ASSUME NEW d \in Database
  PROVE  /\ SequencesIn(d) \in SUBSET Sequences
         /\ \A x \in Rows(d) : x.seq \in SequencesIn(d)
  BY DEF Database, EntryRow, ValueRow, BlanketRow, SequencesIn, Rows

LEMMA LeastOf ==
  ASSUME NEW T \in SUBSET Nat, T # {}
  PROVE  \E m \in T : \A k \in T : m <= k
<1>1. IsWellFoundedOn(OpToRel(<, Nat), Nat)
  BY NatLessThanWellFounded
<1>2. PICK m \in T : \A k \in T : ~(<<k, m>> \in OpToRel(<, Nat))
  BY <1>1, WFMin
<1>3. \A k \in T : ~(k < m)
  BY <1>2 DEF OpToRel
<1> QED BY <1>3

\* MaxSequence, as the query computes it, is a bound of what it scans.
LEMMA MaxSequenceBounds ==
  ASSUME NEW d \in Database
  PROVE  MaxSequence(d) \in 0 .. MaxSeq /\ AtMost(d, MaxSequence(d))
<1> DEFINE S == SequencesIn(d) \cup {0}
           T == {MaxSeq - n : n \in S}
<1>1. S \in SUBSET (0 .. MaxSeq) /\ MaxSeq \in Nat
  BY RowsNumbered, StoreAssumption DEF Sequences
<1>2. T \in SUBSET Nat /\ T # {}
  BY <1>1
<1>3. PICK t \in T : \A k \in T : t <= k
  BY <1>2, LeastOf
<1>4. PICK m \in S : t = MaxSeq - m
  OBVIOUS
<1>5. \A n \in S : MaxSeq - m <= MaxSeq - n
  BY <1>3, <1>4
<1>6. \A n \in SequencesIn(d) : n <= m
  BY <1>1, <1>5
<1>7. MaxSequence(d) \in S /\ \A n \in SequencesIn(d) : n <= MaxSequence(d)
  BY <1>6 DEF MaxSequence
<1> QED BY <1>1, <1>7, RowsNumbered DEF AtMost

-----------------------------------------------------------------------------
(* What mutations do to a database                                         *)

\* Deleting rows breaks nothing.
LEMMA DeletingKeeps ==
  ASSUME NEW d, Sound(d), NEW e \in Database,
         e.keys \subseteq d.keys, e.entries \subseteq d.entries,
         e.values \subseteq d.values, e.blankets \subseteq d.blankets
  PROVE  Sound(e) /\ \A n : AtMost(d, n) => AtMost(e, n)
  BY DEF Sound, OneStore, OneEntry, Rows, Distinct, AtMost

\* Neither does one new row with the next number, if its name is free.
LEMMA AddingKeeps ==
  ASSUME NEW d, Sound(d), NEW e \in Database, NEW n \in Nat, NEW r,
         AtMost(d, n), r.seq = n + 1,
         e.keys = d.keys, Rows(e) \subseteq Rows(d) \cup {r}, OneEntry(e)
  PROVE  Sound(e) /\ AtMost(e, n + 1)
<1>1. \A x \in Rows(d) : x.seq \in Nat /\ x.seq <= n
  BY RowsNumbered, StoreAssumption DEF Sound, AtMost, Sequences
<1>2. Distinct(e)
  BY <1>1 DEF Distinct, Sound
<1>3. AtMost(e, n + 1)
  BY <1>1 DEF AtMost
<1> QED BY <1>2, <1>3 DEF Sound, OneStore

\* Whatever a mutation installs, in the transaction or in the database itself,
\* the invariant holds afterwards if it holds of what is installed.
LEMMA InstallKeeps ==
  ASSUME IInv, phase = "serving", NEW d, Install(d),
         Sound(d), AtMost(d, lastSeq'),
         lastSeq' \in 0 .. MaxSeq, lastSeq <= lastSeq', known' \subseteq Guids
  PROVE  IInv'
<1>1. Sound(work)' /\ AtMost(work, lastSeq)'
  BY DEF Install
<1>2. AtMost(db, lastSeq')
  <2>1. \A x \in Rows(db) : x.seq \in Int /\ x.seq <= lastSeq
    BY RowsNumbered, StoreAssumption DEF IInv, Sound, AtMost, Sequences
  <2> QED BY <2>1 DEF AtMost, IInv, TypeOK
<1>3. Sound(db)' /\ AtMost(db, lastSeq)'
  BY <1>2 DEF Install, IInv
<1>4. TypeOK'
  BY <1>1, <1>3 DEF Install, IInv, TypeOK, Sound
<1> QED BY <1>1, <1>3, <1>4 DEF Install, IInv

LEMMA CurrentSound ==
  ASSUME IInv, phase = "serving"
  PROVE  Sound(Current) /\ AtMost(Current, lastSeq) /\ Current \in Database
  BY DEF IInv, Current, Sound

-----------------------------------------------------------------------------
(* One lemma per kind of mutation                                          *)

\* A mutation that only deletes rows.
LEMMA InstallFewer ==
  ASSUME IInv, phase = "serving", NEW e \in Database, Install(e),
         e.keys \subseteq Current.keys, e.entries \subseteq Current.entries,
         e.values \subseteq Current.values, e.blankets \subseteq Current.blankets,
         UNCHANGED <<known, lastSeq>>
  PROVE  IInv'
<1>1. Sound(e) /\ AtMost(e, lastSeq)
  BY CurrentSound, DeletingKeeps
<1>2. lastSeq \in 0 .. MaxSeq /\ lastSeq \in Int /\ known \subseteq Guids
  BY StoreAssumption DEF IInv, TypeOK
<1> QED BY <1>1, <1>2, InstallKeeps

\* A mutation that the kernel numbered and that puts one row.
LEMMA InstallRow ==
  ASSUME IInv, phase = "serving", Numbered, UNCHANGED known,
         NEW e \in Database, NEW r, Install(e), r.seq = NextSeq,
         e.keys = Current.keys, Rows(e) \subseteq Rows(Current) \cup {r}, OneEntry(e)
  PROVE  IInv'
<1>1. lastSeq \in Nat /\ lastSeq' = lastSeq + 1 /\ lastSeq' \in 0 .. MaxSeq /\ known \subseteq Guids
  BY StoreAssumption DEF IInv, TypeOK, Numbered, NextSeq
<1>2. Sound(e) /\ AtMost(e, lastSeq + 1)
  BY <1>1, CurrentSound, AddingKeeps DEF NextSeq
<1> QED BY <1>1, <1>2, InstallKeeps

\* The number of a row the kernel sends is in range.
LEMMA NumberedInRange ==
  ASSUME IInv, Numbered
  PROVE  NextSeq \in Sequences
  BY StoreAssumption DEF IInv, TypeOK, Numbered, NextSeq, Sequences

LEMMA CreateKeyKeeps ==
  ASSUME IInv, NEW p \in Guids, NEW g \in Guids, NEW s \in Stores, CreateKey(p, g, s)
  PROVE  IInv'
<1> DEFINE new == [store |-> s, guid |-> g]
           e == [Current EXCEPT !.keys = @ \cup {new}]
<1>1. phase = "serving" /\ Sound(Current) /\ AtMost(Current, lastSeq) /\ Current \in Database
  BY CurrentSound DEF CreateKey
<1>2. /\ e \in Database /\ e.keys = Current.keys \cup {new}
      /\ e.entries = Current.entries /\ e.values = Current.values /\ e.blankets = Current.blankets
  BY <1>1 DEF Database, KeyRow
<1>3. \A k \in Current.keys : k.guid # g
  BY <1>1 DEF CreateKey, GuidFree, KeyExistsIn, Database, KeyRow, Stores, Opposite
<1>4. OneStore(e)
  BY <1>1, <1>2, <1>3 DEF OneStore, Sound
<1>5. Sound(e) /\ AtMost(e, lastSeq)
  BY <1>1, <1>2, <1>4 DEF Sound, OneEntry, Distinct, Rows, AtMost
<1>6. /\ lastSeq' = lastSeq /\ lastSeq \in 0 .. MaxSeq /\ lastSeq \in Int
      /\ known' \subseteq Guids /\ Install(e)
  BY StoreAssumption DEF CreateKey, IInv, TypeOK
<1> QED BY <1>1, <1>5, <1>6, InstallKeeps

LEMMA AfterDeletesFewer ==
  ASSUME NEW d \in Database, NEW g, NEW n
  PROVE  /\ AfterDeletes(d, g, n) \in Database
         /\ AfterDeletes(d, g, n).keys \subseteq d.keys
         /\ AfterDeletes(d, g, n).entries \subseteq d.entries
         /\ AfterDeletes(d, g, n).values \subseteq d.values
         /\ AfterDeletes(d, g, n).blankets \subseteq d.blankets
  BY DEF AfterDeletes, Database

\* RSI_DROP_KEY, whole or cut short.
LEMMA DropKeyKeeps ==
  ASSUME IInv, NEW g \in Guids, DropKey(g) \/ DropKeyFails(g)
  PROVE  IInv'
<1>1. /\ phase = "serving" /\ UNCHANGED <<known, lastSeq>>
      /\ \E n : Install(AfterDeletes(Current, g, n))
  BY DEF DropKey, DropKeyFails, Dropped
<1>2. PICK n : Install(AfterDeletes(Current, g, n))
  BY <1>1
<1> QED BY <1>1, <1>2, CurrentSound, AfterDeletesFewer, InstallFewer

LEMMA CreateEntryKeeps ==
  ASSUME IInv, NEW p \in Guids, NEW n \in Names, NEW l \in Layers, NEW g \in Guids,
         CreateEntry(p, n, l, g)
  PROVE  IInv'
<1> DEFINE s == EntryStore(Current, g)
           r == EntryTo(s, p, n, l, g)
           e == [Current EXCEPT !.entries = @ \cup {r}]
<1>1. phase = "serving" /\ Sound(Current) /\ Current \in Database /\ NextSeq \in Sequences
  BY CurrentSound, NumberedInRange DEF CreateEntry
<1>2. s \in Stores
  BY DEF EntryStore, StoreOf, Stores
<1>3. r \in EntryRow /\ r.seq = NextSeq
      /\ r.parent = p /\ r.name = n /\ r.layer = l
  BY <1>1, <1>2 DEF EntryTo, EntryRow
<1>4. /\ e \in Database /\ e.keys = Current.keys /\ e.entries = Current.entries \cup {r}
      /\ e.values = Current.values /\ e.blankets = Current.blankets
  BY <1>1, <1>3 DEF Database
<1>5. \A f \in Current.entries : ~Names3(f, p, n, l)
  <2>1. TripleFree(Current, s, p, n, l)
    BY DEF CreateEntry
  <2>2. \A f \in Current.entries : f.store \in Stores
    BY <1>1 DEF Database, EntryRow
  <2> QED BY <2>1, <2>2, <1>2 DEF TripleFree, PathEntryExistsIn, Opposite, Stores
<1>6. OneEntry(e)
  BY <1>1, <1>3, <1>4, <1>5 DEF OneEntry, Sound, Names3
<1>7. Rows(e) \subseteq Rows(Current) \cup {r}
  BY <1>4 DEF Rows
<1>8. Install(e) /\ Numbered /\ UNCHANGED known
  BY DEF CreateEntry
<1> QED BY <1>1, <1>3, <1>4, <1>6, <1>7, <1>8, InstallRow

LEMMA HideEntryKeeps ==
  ASSUME IInv, NEW p \in Guids, NEW n \in Names, NEW l \in Layers, HideEntry(p, n, l)
  PROVE  IInv'
<1> DEFINE s == StoreOf(Current, p)
           r == EntryTo(s, p, n, l, NoGuid)
           e == [Current EXCEPT !.entries = {f \in @ : ~Names3(f, p, n, l)} \cup {r}]
<1>1. phase = "serving" /\ Sound(Current) /\ Current \in Database /\ NextSeq \in Sequences
  BY CurrentSound, NumberedInRange DEF HideEntry
<1>2. s \in Stores
  BY DEF StoreOf, Stores
<1>3. r \in EntryRow /\ r.seq = NextSeq
      /\ r.parent = p /\ r.name = n /\ r.layer = l
  BY <1>1, <1>2 DEF EntryTo, EntryRow
<1>4. /\ e \in Database /\ e.keys = Current.keys
      /\ e.entries = {f \in Current.entries : ~Names3(f, p, n, l)} \cup {r}
      /\ e.values = Current.values /\ e.blankets = Current.blankets
  BY <1>1, <1>3 DEF Database
<1>5. OneEntry(e)
  BY <1>1, <1>3, <1>4 DEF OneEntry, Sound, Names3
<1>6. Rows(e) \subseteq Rows(Current) \cup {r}
  BY <1>4 DEF Rows
<1>7. Install(e) /\ Numbered /\ UNCHANGED known
  BY DEF HideEntry
<1> QED BY <1>1, <1>3, <1>4, <1>5, <1>6, <1>7, InstallRow

LEMMA DeleteEntryKeeps ==
  ASSUME IInv, NEW p \in Guids, NEW n \in Names, NEW l \in Layers, DeleteEntry(p, n, l)
  PROVE  IInv'
<1> DEFINE rest(stores) == {f \in Current.entries : ~(f.store \in stores /\ Names3(f, p, n, l))}
           e(stores) == [Current EXCEPT !.entries = rest(stores)]
<1>1. PICK stores \in DeletedFrom : Install(e(stores))
  BY DEF DeleteEntry
<1>2. phase = "serving" /\ Current \in Database /\ UNCHANGED <<known, lastSeq>>
  BY CurrentSound DEF DeleteEntry
<1>3. /\ e(stores) \in Database /\ e(stores).keys = Current.keys /\ e(stores).entries = rest(stores)
      /\ e(stores).values = Current.values /\ e(stores).blankets = Current.blankets
  BY <1>2 DEF Database
<1> QED BY <1>1, <1>2, <1>3, InstallFewer

\* INSERT OR REPLACE of a value adds one row.
LEMMA PutKeeps ==
  ASSUME IInv, phase = "serving", Numbered, UNCHANGED known,
         NEW s \in Stores, NEW g \in Guids, NEW n \in Names, NEW l \in Layers,
         Install(Put(Current, s, g, n, l))
  PROVE  IInv'
<1> DEFINE r == [store |-> s, key |-> g, name |-> n, layer |-> l, seq |-> NextSeq]
           e == Put(Current, s, g, n, l)
<1>1. Sound(Current) /\ Current \in Database /\ NextSeq \in Sequences
  BY CurrentSound, NumberedInRange
<1>2. r \in ValueRow /\ r.seq = NextSeq
  BY <1>1 DEF ValueRow
<1>3. /\ e \in Database /\ e.keys = Current.keys /\ e.entries = Current.entries
      /\ e.values \subseteq Current.values \cup {r} /\ e.blankets = Current.blankets
  BY <1>1, <1>2 DEF Database, Put
<1>4. OneEntry(e) /\ Rows(e) \subseteq Rows(Current) \cup {r}
  BY <1>1, <1>3 DEF OneEntry, Sound, Rows
<1> QED BY <1>2, <1>3, <1>4, InstallRow

LEMMA SetValueKeeps ==
  ASSUME IInv, NEW g \in Guids, NEW n \in Names, NEW l \in Layers,
         SetValue(g, n, l) \/ \E expected \in Sequences : SetValueCAS(g, n, l, expected)
  PROVE  IInv'
<1>1. /\ phase = "serving" /\ Numbered /\ UNCHANGED known
      /\ Install(Put(Current, StoreOf(Current, g), g, n, l))
  BY DEF SetValue, SetValueCAS
<1>2. StoreOf(Current, g) \in Stores
  BY DEF StoreOf, Stores
<1> QED BY <1>1, <1>2, PutKeeps

LEMMA DeleteValueEntryKeeps ==
  ASSUME IInv, NEW g \in Guids, NEW n \in Names, NEW l \in Layers, DeleteValueEntry(g, n, l)
  PROVE  IInv'
<1> DEFINE rest(stores) == {v \in Current.values : ~(v.store \in stores /\ ValueIs(v, g, n, l))}
           e(stores) == [Current EXCEPT !.values = rest(stores)]
<1>1. PICK stores \in DeletedFrom : Install(e(stores))
  BY DEF DeleteValueEntry
<1>2. phase = "serving" /\ Current \in Database /\ UNCHANGED <<known, lastSeq>>
  BY CurrentSound DEF DeleteValueEntry
<1>3. /\ e(stores) \in Database /\ e(stores).keys = Current.keys /\ e(stores).values = rest(stores)
      /\ e(stores).entries = Current.entries /\ e(stores).blankets = Current.blankets
  BY <1>2 DEF Database
<1> QED BY <1>1, <1>2, <1>3, InstallFewer

LEMMA SetBlanketTombstoneKeeps ==
  ASSUME IInv, NEW g \in Guids, NEW l \in Layers, SetBlanketTombstone(g, l)
  PROVE  IInv'
<1> DEFINE s == StoreOf(Current, g)
           r == [store |-> s, key |-> g, layer |-> l, seq |-> NextSeq]
           e == [Current EXCEPT !.blankets = {b \in @ : ~(b.store = s /\ BlanketIs(b, g, l))} \cup {r}]
<1>1. phase = "serving" /\ Sound(Current) /\ Current \in Database /\ NextSeq \in Sequences
  BY CurrentSound, NumberedInRange DEF SetBlanketTombstone
<1>2. r \in BlanketRow /\ r.seq = NextSeq
  BY <1>1 DEF BlanketRow, StoreOf, Stores
<1>3. /\ e \in Database /\ e.keys = Current.keys /\ e.entries = Current.entries
      /\ e.values = Current.values /\ e.blankets \subseteq Current.blankets \cup {r}
  BY <1>1, <1>2 DEF Database
<1>4. OneEntry(e) /\ Rows(e) \subseteq Rows(Current) \cup {r}
  BY <1>1, <1>3 DEF OneEntry, Sound, Rows
<1>5. Install(e) /\ Numbered /\ UNCHANGED known
  BY DEF SetBlanketTombstone
<1> QED BY <1>1, <1>2, <1>3, <1>4, <1>5, InstallRow

LEMMA ClearBlanketTombstoneKeeps ==
  ASSUME IInv, NEW g \in Guids, NEW l \in Layers, ClearBlanketTombstone(g, l)
  PROVE  IInv'
<1> DEFINE s == StoreOf(Current, g)
           rest == {b \in Current.blankets : ~(b.store = s /\ BlanketIs(b, g, l))}
           e == [Current EXCEPT !.blankets = rest]
<1>1. phase = "serving" /\ Current \in Database /\ Install(e) /\ UNCHANGED <<known, lastSeq>>
  BY CurrentSound DEF ClearBlanketTombstone
<1>2. /\ e \in Database /\ e.keys = Current.keys /\ e.entries = Current.entries
      /\ e.values = Current.values /\ e.blankets = rest
  BY <1>1 DEF Database
<1> QED BY <1>1, <1>2, InstallFewer

LEMMA DeleteLayerKeeps ==
  ASSUME IInv, NEW l \in Layers, DeleteLayer(l)
  PROVE  IInv'
<1> DEFINE e == WithoutLayer(Current, l)
<1>1. phase = "serving" /\ Current \in Database /\ Install(e) /\ UNCHANGED <<known, lastSeq>>
  BY CurrentSound DEF DeleteLayer
<1>2. /\ e \in Database /\ e.keys \subseteq Current.keys /\ e.entries \subseteq Current.entries
      /\ e.values \subseteq Current.values /\ e.blankets \subseteq Current.blankets
  BY <1>1 DEF Database, WithoutLayer
<1> QED BY <1>1, <1>2, InstallFewer

-----------------------------------------------------------------------------
(* Transactions, crash and startup                                         *)

LEMMA TransactionKeeps ==
  ASSUME IInv, Bind \/ Commit \/ Abort
  PROVE  IInv'
<1>1. CASE Bind
  BY <1>1 DEF Bind, IInv, TypeOK
<1>2. CASE Commit
  BY <1>2 DEF Commit, IInv, TypeOK
<1>3. CASE Abort
  BY <1>3 DEF Abort, IInv, TypeOK
<1> QED BY <1>1, <1>2, <1>3

LEMMA CrashKeeps ==
  ASSUME IInv, Crash
  PROVE  IInv'
<1> DEFINE e == Persistent(db)
<1>1. /\ e \in Database /\ e.keys \subseteq db.keys /\ e.entries \subseteq db.entries
      /\ e.values \subseteq db.values /\ e.blankets \subseteq db.blankets
      /\ \A k \in e.keys : k.store = "main"
  BY DEF IInv, TypeOK, Persistent, Database
<1>2. Sound(e)
  BY <1>1, DeletingKeeps DEF IInv
<1>3. /\ db' = e /\ work' = e /\ ~open' /\ open' \in BOOLEAN
      /\ known' = {} /\ lastSeq' = 0 /\ phase' = "down"
  BY Zenon DEF Crash
<1>4. TypeOK'
  BY <1>1, <1>3, StoreAssumption DEF TypeOK
<1> HIDE DEF e
<1> QED BY <1>1, <1>2, <1>3, <1>4 DEF IInv

\* volatile is empty when the root is made sure of, so it is in main alone.
LEMMA EnsureRootKeyKeeps ==
  ASSUME IInv, EnsureRootKey
  PROVE  IInv'
<1> DEFINE new == [store |-> "main", guid |-> Root]
           e == [db EXCEPT !.keys = @ \cup {new}]
<1>1. db \in Database /\ Sound(db) /\ ~open /\ \A k \in db.keys : k.store = "main"
  BY DEF IInv, TypeOK, EnsureRootKey
<1>2. /\ e \in Database /\ e.keys = db.keys \cup {new}
      /\ e.entries = db.entries /\ e.values = db.values /\ e.blankets = db.blankets
  BY <1>1, StoreAssumption DEF Database, KeyRow, Stores
<1>3. Sound(e)
  BY <1>1, <1>2 DEF Sound, OneStore, OneEntry, Distinct, Rows
<1>4. \A k \in e.keys : k.store = "main"
  BY <1>1, <1>2
<1> QED BY <1>1, <1>2, <1>3, <1>4 DEF EnsureRootKey, IInv, TypeOK

LEMMA CleanAndRegisterKeeps ==
  ASSUME IInv, CleanAndRegister
  PROVE  IInv'
<1> DEFINE e == Cleaned(db)
<1>1. /\ e \in Database /\ e.keys \subseteq db.keys /\ e.entries \subseteq db.entries
      /\ e.values \subseteq db.values /\ e.blankets \subseteq db.blankets
  BY DEF IInv, TypeOK, Cleaned, Database
<1>2. Sound(e)
  BY <1>1, DeletingKeeps DEF IInv
<1>3. MaxSequence(e) \in 0 .. MaxSeq /\ AtMost(e, MaxSequence(e))
  BY <1>1, MaxSequenceBounds
<1> QED BY <1>1, <1>2, <1>3, StoreAssumption DEF CleanAndRegister, IInv, TypeOK

-----------------------------------------------------------------------------
LEMMA InitInv == Init => IInv
<1> SUFFICES ASSUME Init PROVE IInv
  OBVIOUS
<1>1. EmptyDatabase \in Database /\ Sound(EmptyDatabase) /\ EmptyDatabase.keys = {}
  BY DEF EmptyDatabase, Database, Sound, OneStore, OneEntry, Distinct, Rows
<1>2. ~open /\ open \in BOOLEAN
  BY Zenon DEF Init
<1>3. TypeOK
  BY <1>1, <1>2, StoreAssumption DEF Init, TypeOK
<1> QED BY <1>1, <1>2, <1>3 DEF Init, IInv

LEMMA NextInv == IInv /\ [Next]_vars => IInv'
<1> SUFFICES ASSUME IInv, [Next]_vars PROVE IInv'
  OBVIOUS
<1>1. CASE UNCHANGED vars
  BY <1>1 DEF vars, IInv, TypeOK, Sound, OneStore, OneEntry, Distinct, Rows, AtMost
<1>2. CASE KeyOps
  <2>1. PICK g \in Guids : \/ Resolve(g) \/ DropKey(g) \/ DropKeyFails(g)
                           \/ \E p \in Guids, s \in Stores : CreateKey(p, g, s)
    BY <1>2 DEF KeyOps
  <2>2. CASE Resolve(g)
    BY <2>2 DEF Resolve, IInv, TypeOK
  <2> QED BY <2>1, <2>2, DropKeyKeeps, CreateKeyKeeps
<1>3. CASE EntryOps
  BY <1>3, HideEntryKeeps, DeleteEntryKeeps, CreateEntryKeeps DEF EntryOps
<1>4. CASE ValueOps
  BY <1>4, SetValueKeeps, DeleteValueEntryKeeps, SetBlanketTombstoneKeeps,
     ClearBlanketTombstoneKeeps DEF ValueOps
<1>5. CASE \E l \in Layers : DeleteLayer(l)
  BY <1>5, DeleteLayerKeeps
<1>6. CASE Bind \/ Commit \/ Abort
  BY <1>6, TransactionKeeps
<1>7. CASE Crash \/ EnsureRootKey \/ CleanAndRegister
  BY <1>7, CrashKeeps, EnsureRootKeyKeeps, CleanAndRegisterKeeps
<1> QED BY <1>1, <1>2, <1>3, <1>4, <1>5, <1>6, <1>7 DEF Next

\* The invariant of the tables holds throughout, whatever mutations,
\* transactions, failed drops, crashes and restarts there are.
THEOREM StoreInvariant == Spec => []IInv
  BY InitInv, NextInv, PTL DEF Spec

\* The rows of all four tables keep their types, the kernel's counter stays in
\* its range, and nothing is uncommitted without an open transaction.
THEOREM StoreTypeCorrect == Spec => []TypeOK
<1>1. IInv => TypeOK
  BY DEF IInv
<1> QED BY <1>1, StoreInvariant, PTL

\* RSI_CREATE_KEY's check of the other schema suffices: no GUID ever comes to
\* live in both stores of a hive.
THEOREM GuidNeverSplit == Spec => []GuidInOneStore
<1>1. IInv => GuidInOneStore
  BY DEF IInv, Sound, OneStore, GuidInOneStore
<1> QED BY <1>1, StoreInvariant, PTL

\* RSI_CREATE_ENTRY and RSI_HIDE_ENTRY never leave two entries for one name in
\* one layer, in the same store or across the two.
THEOREM EntryNeverDoubled == Spec => []OneEntryPerLayer
<1>1. IInv => OneEntryPerLayer
  BY DEF IInv, Sound, OneEntry, OneEntryPerLayer
<1> QED BY <1>1, StoreInvariant, PTL

\* No two rows of a hive share a sequence number, restarts included.
THEOREM SequenceNeverTied == Spec => []SequencesDistinct
<1>1. IInv => SequencesDistinct
  BY DEF IInv, Sound, Distinct, Rows, SequencesDistinct
<1> QED BY <1>1, StoreInvariant, PTL

\* What RSI_DELETE_LAYER reports is right in whatever state it runs.
THEOREM OrphansAreExact == Spec => []OrphansExact
<1>1. OrphansExact
  BY DEF OrphansExact, FindLayerOrphans, NotIn, Targets, WithoutLayer
<1> QED BY <1>1, PTL

-----------------------------------------------------------------------------
(***************************************************************************)
(* Without drops that fail part-way: rows never outlive their key.         *)
(***************************************************************************)
Owned(d) ==
  /\ \A v \in d.values : KeyExistsIn(d, v.store, v.key)
  /\ \A b \in d.blankets : KeyExistsIn(d, b.store, b.key)
  /\ \A v, w \in d.values : ValueIs(v, w.key, w.name, w.layer) => v = w

VolatileNamed(d) ==
  \A e \in d.entries :
    e.store = "volatile" /\ e.target # NoGuid => KeyExistsIn(d, "volatile", e.target)

Kept(d) == Owned(d) /\ VolatileNamed(d)

\* Before the hive serves there is nothing in volatile.
AllMain(d) == /\ \A x \in Rows(d) : x.store = "main"
              /\ \A k \in d.keys : k.store = "main"

KInv == /\ IInv
        /\ Kept(db) /\ Kept(work)
        /\ phase # "serving" => AllMain(db)

LEMMA InstallKept ==
  ASSUME KInv, IInv', phase = "serving", NEW d, Install(d), Kept(d)
  PROVE  KInv'
<1>1. Kept(db)' /\ Kept(work)' /\ phase' = "serving"
  BY DEF Install, KInv
<1> QED BY <1>1 DEF KInv

\* Deleting rows other than keys leaves no row without its key.
LEMMA FewerRowsKept ==
  ASSUME NEW d, Kept(d), NEW e, e.keys = d.keys, e.entries \subseteq d.entries,
         e.values \subseteq d.values, e.blankets \subseteq d.blankets
  PROVE  Kept(e)
  BY DEF Kept, Owned, VolatileNamed, KeyExistsIn

LEMMA CurrentKept ==
  ASSUME KInv, phase = "serving"
  PROVE  Kept(Current) /\ Sound(Current) /\ Current \in Database
  BY CurrentSound DEF KInv, Current

\* The store a key is found in has the key.
LEMMA StoreHasKey ==
  ASSUME NEW d \in Database, NEW g, HasKey(d, g)
  PROVE  KeyExistsIn(d, StoreOf(d, g), g) /\ StoreOf(d, g) \in Stores
<1>1. PICK k \in d.keys : k.guid = g
  BY DEF HasKey
<1>2. k = [store |-> k.store, guid |-> g] /\ k.store \in Stores
  BY <1>1 DEF Database, KeyRow
<1> QED BY <1>1, <1>2 DEF StoreOf, KeyExistsIn, Stores

LEMMA CreateKeyKept ==
  ASSUME KInv, IInv', NEW p \in Guids, NEW g \in Guids, NEW s \in Stores, CreateKey(p, g, s)
  PROVE  KInv'
<1> DEFINE e == [Current EXCEPT !.keys = @ \cup {[store |-> s, guid |-> g]}]
<1>1. phase = "serving" /\ Kept(Current) /\ Current \in Database /\ Install(e)
  BY CurrentKept DEF CreateKey
<1>2. /\ Current.keys \subseteq e.keys
      /\ e.entries = Current.entries /\ e.values = Current.values /\ e.blankets = Current.blankets
  BY <1>1 DEF Database
<1>3. Kept(e)
  BY <1>1, <1>2 DEF Kept, Owned, VolatileNamed, KeyExistsIn
<1> QED BY <1>1, <1>3, InstallKept

LEMMA DropKeyKept ==
  ASSUME KInv, IInv', NEW g \in Guids, DropKey(g)
  PROVE  KInv'
<1> DEFINE e == Dropped(Current, g)
<1>1. phase = "serving" /\ Kept(Current) /\ Current \in Database /\ Install(e)
  BY CurrentKept DEF DropKey
<1>2. \A st \in Stores, i \in 1 .. 4 : Ran(st, i, 8)
  BY DEF Ran, Stores
<1>3. /\ e.keys = {k \in Current.keys : k.guid # g}
      /\ e.entries = {x \in Current.entries : x.target # g}
      /\ e.values = {v \in Current.values : v.key # g}
      /\ e.blankets = {b \in Current.blankets : b.key # g}
  BY <1>1, <1>2 DEF Dropped, AfterDeletes, Database, KeyRow, EntryRow, ValueRow, BlanketRow
<1>4. \A st, h : h # g /\ KeyExistsIn(Current, st, h) => KeyExistsIn(e, st, h)
  BY <1>3 DEF KeyExistsIn
<1> HIDE DEF e
<1>5. Kept(e)
  BY <1>1, <1>3, <1>4 DEF Kept, Owned, VolatileNamed
<1> QED BY <1>1, <1>5, InstallKept

LEMMA CreateEntryKept ==
  ASSUME KInv, IInv', NEW p \in Guids, NEW n \in Names, NEW l \in Layers, NEW g \in Guids,
         CreateEntry(p, n, l, g)
  PROVE  KInv'
<1> DEFINE s == EntryStore(Current, g)
           r == EntryTo(s, p, n, l, g)
           e == [Current EXCEPT !.entries = @ \cup {r}]
<1>1. phase = "serving" /\ Kept(Current) /\ Current \in Database /\ Install(e)
  BY CurrentKept DEF CreateEntry
<1>2. r.store = "volatile" => KeyExistsIn(Current, "volatile", r.target)
  BY <1>1, StoreHasKey DEF EntryTo, EntryStore
<1>3. /\ e.keys = Current.keys /\ e.entries = Current.entries \cup {r}
      /\ e.values = Current.values /\ e.blankets = Current.blankets
  BY <1>1 DEF Database
<1>4. Kept(e)
  BY <1>1, <1>2, <1>3 DEF Kept, Owned, VolatileNamed, KeyExistsIn
<1> QED BY <1>1, <1>4, InstallKept

LEMMA HideEntryKept ==
  ASSUME KInv, IInv', NEW p \in Guids, NEW n \in Names, NEW l \in Layers, HideEntry(p, n, l)
  PROVE  KInv'
<1> DEFINE r == EntryTo(StoreOf(Current, p), p, n, l, NoGuid)
           e == [Current EXCEPT !.entries = {f \in @ : ~Names3(f, p, n, l)} \cup {r}]
<1>1. phase = "serving" /\ Kept(Current) /\ Current \in Database /\ Install(e)
  BY CurrentKept DEF HideEntry
<1>2. /\ e.keys = Current.keys /\ e.entries \subseteq Current.entries \cup {r}
      /\ e.values = Current.values /\ e.blankets = Current.blankets
  BY <1>1 DEF Database
<1>3. r.target = NoGuid
  BY DEF EntryTo
<1>4. Kept(e)
  BY <1>1, <1>2, <1>3 DEF Kept, Owned, VolatileNamed, KeyExistsIn
<1> QED BY <1>1, <1>4, InstallKept

LEMMA DeleteEntryKept ==
  ASSUME KInv, IInv', NEW p \in Guids, NEW n \in Names, NEW l \in Layers, DeleteEntry(p, n, l)
  PROVE  KInv'
<1> DEFINE rest(stores) == {f \in Current.entries : ~(f.store \in stores /\ Names3(f, p, n, l))}
           e(stores) == [Current EXCEPT !.entries = rest(stores)]
<1>1. PICK stores \in DeletedFrom : Install(e(stores))
  BY DEF DeleteEntry
<1>2. phase = "serving" /\ Kept(Current) /\ Current \in Database
  BY CurrentKept DEF DeleteEntry
<1>3. /\ e(stores).keys = Current.keys /\ e(stores).entries \subseteq Current.entries
      /\ e(stores).values = Current.values /\ e(stores).blankets = Current.blankets
  BY <1>2 DEF Database
<1> QED BY <1>1, <1>2, <1>3, FewerRowsKept, InstallKept

\* A value goes to the store of its key, so none of that name is in the other.
LEMMA SetValueKept ==
  ASSUME KInv, IInv', NEW g \in Guids, NEW n \in Names, NEW l \in Layers,
         SetValue(g, n, l) \/ \E expected \in Sequences : SetValueCAS(g, n, l, expected)
  PROVE  KInv'
<1> DEFINE s == StoreOf(Current, g)
           r == [store |-> s, key |-> g, name |-> n, layer |-> l, seq |-> NextSeq]
           e == Put(Current, s, g, n, l)
<1>1. phase = "serving" /\ HasKey(Current, g) /\ Install(e)
  BY DEF SetValue, SetValueCAS
<1>2. Kept(Current) /\ Sound(Current) /\ Current \in Database /\ KeyExistsIn(Current, s, g)
  BY <1>1, CurrentKept, StoreHasKey
<1>3. /\ e.keys = Current.keys /\ e.entries = Current.entries /\ e.blankets = Current.blankets
      /\ e.values = {v \in Current.values : ~(v.store = s /\ ValueIs(v, g, n, l))} \cup {r}
  BY <1>2 DEF Database, Put
<1>4. r.store = s /\ r.key = g /\ r.name = n /\ r.layer = l
  OBVIOUS
<1>5. \A v \in Current.values : v.key = g => v.store = s
  BY <1>2 DEF Kept, Owned, Sound, OneStore, KeyExistsIn
<1> HIDE DEF e, r, s
<1>6. \A v \in e.values : v = r \/ (v \in Current.values /\ ~ValueIs(v, g, n, l))
  BY <1>3, <1>5 DEF ValueIs
<1>7. \A v, w \in e.values : ValueIs(v, w.key, w.name, w.layer) => v = w
  BY <1>2, <1>4, <1>6 DEF ValueIs, Kept, Owned
<1>8. Owned(e) /\ VolatileNamed(e)
  BY <1>2, <1>3, <1>4, <1>6, <1>7 DEF Kept, Owned, VolatileNamed, KeyExistsIn
<1> QED BY <1>1, <1>8, InstallKept DEF Kept

LEMMA DeleteValueEntryKept ==
  ASSUME KInv, IInv', NEW g \in Guids, NEW n \in Names, NEW l \in Layers, DeleteValueEntry(g, n, l)
  PROVE  KInv'
<1> DEFINE rest(stores) == {v \in Current.values : ~(v.store \in stores /\ ValueIs(v, g, n, l))}
           e(stores) == [Current EXCEPT !.values = rest(stores)]
<1>1. PICK stores \in DeletedFrom : Install(e(stores))
  BY DEF DeleteValueEntry
<1>2. phase = "serving" /\ Kept(Current) /\ Current \in Database
  BY CurrentKept DEF DeleteValueEntry
<1>3. /\ e(stores).keys = Current.keys /\ e(stores).values \subseteq Current.values
      /\ e(stores).entries = Current.entries /\ e(stores).blankets = Current.blankets
  BY <1>2 DEF Database
<1> QED BY <1>1, <1>2, <1>3, FewerRowsKept, InstallKept

LEMMA BlanketTombstoneKept ==
  ASSUME KInv, IInv', NEW g \in Guids, NEW l \in Layers,
         SetBlanketTombstone(g, l) \/ ClearBlanketTombstone(g, l)
  PROVE  KInv'
<1> DEFINE s == StoreOf(Current, g)
           r == [store |-> s, key |-> g, layer |-> l, seq |-> NextSeq]
           rest == {b \in Current.blankets : ~(b.store = s /\ BlanketIs(b, g, l))}
           with == [Current EXCEPT !.blankets = rest \cup {r}]
           without == [Current EXCEPT !.blankets = rest]
<1>1. phase = "serving" /\ HasKey(Current, g) /\ (Install(with) \/ Install(without))
  BY DEF SetBlanketTombstone, ClearBlanketTombstone
<1>2. Kept(Current) /\ Current \in Database /\ KeyExistsIn(Current, s, g)
  BY <1>1, CurrentKept, StoreHasKey
<1>3. \A e \in {with, without} :
        /\ e.keys = Current.keys /\ e.entries = Current.entries /\ e.values = Current.values
        /\ e.blankets \subseteq Current.blankets \cup {r}
  BY <1>2 DEF Database
<1>4. r.store = s /\ r.key = g
  OBVIOUS
<1>5. \A e \in {with, without} : Kept(e)
  <2> HIDE DEF with, without, r, s, rest
  <2> QED BY <1>2, <1>3, <1>4 DEF Kept, Owned, VolatileNamed, KeyExistsIn
<1> QED BY <1>1, <1>5, InstallKept

LEMMA DeleteLayerKept ==
  ASSUME KInv, IInv', NEW l \in Layers, DeleteLayer(l)
  PROVE  KInv'
<1>1. phase = "serving" /\ Kept(Current) /\ Install(WithoutLayer(Current, l))
  BY CurrentKept DEF DeleteLayer
<1>2. Kept(WithoutLayer(Current, l))
  BY <1>1, FewerRowsKept DEF WithoutLayer
<1> QED BY <1>1, <1>2, InstallKept

LEMMA TransactionKept ==
  ASSUME KInv, IInv', Bind \/ Commit \/ Abort
  PROVE  KInv'
<1>1. phase = "serving" /\ phase' = "serving" /\ db' \in {db, work} /\ work' \in {db, work}
  BY DEF Bind, Commit, Abort, KInv, IInv
<1> QED BY <1>1 DEF KInv

LEMMA CrashKept ==
  ASSUME KInv, IInv', Crash
  PROVE  KInv'
<1> DEFINE e == Persistent(db)
<1>1. AllMain(e) /\ Kept(e)
  BY DEF KInv, Kept, Owned, VolatileNamed, KeyExistsIn, AllMain, Rows, Persistent
<1>2. db' = e /\ work' = e
  BY DEF Crash
<1> HIDE DEF e
<1> QED BY <1>1, <1>2 DEF KInv

LEMMA EnsureRootKeyKept ==
  ASSUME KInv, IInv', EnsureRootKey
  PROVE  KInv'
<1> DEFINE new == [store |-> "main", guid |-> Root]
           e == [db EXCEPT !.keys = @ \cup {new}]
<1>1. db \in Database /\ Kept(db) /\ AllMain(db)
  BY DEF KInv, IInv, TypeOK, EnsureRootKey
<1>2. /\ e.keys = db.keys \cup {new} /\ e.entries = db.entries
      /\ e.values = db.values /\ e.blankets = db.blankets
  BY <1>1 DEF Database
<1>3. AllMain(e) /\ Kept(e)
  BY <1>1, <1>2 DEF AllMain, Rows, Kept, Owned, VolatileNamed, KeyExistsIn
<1>4. db' = e /\ work' = e
  BY DEF EnsureRootKey
<1> HIDE DEF e
<1> QED BY <1>3, <1>4 DEF KInv

\* cleanOrphans takes the rows of a key before the key.
LEMMA CleanAndRegisterKept ==
  ASSUME KInv, IInv', CleanAndRegister
  PROVE  KInv'
<1> DEFINE e == Cleaned(db)
           gone == OrphanKeys(db)
<1>1. Kept(db) /\ AllMain(db)
  BY DEF KInv, CleanAndRegister
<1>2. /\ e.keys = {k \in db.keys : ~(k.store = "main" /\ k.guid \in gone)}
      /\ e.entries = db.entries
      /\ e.values = {v \in db.values : ~(v.store = "main" /\ v.key \in gone)}
      /\ e.blankets = {b \in db.blankets : ~(b.store = "main" /\ b.key \in gone)}
  BY DEF Cleaned
<1>3. db' = e /\ work' = e /\ phase' = "serving"
  BY DEF CleanAndRegister
<1> HIDE DEF e, gone
<1>4. Kept(e)
  BY <1>1, <1>2 DEF AllMain, Rows, Kept, Owned, VolatileNamed, KeyExistsIn
<1> QED BY <1>3, <1>4 DEF KInv

LEMMA InitKept == Init => KInv
<1> SUFFICES ASSUME Init PROVE KInv
  OBVIOUS
<1>1. Kept(EmptyDatabase) /\ AllMain(EmptyDatabase)
  BY DEF EmptyDatabase, Kept, Owned, VolatileNamed, AllMain, Rows
<1> QED BY <1>1, InitInv DEF Init, KInv

LEMMA NextKept == ~DropFaults /\ KInv /\ [Next]_vars => KInv'
<1> SUFFICES ASSUME ~DropFaults, KInv, [Next]_vars PROVE KInv'
  OBVIOUS
<1>0. IInv'
  BY NextInv DEF KInv
<1>1. CASE UNCHANGED vars
  BY <1>0, <1>1 DEF vars, KInv
<1>2. CASE KeyOps
  <2>1. PICK g \in Guids : \/ Resolve(g) \/ DropKey(g) \/ DropKeyFails(g)
                           \/ \E p \in Guids, s \in Stores : CreateKey(p, g, s)
    BY <1>2 DEF KeyOps
  <2>2. CASE Resolve(g)
    BY <1>0, <2>2 DEF Resolve, KInv
  <2>3. ~DropKeyFails(g)
    BY DEF DropKeyFails
  <2> QED BY <1>0, <2>1, <2>2, <2>3, DropKeyKept, CreateKeyKept
<1>3. CASE EntryOps
  BY <1>0, <1>3, HideEntryKept, DeleteEntryKept, CreateEntryKept DEF EntryOps
<1>4. CASE ValueOps
  BY <1>0, <1>4, SetValueKept, DeleteValueEntryKept, BlanketTombstoneKept DEF ValueOps
<1>5. CASE \E l \in Layers : DeleteLayer(l)
  BY <1>0, <1>5, DeleteLayerKept
<1>6. CASE Bind \/ Commit \/ Abort
  BY <1>0, <1>6, TransactionKept
<1>7. CASE Crash \/ EnsureRootKey \/ CleanAndRegister
  BY <1>0, <1>7, CrashKept, EnsureRootKeyKept, CleanAndRegisterKept
<1> QED BY <1>1, <1>2, <1>3, <1>4, <1>5, <1>6, <1>7 DEF Next

\* KInv is an invariant as long as no drop fails part-way inside a client's
\* transaction (handleDropKey returns after the failed delete; that transaction
\* goes on and may commit).
THEOREM KeptInvariant == ~DropFaults => (Spec => []KInv)
<1> SUFFICES ASSUME ~DropFaults PROVE Spec => []KInv
  OBVIOUS
<1>1. KInv /\ [Next]_vars => KInv'
  BY NextKept
<1> QED BY <1>1, InitKept, PTL DEF Spec

\* Provided no drop fails part-way inside a client's transaction, values and
\* tombstones always belong to a key of their own store: handleDropKey, the
\* layer deletion, cleanOrphans and a crash each take a key's rows with it.
THEOREM RowsNeverOrphaned == ~DropFaults => (Spec => []RowsHaveTheirKey)
<1>1. KInv => RowsHaveTheirKey
  BY DEF KInv, Kept, Owned, RowsHaveTheirKey
<1> QED BY <1>1, KeptInvariant, PTL

\* Under the same proviso a volatile entry names only a volatile key, since
\* handleCreateEntry follows the child's store and handleDropKey deletes the
\* entries of both stores.
THEOREM VolatileEntriesStayVolatile == ~DropFaults => (Spec => []VolatileNamesVolatileKeys)
<1>1. KInv => VolatileNamesVolatileKeys
  BY DEF KInv, Kept, VolatileNamed, VolatileNamesVolatileKeys
<1> QED BY <1>1, KeptInvariant, PTL

LEMMA NamedSurvives ==
  ASSUME KInv, NEW g \in Guids, KeyExistsIn(db, "main", g), g \in Targets(db.entries)
  PROVE  KeyExistsIn(Cleaned(Persistent(db)), "main", g)
<1> DEFINE p == Persistent(db)
<1>1. PICK e \in db.entries : e.target = g /\ e.target # NoGuid
  BY DEF Targets
<1>2. e.store # "volatile"
  <2> SUFFICES ASSUME e.store = "volatile" PROVE FALSE
    OBVIOUS
  <2>1. KeyExistsIn(db, "volatile", g)
    BY <1>1 DEF KInv, Kept, VolatileNamed
  <2>2. Sound(db)
    BY DEF KInv, IInv
  <2> QED BY <2>1, <2>2 DEF KeyExistsIn, Sound, OneStore
<1>3. e.store = "main"
  BY <1>1, <1>2 DEF KInv, IInv, TypeOK, Database, EntryRow, Stores
<1>4. /\ p.keys = {k \in db.keys : k.store = "main"}
      /\ p.entries = {f \in db.entries : f.store = "main"}
  BY DEF Persistent
<1> HIDE DEF p
<1>5. g \in Targets({f \in p.entries : f.store = "main"})
  BY <1>1, <1>3, <1>4 DEF Targets
<1>6. g \notin OrphanKeys(p)
  BY <1>5 DEF OrphanKeys, NotIn
<1>7. [store |-> "main", guid |-> g] \in p.keys
  BY <1>4 DEF KeyExistsIn
<1>8. Cleaned(p).keys = {k \in p.keys : ~(k.store = "main" /\ k.guid \in OrphanKeys(p))}
  BY DEF Cleaned
<1>9. KeyExistsIn(Cleaned(p), "main", g)
  BY <1>6, <1>7, <1>8 DEF KeyExistsIn
<1> QED BY <1>9 DEF p

\* Under the same proviso a crash at any point, followed by ensureRootKey and
\* cleanOrphans, keeps every committed key of the file that an entry names.
THEOREM NamedKeysAlwaysSurvive == ~DropFaults => (Spec => []NamedKeysSurvive)
<1>1. KInv => NamedKeysSurvive
  BY NamedSurvives DEF NamedKeysSurvive
<1> QED BY <1>1, KeptInvariant, PTL

\* A corollary of rows having their key: only a drop that fails part-way can
\* take a key out of the committed database and leave a value or tombstone.
THEOREM DropsAlwaysWhole == ~DropFaults => (Spec => DropsAreWhole)
<1> DEFINE Whole ==
      phase = "serving" /\ phase' = "serving" =>
        \A g \in Guids : HasKey(db, g) /\ ~HasKey(db', g) =>
          /\ \A v \in db'.values : v.key # g
          /\ \A b \in db'.blankets : b.key # g
<1>1. KInv' => Whole
  <2> SUFFICES ASSUME KInv', NEW g \in Guids, ~HasKey(db', g)
               PROVE  /\ \A v \in db'.values : v.key # g
                      /\ \A b \in db'.blankets : b.key # g
    OBVIOUS
  <2>1. Owned(db)'
    BY DEF KInv, Kept
  <2> QED BY <2>1 DEF Owned, KeyExistsIn, HasKey
<1> HIDE DEF Whole
<1>2. KInv /\ KInv' => [Whole]_vars
  BY <1>1
<1>3. ~DropFaults => (Spec => [][Whole]_vars)
  BY <1>2, KeptInvariant, PTL DEF Spec
<1> QED BY <1>3 DEF DropsAreWhole, Whole

\* Only the registration takes a hive from "rooted" to "serving".
LEMMA RegistrationStep ==
  ASSUME KInv, [Next]_vars, phase = "rooted", phase' = "serving"
  PROVE  CleanAndRegister
<1>1. ~open
  BY DEF KInv, IInv
<1> QED BY <1>1 DEF Next, vars, KeyOps, EntryOps, ValueOps, Resolve, CreateKey, DropKey,
  DropKeyFails, CreateEntry, HideEntry, DeleteEntry, SetValue, SetValueCAS,
  DeleteValueEntry, SetBlanketTombstone, ClearBlanketTombstone, DeleteLayer, Bind,
  Commit, Abort, Crash, EnsureRootKey

LEMMA CleanedExact ==
  ASSUME KInv, phase = "rooted"
  PROVE  LET named(g) == g = Root \/ \E e \in db.entries : e.target = g
         IN  /\ Cleaned(db).keys = {k \in db.keys : named(k.guid)}
             /\ Cleaned(db).entries = db.entries
             /\ Cleaned(db).values = {v \in db.values : named(v.key)}
             /\ Cleaned(db).blankets = {b \in db.blankets : named(b.key)}
<1> DEFINE named(g) == g = Root \/ \E e \in db.entries : e.target = g
<1>1. AllMain(db) /\ Owned(db) /\ db \in Database
  BY DEF KInv, Kept, IInv, TypeOK
<1>2. \A g \in Guids : KeyExistsIn(db, "main", g) => (g \in OrphanKeys(db) <=> ~named(g))
  <2> SUFFICES ASSUME NEW g \in Guids, KeyExistsIn(db, "main", g)
               PROVE  g \in OrphanKeys(db) <=> ~named(g)
    OBVIOUS
  <2>1. {e \in db.entries : e.store = "main"} = db.entries
    BY <1>1 DEF AllMain, Rows
  <2>2. NotIn(g, Targets(db.entries)) <=> ~ \E e \in db.entries : e.target = g
    BY StoreAssumption DEF NotIn, Targets
  <2> QED BY <2>1, <2>2 DEF OrphanKeys
<1>3. \A k \in db.keys : k.store = "main" /\ k.guid \in Guids /\ KeyExistsIn(db, "main", k.guid)
  BY <1>1 DEF AllMain, Database, KeyRow, KeyExistsIn
<1>4. \A x \in db.values \cup db.blankets :
        x.store = "main" /\ x.key \in Guids /\ KeyExistsIn(db, "main", x.key)
  BY <1>1 DEF AllMain, Rows, Owned, Database, ValueRow, BlanketRow
<1> HIDE DEF named
<1>5. /\ Cleaned(db).keys = {k \in db.keys : named(k.guid)}
      /\ Cleaned(db).entries = db.entries
      /\ Cleaned(db).values = {v \in db.values : named(v.key)}
      /\ Cleaned(db).blankets = {b \in db.blankets : named(b.key)}
  BY <1>2, <1>3, <1>4 DEF Cleaned
<1> QED BY <1>5 DEF named

\* Under the same proviso recovery deletes exactly the keys nothing points at
\* and their rows: the three deletes of cleanOrphans agree with one another.
THEOREM RecoveryAlwaysExact == ~DropFaults => (Spec => RecoveryExact)
<1> DEFINE Exact ==
      phase = "rooted" /\ phase' = "serving" =>
        LET named(g) == g = Root \/ \E e \in db.entries : e.target = g
        IN  /\ db'.keys = {k \in db.keys : named(k.guid)}
            /\ db'.entries = db.entries
            /\ db'.values = {v \in db.values : named(v.key)}
            /\ db'.blankets = {b \in db.blankets : named(b.key)}
<1>1. KInv /\ [Next]_vars => Exact
  <2> SUFFICES ASSUME KInv, [Next]_vars, phase = "rooted", phase' = "serving"
               PROVE  Exact
    OBVIOUS
  <2>1. db' = Cleaned(db)
    BY RegistrationStep DEF CleanAndRegister
  <2> QED BY <2>1, CleanedExact
<1> HIDE DEF Exact
<1>2. KInv /\ [Next]_vars => [Exact]_vars
  BY <1>1
<1>3. ~DropFaults => (Spec => [][Exact]_vars)
  BY <1>2, KeptInvariant, PTL DEF Spec
<1> QED BY <1>3, PTL DEF RecoveryExact, Exact
=============================================================================
