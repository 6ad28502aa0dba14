# A verification model of loregd

loregd is the registry source daemon: it keeps registry hives in SQLite and
answers RSI requests that the kernel (LCS) sends over `/dev/pkm_registry`.
This directory models it in TLA+ from process start to exit, checks the model
with TLC and proves most of its safety with TLAPS. `PROJECT.json` maps every definition
to the lines it stands for.

    tlc -workers 2 -config MCGate.cfg MCGate
    tlapm GateProofs.tla

## 1. Inventory

| Part | State | Operations | Talks to |
|---|---|---|---|
| publication gate, `hivedb/gate.go` | `readers`, `waitingWriters`, `writer`, the channel `changed` | `Acquire` (read, write), release, giving up at the deadline | one per hive (publication), one per transaction (operation) |
| transaction manager, `handler/txn.go` | map of `txnInfo`: bound hive, pinned connection, failed, expired, read-only | begin, bind on first write, pin a snapshot on first read, commit, abort, poison, close | gates, SQLite, GUID cache hooks |
| requests, `handler/request.go`, `routing.go` | context with deadline, release functions | startRequest, writeQ, readQ, finishRequest | everything below |
| leases, `handler/lease.go`, `device/lifetime.go` | deadlines in `txnInfo`, cleanup goroutines | tick, renewal ioctl, apply, cleanup | kernel, transaction manager |
| keys, paths, values, layers (`handler/*.go`) | rows of four tables in two stores | nine mutations, four queries, delete layer, flush | write connection or read pool |
| hive database, `hivedb/hivedb.go`, `schema.go` | the SQLite file `main`, the tmpfs database `volatile` attached to it | schema, root key, crash recovery, maximum sequence | startup |
| GUID cache, `handler/handler.go`, `routing.go` | GUID to hive | fill, evict, commit and abort hooks | key operations, layer deletion |
| runtime store, `hivedb/runtime.go` | process lock, volatile directories | lock, sweep residue | startup |
| serving loop, `device/device.go`, `main.go` | device, wait group of handlers | read, dispatch (BEGIN inline), drain, shutdown in order | dispatcher, handlers |
| codec, dispatcher, `rsi/` | none, a write mutex | encode, decode, dispatch | serving loop |
| folding, security descriptor, config | none | pure functions | startup, handlers |

What is hard here, each point with its line in `PROJECT.json` under `hazards`:

* *One write connection per hive* (`MaxOpenConns` is 1) that a transaction pins
  for its whole life. Everyone else must learn of it under the gate and decline;
  who asks the pool instead hangs until his deadline, with the gate in hand.
* *Deadlines fire anywhere*: in the queue of a gate, between two statements,
  before COMMIT. SQLite may roll the whole transaction back on an interrupt, so
  the connection that is still pinned has silently become an autocommit one.
* *Two WAL databases in one commit*: each publishes on its own and pins its
  snapshot on its own; only the gate keeps a reader from seeing one half.
* *Leases*: renewal is an ioctl made without the manager's mutex; its answer
  meets a transaction that has expired, committed or been aborted meanwhile.
* *Two schemas with equal tables*: no primary key spans them.
* *Crash recovery* over whatever `main` holds, `volatile` being gone.
* *A cache without a lock*: a GUID is probed under a gate, stored after it, and
  evicted by drops, commits and aborts that run meanwhile.
* *Several hives in one request*: layer deletion commits hive by hive and may
  fail between two.
* *Two daemons, or one that died*: what is under `/run/loregd` is either in use
  or residue, and only a lock tells which.
* *Shutdown*: the loop blocks in a read only another goroutine can end; handlers
  are still running, and each close must come after what uses it.
* *Answers the kernel pages through*: rows come in any order, the kernel expects
  the same list twice.
* *Boundaries*: two hand-written binary searches, and a decoder driven by
  length prefixes it does not control.

## 2. Modules

| Module | Models |
|---|---|
| `ReadWriteExclusion` | what a publication gate promises: readers share, a writer is alone, nobody new reads past a queued writer |
| `Gate` | `hivedb/gate.go`, one step per critical section of `Gate.mu` |
| `Transactions` | requests, transaction manager, leases, layer walk, flush, shutdown; several hives, the gate by its promise, SQLite by what it publishes and when |
| `HiveStore` | the rows of one hive, every mutation of them, a transaction, crash and startup |
| `KeyMap` | what the key operations promise: one map from GUID to record |
| `KeyTables` | `handler/keys.go` over the two key tables, with faults, a transaction and restarts |
| `GuidCache` | `resolveHive`, the GUID cache, the commit and abort hooks, over two hives |
| `LayerWalk` | RSI_DELETE_LAYER over several hives: collected orphans, failure half-way, repetition, restart |
| `Answers` | RSI_LOOKUP, RSI_ENUM_CHILDREN, RSI_QUERY_VALUES: from rows in any order to the answer |
| `Startup` | `main.go`, `hivedb/hivedb.go`, `runtime.go`, `config.go`: several processes from their arguments to their exit |
| `Serve` | `device/device.go`, `rsi/dispatch.go`, the shutdown watcher and the deferred calls of `run` |
| `Wire` | `rsi/wire.go`, `rsi/messages.go`: framing, `Decoder`, the eighteen request decoders |
| `Fold`, `CaseFoldTable` | `fold/fold.go` and its tables, entry by entry |
| `GateProofs`, `HiveStoreProofs`, `ServeProofs`, `StartupProofs`, `GuidCacheProofs` | theorems about the module each is named for |
| `TransactionsProofs`, `TransactionsDataProofs` | theorems about `Transactions`: locks, connections and leases; then data |
| `ComponentProofs` | theorems about `Fold`, `Wire`, `Answers`, `LayerWalk` and `KeyTables` |
| `MCGate`, `MCTransactions`, `MCHiveStore`, `MCGuidCache`, `MCStartup`, `MCServe`, `MCComponents` | constants of the runs |

How they fit. `Gate` is shown to implement `ReadWriteExclusion`, and
`Transactions` uses a gate with exactly that behaviour (`MayEnter`). What
`Transactions` shows (one user of the write connection at a time, competing
mutations declined, commits seen whole) is what lets `HiveStore` and `KeyTables`
treat a mutation as one step, and `Answers` a query as one unchanging hive.
`KeyTables` is shown to implement `KeyMap`. `Startup` stops where `Serve` begins
(the state `serving`), and takes what `Serve` shows of its exit: the device, then
the transactions, then the hives.

### Gate

A caller is a goroutine in `Acquire`. `pc` says whether it is asleep on the open
channel (`parked`), in the same select with its channel closed (`woken`) or
inside (`holding`). `Turn` is one pass of the loop between Lock and Unlock:
`GiveUp`, `Admit` or `Park`, in the order the code tests them. `Expire` passes a
caller's deadline at any moment. `waitingWriters` is incremented in the same
critical section as the first pass, as in the code.

### Transactions

An actor is a request, the cleanup goroutine of a transaction, or the goroutine
that runs `close`. Its `pc` moves between waits, critical sections of
`txnManager.mu` and SQL statements:

    operation -> admitted -> gate -> routing -> connect -> statement -> finish
                                             -> pin -> pinning -> reading -> reading2
                                             -> commit -> publishing -> finish
    finish -> (poisoning ->) answered

A mutation is reduced to the triples `<<request, hive, store>>` it writes:
`pending` on an open SQLite transaction, `published` otherwise. `sqlTxn` says
whether SQLite has a transaction open on the write connection; it is separate
from `conn` (what the manager believes), because the difference between the two
is the hazard. SQLite itself is external; assumed of it are: COMMIT of a
connection publishes `main` and then `volatile`, a failed COMMIT publishes
nothing, an interrupted statement may or may not end the transaction, and a
snapshot of an attached database is fixed at its first read.

Time is three positions of a lease (more than the renewal window left, less,
nothing) and a set of requests whose deadline has passed. The kernel renews a
lease while the transaction has an owner (`owned`), and hands out every
transaction id once.

Not in the module: the hooks of the GUID cache and `resolveHive`'s probe of the
hives before a request is routed, which are in `GuidCache`.

### HiveStore

A database is four sets of rows; a row carries its store. `db` is committed,
`work` is what the open transaction sees. `known` holds the GUIDs some request
may be routed by, cache entries that are out of date included, so a mutation can
arrive for a key that is gone. `Crash` keeps what `main` has committed and is
followed by `EnsureRootKey` and `CleanAndRegister`, between which it may happen
again. `NotIn` has SQL's meaning: a NULL in the subquery makes it false.

Assumed of the kernel: it numbers writes upwards from the sequence a hive was
registered with, it does not drop or re-link the root of a registered hive, and
an entry does not name its own parent as the child.

### GuidCache

`guidCache` is a `sync.Map`, so looking a GUID up (`Load`), probing one hive after
the other (`Probe`, any order: a Go map), storing the outcome (`Store`) and
routing are separate steps; so are a statement and the cache update after it
(`Execute`, then `CacheCreated` or `CacheDropped`), which however are both under
the hive's gate. A transaction pinned to a hive probes its own view. `onCommit`
and `onAbort` are the deferred hooks. A request that passes its deadline may
poison its transaction, which leaves the hooks where they are. The history
variable `steady` holds the requests whose key has been in their view throughout.

### LayerWalk

One step per hive: scan, deletes and COMMIT are one transaction under the gate.
Between two hives keys are linked; the walk may give up at any hive, and then
`allOrphans` is lost; the daemon may stop anywhere and cleans up when it opens its
hives again. The kernel drops what is reported to it (assumed) and may repeat the
request. The history variable `lost` holds the orphans that failed walks have
thrown away and that are unnamed still; no step depends on it.

### Startup

A process is a slot that may be used again. Every step after the lock may fail
(`Fail`) or be the last one (`Crash`); an error runs the deferred calls from the
point `CleanupFrom` gives. A database is its schema version, root key and highest
sequence; a volatile store is `<<slot, start, index>>`, so that a store of a dead
process is told from one of its successor.

### Serve

The goroutines are the loop (`main`), one per request, and the watcher. The
kernel queues requests and may hang up; signals arrive at any time, and after
`signal.Stop` one kills the process. `buf` and `msg` are the loop's shared buffer
and the copy a handler gets.

### Answers

One step per row scanned; a failure may come at any row. Sorting is the stable
sort by the comparison the code gives, so that ties show; a sort of distinct
numbers (`InOrder`) has none. Names and layers are
numbers in bytewise order and `FoldOf` says which fold alike.

### Wire

The message is its length, its length word and its op code. A decoder is the list
of field reads it makes; a word that steers decoding (a length prefix, the mask of
WRITE_KEY, the mode of BEGIN) takes any value when it is read. Sizes are scaled:
the model's buffer of 90 bytes holds the header (22) and the longest fixed part of
a request (48) with room for contents, so every decoder meets every truncation and
a complete request.
`need` is compared in unbounded integers; in the code `off + n` is an `int` of 64
bits, which a 32-bit length cannot overflow.

### Fold

Both loops of `String` with a call of `Rune` per rune, and each halving of the two
searches, with the zero-based half-open interval of the code. `CaseFoldTable` is
the table of the repository; TLC evaluates on it the three assumptions the proofs
start from: its types, that it is sorted without overlaps, and that no target is
folded further.

### KeyTables

`main.keys` and `volatile.keys` as functions from GUIDs. WRITE_KEY asks for the
table and then updates it, READ_KEY takes the union, DROP_KEY deletes from both
and may fail between them inside a client's transaction.

## 3. Runs

| Run | Shows | Instance | States |
|---|---|---|---|
| `gate` | exact counts, no lost wakeup, refinement of `ReadWriteExclusion`, waits end at their deadline, a patient writer gets in | 3 readers, 2 writers, one of them patient | 10 thousand |
| `txn_safety` | `ConnectionInv` (the pinned connection has one holder, stays open, nobody waits for it), visible only by commit, acknowledged is visible, reads and snapshots see commits whole, snapshots do not move, a layer is deleted everywhere | 3 scenarios of 3 or 4 requests | 1.3 million |
| `txn_leases` | expired stays expired, every request answered, abandoned transactions reclaimed, shutdown ends and leaves nothing pinned | 2 scenarios of 2 requests, one transaction, its lease and the shutdown | 0.1 million |
| `store_rows` | rows with their key, named keys survive a crash, recovery exact | 3 keys | 57 thousand, up to symmetry |
| `store_layers` | one entry per name and layer, orphans exact, sequences distinct | 2 keys, 2 layers, 3 numbers | 0.5 million, up to symmetry |
| `guid_cache` | a key that stays in view is found; no aborted key stays cached (`CacheInv`) | 2 hives, 4 GUIDs, 2 scenarios of 3 and 4 requests | 0.4 million |
| `startup` | `OwnershipInv` (one owner, live stores never swept, exact residue, clean exit), registered state, databases kept, startup resolves | 2 daemons, 2 starts each, 2 databases, 4 argument vectors | 0.6 million |
| `serve` | BEGIN not overtaken, `AnsweredInv` (one answer to each request, its own; a clean exit served everything), nothing outlives its close, shutdown completes, dispatched requests are answered | 5 requests, 2 signals, device errors | 0.2 million |
| `components` | the properties of `Fold`, `Wire`, `Answers`, `LayerWalk` and `KeyTables`, below | | 0.27 million |
| `txn_autorollback`, `store_dropfault`, `serve_signal` | *violations*, see findings | | |

`components` checks five modules that share no variable in one state space: the
variable `component` of `MCComponents` picks the one that runs, the others stay in
an initial state.

* `Fold`: the daemon's own table with every pair, both ends of every range, their
  neighbours and the ends of the code space, and names of up to three runes.
  Searches end and the result is what the table says.
* `Wire`: every op code, message lengths 0 to 90, length words that match, lie or
  exceed the maximum, prefixes 0, 1, 3 and the largest word. A
  truncated request is refused, a complete one is not (`RefusedExactly`).
* `Answers`: up to three path entries of three names (two fold alike) in two
  layers, hidden, live or dangling; three values and any tombstones in layers that
  differ in case only. The answer is a function of what is stored
  (`ChildrenInv`, `ValuesCanonical`); metadata matches entries.
* `LayerWalk`: two hives of one key, a base layer and two others, failures and
  restarts. Keys another layer names survive, and a key record without an entry is
  reported, held by the running walk, or one that a failed walk had found before it
  failed (`WalkInv`). A failed walk excuses nothing else: not the hive it failed in,
  whose transaction is rolled back, and not what a later walk finds.
* `KeyTables`: two GUIDs, two descriptors, two times. One map.

An invariant that ends in `Inv` is a conjunction of named parts, the module's type
invariant first; its parts are stated and commented one by one beside it. The type
invariants of `Gate`, `HiveStore`, `Fold` and `Wire`, and `Exclusion`,
`GuidInOneStore`, `VolatileNamesVolatileKeys`, `InBounds`, `FieldsInside` and
`FlagTellsStore`, are proved for every instance (section 5), so no run repeats
them. Beside many operators stands a faulty variant, marked so or named for its
fault, that no specification uses: put in the operator's place, it makes the
property it is meant for fail.

Bounds. Gate: a writer inside, one queued, and readers on both sides of it.
Transactions and GuidCache: each request is dispatched once and picks among the
calls its `scenario` gives it, so that each question is explored in full;
`aging` and `hurried` say whose lease and whose deadline may run out. HiveStore:
three keys (root, parent, child) for questions about placement, two layers and
three sequence numbers for layers and restarts; `MaxSeq` bounds the writes between
two restarts. Startup: two slots of two starts each give a running daemon, a
second one beside it, a crash and the successor of the crash; databases are found
new, current or of another version, and one write after registration (`MaxSeq`)
is enough to need the next number. Serve: BEGIN, an operation and ABORT of one
transaction, an unknown op code and a malformed frame; a second signal is the one
that finds `signal.Stop` called.

Deadlock is checked in every run; the states where something really stops
(`Exited`, `Done`, `Finished`, `TornDown`) stutter explicitly.

Fairness. `Gate.DeadlineSpec`: a goroutine whose select has fired runs, and
deadlines pass; nothing is assumed of holders. `WriterNotStarved` alone supposes
that holders leave (`HoldersLeave`, in its antecedent), which each operation's own
deadline and the disabled busy handler justify, and that other writers stop
coming. `Transactions.FairSpec`: weak fairness of each actor (the Go scheduler),
of maintenance (the ticker), of shutdown, of request deadlines and of time. A
writer in a gate gets in by weak fairness only because each actor acts once in a
run; that a stream of readers cannot starve it is `WriterNotStarved`. `Startup`: a
running process takes the next step of its startup or cleanup; nothing forces a
failure, a crash, a start or the end of serving. `Serve.FairSpec`: each goroutine
that can run does, and a handler returns (its waits are bounded by the request's
deadline); of the kernel, the sender of signals and faults of the device nothing
is assumed. `Fold`: a function that is called runs.

## 4. Findings

* `txn_autorollback`. `finishRequest` poisons a transaction only if the
  request's *deadline* has passed. SQLite may also end a transaction on a full
  disk, an I/O error or lack of memory; then the connection stays pinned and the
  next write of the transaction autocommits. With `AutoRollback` the run finds a
  write published without a commit. All other runs assume `AutoRollback = FALSE`
  (no storage fault ends a transaction by itself), where the property holds.
* `store_dropfault`. RSI_DROP_KEY in a client's transaction has no savepoint: a
  fault in one of its eight deletes leaves the earlier ones in the transaction,
  which can still commit. With `DropFaults` the run finds half a drop committed;
  without them every drop is whole, which follows from `RowsHaveTheirKey`
  (`DropsAlwaysWhole`), so no run repeats it.
* `serve_signal`. The documentation promises status 0 after SIGTERM. If the
  watcher closes the device between the read of a request and the ioctl that
  fetches its deadlines, the loop returns that ioctl's error and the daemon exits
  with status 1.

Observed while modelling, with no run of their own:

* `resolveHive` stores what its probe found after it has given the gate back. A
  drop that runs and evicts in between is followed by that late store; the GUID
  stays cached, and a later RSI_CREATE_KEY below the dropped parent is routed and
  answered RSI_OK. `NeverLost` and `NoGhost` are not affected.
* An RSI_DELETE_LAYER that fails at a later hive discards the orphans of the
  earlier ones, and a repeated request does not find them again; they stay until
  they are linked again, dropped, or removed at the next start. The documentation
  ("Partial layer deletion") says that such a failure reports no complete orphan
  list. `OrphansReported` bounds what is left behind to exactly those keys.
* A transactional RSI_DROP_KEY that fails part-way on a key created in the same
  transaction adds no hook; after a COMMIT the cache entry
  stays (`NoGhost` excepts such keys, `torn`).
* RSI_DROP_KEY removes the entries that point *at* a key and leaves those *under*
  it: children of a dropped key stay referenced and recovery keeps them.
* The entry of a volatile key that is created before its key lands in `main` and
  outlives it (the code's comment says so).
* The display name of a child may come from an entry that is then removed as
  dangling; it is one of the stored spellings all the same.
* `config.Parse` refuses a name twice, not a path twice.
* Bytes after a request's last field are ignored by every decoder.
* After `signal.Stop` a second signal kills the process in the middle of its
  cleanup; answers of requests in flight on SIGTERM are lost, the device being
  closed first.

## 5. Proofs

Every safety property the passing runs check is also a theorem, for every value of
the constants. The theorems assume only the named ASSUMEs of the modules (TLC evaluates them in the runs), and
two of the groups a hypothesis on a Boolean constant that is stated in each
theorem: `~DropFaults` and `AutoRollback = FALSE`. What fails without them is said
below.

### Gate

`GateProofs` proves, for any finite sets of readers and writers:

| Theorem | States |
|---|---|
| `GateInvariant` | `Spec => []IInv` |
| `TypeCorrect`, `WriterAlone`, `CountsNeverLeak`, `WakeupsNeverLost` | `TypeOK`, `Exclusion`, `CountersExact`, `NoLostWakeup` always hold |
| `GateImplements` | `Spec => Exclusive`, the refinement |

Assumed is `CallersAssumption` only: the two sets are finite and disjoint.
`Exclusion` alone is not inductive: that a writer may enter depends on `readers`
being 0, which says something about callers only if the count is exact, and the
count stays exact only if a caller leaves it exactly once. `IInv` therefore
joins the types, the exact counts (as cardinalities of the callers inside and
queued), exclusion, and for wakeups: whoever is parked sleeps on an open channel
and is not eligible. It is the conjunction of the four properties themselves, and
the facts about cardinalities come from `FiniteSetTheorems`.

### HiveStore

`HiveStoreProofs` proves, for any finite sets of GUIDs, names and layers and any
number of writes:

| Theorem | States |
|---|---|
| `StoreInvariant` | `Spec => []IInv` |
| `StoreTypeCorrect`, `GuidNeverSplit`, `EntryNeverDoubled`, `SequenceNeverTied` | `TypeOK`, `GuidInOneStore`, `OneEntryPerLayer`, `SequencesDistinct` always hold |
| `OrphansAreExact` | `OrphansExact` always holds; it needs no invariant, the query is right on any tables |
| `KeptInvariant` | `~DropFaults => (Spec => []KInv)` |
| `RowsNeverOrphaned`, `VolatileEntriesStayVolatile`, `NamedKeysAlwaysSurvive` | with `~DropFaults`: `RowsHaveTheirKey`, `VolatileNamesVolatileKeys`, `NamedKeysSurvive` always hold |
| `RecoveryAlwaysExact` | with `~DropFaults`: the action property `RecoveryExact` |
| `DropsAlwaysWhole` | a corollary of `RowsNeverOrphaned`: only a drop that fails part-way violates `DropsAreWhole` |

Assumed is `StoreAssumption` only. The properties speak of what the open
transaction sees, and an abort or a crash falls back on what is committed, so
`IInv` states them of both databases (`Sound(db)`, `Sound(work)`). A new row is
distinct from every other because the kernel's counter is at or above every row
while the hive serves (`AtMost`), which registration establishes from
`MaxSequence`; its `CHOOSE` is shown to exist by well-founded induction on the
natural numbers. The root key is new to both stores because volatile holds no
key before the hive serves.

`KInv` adds that every value and tombstone has its key in its own store, that a
volatile entry names a volatile key, and that nothing at all is volatile before
the hive serves. A drop that fails part-way in a client's transaction breaks it
(finding `store_dropfault`), hence the hypothesis `~DropFaults`. Exact recovery
needs it as well: `cleanOrphans` selects values by the keys it is about to
delete, so a row without a key would survive it.

### Transactions

`TransactionsProofs` and `TransactionsDataProofs` prove, for any number of
requests, transactions and hives and any scenarios:

| Theorem | States | Needs `AutoRollback = FALSE` |
|---|---|---|
| `OneConnectionPerHive` | `PinnedConnection` and `NeverWaitsForConnection` always hold | no |
| `ExpiredStaysExpired` | the action property `NoRevival` | no |
| `ReadOnlySeesOnePoint` | `StableSnapshot` | no |
| `ConnectionsSound` | `ConnectionInv`, which adds that a pinned connection's transaction stays open | yes |
| `NothingElseIsVisible` | `VisibleOnlyByCommit` | yes |
| `NoHivePassedOver` | `LayerDeletedEverywhere` | yes |
| `AcknowledgedWritesSurvive` | `AcknowledgedIsVisible` | yes |
| `NoTornReads` | `CoherentReads` | yes |

The hypothesis says that no disk-full, I/O or memory error makes SQLite end a
transaction by itself. Interrupts may do so in all theorems: that is the case the
code handles. Without the hypothesis `VisibleOnlyByCommit` is false
(`txn_autorollback`), and TLC also refutes `ConnectionInv`, and `CoherentReads` when
the transaction writes twice more and somebody reads in between. For
`LayerDeletedEverywhere` and `AcknowledgedIsVisible` TLC finds no counterexample
without it: their theorems take the hypothesis because their invariants rest on
`Storage`, which needs it.

Assumed of the constants: the scenarios are tables of calls, commit and abort name
a transaction (`ScenariosAssumption`); the sets are finite, there is a hive, and
requests, transactions and the markers are distinct (`ConstantsAssumption`,
`ActorsAssumption`).

The invariant is built in layers, each proved from those below it:

* `Locks`. An actor holds its transaction's operation gate exactly while it works,
  is inside the gate of at most the hive it works on, and a writer inside is alone.
* `Connections`. What a handler established when it was routed is still true at
  every later place: a writer at `connect` finds the connection free, at
  `statement`, `commit` and `publishing` it is its own; no other transaction has
  it; a transaction's pinned connection is the hive's, and gone once it is
  unregistered.
* `Storage`. A pinned connection has its SQLite transaction open, or its holder is
  about to poison it (`Doomed`); every pending write belongs to the transaction
  that is open on its hive, every published one to a call that wrote directly or to
  a transaction whose COMMIT has begun to publish.
* `Layers`: the walk of RSI_DELETE_LAYER has published in every hive it left.
* `Acks`: as long as a COMMIT of a transaction can still succeed, what its requests
  reported written is pending or published.
* `Snaps`: the reads of a read-only transaction all saw its snapshot, until it
  ended (`Ended`), after which there are no more.
* `Reads`: every published write belongs to a unit (one transaction, or one call in
  one hive) that is complete (`Over`) or that a COMMIT inside the hive's gate is
  completing (`Whole`); what a read or snapshot holds is complete for good
  (`Final`). A reader in the gate excludes such a COMMIT, so what it finds is
  complete, and stays so.

With twenty-nine actions and any number of actors the proofs are by rely and
guarantee. `Acts(a)` and `Spares(a)` say what a step of actor `a` leaves alone:
the locals of others, transactions whose gate it does not hold, hives whose write
connection it cannot reach. One family of lemmas shows that every action has these
two guarantees and keeps its own actor's part of the invariant; another shows that
nobody else's part can be broken under them. Calls, deadlines, ticks and BEGIN are
`Outside`: they reach no actor at work.

### GuidCache

`GuidCacheProofs` proves, for any hives, keys, transactions, requests and call
tables: `NoGhostStays` (`CacheInv` always holds) and `KeysNeverLost`
(`NeverLost`). `GuidCacheAssumption` says that each key has one hive, that a call
names two keys of one hive, and that there is a hive.

`IInv` has three parts. `Order`: a transaction has one user at a time, and
whatever names a hive (cache entries, views, what a request resolved, what it pinned)
names the home of the key. `Owed`: a key that may still reach the cache is
accounted for; what a transaction's view shows is committed, or in its abort hook,
or about to be entered there by the create that just executed (`TxnOwed`), and a
probe that found a key and is about to store it late (`storing`) is covered by the
same hook or the key was committed (`StepOwed`). `Watched`: a request whose key stays in
its view has not yet passed the key's hive by.

### Startup

`StartupProofs` proves, for any number of processes, database files, argument
vectors, starts and writes: `OneOwnerAtATime` (`OwnershipInv`),
`RegistrationStaysTrue` (`RegisteredState`) and `RootKeysKept` (`DatabaseKept`).
`StartupAssumption` gives argument vectors their shape and keeps the absent root
apart from GUIDs. The invariant says who holds the lock (`Held`: exactly a process
between the end of locking and its end), how far each process has got (`Progress`:
its index against the root keys it has read), which stores lie under
`/run/loregd` meanwhile (`Stores`), and what the process knows of the databases
behind it (`Known`). A process that steps is the lock's holder or harmless to the
holder (`Harmless`, `Only`).

### Serve

`ServeProofs` proves, for any traffic, any number of signals and device errors:
`NeverOvertaken` (`BeginNotOvertaken`), `NothingLeftRunning`
(`NothingOutlivesClose`) and `EachAnswered` (`AnsweredInv`). `ServeAssumption`
says that a BEGIN names its transaction. The invariant: a request is in one place,
with the kernel, in the queue, in `msg` or with its handler (`Placed`); each handler
reads its own bytes and answers at its end (`Handlers`); what the drain and the join
have waited for is gone (`Ending`); and a request that needs a BEGIN has it handled,
in `msg`, or ahead of it in the queue (`Ordered`), which holds only because the loop
runs BEGIN inline and takes requests in order.

### Components

`ComponentProofs` is five developments with a specification and an invariant each.

`KeyTables`, for any sets of GUIDs, descriptors and times:
`FlagCorrect` (`FlagTellsStore` always holds) and `KeyTablesImplementKeyMap`
(`TablesSpec => OneMap`). The invariant says of both databases that no GUID has a
row in each table and that the volatile column tells the table (`Sound(db)`,
`Sound(work)`), and that the two are equal while no transaction is open. It is what makes
the table WRITE_KEY finds the one READ_KEY reads from, so that an update of one
row is an update of the map; without it a drop could uncover a second row.

`Fold`, for any tables that satisfy `TableTypes`, `TablesSorted` and
`TargetsFixed`, and any strings: `FoldTypeCorrect`, `SearchInBounds` (`InBounds`)
and `FoldCorrect` (`FoldsEveryRune`). The invariant is the usual one of a binary
search (`Searching`: an entry that folds the rune, if there is one, lies between
`lo` and `hi`) joined with what the passes know of the runes before `pos`
(`Passing`). TLC evaluates the three assumptions on the real table, which closes
the gap between the theorem and the daemon.

`Wire`, for any sizes with `SizesAssumption`: `WireTypeCorrect`,
`FieldsStayInside` (`FieldsInside`) and `CodecRefusesExactly` (`RefusedExactly`). A framed message has a payload of
non-negative length (`Framed`), the decoder is fresh while none is being decoded
(`Fresh`), a prefix is pending only for a field that has one (`Pending`), and the
fields tile what lies before `off` (`Tiled`). For `RefusedExactly` three parts are
added: each field is as long as its encoding (`Measured`); the kinds taken and the
kinds left make up the request of the opcode, with the fields of a WRITE_KEY's mask
once it is read (`Following`); and a refused read lacked the least it can take
(`Short`). That `off` is then the sum of the encodings (`FieldsTotal`), and that a
sum is at least its first term (`TotalAtLeast`), are facts about a recursive function
over a sequence of any length. They are proved by the least index at which they would
fail, since the library's induction theorem cannot be instantiated.

`LayerWalk`, for any hives with disjoint keys and any layers: `WalkLosesNothing`
(`WalkInv`: types, `OtherLayersKeepKeys`, `OrphansReported`).
`OtherLayersKeepKeys` is not inductive, since it does not say why a key stays:
`BaseNames` adds that the base layer's entry is still there and that no walk
has taken the key for an orphan. `OrphansReported` is proved with its other half:
what is in `lost` is unnamed, so that the excuse of a failed walk ends with a new
link, a drop or a restart. `Forgotten` says that nothing of a walk is left when it ends.

`Answers`, for any hive with `AnswersAssumption`: `ChildrenAlwaysCanonical`
(`ChildrenInv`) and `ValuesAlwaysCanonical` (`ValuesCanonical`). The assumption gives
rows their types and says that the path entries are finitely many, that a store
holds one row for a folded name and a layer, and no sequence number twice
(`HiveStore` shows the last two). They are about sorted lists of any length, and rest on one
lemma about counting (`Ranks`): in a strict total order on a finite set, the number of
elements before an element is different for each and takes every value below the
size of the set. So what the model's sorts put at position k exists and is one
element (`InOrderSorts`, `SortsByKey`), and dropping positions keeps the order
of the rest (`KeptKeeps`). The three comparisons of the code are lexicographic in
three numbers (`Lex`) that no two rows of one list share, which is where uniqueness
in the store is needed: with ties the answer would follow the scan. The
invariant has a part for each place of a call: the rows scanned so far are in their
groups under their lowest spelling (`PathsScanned`), the children are the groups in
order (`ChildrenOrdered`), and each GUID asked for has its block, is dangling, or is higher
than all that were read (`MetadataRead`); likewise `ValuesScanned` and
`BlanketsScanned`.

### Only model-checked

* Liveness of all modules, under the fairness of section 3: outside what TLAPS
  proves.

## 6. Not modelled, and the plan

Not modelled: the security descriptor (`sd/sd.go` builds one constant from
constants); the encoders (they lay out what `Answers` orders); the stream readers
`ReadRequestHeader` and `Dispatcher.Serve`, which the daemon does not call;
invalid UTF-8 in names; PRAGMAs, ATTACH and the rotation of the read pool; the
argument layout of the ioctls; the check that `/run` is a tmpfs (one of the
failures of a step in `Startup`); logging; SQLite itself; and the savepoint of
RSI_HIDE_ENTRY, whose failure discards the pinned connection, after which every
use of it fails until the abort.

Next, in this order:

1. An abstract transactional store (a unit of writes becomes visible at once) that
   `Transactions` implements. `Whole` and `Final` are the facts its mapping needs;
   a unit would become visible when its COMMIT leaves the hive's gate.
2. The theorems of `Transactions` that only need `AutoRollback = FALSE` because
   `Storage` does, without it: split `Storage` into what every error keeps and what
   only an interrupt keeps.
