----------------------------- MODULE GuidCache -----------------------------
(***************************************************************************)
(* The GUID-to-hive cache of internal/handler: how resolveHive fills it    *)
(* (routing.go), how the key handlers and the transaction hooks change it  *)
(* (keys.go, txn.go) and what a request is routed to while other requests  *)
(* create, drop, commit and abort.                                         *)
(*                                                                         *)
(* A hive is the set of keys it holds; main and volatile are not told      *)
(* apart, and path entries and values are left to HiveStore.tla.  The      *)
(* cache is read and written without any lock, so looking a GUID up,       *)
(* probing each hive and storing the outcome are separate steps, and so    *)
(* are a statement and the cache update that follows it.                   *)
(***************************************************************************)
EXTENDS Naturals, FiniteSets

CONSTANTS
  Guids, Hives, Txns,
  Requests,    \* each dispatched at most once
  Scenarios,   \* each a table of calls: table[r] are those request r may turn out to be
  Home,        \* Home[g]: the only hive the kernel creates g in
  RootGUID,    \* RootGUID[h]: the root key of hive h
  ReadOnly,    \* the transactions begun as RSI_TXN_READ_ONLY
  NoTxn, NoHive, Nobody

Ops == {"read", "create", "drop", "commit", "abort", "deleteLayer"}

\* guid is what the request resolves (create: the parent; deleteLayer: an
\* orphan it reports), new the key RSI_CREATE_KEY inserts.
Call == [op : Ops, txn : Txns \cup {NoTxn}, guid : Guids, new : Guids]

\* LCS makes up a fresh GUID for a new key, and a key is in its parent's hive.
ASSUME GuidCacheAssumption ==
  /\ Hives # {} /\ Scenarios \subseteq [Requests -> SUBSET Call]
  /\ \A table \in Scenarios, r \in Requests : \A k \in table[r] :
       /\ k.op \in {"commit", "abort"} => k.txn # NoTxn
       /\ Home[k.guid] = Home[k.new]
  /\ Home \in [Guids -> Hives] /\ RootGUID \in [Hives -> Guids]
  /\ \A h \in Hives : Home[RootGUID[h]] = h
  /\ ReadOnly \subseteq Txns
  /\ NoTxn \notin Txns /\ NoHive \notin Hives /\ Nobody \notin Requests

VARIABLES
  keys,       \* the committed keys of each hive
  cache,      \* guidCache
  bound,      \* info.hive, NoHive for nil
  view,       \* the keys a transaction's pinned connection sees
  failed,     \* info.failed
  ended,      \* transactions no longer in txnManager.txns
  onCommit, onAbort,  \* the GUIDs the deferred hooks would evict
  operation,  \* who holds a transaction's operation gate
  writer,     \* who holds a hive's gate for writing
  scenario,   \* the calls of this behaviour; never changes
  pc, call, at, left, status,
  born,       \* history: GUIDs that have been committed
  torn,       \* history: GUIDs whose drop failed part-way in a transaction
  steady      \* history: requests whose key has been in their view throughout

hiveVars == <<keys, born>>
txnVars == <<bound, view, failed, ended>>
hookVars == <<onCommit, onAbort>>
vars == <<hiveVars, cache, txnVars, hookVars, operation, writer,
          pc, call, at, left, status, torn, steady>>

\* BEGIN has been answered for every transaction; each hive holds its root,
\* which New has put in the cache, and possibly keys of an earlier run.
Init ==
  /\ scenario \in Scenarios
  /\ keys \in {k \in [Hives -> SUBSET Guids] :
                 \A h \in Hives : RootGUID[h] \in k[h] /\ \A g \in k[h] : Home[g] = h}
  /\ born = UNION {keys[h] : h \in Hives}
  /\ cache = [g \in Guids |-> IF g = RootGUID[Home[g]] THEN Home[g] ELSE NoHive]
  /\ bound = [t \in Txns |-> NoHive] /\ view = [t \in Txns |-> {}]
  /\ failed = {} /\ ended = {}
  /\ onCommit = [t \in Txns |-> {}] /\ onAbort = [t \in Txns |-> {}]
  /\ operation = [t \in Txns |-> Nobody] /\ writer = [h \in Hives |-> Nobody]
  /\ pc = [r \in Requests |-> "idle"]
  /\ call = [r \in Requests |-> CHOOSE k \in Call : TRUE]
  /\ at = [r \in Requests |-> NoHive] /\ left = [r \in Requests |-> {}]
  /\ status = [r \in Requests |-> "none"]
  /\ torn = {} /\ steady = {}

-----------------------------------------------------------------------------
Txn(r) == call[r].txn
Guid(r) == call[r].guid
Pinned(t) == t # NoTxn /\ t \notin ended \cup failed /\ bound[t] # NoHive
Goto(r, place) == pc' = [pc EXCEPT ![r] = place]
Evict(G) == cache' = [g \in Guids |-> IF g \in G THEN NoHive ELSE cache[g]]

\* What a statement of transaction t (NoTxn for none) sees in hive h.
ViewOf(t, h) == IF Pinned(t) /\ bound[t] = h THEN view[t] ELSE keys[h]

\* The gates a finished request gives back.
Release(r) ==
  /\ operation' = [t \in Txns |-> IF operation[t] = r THEN Nobody ELSE operation[t]]
  /\ writer' = [h \in Hives |-> IF writer[h] = r THEN Nobody ELSE writer[h]]

\* The handler returns s; its deferred calls run.
Answer(r, s) ==
  Goto(r, "answered") /\ status' = [status EXCEPT ![r] = s] /\ Release(r)

\* finishRequest after the deadline: the pinned connection is rolled back
\* and the transaction poisoned.  Its hooks stay where they are.
Poison(r) ==
  /\ Pinned(Txn(r))
  /\ failed' = failed \cup {Txn(r)} /\ view' = [view EXCEPT ![Txn(r)] = {}]
  /\ Answer(r, "StorageError") /\ UNCHANGED <<bound, ended>>

\* A return with a status other than OK, in time or after the deadline.
Unsuccessful(r, s) == (Answer(r, s) /\ UNCHANGED txnVars) \/ Poison(r)

Dispatch(r) ==
  /\ pc[r] = "idle"
  /\ \E k \in scenario[r] :
       /\ call' = [call EXCEPT ![r] = k]
       /\ IF k.txn \in ended
            THEN /\ Answer(r, IF k.op = "abort" THEN "OK" ELSE "StorageError")
            ELSE /\ k.txn # NoTxn => operation[k.txn] = Nobody
                 /\ operation' = [t \in Txns |-> IF t = k.txn THEN r ELSE operation[t]]
                 /\ Goto(r, CASE k.op \in {"commit", "abort"} -> "control"
                              [] k.op = "deleteLayer" -> "evicting"
                              [] OTHER -> "loading")
                 /\ UNCHANGED <<status, writer>>
  /\ UNCHANGED <<hiveVars, cache, txnVars, hookVars, at, left, torn>>

-----------------------------------------------------------------------------
\* resolveHive

Load(r) ==
  /\ pc[r] = "loading"
  /\ at' = [at EXCEPT ![r] = cache[Guid(r)]]
  /\ left' = [left EXCEPT ![r] = Hives]
  /\ Goto(r, IF cache[Guid(r)] # NoHive THEN "routed" ELSE "probing")
  /\ UNCHANGED <<hiveVars, cache, txnVars, hookVars, operation, writer, call, status, torn>>

\* Faulty: every probe reads what is committed.
ProbePool(t, h) == keys[h]

\* boundQuerier: a transaction pinned to h probes its own view.
ProbeView(t, h) == ViewOf(t, h)

\* The map of hives is walked in any order, each under its gate for reading.
Probe(r, h) ==
  /\ pc[r] = "probing" /\ h \in left[r] /\ writer[h] = Nobody
  /\ left' = [left EXCEPT ![r] = @ \ {h}]
  /\ IF Guid(r) \in ProbeView(Txn(r), h)
       THEN Goto(r, "storing") /\ at' = [at EXCEPT ![r] = h]
       ELSE UNCHANGED <<pc, at>>
  /\ UNCHANGED <<hiveVars, cache, txnVars, hookVars, operation, writer, call, status, torn>>

\* The gate has been released since the probe.
Store(r) ==
  /\ pc[r] = "storing"
  /\ cache' = [cache EXCEPT ![Guid(r)] = at[r]]
  /\ Goto(r, "routed")
  /\ UNCHANGED <<hiveVars, txnVars, hookVars, operation, writer, call, at, left, status, torn>>

\* No hive has it: a create falls back on the roots, a drop has succeeded.
Exhausted(r) ==
  /\ pc[r] = "probing" /\ left[r] = {}
  /\ LET roots == {h \in Hives : RootGUID[h] = Guid(r)}
     IN \/ /\ call[r].op = "create" /\ roots # {}
           /\ \E h \in roots : at' = [at EXCEPT ![r] = h]
           /\ Goto(r, "routed")
           /\ UNCHANGED <<txnVars, operation, writer, status>>
        \/ /\ call[r].op = "drop" /\ Answer(r, "OK")
           /\ UNCHANGED <<txnVars, at>>
        \/ /\ call[r].op = "read" \/ (call[r].op = "create" /\ roots = {})
           /\ Unsuccessful(r, "NotFound")
           /\ UNCHANGED at
  /\ UNCHANGED <<hiveVars, cache, hookVars, call, left, torn>>

\* An unreadable hive, a fault or the deadline, before any row is written.
Fail(r) ==
  /\ pc[r] \in {"probing", "routed", "writing"}
  /\ Unsuccessful(r, "StorageError")
  /\ UNCHANGED <<hiveVars, cache, hookVars, call, at, left, torn>>

-----------------------------------------------------------------------------
\* The handlers, once they know the hive

\* handleReadKey.  A read-only transaction pins its snapshot here.
Read(r) ==
  LET t == Txn(r) h == at[r] IN
  /\ pc[r] = "routed" /\ call[r].op = "read" /\ writer[h] = Nobody
  /\ IF t \in failed \/ (Pinned(t) /\ bound[t] # h)
       THEN Unsuccessful(r, "StorageError")
       ELSE LET pins == t \in ReadOnly /\ bound[t] = NoHive
                sees == IF pins THEN keys[h] ELSE ViewOf(t, h)
            IN \/ /\ bound' = IF pins THEN [bound EXCEPT ![t] = h] ELSE bound
                  /\ view' = IF pins THEN [view EXCEPT ![t] = sees] ELSE view
                  /\ Answer(r, IF Guid(r) \in sees THEN "OK" ELSE "NotFound")
                  /\ UNCHANGED <<failed, ended>>
               \/ Guid(r) \notin sees /\ Poison(r)
  /\ UNCHANGED <<hiveVars, cache, hookVars, call, at, left, torn>>

\* otherWriter: another transaction has the write connection of h.
OtherWriter(t, h) ==
  \E u \in Txns \ ReadOnly : u # t /\ Pinned(u) /\ bound[u] = h

\* writeQ: what it refuses with, in the order it checks.
Refusal(r) ==
  LET t == Txn(r) IN
  CASE t \in ReadOnly -> "Invalid"
    [] OtherWriter(t, at[r]) -> "TxnBusy"
    [] t \in failed \/ (Pinned(t) /\ bound[t] # at[r]) -> "StorageError"
    [] OTHER -> "none"

\* Only the refusal of a read-only transaction does not wait for the gate.
WriteQ(r) ==
  LET t == Txn(r) h == at[r] IN
  /\ pc[r] = "routed" /\ call[r].op \in {"create", "drop"}
  /\ Refusal(r) = "Invalid" \/ writer[h] = Nobody
  /\ IF Refusal(r) # "none"
       THEN Unsuccessful(r, Refusal(r))
       ELSE /\ writer' = [writer EXCEPT ![h] = r] /\ Goto(r, "writing")
            /\ IF t = NoTxn \/ Pinned(t)
                 THEN UNCHANGED <<bound, view>>
                 ELSE /\ bound' = [bound EXCEPT ![t] = h]
                      /\ view' = [view EXCEPT ![t] = keys[h]]
            /\ UNCHANGED <<failed, ended, operation, status>>
  /\ UNCHANGED <<hiveVars, cache, hookVars, call, at, left, torn>>

\* The statements of handleCreateKey and handleDropKey.  Neither asks
\* whether the parent of a new key exists.
Execute(r) ==
  LET t == Txn(r) h == at[r]
      created == IF call[r].op = "create" THEN {call[r].new} ELSE {}
      dropped == IF call[r].op = "drop" THEN {Guid(r)} ELSE {}
      after == (ViewOf(t, h) \ dropped) \cup created
  IN
  /\ pc[r] = "writing"
  /\ IF created \cap ViewOf(t, h) # {}
       THEN Unsuccessful(r, "AlreadyExists") /\ UNCHANGED hiveVars
       ELSE /\ Goto(r, "executed")
            /\ keys' = IF t = NoTxn THEN [keys EXCEPT ![h] = after] ELSE keys
            /\ born' = IF t = NoTxn THEN born \cup created ELSE born
            /\ view' = IF t = NoTxn THEN view ELSE [view EXCEPT ![t] = after]
            /\ UNCHANGED <<bound, failed, ended, operation, writer, status>>
  /\ UNCHANGED <<cache, hookVars, call, at, left, torn>>

\* A transactional drop that fails after its first DELETE: the key is gone
\* from the transaction's view and no hook has been added.
DropFails(r) ==
  /\ pc[r] = "executed" /\ call[r].op = "drop" /\ Txn(r) # NoTxn
  /\ torn' = torn \cup {Guid(r)}
  /\ Unsuccessful(r, "StorageError")
  /\ UNCHANGED <<hiveVars, cache, hookVars, call, at, left>>

\* The end of handleCreateKey.
CacheCreated(r) ==
  LET t == Txn(r) IN
  /\ pc[r] = "executed" /\ call[r].op = "create"
  /\ cache' = [cache EXCEPT ![call[r].new] = at[r]]
  /\ onAbort' = [u \in Txns |-> onAbort[u] \cup IF u = t THEN {call[r].new} ELSE {}]
  /\ Answer(r, "OK")
  /\ UNCHANGED <<hiveVars, txnVars, onCommit, call, at, left, torn>>

\* The end of handleDropKey.
CacheDropped(r) ==
  LET t == Txn(r) IN
  /\ pc[r] = "executed" /\ call[r].op = "drop"
  /\ IF t = NoTxn THEN Evict({Guid(r)}) ELSE UNCHANGED cache
  /\ onCommit' = [u \in Txns |-> onCommit[u] \cup IF u = t THEN {Guid(r)} ELSE {}]
  /\ Answer(r, "OK")
  /\ UNCHANGED <<hiveVars, txnVars, onAbort, call, at, left, torn>>

\* handleDeleteLayer, after its walk: no gate is held any more.
EvictOrphan(r) ==
  /\ pc[r] = "evicting"
  /\ Evict({Guid(r)})
  /\ Answer(r, "OK")
  /\ UNCHANGED <<hiveVars, txnVars, hookVars, call, at, left, torn>>

-----------------------------------------------------------------------------
\* txnManager.commit and abort

GateFor(r) == \A h \in Hives : h = bound[Txn(r)] => writer[h] = Nobody
EnterGate(r) == writer' = [h \in Hives |-> IF h = bound[Txn(r)] THEN r ELSE writer[h]]

\* A snapshot is only released; COMMIT may fail and leave all as it was.
Commit(r) ==
  LET t == Txn(r) h == bound[t] publishes == Pinned(t) /\ t \notin ReadOnly IN
  /\ pc[r] = "control" /\ call[r].op = "commit"
  /\ \/ t \in failed /\ Answer(r, "StorageError") /\ UNCHANGED hiveVars
     \/ t \notin failed /\ GateFor(r) /\ Answer(r, "StorageError") /\ UNCHANGED hiveVars
     \/ /\ t \notin failed /\ GateFor(r) /\ EnterGate(r)
        /\ keys' = IF publishes THEN [keys EXCEPT ![h] = view[t]] ELSE keys
        /\ born' = IF publishes THEN born \cup view[t] ELSE born
        /\ Goto(r, "committed") /\ UNCHANGED <<operation, status>>
  /\ UNCHANGED <<cache, txnVars, hookVars, call, at, left, torn>>

\* The transaction leaves the map, its connection its pin.
Forget(t) ==
  /\ ended' = ended \cup {t} /\ view' = [view EXCEPT ![t] = {}]
  /\ UNCHANGED <<bound, failed>>

\* The hooks go with the txnInfo that holds them.
DropHooks(t) ==
  onCommit' = [onCommit EXCEPT ![t] = {}] /\ onAbort' = [onAbort EXCEPT ![t] = {}]

CommitHooks(r) ==
  /\ pc[r] = "committed"
  /\ Evict(onCommit[Txn(r)]) /\ DropHooks(Txn(r))
  /\ Forget(Txn(r)) /\ Answer(r, "OK")
  /\ UNCHANGED <<hiveVars, call, at, left, torn>>

\* abort waits as long as it takes; it leaves the map before ROLLBACK.
Abort(r) ==
  /\ pc[r] = "control" /\ call[r].op = "abort"
  /\ GateFor(r) /\ EnterGate(r)
  /\ Forget(Txn(r)) /\ Goto(r, "aborted")
  /\ UNCHANGED <<hiveVars, cache, hookVars, operation, status, call, at, left, torn>>

\* Faulty: a transaction rolled back by an earlier interruption has nothing
\* left to undo.
AbortHooksUnlessFailed(r) ==
  /\ pc[r] = "aborted"
  /\ IF Txn(r) \in failed THEN UNCHANGED cache ELSE Evict(onAbort[Txn(r)])
  /\ DropHooks(Txn(r))
  /\ Answer(r, "OK")
  /\ UNCHANGED <<hiveVars, txnVars, call, at, left, torn>>

AbortHooks(r) ==
  /\ pc[r] = "aborted"
  /\ Evict(onAbort[Txn(r)]) /\ DropHooks(Txn(r))
  /\ Answer(r, "OK")
  /\ UNCHANGED <<hiveVars, txnVars, call, at, left, torn>>

-----------------------------------------------------------------------------
Step(r) ==
  \/ Dispatch(r) \/ Load(r) \/ Store(r) \/ Exhausted(r) \/ Fail(r)
  \/ \E h \in Hives : Probe(r, h)
  \/ Read(r) \/ WriteQ(r) \/ Execute(r) \/ DropFails(r) \/ CacheCreated(r) \/ CacheDropped(r)
  \/ EvictOrphan(r)
  \/ Commit(r) \/ CommitHooks(r) \/ Abort(r) \/ AbortHooks(r)

\* What request r would find now if it looked in the right hive.
InView(r) ==
  pc[r] # "idle" /\ Guid(r) \in ViewOf(Txn(r), Home[Guid(r)])

Watch ==
  steady' = {r \in Requests :
               CASE pc[r] = "idle" -> InView(r)'
                 [] "answered" \in {pc[r], pc'[r]} -> r \in steady
                 [] OTHER -> r \in steady /\ InView(r)'}

\* Every request has been answered; anything else without a next step would
\* be a deadlock.
Done ==
  (\A r \in Requests : scenario[r] # {} => pc[r] = "answered") /\ UNCHANGED vars

Next == (\E r \in Requests : Step(r) /\ Watch) \/ Done

Spec == Init /\ [][Next /\ UNCHANGED scenario]_<<vars, scenario>>
-----------------------------------------------------------------------------
Places == {"idle", "loading", "probing", "storing", "routed", "writing",
           "executed", "evicting", "control", "committed", "aborted", "answered"}

\* Every variable holds a value of its kind.
TypeOK ==
  /\ keys \in [Hives -> SUBSET Guids] /\ born \in SUBSET Guids
  /\ cache \in [Guids -> Hives \cup {NoHive}]
  /\ bound \in [Txns -> Hives \cup {NoHive}] /\ view \in [Txns -> SUBSET Guids]
  /\ failed \in SUBSET Txns /\ ended \in SUBSET Txns
  /\ onCommit \in [Txns -> SUBSET Guids] /\ onAbort \in [Txns -> SUBSET Guids]
  /\ operation \in [Txns -> Requests \cup {Nobody}]
  /\ writer \in [Hives -> Requests \cup {Nobody}]
  /\ pc \in [Requests -> Places] /\ call \in [Requests -> Call]
  /\ at \in [Requests -> Hives \cup {NoHive}] /\ left \in [Requests -> SUBSET Hives]
  /\ status \in [Requests -> {"none", "OK", "NotFound", "Invalid", "TxnBusy",
                              "AlreadyExists", "StorageError"}]
  /\ torn \in SUBSET Guids /\ steady \in SUBSET Requests

\* A key that stays in a request's view from dispatch to answer (committed,
\* or in the view its transaction is pinned to) is never answered as
\* RSI_NOT_FOUND, whatever is evicted, dropped, committed or aborted
\* meanwhile: resolveHive's cache and its probes lose no key.
NeverLost ==
  \A r \in Requests : r \in steady /\ pc[r] = "answered" => status[r] # "NotFound"

\* A cached GUID has been committed, or was created by a transaction whose
\* abort, if it comes, still owes the eviction: the ghost of an aborted
\* create does not stay in guidCache, not even when the transaction was
\* interrupted and rolled back long before its abort.  The one exception is a
\* key whose drop failed part-way in the transaction that created it.
NoGhost ==
  \A g \in Guids \ torn :
    cache[g] # NoHive => g \in born \/ \E t \in Txns : g \in onAbort[t]

\* guidCache holds what is committed, or what an abort still owes an eviction.
CacheInv == TypeOK /\ NoGhost
=============================================================================
