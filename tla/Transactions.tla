---------------------------- MODULE Transactions ----------------------------
(***************************************************************************)
(* The transaction manager of internal/handler (txn.go, lease.go,          *)
(* request.go, the routing of routing.go and the control handlers of       *)
(* txn_handlers.go) between concurrent requests, lease maintenance and     *)
(* shutdown.                                                               *)
(*                                                                         *)
(* What a mutation writes is reduced to the fact that it wrote: request r  *)
(* changing store s of hive h is the triple <<r, h, s>>.  Choosing the     *)
(* hive from a GUID (resolveHive) and the rows are left to other modules.  *)
(*                                                                         *)
(* Every actor takes the steps a goroutine takes between two waits, two    *)
(* critical sections of txnManager.mu or two SQL statements.  The hive     *)
(* gate is the one Gate.tla is shown to implement: readers share it, a     *)
(* writer is alone, and a queued writer keeps new readers out.             *)
(***************************************************************************)
EXTENDS Naturals, FiniteSets

CONSTANTS
  Requests,   \* RSI requests other than BEGIN, each dispatched at most once
  Txns,       \* transaction ids; the kernel hands out each id once
  Hives,
  Scenarios,  \* the bounds of the behaviours explored: in each scenario,
              \* calls[r]: the calls request r may turn out to be (none: it is
              \* not sent), hurried: the requests whose deadline may pass, and
              \* aging: the transactions whose lease runs down
  AutoRollback,  \* whether a storage fault makes SQLite end the transaction
  NoTxn, NoHive, Nobody

\* main is the hive's file, volatile the attached tmpfs database.
Stores == {"main", "volatile"}

\* op     "write" (the nine mutations), "read" (the four queries), "commit",
\*        "abort", "deleteLayer" or "flush"
\* local  without a transaction, whether the handler opens one of its own
\*        (drop, hide, compare-and-set) or runs bare statements
Ops == {"write", "read", "commit", "abort", "deleteLayer", "flush"}

Call == [op : Ops, txn : Txns \cup {NoTxn}, hive : Hives,
         stores : SUBSET Stores, local : BOOLEAN]

ASSUME ScenariosAssumption ==
  \A x \in Scenarios :
    /\ x.calls \in [Requests -> SUBSET Call]
    /\ \A r \in Requests : \A k \in x.calls[r] : k.op \in {"commit", "abort"} => k.txn # NoTxn
    /\ x.hurried \subseteq Requests /\ x.aging \subseteq Txns

ASSUME ConstantsAssumption ==
  /\ AutoRollback \in BOOLEAN
  /\ NoTxn \notin Txns /\ NoHive \notin Hives
  /\ Nobody \notin Requests \cup Txns
  /\ IsFiniteSet(Requests) /\ IsFiniteSet(Txns) /\ IsFiniteSet(Hives)
  /\ Hives # {} /\ Requests \cap Txns = {}

\* The goroutine maintainLeases starts for an expired transaction, and the
\* one that runs txnManager.close.
Cleaner(t) == <<"cleanup", t>>
Closer == <<"close">>
Actors == Requests \cup {Cleaner(t) : t \in Txns} \cup {Closer}

\* Neither is a request, nor a transaction.
ASSUME ActorsAssumption ==
  /\ \A t \in Txns : Cleaner(t) \notin Requests \cup Txns \cup {Nobody}
  /\ Closer \notin Requests \cup Txns \cup {Nobody}

Writes == Requests \X Hives \X Stores

VARIABLES
  registered,  \* the keys of txnManager.txns
  begun,       \* ids the kernel has used
  readOnly,    \* info.readOnly
  bound,       \* info.hive, NoHive for nil
  conn,        \* info.conn: "none", "write" or "snapshot"
  failed,      \* info.failed
  expired,     \* info.expired
  cleaning,    \* info.cleanupStarted
  lease,       \* where now stands relative to info.leaseNS and lifetimeNS
  owned,       \* transactions with a live owner in the kernel
  renewal,     \* progress of the renewal ioctl of maintainLeases
  opHolder,    \* who holds info.operation
  inside,      \* who holds the publication gate of a hive
  writeConn,   \* who has the hive's only write connection
  sqlTxn,      \* whether a SQLite transaction is open on that connection
  pending,     \* its uncommitted writes
  published,   \* writes that readers of the hive see
  snap,        \* what a read-only transaction pinned
  pc, call,
  at,          \* the hive an actor is working on
  todo,        \* the hives RSI_DELETE_LAYER has not reached
  status,      \* the status a request will answer with
  late,        \* requests whose context is done
  seen,        \* what a read returned
  phase,       \* of the process: see Shutdown below
  scenario     \* the scenario this behaviour belongs to; never changes

txnVars == <<registered, begun, readOnly, bound, conn, failed>>
leaseVars == <<expired, cleaning, lease, owned, renewal>>
lockVars == <<opHolder, inside>>
storeVars == <<writeConn, sqlTxn, pending, published, snap>>
actorVars == <<pc, call, at, todo, status, late, seen>>
vars == <<txnVars, leaseVars, lockVars, storeVars, actorVars, phase>>

Places ==
  {"idle",       \* not dispatched
   "operation",  \* waiting for info.operation
   "admitted",   \* past startRequest
   "gate",       \* waiting for the hive's publication gate
   "routing",    \* holding it, about to pick a connection
   "connect",    \* waiting for the write connection
   "statement",  \* about to run the mutating statements
   "commit",     \* about to run COMMIT
   "publishing", \* COMMIT has published main and not yet volatile
   "pin", "pinning",      \* about to pin main, volatile, in a new snapshot
   "reading", "reading2", \* about to read main, volatile
   "ending",     \* abort, about to leave the map
   "rollback",   \* abort, out of the map, connection not yet rolled back
   "finish",     \* about to run finishRequest (commit: close)
   "poisoning",  \* in failInterrupted, after the rollback
   "answered"}

\* Cleanup and close only ever abort; requests get their call on dispatch.
IdleCall == [op |-> "abort", txn |-> NoTxn, hive |-> CHOOSE h \in Hives : TRUE,
             stores |-> {}, local |-> FALSE]

Statuses == {"none", "OK", "TxnBusy", "StorageError", "Invalid"}

Init ==
  /\ registered = {} /\ begun = {} /\ readOnly = {} /\ failed = {}
  /\ bound = [t \in Txns |-> NoHive]
  /\ conn = [t \in Txns |-> "none"]
  /\ expired = {} /\ cleaning = {} /\ owned = {}
  /\ lease = [t \in Txns |-> "fresh"]
  /\ renewal = [t \in Txns |-> "idle"]
  /\ opHolder = [t \in Txns |-> Nobody]
  /\ inside = [h \in Hives |-> {}]
  /\ writeConn = [h \in Hives |-> Nobody]
  /\ sqlTxn = [h \in Hives |-> FALSE]
  /\ pending = {} /\ published = {}
  /\ snap = [t \in Txns |-> {}]
  /\ pc = [a \in Actors |-> "idle"]
  /\ call = [a \in Actors |-> IdleCall]
  /\ at = [a \in Actors |-> NoHive]
  /\ todo = [a \in Actors |-> {}]
  /\ status = [a \in Actors |-> "none"]
  /\ late = {}
  /\ seen = [a \in Actors |-> {}]
  /\ phase = "serving"
  /\ scenario \in Scenarios

-----------------------------------------------------------------------------
Tid(a) == call[a].txn
InTxn(a) == Tid(a) # NoTxn
IsRead(a) == call[a].op = "read"
\* The nine mutations, made inside a transaction of the client.
InClientTxn(a) == call[a].op = "write" /\ InTxn(a)
IsControl(a) == call[a].op \in {"commit", "abort"}

Goto(a, place) == pc' = [pc EXCEPT ![a] = place]

\* The handler settles on a status and falls through to its deferred calls.
Settle(a, s) == Goto(a, "finish") /\ status' = [status EXCEPT ![a] = s]

ErrorsSwallowed == {"TxnBusy", "StorageError", "OK"}
\* What a failed step reports: contention and an expired context are busy, an
\* interrupt and any other fault are a storage error (isBusy, storageStatus).
Errors == {"TxnBusy", "StorageError"}

WritesOf(a, h, stores) == {<<a, h, s>> : s \in stores}
In(h, store) == Requests \X {h} \X {store}
InHive(h) == Requests \X {h} \X Stores

-----------------------------------------------------------------------------
(* Begin, and the operation gate                                           *)

\* The transactions the scenario is about.
Named == {k.txn : k \in UNION {scenario.calls[r] : r \in Requests}}

\* RSI_BEGIN_TRANSACTION, dispatched in the read loop itself.
Begin(t, mode) ==
  /\ phase = "serving"
  /\ t \in Named /\ t \notin begun
  /\ begun' = begun \cup {t}
  /\ registered' = registered \cup {t}
  /\ readOnly' = IF mode = "readOnly" THEN readOnly \cup {t} ELSE readOnly
  /\ owned' = owned \cup {t}
  /\ UNCHANGED <<bound, conn, failed, expired, cleaning, lease, renewal>>
  /\ UNCHANGED <<lockVars, storeVars, actorVars, phase>>

\* startRequest up to the wait for the operation gate.
Dispatch(r) ==
  /\ phase = "serving"
  /\ pc[r] = "idle"
  /\ \E k \in scenario.calls[r] :
       /\ k.op \notin {"commit", "abort"}
       /\ call' = [call EXCEPT ![r] = k]
       /\ \/ k.txn = NoTxn /\ Goto(r, "admitted") /\ UNCHANGED status
          \/ k.txn \in registered /\ Goto(r, "operation") /\ UNCHANGED status
          \* the transaction is unknown, or the kernel supplied no lease with the
          \* request because its owner is gone
          \/ /\ k.txn \in (Txns \ registered) \cup (Txns \ owned)
             /\ Goto(r, "answered")
             /\ status' = [status EXCEPT ![r] = "StorageError"]
  /\ UNCHANGED <<txnVars, leaseVars, lockVars, storeVars, at, todo, late, seen, phase>>

\* COMMIT and ABORT carry their transaction in the payload and take its gate in
\* commit and abort.  An abort of what is unknown has succeeded already.
DispatchControl(r) ==
  /\ phase = "serving"
  /\ pc[r] = "idle"
  /\ \E k \in scenario.calls[r] :
       /\ k.op \in {"commit", "abort"}
       /\ call' = [call EXCEPT ![r] = k]
       /\ \/ k.txn \in registered /\ Goto(r, "operation") /\ UNCHANGED status
          \/ /\ k.txn \notin registered
             /\ Goto(r, "answered")
             /\ status' = [status EXCEPT ![r] = IF k.op = "abort" THEN "OK" ELSE "StorageError"]
          \/ /\ k.op = "commit" /\ k.txn \notin owned
             /\ Goto(r, "answered")
             /\ status' = [status EXCEPT ![r] = "Invalid"]
  /\ UNCHANGED <<txnVars, leaseVars, lockVars, storeVars, at, todo, late, seen, phase>>

\* leaseExpired: true for good once now has reached a limit.
LeaseExpired(t) == t \in expired \/ lease[t] = "over"

\* Cleanup is let in whatever the lease says.
RefusedWithCleanup(a) == LeaseExpired(Tid(a))
Refused(a) == call[a].op # "abort" /\ LeaseExpired(Tid(a))

\* lockOperationMode: the gate is free, and the transaction is looked up again.
AdmitOperation(a) ==
  LET t == Tid(a)
  IN  /\ pc[a] = "operation"
      /\ a \notin late \/ call[a].op = "abort"
      /\ opHolder[t] = Nobody
      /\ expired' = IF Refused(a) THEN expired \cup {t} ELSE expired
      /\ IF t \in registered /\ ~Refused(a)
         THEN /\ opHolder' = [opHolder EXCEPT ![t] = a]
              /\ Goto(a, "admitted")
              /\ UNCHANGED status
         ELSE /\ Goto(a, "answered")
              /\ status' = [status EXCEPT ![a] =
                              IF call[a].op = "abort" THEN "OK" ELSE "StorageError"]
              /\ UNCHANGED opHolder
      /\ UNCHANGED <<txnVars, cleaning, lease, owned, renewal, inside, storeVars>>
      /\ UNCHANGED <<call, at, todo, late, seen, phase>>

\* The deadline passes first.  No transaction was touched, none is poisoned.
OperationTimeout(a) ==
  /\ pc[a] = "operation"
  /\ a \in late /\ call[a].op # "abort"
  /\ Goto(a, "answered")
  /\ status' = [status EXCEPT ![a] = "TxnBusy"]
  /\ UNCHANGED <<txnVars, leaseVars, lockVars, storeVars, call, at, todo, late, seen, phase>>

-----------------------------------------------------------------------------
(* From admission to the hive gate                                         *)

AnyWriteBound == \E t \in registered : t \notin readOnly /\ conn[t] # "none"

\* otherWriter and, with NoTxn, hiveBusy.
NoOtherWriter(h, id) == FALSE
OtherWriter(h, id) ==
  \E t \in registered \ {id} : t \notin readOnly /\ bound[t] = h /\ conn[t] # "none"

HiveBusy(h) == OtherWriter(h, NoTxn)

\* Each handler's checks before it asks for a hive gate.
Admitted(a, ops) == pc[a] = "admitted" /\ call[a].op \in ops

WaitAt(a, h) ==
  /\ Goto(a, "gate")
  /\ at' = [at EXCEPT ![a] = h]
  /\ UNCHANGED <<todo, status>>

Refuse(a, s) == Settle(a, s) /\ UNCHANGED <<at, todo>>

Proceed(a, place) == Goto(a, place) /\ UNCHANGED <<at, todo, status>>

MutationAllowed(a) == Tid(a) \notin readOnly

StartMutation(a) ==
  /\ Admitted(a, {"write", "flush"})
  /\ \/ ~MutationAllowed(a) /\ Refuse(a, "Invalid")
     \/ MutationAllowed(a) /\ WaitAt(a, call[a].hive)

StartRead(a) == Admitted(a, {"read"}) /\ WaitAt(a, call[a].hive)

StartDeleteLayer(a) ==
  /\ Admitted(a, {"deleteLayer"})
  /\ \/ ~MutationAllowed(a) /\ Refuse(a, "Invalid")
     \/ MutationAllowed(a) /\ AnyWriteBound /\ Refuse(a, "TxnBusy")
     \/ /\ MutationAllowed(a) /\ ~AnyWriteBound
        /\ \E h \in Hives : /\ at' = [at EXCEPT ![a] = h]
                            /\ todo' = [todo EXCEPT ![a] = Hives \ {h}]
        /\ Goto(a, "gate")
        /\ UNCHANGED status

StartCommit(a) ==
  LET t == Tid(a)
  IN  /\ Admitted(a, {"commit"})
      /\ \/ t \in failed /\ Refuse(a, "StorageError")
         \/ t \notin failed /\ bound[t] # NoHive /\ WaitAt(a, bound[t])
         \/ t \notin failed /\ bound[t] = NoHive /\ Proceed(a, "routing")

StartAbort(a) ==
  /\ Admitted(a, {"abort"})
  /\ \/ bound[Tid(a)] # NoHive /\ WaitAt(a, bound[Tid(a)])
     \/ bound[Tid(a)] = NoHive /\ Proceed(a, "ending")

Start(a) ==
  /\ \/ StartMutation(a) \/ StartRead(a) \/ StartDeleteLayer(a)
     \/ StartCommit(a) \/ StartAbort(a)
  /\ UNCHANGED <<txnVars, leaseVars, lockVars, storeVars, call, late, seen, phase>>

\* Gate.Acquire, by what Gate.tla shows of it.
QueuedWriter(h) == \E a \in Actors : pc[a] = "gate" /\ at[a] = h /\ ~IsRead(a)

ReadersAlwaysEnter(a) == IsRead(a) \/ inside[at[a]] = {}
MayEnter(a) ==
  IF IsRead(a)
  THEN (\A b \in inside[at[a]] : IsRead(b)) /\ ~QueuedWriter(at[a])
  ELSE inside[at[a]] = {}

EnterGate(a) ==
  /\ pc[a] = "gate"
  /\ a \notin late \/ call[a].op = "abort"
  /\ MayEnter(a)
  /\ inside' = [inside EXCEPT ![at[a]] = @ \cup {a}]
  /\ Goto(a, IF call[a].op = "abort" THEN "ending" ELSE "routing")
  /\ UNCHANGED <<txnVars, leaseVars, opHolder, storeVars>>
  /\ UNCHANGED <<call, at, todo, status, late, seen, phase>>

GateTimeout(a) ==
  /\ pc[a] = "gate"
  /\ a \in late /\ call[a].op # "abort"
  /\ Settle(a, "TxnBusy")
  /\ UNCHANGED <<txnVars, leaseVars, lockVars, storeVars, call, at, todo, late, seen, phase>>

-----------------------------------------------------------------------------
(* Mutations: writeQ, getOrBindWrite, and the statements                   *)

\* A competing mutation is declined at once, errWriterBusy.
RetryWhenBusy(a) ==
  /\ inside' = [inside EXCEPT ![at[a]] = @ \ {a}]
  /\ Goto(a, "gate") /\ UNCHANGED status
DeclineBusy(a) == Settle(a, "TxnBusy") /\ UNCHANGED inside

Competes(a) ==
  IF call[a].op = "write" THEN OtherWriter(at[a], Tid(a)) ELSE HiveBusy(at[a])

\* writeQ once it holds the gate, and the first half of getOrBindWrite;
\* RSI_FLUSH and RSI_DELETE_LAYER make the same test of the hive.
RouteWrite(a) ==
  LET t == Tid(a)
      h == at[a]
  IN  /\ pc[a] = "routing"
      /\ call[a].op \in {"write", "flush", "deleteLayer"}
      /\ \/ Competes(a) /\ DeclineBusy(a)
         \/ /\ ~Competes(a) /\ UNCHANGED inside
            /\ \/ /\ InClientTxn(a)
                  /\ t \in failed \/ (conn[t] # "none" /\ bound[t] # h)
                  /\ Settle(a, "StorageError")
               \/ /\ InClientTxn(a)
                  /\ t \notin failed /\ conn[t] # "none" /\ bound[t] = h
                  /\ Goto(a, "statement") /\ UNCHANGED status
               \/ /\ InClientTxn(a) => t \notin failed /\ conn[t] = "none"
                  /\ Goto(a, "connect") /\ UNCHANGED status
      /\ UNCHANGED <<txnVars, leaseVars, opHolder, storeVars, call, at, todo, late, seen, phase>>

\* The pool hands out the write connection.  A transaction binds to it with
\* BEGIN IMMEDIATE; a handler with a transaction of its own opens that one; bare
\* statements run on it as they are.
Connect(a) ==
  LET t == Tid(a)
      h == at[a]
      binds == InClientTxn(a)
  IN  /\ pc[a] = "connect"
      /\ call[a].op \in {"write", "deleteLayer"}
      /\ a \notin late
      /\ writeConn[h] = Nobody
      /\ writeConn' = [writeConn EXCEPT ![h] = IF binds THEN t ELSE a]
      /\ sqlTxn' = [sqlTxn EXCEPT ![h] = binds \/ call[a].op = "deleteLayer" \/ call[a].local]
      /\ bound' = IF binds THEN [bound EXCEPT ![t] = h] ELSE bound
      /\ conn' = IF binds THEN [conn EXCEPT ![t] = "write"] ELSE conn
      /\ Goto(a, "statement")
      /\ UNCHANGED <<registered, begun, readOnly, failed, leaseVars, lockVars>>
      /\ UNCHANGED <<pending, published, snap, call, at, todo, status, late, seen, phase>>

\* The wait for the connection, or BEGIN IMMEDIATE, fails; rolled back and
\* released before anyone hears of it.
ConnectFails(a) ==
  /\ pc[a] = "connect"
  /\ call[a].op \in {"write", "deleteLayer"}
  /\ a \in late \/ writeConn[at[a]] = Nobody
  /\ \E s \in Errors : Settle(a, s)
  /\ UNCHANGED <<txnVars, leaseVars, lockVars, storeVars, call, at, todo, late, seen, phase>>

\* RSI_FLUSH: PRAGMA wal_checkpoint(TRUNCATE), which a pinned snapshot blocks.
Checkpoint(a) ==
  /\ pc[a] = "connect"
  /\ call[a].op = "flush"
  /\ a \in late \/ writeConn[at[a]] = Nobody
  /\ \E s \in Errors \cup {"OK"} :
       /\ s = "OK" => a \notin late
                      /\ \A t \in Txns : ~(conn[t] = "snapshot" /\ bound[t] = at[a])
       /\ Settle(a, s)
  /\ UNCHANGED <<txnVars, leaseVars, lockVars, storeVars, call, at, todo, late, seen, phase>>

StoresOf(a) == IF call[a].op = "deleteLayer" THEN Stores ELSE call[a].stores

\* The statements succeed.  They stay uncommitted if SQLite has a transaction
\* open, and are published at once if it has not.
Statement(a) ==
  LET h == at[a]
      new == WritesOf(a, h, StoresOf(a))
  IN  /\ pc[a] = "statement"
      /\ IF sqlTxn[h]
         THEN pending' = pending \cup new /\ UNCHANGED published
         ELSE published' = published \cup new /\ UNCHANGED pending
      /\ \/ /\ InClientTxn(a)
            /\ Settle(a, "OK") /\ UNCHANGED writeConn
         \/ /\ ~InClientTxn(a) /\ sqlTxn[h]
            /\ Goto(a, "commit") /\ UNCHANGED <<status, writeConn>>
         \/ /\ ~InClientTxn(a) /\ ~sqlTxn[h]
            /\ Settle(a, "OK")
            /\ writeConn' = [writeConn EXCEPT ![h] = Nobody]
      /\ UNCHANGED <<txnVars, leaseVars, lockVars, sqlTxn, snap>>
      /\ UNCHANGED <<call, at, todo, late, seen, phase>>

\* Drop what a transaction of hive h has not committed.
Discarded(h) == pending \ InHive(h)

\* What of a failing request has run: nothing, the deletes of main before those
\* of volatile, or, when the deadline fires as the last statement ends, all.
RanUntilFailure(a) ==
  {{}, StoresOf(a) \ {"volatile"}} \cup (IF a \in late THEN {StoresOf(a)} ELSE {})

\* SQLite may end the transaction when a statement is interrupted, and on a
\* storage fault too if AutoRollback says so.
MayEndTransaction(a) == (a \in late) \/ AutoRollback

\* A statement fails, on a deadline or on a storage fault.  A transaction of
\* the handler's own is rolled back, one of the client stays as SQLite left it.
StatementFails(a) ==
  LET h == at[a]
      client == InClientTxn(a)
  IN  /\ pc[a] = "statement"
      /\ \E s \in Errors, ran \in RanUntilFailure(a), ended \in {FALSE, MayEndTransaction(a)} :
           /\ Settle(a, s)
           /\ published' = IF sqlTxn[h] THEN published ELSE published \cup WritesOf(a, h, ran)
           /\ pending' = IF ended \/ ~client THEN Discarded(h)
                         ELSE IF sqlTxn[h] THEN pending \cup WritesOf(a, h, ran) ELSE pending
           /\ sqlTxn' = [sqlTxn EXCEPT ![h] = @ /\ client /\ ~ended]
           /\ writeConn' = IF client THEN writeConn ELSE [writeConn EXCEPT ![h] = Nobody]
      /\ UNCHANGED <<txnVars, leaseVars, lockVars, snap, call, at, todo, late, seen, phase>>

-----------------------------------------------------------------------------
(* Commit                                                                  *)

\* What commit decides between the hive gate and COMMIT, under mu.
DecideCommit(a) ==
  LET t == Tid(a)
  IN  /\ pc[a] = "routing"
      /\ call[a].op = "commit"
      /\ \/ /\ a \in late
            /\ Settle(a, "TxnBusy")
            /\ UNCHANGED <<registered, conn, snap, expired>>
         \/ /\ a \notin late /\ LeaseExpired(t)
            /\ Settle(a, "StorageError")
            /\ expired' = expired \cup {t}
            /\ UNCHANGED <<registered, conn, snap>>
         \/ /\ a \notin late /\ ~LeaseExpired(t) /\ conn[t] = "write"
            /\ Goto(a, "commit")
            /\ UNCHANGED <<registered, conn, snap, expired, status>>
         \* a read-only transaction gives up its snapshot, an unbound one has nothing
         \/ /\ a \notin late /\ ~LeaseExpired(t) /\ conn[t] # "write"
            /\ registered' = registered \ {t}
            /\ conn' = [conn EXCEPT ![t] = "none"]
            /\ snap' = [snap EXCEPT ![t] = {}]
            /\ Settle(a, "OK")
            /\ UNCHANGED expired
      /\ UNCHANGED <<begun, readOnly, bound, failed, cleaning, lease, owned, renewal>>
      /\ UNCHANGED <<lockVars, writeConn, sqlTxn, pending, published>>
      /\ UNCHANGED <<call, at, todo, late, seen, phase>>

\* COMMIT itself is never canceled: a failure leaves everything unpublished.
CommitCancelable(a) == pc[a] = "commit" \/ (pc[a] = "publishing" /\ a \in late)
CommitMayFail(a) == pc[a] = "commit"

\* commitConn is refused by the deadline, or COMMIT fails.  A transaction of
\* the client stays open, one of the handler's own is rolled back.
CommitFails(a) ==
  LET h == at[a]
      own == call[a].op # "commit"
  IN  /\ CommitMayFail(a)
      /\ \E s \in Errors, ended \in {own, own \/ (AutoRollback /\ a \notin late)} :
           /\ Settle(a, s)
           /\ pending' = IF ended THEN Discarded(h) ELSE pending
           /\ sqlTxn' = [sqlTxn EXCEPT ![h] = @ /\ ~ended]
      /\ writeConn' = IF own THEN [writeConn EXCEPT ![h] = Nobody] ELSE writeConn
      /\ UNCHANGED <<txnVars, leaseVars, lockVars, published, snap>>
      /\ UNCHANGED <<call, at, todo, late, seen, phase>>

\* COMMIT runs without a deadline.  WAL publishes the attached databases one
\* after the other.
PublishMain(a) ==
  LET new == pending \cap In(at[a], "main")
  IN  /\ pc[a] = "commit"
      /\ a \notin late
      /\ sqlTxn[at[a]]
      /\ published' = published \cup new
      /\ pending' = pending \ new
      /\ Goto(a, "publishing")
      /\ UNCHANGED <<txnVars, leaseVars, lockVars, writeConn, sqlTxn, snap>>
      /\ UNCHANGED <<call, at, todo, status, late, seen, phase>>

\* The rest of COMMIT, then the connection goes back to the pool.
PublishVolatile(a) ==
  LET new == pending \cap In(at[a], "volatile")
  IN  /\ pc[a] = "publishing"
      /\ published' = published \cup new
      /\ pending' = pending \ new
      /\ sqlTxn' = [sqlTxn EXCEPT ![at[a]] = FALSE]
      /\ writeConn' = [writeConn EXCEPT ![at[a]] = Nobody]
      /\ UNCHANGED <<begun, readOnly, bound, failed, leaseVars, opHolder, snap>>
      /\ UNCHANGED <<call, late, seen, phase>>

\* A transaction of the client leaves the map.
CommitDone(a) ==
  /\ call[a].op = "commit"
  /\ PublishVolatile(a)
  /\ registered' = registered \ {Tid(a)}
  /\ conn' = [conn EXCEPT ![Tid(a)] = "none"]
  /\ Settle(a, "OK")
  /\ UNCHANGED <<inside, at, todo>>

LocalCommitDone(a) ==
  /\ call[a].op # "commit" /\ todo[a] = {}
  /\ PublishVolatile(a)
  /\ Settle(a, "OK")
  /\ UNCHANGED <<registered, conn, inside, at, todo>>

\* RSI_DELETE_LAYER turns to the next hive; the map's order is arbitrary.
NextHive(a) ==
  /\ todo[a] # {}
  /\ PublishVolatile(a)
  /\ inside' = [inside EXCEPT ![at[a]] = @ \ {a}]
  /\ \E g \in todo[a] : /\ at' = [at EXCEPT ![a] = g]
                        /\ todo' = [todo EXCEPT ![a] = @ \ {g}]
  /\ Goto(a, "gate")
  /\ UNCHANGED <<registered, conn, status>>

-----------------------------------------------------------------------------
(* Reads: readQ, getReadQuerier, openPinnedSnapshot                        *)

RouteRead(a) ==
  LET t == Tid(a)
  IN  /\ pc[a] = "routing"
      /\ IsRead(a)
      /\ \/ /\ InTxn(a)
            /\ t \in failed \/ (conn[t] # "none" /\ bound[t] # at[a])
            /\ Settle(a, "StorageError")
         \/ /\ InTxn(a) /\ t \notin failed /\ conn[t] = "none" /\ t \in readOnly
            /\ Goto(a, "pin") /\ UNCHANGED status
         \/ /\ \/ ~InTxn(a)
               \/ InTxn(a) /\ t \notin failed /\ conn[t] = "none" /\ t \notin readOnly
               \/ InTxn(a) /\ t \notin failed /\ conn[t] # "none" /\ bound[t] = at[a]
            /\ Goto(a, "reading") /\ UNCHANGED status
      /\ UNCHANGED <<txnVars, leaseVars, lockVars, storeVars, call, at, todo, late, seen, phase>>

\* SQLite fixes the snapshot of each attached database at its first read.
PinMain(a) ==
  /\ pc[a] = "pin"
  /\ snap' = [snap EXCEPT ![Tid(a)] = published \cap In(at[a], "main")]
  /\ Goto(a, "pinning")
  /\ UNCHANGED <<txnVars, leaseVars, lockVars, writeConn, sqlTxn, pending, published>>
  /\ UNCHANGED <<call, at, todo, status, late, seen, phase>>

PinVolatile(a) ==
  /\ pc[a] = "pinning"
  /\ snap' = [snap EXCEPT ![Tid(a)] = @ \cup (published \cap In(at[a], "volatile"))]
  /\ bound' = [bound EXCEPT ![Tid(a)] = at[a]]
  /\ conn' = [conn EXCEPT ![Tid(a)] = "snapshot"]
  /\ Goto(a, "reading")
  /\ UNCHANGED <<registered, begun, readOnly, failed, leaseVars, lockVars>>
  /\ UNCHANGED <<writeConn, sqlTxn, pending, published, call, at, todo, status, late, seen, phase>>

PinFails(a) ==
  /\ pc[a] \in {"pin", "pinning"}
  /\ snap' = [snap EXCEPT ![Tid(a)] = {}]
  /\ \E s \in Errors : Settle(a, s)
  /\ UNCHANGED <<txnVars, leaseVars, lockVars, writeConn, sqlTxn, pending, published>>
  /\ UNCHANGED <<call, at, todo, late, seen, phase>>

\* The read pool sees what is published, a bound transaction its own writes as
\* well, a snapshot what it pinned.
PoolView(a) == published
View(a) ==
  CASE ~InTxn(a) \/ (InTxn(a) /\ conn[Tid(a)] = "none") -> published
    [] InTxn(a) /\ conn[Tid(a)] = "write" -> published \cup pending
    [] OTHER -> snap[Tid(a)]

ReadMain(a) ==
  /\ pc[a] = "reading"
  /\ seen' = [seen EXCEPT ![a] = View(a) \cap In(at[a], "main")]
  /\ Goto(a, "reading2")
  /\ UNCHANGED <<txnVars, leaseVars, lockVars, storeVars, call, at, todo, status, late, phase>>

ReadVolatile(a) ==
  /\ pc[a] = "reading2"
  /\ seen' = [seen EXCEPT ![a] = @ \cup (View(a) \cap In(at[a], "volatile"))]
  /\ Settle(a, "OK")
  /\ UNCHANGED <<txnVars, leaseVars, lockVars, storeVars, call, at, todo, late, phase>>

ReadFails(a) ==
  /\ pc[a] \in {"reading", "reading2"}
  /\ \E s \in Errors : Settle(a, s)
  /\ UNCHANGED <<txnVars, leaseVars, lockVars, storeVars, call, at, todo, late, seen, phase>>

-----------------------------------------------------------------------------
(* Abort and the end of a request                                          *)

\* abort leaves the map before it touches the connection.
Unregister(a) ==
  /\ pc[a] = "ending"
  /\ registered' = registered \ {Tid(a)}
  /\ Goto(a, "rollback")
  /\ UNCHANGED <<begun, readOnly, bound, conn, failed, leaseVars, lockVars, storeVars>>
  /\ UNCHANGED <<call, at, todo, status, late, seen, phase>>

\* ROLLBACK, and the connection or the snapshot is given back: by rollbackConn
\* on a fresh context, which discards a connection it cannot roll back.
GiveBack(t) ==
  /\ IF conn[t] = "write"
     THEN /\ pending' = Discarded(bound[t])
          /\ sqlTxn' = [sqlTxn EXCEPT ![bound[t]] = FALSE]
          /\ writeConn' = [writeConn EXCEPT ![bound[t]] = Nobody]
     ELSE UNCHANGED <<pending, sqlTxn, writeConn>>
  /\ snap' = [snap EXCEPT ![t] = {}]
  /\ UNCHANGED published

RollBack(a) ==
  /\ pc[a] = "rollback"
  /\ GiveBack(Tid(a))
  /\ conn' = [conn EXCEPT ![Tid(a)] = "none"]
  /\ Settle(a, "OK")
  /\ UNCHANGED <<registered, begun, readOnly, bound, failed, leaseVars, lockVars>>
  /\ UNCHANGED <<call, at, todo, late, seen, phase>>

\* The release functions the request has collected run, and it answers.
Answer(a, s) ==
  /\ inside' = [h \in Hives |-> inside[h] \ {a}]
  /\ opHolder' = [t \in Txns |-> IF opHolder[t] = a THEN Nobody ELSE opHolder[t]]
  /\ Goto(a, "answered")
  /\ status' = [status EXCEPT ![a] = s]

\* finishRequest poisons a bound transaction when a request on it failed and
\* its deadline has passed.
NeverPoison(a) == FALSE
MustPoison(a) ==
  /\ ~IsControl(a)
  /\ a \in late
  /\ status[a] # "OK"
  /\ InTxn(a) /\ conn[Tid(a)] # "none"

Finish(a) ==
  /\ pc[a] = "finish"
  /\ ~MustPoison(a)
  /\ Answer(a, IF ~IsControl(a) /\ a \in late /\ status[a] = "StorageError"
               THEN "TxnBusy" ELSE status[a])
  /\ UNCHANGED <<txnVars, leaseVars, storeVars, call, at, todo, late, seen, phase>>

\* failInterrupted rolls back first and marks the transaction afterwards.
Interrupt(a) ==
  /\ pc[a] = "finish"
  /\ MustPoison(a)
  /\ GiveBack(Tid(a))
  /\ Goto(a, "poisoning")
  /\ UNCHANGED <<txnVars, leaseVars, lockVars, call, at, todo, status, late, seen, phase>>

PoisonAllowsRebind(a) ==
  /\ pc[a] = "poisoning"
  /\ conn' = [conn EXCEPT ![Tid(a)] = "none"]
  /\ Answer(a, "StorageError")
  /\ UNCHANGED <<registered, begun, readOnly, bound, failed, leaseVars, storeVars>>
  /\ UNCHANGED <<call, at, todo, late, seen, phase>>
Poison(a) ==
  /\ pc[a] = "poisoning"
  /\ conn' = [conn EXCEPT ![Tid(a)] = "none"]
  /\ failed' = failed \cup {Tid(a)}
  /\ Answer(a, "StorageError")
  /\ UNCHANGED <<registered, begun, readOnly, bound, leaseVars, storeVars>>
  /\ UNCHANGED <<call, at, todo, late, seen, phase>>

-----------------------------------------------------------------------------
(* Leases                                                                  *)

\* One pass of maintainLeases over the map, under mu.
Tick ==
  LET over == {t \in registered : LeaseExpired(t)}
      due == {t \in registered \ over : lease[t] = "closing"}
      new == {Cleaner(t) : t \in over \ cleaning}
  IN  /\ phase \in {"serving", "draining"}
      /\ \A t \in Txns : renewal[t] = "idle"
      /\ over \ cleaning # {} \/ due # {}
      /\ expired' = expired \cup over
      /\ cleaning' = cleaning \cup over
      /\ renewal' = [t \in Txns |-> IF t \in due THEN "pending" ELSE "idle"]
      /\ pc' = [a \in Actors |-> IF a \in new THEN "operation" ELSE pc[a]]
      /\ call' = [a \in Actors |->
                    IF a \in new THEN [call[a] EXCEPT !.txn = a[2]] ELSE call[a]]
      /\ UNCHANGED <<txnVars, lease, owned, lockVars, storeVars>>
      /\ UNCHANGED <<at, todo, status, late, seen, phase>>

\* The renewal ioctl, one transaction at a time and without mu.  The kernel
\* renews what still has an owner.
Renew(t) ==
  /\ renewal[t] = "pending"
  /\ \A u \in Txns : renewal[u] \notin {"granted", "refused"}
  /\ renewal' = [renewal EXCEPT ![t] = IF t \in owned THEN "granted" ELSE "refused"]
  /\ UNCHANGED <<txnVars, expired, cleaning, lease, owned, lockVars, storeVars, actorVars, phase>>

\* Its result is applied unless the transaction has ended or lapsed meanwhile.
\* A deadline that has already passed is as good as a refusal.
ApplyRenewalLate(t) ==
  /\ renewal[t] \in {"granted", "refused"}
  /\ renewal' = [renewal EXCEPT ![t] = "idle"]
  /\ IF renewal[t] = "granted"
     THEN lease' = [lease EXCEPT ![t] = "fresh"] /\ UNCHANGED expired
     ELSE expired' = expired \cup {t} /\ UNCHANGED lease
  /\ UNCHANGED <<txnVars, cleaning, owned, lockVars, storeVars, actorVars, phase>>
ApplyRenewal(t) ==
  /\ renewal[t] \in {"granted", "refused"}
  /\ renewal' = [renewal EXCEPT ![t] = "idle"]
  /\ \/ t \notin registered /\ UNCHANGED <<expired, lease>>
     \/ t \in registered /\ LeaseExpired(t) /\ expired' = expired \cup {t} /\ UNCHANGED lease
     \/ /\ t \in registered /\ ~LeaseExpired(t) /\ renewal[t] = "granted"
        /\ lease' = [lease EXCEPT ![t] = "fresh"]
        /\ UNCHANGED expired
     \/ /\ t \in registered /\ ~LeaseExpired(t)
        /\ expired' = expired \cup {t}
        /\ UNCHANGED lease
  /\ UNCHANGED <<txnVars, cleaning, owned, lockVars, storeVars, actorVars, phase>>

\* Time: more than leaseRenewalWindow is left, or less, or nothing.
Age(t) ==
  /\ t \in registered \cap scenario.aging
  /\ lease[t] # "over"
  /\ lease' = [lease EXCEPT ![t] = IF @ = "fresh" THEN "closing" ELSE "over"]
  /\ UNCHANGED <<txnVars, expired, cleaning, owned, renewal, lockVars, storeVars, actorVars, phase>>

\* The last handle of the transaction is closed.
Disown(t) ==
  /\ t \in registered \cap scenario.aging \cap owned
  /\ owned' = owned \ {t}
  /\ UNCHANGED <<txnVars, expired, cleaning, lease, renewal, lockVars, storeVars, actorVars, phase>>

\* The deadline of a request passes.
Expire(r) ==
  /\ r \in scenario.hurried \ late
  /\ pc[r] \notin {"idle", "answered"}
  /\ call[r].op # "abort"
  /\ late' = late \cup {r}
  /\ UNCHANGED <<txnVars, leaseVars, lockVars, storeVars, pc, call, at, todo, status, seen, phase>>

-----------------------------------------------------------------------------
(***************************************************************************)
(* Shutdown.  "serving": requests are read.  "draining": the device is     *)
(* closed and ServeWithLifetime waits for its handlers.  "stopping":       *)
(* txnManager.close waits for maintenance and cleanup.  "closing": it      *)
(* aborts what is left.  "closed": the databases are closed.               *)
(***************************************************************************)
Phases == {"serving", "draining", "stopping", "closing", "closed"}

Resting(a) == pc[a] \in {"idle", "answered"}

Drain ==
  /\ phase = "serving"
  /\ phase' = "draining"
  /\ UNCHANGED <<txnVars, leaseVars, lockVars, storeVars, actorVars>>

StopMaintenance ==
  /\ phase = "draining"
  /\ \A r \in Requests : Resting(r)
  /\ phase' = "stopping"
  /\ UNCHANGED <<txnVars, leaseVars, lockVars, storeVars, actorVars>>

MaintenanceDone ==
  /\ phase = "stopping"
  /\ \A t \in Txns : renewal[t] = "idle" /\ Resting(Cleaner(t))
  /\ phase' = "closing"
  /\ UNCHANGED <<txnVars, leaseVars, lockVars, storeVars, actorVars>>

AbortRemaining ==
  /\ phase = "closing"
  /\ Resting(Closer)
  /\ \E t \in registered : call' = [call EXCEPT ![Closer].txn = t]
  /\ Goto(Closer, "operation")
  /\ UNCHANGED <<txnVars, leaseVars, lockVars, storeVars, at, todo, status, late, seen, phase>>

CloseHives ==
  /\ phase = "closing"
  /\ Resting(Closer)
  /\ registered = {}
  /\ phase' = "closed"
  /\ UNCHANGED <<txnVars, leaseVars, lockVars, storeVars, actorVars>>

\* The process has exited.
Exited == phase = "closed" /\ UNCHANGED vars

-----------------------------------------------------------------------------
Step(a) ==
  \/ AdmitOperation(a) \/ OperationTimeout(a) \/ Start(a)
  \/ EnterGate(a) \/ GateTimeout(a)
  \/ RouteWrite(a) \/ Connect(a) \/ ConnectFails(a) \/ Checkpoint(a)
  \/ Statement(a) \/ StatementFails(a)
  \/ DecideCommit(a) \/ CommitFails(a) \/ PublishMain(a)
  \/ CommitDone(a) \/ LocalCommitDone(a) \/ NextHive(a)
  \/ RouteRead(a) \/ PinMain(a) \/ PinVolatile(a) \/ PinFails(a)
  \/ ReadMain(a) \/ ReadVolatile(a) \/ ReadFails(a)
  \/ Unregister(a) \/ RollBack(a)
  \/ Finish(a) \/ Interrupt(a) \/ Poison(a)

Maintenance == Tick \/ \E t \in Txns : Renew(t) \/ ApplyRenewal(t)

Shutdown == StopMaintenance \/ MaintenanceDone \/ AbortRemaining \/ CloseHives

Environment ==
  \/ \E t \in Txns : \E mode \in {"readWrite", "readOnly"} : Begin(t, mode)
  \/ \E t \in Txns : Age(t) \/ Disown(t)
  \/ \E r \in Requests : Dispatch(r) \/ DispatchControl(r) \/ Expire(r)
  \/ Drain

Next == (\E a \in Actors : Step(a)) \/ Maintenance \/ Shutdown \/ Environment \/ Exited

Spec == Init /\ [][Next /\ UNCHANGED scenario]_<<vars, scenario>>

\* A runnable goroutine runs, the ticker ticks, deadlines pass and leases run
\* down.  Nobody is obliged to send a request or to shut the daemon down.
Fairness ==
  /\ \A a \in Actors : WF_vars(Step(a))
  /\ WF_vars(Maintenance) /\ WF_vars(Shutdown)
  /\ \A t \in Txns : WF_vars(Age(t))
  /\ \A r \in Requests : WF_vars(Expire(r))

FairSpec == Spec /\ Fairness

-----------------------------------------------------------------------------
(* Properties                                                              *)

\* The manager's fields and the requests' local state have their types.
TypeOK ==
  /\ registered \subseteq begun /\ begun \subseteq Txns
  /\ readOnly \subseteq Txns /\ failed \subseteq Txns /\ expired \subseteq Txns
  /\ cleaning \subseteq Txns /\ owned \subseteq Txns
  /\ bound \in [Txns -> Hives \cup {NoHive}]
  /\ conn \in [Txns -> {"none", "write", "snapshot"}]
  /\ lease \in [Txns -> {"fresh", "closing", "over"}]
  /\ renewal \in [Txns -> {"idle", "pending", "granted", "refused"}]
  /\ opHolder \in [Txns -> Actors \cup {Nobody}]
  /\ inside \in [Hives -> SUBSET Actors]
  /\ writeConn \in [Hives -> Actors \cup Txns \cup {Nobody}]
  /\ sqlTxn \in [Hives -> BOOLEAN]
  /\ pending \subseteq Writes /\ published \subseteq Writes
  /\ snap \in [Txns -> SUBSET Writes]
  /\ pc \in [Actors -> Places]
  /\ call \in [Actors -> Call]
  /\ at \in [Actors -> Hives \cup {NoHive}]
  /\ todo \in [Actors -> SUBSET Hives]
  /\ status \in [Actors -> Statuses]
  /\ late \subseteq Requests
  /\ seen \in [Actors -> SUBSET Writes]
  /\ phase \in Phases

Poisoning(t) == \E a \in Actors : pc[a] = "poisoning" /\ Tid(a) = t

\* The pinned connection: a transaction that holds one is the only holder of
\* its hive's single write connection (but for the moment in failInterrupted
\* between giving it back and saying so).  Two transactions pinning one
\* connection would commit each other's writes.
PinnedConnection ==
  \A t \in Txns : conn[t] = "write" /\ ~Poisoning(t) => writeConn[bound[t]] = t

\* MaxOpenConns is 1: a handler that has been admitted to a hive finds the
\* write connection free and never waits behind an open transaction.
NeverWaitsForConnection ==
  \A a \in Actors : pc[a] = "connect" => writeConn[at[a]] = Nobody

\* "never silently ... allowed to autocommit": whenever the next operation of a
\* transaction can be admitted, a pinned connection still has its SQLite
\* transaction open.
PinnedStaysOpen ==
  \A t \in registered :
    conn[t] = "write" /\ opHolder[t] = Nobody => sqlTxn[bound[t]]

\* The one write connection of a hive serves one transaction at a time, openly
\* and to its end, and no request of another can be caught waiting for it.
ConnectionInv ==
  TypeOK /\ PinnedConnection /\ NeverWaitsForConnection /\ PinnedStaysOpen

\* Who may have made the writes of a transaction visible: a COMMIT under way or
\* one that answered OK.
Committed(t) ==
  \E r \in Requests : /\ call[r].op = "commit" /\ Tid(r) = t
                      /\ pc[r] = "publishing" \/ status[r] = "OK"

\* A request timeout is not evidence that a commit failed, and no other answer
\* is evidence that it succeeded: writes of a transaction are visible only if
\* its COMMIT reports success.
VisibleOnlyByCommit ==
  \A w \in published :
    InClientTxn(w[1]) => Committed(Tid(w[1]))

\* A write that was answered OK in a transaction whose COMMIT was answered OK
\* is visible, in every store it touched.
AcknowledgedIsVisible ==
  \A r, c \in Requests :
    /\ InClientTxn(r) /\ pc[r] = "answered" /\ status[r] = "OK"
    /\ call[c].op = "commit" /\ Tid(c) = Tid(r) /\ pc[c] = "answered" /\ status[c] = "OK"
    => WritesOf(r, call[r].hive, call[r].stores) \subseteq published

\* Writes that take effect together: those of one transaction, or those of one
\* request in one hive.
SameUnit(v, w) ==
  /\ v[2] = w[2]
  /\ \/ v[1] = w[1]
     \/ InClientTxn(v[1]) /\ InClientTxn(w[1]) /\ Tid(v[1]) = Tid(w[1])

\* Readers cannot observe one store before a commit and the other after it:
\* what a read or a snapshot has seen holds all of a unit or none of it, the
\* reader's own transaction aside.
Coherent(view, own) ==
  \A v \in view, w \in published :
    SameUnit(v, w) /\ (own = NoTxn \/ Tid(v[1]) # own) => w \in view

CoherentReads ==
  /\ \A r \in Requests : IsRead(r) /\ pc[r] = "answered" /\ status[r] = "OK"
                          => Coherent(seen[r], Tid(r))
  /\ \A t \in Txns : conn[t] = "snapshot" => Coherent(snap[t], NoTxn)

\* Every read in a read-only transaction observes the same point in time.
StableSnapshot ==
  \A r, q \in Requests :
    /\ IsRead(r) /\ IsRead(q) /\ InTxn(r) /\ Tid(r) = Tid(q) /\ Tid(r) \in readOnly
    /\ pc[r] = "answered" /\ pc[q] = "answered" /\ status[r] = "OK" /\ status[q] = "OK"
    => seen[r] = seen[q]

\* RSI_DELETE_LAYER applies to all hives: when it answers OK, no hive and no
\* store has been passed over, whatever transactions bound meanwhile.
LayerDeletedEverywhere ==
  \A r \in Requests :
    call[r].op = "deleteLayer" /\ pc[r] = "answered" /\ status[r] = "OK"
    => \A h \in Hives : WritesOf(r, h, Stores) \subseteq published

\* Late renewals cannot revive an expired transaction, and it rejects new
\* operations: only cleanup is let in.
NoRevival ==
  [][\A t \in Txns : LeaseExpired(t) =>
       /\ LeaseExpired(t)'
       /\ opHolder[t] = Nobody /\ opHolder'[t] # Nobody => call[opHolder'[t]].op = "abort"]_vars

\* No transaction is open, no snapshot pinned, no gate held.
Released ==
  /\ \A h \in Hives : writeConn[h] = Nobody /\ ~sqlTxn[h] /\ inside[h] = {}
  /\ \A t \in Txns : snap[t] = {} /\ conn[t] = "none" /\ opHolder[t] = Nobody
  /\ pending = {}

\* Every request that is dispatched is answered.
EveryRequestAnswered ==
  \A r \in Requests : pc[r] # "idle" ~> pc[r] = "answered"

\* A transaction whose owner is gone is reclaimed although no abort arrives.
AbandonedIsReclaimed ==
  \A t \in Txns : t \in registered /\ t \notin owned ~> t \notin registered

\* Once the device is closed the daemon gets to closing its databases, and
\* when it does every pinned connection has been released: no cleanup is still
\* under way.
ShutdownEnds ==
  /\ phase = "draining" ~> phase = "closed"
  /\ [](phase = "closed" => Released)
=============================================================================
