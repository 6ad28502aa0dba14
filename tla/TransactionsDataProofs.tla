-------------------------- MODULE TransactionsDataProofs --------------------------
(***************************************************************************)
(* Proofs about Transactions, continued: what is published, when, and what *)
(* reads see of it, for any requests, transactions, hives and scenarios.   *)
(*                                                                         *)
(* Storage says that a pinned connection has its transaction open and that *)
(* every write is uncommitted in it or visible by right.  On it rest the   *)
(* layer deletion (Layers), acknowledged writes (Acks) and, with the       *)
(* snapshots of read-only transactions (Snaps), what a read may see        *)
(* (Reads).  Where Storage is needed the theorems assume that no storage   *)
(* fault ends a transaction by itself: without that the first of them is   *)
(* false, as the run txn_autorollback shows.                               *)
(***************************************************************************)
EXTENDS TransactionsProofs

\* The holder of t's gate is about to poison it, or has just rolled it back.
Doomed(t) ==
  /\ opHolder[t] \in Actors
  /\ \/ pc[opHolder[t]] = "poisoning"
     \/ pc[opHolder[t]] = "finish" /\ MustPoison(opHolder[t])

\* A pinned connection has its transaction open, or its end is certain.
Open(t) == conn[t] = "write" => sqlTxn[bound[t]] \/ Doomed(t)

\* The places before a handler does anything.
Early == {"idle", "operation", "admitted"}

\* What COMMIT is about to find, and that success is the last thing reported.
CommitsOpen(a) ==
  /\ pc[a] \in {"commit", "publishing"} => sqlTxn[at[a]]
  /\ pc[a] = "statement" /\ call[a].op = "deleteLayer" => sqlTxn[at[a]]
  /\ pc[a] = "publishing" => pending \cap In(at[a], "main") = {}
  /\ a \in Requests /\ status[a] = "OK" => pc[a] \in {"finish", "answered"}

\* An uncommitted write is of the transaction that is open on the connection.
Uncommitted(w) ==
  /\ call[w[1]].op \in {"write", "deleteLayer"} /\ pc[w[1]] \notin Early
  /\ sqlTxn[w[2]] /\ writeConn[w[2]] = Owner(w[1])

Visible(w) ==
  /\ call[w[1]].op \in {"write", "deleteLayer"} /\ pc[w[1]] \notin Early
  /\ InClientTxn(w[1]) => Committed(Tid(w[1]))

Storage ==
  /\ \A t \in Txns : Open(t)
  /\ \A a \in Actors : CommitsOpen(a)
  /\ \A w \in pending : Uncommitted(w)
  /\ \A w \in published : Visible(w)

-----------------------------------------------------------------------------
USE DEF txnVars, leaseVars, lockVars, storeVars, actorVars
USE DEF Goto, Settle, Proceed, Refuse, WaitAt, Admitted

LEMMA WriteParts ==
  ASSUME NEW w \in Writes
  PROVE  /\ w[1] \in Requests /\ w[2] \in Hives /\ w[3] \in Stores
         /\ w \in InHive(w[2]) /\ w \in In(w[2], w[3])
         /\ \A h, s : w \in In(h, s) => w[2] = h /\ w[3] = s
         /\ \A h : w \in InHive(h) => w[2] = h
BY DEF Writes, InHive, In

\* What a step of a keeps of its own history.
Remembers(a) ==
  a \in Requests /\ pc[a] # "idle" =>
    /\ call'[a] = call[a]
    /\ pc[a] \notin Early => pc'[a] \notin Early
    /\ call[a].op = "commit" /\ (pc[a] = "publishing" \/ status[a] = "OK") =>
         pc'[a] = "publishing" \/ status'[a] = "OK"

\* Writes that a step of a leaves as they are, or makes.
Accounts(a) ==
  /\ \A w \in pending' : Uncommitted(w)' \/ (/\ w \in pending
                                             /\ writeConn'[w[2]] = writeConn[w[2]]
                                             /\ sqlTxn'[w[2]] = sqlTxn[w[2]])
  /\ \A w \in published' : Visible(w)' \/ w \in published

LEMMA OthersKeepDoomed ==
  ASSUME TypeOK, Locks, Connections, NEW a \in Actors, Acts(a),
         NEW t \in Txns, opHolder[t] # a, Doomed(t)
  PROVE  Doomed(t)'
<1> PICK b \in Actors : b = opHolder[t] BY DEF Doomed
<1>1. b # a /\ b # Nobody BY ActorFacts
<1>2. opHolder'[t] = b BY <1>1 DEF Acts
<1>3. Tid(b) = t BY <1>1, Own
<1>4. /\ pc'[b] = pc[b] /\ call'[b] = call[b] /\ status'[b] = status[b]
      /\ b \in late' <=> b \in late
  BY <1>1 DEF Acts
<1>5. pc[b] = "poisoning" \/ (pc[b] = "finish" /\ MustPoison(b)) BY DEF Doomed
<1>6. conn'[Tid(b)] = conn[Tid(b)] BY <1>3 DEF Acts
<1>7. MustPoison(b) => MustPoison(b)' BY <1>4, <1>6 DEF MustPoison, IsControl, InTxn, Tid
<1>8. pc'[b] = "poisoning" \/ (pc'[b] = "finish" /\ MustPoison(b)') BY <1>4, <1>5, <1>7
<1> QED BY <1>2, <1>8 DEF Doomed

LEMMA OthersKeepOpen ==
  ASSUME TypeOK, TypeOK', Locks, Connections, Storage, NEW a \in Actors, Acts(a), Spares(a)
  PROVE  /\ \A t \in Txns : opHolder[t] # a => Open(t)'
         /\ \A b \in Actors : b # a => CommitsOpen(b)'
<1>1. ASSUME NEW t \in Txns, opHolder[t] # a PROVE Open(t)'
  <2> SUFFICES ASSUME conn'[t] = "write" PROVE sqlTxn'[bound'[t]] \/ Doomed(t)' BY DEF Open
  <2>1. conn[t] = "write" /\ bound'[t] = bound[t] BY <1>1 DEF Acts
  <2>2. bound[t] \in Hives BY <2>1 DEF Connections, Pins
  <2>3. sqlTxn'[bound[t]] = sqlTxn[bound[t]] BY <1>1, <2>1, <2>2, PinnedNotReached DEF Spares
  <2>4. Doomed(t) => Doomed(t)' BY <1>1, OthersKeepDoomed
  <2> QED BY <2>1, <2>3, <2>4 DEF Storage, Open
<1>2. ASSUME NEW b \in Actors, b # a PROVE CommitsOpen(b)'
  <2>1. pc'[b] = pc[b] /\ call'[b] = call[b] /\ at'[b] = at[b] BY <1>2 DEF Acts
  <2>2. CommitsOpen(b) BY DEF Storage
  <2>3. CASE pc[b] \in Writing
    <3>1. ~Reaches(a, at[b]) /\ at[b] \in Hives BY <1>2, <2>3, WriterNotReached, Own
    <3>2. sqlTxn'[at[b]] = sqlTxn[at[b]] BY <3>1 DEF Spares
    <3>3. status'[b] = status[b] BY <1>2 DEF Acts
    <3>4. ASSUME pc[b] = "publishing" PROVE pending' \cap In(at[b], "main") = {}
      <4> SUFFICES ASSUME NEW w \in pending', w \in In(at[b], "main") PROVE FALSE OBVIOUS
      <4>1. w \in Writes /\ w[2] = at[b] BY WriteParts DEF TypeOK
      <4>2. w \in pending BY <3>1, <4>1 DEF Spares
      <4> QED BY <2>2, <3>4, <4>2 DEF CommitsOpen
    <3> QED BY <2>1, <2>2, <3>2, <3>3, <3>4 DEF CommitsOpen
  <2>4. CASE pc[b] \notin Writing
    <3>1. status'[b] = status[b] BY <1>2 DEF Acts
    <3> QED BY <2>1, <2>2, <2>4, <3>1 DEF CommitsOpen, Writing
  <2> QED BY <2>3, <2>4
<1> QED BY <1>1, <1>2

LEMMA WritesKept ==
  ASSUME TypeOK, TypeOK', Locks, Storage, NEW a \in Actors, Acts(a), Remembers(a), Accounts(a)
  PROVE  /\ \A w \in pending' : Uncommitted(w)'
         /\ \A w \in published' : Visible(w)'
<1>1. ASSUME NEW r \in Requests, pc[r] \notin Early
      PROVE  pc'[r] \notin Early /\ call'[r] = call[r]
  <2>1. r \in Actors /\ pc[r] # "idle" BY <1>1, ActorFacts DEF Early
  <2> QED BY <1>1, <2>1 DEF Acts, Remembers
<1>2. ASSUME NEW w \in pending' PROVE Uncommitted(w)'
  <2>1. CASE w \in pending /\ writeConn'[w[2]] = writeConn[w[2]] /\ sqlTxn'[w[2]] = sqlTxn[w[2]]
    <3>1. Uncommitted(w) /\ w[1] \in Requests BY <2>1, WriteParts DEF Storage, TypeOK
    <3>2. pc'[w[1]] \notin Early /\ call'[w[1]] = call[w[1]] BY <1>1, <3>1 DEF Uncommitted
    <3> QED BY <2>1, <3>1, <3>2 DEF Uncommitted, Owner, InClientTxn, InTxn, Tid
  <2> QED BY <1>2, <2>1 DEF Accounts
<1>3. ASSUME NEW t, Committed(t) , t \in Txns PROVE Committed(t)'
  <2>1. PICK r \in Requests : /\ call[r].op = "commit" /\ Tid(r) = t
                              /\ pc[r] = "publishing" \/ status[r] = "OK"
    BY <1>3 DEF Committed
  <2>2. r \in Actors /\ pc[r] # "idle"
    BY <2>1, ActorFacts DEF Locks, Fits
  <2>3. call'[r] = call[r] /\ (pc'[r] = "publishing" \/ status'[r] = "OK")
    BY <2>1, <2>2 DEF Acts, Remembers
  <2> QED BY <2>1, <2>3 DEF Committed, Tid
<1>4. ASSUME NEW w \in published' PROVE Visible(w)'
  <2>1. CASE w \in published
    <3>1. Visible(w) /\ w[1] \in Requests BY <2>1, WriteParts DEF Storage, TypeOK
    <3>2. pc'[w[1]] \notin Early /\ call'[w[1]] = call[w[1]] BY <1>1, <3>1 DEF Visible
    <3>3. InClientTxn(w[1]) => Tid(w[1]) \in Txns
      BY <3>1, ActorFacts DEF InClientTxn, InTxn, Tid, TypeOK, Call
    <3> QED BY <1>3, <3>1, <3>2, <3>3 DEF Visible, InClientTxn, InTxn, Tid
  <2> QED BY <1>4, <2>1 DEF Accounts
<1> QED BY <1>2, <1>4

\* An uncommitted write is its own request's, or its transaction's.
LEMMA PendingOwner ==
  ASSUME TypeOK, Storage, NEW w \in pending
  PROVE  /\ Uncommitted(w) /\ w \in Writes /\ writeConn[w[2]] # Nobody
         /\ InClientTxn(w[1]) => Owner(w[1]) = Tid(w[1]) /\ Tid(w[1]) \in Txns
         /\ ~InClientTxn(w[1]) => Owner(w[1]) = w[1]
<1>1. Uncommitted(w) /\ w \in Writes BY DEF Storage, TypeOK
<1>2. w[1] \in Requests /\ w[1] \in Actors BY <1>1, WriteParts, ActorFacts
<1>3. InClientTxn(w[1]) => Tid(w[1]) \in Txns
  BY <1>2 DEF InClientTxn, InTxn, Tid, TypeOK, Call
<1>4. /\ InClientTxn(w[1]) => Owner(w[1]) = Tid(w[1])
      /\ ~InClientTxn(w[1]) => Owner(w[1]) = w[1]
  BY <1>1 DEF Uncommitted, Owner
<1>5. Owner(w[1]) # Nobody BY <1>2, <1>3, <1>4, ActorFacts
<1> QED BY <1>1, <1>3, <1>4, <1>5 DEF Uncommitted

\* What COMMIT finds uncommitted in its hive is the committing transaction's.
LEMMA PublishedByCommit ==
  ASSUME TypeOK, Locks, Connections, Storage, NEW a \in Actors,
         pc[a] \in {"commit", "publishing"},
         NEW s, NEW w \in pending, w \in In(at[a], s)
  PROVE  /\ Uncommitted(w) /\ w[1] \in Actors /\ pc[w[1]] \notin Early
         /\ InClientTxn(w[1]) => /\ a \in Requests /\ call[a].op = "commit"
                                 /\ Tid(a) = Tid(w[1])
<1>1. Uncommitted(w) /\ w \in Writes /\ w[2] = at[a] BY PendingOwner, WriteParts
<1>2. w[1] \in Actors /\ pc[w[1]] \notin Early
  BY <1>1, WriteParts, ActorFacts DEF Uncommitted
<1>3. writeConn[at[a]] = Owner(a) /\ Fits(a) BY DEF Connections, UsesConn, Locks
<1>4. ASSUME InClientTxn(w[1]) PROVE call[a].op = "commit" /\ Tid(a) = Tid(w[1])
  <2>1. Owner(a) \in Txns /\ Owner(a) = Tid(w[1])
    BY <1>1, <1>3, <1>4, PendingOwner DEF Uncommitted
  <2>2. Owner(a) # a BY <2>1, ActorFacts
  <2>3. ~InClientTxn(a) BY <1>3 DEF Fits
  <2> QED BY <2>1, <2>2, <2>3 DEF Owner
<1>5. call[a].op = "commit" => a \in Requests BY <1>3 DEF Fits
<1> QED BY <1>1, <1>2, <1>4, <1>5

LEMMA AdmitOperationStores ==
  ASSUME AutoRollback = FALSE, TypeOK, TypeOK', Locks, Connections, Storage, NEW a \in Actors, AdmitOperation(a)
  PROVE  /\ CommitsOpen(a)' /\ Remembers(a) /\ Accounts(a)
         /\ \A t \in Txns : opHolder[t] = a => Open(t)'
<1>1. /\ Fits(a) /\ HoldsLocks(a) /\ UsesConn(a) /\ Alone(a) /\ CommitsOpen(a)
      /\ InTxn(a) => Pins(Tid(a)) /\ Open(Tid(a))
  BY Own DEF Locks, Connections, Storage
<1>2. /\ InTxn(a) => Tid(a) \in Txns
      /\ pc[a] \in Writing => at[a] \in Hives
      /\ pc[a] \in Holding /\ InTxn(a) => opHolder[Tid(a)] = a
      /\ \A t \in Txns : opHolder[t] = a => Tid(a) = t /\ InTxn(a) /\ pc[a] \in Holding
  BY Own
<1>3. CommitsOpen(a)'
  BY <1>1, <1>2 DEF AdmitOperation, TypeOK, CommitsOpen, UsesConn, Fits, Owner,
     InClientTxn, Writing
<1>4. Remembers(a)
  BY <1>1, <1>2, ActorFacts DEF AdmitOperation, TypeOK, Remembers, Early, Fits, IsControl,
     CommitsOpen
<1>5. Accounts(a)
  BY DEF AdmitOperation, Accounts
<1>6. \A t \in Txns : opHolder[t] = a => Open(t)'
  BY <1>1, <1>2, ActorFacts DEF AdmitOperation, TypeOK, Open, Doomed, Holding, Places,
     MustPoison, UsesConn, Fits, IsControl, InTxn, Tid, InClientTxn
<1> QED BY <1>3, <1>4, <1>5, <1>6

LEMMA OperationTimeoutStores ==
  ASSUME AutoRollback = FALSE, TypeOK, TypeOK', Locks, Connections, Storage, NEW a \in Actors, OperationTimeout(a)
  PROVE  /\ CommitsOpen(a)' /\ Remembers(a) /\ Accounts(a)
         /\ \A t \in Txns : opHolder[t] = a => Open(t)'
<1>1. /\ Fits(a) /\ HoldsLocks(a) /\ UsesConn(a) /\ Alone(a) /\ CommitsOpen(a)
      /\ InTxn(a) => Pins(Tid(a)) /\ Open(Tid(a))
  BY Own DEF Locks, Connections, Storage
<1>2. /\ InTxn(a) => Tid(a) \in Txns
      /\ pc[a] \in Writing => at[a] \in Hives
      /\ pc[a] \in Holding /\ InTxn(a) => opHolder[Tid(a)] = a
      /\ \A t \in Txns : opHolder[t] = a => Tid(a) = t /\ InTxn(a) /\ pc[a] \in Holding
  BY Own
<1>3. CommitsOpen(a)'
  BY <1>1, <1>2 DEF OperationTimeout, TypeOK, CommitsOpen, UsesConn, Fits, Owner,
     InClientTxn, Writing
<1>4. Remembers(a)
  BY <1>1, <1>2, ActorFacts DEF OperationTimeout, TypeOK, Remembers, Early, Fits,
     IsControl, CommitsOpen
<1>5. Accounts(a)
  BY DEF OperationTimeout, Accounts
<1>6. \A t \in Txns : opHolder[t] = a => Open(t)'
  BY <1>1, <1>2, ActorFacts DEF OperationTimeout, TypeOK, Open, Doomed, Holding, Places,
     MustPoison, UsesConn, Fits, IsControl, InTxn, Tid, InClientTxn
<1> QED BY <1>3, <1>4, <1>5, <1>6

LEMMA StartStores ==
  ASSUME AutoRollback = FALSE, TypeOK, TypeOK', Locks, Connections, Storage, NEW a \in Actors, Start(a)
  PROVE  /\ CommitsOpen(a)' /\ Remembers(a) /\ Accounts(a)
         /\ \A t \in Txns : opHolder[t] = a => Open(t)'
<1>1. /\ Fits(a) /\ HoldsLocks(a) /\ UsesConn(a) /\ Alone(a) /\ CommitsOpen(a)
      /\ InTxn(a) => Pins(Tid(a)) /\ Open(Tid(a))
  BY Own DEF Locks, Connections, Storage
<1>2. /\ InTxn(a) => Tid(a) \in Txns
      /\ pc[a] \in Writing => at[a] \in Hives
      /\ pc[a] \in Holding /\ InTxn(a) => opHolder[Tid(a)] = a
      /\ \A t \in Txns : opHolder[t] = a => Tid(a) = t /\ InTxn(a) /\ pc[a] \in Holding
  BY Own
<1>3. CommitsOpen(a)'
  BY <1>1, <1>2 DEF Start, StartMutation, StartRead, StartDeleteLayer, StartCommit,
     StartAbort, TypeOK, CommitsOpen, UsesConn, Fits, Owner, InClientTxn, Writing
<1>4. Remembers(a)
  BY <1>1, <1>2, ActorFacts DEF Start, StartMutation, StartRead, StartDeleteLayer,
     StartCommit, StartAbort, TypeOK, Remembers, Early, Fits, IsControl, CommitsOpen
<1>5. Accounts(a)
  BY DEF Start, StartMutation, StartRead, StartDeleteLayer, StartCommit, StartAbort,
     Accounts
<1>6. \A t \in Txns : opHolder[t] = a => Open(t)'
  BY <1>1, <1>2, ActorFacts DEF Start, StartMutation, StartRead, StartDeleteLayer,
     StartCommit, StartAbort, TypeOK, Open, Doomed, Holding, Places, MustPoison, UsesConn,
     Fits, IsControl, InTxn, Tid, InClientTxn
<1> QED BY <1>3, <1>4, <1>5, <1>6

LEMMA EnterGateStores ==
  ASSUME AutoRollback = FALSE, TypeOK, TypeOK', Locks, Connections, Storage, NEW a \in Actors, EnterGate(a)
  PROVE  /\ CommitsOpen(a)' /\ Remembers(a) /\ Accounts(a)
         /\ \A t \in Txns : opHolder[t] = a => Open(t)'
<1>1. /\ Fits(a) /\ HoldsLocks(a) /\ UsesConn(a) /\ Alone(a) /\ CommitsOpen(a)
      /\ InTxn(a) => Pins(Tid(a)) /\ Open(Tid(a))
  BY Own DEF Locks, Connections, Storage
<1>2. /\ InTxn(a) => Tid(a) \in Txns
      /\ pc[a] \in Writing => at[a] \in Hives
      /\ pc[a] \in Holding /\ InTxn(a) => opHolder[Tid(a)] = a
      /\ \A t \in Txns : opHolder[t] = a => Tid(a) = t /\ InTxn(a) /\ pc[a] \in Holding
  BY Own
<1>3. CommitsOpen(a)'
  BY <1>1, <1>2 DEF EnterGate, TypeOK, CommitsOpen, UsesConn, Fits, Owner, InClientTxn,
     Writing
<1>4. Remembers(a)
  BY <1>1, <1>2, ActorFacts DEF EnterGate, TypeOK, Remembers, Early, Fits, IsControl,
     CommitsOpen
<1>5. Accounts(a)
  BY DEF EnterGate, Accounts
<1>6. \A t \in Txns : opHolder[t] = a => Open(t)'
  BY <1>1, <1>2, ActorFacts DEF EnterGate, TypeOK, Open, Doomed, Holding, Places,
     MustPoison, UsesConn, Fits, IsControl, InTxn, Tid, InClientTxn
<1> QED BY <1>3, <1>4, <1>5, <1>6

LEMMA GateTimeoutStores ==
  ASSUME AutoRollback = FALSE, TypeOK, TypeOK', Locks, Connections, Storage, NEW a \in Actors, GateTimeout(a)
  PROVE  /\ CommitsOpen(a)' /\ Remembers(a) /\ Accounts(a)
         /\ \A t \in Txns : opHolder[t] = a => Open(t)'
<1>1. /\ Fits(a) /\ HoldsLocks(a) /\ UsesConn(a) /\ Alone(a) /\ CommitsOpen(a)
      /\ InTxn(a) => Pins(Tid(a)) /\ Open(Tid(a))
  BY Own DEF Locks, Connections, Storage
<1>2. /\ InTxn(a) => Tid(a) \in Txns
      /\ pc[a] \in Writing => at[a] \in Hives
      /\ pc[a] \in Holding /\ InTxn(a) => opHolder[Tid(a)] = a
      /\ \A t \in Txns : opHolder[t] = a => Tid(a) = t /\ InTxn(a) /\ pc[a] \in Holding
  BY Own
<1>3. CommitsOpen(a)'
  BY <1>1, <1>2 DEF GateTimeout, TypeOK, CommitsOpen, UsesConn, Fits, Owner, InClientTxn,
     Writing
<1>4. Remembers(a)
  BY <1>1, <1>2, ActorFacts DEF GateTimeout, TypeOK, Remembers, Early, Fits, IsControl,
     CommitsOpen
<1>5. Accounts(a)
  BY DEF GateTimeout, Accounts
<1>6. \A t \in Txns : opHolder[t] = a => Open(t)'
  BY <1>1, <1>2, ActorFacts DEF GateTimeout, TypeOK, Open, Doomed, Holding, Places,
     MustPoison, UsesConn, Fits, IsControl, InTxn, Tid, InClientTxn
<1> QED BY <1>3, <1>4, <1>5, <1>6

LEMMA RouteWriteStores ==
  ASSUME AutoRollback = FALSE, TypeOK, TypeOK', Locks, Connections, Storage, NEW a \in Actors, RouteWrite(a)
  PROVE  /\ CommitsOpen(a)' /\ Remembers(a) /\ Accounts(a)
         /\ \A t \in Txns : opHolder[t] = a => Open(t)'
<1>1. /\ Fits(a) /\ HoldsLocks(a) /\ UsesConn(a) /\ Alone(a) /\ CommitsOpen(a)
      /\ InTxn(a) => Pins(Tid(a)) /\ Open(Tid(a))
  BY Own DEF Locks, Connections, Storage
<1>2. /\ InTxn(a) => Tid(a) \in Txns
      /\ pc[a] \in Writing => at[a] \in Hives
      /\ pc[a] \in Holding /\ InTxn(a) => opHolder[Tid(a)] = a
      /\ \A t \in Txns : opHolder[t] = a => Tid(a) = t /\ InTxn(a) /\ pc[a] \in Holding
  BY Own
<1>3. CommitsOpen(a)'
  BY <1>1, <1>2 DEF RouteWrite, DeclineBusy, TypeOK, CommitsOpen, UsesConn, Fits, Owner,
     InClientTxn, Writing
<1>4. Remembers(a)
  BY <1>1, <1>2, ActorFacts DEF RouteWrite, DeclineBusy, TypeOK, Remembers, Early, Fits,
     IsControl, CommitsOpen
<1>5. Accounts(a)
  BY DEF RouteWrite, DeclineBusy, Accounts
<1>6. \A t \in Txns : opHolder[t] = a => Open(t)'
  BY <1>1, <1>2, ActorFacts DEF RouteWrite, DeclineBusy, TypeOK, Open, Doomed, Holding,
     Places, MustPoison, UsesConn, Fits, IsControl, InTxn, Tid, InClientTxn
<1> QED BY <1>3, <1>4, <1>5, <1>6

LEMMA ConnectStores ==
  ASSUME AutoRollback = FALSE, TypeOK, TypeOK', Locks, Connections, Storage, NEW a \in Actors, Connect(a)
  PROVE  /\ CommitsOpen(a)' /\ Remembers(a) /\ Accounts(a)
         /\ \A t \in Txns : opHolder[t] = a => Open(t)'
<1>1. /\ Fits(a) /\ HoldsLocks(a) /\ UsesConn(a) /\ Alone(a) /\ CommitsOpen(a)
      /\ InTxn(a) => Pins(Tid(a)) /\ Open(Tid(a))
  BY Own DEF Locks, Connections, Storage
<1>2. /\ InTxn(a) => Tid(a) \in Txns
      /\ pc[a] \in Writing => at[a] \in Hives
      /\ pc[a] \in Holding /\ InTxn(a) => opHolder[Tid(a)] = a
      /\ \A t \in Txns : opHolder[t] = a => Tid(a) = t /\ InTxn(a) /\ pc[a] \in Holding
  BY Own
<1>3. CommitsOpen(a)'
  <2>1. pc'[a] = "statement" /\ at[a] \in Hives /\ UNCHANGED <<call, at, status>>
    BY <1>2 DEF Connect, TypeOK, Writing
  <2>2. sqlTxn'[at[a]] = (InClientTxn(a) \/ call[a].op = "deleteLayer" \/ call[a].local)
    BY <2>1 DEF Connect, TypeOK
  <2>3. a \in Requests => status[a] # "OK" BY <1>1 DEF Connect, CommitsOpen
  <2> QED BY <2>1, <2>2, <2>3 DEF CommitsOpen
<1>4. Remembers(a)
  BY <1>1, <1>2, ActorFacts DEF Connect, TypeOK, Remembers, Early, Fits, IsControl,
     CommitsOpen
<1>5. Accounts(a)
  <2>1. ASSUME NEW w \in pending'
        PROVE  Uncommitted(w)' \/ (/\ w \in pending
                                   /\ writeConn'[w[2]] = writeConn[w[2]]
                                   /\ sqlTxn'[w[2]] = sqlTxn[w[2]])
    <3>1. w \in pending /\ Uncommitted(w) /\ w \in Writes BY DEF Connect, Storage, TypeOK
    <3>2. writeConn[w[2]] # Nobody BY <3>1, PendingOwner
    <3>3. w[2] # at[a] /\ w[2] \in Hives BY <3>1, <3>2, WriteParts DEF Connect
    <3> QED BY <3>1, <3>3 DEF Connect, TypeOK
  <2>2. ASSUME NEW w \in published', w \notin published PROVE Visible(w)'
    BY <2>2 DEF Connect
  <2> QED BY <2>1, <2>2 DEF Accounts
<1>6. \A t \in Txns : opHolder[t] = a => Open(t)'
  <2> SUFFICES ASSUME NEW t \in Txns, opHolder[t] = a, conn'[t] = "write"
               PROVE  sqlTxn'[bound'[t]] \/ Doomed(t)'
    BY DEF Open
  <2>1. t = Tid(a) /\ InTxn(a) BY <1>2
  <2>2. pc[a] = "connect" /\ at[a] \in Hives BY <1>2 DEF Connect, Writing
  <2>3. CASE InClientTxn(a)
    <3>1. bound' = [bound EXCEPT ![t] = at[a]] BY <2>1, <2>3 DEF Connect
    <3>2. bound'[t] = at[a] BY <3>1 DEF TypeOK
    <3>3. sqlTxn' = [sqlTxn EXCEPT ![at[a]] = TRUE] BY <2>3 DEF Connect
    <3>4. sqlTxn'[at[a]] BY <2>2, <3>3 DEF TypeOK
    <3> QED BY <3>2, <3>4
  <2>4. CASE ~InClientTxn(a)
    <3>1. bound' = bound /\ conn' = conn /\ call[a].op = "deleteLayer"
      BY <1>1, <2>1, <2>4 DEF Connect, InClientTxn
    <3>2. sqlTxn[bound[t]] /\ bound[t] \in Hives
      BY <1>1, <2>1, <2>2, <3>1 DEF Open, Doomed, Pins
    <3>3. sqlTxn'[bound[t]]
      BY <2>2, <3>1, <3>2 DEF Connect, TypeOK
    <3> QED BY <3>1, <3>3
  <2> QED BY <2>3, <2>4
<1> QED BY <1>3, <1>4, <1>5, <1>6

LEMMA ConnectFailsStores ==
  ASSUME AutoRollback = FALSE, TypeOK, TypeOK', Locks, Connections, Storage, NEW a \in Actors, ConnectFails(a)
  PROVE  /\ CommitsOpen(a)' /\ Remembers(a) /\ Accounts(a)
         /\ \A t \in Txns : opHolder[t] = a => Open(t)'
<1>1. /\ Fits(a) /\ HoldsLocks(a) /\ UsesConn(a) /\ Alone(a) /\ CommitsOpen(a)
      /\ InTxn(a) => Pins(Tid(a)) /\ Open(Tid(a))
  BY Own DEF Locks, Connections, Storage
<1>2. /\ InTxn(a) => Tid(a) \in Txns
      /\ pc[a] \in Writing => at[a] \in Hives
      /\ pc[a] \in Holding /\ InTxn(a) => opHolder[Tid(a)] = a
      /\ \A t \in Txns : opHolder[t] = a => Tid(a) = t /\ InTxn(a) /\ pc[a] \in Holding
  BY Own
<1>3. CommitsOpen(a)'
  BY <1>1, <1>2 DEF ConnectFails, Errors, TypeOK, CommitsOpen, UsesConn, Fits, Owner,
     InClientTxn, Writing
<1>4. Remembers(a)
  BY <1>1, <1>2, ActorFacts DEF ConnectFails, Errors, TypeOK, Remembers, Early, Fits,
     IsControl, CommitsOpen
<1>5. Accounts(a)
  BY DEF ConnectFails, Errors, Accounts
<1>6. \A t \in Txns : opHolder[t] = a => Open(t)'
  BY <1>1, <1>2, ActorFacts DEF ConnectFails, Errors, TypeOK, Open, Doomed, Holding,
     Places, MustPoison, UsesConn, Fits, IsControl, InTxn, Tid, InClientTxn
<1> QED BY <1>3, <1>4, <1>5, <1>6

LEMMA CheckpointStores ==
  ASSUME AutoRollback = FALSE, TypeOK, TypeOK', Locks, Connections, Storage, NEW a \in Actors, Checkpoint(a)
  PROVE  /\ CommitsOpen(a)' /\ Remembers(a) /\ Accounts(a)
         /\ \A t \in Txns : opHolder[t] = a => Open(t)'
<1>1. /\ Fits(a) /\ HoldsLocks(a) /\ UsesConn(a) /\ Alone(a) /\ CommitsOpen(a)
      /\ InTxn(a) => Pins(Tid(a)) /\ Open(Tid(a))
  BY Own DEF Locks, Connections, Storage
<1>2. /\ InTxn(a) => Tid(a) \in Txns
      /\ pc[a] \in Writing => at[a] \in Hives
      /\ pc[a] \in Holding /\ InTxn(a) => opHolder[Tid(a)] = a
      /\ \A t \in Txns : opHolder[t] = a => Tid(a) = t /\ InTxn(a) /\ pc[a] \in Holding
  BY Own
<1>3. CommitsOpen(a)'
  BY <1>1, <1>2 DEF Checkpoint, Errors, TypeOK, CommitsOpen, UsesConn, Fits, Owner,
     InClientTxn, Writing
<1>4. Remembers(a)
  BY <1>1, <1>2, ActorFacts DEF Checkpoint, Errors, TypeOK, Remembers, Early, Fits,
     IsControl, CommitsOpen
<1>5. Accounts(a)
  BY DEF Checkpoint, Errors, Accounts
<1>6. \A t \in Txns : opHolder[t] = a => Open(t)'
  BY <1>1, <1>2, ActorFacts DEF Checkpoint, Errors, TypeOK, Open, Doomed, Holding, Places,
     MustPoison, UsesConn, Fits, IsControl, InTxn, Tid, InClientTxn
<1> QED BY <1>3, <1>4, <1>5, <1>6

LEMMA StatementStores ==
  ASSUME AutoRollback = FALSE, TypeOK, TypeOK', Locks, Connections, Storage, NEW a \in Actors, Statement(a)
  PROVE  /\ CommitsOpen(a)' /\ Remembers(a) /\ Accounts(a)
         /\ \A t \in Txns : opHolder[t] = a => Open(t)'
<1>1. /\ Fits(a) /\ HoldsLocks(a) /\ UsesConn(a) /\ Alone(a) /\ CommitsOpen(a)
      /\ InTxn(a) => Pins(Tid(a)) /\ Open(Tid(a))
  BY Own DEF Locks, Connections, Storage
<1>2. /\ InTxn(a) => Tid(a) \in Txns
      /\ pc[a] \in Writing => at[a] \in Hives
      /\ pc[a] \in Holding /\ InTxn(a) => opHolder[Tid(a)] = a
      /\ \A t \in Txns : opHolder[t] = a => Tid(a) = t /\ InTxn(a) /\ pc[a] \in Holding
  BY Own
<1>3. CommitsOpen(a)'
  BY <1>1, <1>2 DEF Statement, WritesOf, TypeOK, CommitsOpen, UsesConn, Fits, Owner,
     InClientTxn, Writing
<1>4. Remembers(a)
  BY <1>1, <1>2, ActorFacts DEF Statement, WritesOf, TypeOK, Remembers, Early, Fits,
     IsControl, CommitsOpen
<1>5. Accounts(a)
  <2> DEFINE h == at[a]
             new == WritesOf(a, h, StoresOf(a))
  <2>1. /\ pc[a] = "statement" /\ call[a].op \in {"write", "deleteLayer"} /\ h \in Hives
        /\ writeConn[h] = Owner(a)
    BY <1>1, <1>2 DEF Statement, Fits, UsesConn, Writing
  <2>2. pc'[a] \in {"finish", "commit"} /\ UNCHANGED <<call, sqlTxn>> BY DEF Statement, TypeOK
  <2>3. sqlTxn[h] => /\ pending' = pending \cup new /\ UNCHANGED <<published, writeConn>>
    BY DEF Statement
  <2>4. ~sqlTxn[h] =>
          /\ published' = published \cup new /\ UNCHANGED pending
          /\ \A g \in Hives \ {h} : writeConn'[g] = writeConn[g]
    BY <2>1 DEF Statement, TypeOK
  <2>5. \A w \in new : w[1] = a /\ w[2] = h BY DEF WritesOf
  <2>6. \A w \in pending : Uncommitted(w) /\ w[2] \in Hives BY WriteParts DEF Storage, TypeOK
  <2>7. CASE sqlTxn[h]
    <3>1. \A w \in new : Uncommitted(w)'
      BY <2>1, <2>2, <2>3, <2>5, <2>7 DEF Uncommitted, Early, Owner, InClientTxn, InTxn, Tid
    <3> QED BY <2>2, <2>3, <2>7, <3>1 DEF Accounts
  <2>8. CASE ~sqlTxn[h]
    <3>1. ~InClientTxn(a)
      <4> SUFFICES ASSUME InClientTxn(a) PROVE FALSE OBVIOUS
      <4>1. /\ InTxn(a) /\ conn[Tid(a)] = "write" /\ bound[Tid(a)] = h
            /\ Tid(a) \in Txns /\ opHolder[Tid(a)] = a
        BY <1>1, <1>2, <2>1 DEF UsesConn, InClientTxn, Holding, Places
      <4> QED BY <1>1, <2>1, <2>8, <4>1 DEF Open, Doomed
    <3>2. \A w \in new : Visible(w)'
      BY <2>1, <2>2, <2>5, <3>1 DEF Visible, Early, InClientTxn, InTxn, Tid
    <3>3. \A w \in pending : w[2] # h BY <2>6, <2>8 DEF Uncommitted
    <3> QED BY <2>2, <2>4, <2>6, <2>8, <3>2, <3>3 DEF Accounts
  <2> QED BY <2>7, <2>8
<1>6. \A t \in Txns : opHolder[t] = a => Open(t)'
  BY <1>1, <1>2, ActorFacts DEF Statement, WritesOf, TypeOK, Open, Doomed, Holding,
     Places, MustPoison, UsesConn, Fits, IsControl, InTxn, Tid, InClientTxn
<1> QED BY <1>3, <1>4, <1>5, <1>6

LEMMA StatementFailsStores ==
  ASSUME AutoRollback = FALSE, TypeOK, TypeOK', Locks, Connections, Storage, NEW a \in Actors, StatementFails(a)
  PROVE  /\ CommitsOpen(a)' /\ Remembers(a) /\ Accounts(a)
         /\ \A t \in Txns : opHolder[t] = a => Open(t)'
<1>1. /\ Fits(a) /\ HoldsLocks(a) /\ UsesConn(a) /\ Alone(a) /\ CommitsOpen(a)
      /\ InTxn(a) => Pins(Tid(a)) /\ Open(Tid(a))
  BY Own DEF Locks, Connections, Storage
<1>2. /\ InTxn(a) => Tid(a) \in Txns
      /\ pc[a] \in Writing => at[a] \in Hives
      /\ pc[a] \in Holding /\ InTxn(a) => opHolder[Tid(a)] = a
      /\ \A t \in Txns : opHolder[t] = a => Tid(a) = t /\ InTxn(a) /\ pc[a] \in Holding
  BY Own
<1>3. CommitsOpen(a)'
  BY <1>1, <1>2 DEF StatementFails, WritesOf, Discarded, RanUntilFailure, StoresOf,
     Errors, MayEndTransaction, TypeOK, CommitsOpen, UsesConn, Fits, Owner, InClientTxn,
     Writing
<1>4. Remembers(a)
  BY <1>1, <1>2, ActorFacts DEF StatementFails, WritesOf, Discarded, RanUntilFailure,
     StoresOf, Errors, MayEndTransaction, TypeOK, Remembers, Early, Fits, IsControl,
     CommitsOpen
<1>5. Accounts(a)
  <2> DEFINE h == at[a]
  <2>1. /\ pc[a] = "statement" /\ call[a].op \in {"write", "deleteLayer"} /\ h \in Hives
        /\ writeConn[h] = Owner(a)
    BY <1>1, <1>2 DEF StatementFails, Fits, UsesConn, Writing
  <2>2. PICK s \in Errors, ran \in RanUntilFailure(a), ended \in {FALSE, MayEndTransaction(a)} :
          /\ Settle(a, s)
          /\ published' = IF sqlTxn[h] THEN published ELSE published \cup WritesOf(a, h, ran)
          /\ pending' = IF ended \/ ~InClientTxn(a) THEN Discarded(h)
                        ELSE IF sqlTxn[h] THEN pending \cup WritesOf(a, h, ran) ELSE pending
          /\ sqlTxn' = [sqlTxn EXCEPT ![h] = @ /\ InClientTxn(a) /\ ~ended]
          /\ writeConn' = IF InClientTxn(a) THEN writeConn ELSE [writeConn EXCEPT ![h] = Nobody]
    BY DEF StatementFails
  <2>3. pc'[a] = "finish" /\ call' = call BY <2>2 DEF StatementFails, TypeOK
  <2>4. \A w \in WritesOf(a, h, ran) : w[1] = a /\ w[2] = h BY DEF WritesOf
  <2>5. \A w \in pending : Uncommitted(w) /\ w[2] \in Hives BY WriteParts DEF Storage, TypeOK
  <2>6. \A g \in Hives \ {h} : sqlTxn'[g] = sqlTxn[g] /\ writeConn'[g] = writeConn[g]
    BY <2>1, <2>2 DEF TypeOK
  <2>7. \A w \in published' : Visible(w)' \/ w \in published
    <3>1. CASE sqlTxn[h] BY <2>2, <3>1
    <3>2. CASE ~sqlTxn[h]
      <4>1. ~InClientTxn(a)
        <5> SUFFICES ASSUME InClientTxn(a) PROVE FALSE OBVIOUS
        <5>1. /\ InTxn(a) /\ conn[Tid(a)] = "write" /\ bound[Tid(a)] = h
              /\ Tid(a) \in Txns /\ opHolder[Tid(a)] = a
          BY <1>1, <1>2, <2>1 DEF UsesConn, InClientTxn, Holding, Places
        <5> QED BY <1>1, <2>1, <3>2, <5>1 DEF Open, Doomed
      <4>2. \A w \in WritesOf(a, h, ran) : Visible(w)'
        BY <2>1, <2>3, <2>4, <4>1 DEF Visible, Early, InClientTxn, InTxn, Tid
      <4> QED BY <2>2, <3>2, <4>2
    <3> QED BY <3>1, <3>2
  <2>8. CASE ended \/ ~InClientTxn(a)
    <3>1. \A w \in pending' : w \in pending /\ w[2] # h
      BY <2>2, <2>8, WriteParts DEF Discarded, TypeOK
    <3> QED BY <2>5, <2>6, <2>7, <3>1 DEF Accounts
  <2>9. CASE ~ended /\ InClientTxn(a)
    <3>1. sqlTxn'[h] = sqlTxn[h] /\ writeConn' = writeConn BY <2>1, <2>2, <2>9 DEF TypeOK
    <3>2. sqlTxn[h] => \A w \in WritesOf(a, h, ran) : Uncommitted(w)'
      BY <2>1, <2>3, <2>4, <3>1 DEF Uncommitted, Early, Owner, InClientTxn, InTxn, Tid
    <3>3. \A w \in pending' : w \in pending \/ (sqlTxn[h] /\ w \in WritesOf(a, h, ran))
      BY <2>2, <2>9
    <3> QED BY <2>5, <2>6, <2>7, <3>1, <3>2, <3>3 DEF Accounts
  <2> QED BY <2>8, <2>9
<1>6. \A t \in Txns : opHolder[t] = a => Open(t)'
  <2> SUFFICES ASSUME NEW t \in Txns, opHolder[t] = a, conn'[t] = "write"
               PROVE  sqlTxn'[bound'[t]] \/ Doomed(t)'
    BY DEF Open
  <2>1. t = Tid(a) /\ InTxn(a) BY <1>2
  <2>2. pc[a] = "statement" /\ at[a] \in Hives /\ UNCHANGED <<bound, conn, opHolder, call, late>>
    BY <1>2 DEF StatementFails, Writing
  <2>3. CASE InClientTxn(a)
    <3>1. bound[t] = at[a] /\ sqlTxn[at[a]] BY <1>1, <2>1, <2>2, <2>3 DEF UsesConn, Open, Doomed
    <3>2. CASE a \in late
      <4>1. pc'[a] = "finish" /\ status'[a] # "OK" BY DEF StatementFails, TypeOK, Errors
      <4>2. MustPoison(a)'
        BY <2>1, <2>2, <2>3, <3>2, <4>1 DEF MustPoison, IsControl, InClientTxn, InTxn, Tid
      <4> QED BY <2>2, <4>1, <4>2 DEF Doomed
    <3>3. CASE a \notin late
      <4>1. PICK ended \in {FALSE, MayEndTransaction(a)} :
              sqlTxn' = [sqlTxn EXCEPT ![at[a]] = @ /\ InClientTxn(a) /\ ~ended]
        BY DEF StatementFails
      <4>2. ~ended BY <3>3 DEF MayEndTransaction
      <4>3. sqlTxn'[at[a]] = (sqlTxn[at[a]] /\ InClientTxn(a) /\ ~ended)
        BY <2>2, <4>1 DEF TypeOK
      <4> QED BY <2>2, <2>3, <3>1, <4>2, <4>3
    <3> QED BY <3>2, <3>3
  <2>4. CASE ~InClientTxn(a)
    <3> call[a].op # "commit" BY <1>1, <2>2 DEF Fits
    <3>1. Owner(a) = a BY <2>4 DEF Owner
    <3>2. bound[t] \in Hives /\ bound[t] # at[a] /\ UNCHANGED <<bound, conn>>
      BY <1>1, <2>1, <2>2, <3>1, ActorFacts DEF StatementFails, Pins, Alone, Writing
    <3>3. sqlTxn[bound[t]] BY <1>1, <2>1, <2>2, <3>2 DEF Open, Doomed
    <3> QED BY <2>2, <3>2, <3>3 DEF StatementFails, TypeOK
  <2> QED BY <2>3, <2>4
<1> QED BY <1>3, <1>4, <1>5, <1>6

LEMMA DecideCommitStores ==
  ASSUME AutoRollback = FALSE, TypeOK, TypeOK', Locks, Connections, Storage, NEW a \in Actors, DecideCommit(a)
  PROVE  /\ CommitsOpen(a)' /\ Remembers(a) /\ Accounts(a)
         /\ \A t \in Txns : opHolder[t] = a => Open(t)'
<1>1. /\ Fits(a) /\ HoldsLocks(a) /\ UsesConn(a) /\ Alone(a) /\ CommitsOpen(a)
      /\ InTxn(a) => Pins(Tid(a)) /\ Open(Tid(a))
  BY Own DEF Locks, Connections, Storage
<1>2. /\ InTxn(a) => Tid(a) \in Txns
      /\ pc[a] \in Writing => at[a] \in Hives
      /\ pc[a] \in Holding /\ InTxn(a) => opHolder[Tid(a)] = a
      /\ \A t \in Txns : opHolder[t] = a => Tid(a) = t /\ InTxn(a) /\ pc[a] \in Holding
  BY Own
<1>3. CommitsOpen(a)'
  <2>1. UNCHANGED <<call, at, sqlTxn, pending>> /\ pc[a] = "routing" /\ call[a].op = "commit"
    BY DEF DecideCommit
  <2>2. CASE pc'[a] = "finish" BY <2>2 DEF CommitsOpen
  <2>3. CASE pc'[a] = "commit" /\ conn[Tid(a)] = "write" /\ status' = status
    <3>1. InTxn(a) /\ opHolder[Tid(a)] = a /\ Tid(a) \in Txns
      BY <1>1, <1>2, <2>1 DEF Fits, IsControl, Holding, Places
    <3>2. bound[Tid(a)] \in Hives BY <1>1, <2>3, <3>1 DEF Pins
    <3>3. at[a] = bound[Tid(a)] BY <1>1, <2>1, <3>2, ActorFacts DEF HoldsLocks, Gated, IsControl
    <3>4. ~Doomed(Tid(a)) BY <2>1, <3>1 DEF Doomed
    <3>5. sqlTxn[at[a]] BY <1>1, <2>3, <3>1, <3>3, <3>4 DEF Open
    <3>6. a \in Requests => status[a] # "OK" BY <1>1, <2>1 DEF CommitsOpen
    <3> QED BY <2>1, <2>3, <3>5, <3>6 DEF CommitsOpen
  <2>4. pc'[a] = "finish" \/ (pc'[a] = "commit" /\ conn[Tid(a)] = "write" /\ status' = status)
    BY DEF DecideCommit, TypeOK
  <2> QED BY <2>2, <2>3, <2>4
<1>4. Remembers(a)
  BY <1>1, <1>2, ActorFacts DEF DecideCommit, TypeOK, Remembers, Early, Fits, IsControl,
     CommitsOpen
<1>5. Accounts(a)
  BY DEF DecideCommit, Accounts
<1>6. \A t \in Txns : opHolder[t] = a => Open(t)'
  BY <1>1, <1>2, ActorFacts DEF DecideCommit, TypeOK, Open, Doomed, Holding, Places,
     MustPoison, UsesConn, Fits, IsControl, InTxn, Tid, InClientTxn
<1> QED BY <1>3, <1>4, <1>5, <1>6

LEMMA CommitFailsStores ==
  ASSUME AutoRollback = FALSE, TypeOK, TypeOK', Locks, Connections, Storage, NEW a \in Actors, CommitFails(a)
  PROVE  /\ CommitsOpen(a)' /\ Remembers(a) /\ Accounts(a)
         /\ \A t \in Txns : opHolder[t] = a => Open(t)'
<1>1. /\ Fits(a) /\ HoldsLocks(a) /\ UsesConn(a) /\ Alone(a) /\ CommitsOpen(a)
      /\ InTxn(a) => Pins(Tid(a)) /\ Open(Tid(a))
  BY Own DEF Locks, Connections, Storage
<1>2. /\ InTxn(a) => Tid(a) \in Txns
      /\ pc[a] \in Writing => at[a] \in Hives
      /\ pc[a] \in Holding /\ InTxn(a) => opHolder[Tid(a)] = a
      /\ \A t \in Txns : opHolder[t] = a => Tid(a) = t /\ InTxn(a) /\ pc[a] \in Holding
  BY Own
<1>3. CommitsOpen(a)'
  BY <1>1, <1>2 DEF CommitFails, CommitMayFail, Discarded, Errors, TypeOK, CommitsOpen,
     UsesConn, Fits, Owner, InClientTxn, Writing
<1>4. Remembers(a)
  BY <1>1, <1>2, ActorFacts DEF CommitFails, CommitMayFail, Discarded, Errors, TypeOK,
     Remembers, Early, Fits, IsControl, CommitsOpen
<1>5. Accounts(a)
  <2> DEFINE h == at[a]
             own == call[a].op # "commit"
  <2>1. h \in Hives /\ published' = published BY <1>2 DEF CommitFails, CommitMayFail, Writing
  <2>2. PICK ended \in {own, own \/ (AutoRollback /\ a \notin late)} :
          /\ pending' = IF ended THEN Discarded(h) ELSE pending
          /\ sqlTxn' = [sqlTxn EXCEPT ![h] = @ /\ ~ended]
    BY DEF CommitFails
  <2>3. writeConn' = IF own THEN [writeConn EXCEPT ![h] = Nobody] ELSE writeConn
    BY DEF CommitFails
  <2>4. \A w \in pending : w[2] \in Hives BY WriteParts DEF TypeOK
  <2>5. CASE ended
    <3>1. \A w \in pending' : w \in pending /\ w[2] # h
      BY <2>2, <2>5, WriteParts DEF Discarded, TypeOK
    <3>2. \A g \in Hives \ {h} : sqlTxn'[g] = sqlTxn[g] /\ writeConn'[g] = writeConn[g]
      BY <2>1, <2>2, <2>3 DEF TypeOK
    <3> QED BY <2>1, <2>4, <3>1, <3>2 DEF Accounts
  <2>6. CASE ~ended
    <3>1. ~own /\ pending' = pending BY <2>2, <2>6
    <3>2. \A g \in Hives : sqlTxn'[g] = sqlTxn[g] BY <2>1, <2>2, <2>6 DEF TypeOK
    <3> QED BY <2>1, <2>3, <2>4, <3>1, <3>2 DEF Accounts
  <2> QED BY <2>5, <2>6
<1>6. \A t \in Txns : opHolder[t] = a => Open(t)'
  <2> SUFFICES ASSUME NEW t \in Txns, opHolder[t] = a, conn'[t] = "write"
               PROVE  sqlTxn'[bound'[t]] \/ Doomed(t)'
    BY DEF Open
  <2>1. t = Tid(a) /\ InTxn(a) BY <1>2
  <2>2. pc[a] = "commit" /\ at[a] \in Hives /\ UNCHANGED <<bound, conn>>
    BY <1>2 DEF CommitFails, CommitMayFail, Writing
  <2>3. CASE call[a].op = "commit"
    <3>1. PICK ended \in {FALSE, FALSE \/ (AutoRollback /\ a \notin late)} :
            sqlTxn' = [sqlTxn EXCEPT ![at[a]] = @ /\ ~ended]
      BY <2>3 DEF CommitFails
    <3>2. ~ended OBVIOUS
    <3>3. sqlTxn'[at[a]] = (sqlTxn[at[a]] /\ ~ended) BY <2>2, <3>1 DEF TypeOK
    <3>4. sqlTxn[bound[t]] /\ bound[t] \in Hives
      BY <1>1, <2>1, <2>2 DEF Open, Doomed, Pins
    <3>5. bound[t] # at[a] => sqlTxn'[bound[t]] = sqlTxn[bound[t]] BY <3>1, <3>4 DEF TypeOK
    <3> QED BY <2>2, <3>2, <3>3, <3>4, <3>5
  <2>4. CASE call[a].op # "commit"
    <3> ~InClientTxn(a) BY <1>1, <2>2 DEF Fits
    <3>1. Owner(a) = a BY <2>4 DEF Owner
    <3>2. bound[t] \in Hives /\ bound[t] # at[a] /\ UNCHANGED <<bound, conn>>
      BY <1>1, <2>1, <2>2, <3>1, ActorFacts DEF CommitFails, Pins, Alone, Writing
    <3>3. sqlTxn[bound[t]] BY <1>1, <2>1, <2>2, <3>2 DEF Open, Doomed
    <3> QED BY <2>2, <3>2, <3>3 DEF CommitFails, TypeOK
  <2> QED BY <2>3, <2>4
<1> QED BY <1>3, <1>4, <1>5, <1>6

LEMMA PublishMainStores ==
  ASSUME AutoRollback = FALSE, TypeOK, TypeOK', Locks, Connections, Storage, NEW a \in Actors, PublishMain(a)
  PROVE  /\ CommitsOpen(a)' /\ Remembers(a) /\ Accounts(a)
         /\ \A t \in Txns : opHolder[t] = a => Open(t)'
<1>1. /\ Fits(a) /\ HoldsLocks(a) /\ UsesConn(a) /\ Alone(a) /\ CommitsOpen(a)
      /\ InTxn(a) => Pins(Tid(a)) /\ Open(Tid(a))
  BY Own DEF Locks, Connections, Storage
<1>2. /\ InTxn(a) => Tid(a) \in Txns
      /\ pc[a] \in Writing => at[a] \in Hives
      /\ pc[a] \in Holding /\ InTxn(a) => opHolder[Tid(a)] = a
      /\ \A t \in Txns : opHolder[t] = a => Tid(a) = t /\ InTxn(a) /\ pc[a] \in Holding
  BY Own
<1>3. CommitsOpen(a)'
  BY <1>1, <1>2 DEF PublishMain, TypeOK, CommitsOpen, UsesConn, Fits, Owner, InClientTxn,
     Writing
<1>4. Remembers(a)
  BY <1>1, <1>2, ActorFacts DEF PublishMain, TypeOK, Remembers, Early, Fits, IsControl,
     CommitsOpen
<1>5. Accounts(a)
  <2>1. ASSUME NEW w \in pending'
        PROVE  Uncommitted(w)' \/ (/\ w \in pending
                                   /\ writeConn'[w[2]] = writeConn[w[2]]
                                   /\ sqlTxn'[w[2]] = sqlTxn[w[2]])
    BY <2>1 DEF PublishMain
  <2>2. ASSUME NEW w \in published', w \notin published PROVE Visible(w)'
    <3>1. w \in pending /\ w \in In(at[a], "main") BY <2>2 DEF PublishMain
    <3>2. /\ pc'[a] = "publishing" /\ call' = call
          /\ \A b \in Actors : b # a => pc'[b] = pc[b]
      BY DEF PublishMain, TypeOK
    <3>3. pc[a] = "commit" BY DEF PublishMain
    <3>4. /\ Uncommitted(w) /\ w[1] \in Actors /\ pc[w[1]] \notin Early
          /\ InClientTxn(w[1]) => a \in Requests /\ call[a].op = "commit" /\ Tid(a) = Tid(w[1])
      BY <3>1, <3>3, PublishedByCommit
    <3>5. InClientTxn(w[1]) => Committed(Tid(w[1]))' BY <3>2, <3>4 DEF Committed, Tid
    <3>6. pc'[w[1]] \notin Early BY <3>2, <3>4 DEF Early
    <3> QED BY <3>2, <3>4, <3>5, <3>6 DEF Visible, Uncommitted, InClientTxn, InTxn, Tid
  <2> QED BY <2>1, <2>2 DEF Accounts
<1>6. \A t \in Txns : opHolder[t] = a => Open(t)'
  BY <1>1, <1>2, ActorFacts DEF PublishMain, TypeOK, Open, Doomed, Holding, Places,
     MustPoison, UsesConn, Fits, IsControl, InTxn, Tid, InClientTxn
<1> QED BY <1>3, <1>4, <1>5, <1>6

LEMMA CommitDoneStores ==
  ASSUME AutoRollback = FALSE, TypeOK, TypeOK', Locks, Connections, Storage, NEW a \in Actors, CommitDone(a)
  PROVE  /\ CommitsOpen(a)' /\ Remembers(a) /\ Accounts(a)
         /\ \A t \in Txns : opHolder[t] = a => Open(t)'
<1>1. /\ Fits(a) /\ HoldsLocks(a) /\ UsesConn(a) /\ Alone(a) /\ CommitsOpen(a)
      /\ InTxn(a) => Pins(Tid(a)) /\ Open(Tid(a))
  BY Own DEF Locks, Connections, Storage
<1>2. /\ InTxn(a) => Tid(a) \in Txns
      /\ pc[a] \in Writing => at[a] \in Hives
      /\ pc[a] \in Holding /\ InTxn(a) => opHolder[Tid(a)] = a
      /\ \A t \in Txns : opHolder[t] = a => Tid(a) = t /\ InTxn(a) /\ pc[a] \in Holding
  BY Own
<1>3. CommitsOpen(a)'
  BY <1>1, <1>2 DEF CommitDone, PublishVolatile, TypeOK, CommitsOpen, UsesConn, Fits,
     Owner, InClientTxn, Writing
<1>4. Remembers(a)
  BY <1>1, <1>2, ActorFacts DEF CommitDone, PublishVolatile, TypeOK, Remembers, Early,
     Fits, IsControl, CommitsOpen
<1>5. Accounts(a)
  <2>1. ASSUME NEW w \in pending'
        PROVE  Uncommitted(w)' \/ (/\ w \in pending
                                   /\ writeConn'[w[2]] = writeConn[w[2]]
                                   /\ sqlTxn'[w[2]] = sqlTxn[w[2]])
    <3>1. w \in pending /\ w \in Writes /\ w \notin In(at[a], "volatile")
      BY DEF CommitDone, PublishVolatile, TypeOK
    <3>2. w \notin In(at[a], "main") BY <1>1, <3>1 DEF CommitDone, PublishVolatile, CommitsOpen
    <3>3. w[2] # at[a] /\ w[2] \in Hives BY <3>1, <3>2, WriteParts DEF Stores
    <3> QED BY <3>1, <3>3 DEF CommitDone, PublishVolatile, TypeOK
  <2>2. ASSUME NEW w \in published', w \notin published PROVE Visible(w)'
    <3>1. w \in pending /\ w \in In(at[a], "volatile") BY <2>2 DEF CommitDone, PublishVolatile
    <3>2. /\ pc'[a] = "finish" /\ call' = call
          /\ \A b \in Actors : b # a => pc'[b] = pc[b]
      BY DEF CommitDone, PublishVolatile, TypeOK
    <3>3. pc[a] = "publishing" BY DEF CommitDone, PublishVolatile
    <3>4. status'[a] = "OK"
      BY <1>1, <3>3 DEF CommitDone, TypeOK, Fits
    <3>5. /\ Uncommitted(w) /\ w[1] \in Actors /\ pc[w[1]] \notin Early
          /\ InClientTxn(w[1]) => a \in Requests /\ call[a].op = "commit" /\ Tid(a) = Tid(w[1])
      BY <3>1, <3>3, PublishedByCommit
    <3>6. InClientTxn(w[1]) => Committed(Tid(w[1]))' BY <3>2, <3>4, <3>5 DEF Committed, Tid
    <3>7. pc'[w[1]] \notin Early BY <3>2, <3>5 DEF Early
    <3> QED BY <3>2, <3>5, <3>6, <3>7 DEF Visible, Uncommitted, InClientTxn, InTxn, Tid
  <2> QED BY <2>1, <2>2 DEF Accounts
<1>6. \A t \in Txns : opHolder[t] = a => Open(t)'
  BY <1>1, <1>2, ActorFacts DEF CommitDone, PublishVolatile, TypeOK, Open, Doomed,
     Holding, Places, MustPoison, UsesConn, Fits, IsControl, InTxn, Tid, InClientTxn
<1> QED BY <1>3, <1>4, <1>5, <1>6

LEMMA LocalCommitDoneStores ==
  ASSUME AutoRollback = FALSE, TypeOK, TypeOK', Locks, Connections, Storage, NEW a \in Actors, LocalCommitDone(a)
  PROVE  /\ CommitsOpen(a)' /\ Remembers(a) /\ Accounts(a)
         /\ \A t \in Txns : opHolder[t] = a => Open(t)'
<1>1. /\ Fits(a) /\ HoldsLocks(a) /\ UsesConn(a) /\ Alone(a) /\ CommitsOpen(a)
      /\ InTxn(a) => Pins(Tid(a)) /\ Open(Tid(a))
  BY Own DEF Locks, Connections, Storage
<1>2. /\ InTxn(a) => Tid(a) \in Txns
      /\ pc[a] \in Writing => at[a] \in Hives
      /\ pc[a] \in Holding /\ InTxn(a) => opHolder[Tid(a)] = a
      /\ \A t \in Txns : opHolder[t] = a => Tid(a) = t /\ InTxn(a) /\ pc[a] \in Holding
  BY Own
<1>3. CommitsOpen(a)'
  BY <1>1, <1>2 DEF LocalCommitDone, PublishVolatile, TypeOK, CommitsOpen, UsesConn, Fits,
     Owner, InClientTxn, Writing
<1>4. Remembers(a)
  BY <1>1, <1>2, ActorFacts DEF LocalCommitDone, PublishVolatile, TypeOK, Remembers,
     Early, Fits, IsControl, CommitsOpen
<1>5. Accounts(a)
  <2>1. ASSUME NEW w \in pending'
        PROVE  Uncommitted(w)' \/ (/\ w \in pending
                                   /\ writeConn'[w[2]] = writeConn[w[2]]
                                   /\ sqlTxn'[w[2]] = sqlTxn[w[2]])
    <3>1. w \in pending /\ w \in Writes /\ w \notin In(at[a], "volatile")
      BY DEF LocalCommitDone, PublishVolatile, TypeOK
    <3>2. w \notin In(at[a], "main") BY <1>1, <3>1 DEF LocalCommitDone, PublishVolatile, CommitsOpen
    <3>3. w[2] # at[a] /\ w[2] \in Hives BY <3>1, <3>2, WriteParts DEF Stores
    <3> QED BY <3>1, <3>3 DEF LocalCommitDone, PublishVolatile, TypeOK
  <2>2. ASSUME NEW w \in published', w \notin published PROVE Visible(w)'
    <3>1. w \in pending /\ w \in In(at[a], "volatile") BY <2>2 DEF LocalCommitDone, PublishVolatile
    <3>2. /\ pc'[a] = "finish" /\ call' = call
          /\ \A b \in Actors : b # a => pc'[b] = pc[b]
      BY DEF LocalCommitDone, PublishVolatile, TypeOK
    <3>3. pc[a] = "publishing" BY DEF LocalCommitDone, PublishVolatile
    <3>4. call[a].op # "commit"
      BY <1>1, <3>3 DEF LocalCommitDone, TypeOK, Fits
    <3>5. /\ Uncommitted(w) /\ w[1] \in Actors /\ pc[w[1]] \notin Early
          /\ InClientTxn(w[1]) => a \in Requests /\ call[a].op = "commit" /\ Tid(a) = Tid(w[1])
      BY <3>1, <3>3, PublishedByCommit
    <3>6. InClientTxn(w[1]) => Committed(Tid(w[1]))' BY <3>2, <3>4, <3>5 DEF Committed, Tid
    <3>7. pc'[w[1]] \notin Early BY <3>2, <3>5 DEF Early
    <3> QED BY <3>2, <3>5, <3>6, <3>7 DEF Visible, Uncommitted, InClientTxn, InTxn, Tid
  <2> QED BY <2>1, <2>2 DEF Accounts
<1>6. \A t \in Txns : opHolder[t] = a => Open(t)'
  <2> SUFFICES ASSUME NEW t \in Txns, opHolder[t] = a, conn'[t] = "write"
               PROVE  sqlTxn'[bound'[t]] \/ Doomed(t)'
    BY DEF Open
  <2>1. t = Tid(a) /\ InTxn(a) BY <1>2
  <2>2. /\ pc[a] = "publishing" /\ at[a] \in Hives
        /\ call[a].op # "commit" /\ ~InClientTxn(a)
    BY <1>1, <1>2 DEF LocalCommitDone, PublishVolatile, Writing, Fits
  <2>3. Owner(a) = a BY <2>2 DEF Owner
  <2>4. bound[t] \in Hives /\ bound[t] # at[a] /\ UNCHANGED <<bound, conn>>
    BY <1>1, <2>1, <2>2, <2>3, ActorFacts DEF LocalCommitDone, PublishVolatile, Pins, Alone, Writing
  <2>5. sqlTxn[bound[t]] BY <1>1, <2>1, <2>2, <2>4 DEF Open, Doomed
  <2> QED BY <2>2, <2>4, <2>5 DEF LocalCommitDone, PublishVolatile, TypeOK
<1> QED BY <1>3, <1>4, <1>5, <1>6

LEMMA NextHiveStores ==
  ASSUME AutoRollback = FALSE, TypeOK, TypeOK', Locks, Connections, Storage, NEW a \in Actors, NextHive(a)
  PROVE  /\ CommitsOpen(a)' /\ Remembers(a) /\ Accounts(a)
         /\ \A t \in Txns : opHolder[t] = a => Open(t)'
<1>1. /\ Fits(a) /\ HoldsLocks(a) /\ UsesConn(a) /\ Alone(a) /\ CommitsOpen(a)
      /\ InTxn(a) => Pins(Tid(a)) /\ Open(Tid(a))
  BY Own DEF Locks, Connections, Storage
<1>2. /\ InTxn(a) => Tid(a) \in Txns
      /\ pc[a] \in Writing => at[a] \in Hives
      /\ pc[a] \in Holding /\ InTxn(a) => opHolder[Tid(a)] = a
      /\ \A t \in Txns : opHolder[t] = a => Tid(a) = t /\ InTxn(a) /\ pc[a] \in Holding
  BY Own
<1>3. CommitsOpen(a)'
  BY <1>1, <1>2 DEF NextHive, PublishVolatile, TypeOK, CommitsOpen, UsesConn, Fits, Owner,
     InClientTxn, Writing
<1>4. Remembers(a)
  BY <1>1, <1>2, ActorFacts DEF NextHive, PublishVolatile, TypeOK, Remembers, Early, Fits,
     IsControl, CommitsOpen
<1>5. Accounts(a)
  <2>1. ASSUME NEW w \in pending'
        PROVE  Uncommitted(w)' \/ (/\ w \in pending
                                   /\ writeConn'[w[2]] = writeConn[w[2]]
                                   /\ sqlTxn'[w[2]] = sqlTxn[w[2]])
    <3>1. w \in pending /\ w \in Writes /\ w \notin In(at[a], "volatile")
      BY DEF NextHive, PublishVolatile, TypeOK
    <3>2. w \notin In(at[a], "main") BY <1>1, <3>1 DEF NextHive, PublishVolatile, CommitsOpen
    <3>3. w[2] # at[a] /\ w[2] \in Hives BY <3>1, <3>2, WriteParts DEF Stores
    <3> QED BY <3>1, <3>3 DEF NextHive, PublishVolatile, TypeOK
  <2>2. ASSUME NEW w \in published', w \notin published PROVE Visible(w)'
    <3>1. w \in pending /\ w \in In(at[a], "volatile") BY <2>2 DEF NextHive, PublishVolatile
    <3>2. /\ pc'[a] = "gate" /\ call' = call
          /\ \A b \in Actors : b # a => pc'[b] = pc[b]
      BY DEF NextHive, PublishVolatile, TypeOK
    <3>3. pc[a] = "publishing" BY DEF NextHive, PublishVolatile
    <3>4. call[a].op # "commit"
      BY <1>1, <3>3 DEF NextHive, TypeOK, Fits
    <3>5. /\ Uncommitted(w) /\ w[1] \in Actors /\ pc[w[1]] \notin Early
          /\ InClientTxn(w[1]) => a \in Requests /\ call[a].op = "commit" /\ Tid(a) = Tid(w[1])
      BY <3>1, <3>3, PublishedByCommit
    <3>6. InClientTxn(w[1]) => Committed(Tid(w[1]))' BY <3>2, <3>4, <3>5 DEF Committed, Tid
    <3>7. pc'[w[1]] \notin Early BY <3>2, <3>5 DEF Early
    <3> QED BY <3>2, <3>5, <3>6, <3>7 DEF Visible, Uncommitted, InClientTxn, InTxn, Tid
  <2> QED BY <2>1, <2>2 DEF Accounts
<1>6. \A t \in Txns : opHolder[t] = a => Open(t)'
  <2> SUFFICES ASSUME NEW t \in Txns, opHolder[t] = a, conn'[t] = "write"
               PROVE  sqlTxn'[bound'[t]] \/ Doomed(t)'
    BY DEF Open
  <2>1. t = Tid(a) /\ InTxn(a) BY <1>2
  <2>2. /\ pc[a] = "publishing" /\ at[a] \in Hives
        /\ call[a].op # "commit" /\ ~InClientTxn(a)
    BY <1>1, <1>2 DEF NextHive, PublishVolatile, Writing, Fits
  <2>3. Owner(a) = a BY <2>2 DEF Owner
  <2>4. bound[t] \in Hives /\ bound[t] # at[a] /\ UNCHANGED <<bound, conn>>
    BY <1>1, <2>1, <2>2, <2>3, ActorFacts DEF NextHive, PublishVolatile, Pins, Alone, Writing
  <2>5. sqlTxn[bound[t]] BY <1>1, <2>1, <2>2, <2>4 DEF Open, Doomed
  <2> QED BY <2>2, <2>4, <2>5 DEF NextHive, PublishVolatile, TypeOK
<1> QED BY <1>3, <1>4, <1>5, <1>6

LEMMA RouteReadStores ==
  ASSUME AutoRollback = FALSE, TypeOK, TypeOK', Locks, Connections, Storage, NEW a \in Actors, RouteRead(a)
  PROVE  /\ CommitsOpen(a)' /\ Remembers(a) /\ Accounts(a)
         /\ \A t \in Txns : opHolder[t] = a => Open(t)'
<1>1. /\ Fits(a) /\ HoldsLocks(a) /\ UsesConn(a) /\ Alone(a) /\ CommitsOpen(a)
      /\ InTxn(a) => Pins(Tid(a)) /\ Open(Tid(a))
  BY Own DEF Locks, Connections, Storage
<1>2. /\ InTxn(a) => Tid(a) \in Txns
      /\ pc[a] \in Writing => at[a] \in Hives
      /\ pc[a] \in Holding /\ InTxn(a) => opHolder[Tid(a)] = a
      /\ \A t \in Txns : opHolder[t] = a => Tid(a) = t /\ InTxn(a) /\ pc[a] \in Holding
  BY Own
<1>3. CommitsOpen(a)'
  BY <1>1, <1>2 DEF RouteRead, TypeOK, CommitsOpen, UsesConn, Fits, Owner, InClientTxn,
     Writing
<1>4. Remembers(a)
  BY <1>1, <1>2, ActorFacts DEF RouteRead, TypeOK, Remembers, Early, Fits, IsControl,
     CommitsOpen
<1>5. Accounts(a)
  BY DEF RouteRead, Accounts
<1>6. \A t \in Txns : opHolder[t] = a => Open(t)'
  BY <1>1, <1>2, ActorFacts DEF RouteRead, TypeOK, Open, Doomed, Holding, Places,
     MustPoison, UsesConn, Fits, IsControl, InTxn, Tid, InClientTxn
<1> QED BY <1>3, <1>4, <1>5, <1>6

LEMMA PinMainStores ==
  ASSUME AutoRollback = FALSE, TypeOK, TypeOK', Locks, Connections, Storage, NEW a \in Actors, PinMain(a)
  PROVE  /\ CommitsOpen(a)' /\ Remembers(a) /\ Accounts(a)
         /\ \A t \in Txns : opHolder[t] = a => Open(t)'
<1>1. /\ Fits(a) /\ HoldsLocks(a) /\ UsesConn(a) /\ Alone(a) /\ CommitsOpen(a)
      /\ InTxn(a) => Pins(Tid(a)) /\ Open(Tid(a))
  BY Own DEF Locks, Connections, Storage
<1>2. /\ InTxn(a) => Tid(a) \in Txns
      /\ pc[a] \in Writing => at[a] \in Hives
      /\ pc[a] \in Holding /\ InTxn(a) => opHolder[Tid(a)] = a
      /\ \A t \in Txns : opHolder[t] = a => Tid(a) = t /\ InTxn(a) /\ pc[a] \in Holding
  BY Own
<1>3. CommitsOpen(a)'
  BY <1>1, <1>2 DEF PinMain, TypeOK, CommitsOpen, UsesConn, Fits, Owner, InClientTxn,
     Writing
<1>4. Remembers(a)
  BY <1>1, <1>2, ActorFacts DEF PinMain, TypeOK, Remembers, Early, Fits, IsControl,
     CommitsOpen
<1>5. Accounts(a)
  BY DEF PinMain, Accounts
<1>6. \A t \in Txns : opHolder[t] = a => Open(t)'
  BY <1>1, <1>2, ActorFacts DEF PinMain, TypeOK, Open, Doomed, Holding, Places,
     MustPoison, UsesConn, Fits, IsControl, InTxn, Tid, InClientTxn
<1> QED BY <1>3, <1>4, <1>5, <1>6

LEMMA PinVolatileStores ==
  ASSUME AutoRollback = FALSE, TypeOK, TypeOK', Locks, Connections, Storage, NEW a \in Actors, PinVolatile(a)
  PROVE  /\ CommitsOpen(a)' /\ Remembers(a) /\ Accounts(a)
         /\ \A t \in Txns : opHolder[t] = a => Open(t)'
<1>1. /\ Fits(a) /\ HoldsLocks(a) /\ UsesConn(a) /\ Alone(a) /\ CommitsOpen(a)
      /\ InTxn(a) => Pins(Tid(a)) /\ Open(Tid(a))
  BY Own DEF Locks, Connections, Storage
<1>2. /\ InTxn(a) => Tid(a) \in Txns
      /\ pc[a] \in Writing => at[a] \in Hives
      /\ pc[a] \in Holding /\ InTxn(a) => opHolder[Tid(a)] = a
      /\ \A t \in Txns : opHolder[t] = a => Tid(a) = t /\ InTxn(a) /\ pc[a] \in Holding
  BY Own
<1>3. CommitsOpen(a)'
  BY <1>1, <1>2 DEF PinVolatile, TypeOK, CommitsOpen, UsesConn, Fits, Owner, InClientTxn,
     Writing
<1>4. Remembers(a)
  BY <1>1, <1>2, ActorFacts DEF PinVolatile, TypeOK, Remembers, Early, Fits, IsControl,
     CommitsOpen
<1>5. Accounts(a)
  BY DEF PinVolatile, Accounts
<1>6. \A t \in Txns : opHolder[t] = a => Open(t)'
  BY <1>1, <1>2, ActorFacts DEF PinVolatile, TypeOK, Open, Doomed, Holding, Places,
     MustPoison, UsesConn, Fits, IsControl, InTxn, Tid, InClientTxn
<1> QED BY <1>3, <1>4, <1>5, <1>6

LEMMA PinFailsStores ==
  ASSUME AutoRollback = FALSE, TypeOK, TypeOK', Locks, Connections, Storage, NEW a \in Actors, PinFails(a)
  PROVE  /\ CommitsOpen(a)' /\ Remembers(a) /\ Accounts(a)
         /\ \A t \in Txns : opHolder[t] = a => Open(t)'
<1>1. /\ Fits(a) /\ HoldsLocks(a) /\ UsesConn(a) /\ Alone(a) /\ CommitsOpen(a)
      /\ InTxn(a) => Pins(Tid(a)) /\ Open(Tid(a))
  BY Own DEF Locks, Connections, Storage
<1>2. /\ InTxn(a) => Tid(a) \in Txns
      /\ pc[a] \in Writing => at[a] \in Hives
      /\ pc[a] \in Holding /\ InTxn(a) => opHolder[Tid(a)] = a
      /\ \A t \in Txns : opHolder[t] = a => Tid(a) = t /\ InTxn(a) /\ pc[a] \in Holding
  BY Own
<1>3. CommitsOpen(a)'
  BY <1>1, <1>2 DEF PinFails, Errors, TypeOK, CommitsOpen, UsesConn, Fits, Owner,
     InClientTxn, Writing
<1>4. Remembers(a)
  BY <1>1, <1>2, ActorFacts DEF PinFails, Errors, TypeOK, Remembers, Early, Fits,
     IsControl, CommitsOpen
<1>5. Accounts(a)
  BY DEF PinFails, Errors, Accounts
<1>6. \A t \in Txns : opHolder[t] = a => Open(t)'
  BY <1>1, <1>2, ActorFacts DEF PinFails, Errors, TypeOK, Open, Doomed, Holding, Places,
     MustPoison, UsesConn, Fits, IsControl, InTxn, Tid, InClientTxn
<1> QED BY <1>3, <1>4, <1>5, <1>6

LEMMA ReadMainStores ==
  ASSUME AutoRollback = FALSE, TypeOK, TypeOK', Locks, Connections, Storage, NEW a \in Actors, ReadMain(a)
  PROVE  /\ CommitsOpen(a)' /\ Remembers(a) /\ Accounts(a)
         /\ \A t \in Txns : opHolder[t] = a => Open(t)'
<1>1. /\ Fits(a) /\ HoldsLocks(a) /\ UsesConn(a) /\ Alone(a) /\ CommitsOpen(a)
      /\ InTxn(a) => Pins(Tid(a)) /\ Open(Tid(a))
  BY Own DEF Locks, Connections, Storage
<1>2. /\ InTxn(a) => Tid(a) \in Txns
      /\ pc[a] \in Writing => at[a] \in Hives
      /\ pc[a] \in Holding /\ InTxn(a) => opHolder[Tid(a)] = a
      /\ \A t \in Txns : opHolder[t] = a => Tid(a) = t /\ InTxn(a) /\ pc[a] \in Holding
  BY Own
<1>3. CommitsOpen(a)'
  BY <1>1, <1>2 DEF ReadMain, TypeOK, CommitsOpen, UsesConn, Fits, Owner, InClientTxn,
     Writing
<1>4. Remembers(a)
  BY <1>1, <1>2, ActorFacts DEF ReadMain, TypeOK, Remembers, Early, Fits, IsControl,
     CommitsOpen
<1>5. Accounts(a)
  BY DEF ReadMain, Accounts
<1>6. \A t \in Txns : opHolder[t] = a => Open(t)'
  BY <1>1, <1>2, ActorFacts DEF ReadMain, TypeOK, Open, Doomed, Holding, Places,
     MustPoison, UsesConn, Fits, IsControl, InTxn, Tid, InClientTxn
<1> QED BY <1>3, <1>4, <1>5, <1>6

LEMMA ReadVolatileStores ==
  ASSUME AutoRollback = FALSE, TypeOK, TypeOK', Locks, Connections, Storage, NEW a \in Actors, ReadVolatile(a)
  PROVE  /\ CommitsOpen(a)' /\ Remembers(a) /\ Accounts(a)
         /\ \A t \in Txns : opHolder[t] = a => Open(t)'
<1>1. /\ Fits(a) /\ HoldsLocks(a) /\ UsesConn(a) /\ Alone(a) /\ CommitsOpen(a)
      /\ InTxn(a) => Pins(Tid(a)) /\ Open(Tid(a))
  BY Own DEF Locks, Connections, Storage
<1>2. /\ InTxn(a) => Tid(a) \in Txns
      /\ pc[a] \in Writing => at[a] \in Hives
      /\ pc[a] \in Holding /\ InTxn(a) => opHolder[Tid(a)] = a
      /\ \A t \in Txns : opHolder[t] = a => Tid(a) = t /\ InTxn(a) /\ pc[a] \in Holding
  BY Own
<1>3. CommitsOpen(a)'
  BY <1>1, <1>2 DEF ReadVolatile, TypeOK, CommitsOpen, UsesConn, Fits, Owner, InClientTxn,
     Writing
<1>4. Remembers(a)
  BY <1>1, <1>2, ActorFacts DEF ReadVolatile, TypeOK, Remembers, Early, Fits, IsControl,
     CommitsOpen
<1>5. Accounts(a)
  BY DEF ReadVolatile, Accounts
<1>6. \A t \in Txns : opHolder[t] = a => Open(t)'
  BY <1>1, <1>2, ActorFacts DEF ReadVolatile, TypeOK, Open, Doomed, Holding, Places,
     MustPoison, UsesConn, Fits, IsControl, InTxn, Tid, InClientTxn
<1> QED BY <1>3, <1>4, <1>5, <1>6

LEMMA ReadFailsStores ==
  ASSUME AutoRollback = FALSE, TypeOK, TypeOK', Locks, Connections, Storage, NEW a \in Actors, ReadFails(a)
  PROVE  /\ CommitsOpen(a)' /\ Remembers(a) /\ Accounts(a)
         /\ \A t \in Txns : opHolder[t] = a => Open(t)'
<1>1. /\ Fits(a) /\ HoldsLocks(a) /\ UsesConn(a) /\ Alone(a) /\ CommitsOpen(a)
      /\ InTxn(a) => Pins(Tid(a)) /\ Open(Tid(a))
  BY Own DEF Locks, Connections, Storage
<1>2. /\ InTxn(a) => Tid(a) \in Txns
      /\ pc[a] \in Writing => at[a] \in Hives
      /\ pc[a] \in Holding /\ InTxn(a) => opHolder[Tid(a)] = a
      /\ \A t \in Txns : opHolder[t] = a => Tid(a) = t /\ InTxn(a) /\ pc[a] \in Holding
  BY Own
<1>3. CommitsOpen(a)'
  BY <1>1, <1>2 DEF ReadFails, Errors, TypeOK, CommitsOpen, UsesConn, Fits, Owner,
     InClientTxn, Writing
<1>4. Remembers(a)
  BY <1>1, <1>2, ActorFacts DEF ReadFails, Errors, TypeOK, Remembers, Early, Fits,
     IsControl, CommitsOpen
<1>5. Accounts(a)
  BY DEF ReadFails, Errors, Accounts
<1>6. \A t \in Txns : opHolder[t] = a => Open(t)'
  BY <1>1, <1>2, ActorFacts DEF ReadFails, Errors, TypeOK, Open, Doomed, Holding, Places,
     MustPoison, UsesConn, Fits, IsControl, InTxn, Tid, InClientTxn
<1> QED BY <1>3, <1>4, <1>5, <1>6

LEMMA UnregisterStores ==
  ASSUME AutoRollback = FALSE, TypeOK, TypeOK', Locks, Connections, Storage, NEW a \in Actors, Unregister(a)
  PROVE  /\ CommitsOpen(a)' /\ Remembers(a) /\ Accounts(a)
         /\ \A t \in Txns : opHolder[t] = a => Open(t)'
<1>1. /\ Fits(a) /\ HoldsLocks(a) /\ UsesConn(a) /\ Alone(a) /\ CommitsOpen(a)
      /\ InTxn(a) => Pins(Tid(a)) /\ Open(Tid(a))
  BY Own DEF Locks, Connections, Storage
<1>2. /\ InTxn(a) => Tid(a) \in Txns
      /\ pc[a] \in Writing => at[a] \in Hives
      /\ pc[a] \in Holding /\ InTxn(a) => opHolder[Tid(a)] = a
      /\ \A t \in Txns : opHolder[t] = a => Tid(a) = t /\ InTxn(a) /\ pc[a] \in Holding
  BY Own
<1>3. CommitsOpen(a)'
  BY <1>1, <1>2 DEF Unregister, TypeOK, CommitsOpen, UsesConn, Fits, Owner, InClientTxn,
     Writing
<1>4. Remembers(a)
  BY <1>1, <1>2, ActorFacts DEF Unregister, TypeOK, Remembers, Early, Fits, IsControl,
     CommitsOpen
<1>5. Accounts(a)
  BY DEF Unregister, Accounts
<1>6. \A t \in Txns : opHolder[t] = a => Open(t)'
  BY <1>1, <1>2, ActorFacts DEF Unregister, TypeOK, Open, Doomed, Holding, Places,
     MustPoison, UsesConn, Fits, IsControl, InTxn, Tid, InClientTxn
<1> QED BY <1>3, <1>4, <1>5, <1>6

LEMMA RollBackStores ==
  ASSUME AutoRollback = FALSE, TypeOK, TypeOK', Locks, Connections, Storage, NEW a \in Actors, RollBack(a)
  PROVE  /\ CommitsOpen(a)' /\ Remembers(a) /\ Accounts(a)
         /\ \A t \in Txns : opHolder[t] = a => Open(t)'
<1>1. /\ Fits(a) /\ HoldsLocks(a) /\ UsesConn(a) /\ Alone(a) /\ CommitsOpen(a)
      /\ InTxn(a) => Pins(Tid(a)) /\ Open(Tid(a))
  BY Own DEF Locks, Connections, Storage
<1>2. /\ InTxn(a) => Tid(a) \in Txns
      /\ pc[a] \in Writing => at[a] \in Hives
      /\ pc[a] \in Holding /\ InTxn(a) => opHolder[Tid(a)] = a
      /\ \A t \in Txns : opHolder[t] = a => Tid(a) = t /\ InTxn(a) /\ pc[a] \in Holding
  BY Own
<1>3. CommitsOpen(a)'
  BY <1>1, <1>2 DEF RollBack, GiveBack, TypeOK, CommitsOpen, UsesConn, Fits, Owner,
     InClientTxn, Writing
<1>4. Remembers(a)
  BY <1>1, <1>2, ActorFacts DEF RollBack, GiveBack, TypeOK, Remembers, Early, Fits,
     IsControl, CommitsOpen
<1>5. Accounts(a)
  <2>1. ASSUME NEW w \in pending'
        PROVE  Uncommitted(w)' \/ (/\ w \in pending
                                   /\ writeConn'[w[2]] = writeConn[w[2]]
                                   /\ sqlTxn'[w[2]] = sqlTxn[w[2]])
    <3>1. w \in pending /\ w[2] \in Hives
          /\ (conn[Tid(a)] = "write" => w[2] # bound[Tid(a)])
      BY WriteParts DEF RollBack, GiveBack, Discarded, TypeOK
    <3> QED BY <3>1 DEF RollBack, GiveBack, TypeOK
  <2>2. ASSUME NEW w \in published', w \notin published PROVE Visible(w)'
    BY <2>2 DEF RollBack, GiveBack
  <2> QED BY <2>1, <2>2 DEF Accounts
<1>6. \A t \in Txns : opHolder[t] = a => Open(t)'
  BY <1>1, <1>2, ActorFacts DEF RollBack, GiveBack, TypeOK, Open, Doomed, Holding, Places,
     MustPoison, UsesConn, Fits, IsControl, InTxn, Tid, InClientTxn
<1> QED BY <1>3, <1>4, <1>5, <1>6

LEMMA FinishStores ==
  ASSUME AutoRollback = FALSE, TypeOK, TypeOK', Locks, Connections, Storage, NEW a \in Actors, Finish(a)
  PROVE  /\ CommitsOpen(a)' /\ Remembers(a) /\ Accounts(a)
         /\ \A t \in Txns : opHolder[t] = a => Open(t)'
<1>1. /\ Fits(a) /\ HoldsLocks(a) /\ UsesConn(a) /\ Alone(a) /\ CommitsOpen(a)
      /\ InTxn(a) => Pins(Tid(a)) /\ Open(Tid(a))
  BY Own DEF Locks, Connections, Storage
<1>2. /\ InTxn(a) => Tid(a) \in Txns
      /\ pc[a] \in Writing => at[a] \in Hives
      /\ pc[a] \in Holding /\ InTxn(a) => opHolder[Tid(a)] = a
      /\ \A t \in Txns : opHolder[t] = a => Tid(a) = t /\ InTxn(a) /\ pc[a] \in Holding
  BY Own
<1>3. CommitsOpen(a)'
  BY <1>1, <1>2 DEF Finish, Answer, TypeOK, CommitsOpen, UsesConn, Fits, Owner,
     InClientTxn, Writing
<1>4. Remembers(a)
  BY <1>1, <1>2, ActorFacts DEF Finish, Answer, TypeOK, Remembers, Early, Fits, IsControl,
     CommitsOpen
<1>5. Accounts(a)
  BY DEF Finish, Answer, Accounts
<1>6. \A t \in Txns : opHolder[t] = a => Open(t)'
  BY <1>1, <1>2, ActorFacts DEF Finish, Answer, TypeOK, Open, Doomed, Holding, Places,
     MustPoison, UsesConn, Fits, IsControl, InTxn, Tid, InClientTxn
<1> QED BY <1>3, <1>4, <1>5, <1>6

LEMMA InterruptStores ==
  ASSUME AutoRollback = FALSE, TypeOK, TypeOK', Locks, Connections, Storage, NEW a \in Actors, Interrupt(a)
  PROVE  /\ CommitsOpen(a)' /\ Remembers(a) /\ Accounts(a)
         /\ \A t \in Txns : opHolder[t] = a => Open(t)'
<1>1. /\ Fits(a) /\ HoldsLocks(a) /\ UsesConn(a) /\ Alone(a) /\ CommitsOpen(a)
      /\ InTxn(a) => Pins(Tid(a)) /\ Open(Tid(a))
  BY Own DEF Locks, Connections, Storage
<1>2. /\ InTxn(a) => Tid(a) \in Txns
      /\ pc[a] \in Writing => at[a] \in Hives
      /\ pc[a] \in Holding /\ InTxn(a) => opHolder[Tid(a)] = a
      /\ \A t \in Txns : opHolder[t] = a => Tid(a) = t /\ InTxn(a) /\ pc[a] \in Holding
  BY Own
<1>3. CommitsOpen(a)'
  BY <1>1, <1>2 DEF Interrupt, MustPoison, GiveBack, TypeOK, CommitsOpen, UsesConn, Fits,
     Owner, InClientTxn, Writing
<1>4. Remembers(a)
  BY <1>1, <1>2, ActorFacts DEF Interrupt, MustPoison, GiveBack, TypeOK, Remembers, Early,
     Fits, IsControl, CommitsOpen
<1>5. Accounts(a)
  <2>1. ASSUME NEW w \in pending'
        PROVE  Uncommitted(w)' \/ (/\ w \in pending
                                   /\ writeConn'[w[2]] = writeConn[w[2]]
                                   /\ sqlTxn'[w[2]] = sqlTxn[w[2]])
    <3>1. w \in pending /\ w[2] \in Hives
          /\ (conn[Tid(a)] = "write" => w[2] # bound[Tid(a)])
      BY WriteParts DEF Interrupt, GiveBack, Discarded, TypeOK
    <3> QED BY <3>1 DEF Interrupt, GiveBack, TypeOK
  <2>2. ASSUME NEW w \in published', w \notin published PROVE Visible(w)'
    BY <2>2 DEF Interrupt, GiveBack
  <2> QED BY <2>1, <2>2 DEF Accounts
<1>6. \A t \in Txns : opHolder[t] = a => Open(t)'
  BY <1>1, <1>2, ActorFacts DEF Interrupt, MustPoison, GiveBack, TypeOK, Open, Doomed,
     Holding, Places, UsesConn, Fits, IsControl, InTxn, Tid, InClientTxn
<1> QED BY <1>3, <1>4, <1>5, <1>6

LEMMA PoisonStores ==
  ASSUME AutoRollback = FALSE, TypeOK, TypeOK', Locks, Connections, Storage, NEW a \in Actors, Poison(a)
  PROVE  /\ CommitsOpen(a)' /\ Remembers(a) /\ Accounts(a)
         /\ \A t \in Txns : opHolder[t] = a => Open(t)'
<1>1. /\ Fits(a) /\ HoldsLocks(a) /\ UsesConn(a) /\ Alone(a) /\ CommitsOpen(a)
      /\ InTxn(a) => Pins(Tid(a)) /\ Open(Tid(a))
  BY Own DEF Locks, Connections, Storage
<1>2. /\ InTxn(a) => Tid(a) \in Txns
      /\ pc[a] \in Writing => at[a] \in Hives
      /\ pc[a] \in Holding /\ InTxn(a) => opHolder[Tid(a)] = a
      /\ \A t \in Txns : opHolder[t] = a => Tid(a) = t /\ InTxn(a) /\ pc[a] \in Holding
  BY Own
<1>3. CommitsOpen(a)'
  BY <1>1, <1>2 DEF Poison, Answer, TypeOK, CommitsOpen, UsesConn, Fits, Owner,
     InClientTxn, Writing
<1>4. Remembers(a)
  BY <1>1, <1>2, ActorFacts DEF Poison, Answer, TypeOK, Remembers, Early, Fits, IsControl,
     CommitsOpen
<1>5. Accounts(a)
  BY DEF Poison, Answer, Accounts
<1>6. \A t \in Txns : opHolder[t] = a => Open(t)'
  BY <1>1, <1>2, ActorFacts DEF Poison, Answer, TypeOK, Open, Doomed, Holding, Places,
     MustPoison, UsesConn, Fits, IsControl, InTxn, Tid, InClientTxn
<1> QED BY <1>3, <1>4, <1>5, <1>6

LEMMA StepStores ==
  ASSUME AutoRollback = FALSE, TypeOK, TypeOK', Locks, Connections, Storage,
         NEW a \in Actors, Step(a)
  PROVE  /\ CommitsOpen(a)' /\ Remembers(a) /\ Accounts(a)
         /\ \A t \in Txns : opHolder[t] = a => Open(t)'
BY AdmitOperationStores, OperationTimeoutStores, StartStores, EnterGateStores,
   GateTimeoutStores, RouteWriteStores, ConnectStores, ConnectFailsStores,
   CheckpointStores, StatementStores, StatementFailsStores, DecideCommitStores,
   CommitFailsStores, PublishMainStores, CommitDoneStores, LocalCommitDoneStores,
   NextHiveStores, RouteReadStores, PinMainStores, PinVolatileStores, PinFailsStores,
   ReadMainStores, ReadVolatileStores, ReadFailsStores, UnregisterStores, RollBackStores,
   FinishStores, InterruptStores, PoisonStores DEF Step

\* A step of an actor keeps the storage, if it keeps its own part of it.
LEMMA ActsKeepsStorage ==
  ASSUME TypeOK, TypeOK', Locks, Connections, Storage, NEW a \in Actors, Acts(a), Spares(a),
         CommitsOpen(a)', Remembers(a), Accounts(a),
         \A t \in Txns : opHolder[t] = a => Open(t)'
  PROVE  Storage'
BY OthersKeepOpen, WritesKept DEF Storage

LEMMA SendsKeepsStorage ==
  ASSUME TypeOK, TypeOK', Locks, Connections, Storage, NEW a \in Actors, Acts(a), Sends(a)
  PROVE  Storage'
<1>1. Spares(a) BY RestHoldsNothing DEF Sends, Spares
<1>2. CommitsOpen(a)' BY DEF CommitsOpen, Sends
<1>3. Remembers(a) BY DEF Remembers, Sends
<1>4. Accounts(a) BY DEF Accounts, Sends
<1>5. \A t \in Txns : opHolder[t] # a BY RestHoldsNothing DEF Sends
<1> QED BY <1>1, <1>2, <1>3, <1>4, <1>5, ActsKeepsStorage

LEMMA WakesKeepsStorage ==
  ASSUME TypeOK, TypeOK', Locks, Storage, Wakes
  PROVE  Storage'
<1>1. UNCHANGED <<bound, conn, opHolder, storeVars, at, status, late>> BY DEF Wakes
<1>2. \A a \in Actors : pc[a] # "idle" \/ a \in Requests => pc'[a] = pc[a] /\ call'[a] = call[a]
  BY DEF Wakes
<1>3. ASSUME NEW t \in Txns PROVE Open(t)'
  <2>1. ASSUME Doomed(t) PROVE Doomed(t)'
    <3> PICK b \in Actors : b = opHolder[t] BY <2>1 DEF Doomed
    <3>1. pc'[b] = pc[b] /\ call'[b] = call[b] BY <1>2, <2>1 DEF Doomed
    <3> QED BY <1>1, <2>1, <3>1 DEF Doomed, MustPoison, IsControl, InTxn, Tid
  <2> QED BY <1>1, <2>1 DEF Storage, Open
<1>4. ASSUME NEW a \in Actors PROVE CommitsOpen(a)'
  BY <1>1 DEF Wakes, Storage, CommitsOpen
<1>5. ASSUME NEW t PROVE Committed(t) => Committed(t)'
  BY <1>1, <1>2, ActorFacts DEF Committed, Tid
<1>6. \A w \in Writes : w[1] \in Actors /\ w[1] \in Requests BY WriteParts, ActorFacts
<1>7. ASSUME NEW w \in pending' PROVE Uncommitted(w)'
  BY <1>1, <1>2, <1>6, PendingOwner DEF Uncommitted, Owner, InClientTxn, InTxn, Tid
<1>8. ASSUME NEW w \in published' PROVE Visible(w)'
  <2>1. w \in published /\ Visible(w) /\ w \in Writes BY <1>1 DEF Storage, TypeOK
  <2>2. pc'[w[1]] = pc[w[1]] /\ call'[w[1]] = call[w[1]] BY <1>2, <1>6, <2>1
  <2> QED BY <1>5, <2>1, <2>2 DEF Visible, InClientTxn, InTxn, Tid
<1> QED BY <1>3, <1>4, <1>7, <1>8 DEF Storage

\* Nor does a deadline, or what the storage does not depend on.
LEMMA QuietKeepsStorage ==
  ASSUME Storage, late \subseteq late',
         UNCHANGED <<bound, conn, opHolder, storeVars, pc, call, at, status>>
  PROVE  Storage'
<1>1. ASSUME NEW t \in Txns PROVE Open(t)'
  BY DEF Storage, Open, Doomed, MustPoison, IsControl, InTxn, Tid
<1>2. ASSUME NEW a \in Actors PROVE CommitsOpen(a)' BY DEF Storage, CommitsOpen
<1>3. ASSUME NEW t PROVE Committed(t) => Committed(t)' BY DEF Committed, Tid
<1>4. \A w \in pending' : Uncommitted(w)'
  BY DEF Storage, Uncommitted, Owner, InClientTxn, InTxn, Tid
<1>5. \A w \in published' : Visible(w)'
  BY <1>3 DEF Storage, Visible, InClientTxn, InTxn, Tid
<1> QED BY <1>1, <1>2, <1>4, <1>5 DEF Storage

LEMMA StorageNext ==
  ASSUME AutoRollback = FALSE, Typed, Locks, Connections, Storage,
         [Next /\ UNCHANGED scenario]_<<vars, scenario>>
  PROVE  Storage'
<1>1. TypeOK /\ TypeOK' BY LocksNext DEF Typed
<1>2. CASE \E a \in Actors : Step(a)
  <2>1. PICK a \in Actors : Step(a) BY <1>2
  <2>2. Acts(a) /\ Spares(a) BY <1>1, <2>1, StepLocks, StepConn
  <2> QED BY <1>1, <2>1, <2>2, StepStores, ActsKeepsStorage
<1>3. CASE \E r \in Requests : Dispatch(r) \/ DispatchControl(r)
  <2>1. PICK r \in Requests : Dispatch(r) \/ DispatchControl(r) BY <1>3
  <2>2. r \in Actors /\ Acts(r) /\ Sends(r)
    BY <2>1, DispatchLocks, DispatchControlLocks, CallsSend, ActorFacts, <1>1
  <2> QED BY <1>1, <2>2, SendsKeepsStorage
<1>4. CASE \E r \in Requests : Expire(r)
  <2>1. /\ UNCHANGED <<bound, conn, opHolder, storeVars, pc, call, at, status>>
        /\ late \subseteq late'
    BY <1>4 DEF Expire
  <2> QED BY <2>1, QuietKeepsStorage
<1>5. CASE AbortRemaining
  <2>1. Closer \in Actors /\ Acts(Closer) /\ Sends(Closer)
    BY <1>1, <1>5, AbortRemainingLocks, CallsSend, ActorFacts
  <2> QED BY <1>1, <2>1, SendsKeepsStorage
<1>6. CASE Tick BY <1>1, <1>6, TickWakes, WakesKeepsStorage
<1>7. CASE \E t \in Txns, mode \in {"readWrite", "readOnly"} : Begin(t, mode)
  <2>1. UNCHANGED <<bound, conn, opHolder, storeVars, pc, call, at, status, late>>
    BY <1>7 DEF Begin
  <2> QED BY <2>1, QuietKeepsStorage
<1>8. CASE Unseen BY <1>8, QuietKeepsStorage DEF Unseen
<1>9. CASE UNCHANGED <<vars, scenario>> BY <1>9, QuietKeepsStorage DEF vars
<1> QED BY <1>2, <1>3, <1>4, <1>5, <1>6, <1>7, <1>8, <1>9, NextCases

LEMMA StorageInit == Init => Storage
BY ActorFacts DEF Init, Storage, Open, CommitsOpen

\* Unless a storage fault can end SQLite's transaction behind the manager's back,
\* an open transaction stays open and what is visible was committed.
THEOREM StorageInvariant ==
  ASSUME AutoRollback = FALSE
  PROVE  Spec => []Storage
<1>1. /\ Typed /\ Locks /\ Connections /\ Storage
      /\ [Next /\ UNCHANGED scenario]_<<vars, scenario>>
      => Storage'
  BY StorageNext
<1> QED BY <1>1, StorageInit, LocksInvariant, ConnInvariant, PTL DEF Spec

-----------------------------------------------------------------------------
\* And a pinned connection never falls back to autocommit between two requests
\* (finishRequest, failInterrupted).
THEOREM ConnectionsSound ==
  ASSUME AutoRollback = FALSE
  PROVE  Spec => []ConnectionInv
<1>1. Typed /\ Locks /\ Connections /\ Storage => ConnectionInv
  <2> SUFFICES ASSUME Typed, Locks, Connections, Storage PROVE PinnedStaysOpen
    BY ConnectionKept DEF ConnectionInv
  <2> SUFFICES ASSUME NEW t \in registered, conn[t] = "write", opHolder[t] = Nobody
               PROVE  sqlTxn[bound[t]]
    BY DEF PinnedStaysOpen
  <2>1. t \in Txns BY DEF Typed, TypeOK
  <2>2. ~Doomed(t) BY ActorFacts DEF Doomed
  <2> QED BY <2>1, <2>2 DEF Storage, Open
<1> QED BY <1>1, LocksInvariant, ConnInvariant, StorageInvariant, PTL

\* What readers see of a transaction, its COMMIT has published (commitConn).
THEOREM NothingElseIsVisible ==
  ASSUME AutoRollback = FALSE
  PROVE  Spec => []VisibleOnlyByCommit
<1>1. Storage => VisibleOnlyByCommit BY DEF Storage, Visible, VisibleOnlyByCommit
<1> QED BY <1>1, StorageInvariant, PTL

-----------------------------------------------------------------------------
(* Steps outside the actors at work.                                       *)

\* r is dispatched.
Sent(r) ==
  /\ pc[r] = "idle" /\ pc'[r] \in {"operation", "answered", "admitted"}
  /\ status'[r] = "OK" => call'[r].op = "abort" /\ pc'[r] = "answered"

\* A call is made, a lease or a deadline moves, a transaction begins: none of it
\* reaches an actor at work or the stores.
Outside ==
  /\ UNCHANGED <<bound, conn, failed, lockVars, storeVars, at, todo, seen>>
  /\ late \subseteq late' /\ begun \subseteq begun'
  /\ \A t \in begun : (t \in registered' <=> t \in registered) /\ (t \in readOnly' <=> t \in readOnly)
  /\ \A a \in Actors :
       \/ UNCHANGED <<pc[a], call[a], status[a]>>
       \/ pc[a] \in {"idle", "answered"} /\ pc'[a] \in {"operation", "answered", "admitted"}
  /\ \A r \in Requests : UNCHANGED <<pc[r], call[r], status[r]>> \/ Sent(r)

LEMMA StepOrOutside ==
  ASSUME Typed, Locks, [Next /\ UNCHANGED scenario]_<<vars, scenario>>
  PROVE  (\E a \in Actors : Step(a)) \/ Outside
<1>1. TypeOK BY DEF Typed
<1>2. ASSUME NEW a \in Actors, Acts(a), Sends(a) PROVE Outside
  <2>1. /\ UNCHANGED <<bound, conn, failed, lockVars, storeVars, at, todo, seen>>
        /\ late' = late /\ begun' = begun /\ registered' = registered /\ readOnly' = readOnly
        /\ pc[a] \in {"idle", "answered"} /\ pc'[a] \in {"operation", "answered", "admitted"}
    BY <1>2 DEF Sends
  <2>2. \A b \in Actors : b # a => UNCHANGED <<pc[b], call[b], status[b]>> BY <1>2 DEF Acts
  <2>3. a \in Requests => Sent(a) BY <1>2 DEF Sends, Sent
  <2>4. \A r \in Requests : UNCHANGED <<pc[r], call[r], status[r]>> \/ Sent(r)
    BY <2>2, <2>3, ActorFacts
  <2> QED BY <2>1, <2>2, <2>4 DEF Outside
<1>3. CASE \E r \in Requests : Dispatch(r) \/ DispatchControl(r)
  <2> PICK r \in Requests : Dispatch(r) \/ DispatchControl(r) BY <1>3
  <2>1. r \in Actors /\ Acts(r) /\ Sends(r)
    BY <1>1, DispatchLocks, DispatchControlLocks, CallsSend, ActorFacts
  <2> QED BY <1>2, <2>1
<1>4. CASE AbortRemaining
  <2>1. Closer \in Actors /\ Acts(Closer) /\ Sends(Closer)
    BY <1>1, <1>4, AbortRemainingLocks, CallsSend, ActorFacts
  <2> QED BY <1>2, <2>1
<1>5. CASE \E r \in Requests : Expire(r) BY <1>5, ActorFacts DEF Expire, Outside
<1>6. CASE Tick
  <2>1. Wakes BY <1>1, <1>6, TickWakes
  <2> QED BY <2>1, ActorFacts DEF Wakes, Outside
<1>7. CASE \E t \in Txns, mode \in {"readWrite", "readOnly"} : Begin(t, mode)
  BY <1>7, ActorFacts DEF Begin, Outside
<1>8. CASE Unseen BY <1>8, ActorFacts DEF Unseen, Outside
<1>9. CASE UNCHANGED <<vars, scenario>> BY <1>9, ActorFacts DEF vars, Outside
<1> QED BY <1>3, <1>4, <1>5, <1>6, <1>7, <1>8, <1>9, NextCases

-----------------------------------------------------------------------------
(* RSI_DELETE_LAYER.                                                       *)

\* The deletes in every hive that r has left are published, those in the hive it
\* is committing are at least uncommitted.
Layer(r) ==
  call[r].op = "deleteLayer" =>
    /\ pc[r] \in Gated \cup {"gate"} =>
         \A h \in Hives : h \notin todo[r] /\ h # at[r] => WritesOf(r, h, Stores) \subseteq published
    /\ pc[r] \in {"commit", "publishing"} =>
         WritesOf(r, at[r], Stores) \subseteq pending \cup published
    /\ status[r] = "OK" => \A h \in Hives : WritesOf(r, h, Stores) \subseteq published

Layers == \A r \in Requests : Layer(r)

LEMMA StepKeepsCall ==
  ASSUME NEW a \in Actors, Step(a)
  PROVE  call' = call /\ pc[a] \notin {"idle", "answered"}
<1>1. CASE AdmitOperation(a) \/ OperationTimeout(a) \/ EnterGate(a) \/ GateTimeout(a)
  BY <1>1 DEF AdmitOperation, OperationTimeout, EnterGate, GateTimeout
<1>2. CASE Start(a)
  BY <1>2 DEF Start, StartMutation, StartRead, StartDeleteLayer, StartCommit, StartAbort
<1>3. CASE RouteWrite(a) \/ Connect(a) \/ ConnectFails(a) \/ Checkpoint(a)
  BY <1>3 DEF RouteWrite, Connect, ConnectFails, Checkpoint
<1>4. CASE Statement(a) \/ StatementFails(a) BY <1>4 DEF Statement, StatementFails
<1>5. CASE DecideCommit(a) \/ CommitFails(a) \/ PublishMain(a)
  BY <1>5 DEF DecideCommit, CommitFails, CommitMayFail, PublishMain
<1>6. CASE CommitDone(a) \/ LocalCommitDone(a) \/ NextHive(a)
  BY <1>6 DEF CommitDone, LocalCommitDone, NextHive, PublishVolatile
<1>7. CASE RouteRead(a) \/ PinMain(a) \/ PinVolatile(a) \/ PinFails(a)
  BY <1>7 DEF RouteRead, PinMain, PinVolatile, PinFails
<1>8. CASE ReadMain(a) \/ ReadVolatile(a) \/ ReadFails(a)
  BY <1>8 DEF ReadMain, ReadVolatile, ReadFails
<1>9. CASE Unregister(a) \/ RollBack(a) \/ Finish(a) \/ Interrupt(a) \/ Poison(a)
  BY <1>9 DEF Unregister, RollBack, Finish, Interrupt, Poison
<1> QED BY <1>1, <1>2, <1>3, <1>4, <1>5, <1>6, <1>7, <1>8, <1>9 DEF Step

LEMMA LastSteps ==
  ASSUME NEW a \in Actors, Step(a), pc[a] \in {"finish", "poisoning"}
  PROVE  Finish(a) \/ Interrupt(a) \/ Poison(a)
BY DEF Step, AdmitOperation, OperationTimeout, Start, StartMutation, StartRead, StartDeleteLayer,
       StartCommit, StartAbort, EnterGate, GateTimeout, RouteWrite, Connect, ConnectFails,
       Checkpoint, Statement, StatementFails, DecideCommit, CommitFails, CommitMayFail,
       PublishMain, CommitDone, LocalCommitDone, NextHive, PublishVolatile, RouteRead, PinMain,
       PinVolatile, PinFails, ReadMain, ReadVolatile, ReadFails, Unregister, RollBack

LEMMA OthersKeepLayer ==
  ASSUME TypeOK, TypeOK', Locks, Connections, NEW a \in Actors, Acts(a), Spares(a),
         NEW r \in Requests, r # a, Layer(r)
  PROVE  Layer(r)'
<1>1. /\ r \in Actors
      /\ pc'[r] = pc[r] /\ call'[r] = call[r] /\ at'[r] = at[r] /\ todo'[r] = todo[r]
      /\ status'[r] = status[r]
  BY ActorFacts DEF Acts
<1>2. published \subseteq published' BY DEF Spares
<1>3. ASSUME pc[r] \in {"commit", "publishing"}, call[r].op = "deleteLayer"
      PROVE  WritesOf(r, at[r], Stores) \subseteq pending' \cup published'
  <2> SUFFICES ASSUME NEW w \in WritesOf(r, at[r], Stores) PROVE w \in pending' \cup published'
    OBVIOUS
  <2>1. ~Reaches(a, at[r]) /\ at[r] \in Hives
    BY <1>1, <1>3, WriterNotReached, Own DEF Writing
  <2>2. w \in Writes /\ w[2] = at[r] BY <2>1 DEF WritesOf, Writes
  <2>3. w \in pending \cup published BY <1>3 DEF Layer
  <2> QED BY <1>2, <2>1, <2>2, <2>3 DEF Spares
<1> QED BY <1>1, <1>2, <1>3 DEF Layer, WritesOf

LEMMA StepKeepsLayer ==
  ASSUME TypeOK, TypeOK', Locks, Connections, Storage, NEW a \in Requests, Step(a), Spares(a),
         Layer(a)
  PROVE  Layer(a)'
<1> SUFFICES ASSUME call[a].op = "deleteLayer" PROVE Layer(a)'
  BY StepKeepsCall, ActorFacts DEF Layer
<1>1. a \in Actors /\ Fits(a) /\ CommitsOpen(a) BY ActorFacts DEF Locks, Storage
<1>2. call' = call /\ pc[a] \notin {"idle", "answered"} BY <1>1, StepKeepsCall
<1>3. published \subseteq published' BY DEF Spares
<1>4. pc[a] # "finish" => status[a] # "OK" BY <1>1, <1>2 DEF CommitsOpen
<1>5. CASE pc'[a] \in {"admitted", "finish", "answered", "poisoning"} /\ status'[a] # "OK"
  BY <1>2, <1>5 DEF Layer, Gated
<1>6. CASE pc[a] = "finish"
  <2>1. Finish(a) \/ Interrupt(a) BY <1>1, <1>6, LastSteps DEF Poison
  <2>2. pc'[a] \in {"answered", "poisoning"} /\ (status'[a] = "OK" => status[a] = "OK")
    BY <1>1, <2>1 DEF Finish, Interrupt, Answer, TypeOK
  <2> QED BY <1>2, <1>3, <2>2 DEF Layer, Gated
<1>7. CASE AdmitOperation(a) \/ OperationTimeout(a) \/ GateTimeout(a) \/ ConnectFails(a)
           \/ StatementFails(a) \/ CommitFails(a)
  <2>1. pc[a] # "finish"
    BY <1>7 DEF AdmitOperation, OperationTimeout, GateTimeout, ConnectFails, StatementFails,
                CommitFails, CommitMayFail
  <2>2. CASE AdmitOperation(a)
    BY <1>1, <1>4, <1>5, <2>1, <2>2 DEF AdmitOperation, TypeOK
  <2>3. CASE OperationTimeout(a) \/ GateTimeout(a)
    BY <1>1, <1>5, <2>3 DEF OperationTimeout, GateTimeout, TypeOK
  <2>4. CASE ConnectFails(a) BY <1>1, <1>5, <2>4 DEF ConnectFails, TypeOK, Errors
  <2>5. CASE StatementFails(a) BY <1>1, <1>5, <2>5 DEF StatementFails, TypeOK, Errors
  <2>6. CASE CommitFails(a) BY <1>1, <1>5, <2>6 DEF CommitFails, TypeOK, Errors
  <2> QED BY <1>7, <2>2, <2>3, <2>4, <2>5, <2>6
<1>8. CASE Start(a)
  <2>1. StartDeleteLayer(a) /\ pc[a] = "admitted"
    BY <1>8 DEF Start, StartMutation, StartRead, StartDeleteLayer, StartCommit, StartAbort
  <2>2. CASE pc'[a] = "finish" /\ status'[a] # "OK" BY <1>5, <2>2
  <2>3. CASE pc'[a] = "gate" /\ status' = status /\ \E h \in Hives : at'[a] = h /\ todo'[a] = Hives \ {h}
    BY <1>2, <1>4, <2>1, <2>3 DEF Layer
  <2>4. \/ pc'[a] = "finish" /\ status'[a] # "OK"
        \/ pc'[a] = "gate" /\ status' = status /\ \E h \in Hives : at'[a] = h /\ todo'[a] = Hives \ {h}
    BY <1>1, <2>1 DEF StartDeleteLayer, TypeOK
  <2> QED BY <2>2, <2>3, <2>4
<1>9. CASE EnterGate(a) \/ Connect(a)
  <2>1. /\ pc[a] \in {"gate", "connect"} /\ pc'[a] \in {"routing", "statement"}
        /\ UNCHANGED <<at, todo, status, published>>
    BY <1>1, <1>9 DEF EnterGate, Connect, TypeOK
  <2> QED BY <1>2, <1>4, <2>1 DEF Layer, Gated
<1>10. CASE RouteWrite(a)
  <2>1. /\ pc[a] = "routing" /\ UNCHANGED <<at, todo, published>>
        /\ \/ pc'[a] = "finish" /\ status'[a] # "OK"
           \/ pc'[a] \in {"statement", "connect"} /\ status' = status
    BY <1>1, <1>10 DEF RouteWrite, DeclineBusy, TypeOK
  <2> QED BY <1>2, <1>4, <1>5, <2>1 DEF Layer, Gated
<1>11. CASE Statement(a)
  <2>1. /\ pc[a] = "statement" /\ sqlTxn[at[a]] /\ ~InClientTxn(a)
    BY <1>1, <1>11 DEF Statement, CommitsOpen, InClientTxn
  <2>2. /\ pc'[a] = "commit" /\ UNCHANGED <<at, todo, status, published>>
        /\ pending' = pending \cup WritesOf(a, at[a], Stores)
    BY <1>1, <1>11, <2>1 DEF Statement, StoresOf, TypeOK
  <2> QED BY <1>2, <1>4, <2>1, <2>2 DEF Layer, Gated
<1>12. CASE PublishMain(a)
  <2>1. /\ pc[a] = "commit" /\ pc'[a] = "publishing" /\ UNCHANGED <<at, todo, status>>
        /\ pending \cup published \subseteq pending' \cup published'
    BY <1>1, <1>12 DEF PublishMain, TypeOK
  <2> QED BY <1>2, <1>3, <1>4, <2>1 DEF Layer, Gated
<1>13. CASE LocalCommitDone(a) \/ NextHive(a)
  <2>1. PublishVolatile(a) /\ pc[a] = "publishing"
    BY <1>13 DEF LocalCommitDone, NextHive, PublishVolatile
  <2>2. WritesOf(a, at[a], Stores) \subseteq published'
    <3> SUFFICES ASSUME NEW w \in WritesOf(a, at[a], Stores) PROVE w \in published' OBVIOUS
    <3>1. w \in pending \cup published BY <2>1 DEF Layer
    <3>2. w \in In(at[a], "main") \/ w \in In(at[a], "volatile") BY DEF WritesOf, In, Stores
    <3>3. w \in In(at[a], "main") => w \notin pending BY <1>1, <2>1 DEF CommitsOpen
    <3> QED BY <1>3, <2>1, <3>1, <3>2, <3>3 DEF PublishVolatile
  <2>3. \A h \in Hives : h \notin todo[a] => WritesOf(a, h, Stores) \subseteq published'
    BY <1>3, <2>1, <2>2 DEF Layer, Gated
  <2>4. CASE LocalCommitDone(a)
    <3>1. todo[a] = {} /\ pc'[a] = "finish" BY <1>1, <2>4 DEF LocalCommitDone, TypeOK
    <3> QED BY <1>2, <2>3, <3>1 DEF Layer, Gated
  <2>5. CASE NextHive(a)
    <3>1. /\ pc'[a] = "gate" /\ status' = status
          /\ \E g \in todo[a] : at'[a] = g /\ todo'[a] = todo[a] \ {g}
      BY <1>1, <2>5 DEF NextHive, TypeOK
    <3> QED BY <1>2, <1>4, <2>1, <2>3, <3>1 DEF Layer
  <2> QED BY <1>13, <2>4, <2>5
<1>14. ~(DecideCommit(a) \/ CommitDone(a) \/ Checkpoint(a) \/ RouteRead(a))
  BY DEF DecideCommit, CommitDone, Checkpoint, RouteRead, IsRead
<1>15. ~(PinMain(a) \/ PinVolatile(a) \/ PinFails(a) \/ ReadMain(a) \/ ReadVolatile(a) \/ ReadFails(a))
  BY <1>1 DEF PinMain, PinVolatile, PinFails, ReadMain, ReadVolatile, ReadFails, Fits, IsRead
<1>16. ~(Unregister(a) \/ RollBack(a)) BY <1>1 DEF Unregister, RollBack, Fits
<1>17. CASE Finish(a) \/ Interrupt(a) BY <1>6, <1>17 DEF Finish, Interrupt
<1>18. CASE Poison(a) BY <1>1, <1>5, <1>18 DEF Poison, Answer, TypeOK
<1> QED BY <1>7, <1>8, <1>9, <1>10, <1>11, <1>12, <1>13, <1>14, <1>15, <1>16, <1>17, <1>18 DEF Step

LEMMA LayersNext ==
  ASSUME AutoRollback = FALSE, Typed, Locks, Connections, Storage, Layers,
         [Next /\ UNCHANGED scenario]_<<vars, scenario>>
  PROVE  Layers'
<1>1. TypeOK /\ TypeOK' BY LocksNext DEF Typed
<1>2. CASE \E a \in Actors : Step(a)
  <2>1. PICK a \in Actors : Step(a) BY <1>2
  <2>2. Acts(a) /\ Spares(a) BY <1>1, <2>1, StepLocks, StepConn
  <2> QED BY <1>1, <2>1, <2>2, OthersKeepLayer, StepKeepsLayer DEF Layers
<1>3. CASE Outside
  <2> SUFFICES ASSUME NEW r \in Requests PROVE Layer(r)' BY DEF Layers
  <2>1. Layer(r) /\ UNCHANGED <<storeVars, at, todo>> BY <1>3 DEF Layers, Outside
  <2>2. CASE UNCHANGED <<pc[r], call[r], status[r]>> BY <2>1, <2>2 DEF Layer, WritesOf
  <2>3. CASE Sent(r) BY <2>1, <2>3 DEF Layer, Sent, Gated
  <2> QED BY <1>3, <2>2, <2>3 DEF Outside
<1> QED BY <1>2, <1>3, StepOrOutside

(* handleDeleteLayer misses no row of the layer in the hives it has left:  *)
(* they are published, and those of the hive it works on are uncommitted.  *)
THEOREM LayersInvariant ==
  ASSUME AutoRollback = FALSE
  PROVE  Spec => []Layers
<1>1. Init => Layers BY ActorFacts DEF Init, Layers, Layer, Gated
<1>2. /\ Typed /\ Locks /\ Connections /\ Storage /\ Layers
      /\ [Next /\ UNCHANGED scenario]_<<vars, scenario>>
      => Layers'
  BY LayersNext
<1> QED BY <1>1, <1>2, LocksInvariant, ConnInvariant, StorageInvariant, PTL DEF Spec

\* A deleted layer is gone from every hive and both stores when RSI_DELETE_LAYER
\* answers OK, whichever transactions bound meanwhile.
THEOREM NoHivePassedOver ==
  ASSUME AutoRollback = FALSE
  PROVE  Spec => []LayerDeletedEverywhere
<1>1. Layers => LayerDeletedEverywhere BY DEF Layers, Layer, LayerDeletedEverywhere
<1> QED BY <1>1, LayersInvariant, PTL

-----------------------------------------------------------------------------
(* Acknowledged writes.                                                    *)

Wrote(r) == WritesOf(r, call[r].hive, call[r].stores)

\* r has answered, or is about to answer, that it wrote in t; or that t is committed.
WroteIn(r, t) == InClientTxn(r) /\ Tid(r) = t /\ status[r] = "OK"
Succeeded(t) == \E c \in Requests : call[c].op = "commit" /\ Tid(c) = t /\ status[c] = "OK"

\* No commit of t can succeed any more.
Ended(t) == (t \in begun /\ t \notin registered) \/ t \in failed \/ Doomed(t)

\* An acknowledged write is kept for the commit, unless there will be none.
Kept(t) ==
  /\ Succeeded(t) => /\ t \in begun /\ t \notin registered
                     /\ \A r \in Requests : WroteIn(r, t) => Wrote(r) \subseteq published
  /\ ~Succeeded(t) /\ ~Ended(t) =>
       \A r \in Requests : WroteIn(r, t) => Wrote(r) \subseteq pending \cup published

Acks ==
  /\ \A t \in Txns : Kept(t)
  /\ \A a \in Actors : pc[a] = "rollback" => Tid(a) \notin registered

\* No step brings a transaction back.
LEMMA StepEnds ==
  ASSUME TypeOK, Locks, Connections, NEW a \in Actors, Step(a), Acts(a)
  PROVE  /\ begun' = begun /\ registered' \subseteq registered /\ failed \subseteq failed'
         /\ pc'[a] = "rollback" => Tid(a) \notin registered'
         /\ \A t \in Txns : Ended(t) => Ended(t)'
<1>1. begun' = begun BY DEF Acts
<1>2. registered' \subseteq registered /\ failed \subseteq failed'
  <2>1. CASE AdmitOperation(a) \/ OperationTimeout(a) \/ Start(a) \/ EnterGate(a) \/ GateTimeout(a)
    BY <2>1 DEF AdmitOperation, OperationTimeout, Start, EnterGate, GateTimeout
  <2>2. CASE RouteWrite(a) \/ Connect(a) \/ ConnectFails(a) \/ Checkpoint(a) \/ Statement(a)
    BY <2>2 DEF RouteWrite, Connect, ConnectFails, Checkpoint, Statement
  <2>3. CASE StatementFails(a) \/ DecideCommit(a) \/ CommitFails(a) \/ PublishMain(a)
    BY <2>3 DEF StatementFails, DecideCommit, CommitFails, PublishMain
  <2>4. CASE CommitDone(a) \/ LocalCommitDone(a) \/ NextHive(a)
    BY <2>4 DEF CommitDone, LocalCommitDone, NextHive, PublishVolatile
  <2>5. CASE RouteRead(a) \/ PinMain(a) \/ PinVolatile(a) \/ PinFails(a)
    BY <2>5 DEF RouteRead, PinMain, PinVolatile, PinFails
  <2>6. CASE ReadMain(a) \/ ReadVolatile(a) \/ ReadFails(a)
    BY <2>6 DEF ReadMain, ReadVolatile, ReadFails
  <2>7. CASE Unregister(a) \/ RollBack(a) \/ Finish(a) \/ Interrupt(a) \/ Poison(a)
    BY <2>7 DEF Unregister, RollBack, Finish, Interrupt, Poison
  <2> QED BY <2>1, <2>2, <2>3, <2>4, <2>5, <2>6, <2>7 DEF Step
<1>3. ASSUME pc'[a] = "rollback" PROVE Unregister(a)
  <2>1. CASE AdmitOperation(a) \/ OperationTimeout(a) \/ GateTimeout(a) \/ EnterGate(a)
    BY <1>3, <2>1 DEF AdmitOperation, OperationTimeout, EnterGate, GateTimeout, TypeOK
  <2>2. CASE Start(a)
    BY <1>3, <2>2 DEF Start, StartMutation, StartRead, StartDeleteLayer, StartCommit, StartAbort, TypeOK
  <2>3. CASE RouteWrite(a) \/ Connect(a) \/ ConnectFails(a) \/ Checkpoint(a)
    BY <1>3, <2>3 DEF RouteWrite, DeclineBusy, Connect, ConnectFails, Checkpoint, TypeOK
  <2>4. CASE Statement(a) \/ StatementFails(a) \/ DecideCommit(a)
    BY <1>3, <2>4 DEF Statement, StatementFails, DecideCommit, TypeOK
  <2>5. CASE CommitFails(a) \/ PublishMain(a) BY <1>3, <2>5 DEF CommitFails, PublishMain, TypeOK
  <2>6. CASE CommitDone(a) \/ LocalCommitDone(a) \/ NextHive(a)
    BY <1>3, <2>6 DEF CommitDone, LocalCommitDone, NextHive, TypeOK
  <2>7. CASE RouteRead(a) \/ PinMain(a) \/ PinVolatile(a) \/ PinFails(a)
    BY <1>3, <2>7 DEF RouteRead, PinMain, PinVolatile, PinFails, TypeOK
  <2>8. CASE ReadMain(a) \/ ReadVolatile(a) \/ ReadFails(a)
    BY <1>3, <2>8 DEF ReadMain, ReadVolatile, ReadFails, TypeOK
  <2>9. CASE RollBack(a) \/ Finish(a) \/ Interrupt(a) \/ Poison(a)
    BY <1>3, <2>9 DEF RollBack, Finish, Interrupt, Poison, Answer, TypeOK
  <2> QED BY <2>1, <2>2, <2>3, <2>4, <2>5, <2>6, <2>7, <2>8, <2>9 DEF Step
<1>4. ASSUME NEW t \in Txns, Ended(t) PROVE Ended(t)'
  <2>1. CASE ~Doomed(t) BY <1>1, <1>2, <1>4, <2>1 DEF Ended
  <2>2. CASE Doomed(t) /\ opHolder[t] # a BY <2>2, OthersKeepDoomed DEF Ended
  <2>3. CASE Doomed(t) /\ opHolder[t] = a
    <3>1. Tid(a) = t BY <2>3, Own
    <3>2. pc[a] = "poisoning" \/ (pc[a] = "finish" /\ MustPoison(a)) BY <2>3 DEF Doomed
    <3>3. Poison(a) \/ Interrupt(a) BY <3>2, LastSteps DEF Finish, Interrupt
    <3>4. CASE Poison(a) BY <3>1, <3>4 DEF Poison, Ended
    <3>5. CASE Interrupt(a)
      <4>1. opHolder' = opHolder /\ pc'[a] = "poisoning" BY <3>5 DEF Interrupt, TypeOK
      <4> QED BY <2>3, <4>1 DEF Ended, Doomed
    <3> QED BY <3>3, <3>4, <3>5
  <2> QED BY <2>1, <2>2, <2>3
<1> QED BY <1>1, <1>2, <1>3, <1>4 DEF Unregister

\* A commit that succeeds had the transaction open, and publishes all it wrote.
Completes(a) ==
  /\ Tid(a) \in registered /\ Tid(a) \notin registered' /\ ~Ended(Tid(a))
  /\ \A w \in pending : InClientTxn(w[1]) /\ Tid(w[1]) = Tid(a) => w \in published'

\* What a request does when it comes to report success.
Wins(a) ==
  status'[a] = "OK" =>
    \/ status[a] = "OK"
    \/ ~InClientTxn(a) /\ call[a].op # "commit"
    \/ InClientTxn(a) /\ Tid(a) \in registered /\ Wrote(a) \subseteq pending' \cup published'
    \/ call[a].op = "commit" /\ Completes(a)

LEMMA StatementWins ==
  ASSUME TypeOK, Locks, Connections, NEW a \in Actors, Statement(a) PROVE Wins(a)
<1> SUFFICES ASSUME InClientTxn(a)
             PROVE  Tid(a) \in registered /\ Wrote(a) \subseteq pending' \cup published'
  BY DEF Wins, Statement, Locks, Fits
<1>1. pc[a] = "statement" /\ call[a].op = "write" /\ at[a] = call[a].hive
  BY DEF Statement, Locks, HoldsLocks, Gated, InClientTxn
<1>2. Works(a) BY <1>1 DEF Works, Holding, Places, InClientTxn
<1>3. Tid(a) \in registered BY <1>2 DEF Connections, UsesConn
<1>4. Wrote(a) \subseteq pending' \cup published' BY <1>1 DEF Wrote, Statement, StoresOf
<1> QED BY <1>3, <1>4

LEMMA CommitWins ==
  ASSUME TypeOK, Locks, Connections, Storage, NEW a \in Actors, call[a].op = "commit",
         CommitDone(a) \/ (DecideCommit(a) /\ status'[a] = "OK" /\ status[a] # "OK")
  PROVE  Completes(a)
<1>1. pc[a] \in {"routing", "publishing"} /\ InTxn(a) /\ Tid(a) \in Txns
  BY Own DEF DecideCommit, CommitDone, PublishVolatile, Locks, Fits, IsControl
<1>2. Works(a) /\ opHolder[Tid(a)] = a BY <1>1, Own DEF Works, Holding, Places
<1>3. Tid(a) \in registered /\ Tid(a) \notin failed
  BY <1>1, <1>2 DEF Connections, UsesConn, Gated
<1>4. ~Ended(Tid(a)) BY <1>1, <1>2, <1>3 DEF Ended, Doomed
<1>5. ASSUME NEW w \in pending, InClientTxn(w[1]), Tid(w[1]) = Tid(a)
      PROVE  /\ conn[Tid(a)] = "write" /\ bound[Tid(a)] = w[2]
             /\ w[2] \in Hives /\ w[3] \in Stores /\ w \in In(w[2], w[3])
  <2>1. w \in Writes /\ writeConn[w[2]] = Tid(a) BY <1>5, PendingOwner DEF Uncommitted
  <2>2. w[2] \in Hives /\ w[3] \in Stores /\ w \in In(w[2], w[3]) BY <2>1, WriteParts
  <2> QED BY <1>1, <2>1, <2>2 DEF Connections, Pins
<1>6. CASE CommitDone(a)
  <2>1. Tid(a) \notin registered' BY <1>6 DEF CommitDone
  <2>2. ASSUME NEW w \in pending, InClientTxn(w[1]), Tid(w[1]) = Tid(a) PROVE w \in published'
    <3>1. pc[a] = "publishing" BY <1>6 DEF CommitDone, PublishVolatile
    <3>2. at[a] = w[2]
      BY <1>5, <2>2, <3>1, ActorFacts DEF Locks, HoldsLocks, Gated, IsControl
    <3>3. w \notin In(at[a], "main") BY <3>1 DEF Storage, CommitsOpen
    <3>4. w \in In(at[a], "volatile") BY <1>5, <2>2, <3>2, <3>3 DEF Stores
    <3> QED BY <1>6, <3>4 DEF CommitDone, PublishVolatile
  <2> QED BY <1>3, <1>4, <2>1, <2>2 DEF Completes
<1>7. CASE DecideCommit(a) /\ status'[a] = "OK" /\ status[a] # "OK"
  <2>1. conn[Tid(a)] # "write" /\ Tid(a) \notin registered' BY <1>7 DEF DecideCommit, TypeOK
  <2> QED BY <1>3, <1>4, <1>5, <2>1 DEF Completes
<1> QED BY <1>6, <1>7

LEMMA StepWins ==
  ASSUME TypeOK, Locks, Connections, Storage, NEW a \in Actors, Step(a) PROVE Wins(a)
<1>1. Fits(a) BY DEF Locks
<1>2. CASE status' = status \/ status'[a] # "OK" BY <1>2 DEF Wins
<1>3. CASE OperationTimeout(a) \/ GateTimeout(a) \/ EnterGate(a) \/ Connect(a) \/ PublishMain(a)
  BY <1>2, <1>3 DEF OperationTimeout, GateTimeout, EnterGate, Connect, PublishMain, TypeOK
<1>4. CASE AdmitOperation(a)
  BY <1>2, <1>4 DEF AdmitOperation, Wins, InClientTxn, TypeOK
<1>5. CASE Start(a) \/ RouteWrite(a)
  BY <1>2, <1>5 DEF Start, StartMutation, StartRead, StartDeleteLayer, StartCommit, StartAbort,
                    RouteWrite, DeclineBusy, TypeOK
<1>6. CASE ConnectFails(a) BY <1>2, <1>6 DEF ConnectFails, Errors, TypeOK
<1>7. CASE StatementFails(a) BY <1>2, <1>7 DEF StatementFails, Errors, TypeOK
<1>8. CASE CommitFails(a) BY <1>2, <1>8 DEF CommitFails, Errors, TypeOK
<1>9. CASE PinFails(a) BY <1>2, <1>9 DEF PinFails, Errors, TypeOK
<1>10. CASE ReadFails(a) BY <1>2, <1>10 DEF ReadFails, Errors, TypeOK
<1>11. CASE RouteRead(a) \/ PinMain(a) \/ PinVolatile(a) \/ ReadMain(a) \/ Unregister(a) \/ Interrupt(a)
  BY <1>2, <1>11 DEF RouteRead, PinMain, PinVolatile, ReadMain, Unregister, Interrupt, TypeOK
<1>12. CASE ReadVolatile(a)
  BY <1>1, <1>12 DEF ReadVolatile, Fits, IsRead, Wins, InClientTxn
<1>13. CASE Checkpoint(a) BY <1>13 DEF Checkpoint, Wins, InClientTxn
<1>14. CASE Statement(a) BY <1>14, StatementWins
<1>15. CASE LocalCommitDone(a) \/ NextHive(a)
  BY <1>1, <1>2, <1>15 DEF LocalCommitDone, NextHive, PublishVolatile, Fits, Wins
<1>16. CASE CommitDone(a)
  BY <1>16, CommitWins DEF Wins, CommitDone
<1>17. CASE DecideCommit(a)
  BY <1>17, CommitWins DEF Wins, DecideCommit
<1>18. CASE RollBack(a) BY <1>1, <1>18 DEF RollBack, Fits, Wins, InClientTxn
<1>19. CASE Finish(a) \/ Poison(a)
  BY <1>19 DEF Finish, Poison, Answer, Wins, TypeOK
<1> QED BY <1>3, <1>4, <1>5, <1>6, <1>7, <1>8, <1>9, <1>10, <1>11, <1>12, <1>13, <1>14, <1>15,
           <1>16, <1>17, <1>18, <1>19 DEF Step

\* An uncommitted write of a transaction is only ever discarded with the
\* transaction.
Loses(a) ==
  \A w \in pending :
    InClientTxn(w[1]) => w \in pending' \cup published' \/ Ended(Tid(w[1]))'

\* What is discarded from the hive of a's transaction is that transaction's.
LEMMA DiscardsOwn ==
  ASSUME TypeOK, Locks, Connections, Storage, NEW t \in Txns, conn[t] = "write", ~Poisoned(t),
         NEW w \in pending, w \in InHive(bound[t]), InClientTxn(w[1])
  PROVE  Tid(w[1]) = t
<1>1. Uncommitted(w) /\ w \in Writes /\ Owner(w[1]) = Tid(w[1]) BY PendingOwner
<1>2. w[2] = bound[t] BY <1>1, WriteParts
<1>3. writeConn[bound[t]] = t BY DEF Connections, Pins
<1> QED BY <1>1, <1>2, <1>3 DEF Uncommitted

\* A handler that has the connection itself finds none of a transaction's writes.
LEMMA LocalDiscards ==
  ASSUME TypeOK, Locks, Connections, Storage, NEW a \in Actors,
         pc[a] \in {"statement", "commit"}, Owner(a) = a,
         NEW w \in pending, w \in InHive(at[a])
  PROVE  ~InClientTxn(w[1])
<1>1. Uncommitted(w) /\ w \in Writes BY PendingOwner
<1>2. w[2] = at[a] BY <1>1, WriteParts
<1>3. writeConn[at[a]] = a BY DEF Connections, UsesConn
<1> QED BY <1>1, <1>2, <1>3, PendingOwner, ActorFacts DEF Uncommitted

LEMMA StatementFailsLoses ==
  ASSUME AutoRollback = FALSE, TypeOK, TypeOK', Locks, Connections, Storage, NEW a \in Actors,
         StatementFails(a)
  PROVE  Loses(a)
<1>1. Fits(a) /\ UsesConn(a) /\ pc[a] = "statement" BY DEF Locks, Connections, StatementFails
<1>2. PICK s \in Errors, ran \in RanUntilFailure(a), ended \in {FALSE, MayEndTransaction(a)} :
        /\ Settle(a, s)
        /\ pending' = IF ended \/ ~InClientTxn(a) THEN Discarded(at[a])
                      ELSE IF sqlTxn[at[a]] THEN pending \cup WritesOf(a, at[a], ran) ELSE pending
  BY DEF StatementFails
<1>3. CASE ~ended /\ InClientTxn(a) BY <1>2, <1>3 DEF Loses
<1>4. CASE ~InClientTxn(a)
  <2>1. Owner(a) = a BY <1>1, <1>4 DEF Owner, Fits
  <2> QED BY <1>1, <1>2, <1>4, <2>1, LocalDiscards DEF Loses, Discarded
<1>5. CASE ended /\ InClientTxn(a)
  <2>1. a \in late BY <1>2, <1>5 DEF MayEndTransaction
  <2>2. /\ Tid(a) \in Txns /\ InTxn(a) /\ opHolder[Tid(a)] = a
        /\ conn[Tid(a)] = "write" /\ bound[Tid(a)] = at[a]
    BY <1>1, <1>5, Own DEF UsesConn, InClientTxn, Holding, Places
  <2>3. UNCHANGED <<conn, call, late, opHolder>> /\ pc'[a] = "finish" /\ status'[a] # "OK"
    BY <1>2 DEF StatementFails, TypeOK, Errors
  <2>4. MustPoison(a)'
    BY <1>5, <2>1, <2>2, <2>3 DEF MustPoison, IsControl, InClientTxn, InTxn, Tid
  <2>5. Ended(Tid(a))' BY <2>2, <2>3, <2>4 DEF Ended, Doomed, Tid
  <2>6. ~Poisoned(Tid(a)) BY <1>1, <2>2 DEF Poisoned
  <2>7. \A w \in pending : InClientTxn(w[1]) /\ w \notin pending' => Tid(w[1]) = Tid(a)
    BY <1>2, <1>5, <2>2, <2>6, DiscardsOwn DEF Discarded
  <2>8. \A w \in pending : InClientTxn(w[1]) /\ w \notin pending' => Ended(Tid(w[1]))'
    BY <2>3, <2>5, <2>7 DEF Ended, Doomed, Tid
  <2> QED BY <2>8 DEF Loses
<1> QED BY <1>3, <1>4, <1>5

LEMMA StepLoses ==
  ASSUME AutoRollback = FALSE, TypeOK, TypeOK', Locks, Connections, Storage, Acks,
         NEW a \in Actors, Step(a), Acts(a)
  PROVE  Loses(a)
<1>1. /\ Fits(a) /\ UsesConn(a)
      /\ \A t \in Txns : opHolder[t] = a => Tid(a) = t /\ InTxn(a) /\ pc[a] \in Holding
      /\ InTxn(a) /\ pc[a] \in Holding => Tid(a) \in Txns /\ opHolder[Tid(a)] = a
  BY Own DEF Locks, Connections
<1>2. CASE pending \subseteq pending' \cup published' BY <1>2 DEF Loses
<1>3. CASE AdmitOperation(a) \/ OperationTimeout(a) \/ Start(a) \/ EnterGate(a) \/ GateTimeout(a)
  BY <1>2, <1>3 DEF AdmitOperation, OperationTimeout, Start, EnterGate, GateTimeout
<1>4. CASE RouteWrite(a) \/ Connect(a) \/ ConnectFails(a) \/ Checkpoint(a) \/ Statement(a)
  BY <1>2, <1>4 DEF RouteWrite, Connect, ConnectFails, Checkpoint, Statement
<1>5. CASE DecideCommit(a) \/ PublishMain(a) BY <1>2, <1>5 DEF DecideCommit, PublishMain
<1>6. CASE CommitDone(a) \/ LocalCommitDone(a) \/ NextHive(a)
  BY <1>2, <1>6 DEF CommitDone, LocalCommitDone, NextHive, PublishVolatile
<1>7. CASE RouteRead(a) \/ PinMain(a) \/ PinVolatile(a) \/ PinFails(a)
  BY <1>2, <1>7 DEF RouteRead, PinMain, PinVolatile, PinFails
<1>8. CASE ReadMain(a) \/ ReadVolatile(a) \/ ReadFails(a)
  BY <1>2, <1>8 DEF ReadMain, ReadVolatile, ReadFails
<1>9. CASE Unregister(a) \/ Finish(a) \/ Poison(a)
  BY <1>2, <1>9 DEF Unregister, Finish, Poison
<1>10. CASE StatementFails(a) BY <1>10, StatementFailsLoses
<1>11. CASE CommitFails(a)
  <2>1. pc[a] = "commit" BY <1>11 DEF CommitFails, CommitMayFail
  <2>2. CASE call[a].op = "commit" BY <1>2, <1>11, <2>2 DEF CommitFails
  <2>3. CASE call[a].op # "commit"
    <3>1. Owner(a) = a BY <1>1, <2>1, <2>3 DEF Fits, Owner
    <3> QED BY <1>11, <2>1, <3>1, LocalDiscards DEF CommitFails, Loses, Discarded
  <2> QED BY <2>2, <2>3
<1>12. CASE RollBack(a) \/ Interrupt(a)
  <2>1. GiveBack(Tid(a)) BY <1>12 DEF RollBack, Interrupt
  <2>2. CASE conn[Tid(a)] # "write" BY <1>2, <2>1, <2>2 DEF GiveBack
  <2>3. CASE conn[Tid(a)] = "write"
    <3>1. InTxn(a) /\ pc[a] \in {"rollback", "finish"}
      BY <1>1, <1>12 DEF RollBack, Interrupt, MustPoison, Fits, IsControl
    <3>2. Tid(a) \in Txns /\ opHolder[Tid(a)] = a /\ call' = call
      BY <1>1, <1>12, <3>1 DEF Holding, Places, RollBack, Interrupt
    <3>3. ~Poisoned(Tid(a)) BY <3>1, <3>2 DEF Poisoned
    <3>4. \A w \in pending : InClientTxn(w[1]) /\ w \notin pending' => Tid(w[1]) = Tid(a)
      BY <2>1, <2>3, <3>2, <3>3, DiscardsOwn DEF GiveBack, Discarded
    <3>5. Ended(Tid(a))'
      <4>1. CASE RollBack(a)
        <5>1. Tid(a) \in begun /\ Tid(a) \notin registered
          BY <3>1, <4>1 DEF RollBack, Acks, Locks, HoldsLocks
        <5> QED BY <3>2, <4>1, <5>1 DEF RollBack, Ended, Tid
      <4>2. CASE Interrupt(a)
        <5>1. opHolder' = opHolder /\ pc'[a] = "poisoning" BY <4>2 DEF Interrupt, TypeOK
        <5> QED BY <3>2, <5>1 DEF Ended, Doomed, Tid
      <4> QED BY <1>12, <4>1, <4>2
    <3> QED BY <3>2, <3>4, <3>5 DEF Loses, Ended, Doomed, Tid
  <2> QED BY <2>2, <2>3
<1> QED BY <1>3, <1>4, <1>5, <1>6, <1>7, <1>8, <1>9, <1>10, <1>11, <1>12 DEF Step

LEMMA StepKeepsAcks ==
  ASSUME TypeOK, TypeOK', Locks, Connections, Storage, Acks, NEW a \in Actors, Step(a), Acts(a),
         published \subseteq published', Wins(a), Loses(a), NEW t \in Txns
  PROVE  Kept(t)'
<1>1. call' = call BY StepKeepsCall
<1>2. /\ begun' = begun /\ registered' \subseteq registered
      /\ \A u \in Txns : Ended(u) => Ended(u)'
  BY StepEnds
<1>3. Kept(t) BY DEF Acks
<1>4. ASSUME NEW r \in Requests, status'[r] = "OK", status[r] # "OK" PROVE r = a
  BY <1>4, ActorFacts DEF Acts
\* A commit of t that succeeds now finds and publishes all of its writes.
<1>5. CASE ~Succeeded(t) /\ Succeeded(t)'
  <2>1. PICK c \in Requests : call[c].op = "commit" /\ Tid(c) = t /\ status'[c] = "OK"
    BY <1>1, <1>5 DEF Succeeded, Tid
  <2>2. status[c] # "OK" BY <1>5, <2>1 DEF Succeeded
  <2>3. c = a BY <1>4, <2>1, <2>2
  <2>4. Completes(a) BY <2>1, <2>2, <2>3 DEF Wins, InClientTxn
  <2>5. ASSUME NEW r \in Requests, WroteIn(r, t)' PROVE Wrote(r)' \subseteq published'
    <3>1. r # a BY <1>1, <2>1, <2>3, <2>5 DEF WroteIn, InClientTxn
    <3>2. WroteIn(r, t) BY <1>1, <1>4, <2>5, <3>1 DEF WroteIn, InClientTxn, InTxn, Tid
    <3>3. Wrote(r) \subseteq pending \cup published
      BY <1>3, <1>5, <2>1, <2>3, <2>4, <3>2 DEF Kept, Completes
    <3>4. \A w \in Wrote(r) : w[1] = r BY DEF Wrote, WritesOf
    <3>5. \A w \in Wrote(r) : w \in published'
      BY <2>1, <2>3, <2>4, <3>2, <3>3, <3>4 DEF Completes, WroteIn
    <3> QED BY <1>1, <3>5 DEF Wrote
  <2>6. t \in begun' /\ t \notin registered'
    BY <1>2, <2>1, <2>3, <2>4 DEF Completes, TypeOK
  <2> QED BY <1>5, <2>5, <2>6 DEF Kept
\* One that has succeeded admits no further write.
<1>6. CASE Succeeded(t)
  <2>1. t \in begun' /\ t \notin registered' BY <1>2, <1>3, <1>6 DEF Kept
  <2>2. ASSUME NEW r \in Requests, WroteIn(r, t)' PROVE Wrote(r)' \subseteq published'
    <3>1. WroteIn(r, t)
      <4>1. InClientTxn(r) /\ Tid(r) = t /\ status'[r] = "OK"
        BY <1>1, <2>2 DEF WroteIn, InClientTxn, InTxn, Tid
      <4>2. CASE status[r] # "OK"
        <5>1. r = a BY <1>4, <4>1, <4>2
        <5>2. Tid(a) \in registered BY <4>1, <4>2, <5>1 DEF Wins, InClientTxn
        <5> QED BY <1>3, <1>6, <4>1, <5>1, <5>2 DEF Kept
      <4> QED BY <4>1, <4>2 DEF WroteIn
    <3> QED BY <1>1, <1>3, <1>6, <3>1 DEF Kept, Wrote
  <2>3. Succeeded(t)'
    <3> PICK c \in Requests : call[c].op = "commit" /\ Tid(c) = t /\ status[c] = "OK"
      BY <1>6 DEF Succeeded
    <3>1. CASE c # a BY <1>1, <3>1, ActorFacts DEF Acts, Succeeded, Tid
    <3>2. CASE c = a
      <4>1. pc[a] = "finish" BY <3>2, StepKeepsCall DEF Storage, CommitsOpen
      <4>2. Finish(a)
        BY <3>2, <4>1, LastSteps DEF Interrupt, MustPoison, Poison
      <4>3. status'[a] = "OK" BY <3>2, <4>2 DEF Finish, Answer, IsControl, TypeOK
      <4> QED BY <1>1, <3>2, <4>3 DEF Succeeded, Tid
    <3> QED BY <3>1, <3>2
  <2> QED BY <2>1, <2>2, <2>3 DEF Kept
\* Until then a write is lost only with the transaction.
<1>7. CASE ~Succeeded(t)' /\ ~Succeeded(t)
  <2> SUFFICES ASSUME ~Ended(t)', NEW r \in Requests, WroteIn(r, t)'
               PROVE  Wrote(r)' \subseteq pending' \cup published'
    BY <1>7 DEF Kept
  <2>1. InClientTxn(r) /\ Tid(r) = t /\ status'[r] = "OK"
    BY <1>1 DEF WroteIn, InClientTxn, InTxn, Tid
  <2>2. CASE status[r] # "OK"
    <3>1. r = a BY <1>4, <2>1, <2>2
    <3> QED BY <1>1, <2>1, <2>2, <3>1 DEF Wins, Wrote, InClientTxn
  <2>3. CASE status[r] = "OK"
    <3>1. Wrote(r) \subseteq pending \cup published
      BY <1>2, <1>3, <1>7, <2>1, <2>3 DEF Kept, WroteIn
    <3>2. \A w \in Wrote(r) : w[1] = r BY DEF Wrote, WritesOf
    <3>3. \A w \in Wrote(r) : w \in pending' \cup published'
      BY <1>1, <2>1, <3>1, <3>2 DEF Loses, Ended, Doomed, Tid
    <3> QED BY <1>1, <3>3 DEF Wrote
  <2> QED BY <2>2, <2>3
<1> QED BY <1>5, <1>6, <1>7

LEMMA OutsideKeepsEnded ==
  ASSUME TypeOK, Locks, Outside, NEW t \in Txns
  PROVE  Ended(t) => Ended(t)'
<1>1. ASSUME Doomed(t) PROVE Doomed(t)'
  <2> PICK b \in Actors : b = opHolder[t] BY <1>1 DEF Doomed
  <2>1. pc[b] \in {"finish", "poisoning"} BY <1>1 DEF Doomed
  <2>2. UNCHANGED <<pc[b], call[b], status[b], opHolder, conn>> /\ late \subseteq late'
    BY <2>1 DEF Outside
  <2> QED BY <1>1, <2>2 DEF Doomed, MustPoison, IsControl, InTxn, Tid
<1> QED BY <1>1 DEF Ended, Outside

LEMMA AcksNext ==
  ASSUME AutoRollback = FALSE, Typed, Locks, Connections, Storage, Acks,
         [Next /\ UNCHANGED scenario]_<<vars, scenario>>
  PROVE  Acks'
<1>1. TypeOK /\ TypeOK' BY LocksNext DEF Typed
<1>2. CASE \E a \in Actors : Step(a)
  <2>1. PICK a \in Actors : Step(a) BY <1>2
  <2>2. Acts(a) /\ Spares(a) BY <1>1, <2>1, StepLocks, StepConn
  <2>3. \A t \in Txns : Kept(t)'
    BY <1>1, <2>1, <2>2, StepWins, StepLoses, StepKeepsAcks DEF Spares
  <2>4. ASSUME NEW b \in Actors, pc'[b] = "rollback" PROVE Tid(b)' \notin registered'
    <3>1. call' = call BY <2>1, StepKeepsCall
    <3>2. registered' \subseteq registered /\ (pc'[a] = "rollback" => Tid(a) \notin registered')
      BY <1>1, <2>1, <2>2, StepEnds
    <3>3. b # a => pc[b] = "rollback" BY <2>2, <2>4 DEF Acts
    <3> QED BY <2>4, <3>1, <3>2, <3>3 DEF Acks, Tid
  <2> QED BY <2>3, <2>4 DEF Acks
<1>3. CASE Outside
  <2>1. ASSUME NEW a \in Actors, pc'[a] = "rollback" PROVE Tid(a)' \notin registered'
    <3>1. pc[a] = "rollback" /\ call'[a] = call[a] BY <1>3, <2>1 DEF Outside
    <3>2. Tid(a) \in begun /\ Tid(a) \notin registered
      BY <3>1 DEF Locks, HoldsLocks, Fits, IsControl, Acks
    <3> QED BY <1>3, <3>1, <3>2 DEF Outside, Tid
  <2>2. ASSUME NEW t \in Txns PROVE Kept(t)'
    <3>1. Kept(t) /\ (Ended(t) => Ended(t)') BY <1>1, <1>3, <2>2, OutsideKeepsEnded DEF Acks
    <3>2. \A r \in Requests : pc[r] = "idle" => status[r] # "OK" BY ActorFacts DEF Locks, Fits
    <3>3. ASSUME NEW r \in Requests, WroteIn(r, t)'
          PROVE  WroteIn(r, t) /\ Wrote(r)' = Wrote(r)
      <4>1. ~Sent(r) BY <3>3 DEF Sent, WroteIn, InClientTxn
      <4>2. UNCHANGED <<pc[r], call[r], status[r]>> BY <1>3, <4>1 DEF Outside
      <4> QED BY <3>3, <4>2 DEF WroteIn, Wrote, InClientTxn, InTxn, Tid
    <3>4. Succeeded(t)' <=> Succeeded(t)
      BY <1>3, <3>2 DEF Outside, Sent, Succeeded, Tid
    <3>5. UNCHANGED <<pending, published>> /\ begun \subseteq begun'
          /\ (t \in begun => (t \in registered' <=> t \in registered))
      BY <1>3 DEF Outside
    <3> QED BY <3>1, <3>3, <3>4, <3>5 DEF Kept
  <2> QED BY <2>1, <2>2 DEF Acks
<1> QED BY <1>2, <1>3, StepOrOutside

\* What a request reported written in a transaction is there when its COMMIT
\* succeeds, or the transaction has ended and no COMMIT of it does.
THEOREM AcksInvariant ==
  ASSUME AutoRollback = FALSE
  PROVE  Spec => []Acks
<1>1. Init => Acks BY ActorFacts DEF Init, Acks, Kept, Succeeded, WroteIn
<1>2. /\ Typed /\ Locks /\ Connections /\ Storage /\ Acks
      /\ [Next /\ UNCHANGED scenario]_<<vars, scenario>>
      => Acks'
  BY AcksNext
<1> QED BY <1>1, <1>2, LocksInvariant, ConnInvariant, StorageInvariant, PTL DEF Spec

\* An acknowledged write of a transaction whose COMMIT was acknowledged is visible
\* in every store it touched (commitConn, failInterrupted, finishRequest).
THEOREM AcknowledgedWritesSurvive ==
  ASSUME AutoRollback = FALSE
  PROVE  Spec => []AcknowledgedIsVisible
<1>1. Typed /\ Acks => AcknowledgedIsVisible
  <2> SUFFICES ASSUME Typed, Acks, NEW r \in Requests, NEW c \in Requests,
                      InClientTxn(r), status[r] = "OK",
                      call[c].op = "commit", Tid(c) = Tid(r), status[c] = "OK"
               PROVE  Wrote(r) \subseteq published
    BY DEF AcknowledgedIsVisible, Wrote
  <2>1. Tid(r) \in Txns
    BY ActorFacts DEF Typed, TypeOK, Call, InClientTxn, InTxn, Tid
  <2>2. Succeeded(Tid(r)) /\ WroteIn(r, Tid(r)) BY DEF Succeeded, WroteIn
  <2> QED BY <2>1, <2>2 DEF Acks, Kept
<1> QED BY <1>1, LocksInvariant, AcksInvariant, PTL

-----------------------------------------------------------------------------
(* Read-only transactions.                                                 *)

\* r has read in t, and will answer so.
ReadIn(r, t) == IsRead(r) /\ Tid(r) = t /\ status[r] = "OK"

\* A snapshot is of the hive the transaction is bound to, and stays as it is
\* until the transaction has ended.  While main is pinned and volatile is not it
\* is of main only, and so is what a read has seen between the two.
SameView(t) ==
  /\ \A r \in Requests : ReadIn(r, t) => t \in begun
  /\ t \in readOnly =>
       /\ \A r, q \in Requests : ReadIn(r, t) /\ ReadIn(q, t) => seen[r] = seen[q]
       /\ ~Ended(t) =>
            \A r \in Requests : ReadIn(r, t) => conn[t] = "snapshot" /\ seen[r] = snap[t]
       /\ conn[t] = "snapshot" => snap[t] \subseteq InHive(bound[t])
       /\ \A r \in Requests : Tid(r) = t =>
            /\ pc[r] = "reading2" => seen[r] = snap[t] \cap In(at[r], "main")
            /\ pc[r] = "pinning" => snap[t] \subseteq In(at[r], "main")

Snaps ==
  /\ \A t \in Txns : SameView(t)
  /\ \A a \in Actors : pc[a] = "rollback" => Tid(a) \notin registered
  /\ \A r \in Requests : status[r] = "OK" => pc[r] \in {"finish", "answered"}

LEMMA OperationSteps ==
  ASSUME NEW a \in Actors, Step(a), pc[a] = "operation"
  PROVE  AdmitOperation(a) \/ OperationTimeout(a)
BY DEF Step, Start, StartMutation, StartRead, StartDeleteLayer,
       StartCommit, StartAbort, EnterGate, GateTimeout, RouteWrite, Connect, ConnectFails,
       Checkpoint, Statement, StatementFails, DecideCommit, CommitFails, CommitMayFail,
       PublishMain, CommitDone, LocalCommitDone, NextHive, PublishVolatile, RouteRead, PinMain,
       PinVolatile, PinFails, ReadMain, ReadVolatile, ReadFails, Unregister, RollBack,
       Finish, Interrupt, Poison

\* Success is the last thing a handler settles on, and a read's is its second half's.
LEMMA StepReports ==
  ASSUME TypeOK, NEW a \in Actors, Step(a), Fits(a), status[a] = "OK" => pc[a] \in {"finish", "answered"},
         status'[a] = "OK"
  PROVE  /\ pc'[a] \in {"finish", "answered"}
         /\ IsRead(a) /\ status[a] # "OK" => ReadVolatile(a)
<1>2. CASE AdmitOperation(a) \/ OperationTimeout(a) \/ GateTimeout(a) \/ EnterGate(a)
  BY <1>2 DEF AdmitOperation, OperationTimeout, EnterGate, GateTimeout, TypeOK, IsRead
<1>3. CASE Start(a)
  BY <1>3 DEF Start, StartMutation, StartRead, StartDeleteLayer, StartCommit, StartAbort, TypeOK
<1>4. CASE RouteWrite(a) \/ Connect(a)
  BY <1>4 DEF RouteWrite, DeclineBusy, Connect, TypeOK
<1>5. CASE ConnectFails(a) BY <1>5 DEF ConnectFails, Errors, TypeOK
<1>6. CASE Checkpoint(a) BY <1>6 DEF Checkpoint, IsRead, TypeOK
<1>7. CASE Statement(a) BY <1>7 DEF Statement, Fits, IsRead, TypeOK
<1>8. CASE StatementFails(a) BY <1>8 DEF StatementFails, Errors, TypeOK
<1>9. CASE DecideCommit(a) BY <1>9 DEF DecideCommit, IsRead, TypeOK
<1>10. CASE CommitFails(a) BY <1>10 DEF CommitFails, CommitMayFail, Errors, TypeOK
<1>11. CASE PublishMain(a) BY <1>11 DEF PublishMain, TypeOK
<1>12. CASE CommitDone(a) \/ LocalCommitDone(a)
  BY <1>12 DEF CommitDone, LocalCommitDone, PublishVolatile, Fits, IsRead, TypeOK
<1>13. CASE NextHive(a) BY <1>13 DEF NextHive, PublishVolatile, TypeOK
<1>14. CASE RouteRead(a) \/ PinMain(a) \/ PinVolatile(a) \/ ReadMain(a)
  BY <1>14 DEF RouteRead, PinMain, PinVolatile, ReadMain, TypeOK
<1>15. CASE PinFails(a) BY <1>15 DEF PinFails, Errors, TypeOK
<1>16. CASE ReadFails(a) BY <1>16 DEF ReadFails, Errors, TypeOK
<1>17. CASE ReadVolatile(a) BY <1>17 DEF ReadVolatile, TypeOK
<1>18. CASE Unregister(a) BY <1>18 DEF Unregister, TypeOK
<1>19. CASE RollBack(a) BY <1>19 DEF RollBack, Fits, IsRead, TypeOK
<1>20. CASE Finish(a) BY <1>20 DEF Finish, Answer, TypeOK
<1>21. CASE Interrupt(a) BY <1>21 DEF Interrupt, MustPoison, TypeOK
<1>22. CASE Poison(a) BY <1>22 DEF Poison, Answer, TypeOK
<1> QED BY <1>2, <1>3, <1>4, <1>5, <1>6, <1>7, <1>8, <1>9, <1>10, <1>11, <1>12, <1>13, <1>14,
           <1>15, <1>16, <1>17, <1>18, <1>19, <1>20, <1>21, <1>22 DEF Step

\* The steps that touch what reads see.
LEMMA ViewSteps ==
  ASSUME TypeOK, Locks, NEW a \in Actors, Step(a)
  PROVE  \/ UNCHANGED <<seen, snap, conn, bound>> /\ pc'[a] \notin {"reading2", "pinning"}
         \/ Connect(a) /\ InClientTxn(a)
         \/ PinMain(a) \/ PinVolatile(a) \/ PinFails(a) \/ ReadMain(a) \/ ReadVolatile(a)
         \/ DecideCommit(a) \/ CommitDone(a) \/ RollBack(a) \/ Interrupt(a) \/ Poison(a)
<1>2. CASE AdmitOperation(a) \/ OperationTimeout(a) \/ GateTimeout(a) \/ EnterGate(a)
  BY <1>2 DEF AdmitOperation, OperationTimeout, EnterGate, GateTimeout, TypeOK
<1>3. CASE Start(a)
  BY <1>3 DEF Start, StartMutation, StartRead, StartDeleteLayer, StartCommit, StartAbort, TypeOK
<1>4. CASE RouteWrite(a) \/ Connect(a)
  BY <1>4 DEF RouteWrite, DeclineBusy, Connect, TypeOK
<1>5. CASE ConnectFails(a) \/ Checkpoint(a) BY <1>5 DEF ConnectFails, Checkpoint, TypeOK
<1>7. CASE Statement(a) \/ StatementFails(a) BY <1>7 DEF Statement, StatementFails, TypeOK
<1>10. CASE CommitFails(a) \/ PublishMain(a) BY <1>10 DEF CommitFails, PublishMain, TypeOK
<1>12. CASE LocalCommitDone(a) \/ NextHive(a)
  BY <1>12 DEF NextHive, LocalCommitDone, PublishVolatile, TypeOK
<1>14. CASE RouteRead(a) \/ ReadFails(a) \/ Unregister(a)
  BY <1>14 DEF RouteRead, ReadFails, Unregister, TypeOK
<1>20. CASE Finish(a) BY <1>20 DEF Finish, Answer, TypeOK
<1> QED BY <1>2, <1>3, <1>4, <1>5, <1>7, <1>10, <1>12, <1>14, <1>20 DEF Step

\* What a step does not touch, or touches only as the transaction ends.
LEMMA ViewKept ==
  ASSUME Snaps, call' = call, begun' = begun, readOnly' = readOnly, NEW t \in Txns,
         \A r \in Requests : Tid(r) = t =>
           /\ IsRead(r) /\ status'[r] = "OK" => status[r] = "OK" /\ seen'[r] = seen[r]
           /\ pc'[r] \in {"reading2", "pinning"} =>
                pc[r] = pc'[r] /\ at'[r] = at[r] /\ seen'[r] = seen[r],
         \/ /\ conn'[t] = conn[t] /\ bound'[t] = bound[t] /\ snap'[t] = snap[t]
            /\ Ended(t) => Ended(t)'
         \/ /\ Ended(t)' /\ (conn'[t] = "snapshot" => snap'[t] = {})
            /\ \A r \in Requests : Tid(r) = t => pc'[r] \notin {"reading2", "pinning"}
  PROVE  SameView(t)'
<1>1. \A r \in Requests : ReadIn(r, t)' => ReadIn(r, t) /\ seen'[r] = seen[r]
  BY DEF ReadIn, IsRead, Tid
<1>2. \A r \in Requests : Tid(r)' = t => Tid(r) = t BY DEF Tid
<1>3. SameView(t) BY DEF Snaps
<1>4. (\A r \in Requests : ReadIn(r, t) => t \in begun)' BY <1>1, <1>3 DEF SameView
<1> SUFFICES ASSUME t \in readOnly
             PROVE  /\ (\A r, q \in Requests : ReadIn(r, t) /\ ReadIn(q, t) => seen[r] = seen[q])'
                    /\ (~Ended(t) => \A r \in Requests :
                          ReadIn(r, t) => conn[t] = "snapshot" /\ seen[r] = snap[t])'
                    /\ (conn[t] = "snapshot" => snap[t] \subseteq InHive(bound[t]))'
                    /\ (\A r \in Requests : Tid(r) = t =>
                          /\ pc[r] = "reading2" => seen[r] = snap[t] \cap In(at[r], "main")
                          /\ pc[r] = "pinning" => snap[t] \subseteq In(at[r], "main"))'
  BY <1>4 DEF SameView
<1>5. (\A r, q \in Requests : ReadIn(r, t) /\ ReadIn(q, t) => seen[r] = seen[q])'
  BY <1>1, <1>3 DEF SameView
<1>6. (~Ended(t) => \A r \in Requests : ReadIn(r, t) => conn[t] = "snapshot" /\ seen[r] = snap[t])'
  BY <1>1, <1>3 DEF SameView
<1>7. (conn[t] = "snapshot" => snap[t] \subseteq InHive(bound[t]))'
  BY <1>3 DEF SameView, InHive
<1>8. (\A r \in Requests : Tid(r) = t =>
          /\ pc[r] = "reading2" => seen[r] = snap[t] \cap In(at[r], "main")
          /\ pc[r] = "pinning" => snap[t] \subseteq In(at[r], "main"))'
  BY <1>2, <1>3 DEF SameView, In
<1> QED BY <1>5, <1>6, <1>7, <1>8

LEMMA OthersKeepView ==
  ASSUME TypeOK, Locks, Connections, Snaps, NEW a \in Actors, Step(a), Acts(a),
         NEW t \in Txns, opHolder[t] # a
  PROVE  SameView(t)'
<1>1. call' = call /\ begun' = begun /\ readOnly' = readOnly BY StepKeepsCall DEF Acts
<1>2. ASSUME NEW r \in Requests, Tid(r) = t
      PROVE  /\ IsRead(r) /\ status'[r] = "OK" => status[r] = "OK" /\ seen'[r] = seen[r]
             /\ pc'[r] \in {"reading2", "pinning"} =>
                  pc[r] = pc'[r] /\ at'[r] = at[r] /\ seen'[r] = seen[r]
  <2>1. CASE r # a BY <2>1, ActorFacts DEF Acts
  <2>2. CASE r = a
    <3>1. InTxn(a) BY <1>2, <2>2, ActorFacts DEF InTxn
    <3>2. pc[a] \notin Holding BY <1>2, <2>2, <3>1, Own
    <3>3. pc[a] = "operation" BY <3>2, StepKeepsCall DEF Holding, TypeOK
    <3>4. AdmitOperation(a) \/ OperationTimeout(a) BY <3>3, OperationSteps
    <3> QED BY <2>2, <3>4 DEF AdmitOperation, OperationTimeout, IsRead, TypeOK
  <2> QED BY <2>1, <2>2
<1>3. conn'[t] = conn[t] /\ bound'[t] = bound[t] /\ snap'[t] = snap[t] BY DEF Acts
<1>4. Ended(t) => Ended(t)' BY StepEnds
<1> QED BY <1>1, <1>2, <1>3, <1>4, ViewKept

LEMMA HolderKeepsView ==
  ASSUME TypeOK, TypeOK', Locks, Connections, Snaps, NEW a \in Actors, Step(a), Acts(a),
         NEW t \in Txns, opHolder[t] = a
  PROVE  SameView(t)'
<1>1. call' = call /\ begun' = begun /\ readOnly' = readOnly BY StepKeepsCall DEF Acts
<1>2. /\ Fits(a) /\ UsesConn(a) /\ Tid(a) = t /\ InTxn(a) /\ pc[a] \in Holding
      /\ Tid(a) \in begun
  BY Own DEF Locks, HoldsLocks, Connections, Holding
<1>3. ASSUME NEW r \in Requests, r # a
      PROVE  /\ pc'[r] = pc[r] /\ at'[r] = at[r] /\ seen'[r] = seen[r] /\ status'[r] = status[r]
             /\ Tid(r) = t => pc[r] \notin Holding
  <2>1. r \in Actors BY ActorFacts
  <2>2. Tid(r) = t => InTxn(r) BY ActorFacts DEF InTxn
  <2>3. Tid(r) = t => pc[r] \notin Holding BY <1>3, <2>1, <2>2, Own
  <2> QED BY <1>3, <2>1, <2>3 DEF Acts
<1>4. (Ended(t) => Ended(t)') /\ SameView(t) BY StepEnds DEF Snaps
<1>5. a \in Requests => (status[a] = "OK" => pc[a] \in {"finish", "answered"}) BY DEF Snaps
<1>6. a \in Requests /\ IsRead(a) /\ status'[a] = "OK" => status[a] = "OK" \/ ReadVolatile(a)
  BY <1>2, <1>5, StepReports
<1>7. IsRead(a) => a \in Requests BY <1>2 DEF Fits, IsRead
<1>8. CASE t \notin readOnly
  <2> SUFFICES ASSUME NEW r \in Requests, ReadIn(r, t)' PROVE t \in begun'
    BY <1>1, <1>8 DEF SameView
  <2>1. Tid(r) = t BY <1>1 DEF ReadIn, Tid
  <2> QED BY <1>1, <1>2
<1>9. ASSUME ~ReadVolatile(a), seen' = seen, pc'[a] \notin {"reading2", "pinning"},
             \/ UNCHANGED <<conn, bound, snap>>
             \/ Ended(t)' /\ (conn'[t] = "snapshot" => snap'[t] = {})
      PROVE  SameView(t)'
  <2>1. \A r \in Requests : Tid(r) = t =>
          /\ IsRead(r) /\ status'[r] = "OK" => status[r] = "OK" /\ seen'[r] = seen[r]
          /\ pc'[r] \notin {"reading2", "pinning"}
    BY <1>3, <1>6, <1>9 DEF Holding, Places
  <2> QED BY <1>1, <1>4, <1>9, <2>1, ViewKept
<1>10. CASE UNCHANGED <<seen, snap, conn, bound>> /\ pc'[a] \notin {"reading2", "pinning"}
            /\ ~ReadVolatile(a)
  BY <1>9, <1>10
<1>11. CASE Connect(a) /\ InClientTxn(a)
  BY <1>2, <1>8, <1>11 DEF Connect, UsesConn, Writing
<1>12. CASE CommitDone(a)
  <2>1. conn[t] = "write" BY <1>2, <1>12 DEF CommitDone, PublishVolatile, UsesConn
  <2> QED BY <1>8, <2>1 DEF Connections, Pins
<1>13. CASE DecideCommit(a)
  <2>1. pc[a] = "routing" /\ seen' = seen /\ pc'[a] \notin {"reading2", "pinning"} /\ bound' = bound
    BY <1>13 DEF DecideCommit, TypeOK
  <2>2. UNCHANGED <<conn, snap>> \/ (t \notin registered' /\ conn'[t] = "none")
    BY <1>2, <1>13 DEF DecideCommit, TypeOK
  <2> QED BY <1>1, <1>2, <1>9, <2>1, <2>2 DEF Ended, ReadVolatile
<1>14. CASE RollBack(a)
  <2>1. t \notin registered BY <1>2, <1>14 DEF RollBack, Snaps
  <2>2. /\ seen' = seen /\ pc'[a] = "finish" /\ conn'[t] = "none" /\ registered' = registered
        /\ pc[a] = "rollback"
    BY <1>2, <1>14 DEF RollBack, TypeOK
  <2> QED BY <1>1, <1>2, <1>9, <2>1, <2>2 DEF Ended, ReadVolatile
<1>15. CASE Interrupt(a)
  <2>1. /\ pc[a] = "finish" /\ pc'[a] = "poisoning" /\ opHolder' = opHolder /\ seen' = seen
        /\ snap'[t] = {}
    BY <1>2, <1>15 DEF Interrupt, GiveBack, TypeOK
  <2>2. Ended(t)' BY <2>1 DEF Ended, Doomed
  <2> QED BY <1>9, <2>1, <2>2 DEF ReadVolatile
<1>16. CASE Poison(a)
  <2>1. pc[a] = "poisoning" /\ pc'[a] = "answered" /\ seen' = seen /\ t \in failed' /\ conn'[t] = "none"
    BY <1>2, <1>16 DEF Poison, Answer, TypeOK
  <2> QED BY <1>9, <2>1 DEF Ended, ReadVolatile
\* The transaction has not ended while its reader is at work.
<1>17. ASSUME pc[a] \in {"pin", "pinning", "reading", "reading2"}
       PROVE  ~Ended(t) /\ a \in Requests /\ IsRead(a) /\ status[a] # "OK"
  <2>1. IsRead(a) /\ a \in Requests BY <1>2, <1>7, <1>17 DEF Fits
  <2>2. Works(a) BY <1>2, <1>17 DEF Works, Holding, Places
  <2>3. t \in registered /\ t \notin failed BY <1>2, <1>17, <2>2 DEF UsesConn
  <2>4. ~Doomed(t) BY <1>17 DEF Doomed
  <2> QED BY <1>5, <1>17, <2>1, <2>3, <2>4 DEF Ended
\* Before it has pinned a snapshot it has read nothing.
<1>18. CASE t \in readOnly /\ (PinMain(a) \/ PinVolatile(a) \/ PinFails(a))
  <2>1. pc[a] \in {"pin", "pinning"} BY <1>18 DEF PinMain, PinVolatile, PinFails
  <2>2. conn[t] = "none" BY <1>2, <2>1 DEF UsesConn
  <2>3. \A r \in Requests : ~ReadIn(r, t) BY <1>4, <1>17, <1>18, <2>1, <2>2 DEF SameView
  <2>4. status'[a] # "OK"
    <3>1. CASE PinMain(a) \/ PinVolatile(a) BY <1>17, <2>1, <3>1 DEF PinMain, PinVolatile
    <3>2. CASE PinFails(a) BY <3>2 DEF PinFails, Errors, TypeOK
    <3> QED BY <1>18, <3>1, <3>2
  <2>5. \A r \in Requests : ~ReadIn(r, t)'
    BY <1>1, <1>3, <2>3, <2>4 DEF ReadIn, IsRead, Tid
  <2>6. \A r \in Requests : Tid(r)' = t /\ r # a => pc'[r] \notin {"reading2", "pinning"}
    BY <1>1, <1>3 DEF Tid, Holding, Places
  <2>7. pc'[a] # "reading2" BY <1>18 DEF PinMain, PinVolatile, PinFails, TypeOK
  <2>8. ASSUME pc'[a] = "pinning" PROVE conn'[t] = "none" /\ snap'[t] \subseteq In(at'[a], "main")
    <3>1. PinMain(a) BY <1>18, <2>8 DEF PinVolatile, PinFails, TypeOK
    <3> QED BY <1>2, <2>2, <3>1 DEF PinMain, TypeOK
  <2>9. ASSUME conn'[t] = "snapshot" PROVE snap'[t] \subseteq InHive(bound'[t])
    <3>1. PinVolatile(a) BY <1>18, <2>2, <2>9 DEF PinMain, PinFails
    <3>2. snap[t] \subseteq In(at[a], "main")
      BY <1>2, <1>4, <1>17, <1>18, <2>1, <3>1 DEF SameView, PinVolatile
    <3>3. snap'[t] = snap[t] \cup (published \cap In(at[a], "volatile")) /\ bound'[t] = at[a]
      BY <1>2, <3>1 DEF PinVolatile, TypeOK
    <3> QED BY <3>2, <3>3 DEF In, InHive, Stores
  <2> QED BY <1>18, <2>5, <2>6, <2>7, <2>8, <2>9 DEF SameView
\* Then it reads only that.
<1>19. CASE t \in readOnly /\ (ReadMain(a) \/ ReadVolatile(a))
  <2>1. pc[a] \in {"reading", "reading2"} /\ UNCHANGED <<conn, snap, bound, at>>
    BY <1>19 DEF ReadMain, ReadVolatile
  <2>2. conn[t] = "snapshot" /\ bound[t] = at[a]
    BY <1>2, <1>19, <2>1 DEF UsesConn, Connections, Pins, TypeOK
  <2>3. View(a) = snap[t] BY <1>2, <2>2 DEF View
  <2>4. ~Ended(t) /\ a \in Requests /\ IsRead(a) /\ status[a] # "OK" BY <1>17, <2>1
  <2>5. \A r \in Requests : ReadIn(r, t) => seen[r] = snap[t] BY <1>4, <1>19, <2>4 DEF SameView
  <2>6. snap[t] \subseteq InHive(at[a]) BY <1>4, <1>19, <2>2 DEF SameView
  <2>7. ASSUME NEW r \in Requests, ReadIn(r, t)' PROVE seen'[r] = snap[t]
    <3>1. CASE r # a
      <4>1. ReadIn(r, t) BY <1>1, <1>3, <2>7, <3>1 DEF ReadIn, IsRead, Tid
      <4> QED BY <1>3, <2>5, <3>1, <4>1
    <3>2. CASE r = a
      <4>1. ReadVolatile(a) BY <1>6, <2>4, <2>7, <3>2 DEF ReadIn
      <4>2. seen[a] = snap[t] \cap In(at[a], "main")
        BY <1>2, <1>4, <1>19, <2>4, <4>1 DEF SameView, ReadVolatile
      <4>3. seen'[a] = seen[a] \cup (snap[t] \cap In(at[a], "volatile"))
        BY <2>3, <4>1 DEF ReadVolatile, TypeOK
      <4> QED BY <2>6, <3>2, <4>2, <4>3 DEF In, InHive, Stores
    <3> QED BY <3>1, <3>2
  <2>8. ASSUME NEW r \in Requests, Tid(r)' = t, pc'[r] = "reading2"
        PROVE  seen'[r] = snap[t] \cap In(at[r], "main")
    <3>1. r = a BY <1>1, <1>3, <2>8 DEF Tid, Holding, Places
    <3>2. ReadMain(a) BY <1>19, <2>8, <3>1 DEF ReadVolatile, TypeOK
    <3> QED BY <2>3, <3>1, <3>2 DEF ReadMain, TypeOK
  <2>9. \A r \in Requests : Tid(r)' = t => pc'[r] # "pinning"
    BY <1>1, <1>3, <1>19 DEF Tid, Holding, Places, ReadMain, ReadVolatile, TypeOK
  <2>10. snap[t] \subseteq InHive(bound[t]) BY <2>2, <2>6
  <2>11. \A r \in Requests : ReadIn(r, t)' => t \in begun' BY <1>1, <1>2
  <2>12. (\A r, q \in Requests : ReadIn(r, t) /\ ReadIn(q, t) => seen[r] = seen[q])' BY <2>7
  <2>13. (~Ended(t) => \A r \in Requests : ReadIn(r, t) => conn[t] = "snapshot" /\ seen[r] = snap[t])'
    BY <2>1, <2>2, <2>7
  <2>14. (conn[t] = "snapshot" => snap[t] \subseteq InHive(bound[t]))' BY <2>1, <2>10 DEF InHive
  <2>15. (\A r \in Requests : Tid(r) = t =>
            /\ pc[r] = "reading2" => seen[r] = snap[t] \cap In(at[r], "main")
            /\ pc[r] = "pinning" => snap[t] \subseteq In(at[r], "main"))'
    BY <2>1, <2>8, <2>9 DEF In
  <2> QED BY <2>11, <2>12, <2>13, <2>14, <2>15 DEF SameView
<1> QED BY <1>8, <1>10, <1>11, <1>12, <1>13, <1>14, <1>15, <1>16, <1>18, <1>19, ViewSteps

LEMMA OutsideKeepsView ==
  ASSUME TypeOK, Locks, Connections, Snaps, Outside, NEW t \in Txns
  PROVE  SameView(t)'
<1>1. SameView(t) BY DEF Snaps
<1>2. UNCHANGED <<conn, bound, snap, seen, at>> /\ (Ended(t) => Ended(t)') /\ begun \subseteq begun'
  BY OutsideKeepsEnded DEF Outside
<1>3. ASSUME NEW r \in Requests, ReadIn(r, t)' PROVE ReadIn(r, t)
  <2>1. ~Sent(r) BY <1>3 DEF Sent, ReadIn, IsRead
  <2> QED BY <1>3, <2>1 DEF Outside, ReadIn, IsRead, Tid
<1>4. ASSUME NEW r \in Requests, Tid(r)' = t, pc'[r] \in {"reading2", "pinning"}
      PROVE  pc[r] = pc'[r] /\ Tid(r) = t /\ t \in begun
  <2>1. ~Sent(r) BY <1>4 DEF Sent
  <2>2. UNCHANGED <<pc[r], call[r]>> BY <2>1 DEF Outside
  <2>3. Tid(r) = t /\ InTxn(r) BY <1>4, <2>2, ActorFacts DEF Tid, InTxn
  <2> QED BY <1>4, <2>2, <2>3, ActorFacts DEF Locks, HoldsLocks
<1>5. CASE t \in begun
  <2>1. t \in readOnly' <=> t \in readOnly BY <1>5 DEF Outside
  <2>2. (\A r \in Requests : ReadIn(r, t) => t \in begun)' BY <1>2, <1>5
  <2> SUFFICES ASSUME t \in readOnly
             PROVE  /\ (\A r, q \in Requests : ReadIn(r, t) /\ ReadIn(q, t) => seen[r] = seen[q])'
                    /\ (~Ended(t) => \A r \in Requests :
                          ReadIn(r, t) => conn[t] = "snapshot" /\ seen[r] = snap[t])'
                    /\ (conn[t] = "snapshot" => snap[t] \subseteq InHive(bound[t]))'
                    /\ (\A r \in Requests : Tid(r) = t =>
                          /\ pc[r] = "reading2" => seen[r] = snap[t] \cap In(at[r], "main")
                          /\ pc[r] = "pinning" => snap[t] \subseteq In(at[r], "main"))'
    BY <2>1, <2>2 DEF SameView
  <2>3. (\A r, q \in Requests : ReadIn(r, t) /\ ReadIn(q, t) => seen[r] = seen[q])'
    BY <1>1, <1>2, <1>3 DEF SameView
  <2>4. (~Ended(t) => \A r \in Requests : ReadIn(r, t) => conn[t] = "snapshot" /\ seen[r] = snap[t])'
    BY <1>1, <1>2, <1>3 DEF SameView
  <2>5. (conn[t] = "snapshot" => snap[t] \subseteq InHive(bound[t]))'
    BY <1>1, <1>2 DEF SameView, InHive
  <2>6. (\A r \in Requests : Tid(r) = t =>
          /\ pc[r] = "reading2" => seen[r] = snap[t] \cap In(at[r], "main")
          /\ pc[r] = "pinning" => snap[t] \subseteq In(at[r], "main"))'
    BY <1>1, <1>2, <1>4 DEF SameView, In
  <2> QED BY <2>3, <2>4, <2>5, <2>6
\* Before it begins nothing is done in it.
<1>6. CASE t \notin begun
  <2>1. \A r \in Requests : ~ReadIn(r, t)' BY <1>1, <1>3, <1>6 DEF SameView
  <2>2. conn'[t] # "snapshot" BY <1>2, <1>6, ActorFacts DEF Locks, Connections, Pins
  <2> QED BY <1>4, <1>6, <2>1, <2>2 DEF SameView
<1> QED BY <1>5, <1>6

LEMMA SnapsNext ==
  ASSUME Typed, Locks, Connections, Snaps, [Next /\ UNCHANGED scenario]_<<vars, scenario>>
  PROVE  Snaps'
<1>1. TypeOK /\ TypeOK' BY LocksNext DEF Typed
<1>2. CASE \E a \in Actors : Step(a)
  <2>1. PICK a \in Actors : Step(a) BY <1>2
  <2>2. Acts(a) /\ call' = call BY <1>1, <2>1, StepLocks, StepKeepsCall
  <2>3. \A t \in Txns : SameView(t)' BY <1>1, <2>1, <2>2, OthersKeepView, HolderKeepsView
  <2>4. ASSUME NEW b \in Actors, pc'[b] = "rollback" PROVE Tid(b)' \notin registered'
    <3>1. registered' \subseteq registered /\ (pc'[a] = "rollback" => Tid(a) \notin registered')
      BY <1>1, <2>1, <2>2, StepEnds
    <3>2. b # a => pc[b] = "rollback" BY <2>2, <2>4 DEF Acts
    <3> QED BY <2>2, <2>4, <3>1, <3>2 DEF Snaps, Tid
  <2>5. ASSUME NEW r \in Requests, status'[r] = "OK" PROVE pc'[r] \in {"finish", "answered"}
    <3>1. Fits(a) BY DEF Locks
    <3>2. CASE r = a BY <1>1, <2>1, <2>5, <3>1, <3>2, StepReports DEF Snaps
    <3>3. CASE r # a BY <2>2, <2>5, <3>3, ActorFacts DEF Acts, Snaps
    <3> QED BY <3>2, <3>3
  <2> QED BY <2>3, <2>4, <2>5 DEF Snaps
<1>3. CASE Outside
  <2>1. \A t \in Txns : SameView(t)' BY <1>1, <1>3, OutsideKeepsView
  <2>2. ASSUME NEW a \in Actors, pc'[a] = "rollback" PROVE Tid(a)' \notin registered'
    <3>1. pc[a] = "rollback" /\ call'[a] = call[a] BY <1>3, <2>2 DEF Outside
    <3>2. Tid(a) \in begun /\ Tid(a) \notin registered
      BY <3>1 DEF Locks, HoldsLocks, Fits, IsControl, Snaps
    <3> QED BY <1>3, <3>1, <3>2 DEF Outside, Tid
  <2>3. ASSUME NEW r \in Requests, status'[r] = "OK" PROVE pc'[r] \in {"finish", "answered"}
    <3>1. CASE Sent(r) BY <2>3, <3>1 DEF Sent
    <3> QED BY <1>3, <2>3, <3>1 DEF Outside, Snaps
  <2> QED BY <2>1, <2>2, <2>3 DEF Snaps
<1> QED BY <1>2, <1>3, StepOrOutside

\* A snapshot is what every read of its transaction sees, until the transaction
\* has ended (readQ, getReadQuerier).
THEOREM SnapshotsInvariant == Spec => []Snaps
<1>1. Init => Snaps
  BY ActorFacts DEF Init, Snaps, SameView, ReadIn
<1>2. /\ Typed /\ Locks /\ Connections /\ Snaps
      /\ [Next /\ UNCHANGED scenario]_<<vars, scenario>>
      => Snaps'
  BY SnapsNext
<1> QED BY <1>1, <1>2, LocksInvariant, ConnInvariant, PTL DEF Spec

\* So all reads answered in a read-only transaction have seen the same
\* (openPinnedSnapshot), whatever was committed between them.
THEOREM ReadOnlySeesOnePoint == Spec => []StableSnapshot
<1>1. Typed /\ Snaps => StableSnapshot
  <2> SUFFICES ASSUME Typed, Snaps, NEW r \in Requests, NEW q \in Requests,
                      IsRead(r), IsRead(q), InTxn(r), Tid(r) = Tid(q), Tid(r) \in readOnly,
                      status[r] = "OK", status[q] = "OK"
               PROVE  seen[r] = seen[q]
    BY DEF StableSnapshot
  <2>1. Tid(r) \in Txns BY ActorFacts DEF Typed, TypeOK, Call, InTxn, Tid
  <2> QED BY <2>1 DEF Snaps, SameView, ReadIn
<1> QED BY <1>1, LocksInvariant, SnapshotsInvariant, PTL

-----------------------------------------------------------------------------
(* What a read sees of a commit.                                           *)

\* Nothing more will be published of the unit w belongs to: its transaction has
\* ended, or the handler that wrote it is done with the hive.
Over(w) ==
  IF InClientTxn(w[1]) THEN Tid(w[1]) \in begun /\ Tid(w[1]) \notin registered
  ELSE \/ pc[w[1]] \in {"finish", "poisoning", "answered"}
       \/ w[2] # at[w[1]] /\ w[2] \notin todo[w[1]]

\* Half of w's unit is published, and p is about to publish the rest.
Finishes(p, w) == pc[p] = "publishing" /\ at[p] = w[2] /\ Owner(p) = Owner(w[1])
Whole(w) == Over(w) \/ \E p \in Actors : Finishes(p, w)

Foreign(v, own) == own = NoTxn \/ Tid(v[1]) # own

\* All a view holds is there for good, with the rest of its unit.
Final(view, own) ==
  /\ \A v \in view : Foreign(v, own) => v \in published /\ Over(v)
  /\ Coherent(view, own)

\* Between the two halves of a read, or of the pinning of a snapshot, the first
\* half holds all that is published in main.
Reading(r) ==
  /\ IsRead(r) /\ status[r] = "OK" => Final(seen[r], Tid(r))
  /\ pc[r] = "reading2" /\ (InTxn(r) => conn[Tid(r)] # "snapshot") =>
       /\ seen[r] \subseteq In(at[r], "main")
       /\ published \cap In(at[r], "main") \subseteq seen[r]
       /\ \A v \in seen[r] : Foreign(v, Tid(r)) => v \in published
  /\ pc[r] = "pinning" => snap[Tid(r)] = published \cap In(at[r], "main")

Reads ==
  /\ \A w \in published : Whole(w)
  /\ \A r \in Requests : Reading(r)
  /\ \A t \in Txns : conn[t] = "snapshot" => Final(snap[t], NoTxn)
  /\ \A r \in Requests : \A v \in seen[r] : pc[v[1]] \notin Early

\* Where a handler works next.
LEMMA AtSteps ==
  ASSUME NEW a \in Actors, Step(a)
  PROVE  UNCHANGED <<at, todo>> \/ (Start(a) /\ pc[a] = "admitted") \/ NextHive(a)
<1>1. CASE AdmitOperation(a) \/ OperationTimeout(a) \/ EnterGate(a) \/ GateTimeout(a)
  BY <1>1 DEF AdmitOperation, OperationTimeout, EnterGate, GateTimeout
<1>2. CASE Start(a)
  BY <1>2 DEF Start, StartMutation, StartRead, StartDeleteLayer, StartCommit, StartAbort
<1>3. CASE RouteWrite(a) \/ Connect(a) \/ ConnectFails(a) \/ Checkpoint(a)
  BY <1>3 DEF RouteWrite, Connect, ConnectFails, Checkpoint
<1>4. CASE Statement(a) \/ StatementFails(a) BY <1>4 DEF Statement, StatementFails
<1>5. CASE DecideCommit(a) \/ CommitFails(a) \/ PublishMain(a)
  BY <1>5 DEF DecideCommit, CommitFails, PublishMain
<1>6. CASE CommitDone(a) \/ LocalCommitDone(a)
  BY <1>6 DEF CommitDone, LocalCommitDone
<1>7. CASE RouteRead(a) \/ PinMain(a) \/ PinVolatile(a) \/ PinFails(a)
  BY <1>7 DEF RouteRead, PinMain, PinVolatile, PinFails
<1>8. CASE ReadMain(a) \/ ReadVolatile(a) \/ ReadFails(a)
  BY <1>8 DEF ReadMain, ReadVolatile, ReadFails
<1>9. CASE Unregister(a) \/ RollBack(a) \/ Finish(a) \/ Interrupt(a) \/ Poison(a)
  BY <1>9 DEF Unregister, RollBack, Finish, Interrupt, Poison
<1> QED BY <1>1, <1>2, <1>3, <1>4, <1>5, <1>6, <1>7, <1>8, <1>9 DEF Step

LEMMA PublishingSteps ==
  ASSUME NEW a \in Actors, Step(a)
  PROVE  /\ \/ published' = published
            \/ Statement(a) \/ StatementFails(a) \/ PublishMain(a)
            \/ CommitDone(a) \/ LocalCommitDone(a) \/ NextHive(a)
         /\ pc[a] = "publishing" => CommitDone(a) \/ LocalCommitDone(a) \/ NextHive(a)
<1>1. CASE AdmitOperation(a) \/ OperationTimeout(a) \/ EnterGate(a) \/ GateTimeout(a)
  BY <1>1 DEF AdmitOperation, OperationTimeout, EnterGate, GateTimeout
<1>2. CASE Start(a)
  BY <1>2 DEF Start, StartMutation, StartRead, StartDeleteLayer, StartCommit, StartAbort
<1>3. CASE RouteWrite(a) \/ Connect(a) \/ ConnectFails(a) \/ Checkpoint(a)
  BY <1>3 DEF RouteWrite, Connect, ConnectFails, Checkpoint
<1>4. CASE DecideCommit(a) \/ CommitFails(a)
  BY <1>4 DEF DecideCommit, CommitFails, CommitMayFail
<1>5. CASE Statement(a) \/ StatementFails(a) \/ PublishMain(a)
  BY <1>5 DEF Statement, StatementFails, PublishMain
<1>6. CASE RouteRead(a) \/ PinMain(a) \/ PinVolatile(a) \/ PinFails(a)
  BY <1>6 DEF RouteRead, PinMain, PinVolatile, PinFails
<1>7. CASE ReadMain(a) \/ ReadVolatile(a) \/ ReadFails(a)
  BY <1>7 DEF ReadMain, ReadVolatile, ReadFails
<1>8. CASE Unregister(a) \/ RollBack(a) \/ Finish(a) \/ Interrupt(a) \/ Poison(a)
  BY <1>8 DEF Unregister, RollBack, GiveBack, Finish, Interrupt, Poison
<1> QED BY <1>1, <1>2, <1>3, <1>4, <1>5, <1>6, <1>7, <1>8 DEF Step

\* What is over stays over.
LEMMA OverKept ==
  ASSUME TypeOK, Locks, Connections, NEW a \in Actors, Step(a), Acts(a), NEW w \in Writes,
         pc[w[1]] \notin Early, Over(w)
  PROVE  Over(w)'
<1>1. w[1] \in Requests /\ w[1] \in Actors BY WriteParts, ActorFacts
<1>2. call' = call /\ pc[a] \notin {"idle", "answered"} BY StepKeepsCall
<1>3. CASE InClientTxn(w[1])
  <2>1. begun' = begun /\ registered' \subseteq registered BY StepEnds
  <2> QED BY <1>2, <1>3, <2>1 DEF Over, InClientTxn, InTxn, Tid
<1>4. CASE ~InClientTxn(w[1])
  <2>1. ~InClientTxn(w[1])' BY <1>2, <1>4 DEF InClientTxn, InTxn, Tid
  <2>2. CASE w[1] # a BY <1>1, <1>4, <2>1, <2>2 DEF Over, Acts
  <2>3. CASE w[1] = a /\ pc[a] \in {"finish", "poisoning", "answered"}
    <3>1. Finish(a) \/ Interrupt(a) \/ Poison(a) BY <1>2, <2>3, LastSteps
    <3>2. pc'[a] \in {"poisoning", "answered"}
      BY <3>1 DEF Finish, Interrupt, Poison, Answer, TypeOK
    <3> QED BY <2>1, <2>3, <3>2 DEF Over
  <2>4. CASE w[1] = a /\ w[2] # at[a] /\ w[2] \notin todo[a]
    <3>1. UNCHANGED <<at, todo>> \/ NextHive(a) BY <2>4, AtSteps DEF Early
    <3>2. w[2] # at'[a] /\ w[2] \notin todo'[a] BY <2>4, <3>1 DEF NextHive, TypeOK
    <3> QED BY <2>1, <2>4, <3>2 DEF Over
  <2> QED BY <1>4, <2>2, <2>3, <2>4 DEF Over
<1> QED BY <1>3, <1>4

\* While a publishes, no unit of its own is over.
LEMMA OwnNotOver ==
  ASSUME TypeOK, Locks, Connections, NEW a \in Actors, pc[a] \in {"statement", "commit", "publishing"},
         NEW v \in Writes, call[v[1]].op \in {"write", "deleteLayer"},
         v[2] = at[a], Owner(v[1]) = Owner(a)
  PROVE  ~Over(v)
<1>1. v[1] \in Requests /\ v[1] \in Actors BY WriteParts, ActorFacts
<1>2. Owner(a) = a \/ (InTxn(a) /\ Owner(a) = Tid(a)) BY Own
<1>3. CASE InClientTxn(v[1])
  <2>1. Owner(v[1]) = Tid(v[1]) /\ Tid(v[1]) \in Txns BY <1>1, <1>3, Own DEF Owner, InClientTxn
  <2>2. InTxn(a) /\ Tid(a) = Tid(v[1]) BY <1>2, <2>1, ActorFacts
  <2>3. Works(a) BY <2>2 DEF Works, Holding, Places
  <2>4. Tid(a) \in registered BY <2>3 DEF Connections, UsesConn
  <2> QED BY <1>3, <2>2, <2>4 DEF Over
<1>4. CASE ~InClientTxn(v[1])
  <2>1. Owner(v[1]) = v[1] BY <1>4 DEF Owner
  <2>2. v[1] = a BY <1>1, <1>2, <2>1, Own, ActorFacts
  <2> QED BY <1>4, <2>2 DEF Over
<1> QED BY <1>3, <1>4

\* The rest of COMMIT completes what it began.
LEMMA PublisherEnds ==
  ASSUME TypeOK, Locks, Connections, NEW a \in Actors, Step(a), pc[a] = "publishing",
         NEW w \in Writes, call[w[1]].op \in {"write", "deleteLayer"}, Finishes(a, w)
  PROVE  Over(w)'
<1>1. w[1] \in Requests /\ w[1] \in Actors BY WriteParts, ActorFacts
<1>2. call' = call /\ Fits(a) /\ HoldsLocks(a) BY StepKeepsCall DEF Locks
<1>3. CASE CommitDone(a)
  <2>1. Owner(a) = Tid(a) /\ InTxn(a) /\ Tid(a) \in Txns /\ Tid(a) \in begun
    BY <1>2, <1>3, Own DEF CommitDone, Owner, Fits, IsControl, HoldsLocks
  <2>2. InClientTxn(w[1]) /\ Tid(w[1]) = Tid(a)
    BY <1>1, <2>1, ActorFacts DEF Finishes, Owner
  <2>3. InClientTxn(w[1])' /\ Tid(w[1])' = Tid(a) BY <1>2, <2>2 DEF InClientTxn, InTxn, Tid
  <2>4. Tid(a) \in begun' /\ Tid(a) \notin registered'
    BY <1>3, <2>1 DEF CommitDone, PublishVolatile
  <2> QED BY <2>3, <2>4 DEF Over
<1>4. CASE LocalCommitDone(a) \/ NextHive(a)
  <2>1. call[a].op # "commit" /\ ~InClientTxn(a)
    BY <1>2, <1>4 DEF LocalCommitDone, NextHive, Fits
  <2>2. Owner(w[1]) = a BY <2>1 DEF Finishes, Owner
  <2>3. InClientTxn(w[1]) => Tid(w[1]) \in Txns BY <1>1, Own DEF InClientTxn
  <2>4. w[1] = a BY <2>2, <2>3, ActorFacts DEF Owner
  <2>5. ~InClientTxn(a)' BY <1>2, <2>1 DEF InClientTxn, InTxn, Tid
  <2>6. CASE LocalCommitDone(a)
    <3>1. pc'[a] = "finish" BY <2>6 DEF LocalCommitDone, TypeOK
    <3> QED BY <2>4, <2>5, <3>1 DEF Over
  <2>7. CASE NextHive(a)
    <3>1. w[2] = at[a] /\ at[a] \notin todo[a] BY <1>2, <2>7 DEF Finishes, NextHive, Fits
    <3>2. w[2] # at'[a] /\ w[2] \notin todo'[a] BY <2>7, <3>1 DEF NextHive, TypeOK
    <3> QED BY <2>4, <2>5, <3>2 DEF Over
  <2> QED BY <1>4, <2>6, <2>7
<1> QED BY <1>3, <1>4, PublishingSteps

\* A step publishes only what its own actor wrote or committed, in the hive it is
\* inside, and the unit it belongs to at once or in its next step.
LEMMA Publishes ==
  ASSUME TypeOK, TypeOK', Locks, Connections, Storage, NEW a \in Actors, Step(a),
         NEW w \in published', w \notin published
  PROVE  /\ w \in Writes /\ call[w[1]].op \in {"write", "deleteLayer"}
         /\ pc[a] \in {"statement", "commit", "publishing"}
         /\ at[a] = w[2] /\ Owner(w[1]) = Owner(a) /\ Whole(w)'
<1>1. w \in Writes /\ call' = call BY StepKeepsCall DEF TypeOK
<1>2. w[1] \in Requests /\ w[2] \in Hives BY <1>1, WriteParts
<1>3. Fits(a) /\ UsesConn(a) /\ CommitsOpen(a) BY DEF Locks, Connections, Storage
\* Bare statements.
<1>4. CASE Statement(a) \/ StatementFails(a)
  <2>1. pc'[a] = "finish" \/ InClientTxn(a) \/ sqlTxn[at[a]]
    BY <1>4 DEF Statement, StatementFails, TypeOK
  <2>2. pc[a] = "statement" /\ ~sqlTxn[at[a]]
    BY <1>4 DEF Statement, StatementFails
  <2>3. w[1] = a /\ w[2] = at[a]
    <3>1. PICK stores \in SUBSET Stores : w \in WritesOf(a, at[a], stores)
      <4>1. CASE Statement(a)
        <5>1. w \in WritesOf(a, at[a], StoresOf(a)) BY <2>2, <4>1 DEF Statement
        <5>2. StoresOf(a) \subseteq Stores BY DEF StoresOf, TypeOK, Call
        <5> QED BY <5>1, <5>2
      <4>2. CASE StatementFails(a)
        <5>1. PICK ran \in RanUntilFailure(a) :
                published' = IF sqlTxn[at[a]] THEN published ELSE published \cup WritesOf(a, at[a], ran)
          BY <4>2 DEF StatementFails
        <5>2. ran \subseteq Stores BY DEF RanUntilFailure, StoresOf, TypeOK, Call
        <5> QED BY <2>2, <5>1, <5>2
      <4> QED BY <1>4, <4>1, <4>2
    <3> QED BY <3>1 DEF WritesOf
  <2>4. ~InClientTxn(a)
    <3> SUFFICES ASSUME InClientTxn(a) PROVE FALSE OBVIOUS
    <3>1. conn[Tid(a)] = "write" /\ bound[Tid(a)] = at[a] /\ Tid(a) \in Txns /\ opHolder[Tid(a)] = a
      BY <1>3, <2>2, Own DEF UsesConn, InClientTxn, Holding, Places
    <3>2. Doomed(Tid(a)) BY <2>2, <3>1 DEF Storage, Open
    <3> QED BY <2>2, <3>1, <3>2 DEF Doomed
  <2>5. pc'[a] = "finish" BY <2>1, <2>2, <2>4
  <2>6. Over(w)' BY <1>1, <2>3, <2>4, <2>5 DEF Over, InClientTxn, InTxn, Tid
  <2> QED BY <1>1, <1>3, <2>2, <2>3, <2>6 DEF Whole, Fits
\* A commit.
<1>5. ASSUME pc[a] \in {"commit", "publishing"}, w \in pending, w[2] = at[a]
      PROVE  call[w[1]].op \in {"write", "deleteLayer"} /\ Owner(w[1]) = Owner(a)
  BY <1>3, <1>5 DEF Storage, Uncommitted, UsesConn
<1>6. CASE PublishMain(a)
  <2>1. /\ pc[a] = "commit" /\ pc'[a] = "publishing" /\ at' = at /\ w \in pending
        /\ w \in In(at[a], "main")
    BY <1>6 DEF PublishMain, TypeOK
  <2>2. w[2] = at[a] BY <1>1, <2>1, WriteParts
  <2>3. Finishes(a, w)' BY <1>1, <1>5, <2>1, <2>2 DEF Finishes, Owner, InClientTxn, InTxn, Tid
  <2> QED BY <1>1, <1>5, <2>1, <2>2, <2>3 DEF Whole
<1>7. CASE CommitDone(a) \/ LocalCommitDone(a) \/ NextHive(a)
  <2>1. pc[a] = "publishing" /\ w \in pending /\ w \in In(at[a], "volatile")
    BY <1>7 DEF CommitDone, LocalCommitDone, NextHive, PublishVolatile
  <2>2. w[2] = at[a] BY <1>1, <2>1, WriteParts
  <2>3. Finishes(a, w) BY <1>5, <2>1, <2>2 DEF Finishes
  <2>4. Over(w)' BY <1>1, <1>5, <2>1, <2>2, <2>3, PublisherEnds
  <2> QED BY <1>1, <1>5, <2>1, <2>2, <2>4 DEF Whole
<1> QED BY <1>4, <1>6, <1>7, PublishingSteps

\* A reader inside a hive keeps its writers out.
LEMMA ReaderUndisturbed ==
  ASSUME TypeOK, TypeOK', Locks, Connections, Storage, NEW a \in Actors, Step(a),
         NEW r \in Actors, IsRead(r), r \in inside[at[r]], at[r] \in Hives,
         NEW w \in published', w[2] = at[r]
  PROVE  w \in published
<1> SUFFICES ASSUME w \notin published PROVE FALSE OBVIOUS
<1>1. pc[a] \in Writing /\ at[a] = at[r] BY Publishes DEF Writing
<1>2. a \in inside[at[r]] /\ ~IsRead(a) BY <1>1, Own
<1> QED BY <1>2 DEF Locks, Exclusive

\* What it sees published is over.
LEMMA ReaderSeesWhole ==
  ASSUME TypeOK, Locks, Connections, Reads,
         NEW r \in Actors, IsRead(r), r \in inside[at[r]], at[r] \in Hives,
         NEW w \in published, w[2] = at[r]
  PROVE  Over(w)
<1> SUFFICES ASSUME NEW p \in Actors, Finishes(p, w) PROVE FALSE BY DEF Reads, Whole
<1>1. pc[p] \in Writing /\ at[p] = at[r] BY DEF Finishes, Writing
<1>2. p \in inside[at[r]] /\ ~IsRead(p) BY <1>1, Own
<1> QED BY <1>2 DEF Locks, Exclusive

\* A published write is of a call that stays as it is.
LEMMA PublishedCall ==
  ASSUME TypeOK, Storage, NEW w \in published
  PROVE  /\ w \in Writes /\ w[1] \in Requests /\ w[1] \in Actors
         /\ call[w[1]].op \in {"write", "deleteLayer"} /\ pc[w[1]] \notin Early
BY WriteParts, ActorFacts DEF Storage, Visible, TypeOK

LEMMA WholeKept ==
  ASSUME TypeOK, TypeOK', Locks, Connections, Storage, Reads, NEW a \in Actors, Step(a), Acts(a),
         NEW w \in published'
  PROVE  Whole(w)'
<1>1. CASE w \notin published BY <1>1, Publishes
<1>2. CASE w \in published
  <2>1. /\ w \in Writes /\ call[w[1]].op \in {"write", "deleteLayer"} /\ pc[w[1]] \notin Early
        /\ call' = call
    BY <1>2, PublishedCall, StepKeepsCall
  <2>2. CASE Over(w) BY <2>1, <2>2, OverKept DEF Whole
  <2>3. CASE ~Over(w)
    <3>1. PICK p \in Actors : Finishes(p, w) BY <1>2, <2>3 DEF Reads, Whole
    <3>2. CASE p = a BY <2>1, <3>1, <3>2, PublisherEnds DEF Whole, Finishes
    <3>3. CASE p # a
      <4>1. pc'[p] = pc[p] /\ at'[p] = at[p] BY <3>3 DEF Acts
      <4>2. Finishes(p, w)' BY <2>1, <3>1, <4>1 DEF Finishes, Owner, InClientTxn, InTxn, Tid
      <4> QED BY <4>2 DEF Whole
    <3> QED BY <3>2, <3>3
  <2> QED BY <2>2, <2>3
<1> QED BY <1>1, <1>2

\* A view that is final stays so: no more is published of a unit that is over.
LEMMA FinalKept ==
  ASSUME TypeOK, TypeOK', Locks, Connections, Storage, NEW a \in Actors, Step(a), Acts(a),
         published \subseteq published', NEW view, NEW own, Final(view, own)
  PROVE  Final(view, own)'
<1>1. call' = call BY StepKeepsCall
<1>2. \A v : Foreign(v, own)' <=> Foreign(v, own) BY <1>1 DEF Foreign, Tid
<1>3. ASSUME NEW v \in view, Foreign(v, own) PROVE v \in published' /\ Over(v)'
  <2>1. v \in published /\ Over(v) BY <1>3 DEF Final
  <2> QED BY <2>1, PublishedCall, OverKept
<1>4. ASSUME NEW v \in view, NEW w \in published', SameUnit(v, w), Foreign(v, own)
      PROVE  w \in view
  <2>1. v \in published /\ Over(v) BY <1>4 DEF Final
  <2>2. CASE w \in published BY <1>4, <2>2 DEF Final, Coherent, Foreign
  <2>3. CASE w \notin published
    <3>1. /\ call[w[1]].op \in {"write", "deleteLayer"}
          /\ pc[a] \in {"statement", "commit", "publishing"}
          /\ at[a] = w[2] /\ Owner(w[1]) = Owner(a)
      BY <2>3, Publishes
    <3>2. v[2] = at[a] /\ Owner(v[1]) = Owner(a) BY <1>4, <3>1 DEF SameUnit, Owner
    <3> QED BY <2>1, <3>1, <3>2, PublishedCall, OwnNotOver
  <2> QED BY <2>2, <2>3
<1>5. \A v, w : SameUnit(v, w)' <=> SameUnit(v, w) BY <1>1 DEF SameUnit, InClientTxn, InTxn, Tid
<1>6. Coherent(view, own)' BY <1>1, <1>2, <1>4, <1>5 DEF Coherent, Foreign
<1> QED BY <1>2, <1>3, <1>6 DEF Final

\* What a reader takes of the hive it is inside, beyond what its own transaction
\* has not committed, is final.
LEMMA ReaderFinal ==
  ASSUME TypeOK, Locks, Connections, Reads,
         NEW r \in Actors, IsRead(r), r \in inside[at[r]], at[r] \in Hives,
         NEW own, NEW view, view \subseteq InHive(at[r]),
         published \cap InHive(at[r]) \subseteq view,
         \A v \in view : Foreign(v, own) => v \in published
  PROVE  Final(view, own)
<1>1. ASSUME NEW v \in view PROVE v[2] = at[r] BY <1>1 DEF InHive
<1>2. ASSUME NEW v \in view, Foreign(v, own) PROVE v \in published /\ Over(v)
  BY <1>1, <1>2, ReaderSeesWhole
<1>3. ASSUME NEW v \in view, NEW w \in published, SameUnit(v, w) PROVE w \in view
  <2>1. w[2] = at[r] BY <1>1, <1>3 DEF SameUnit
  <2>2. w \in InHive(at[r]) BY <2>1, WriteParts DEF TypeOK
  <2> QED BY <2>2
<1> QED BY <1>2, <1>3 DEF Final, Coherent

\* Beyond what is published a reader sees only what its own transaction wrote.
LEMMA ReaderView ==
  ASSUME TypeOK, Locks, Connections, Storage, NEW r \in Actors,
         pc[r] \in {"reading", "reading2"}, InTxn(r) => conn[Tid(r)] # "snapshot"
  PROVE  /\ IsRead(r) /\ at[r] \in Hives /\ r \in inside[at[r]]
         /\ published \subseteq View(r)
         /\ \A v \in View(r) : v[2] = at[r] /\ Foreign(v, Tid(r)) => v \in published
<1>1. IsRead(r) /\ at[r] \in Hives /\ r \in inside[at[r]]
  BY DEF Locks, Fits, HoldsLocks, Gated, IsRead
<1>2. CASE ~InTxn(r) \/ conn[Tid(r)] = "none" BY <1>1, <1>2 DEF View
<1>3. CASE InTxn(r) /\ conn[Tid(r)] = "write"
  <2>1. View(r) = published \cup pending BY <1>3 DEF View
  <2>2. Tid(r) \in Txns /\ opHolder[Tid(r)] = r BY <1>3, Own DEF Holding, Places
  <2>3. bound[Tid(r)] = at[r] BY <1>3 DEF Connections, UsesConn
  <2>4. writeConn[at[r]] = Tid(r)
    BY <1>3, <2>2, <2>3 DEF Connections, Pins, Poisoned
  <2>5. ASSUME NEW v \in pending, v[2] = at[r] PROVE Tid(v[1]) = Tid(r)
    <3>1. /\ Uncommitted(v) /\ v \in Writes
          /\ InClientTxn(v[1]) => Owner(v[1]) = Tid(v[1])
          /\ ~InClientTxn(v[1]) => Owner(v[1]) = v[1]
      BY PendingOwner
    <3>2. Owner(v[1]) = Tid(r) BY <2>4, <2>5, <3>1 DEF Uncommitted
    <3>3. v[1] \in Actors BY <3>1, WriteParts, ActorFacts
    <3> QED BY <2>2, <3>1, <3>2, <3>3, ActorFacts
  <2> QED BY <1>1, <1>3, <2>1, <2>5 DEF Foreign, InTxn
<1>4. InTxn(r) => conn[Tid(r)] \in {"none", "write"} BY Own DEF TypeOK
<1> QED BY <1>2, <1>3, <1>4

LEMMA OthersKeepReading ==
  ASSUME TypeOK, TypeOK', Locks, Connections, Storage, Reads, NEW a \in Actors, Step(a), Acts(a),
         published \subseteq published', NEW r \in Requests, r # a
  PROVE  Reading(r)'
<1>1. /\ r \in Actors /\ pc'[r] = pc[r] /\ at'[r] = at[r] /\ status'[r] = status[r]
      /\ seen'[r] = seen[r] /\ call' = call
  BY ActorFacts, StepKeepsCall DEF Acts
<1>2. Reading(r) BY DEF Reads
<1>3. ASSUME IsRead(r), status[r] = "OK" PROVE Final(seen[r], Tid(r))'
  <2>1. Final(seen[r], Tid(r)) BY <1>2, <1>3 DEF Reading
  <2>2. PICK view, own : view = seen[r] /\ own = Tid(r) OBVIOUS
  <2>3. Final(view, own) BY <2>1, <2>2
  <2>4. Final(view, own)' BY <2>3, FinalKept
  <2>5. view = seen'[r] /\ own = Tid(r)' BY <1>1, <2>2 DEF Tid
  <2> QED BY <2>4, <2>5 DEF Final, Foreign, Coherent
<1>4. ASSUME pc[r] \in {"pinning", "reading2"}
      PROVE  /\ IsRead(r) /\ at[r] \in Hives
             /\ InTxn(r) => conn'[Tid(r)] = conn[Tid(r)] /\ snap'[Tid(r)] = snap[Tid(r)]
             /\ published' \cap In(at[r], "main") = published \cap In(at[r], "main")
  <2>1. IsRead(r) /\ at[r] \in Hives /\ r \in inside[at[r]]
    BY <1>1, <1>4 DEF Locks, Fits, HoldsLocks, Gated, IsRead
  <2>2. InTxn(r) => Tid(r) \in Txns /\ opHolder[Tid(r)] # a
    BY <1>1, <1>4, Own DEF Holding, Places
  <2>3. ASSUME NEW w \in published', w \in In(at[r], "main") PROVE w \in published
    <3>1. w[2] = at[r] BY <2>3, WriteParts DEF TypeOK
    <3> QED BY <1>1, <2>1, <3>1, ReaderUndisturbed
  <2> QED BY <2>1, <2>2, <2>3 DEF Acts
<1>5. (pc[r] = "reading2" /\ (InTxn(r) => conn[Tid(r)] # "snapshot") =>
         /\ seen[r] \subseteq In(at[r], "main")
         /\ published \cap In(at[r], "main") \subseteq seen[r]
         /\ \A v \in seen[r] : Foreign(v, Tid(r)) => v \in published)'
  BY <1>1, <1>2, <1>4 DEF Reading, InTxn, Tid, Foreign, In
<1>6. (pc[r] = "pinning" => snap[Tid(r)] = published \cap In(at[r], "main"))'
  <2> SUFFICES ASSUME pc[r] = "pinning"
               PROVE  (snap[Tid(r)] = published \cap In(at[r], "main"))'
    BY <1>1
  <2>1. InTxn(r) BY <1>1 DEF Locks, Fits
  <2>2. snap[Tid(r)] = published \cap In(at[r], "main") BY <1>2 DEF Reading
  <2> QED BY <1>1, <1>4, <2>1, <2>2 DEF Tid, In
<1> QED BY <1>1, <1>3, <1>5, <1>6 DEF Reading, IsRead

LEMMA ReaderKeepsReading ==
  ASSUME TypeOK, TypeOK', Locks, Connections, Storage, Snaps, Reads, NEW a \in Requests, Step(a),
         Acts(a), published \subseteq published'
  PROVE  Reading(a)'
<1>1. a \in Actors /\ call' = call BY ActorFacts, StepKeepsCall
<1>2. Fits(a) /\ HoldsLocks(a) /\ UsesConn(a) /\ (InTxn(a) => Tid(a) \in Txns) /\ Reading(a)
  BY <1>1, Own DEF Locks, Connections, Reads
<1>3. status[a] = "OK" => pc[a] \in {"finish", "answered"} BY DEF Snaps
<1>4. ASSUME NEW view, NEW own, Final(view, own), view = seen'[a], own = Tid(a)
      PROVE  Final(seen[a], Tid(a))'
  <2>1. Final(view, own)' BY <1>1, <1>4, FinalKept
  <2>2. own = Tid(a)' BY <1>1, <1>4 DEF Tid
  <2> QED BY <1>4, <2>1, <2>2 DEF Final, Foreign, Coherent
\* A read that completes.
<1>5. ASSUME ReadVolatile(a) PROVE \E view : view = seen'[a] /\ Final(view, Tid(a))
  <2>1. /\ pc[a] = "reading2" /\ IsRead(a)
        /\ seen'[a] = seen[a] \cup (View(a) \cap In(at[a], "volatile"))
    BY <1>1, <1>2, <1>5 DEF ReadVolatile, Fits, TypeOK
  <2>2. CASE InTxn(a) /\ conn[Tid(a)] = "snapshot"
    <3>1. Tid(a) \in readOnly /\ bound[Tid(a)] = at[a]
      BY <1>2, <2>1, <2>2 DEF Connections, Pins, UsesConn
    <3>2. /\ seen[a] = snap[Tid(a)] \cap In(at[a], "main")
          /\ snap[Tid(a)] \subseteq InHive(at[a])
      BY <1>2, <2>1, <2>2, <3>1 DEF Snaps, SameView
    <3>3. View(a) = snap[Tid(a)] BY <2>2 DEF View
    <3>4. seen'[a] = snap[Tid(a)] BY <2>1, <3>2, <3>3 DEF In, InHive, Stores
    <3>5. Final(snap[Tid(a)], NoTxn) BY <1>2, <2>2 DEF Reads
    <3>6. Final(snap[Tid(a)], Tid(a)) BY <3>5 DEF Final, Foreign, Coherent
    <3> QED BY <3>4, <3>6
  <2>3. CASE InTxn(a) => conn[Tid(a)] # "snapshot"
    <3>1. /\ IsRead(a) /\ at[a] \in Hives /\ a \in inside[at[a]] /\ published \subseteq View(a)
          /\ \A v \in View(a) : v[2] = at[a] /\ Foreign(v, Tid(a)) => v \in published
      BY <1>1, <2>1, <2>3, ReaderView
    <3>2. /\ seen[a] \subseteq In(at[a], "main")
          /\ published \cap In(at[a], "main") \subseteq seen[a]
          /\ \A v \in seen[a] : Foreign(v, Tid(a)) => v \in published
      BY <1>2, <2>1, <2>3 DEF Reading
    <3>3. seen'[a] \subseteq InHive(at[a]) BY <2>1, <3>2 DEF In, InHive, Stores
    <3>4. published \cap InHive(at[a]) \subseteq seen'[a]
      BY <2>1, <3>1, <3>2 DEF In, InHive, Stores
    <3>5. ASSUME NEW v \in seen'[a], Foreign(v, Tid(a)) PROVE v \in published
      <4>1. v[2] = at[a] BY <3>3, <3>5 DEF InHive
      <4> QED BY <2>1, <3>1, <3>2, <3>5, <4>1
    <3>6. PICK view, own : view = seen'[a] /\ own = Tid(a) OBVIOUS
    <3>7. Final(view, own) BY <1>1, <3>1, <3>3, <3>4, <3>5, <3>6, ReaderFinal
    <3> QED BY <3>6, <3>7
  <2> QED BY <2>2, <2>3
<1>6. ASSUME IsRead(a), status'[a] = "OK" PROVE Final(seen[a], Tid(a))'
  <2>1. CASE status[a] # "OK"
    <3>1. ReadVolatile(a) BY <1>1, <1>2, <1>3, <1>6, <2>1, StepReports
    <3> QED BY <1>4, <1>5, <3>1
  <2>2. CASE status[a] = "OK"
    <3>1. pc[a] = "finish" BY <1>1, <1>3, <2>2, StepKeepsCall
    <3>2. seen' = seen BY <1>1, <3>1, LastSteps DEF Finish, Interrupt, Poison
    <3>3. Final(seen[a], Tid(a)) BY <1>2, <1>6, <2>2 DEF Reading
    <3>4. PICK view, own : view = seen[a] /\ own = Tid(a) OBVIOUS
    <3> QED BY <1>4, <3>2, <3>3, <3>4
  <2> QED BY <2>1, <2>2
\* Its first half.
<1>7. ASSUME pc'[a] = "reading2", (InTxn(a) => conn[Tid(a)] # "snapshot")'
      PROVE  (/\ seen[a] \subseteq In(at[a], "main")
              /\ published \cap In(at[a], "main") \subseteq seen[a]
              /\ \A v \in seen[a] : Foreign(v, Tid(a)) => v \in published)'
  <2>1. ReadMain(a)
    BY <1>1, <1>7, ViewSteps DEF Connect, PinMain, PinVolatile, PinFails, ReadVolatile, DecideCommit,
       CommitDone, RollBack, Interrupt, Poison, Answer, TypeOK
  <2>2. /\ pc[a] = "reading" /\ UNCHANGED <<conn, at, published>>
        /\ seen'[a] = View(a) \cap In(at[a], "main")
    BY <2>1 DEF ReadMain, TypeOK
  <2>3. InTxn(a) => conn[Tid(a)] # "snapshot" BY <1>1, <1>7, <2>2 DEF InTxn, Tid
  <2>4. /\ published \subseteq View(a)
        /\ \A v \in View(a) : v[2] = at[a] /\ Foreign(v, Tid(a)) => v \in published
    BY <1>1, <2>2, <2>3, ReaderView
  <2>5. ASSUME NEW v \in seen'[a], Foreign(v, Tid(a)) PROVE v \in published
    <3>1. v[2] = at[a] BY <2>2, <2>5 DEF In
    <3> QED BY <2>2, <2>4, <2>5, <3>1
  <2>6. \A v : Foreign(v, Tid(a))' => Foreign(v, Tid(a)) BY <1>1 DEF Foreign, Tid
  <2> QED BY <2>2, <2>4, <2>5, <2>6 DEF In
<1>8. ASSUME pc'[a] = "pinning" PROVE (snap[Tid(a)] = published \cap In(at[a], "main"))'
  <2>1. PinMain(a)
    <3>1. ~(Connect(a) \/ PinVolatile(a) \/ PinFails(a) \/ ReadMain(a) \/ ReadVolatile(a))
      BY <1>1, <1>8 DEF Connect, ReadMain, PinVolatile, PinFails, ReadVolatile, TypeOK
    <3>2. ~(DecideCommit(a) \/ CommitDone(a) \/ RollBack(a) \/ Interrupt(a))
      BY <1>1, <1>8 DEF DecideCommit, CommitDone, RollBack, Interrupt, TypeOK
    <3>3. ~Poison(a) BY <1>1, <1>8 DEF Poison, Answer, TypeOK
    <3> QED BY <1>1, <1>8, <3>1, <3>2, <3>3, ViewSteps
  <2>2. InTxn(a) BY <1>2, <2>1 DEF PinMain, Fits
  <2>3. /\ snap'[Tid(a)] = published \cap In(at[a], "main") /\ UNCHANGED <<published, at>>
    BY <1>2, <2>1, <2>2 DEF PinMain, TypeOK
  <2> QED BY <1>1, <2>3 DEF Tid, In
<1> QED BY <1>1, <1>6, <1>7, <1>8 DEF Reading, IsRead

\* A pinned snapshot is final.
LEMMA SnapshotKept ==
  ASSUME TypeOK, TypeOK', Locks, Connections, Storage, Snaps, Reads, NEW a \in Actors, Step(a),
         Acts(a), published \subseteq published', NEW t \in Txns, conn'[t] = "snapshot"
  PROVE  Final(snap[t], NoTxn)'
<1>1. ASSUME NEW view, NEW own, Final(view, own), own = NoTxn, view = snap'[t]
      PROVE  Final(snap[t], NoTxn)'
  <2>1. Final(view, own)' BY <1>1, FinalKept
  <2> QED BY <1>1, <2>1 DEF Final, Foreign, Coherent
<1>2. CASE conn[t] = "snapshot" /\ snap'[t] = snap[t]
  <2>1. Final(snap[t], NoTxn) BY <1>2 DEF Reads
  <2>2. PICK view, own : view = snap[t] /\ own = NoTxn OBVIOUS
  <2> QED BY <1>1, <1>2, <2>1, <2>2
<1>3. CASE opHolder[t] # a BY <1>2, <1>3 DEF Acts
<1>4. CASE opHolder[t] = a
  <2>1. Tid(a) = t /\ UsesConn(a) /\ Fits(a) /\ HoldsLocks(a) /\ InTxn(a)
    BY <1>4, Own DEF Connections, Locks
  <2>2. CASE UNCHANGED <<snap, conn>> \/ ReadMain(a) \/ ReadVolatile(a)
    BY <1>2, <2>2 DEF ReadMain, ReadVolatile
  <2>3. CASE Connect(a) /\ InClientTxn(a)
    BY <2>1, <2>3 DEF Connect, TypeOK
  <2>4. CASE PinMain(a) \/ PinFails(a)
    BY <2>1, <2>4 DEF PinMain, PinFails, UsesConn, TypeOK
  <2>5. CASE CommitDone(a) \/ RollBack(a) \/ Poison(a)
    BY <2>1, <2>5 DEF CommitDone, RollBack, Poison, TypeOK
  <2>6. CASE DecideCommit(a) BY <1>2, <2>1, <2>6 DEF DecideCommit, TypeOK
  <2>7. CASE Interrupt(a)
    <3>1. snap'[t] = {} BY <2>1, <2>7 DEF Interrupt, GiveBack, TypeOK
    <3> QED BY <3>1 DEF Final, Coherent
  <2>8. CASE PinVolatile(a)
    <3>1. /\ pc[a] = "pinning" /\ IsRead(a) /\ at[a] \in Hives /\ a \in inside[at[a]]
          /\ snap'[t] = snap[t] \cup (published \cap In(at[a], "volatile"))
      BY <2>1, <2>8 DEF PinVolatile, Fits, HoldsLocks, Gated, IsRead, TypeOK
    <3>2. a \in Requests BY <2>1, <3>1 DEF Fits, IsRead
    <3>3. snap[t] = published \cap In(at[a], "main") BY <2>1, <3>1, <3>2 DEF Reads, Reading
    <3>4. snap'[t] = published \cap InHive(at[a]) BY <3>1, <3>3 DEF In, InHive, Stores
    <3>5. PICK view, own : view = snap'[t] /\ own = NoTxn OBVIOUS
    <3>6. Final(view, own) BY <3>1, <3>4, <3>5, ReaderFinal
    <3> QED BY <1>1, <3>5, <3>6
  <2> QED BY <2>2, <2>3, <2>4, <2>5, <2>6, <2>7, <2>8, ViewSteps
<1> QED BY <1>3, <1>4

\* What has been seen was written by calls that were made.
LEMMA SeenKept ==
  ASSUME TypeOK, TypeOK', Locks, Connections, Storage, Reads, NEW a \in Actors, Step(a), Acts(a),
         Remembers(a), NEW r \in Requests, NEW v \in seen'[r]
  PROVE  pc'[v[1]] \notin Early
<1>1. r \in Actors /\ v \in Writes BY ActorFacts DEF TypeOK
<1>2. v[1] \in Requests /\ v[1] \in Actors BY <1>1, WriteParts, ActorFacts
<1>3. SUFFICES pc[v[1]] \notin Early BY <1>2 DEF Acts, Remembers, Early
<1>4. CASE v \in seen[r] BY <1>4 DEF Reads
<1>5. CASE v \notin seen[r]
  <2>1. r = a BY <1>1, <1>5 DEF Acts
  <2>2. ReadMain(a) \/ ReadVolatile(a)
    <3>1. seen' # seen BY <1>5
    <3>2. Connect(a) \/ PinMain(a) \/ PinVolatile(a) \/ PinFails(a) => seen' = seen
      BY DEF Connect, PinMain, PinVolatile, PinFails
    <3>3. DecideCommit(a) \/ CommitDone(a) \/ RollBack(a) \/ Interrupt(a) \/ Poison(a) => seen' = seen
      BY DEF DecideCommit, CommitDone, PublishVolatile, RollBack, Interrupt, Poison
    <3> QED BY <3>1, <3>2, <3>3, ViewSteps
  <2>3. v \in View(a) /\ pc[a] \in {"reading", "reading2"}
    BY <1>1, <1>5, <2>1, <2>2 DEF ReadMain, ReadVolatile, TypeOK
  <2>4. CASE v \in published BY <2>4, PublishedCall
  <2>5. CASE v \in pending BY <2>5 DEF Storage, Uncommitted
  <2>6. CASE v \notin published \cup pending
    <3>1. /\ InTxn(a) /\ Tid(a) \in Txns /\ conn[Tid(a)] # "none" /\ conn[Tid(a)] # "write"
          /\ v \in snap[Tid(a)]
      BY <1>1, <2>1, <2>3, <2>6, Own DEF View
    <3>2. conn[Tid(a)] = "snapshot" BY <3>1 DEF TypeOK
    <3>3. v \in published BY <3>1, <3>2 DEF Reads, Final, Foreign
    <3> QED BY <2>6, <3>3
  <2> QED BY <2>4, <2>5, <2>6
<1> QED BY <1>4, <1>5

LEMMA OutsideKeepsReads ==
  ASSUME TypeOK, Locks, Connections, Storage, Snaps, Reads, Outside
  PROVE  Reads'
<1>1. UNCHANGED <<conn, snap, seen, at, todo, published>> BY DEF Outside
<1>2. ASSUME NEW w \in published
      PROVE  /\ pc'[w[1]] = pc[w[1]] /\ call'[w[1]] = call[w[1]]
             /\ Over(w) => Over(w)'
  <2>1. w[1] \in Actors /\ w[1] \in Requests /\ pc[w[1]] \notin Early
        /\ call[w[1]].op \in {"write", "deleteLayer"}
    BY <1>2, PublishedCall
  <2>2. ~Sent(w[1]) BY <2>1 DEF Sent, Early
  <2>3. UNCHANGED <<pc[w[1]], call[w[1]]>> BY <2>1, <2>2 DEF Outside
  <2>4. InClientTxn(w[1])' = InClientTxn(w[1]) /\ Tid(w[1])' = Tid(w[1])
    BY <2>3 DEF InClientTxn, InTxn, Tid
  <2>5. \A t \in begun : t \in begun' /\ (t \in registered' <=> t \in registered) BY DEF Outside
  <2> QED BY <1>1, <2>3, <2>4, <2>5 DEF Over
<1>3. ASSUME NEW w \in published PROVE Whole(w)'
  <2>1. CASE Over(w) BY <1>2, <2>1 DEF Whole
  <2>2. CASE ~Over(w)
    <3>1. PICK p \in Actors : Finishes(p, w) BY <2>2 DEF Reads, Whole
    <3>2. UNCHANGED <<pc[p], call[p]>> BY <3>1 DEF Outside, Finishes
    <3>3. Finishes(p, w)' BY <1>1, <1>2, <3>1, <3>2 DEF Finishes, Owner, InClientTxn, InTxn, Tid
    <3> QED BY <3>3 DEF Whole
  <2> QED BY <2>1, <2>2
<1>4. ASSUME NEW view, NEW own, Final(view, own), \A v \in view : call'[v[1]] = call[v[1]]
      PROVE  Final(view, own)'
  <2>1. ASSUME NEW v \in view, Foreign(v, own)' PROVE Foreign(v, own)
    BY <1>4, <2>1 DEF Foreign, Tid
  <2>2. ASSUME NEW v \in view, Foreign(v, own)' PROVE v \in published' /\ Over(v)'
    BY <1>1, <1>2, <1>4, <2>1, <2>2 DEF Final
  <2>3. ASSUME NEW v \in view, NEW w \in published', SameUnit(v, w)', Foreign(v, own)'
        PROVE  w \in view
    <3>1. w \in published BY <1>1
    <3>2. SameUnit(v, w) BY <1>2, <1>4, <2>3, <3>1 DEF SameUnit, InClientTxn, InTxn, Tid
    <3> QED BY <1>4, <2>1, <2>3, <3>1, <3>2 DEF Final, Coherent, Foreign
  <2> QED BY <2>2, <2>3 DEF Final, Coherent, Foreign
<1>5. ASSUME NEW r \in Requests, NEW v \in seen[r]
      PROVE  pc'[v[1]] = pc[v[1]] /\ call'[v[1]] = call[v[1]]
  <2>1. r \in Actors /\ v \in Writes /\ pc[v[1]] \notin Early BY ActorFacts DEF TypeOK, Reads
  <2>2. v[1] \in Requests BY <2>1, WriteParts
  <2>3. ~Sent(v[1]) BY <2>1 DEF Sent, Early
  <2> QED BY <2>2, <2>3 DEF Outside
<1>6. ASSUME NEW r \in Requests PROVE Reading(r)'
  <2>1. Reading(r) BY DEF Reads
  <2>2. CASE Sent(r)
    <3>1. pc'[r] \notin {"reading2", "pinning"} BY <2>2 DEF Sent
    <3>2. ~(IsRead(r)' /\ status'[r] = "OK") BY <2>2 DEF Sent, IsRead
    <3> QED BY <3>1, <3>2 DEF Reading
  <2>3. CASE UNCHANGED <<pc[r], call[r], status[r]>>
    <3>1. ASSUME IsRead(r), status[r] = "OK" PROVE Final(seen[r], Tid(r))'
      <4>1. PICK view, own : view = seen[r] /\ own = Tid(r) OBVIOUS
      <4>2. Final(view, own) BY <2>1, <3>1, <4>1 DEF Reading
      <4>3. \A v \in view : call'[v[1]] = call[v[1]] BY <1>5, <4>1
      <4>4. Final(view, own)' BY <1>4, <4>2, <4>3
      <4>5. view = seen'[r] /\ own = Tid(r)' BY <1>1, <2>3, <4>1 DEF Tid
      <4> QED BY <4>4, <4>5 DEF Final, Foreign, Coherent
    <3>2. (pc[r] = "reading2" /\ (InTxn(r) => conn[Tid(r)] # "snapshot") =>
            /\ seen[r] \subseteq In(at[r], "main")
            /\ published \cap In(at[r], "main") \subseteq seen[r]
            /\ \A v \in seen[r] : Foreign(v, Tid(r)) => v \in published)'
      BY <1>1, <1>5, <2>1, <2>3 DEF Reading, InTxn, Tid, Foreign, In
    <3>3. (pc[r] = "pinning" => snap[Tid(r)] = published \cap In(at[r], "main"))'
      BY <1>1, <2>1, <2>3 DEF Reading, Tid, In
    <3> QED BY <2>3, <3>1, <3>2, <3>3 DEF Reading, IsRead
  <2> QED BY <2>2, <2>3 DEF Outside
<1>7. ASSUME NEW t \in Txns, conn'[t] = "snapshot" PROVE Final(snap[t], NoTxn)'
  <2>1. PICK view, own : view = snap[t] /\ own = NoTxn OBVIOUS
  <2>2. Final(view, own) BY <1>1, <1>7, <2>1 DEF Reads
  <2>3. \A v \in view : v \in published BY <2>1, <2>2 DEF Final, Foreign
  <2>4. Final(view, own)' BY <1>2, <1>4, <2>2, <2>3
  <2> QED BY <1>1, <2>1, <2>4 DEF Final, Foreign, Coherent
<1>8. ASSUME NEW r \in Requests, NEW v \in seen'[r] PROVE pc'[v[1]] \notin Early
  BY <1>1, <1>5, <1>8 DEF Reads
<1> QED BY <1>1, <1>3, <1>6, <1>7, <1>8 DEF Reads

LEMMA ReadsNext ==
  ASSUME AutoRollback = FALSE, Typed, Locks, Connections, Storage, Snaps, Reads,
         [Next /\ UNCHANGED scenario]_<<vars, scenario>>
  PROVE  Reads'
<1>1. TypeOK /\ TypeOK' BY LocksNext DEF Typed
<1>2. CASE \E a \in Actors : Step(a)
  <2>1. PICK a \in Actors : Step(a) BY <1>2
  <2>2. Acts(a) /\ published \subseteq published' /\ Remembers(a)
    BY <1>1, <2>1, StepLocks, StepConn, StepStores DEF Spares
  <2>3. \A w \in published' : Whole(w)' BY <1>1, <2>1, <2>2, WholeKept
  <2>4. \A r \in Requests : Reading(r)'
    BY <1>1, <2>1, <2>2, OthersKeepReading, ReaderKeepsReading
  <2>5. \A t \in Txns : conn'[t] = "snapshot" => Final(snap[t], NoTxn)'
    BY <1>1, <2>1, <2>2, SnapshotKept
  <2>6. \A r \in Requests : \A v \in seen'[r] : pc'[v[1]] \notin Early
    BY <1>1, <2>1, <2>2, SeenKept
  <2> QED BY <2>3, <2>4, <2>5, <2>6 DEF Reads
<1>3. CASE Outside BY <1>1, <1>3, OutsideKeepsReads
<1> QED BY <1>2, <1>3, StepOrOutside

\* A published write is of a unit that is complete, or that a COMMIT at work
\* inside the hive is completing; what readers have seen and snapshots have
\* pinned is complete for good (readQ, getReadQuerier, publication_gate.go).
THEOREM ReadsInvariant ==
  ASSUME AutoRollback = FALSE
  PROVE  Spec => []Reads
<1>1. Init => Reads
  BY ActorFacts DEF Init, Reads, Reading, Final, Coherent
<1>2. /\ Typed /\ Locks /\ Connections /\ Storage /\ Snaps /\ Reads
      /\ [Next /\ UNCHANGED scenario]_<<vars, scenario>>
      => Reads'
  BY ReadsNext
<1> QED BY <1>1, <1>2, LocksInvariant, ConnInvariant, StorageInvariant, SnapshotsInvariant, PTL
        DEF Spec

\* No reader observes main before a commit and volatile after it, whatever it
\* interleaves with (readQ, openPinnedSnapshot, commitConn).
THEOREM NoTornReads ==
  ASSUME AutoRollback = FALSE
  PROVE  Spec => []CoherentReads
<1>1. Reads => CoherentReads BY DEF Reads, Reading, Final, CoherentReads
<1> QED BY <1>1, ReadsInvariant, PTL
=============================================================================
