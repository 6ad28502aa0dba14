--------------------------- MODULE TransactionsProofs ---------------------------
(***************************************************************************)
(* Proofs about Transactions, for any requests, transactions, hives and    *)
(* scenarios: locks, connections and leases.  The data they protect is in  *)
(* TransactionsDataProofs.                                                 *)
(*                                                                         *)
(* An actor holds the operation gate of its transaction and the gate of    *)
(* its hive exactly while it works (Locks); what it has established of     *)
(* either stays true because of them (Connections, which says who has the  *)
(* write connection of a hive).  Both are proved in the same way: a step   *)
(* of one actor changes only what Acts and Spares let it change, so the    *)
(* others keep their part of the invariant whatever the step is, and each  *)
(* action has a lemma that keeps the part of its own actor.                *)
(***************************************************************************)
EXTENDS Transactions, TLAPS

\* A call is under way and may hold locks.
Holding == Places \ {"idle", "operation", "answered"}
\* Past the gate of the hive it works on.
Gated == {"routing", "connect", "statement", "commit", "publishing",
          "pin", "pinning", "reading", "reading2"}

\* Each place belongs to the calls whose handlers get there.
Fits(a) ==
  /\ pc[a] = "routing" => call[a].op # "abort"
  /\ pc[a] = "connect" => call[a].op \in {"write", "flush", "deleteLayer"}
  /\ pc[a] = "statement" => call[a].op \in {"write", "deleteLayer"}
  /\ pc[a] \in {"commit", "publishing"} =>
       call[a].op \in {"write", "deleteLayer", "commit"} /\ ~InClientTxn(a)
  /\ pc[a] \in {"pin", "pinning"} => IsRead(a) /\ InTxn(a)
  /\ pc[a] \in {"reading", "reading2"} => IsRead(a)
  /\ pc[a] \in {"ending", "rollback"} => call[a].op = "abort"
  /\ pc[a] = "poisoning" => ~IsControl(a) /\ InTxn(a)
  /\ pc[a] = "operation" => InTxn(a)
  /\ pc[a] # "idle" /\ IsControl(a) => InTxn(a)
  /\ a \notin Requests => call[a].op = "abort"
  /\ a \in late => pc[a] # "idle" /\ call[a].op # "abort"
  /\ pc[a] = "idle" => status[a] = "none"
  /\ pc[a] \in {"idle", "operation", "admitted"} => todo[a] = {}
  /\ todo[a] # {} => call[a].op = "deleteLayer" /\ at[a] \in Hives /\ at[a] \notin todo[a]

\* An actor holds the operation gate of its transaction exactly while it is
\* working, and the gate of the hive it is working on.  An abort finds the hive
\* its transaction is bound to; the closer's `at` may be of an earlier one.
HoldsLocks(a) ==
  /\ pc[a] \in Holding /\ InTxn(a) => opHolder[Tid(a)] = a
  /\ \A t \in Txns : opHolder[t] = a => pc[a] \in Holding /\ Tid(a) = t
  /\ pc[a] \notin {"idle", "answered"} /\ InTxn(a) => Tid(a) \in begun
  /\ \A h \in Hives : a \in inside[h] =>
       at[a] = h /\ pc[a] \in Gated \cup {"ending", "rollback", "finish", "poisoning"}
  /\ pc[a] = "gate" => at[a] \in Hives
  /\ pc[a] \in Gated /\ call[a].op # "commit" => at[a] \in Hives /\ a \in inside[at[a]]
  /\ pc[a] \in Gated \cup {"gate"} /\ call[a].op \in {"write", "read", "flush"} =>
       at[a] = call[a].hive
  /\ pc[a] = "gate" /\ IsControl(a) => bound[Tid(a)] = at[a]
  /\ pc[a] \in Gated \cup {"ending", "rollback"} /\ IsControl(a) =>
       bound[Tid(a)] = NoHive \/ (at[a] = bound[Tid(a)] /\ a \in inside[at[a]])

\* A writer is alone inside a hive.
Exclusive(h) == \A a, b \in inside[h] : a # b => IsRead(a) /\ IsRead(b)

Locks ==
  /\ \A a \in Actors : Fits(a) /\ HoldsLocks(a)
  /\ \A h \in Hives : Exclusive(h)
  /\ \A t \in Txns : t \notin cleaning => pc[Cleaner(t)] = "idle"
  /\ \A t \in Txns : bound[t] # NoHive => t \in begun

\* The connection and SQLite's transaction belong to this while a works on them.
Owner(a) == IF InClientTxn(a) \/ call[a].op = "commit" THEN Tid(a) ELSE a

Poisoned(t) == opHolder[t] \in Actors /\ pc[opHolder[t]] = "poisoning"

\* Places of a writer that is past the competition for its hive.
Writing == {"connect", "statement", "commit", "publishing"}

\* A call in a registered transaction, until it unregisters it.
Works(a) ==
  /\ pc[a] \in Holding \ {"rollback"} /\ InTxn(a)
  /\ pc[a] = "finish" => ~IsControl(a)

\* What a handler has established of its transaction and its hive, at each
\* place.
UsesConn(a) ==
  /\ Works(a) => Tid(a) \in registered
  /\ pc[a] \in Writing \cup {"gate", "routing"} /\ call[a].op \in {"write", "flush", "deleteLayer"} =>
       Tid(a) \notin readOnly
  /\ pc[a] = "connect" /\ InClientTxn(a) => conn[Tid(a)] = "none" /\ Tid(a) \notin failed
  /\ pc[a] = "statement" /\ InClientTxn(a) => conn[Tid(a)] = "write" /\ bound[Tid(a)] = at[a]
  /\ pc[a] \in {"commit", "publishing"} /\ call[a].op = "commit" => conn[Tid(a)] = "write"
  /\ pc[a] \in Gated \cup {"gate"} /\ call[a].op = "commit" => Tid(a) \notin failed
  /\ pc[a] \in {"pin", "pinning"} =>
       conn[Tid(a)] = "none" /\ Tid(a) \notin failed /\ Tid(a) \in readOnly
  /\ pc[a] \in {"reading", "reading2"} /\ InTxn(a) =>
       /\ Tid(a) \notin failed
       /\ conn[Tid(a)] = "none" => Tid(a) \notin readOnly
       /\ conn[Tid(a)] # "none" => bound[Tid(a)] = at[a]
  /\ pc[a] = "poisoning" => conn[Tid(a)] # "none"
  /\ pc[a] \in {"statement", "commit", "publishing"} => writeConn[at[a]] = Owner(a)
  /\ \A h \in Hives : writeConn[h] = a =>
       at[a] = h /\ pc[a] \in {"statement", "commit", "publishing"} /\ Owner(a) = a

\* No transaction but its own has a writer's hive.
Alone(a) ==
  pc[a] \in Writing =>
    \A t \in Txns : conn[t] = "write" /\ bound[t] = at[a] => t = Owner(a) /\ pc[a] # "connect"

\* A transaction that pins a connection is bound, is registered until its abort
\* rolls back, and has the connection exactly when it is the pinned one.
Pins(t) ==
  /\ conn[t] # "none" => bound[t] \in Hives
  /\ conn[t] # "none" /\ t \notin registered =>
       opHolder[t] \in Actors /\ pc[opHolder[t]] = "rollback"
  /\ conn[t] = "write" => t \notin readOnly
  /\ conn[t] = "snapshot" => t \in readOnly
  /\ conn[t] = "write" /\ ~Poisoned(t) => writeConn[bound[t]] = t
  /\ \A h \in Hives : writeConn[h] = t => conn[t] = "write" /\ bound[t] = h /\ ~Poisoned(t)

OnePerHive ==
  \A t, u \in Txns : conn[t] = "write" /\ conn[u] = "write" /\ bound[t] = bound[u] => t = u

Connections ==
  /\ \A a \in Actors : UsesConn(a) /\ Alone(a)
  /\ \A t \in Txns : Pins(t)
  /\ OnePerHive

Typed == TypeOK /\ scenario \in Scenarios

-----------------------------------------------------------------------------
LEMMA ActorFacts ==
  /\ Requests \subseteq Actors /\ Closer \in Actors /\ Closer \notin Requests
  /\ \A t \in Txns : Cleaner(t) \in Actors /\ Cleaner(t) \notin Requests
  /\ \A t, u \in Txns : Cleaner(t) = Cleaner(u) => t = u
  /\ \A t \in Txns : Cleaner(t)[2] = t /\ Cleaner(t) # Closer
  /\ \A a \in Actors : a \in Requests \/ a = Closer \/ \E t \in Txns : a = Cleaner(t)
  /\ Nobody \notin Actors /\ Actors \cap Txns = {} /\ NoTxn \notin Txns /\ NoHive \notin Hives
  /\ Nobody \notin Txns
BY ConstantsAssumption, ActorsAssumption DEF Actors, Cleaner, Closer

\* What a step of a leaves alone: the locals of the others, and transactions
\* whose operation gate it does not hold.
Acts(a) ==
  /\ \A b \in Actors : b # a =>
       /\ pc'[b] = pc[b] /\ call'[b] = call[b] /\ at'[b] = at[b] /\ todo'[b] = todo[b]
       /\ status'[b] = status[b] /\ seen'[b] = seen[b] /\ (b \in late' <=> b \in late)
       /\ \A h \in Hives : b \in inside'[h] <=> b \in inside[h]
  /\ \A h \in Hives : a \in inside'[h] =>
       call'[a] = call[a] /\ (a \in inside[h] \/ (pc[a] = "gate" /\ MayEnter(a) /\ at[a] = h))
  /\ \A t \in Txns : opHolder[t] # a =>
       /\ \/ opHolder'[t] = opHolder[t]
          \/ opHolder[t] = Nobody /\ opHolder'[t] = a /\ pc'[a] = "admitted"
       /\ conn'[t] = conn[t] /\ bound'[t] = bound[t] /\ snap'[t] = snap[t]
       /\ t \in registered' <=> t \in registered
       /\ t \in failed' <=> t \in failed
  /\ \A t \in Txns : opHolder[t] = a => opHolder'[t] \in {a, Nobody}
  /\ begun' = begun /\ readOnly' = readOnly /\ cleaning' = cleaning
  /\ pc[a] = "idle" => \A t \in Txns : a # Cleaner(t)

USE DEF txnVars, leaseVars, lockVars, storeVars, actorVars
USE DEF Goto, Settle, Proceed, Refuse, WaitAt, Admitted

LEMMA OthersKeepLocks ==
  ASSUME TypeOK, Locks, NEW a \in Actors, Acts(a), NEW b \in Actors, b # a
  PROVE  Fits(b)' /\ HoldsLocks(b)'
<1>1. Fits(b) /\ HoldsLocks(b) BY DEF Locks
<1>2. /\ pc'[b] = pc[b] /\ call'[b] = call[b] /\ at'[b] = at[b] /\ todo'[b] = todo[b]
      /\ status'[b] = status[b] /\ (b \in late' <=> b \in late)
      /\ \A h \in Hives : b \in inside'[h] <=> b \in inside[h]
  BY DEF Acts
<1>3. Fits(b)'
  BY <1>1, <1>2 DEF Fits, InClientTxn, InTxn, Tid, IsRead, IsControl
<1>4. \A t \in Txns : opHolder'[t] = b <=> opHolder[t] = b
  BY ActorFacts DEF Acts
<1>5. \A t \in Txns : opHolder[t] = b => bound'[t] = bound[t]
  BY DEF Acts
<1>6. begun' = begun BY DEF Acts
<1>7. InTxn(b) => Tid(b) \in Txns BY DEF TypeOK, Call, Tid, InTxn
<1>8. HoldsLocks(b)'
  <2>1. InTxn(b)' = InTxn(b) /\ Tid(b)' = Tid(b) /\ IsControl(b)' = IsControl(b)
    BY <1>2 DEF InTxn, Tid, IsControl
  <2>2. pc'[b] \in Holding /\ InTxn(b) => opHolder'[Tid(b)] = b
    BY <1>1, <1>2, <1>4, <1>7 DEF HoldsLocks
  <2>3. \A t \in Txns : opHolder'[t] = b => pc'[b] \in Holding /\ Tid(b) = t
    BY <1>1, <1>2, <1>4 DEF HoldsLocks
  <2>4. pc'[b] \notin {"idle", "answered"} /\ InTxn(b) => Tid(b) \in begun'
    BY <1>1, <1>2, <1>6 DEF HoldsLocks
  <2>5. /\ pc'[b] = "gate" /\ IsControl(b) => bound'[Tid(b)] = at'[b]
        /\ pc'[b] \in Gated \cup {"ending", "rollback"} /\ IsControl(b) =>
             bound'[Tid(b)] = NoHive \/ (at'[b] = bound'[Tid(b)] /\ b \in inside'[at'[b]])
    <3>1. pc[b] \in Gated \cup {"gate", "ending", "rollback"} /\ IsControl(b) =>
            bound'[Tid(b)] = bound[Tid(b)]
      BY <1>1, <1>5, <1>7 DEF HoldsLocks, Holding, Places, Gated, Fits
    <3>2. bound[Tid(b)] \in Hives \/ bound[Tid(b)] = NoHive \/ ~InTxn(b)
      BY <1>7 DEF TypeOK
    <3>3. pc[b] # "idle" /\ IsControl(b) => InTxn(b) BY <1>1 DEF Fits
    <3> QED BY <1>1, <1>2, <3>1, <3>2, <3>3 DEF HoldsLocks, Gated
  <2> QED BY <1>1, <1>2, <2>1, <2>2, <2>3, <2>4, <2>5 DEF HoldsLocks
<1> QED BY <1>3, <1>8

\* So a step keeps every lock if the one who takes it keeps its own.
LEMMA ActsKeepsLocks ==
  ASSUME TypeOK, TypeOK', Locks, NEW a \in Actors, Acts(a), Fits(a)', HoldsLocks(a)'
  PROVE  Locks'
<1>1. \A b \in Actors : (Fits(b) /\ HoldsLocks(b))'
  BY OthersKeepLocks
<1>2. ASSUME NEW h \in Hives PROVE Exclusive(h)'
  <2> SUFFICES ASSUME NEW b \in inside'[h], NEW c \in inside'[h], b # c
               PROVE  IsRead(b)' /\ IsRead(c)'
    BY DEF Exclusive
  <2>1. inside[h] \subseteq Actors /\ inside'[h] \subseteq Actors BY DEF TypeOK
  <2>2. call'[b] = call[b] /\ call'[c] = call[c] BY <2>1 DEF Acts
  <2>3. Exclusive(h) BY DEF Locks
  <2>4. CASE b \in inside[h] /\ c \in inside[h]
    BY <2>2, <2>3, <2>4 DEF Exclusive, IsRead
  <2>5. CASE b \notin inside[h]
    <3>1. b = a /\ MayEnter(a) /\ at[a] = h /\ c \in inside[h] BY <2>1, <2>5 DEF Acts
    <3>2. IsRead(b) /\ IsRead(c) BY <3>1 DEF MayEnter
    <3> QED BY <3>2, <2>2 DEF IsRead
  <2>6. CASE c \notin inside[h]
    <3>1. c = a /\ MayEnter(a) /\ at[a] = h /\ b \in inside[h] BY <2>1, <2>6 DEF Acts
    <3>2. IsRead(b) /\ IsRead(c) BY <3>1 DEF MayEnter
    <3> QED BY <3>2, <2>2 DEF IsRead
  <2> QED BY <2>4, <2>5, <2>6
<1>3. \A t \in Txns : t \notin cleaning' => pc'[Cleaner(t)] = "idle"
  BY ActorFacts DEF Acts, Locks
<1>4. ASSUME NEW t \in Txns, bound'[t] # NoHive PROVE t \in begun'
  <2>1. CASE opHolder[t] # a BY <1>4, <2>1 DEF Acts, Locks
  <2>2. CASE opHolder[t] = a
    <3>1. HoldsLocks(a) BY DEF Locks
    <3>2. pc[a] \in Holding /\ Tid(a) = t BY <2>2, <3>1 DEF HoldsLocks
    <3>3. InTxn(a) BY <3>2, ActorFacts DEF InTxn
    <3>4. t \in begun BY <3>1, <3>2, <3>3 DEF HoldsLocks, Holding
    <3> QED BY <3>4 DEF Acts
  <2> QED BY <2>1, <2>2
<1> QED BY <1>1, <1>2, <1>3, <1>4 DEF Locks

LEMMA AdmitOperationLocks ==
  ASSUME TypeOK, Locks, NEW a \in Actors, AdmitOperation(a)
  PROVE  TypeOK' /\ Acts(a) /\ Fits(a)' /\ HoldsLocks(a)'
<1>1. Fits(a) /\ HoldsLocks(a) BY DEF Locks
<1>2. (InTxn(a) => Tid(a) \in Txns) /\ call[a] \in Call BY DEF TypeOK, Call, Tid, InTxn
<1>3. TypeOK'
  <2>1. expired' \subseteq Txns
    BY <1>1, <1>2 DEF AdmitOperation, TypeOK, Fits
  <2>2. opHolder' \in [Txns -> Actors \cup {Nobody}]
    BY <1>2, ActorFacts DEF AdmitOperation, TypeOK
  <2>3. pc' \in [Actors -> Places]
    BY DEF AdmitOperation, TypeOK, Places
  <2>4. status' \in [Actors -> Statuses]
    BY DEF AdmitOperation, TypeOK, Places, Statuses
  <2>5. UNCHANGED <<registered, begun, readOnly, bound, conn, failed, cleaning, lease,
     owned, renewal, inside, writeConn, sqlTxn, pending, published, snap, call, at, todo,
     late, seen, phase>>
    BY DEF AdmitOperation
  <2> QED BY <2>1, <2>2, <2>3, <2>4, <2>5 DEF TypeOK
<1>5. Acts(a)
  BY <1>1, <1>2, <1>3, ActorFacts DEF AdmitOperation, TypeOK, Acts, HoldsLocks, Holding,
     Places, InTxn
<1>6. Fits(a)'
  BY <1>1, <1>2, <1>3, ActorFacts DEF AdmitOperation, TypeOK, Fits, InClientTxn, InTxn,
     Tid, IsRead, IsControl, Ops, Call
<1>7. HoldsLocks(a)'
  BY <1>1, <1>2, <1>3, ActorFacts DEF AdmitOperation, TypeOK, Fits, HoldsLocks, InTxn,
     Tid, IsControl, Gated, Holding, Places, InClientTxn, IsRead
<1> QED BY <1>3, <1>5, <1>6, <1>7

LEMMA OperationTimeoutLocks ==
  ASSUME TypeOK, Locks, NEW a \in Actors, OperationTimeout(a)
  PROVE  TypeOK' /\ Acts(a) /\ Fits(a)' /\ HoldsLocks(a)'
<1>1. Fits(a) /\ HoldsLocks(a) BY DEF Locks
<1>2. (InTxn(a) => Tid(a) \in Txns) /\ call[a] \in Call BY DEF TypeOK, Call, Tid, InTxn
<1>3. TypeOK'
  BY DEF OperationTimeout, TypeOK, Tid, Places, Statuses
<1>5. Acts(a)
  BY <1>1, <1>2, <1>3, ActorFacts DEF OperationTimeout, TypeOK, Acts, HoldsLocks, Holding,
     Places, InTxn
<1>6. Fits(a)'
  BY <1>1, <1>2, <1>3, ActorFacts DEF OperationTimeout, TypeOK, Fits, InClientTxn, InTxn,
     Tid, IsRead, IsControl, Ops, Call
<1>7. HoldsLocks(a)'
  BY <1>1, <1>2, <1>3, ActorFacts DEF OperationTimeout, TypeOK, Fits, HoldsLocks, InTxn,
     Tid, IsControl, Gated, Holding, Places, InClientTxn, IsRead
<1> QED BY <1>3, <1>5, <1>6, <1>7

LEMMA StartLocks ==
  ASSUME TypeOK, Locks, NEW a \in Actors, Start(a)
  PROVE  TypeOK' /\ Acts(a) /\ Fits(a)' /\ HoldsLocks(a)'
<1>1. Fits(a) /\ HoldsLocks(a) BY DEF Locks
<1>2. (InTxn(a) => Tid(a) \in Txns) /\ call[a] \in Call BY DEF TypeOK, Call, Tid, InTxn
<1>3. TypeOK'
  <2>1. pc' \in [Actors -> Places]
    BY DEF Start, StartMutation, StartRead, StartDeleteLayer, StartCommit, StartAbort,
       TypeOK, Places, Statuses
  <2>2. status' \in [Actors -> Statuses]
    BY DEF Start, StartMutation, StartRead, StartDeleteLayer, StartCommit, StartAbort,
       TypeOK, Places, Statuses
  <2>3. at' \in [Actors -> Hives \cup {NoHive}]
    <3>1. CASE StartMutation(a) \/ StartRead(a) \/ StartDeleteLayer(a)
      BY <3>1, <1>2 DEF StartMutation, StartRead, StartDeleteLayer, TypeOK, Call
    <3>2. CASE StartCommit(a) \/ StartAbort(a)
      <4>1. InTxn(a) BY <3>2, <1>1 DEF StartCommit, StartAbort, Fits, IsControl
      <4> QED BY <3>2, <4>1, <1>2 DEF StartCommit, StartAbort, TypeOK
    <3> QED BY <3>1, <3>2 DEF Start
  <2>4. todo' \in [Actors -> SUBSET Hives]
    BY DEF Start, StartMutation, StartRead, StartDeleteLayer, StartCommit, StartAbort,
       TypeOK, Places, Statuses
  <2>5. UNCHANGED <<registered, begun, readOnly, bound, conn, failed, expired, cleaning,
     lease, owned, renewal, opHolder, inside, writeConn, sqlTxn, pending, published, snap,
     call, late, seen, phase>>
    BY DEF Start, StartMutation, StartRead, StartDeleteLayer, StartCommit, StartAbort
  <2> QED BY <2>1, <2>2, <2>3, <2>4, <2>5 DEF TypeOK
<1>5. Acts(a)
  <2>1. pc[a] = "admitted" /\ pc' = [pc EXCEPT ![a] = pc'[a]]
    BY DEF Start, StartMutation, StartRead, StartDeleteLayer, StartCommit, StartAbort, TypeOK
  <2>2. \A b \in Actors : b # a => at'[b] = at[b] /\ todo'[b] = todo[b] /\ status'[b] = status[b]
    BY DEF Start, StartMutation, StartRead, StartDeleteLayer, StartCommit, StartAbort, TypeOK
  <2>3. UNCHANGED <<txnVars, leaseVars, lockVars, storeVars, call, late, seen, phase>> BY DEF Start
  <2> QED BY <2>1, <2>2, <2>3, <1>1, ActorFacts DEF Acts, TypeOK
<1>6. Fits(a)'
  <2>1. CASE StartMutation(a)
    BY <2>1, <1>1, <1>2, <1>3, ActorFacts DEF Start, StartMutation, TypeOK, Fits,
       InClientTxn, InTxn, Tid, IsRead, IsControl, Ops, Call
  <2>2. CASE StartRead(a)
    BY <2>2, <1>1, <1>2, <1>3, ActorFacts DEF Start, StartRead, TypeOK, Fits, InClientTxn,
       InTxn, Tid, IsRead, IsControl, Ops, Call
  <2>3. CASE StartDeleteLayer(a)
    BY <2>3, <1>1, <1>2, <1>3, ActorFacts DEF Start, StartDeleteLayer, TypeOK, Fits,
       InClientTxn, InTxn, Tid, IsRead, IsControl, Ops, Call
  <2>4. CASE StartCommit(a)
    BY <2>4, <1>1, <1>2, <1>3, ActorFacts DEF Start, StartCommit, TypeOK, Fits,
       InClientTxn, InTxn, Tid, IsRead, IsControl, Ops, Call
  <2>5. CASE StartAbort(a)
    BY <2>5, <1>1, <1>2, <1>3, ActorFacts DEF Start, StartAbort, TypeOK, Fits,
       InClientTxn, InTxn, Tid, IsRead, IsControl, Ops, Call
  <2> QED BY <2>1, <2>2, <2>3, <2>4, <2>5 DEF Start
<1>7. HoldsLocks(a)'
  <2>1. CASE StartMutation(a)
    BY <2>1, <1>1, <1>2, <1>3, ActorFacts DEF Start, StartMutation, TypeOK, Call, Fits,
       HoldsLocks, InTxn, Tid, IsControl, Gated, Holding, Places, InClientTxn, IsRead
  <2>2. CASE StartRead(a)
    BY <2>2, <1>1, <1>2, <1>3, ActorFacts DEF Start, StartRead, TypeOK, Call, Fits,
       HoldsLocks, InTxn, Tid, IsControl, Gated, Holding, Places, InClientTxn, IsRead
  <2>3. CASE StartDeleteLayer(a)
    BY <2>3, <1>1, <1>2, <1>3, ActorFacts DEF Start, StartDeleteLayer, TypeOK, Call, Fits,
       HoldsLocks, InTxn, Tid, IsControl, Gated, Holding, Places, InClientTxn, IsRead
  <2>4. CASE StartCommit(a)
    BY <2>4, <1>1, <1>2, <1>3, ActorFacts DEF Start, StartCommit, TypeOK, Call, Fits,
       HoldsLocks, InTxn, Tid, IsControl, Gated, Holding, Places, InClientTxn, IsRead
  <2>5. CASE StartAbort(a)
    BY <2>5, <1>1, <1>2, <1>3, ActorFacts DEF Start, StartAbort, TypeOK, Call, Fits,
       HoldsLocks, InTxn, Tid, IsControl, Gated, Holding, Places, InClientTxn, IsRead
  <2> QED BY <2>1, <2>2, <2>3, <2>4, <2>5 DEF Start
<1> QED BY <1>3, <1>5, <1>6, <1>7

LEMMA EnterGateLocks ==
  ASSUME TypeOK, Locks, NEW a \in Actors, EnterGate(a)
  PROVE  TypeOK' /\ Acts(a) /\ Fits(a)' /\ HoldsLocks(a)'
<1>1. Fits(a) /\ HoldsLocks(a) BY DEF Locks
<1>2. (InTxn(a) => Tid(a) \in Txns) /\ call[a] \in Call BY DEF TypeOK, Call, Tid, InTxn
<1>3. TypeOK'
  BY DEF EnterGate, TypeOK, Tid, Places, Statuses
<1>5. Acts(a)
  BY <1>1, <1>2, <1>3, ActorFacts DEF EnterGate, TypeOK, Acts, HoldsLocks, Holding,
     Places, InTxn
<1>6. Fits(a)'
  BY <1>1, <1>2, <1>3, ActorFacts DEF EnterGate, TypeOK, Fits, InClientTxn, InTxn, Tid,
     IsRead, IsControl, Ops, Call
<1>7. HoldsLocks(a)'
  BY <1>1, <1>2, <1>3, ActorFacts DEF EnterGate, TypeOK, Fits, HoldsLocks, InTxn, Tid,
     IsControl, Gated, Holding, Places, InClientTxn, IsRead
<1> QED BY <1>3, <1>5, <1>6, <1>7

LEMMA GateTimeoutLocks ==
  ASSUME TypeOK, Locks, NEW a \in Actors, GateTimeout(a)
  PROVE  TypeOK' /\ Acts(a) /\ Fits(a)' /\ HoldsLocks(a)'
<1>1. Fits(a) /\ HoldsLocks(a) BY DEF Locks
<1>2. (InTxn(a) => Tid(a) \in Txns) /\ call[a] \in Call BY DEF TypeOK, Call, Tid, InTxn
<1>3. TypeOK'
  BY DEF GateTimeout, TypeOK, Tid, Places, Statuses
<1>5. Acts(a)
  BY <1>1, <1>2, <1>3, ActorFacts DEF GateTimeout, TypeOK, Acts, HoldsLocks, Holding,
     Places, InTxn
<1>6. Fits(a)'
  BY <1>1, <1>2, <1>3, ActorFacts DEF GateTimeout, TypeOK, Fits, InClientTxn, InTxn, Tid,
     IsRead, IsControl, Ops, Call
<1>7. HoldsLocks(a)'
  BY <1>1, <1>2, <1>3, ActorFacts DEF GateTimeout, TypeOK, Fits, HoldsLocks, InTxn, Tid,
     IsControl, Gated, Holding, Places, InClientTxn, IsRead
<1> QED BY <1>3, <1>5, <1>6, <1>7

LEMMA RouteWriteLocks ==
  ASSUME TypeOK, Locks, NEW a \in Actors, RouteWrite(a)
  PROVE  TypeOK' /\ Acts(a) /\ Fits(a)' /\ HoldsLocks(a)'
<1>1. Fits(a) /\ HoldsLocks(a) BY DEF Locks
<1>2. (InTxn(a) => Tid(a) \in Txns) /\ call[a] \in Call BY DEF TypeOK, Call, Tid, InTxn
<1>3. TypeOK'
  BY DEF RouteWrite, DeclineBusy, TypeOK, Tid, Places, Statuses
<1>5. Acts(a)
  BY <1>1, <1>2, <1>3, ActorFacts DEF RouteWrite, DeclineBusy, TypeOK, Acts, HoldsLocks,
     Holding, Places, InTxn
<1>6. Fits(a)'
  BY <1>1, <1>2, <1>3, ActorFacts DEF RouteWrite, DeclineBusy, TypeOK, Fits, InClientTxn,
     InTxn, Tid, IsRead, IsControl, Ops, Call
<1>7. HoldsLocks(a)'
  BY <1>1, <1>2, <1>3, ActorFacts DEF RouteWrite, DeclineBusy, TypeOK, Fits, HoldsLocks,
     InTxn, Tid, IsControl, Gated, Holding, Places, InClientTxn, IsRead
<1> QED BY <1>3, <1>5, <1>6, <1>7

LEMMA ConnectLocks ==
  ASSUME TypeOK, Locks, NEW a \in Actors, Connect(a)
  PROVE  TypeOK' /\ Acts(a) /\ Fits(a)' /\ HoldsLocks(a)'
<1>1. Fits(a) /\ HoldsLocks(a) BY DEF Locks
<1>2. (InTxn(a) => Tid(a) \in Txns) /\ call[a] \in Call BY DEF TypeOK, Call, Tid, InTxn
<1>3. TypeOK'
  <2>1. writeConn' \in [Hives -> Actors \cup Txns \cup {Nobody}]
    BY <1>2, ActorFacts DEF Connect, TypeOK, InClientTxn
  <2>2. sqlTxn' \in [Hives -> BOOLEAN]
    BY DEF Connect, TypeOK, Places, Statuses
  <2>3. bound' \in [Txns -> Hives \cup {NoHive}]
    BY <1>1, <1>2 DEF Connect, TypeOK, HoldsLocks, Gated, InClientTxn
  <2>4. conn' \in [Txns -> {"none", "write", "snapshot"}]
    BY DEF Connect, TypeOK
  <2>5. pc' \in [Actors -> Places]
    BY DEF Connect, TypeOK, Places, Statuses
  <2>6. UNCHANGED <<registered, begun, readOnly, failed, expired, cleaning, lease, owned,
     renewal, opHolder, inside, pending, published, snap, call, at, todo, status, late,
     seen, phase>>
    BY DEF Connect
  <2> QED BY <2>1, <2>2, <2>3, <2>4, <2>5, <2>6 DEF TypeOK
<1>5. Acts(a)
  BY <1>1, <1>2, <1>3, ActorFacts DEF Connect, TypeOK, Acts, HoldsLocks, Holding, Places,
     InTxn
<1>6. Fits(a)'
  BY <1>1, <1>2, <1>3, ActorFacts DEF Connect, TypeOK, Fits, InClientTxn, InTxn, Tid,
     IsRead, IsControl, Ops, Call
<1>7. HoldsLocks(a)'
  BY <1>1, <1>2, <1>3, ActorFacts DEF Connect, TypeOK, Fits, HoldsLocks, InTxn, Tid,
     IsControl, Gated, Holding, Places, InClientTxn, IsRead
<1> QED BY <1>3, <1>5, <1>6, <1>7

LEMMA ConnectFailsLocks ==
  ASSUME TypeOK, Locks, NEW a \in Actors, ConnectFails(a)
  PROVE  TypeOK' /\ Acts(a) /\ Fits(a)' /\ HoldsLocks(a)'
<1>1. Fits(a) /\ HoldsLocks(a) BY DEF Locks
<1>2. (InTxn(a) => Tid(a) \in Txns) /\ call[a] \in Call BY DEF TypeOK, Call, Tid, InTxn
<1>3. TypeOK'
  <2>1. pc' \in [Actors -> Places]
    BY DEF ConnectFails, Errors, TypeOK, Places, Statuses
  <2>2. status' \in [Actors -> Statuses]
    BY DEF ConnectFails, Errors, TypeOK, Places, Statuses
  <2>3. UNCHANGED <<registered, begun, readOnly, bound, conn, failed, expired, cleaning,
     lease, owned, renewal, opHolder, inside, writeConn, sqlTxn, pending, published, snap,
     call, at, todo, late, seen, phase>>
    BY DEF ConnectFails, Errors
  <2> QED BY <2>1, <2>2, <2>3 DEF TypeOK
<1>5. Acts(a)
  BY <1>1, <1>2, <1>3, ActorFacts DEF ConnectFails, Errors, TypeOK, Acts, HoldsLocks,
     Holding, Places, InTxn
<1>6. Fits(a)'
  BY <1>1, <1>2, <1>3, ActorFacts DEF ConnectFails, Errors, TypeOK, Fits, InClientTxn,
     InTxn, Tid, IsRead, IsControl, Ops, Call
<1>7. HoldsLocks(a)'
  BY <1>1, <1>2, <1>3, ActorFacts DEF ConnectFails, Errors, TypeOK, Fits, HoldsLocks,
     InTxn, Tid, IsControl, Gated, Holding, Places, InClientTxn, IsRead
<1> QED BY <1>3, <1>5, <1>6, <1>7

LEMMA CheckpointLocks ==
  ASSUME TypeOK, Locks, NEW a \in Actors, Checkpoint(a)
  PROVE  TypeOK' /\ Acts(a) /\ Fits(a)' /\ HoldsLocks(a)'
<1>1. Fits(a) /\ HoldsLocks(a) BY DEF Locks
<1>2. (InTxn(a) => Tid(a) \in Txns) /\ call[a] \in Call BY DEF TypeOK, Call, Tid, InTxn
<1>3. TypeOK'
  <2>1. pc' \in [Actors -> Places]
    BY DEF Checkpoint, Errors, TypeOK, Places, Statuses
  <2>2. status' \in [Actors -> Statuses]
    BY DEF Checkpoint, Errors, TypeOK, Places, Statuses
  <2>3. UNCHANGED <<registered, begun, readOnly, bound, conn, failed, expired, cleaning,
     lease, owned, renewal, opHolder, inside, writeConn, sqlTxn, pending, published, snap,
     call, at, todo, late, seen, phase>>
    BY DEF Checkpoint, Errors
  <2> QED BY <2>1, <2>2, <2>3 DEF TypeOK
<1>5. Acts(a)
  BY <1>1, <1>2, <1>3, ActorFacts DEF Checkpoint, Errors, TypeOK, Acts, HoldsLocks,
     Holding, Places, InTxn
<1>6. Fits(a)'
  BY <1>1, <1>2, <1>3, ActorFacts DEF Checkpoint, Errors, TypeOK, Fits, InClientTxn,
     InTxn, Tid, IsRead, IsControl, Ops, Call
<1>7. HoldsLocks(a)'
  BY <1>1, <1>2, <1>3, ActorFacts DEF Checkpoint, Errors, TypeOK, Fits, HoldsLocks, InTxn,
     Tid, IsControl, Gated, Holding, Places, InClientTxn, IsRead
<1> QED BY <1>3, <1>5, <1>6, <1>7

LEMMA StatementLocks ==
  ASSUME TypeOK, Locks, NEW a \in Actors, Statement(a)
  PROVE  TypeOK' /\ Acts(a) /\ Fits(a)' /\ HoldsLocks(a)'
<1>1. Fits(a) /\ HoldsLocks(a) BY DEF Locks
<1>2. (InTxn(a) => Tid(a) \in Txns) /\ call[a] \in Call BY DEF TypeOK, Call, Tid, InTxn
<1>4. WritesOf(a, at[a], StoresOf(a)) \subseteq Writes
  <2>1. a \in Requests BY <1>1 DEF Statement, Fits
  <2>2. at[a] \in Hives BY <1>1 DEF Statement, HoldsLocks, Gated, Fits
  <2>3. StoresOf(a) \subseteq Stores BY <1>2 DEF StoresOf, Call
  <2> QED BY <2>1, <2>2, <2>3 DEF WritesOf, Writes
<1>3. TypeOK'
  <2>1. pending' \subseteq Writes
    BY <1>4 DEF Statement, TypeOK
  <2>2. published' \subseteq Writes
    BY <1>4 DEF Statement, TypeOK
  <2>3. pc' \in [Actors -> Places]
    BY DEF Statement, TypeOK, Places, Statuses
  <2>4. status' \in [Actors -> Statuses]
    BY DEF Statement, TypeOK, Places, Statuses
  <2>5. writeConn' \in [Hives -> Actors \cup Txns \cup {Nobody}]
    BY DEF Statement, TypeOK
  <2>6. UNCHANGED <<registered, begun, readOnly, bound, conn, failed, expired, cleaning,
     lease, owned, renewal, opHolder, inside, sqlTxn, snap, call, at, todo, late, seen,
     phase>>
    BY DEF Statement, WritesOf
  <2> QED BY <2>1, <2>2, <2>3, <2>4, <2>5, <2>6 DEF TypeOK
<1>5. Acts(a)
  BY <1>1, <1>2, <1>3, ActorFacts DEF Statement, WritesOf, TypeOK, Acts, HoldsLocks,
     Holding, Places, InTxn
<1>6. Fits(a)'
  BY <1>1, <1>2, <1>3, ActorFacts DEF Statement, WritesOf, TypeOK, Fits, InClientTxn,
     InTxn, Tid, IsRead, IsControl, Ops, Call
<1>7. HoldsLocks(a)'
  BY <1>1, <1>2, <1>3, ActorFacts DEF Statement, WritesOf, TypeOK, Fits, HoldsLocks,
     InTxn, Tid, IsControl, Gated, Holding, Places, InClientTxn, IsRead
<1> QED BY <1>3, <1>5, <1>6, <1>7

LEMMA StatementFailsLocks ==
  ASSUME TypeOK, Locks, NEW a \in Actors, StatementFails(a)
  PROVE  TypeOK' /\ Acts(a) /\ Fits(a)' /\ HoldsLocks(a)'
<1>1. Fits(a) /\ HoldsLocks(a) BY DEF Locks
<1>2. (InTxn(a) => Tid(a) \in Txns) /\ call[a] \in Call BY DEF TypeOK, Call, Tid, InTxn
<1>4. \A ran \in RanUntilFailure(a) : WritesOf(a, at[a], ran) \subseteq Writes
  <2>1. a \in Requests BY <1>1 DEF StatementFails, Fits
  <2>2. at[a] \in Hives BY <1>1 DEF StatementFails, HoldsLocks, Gated, Fits
  <2>3. \A ran \in RanUntilFailure(a) : ran \subseteq Stores
    BY <1>2 DEF StoresOf, Call, RanUntilFailure
  <2> QED BY <2>1, <2>2, <2>3 DEF WritesOf, Writes
<1>3. TypeOK'
  <2>1. published' \subseteq Writes
    BY <1>4 DEF StatementFails, TypeOK
  <2>2. pending' \subseteq Writes
    BY <1>4 DEF StatementFails, TypeOK, Discarded
  <2>3. sqlTxn' \in [Hives -> BOOLEAN]
    BY DEF StatementFails, WritesOf, Discarded, RanUntilFailure, StoresOf, Errors,
       MayEndTransaction, TypeOK, Places, Statuses
  <2>4. writeConn' \in [Hives -> Actors \cup Txns \cup {Nobody}]
    BY DEF StatementFails, TypeOK
  <2>5. pc' \in [Actors -> Places]
    BY DEF StatementFails, Errors, TypeOK, Places, Statuses
  <2>6. status' \in [Actors -> Statuses]
    BY DEF StatementFails, Errors, TypeOK, Places, Statuses
  <2>7. UNCHANGED <<registered, begun, readOnly, bound, conn, failed, expired, cleaning,
     lease, owned, renewal, opHolder, inside, snap, call, at, todo, late, seen, phase>>
    BY DEF StatementFails, WritesOf, Discarded, RanUntilFailure, StoresOf, Errors,
       MayEndTransaction
  <2> QED BY <2>1, <2>2, <2>3, <2>4, <2>5, <2>6, <2>7 DEF TypeOK
<1>5. Acts(a)
  BY <1>1, <1>2, <1>3, ActorFacts DEF StatementFails, WritesOf, Discarded,
     RanUntilFailure, StoresOf, Errors, MayEndTransaction, TypeOK, Acts, HoldsLocks,
     Holding, Places, InTxn
<1>6. Fits(a)'
  BY <1>1, <1>2, <1>3, ActorFacts DEF StatementFails, WritesOf, Discarded,
     RanUntilFailure, StoresOf, Errors, MayEndTransaction, TypeOK, Fits, InClientTxn,
     InTxn, Tid, IsRead, IsControl, Ops, Call
<1>7. HoldsLocks(a)'
  BY <1>1, <1>2, <1>3, ActorFacts DEF StatementFails, WritesOf, Discarded,
     RanUntilFailure, StoresOf, Errors, MayEndTransaction, TypeOK, Fits, HoldsLocks,
     InTxn, Tid, IsControl, Gated, Holding, Places, InClientTxn, IsRead
<1> QED BY <1>3, <1>5, <1>6, <1>7

LEMMA DecideCommitLocks ==
  ASSUME TypeOK, Locks, NEW a \in Actors, DecideCommit(a)
  PROVE  TypeOK' /\ Acts(a) /\ Fits(a)' /\ HoldsLocks(a)'
<1>1. Fits(a) /\ HoldsLocks(a) BY DEF Locks
<1>2. (InTxn(a) => Tid(a) \in Txns) /\ call[a] \in Call BY DEF TypeOK, Call, Tid, InTxn
<1>3. TypeOK'
  <2>1. pc' \in [Actors -> Places]
    BY DEF DecideCommit, TypeOK, Places, Statuses
  <2>2. status' \in [Actors -> Statuses]
    BY DEF DecideCommit, TypeOK, Places, Statuses
  <2>3. registered' \subseteq begun'
    BY DEF DecideCommit, TypeOK
  <2>4. conn' \in [Txns -> {"none", "write", "snapshot"}]
    BY DEF DecideCommit, TypeOK
  <2>5. snap' \in [Txns -> SUBSET Writes]
    BY DEF DecideCommit, TypeOK
  <2>6. expired' \subseteq Txns
    BY <1>1, <1>2 DEF DecideCommit, TypeOK, Fits, IsControl
  <2>7. UNCHANGED <<begun, readOnly, bound, failed, cleaning, lease, owned, renewal,
     opHolder, inside, writeConn, sqlTxn, pending, published, call, at, todo, late, seen,
     phase>>
    BY DEF DecideCommit
  <2> QED BY <2>1, <2>2, <2>3, <2>4, <2>5, <2>6, <2>7 DEF TypeOK
<1>5. Acts(a)
  BY <1>1, <1>2, <1>3, ActorFacts DEF DecideCommit, TypeOK, Acts, HoldsLocks, Holding,
     Places, InTxn
<1>6. Fits(a)'
  BY <1>1, <1>2, <1>3, ActorFacts DEF DecideCommit, TypeOK, Fits, InClientTxn, InTxn, Tid,
     IsRead, IsControl, Ops, Call
<1>7. HoldsLocks(a)'
  BY <1>1, <1>2, <1>3, ActorFacts DEF DecideCommit, TypeOK, Fits, HoldsLocks, InTxn, Tid,
     IsControl, Gated, Holding, Places, InClientTxn, IsRead
<1> QED BY <1>3, <1>5, <1>6, <1>7

LEMMA CommitFailsLocks ==
  ASSUME TypeOK, Locks, NEW a \in Actors, CommitFails(a)
  PROVE  TypeOK' /\ Acts(a) /\ Fits(a)' /\ HoldsLocks(a)'
<1>1. Fits(a) /\ HoldsLocks(a) BY DEF Locks
<1>2. (InTxn(a) => Tid(a) \in Txns) /\ call[a] \in Call BY DEF TypeOK, Call, Tid, InTxn
<1>3. TypeOK'
  <2>1. pc' \in [Actors -> Places]
    BY DEF CommitFails, CommitMayFail, Errors, TypeOK, Places, Statuses
  <2>2. status' \in [Actors -> Statuses]
    BY DEF CommitFails, CommitMayFail, Errors, TypeOK, Places, Statuses
  <2>3. pending' \subseteq Writes
    BY DEF CommitFails, CommitMayFail, Discarded, Errors, TypeOK, Places, Statuses
  <2>4. sqlTxn' \in [Hives -> BOOLEAN]
    BY DEF CommitFails, CommitMayFail, Discarded, Errors, TypeOK, Places, Statuses
  <2>5. writeConn' \in [Hives -> Actors \cup Txns \cup {Nobody}]
    BY DEF CommitFails, CommitMayFail, Discarded, Errors, TypeOK, Places, Statuses
  <2>6. UNCHANGED <<registered, begun, readOnly, bound, conn, failed, expired, cleaning,
     lease, owned, renewal, opHolder, inside, published, snap, call, at, todo, late, seen,
     phase>>
    BY DEF CommitFails, CommitMayFail, Discarded, Errors
  <2> QED BY <2>1, <2>2, <2>3, <2>4, <2>5, <2>6 DEF TypeOK
<1>5. Acts(a)
  BY <1>1, <1>2, <1>3, ActorFacts DEF CommitFails, CommitMayFail, Discarded, Errors,
     TypeOK, Acts, HoldsLocks, Holding, Places, InTxn
<1>6. Fits(a)'
  BY <1>1, <1>2, <1>3, ActorFacts DEF CommitFails, CommitMayFail, Discarded, Errors,
     TypeOK, Fits, InClientTxn, InTxn, Tid, IsRead, IsControl, Ops, Call
<1>7. HoldsLocks(a)'
  BY <1>1, <1>2, <1>3, ActorFacts DEF CommitFails, CommitMayFail, Discarded, Errors,
     TypeOK, Fits, HoldsLocks, InTxn, Tid, IsControl, Gated, Holding, Places, InClientTxn,
     IsRead
<1> QED BY <1>3, <1>5, <1>6, <1>7

LEMMA PublishMainLocks ==
  ASSUME TypeOK, Locks, NEW a \in Actors, PublishMain(a)
  PROVE  TypeOK' /\ Acts(a) /\ Fits(a)' /\ HoldsLocks(a)'
<1>1. Fits(a) /\ HoldsLocks(a) BY DEF Locks
<1>2. (InTxn(a) => Tid(a) \in Txns) /\ call[a] \in Call BY DEF TypeOK, Call, Tid, InTxn
<1>3. TypeOK'
  BY DEF PublishMain, TypeOK, Tid, Places, Statuses
<1>5. Acts(a)
  BY <1>1, <1>2, <1>3, ActorFacts DEF PublishMain, TypeOK, Acts, HoldsLocks, Holding,
     Places, InTxn
<1>6. Fits(a)'
  BY <1>1, <1>2, <1>3, ActorFacts DEF PublishMain, TypeOK, Fits, InClientTxn, InTxn, Tid,
     IsRead, IsControl, Ops, Call
<1>7. HoldsLocks(a)'
  BY <1>1, <1>2, <1>3, ActorFacts DEF PublishMain, TypeOK, Fits, HoldsLocks, InTxn, Tid,
     IsControl, Gated, Holding, Places, InClientTxn, IsRead
<1> QED BY <1>3, <1>5, <1>6, <1>7

LEMMA CommitDoneLocks ==
  ASSUME TypeOK, Locks, NEW a \in Actors, CommitDone(a)
  PROVE  TypeOK' /\ Acts(a) /\ Fits(a)' /\ HoldsLocks(a)'
<1>1. Fits(a) /\ HoldsLocks(a) BY DEF Locks
<1>2. (InTxn(a) => Tid(a) \in Txns) /\ call[a] \in Call BY DEF TypeOK, Call, Tid, InTxn
<1>3. TypeOK'
  BY DEF CommitDone, PublishVolatile, TypeOK, Tid, Places, Statuses
<1>5. Acts(a)
  BY <1>1, <1>2, <1>3, ActorFacts DEF CommitDone, PublishVolatile, TypeOK, Acts,
     HoldsLocks, Holding, Places, InTxn
<1>6. Fits(a)'
  BY <1>1, <1>2, <1>3, ActorFacts DEF CommitDone, PublishVolatile, TypeOK, Fits,
     InClientTxn, InTxn, Tid, IsRead, IsControl, Ops, Call
<1>7. HoldsLocks(a)'
  BY <1>1, <1>2, <1>3, ActorFacts DEF CommitDone, PublishVolatile, TypeOK, Fits,
     HoldsLocks, InTxn, Tid, IsControl, Gated, Holding, Places, InClientTxn, IsRead
<1> QED BY <1>3, <1>5, <1>6, <1>7

LEMMA LocalCommitDoneLocks ==
  ASSUME TypeOK, Locks, NEW a \in Actors, LocalCommitDone(a)
  PROVE  TypeOK' /\ Acts(a) /\ Fits(a)' /\ HoldsLocks(a)'
<1>1. Fits(a) /\ HoldsLocks(a) BY DEF Locks
<1>2. (InTxn(a) => Tid(a) \in Txns) /\ call[a] \in Call BY DEF TypeOK, Call, Tid, InTxn
<1>3. TypeOK'
  BY DEF LocalCommitDone, PublishVolatile, TypeOK, Tid, Places, Statuses
<1>5. Acts(a)
  BY <1>1, <1>2, <1>3, ActorFacts DEF LocalCommitDone, PublishVolatile, TypeOK, Acts,
     HoldsLocks, Holding, Places, InTxn
<1>6. Fits(a)'
  BY <1>1, <1>2, <1>3, ActorFacts DEF LocalCommitDone, PublishVolatile, TypeOK, Fits,
     InClientTxn, InTxn, Tid, IsRead, IsControl, Ops, Call
<1>7. HoldsLocks(a)'
  BY <1>1, <1>2, <1>3, ActorFacts DEF LocalCommitDone, PublishVolatile, TypeOK, Fits,
     HoldsLocks, InTxn, Tid, IsControl, Gated, Holding, Places, InClientTxn, IsRead
<1> QED BY <1>3, <1>5, <1>6, <1>7

LEMMA NextHiveLocks ==
  ASSUME TypeOK, Locks, NEW a \in Actors, NextHive(a)
  PROVE  TypeOK' /\ Acts(a) /\ Fits(a)' /\ HoldsLocks(a)'
<1>1. Fits(a) /\ HoldsLocks(a) BY DEF Locks
<1>2. (InTxn(a) => Tid(a) \in Txns) /\ call[a] \in Call BY DEF TypeOK, Call, Tid, InTxn
<1>3. TypeOK'
  <2>1. published' \subseteq Writes
    BY DEF NextHive, PublishVolatile, TypeOK, Places, Statuses
  <2>2. pending' \subseteq Writes
    BY DEF NextHive, PublishVolatile, TypeOK, Places, Statuses
  <2>3. sqlTxn' \in [Hives -> BOOLEAN]
    BY DEF NextHive, PublishVolatile, TypeOK, Places, Statuses
  <2>4. writeConn' \in [Hives -> Actors \cup Txns \cup {Nobody}]
    BY DEF NextHive, PublishVolatile, TypeOK, Places, Statuses
  <2>5. inside' \in [Hives -> SUBSET Actors]
    BY DEF NextHive, PublishVolatile, TypeOK, Places, Statuses
  <2>6. at' \in [Actors -> Hives \cup {NoHive}]
    BY DEF NextHive, PublishVolatile, TypeOK, Places, Statuses
  <2>7. todo' \in [Actors -> SUBSET Hives]
    BY DEF NextHive, PublishVolatile, TypeOK, Places, Statuses
  <2>8. pc' \in [Actors -> Places]
    BY DEF NextHive, PublishVolatile, TypeOK, Places, Statuses
  <2>9. UNCHANGED <<registered, begun, readOnly, bound, conn, failed, expired, cleaning,
     lease, owned, renewal, opHolder, snap, call, status, late, seen, phase>>
    BY DEF NextHive, PublishVolatile
  <2> QED BY <2>1, <2>2, <2>3, <2>4, <2>5, <2>6, <2>7, <2>8, <2>9 DEF TypeOK
<1>5. Acts(a)
  BY <1>1, <1>2, <1>3, ActorFacts DEF NextHive, PublishVolatile, TypeOK, Acts, HoldsLocks,
     Holding, Places, InTxn
<1>6. Fits(a)'
  BY <1>1, <1>2, <1>3, ActorFacts DEF NextHive, PublishVolatile, TypeOK, Fits,
     InClientTxn, InTxn, Tid, IsRead, IsControl, Ops, Call
<1>7. HoldsLocks(a)'
  BY <1>1, <1>2, <1>3, ActorFacts DEF NextHive, PublishVolatile, TypeOK, Fits, HoldsLocks,
     InTxn, Tid, IsControl, Gated, Holding, Places, InClientTxn, IsRead
<1> QED BY <1>3, <1>5, <1>6, <1>7

LEMMA RouteReadLocks ==
  ASSUME TypeOK, Locks, NEW a \in Actors, RouteRead(a)
  PROVE  TypeOK' /\ Acts(a) /\ Fits(a)' /\ HoldsLocks(a)'
<1>1. Fits(a) /\ HoldsLocks(a) BY DEF Locks
<1>2. (InTxn(a) => Tid(a) \in Txns) /\ call[a] \in Call BY DEF TypeOK, Call, Tid, InTxn
<1>3. TypeOK'
  BY DEF RouteRead, TypeOK, Tid, Places, Statuses
<1>5. Acts(a)
  BY <1>1, <1>2, <1>3, ActorFacts DEF RouteRead, TypeOK, Acts, HoldsLocks, Holding,
     Places, InTxn
<1>6. Fits(a)'
  BY <1>1, <1>2, <1>3, ActorFacts DEF RouteRead, TypeOK, Fits, InClientTxn, InTxn, Tid,
     IsRead, IsControl, Ops, Call
<1>7. HoldsLocks(a)'
  BY <1>1, <1>2, <1>3, ActorFacts DEF RouteRead, TypeOK, Fits, HoldsLocks, InTxn, Tid,
     IsControl, Gated, Holding, Places, InClientTxn, IsRead
<1> QED BY <1>3, <1>5, <1>6, <1>7

LEMMA PinMainLocks ==
  ASSUME TypeOK, Locks, NEW a \in Actors, PinMain(a)
  PROVE  TypeOK' /\ Acts(a) /\ Fits(a)' /\ HoldsLocks(a)'
<1>1. Fits(a) /\ HoldsLocks(a) BY DEF Locks
<1>2. (InTxn(a) => Tid(a) \in Txns) /\ call[a] \in Call BY DEF TypeOK, Call, Tid, InTxn
<1>3. TypeOK'
  BY DEF PinMain, TypeOK, Tid, Places, Statuses
<1>5. Acts(a)
  BY <1>1, <1>2, <1>3, ActorFacts DEF PinMain, TypeOK, Acts, HoldsLocks, Holding, Places,
     InTxn
<1>6. Fits(a)'
  BY <1>1, <1>2, <1>3, ActorFacts DEF PinMain, TypeOK, Fits, InClientTxn, InTxn, Tid,
     IsRead, IsControl, Ops, Call
<1>7. HoldsLocks(a)'
  BY <1>1, <1>2, <1>3, ActorFacts DEF PinMain, TypeOK, Fits, HoldsLocks, InTxn, Tid,
     IsControl, Gated, Holding, Places, InClientTxn, IsRead
<1> QED BY <1>3, <1>5, <1>6, <1>7

LEMMA PinVolatileLocks ==
  ASSUME TypeOK, Locks, NEW a \in Actors, PinVolatile(a)
  PROVE  TypeOK' /\ Acts(a) /\ Fits(a)' /\ HoldsLocks(a)'
<1>1. Fits(a) /\ HoldsLocks(a) BY DEF Locks
<1>2. (InTxn(a) => Tid(a) \in Txns) /\ call[a] \in Call BY DEF TypeOK, Call, Tid, InTxn
<1>3. TypeOK'
  BY DEF PinVolatile, TypeOK, Tid, Places, Statuses
<1>5. Acts(a)
  BY <1>1, <1>2, <1>3, ActorFacts DEF PinVolatile, TypeOK, Acts, HoldsLocks, Holding,
     Places, InTxn
<1>6. Fits(a)'
  BY <1>1, <1>2, <1>3, ActorFacts DEF PinVolatile, TypeOK, Fits, InClientTxn, InTxn, Tid,
     IsRead, IsControl, Ops, Call
<1>7. HoldsLocks(a)'
  BY <1>1, <1>2, <1>3, ActorFacts DEF PinVolatile, TypeOK, Fits, HoldsLocks, InTxn, Tid,
     IsControl, Gated, Holding, Places, InClientTxn, IsRead
<1> QED BY <1>3, <1>5, <1>6, <1>7

LEMMA PinFailsLocks ==
  ASSUME TypeOK, Locks, NEW a \in Actors, PinFails(a)
  PROVE  TypeOK' /\ Acts(a) /\ Fits(a)' /\ HoldsLocks(a)'
<1>1. Fits(a) /\ HoldsLocks(a) BY DEF Locks
<1>2. (InTxn(a) => Tid(a) \in Txns) /\ call[a] \in Call BY DEF TypeOK, Call, Tid, InTxn
<1>3. TypeOK'
  <2>1. snap' \in [Txns -> SUBSET Writes]
    BY DEF PinFails, Errors, TypeOK, Places, Statuses
  <2>2. pc' \in [Actors -> Places]
    BY DEF PinFails, Errors, TypeOK, Places, Statuses
  <2>3. status' \in [Actors -> Statuses]
    BY DEF PinFails, Errors, TypeOK, Places, Statuses
  <2>4. UNCHANGED <<registered, begun, readOnly, bound, conn, failed, expired, cleaning,
     lease, owned, renewal, opHolder, inside, writeConn, sqlTxn, pending, published, call,
     at, todo, late, seen, phase>>
    BY DEF PinFails, Errors
  <2> QED BY <2>1, <2>2, <2>3, <2>4 DEF TypeOK
<1>5. Acts(a)
  BY <1>1, <1>2, <1>3, ActorFacts DEF PinFails, Errors, TypeOK, Acts, HoldsLocks, Holding,
     Places, InTxn
<1>6. Fits(a)'
  BY <1>1, <1>2, <1>3, ActorFacts DEF PinFails, Errors, TypeOK, Fits, InClientTxn, InTxn,
     Tid, IsRead, IsControl, Ops, Call
<1>7. HoldsLocks(a)'
  BY <1>1, <1>2, <1>3, ActorFacts DEF PinFails, Errors, TypeOK, Fits, HoldsLocks, InTxn,
     Tid, IsControl, Gated, Holding, Places, InClientTxn, IsRead
<1> QED BY <1>3, <1>5, <1>6, <1>7

LEMMA ReadMainLocks ==
  ASSUME TypeOK, Locks, NEW a \in Actors, ReadMain(a)
  PROVE  TypeOK' /\ Acts(a) /\ Fits(a)' /\ HoldsLocks(a)'
<1>1. Fits(a) /\ HoldsLocks(a) BY DEF Locks
<1>2. (InTxn(a) => Tid(a) \in Txns) /\ call[a] \in Call BY DEF TypeOK, Call, Tid, InTxn
<1>4. View(a) \subseteq Writes BY <1>2 DEF View, TypeOK
<1>3. TypeOK'
  <2>1. seen' \in [Actors -> SUBSET Writes]
    BY <1>4 DEF ReadMain, TypeOK
  <2>2. pc' \in [Actors -> Places]
    BY DEF ReadMain, TypeOK, Places, Statuses
  <2>3. UNCHANGED <<registered, begun, readOnly, bound, conn, failed, expired, cleaning,
     lease, owned, renewal, opHolder, inside, writeConn, sqlTxn, pending, published, snap,
     call, at, todo, status, late, phase>>
    BY DEF ReadMain
  <2> QED BY <2>1, <2>2, <2>3 DEF TypeOK
<1>5. Acts(a)
  BY <1>1, <1>2, <1>3, ActorFacts DEF ReadMain, TypeOK, Acts, HoldsLocks, Holding, Places,
     InTxn
<1>6. Fits(a)'
  BY <1>1, <1>2, <1>3, ActorFacts DEF ReadMain, TypeOK, Fits, InClientTxn, InTxn, Tid,
     IsRead, IsControl, Ops, Call
<1>7. HoldsLocks(a)'
  BY <1>1, <1>2, <1>3, ActorFacts DEF ReadMain, TypeOK, Fits, HoldsLocks, InTxn, Tid,
     IsControl, Gated, Holding, Places, InClientTxn, IsRead
<1> QED BY <1>3, <1>5, <1>6, <1>7

LEMMA ReadVolatileLocks ==
  ASSUME TypeOK, Locks, NEW a \in Actors, ReadVolatile(a)
  PROVE  TypeOK' /\ Acts(a) /\ Fits(a)' /\ HoldsLocks(a)'
<1>1. Fits(a) /\ HoldsLocks(a) BY DEF Locks
<1>2. (InTxn(a) => Tid(a) \in Txns) /\ call[a] \in Call BY DEF TypeOK, Call, Tid, InTxn
<1>4. View(a) \subseteq Writes BY <1>2 DEF View, TypeOK
<1>3. TypeOK'
  <2>1. seen' \in [Actors -> SUBSET Writes]
    BY <1>4 DEF ReadVolatile, TypeOK
  <2>2. pc' \in [Actors -> Places]
    BY DEF ReadVolatile, TypeOK, Places, Statuses
  <2>3. status' \in [Actors -> Statuses]
    BY DEF ReadVolatile, TypeOK, Places, Statuses
  <2>4. UNCHANGED <<registered, begun, readOnly, bound, conn, failed, expired, cleaning,
     lease, owned, renewal, opHolder, inside, writeConn, sqlTxn, pending, published, snap,
     call, at, todo, late, phase>>
    BY DEF ReadVolatile
  <2> QED BY <2>1, <2>2, <2>3, <2>4 DEF TypeOK
<1>5. Acts(a)
  BY <1>1, <1>2, <1>3, ActorFacts DEF ReadVolatile, TypeOK, Acts, HoldsLocks, Holding,
     Places, InTxn
<1>6. Fits(a)'
  BY <1>1, <1>2, <1>3, ActorFacts DEF ReadVolatile, TypeOK, Fits, InClientTxn, InTxn, Tid,
     IsRead, IsControl, Ops, Call
<1>7. HoldsLocks(a)'
  BY <1>1, <1>2, <1>3, ActorFacts DEF ReadVolatile, TypeOK, Fits, HoldsLocks, InTxn, Tid,
     IsControl, Gated, Holding, Places, InClientTxn, IsRead
<1> QED BY <1>3, <1>5, <1>6, <1>7

LEMMA ReadFailsLocks ==
  ASSUME TypeOK, Locks, NEW a \in Actors, ReadFails(a)
  PROVE  TypeOK' /\ Acts(a) /\ Fits(a)' /\ HoldsLocks(a)'
<1>1. Fits(a) /\ HoldsLocks(a) BY DEF Locks
<1>2. (InTxn(a) => Tid(a) \in Txns) /\ call[a] \in Call BY DEF TypeOK, Call, Tid, InTxn
<1>3. TypeOK'
  <2>1. pc' \in [Actors -> Places]
    BY DEF ReadFails, Errors, TypeOK, Places, Statuses
  <2>2. status' \in [Actors -> Statuses]
    BY DEF ReadFails, Errors, TypeOK, Places, Statuses
  <2>3. UNCHANGED <<registered, begun, readOnly, bound, conn, failed, expired, cleaning,
     lease, owned, renewal, opHolder, inside, writeConn, sqlTxn, pending, published, snap,
     call, at, todo, late, seen, phase>>
    BY DEF ReadFails, Errors
  <2> QED BY <2>1, <2>2, <2>3 DEF TypeOK
<1>5. Acts(a)
  BY <1>1, <1>2, <1>3, ActorFacts DEF ReadFails, Errors, TypeOK, Acts, HoldsLocks,
     Holding, Places, InTxn
<1>6. Fits(a)'
  BY <1>1, <1>2, <1>3, ActorFacts DEF ReadFails, Errors, TypeOK, Fits, InClientTxn, InTxn,
     Tid, IsRead, IsControl, Ops, Call
<1>7. HoldsLocks(a)'
  BY <1>1, <1>2, <1>3, ActorFacts DEF ReadFails, Errors, TypeOK, Fits, HoldsLocks, InTxn,
     Tid, IsControl, Gated, Holding, Places, InClientTxn, IsRead
<1> QED BY <1>3, <1>5, <1>6, <1>7

LEMMA UnregisterLocks ==
  ASSUME TypeOK, Locks, NEW a \in Actors, Unregister(a)
  PROVE  TypeOK' /\ Acts(a) /\ Fits(a)' /\ HoldsLocks(a)'
<1>1. Fits(a) /\ HoldsLocks(a) BY DEF Locks
<1>2. (InTxn(a) => Tid(a) \in Txns) /\ call[a] \in Call BY DEF TypeOK, Call, Tid, InTxn
<1>3. TypeOK'
  BY DEF Unregister, TypeOK, Tid, Places, Statuses
<1>5. Acts(a)
  BY <1>1, <1>2, <1>3, ActorFacts DEF Unregister, TypeOK, Acts, HoldsLocks, Holding,
     Places, InTxn
<1>6. Fits(a)'
  BY <1>1, <1>2, <1>3, ActorFacts DEF Unregister, TypeOK, Fits, InClientTxn, InTxn, Tid,
     IsRead, IsControl, Ops, Call
<1>7. HoldsLocks(a)'
  BY <1>1, <1>2, <1>3, ActorFacts DEF Unregister, TypeOK, Fits, HoldsLocks, InTxn, Tid,
     IsControl, Gated, Holding, Places, InClientTxn, IsRead
<1> QED BY <1>3, <1>5, <1>6, <1>7

LEMMA RollBackLocks ==
  ASSUME TypeOK, Locks, NEW a \in Actors, RollBack(a)
  PROVE  TypeOK' /\ Acts(a) /\ Fits(a)' /\ HoldsLocks(a)'
<1>1. Fits(a) /\ HoldsLocks(a) BY DEF Locks
<1>2. (InTxn(a) => Tid(a) \in Txns) /\ call[a] \in Call BY DEF TypeOK, Call, Tid, InTxn
<1>3. TypeOK'
  <2>1. pending' \subseteq Writes
    BY DEF RollBack, GiveBack, Discarded, TypeOK
  <2>2. sqlTxn' \in [Hives -> BOOLEAN]
    BY DEF RollBack, GiveBack, TypeOK, Places, Statuses
  <2>3. writeConn' \in [Hives -> Actors \cup Txns \cup {Nobody}]
    BY DEF RollBack, GiveBack, TypeOK, Places, Statuses
  <2>4. snap' \in [Txns -> SUBSET Writes]
    BY DEF RollBack, GiveBack, TypeOK, Places, Statuses
  <2>5. conn' \in [Txns -> {"none", "write", "snapshot"}]
    BY DEF RollBack, GiveBack, TypeOK, Places, Statuses
  <2>6. pc' \in [Actors -> Places]
    BY DEF RollBack, GiveBack, TypeOK, Places, Statuses
  <2>7. status' \in [Actors -> Statuses]
    BY DEF RollBack, GiveBack, TypeOK, Places, Statuses
  <2>8. UNCHANGED <<registered, begun, readOnly, bound, failed, expired, cleaning, lease,
     owned, renewal, opHolder, inside, published, call, at, todo, late, seen, phase>>
    BY DEF RollBack, GiveBack
  <2> QED BY <2>1, <2>2, <2>3, <2>4, <2>5, <2>6, <2>7, <2>8 DEF TypeOK
<1>5. Acts(a)
  BY <1>1, <1>2, <1>3, ActorFacts DEF RollBack, GiveBack, TypeOK, Acts, HoldsLocks,
     Holding, Places, InTxn
<1>6. Fits(a)'
  BY <1>1, <1>2, <1>3, ActorFacts DEF RollBack, GiveBack, TypeOK, Fits, InClientTxn,
     InTxn, Tid, IsRead, IsControl, Ops, Call
<1>7. HoldsLocks(a)'
  BY <1>1, <1>2, <1>3, ActorFacts DEF RollBack, GiveBack, TypeOK, Fits, HoldsLocks, InTxn,
     Tid, IsControl, Gated, Holding, Places, InClientTxn, IsRead
<1> QED BY <1>3, <1>5, <1>6, <1>7

LEMMA FinishLocks ==
  ASSUME TypeOK, Locks, NEW a \in Actors, Finish(a)
  PROVE  TypeOK' /\ Acts(a) /\ Fits(a)' /\ HoldsLocks(a)'
<1>1. Fits(a) /\ HoldsLocks(a) BY DEF Locks
<1>2. (InTxn(a) => Tid(a) \in Txns) /\ call[a] \in Call BY DEF TypeOK, Call, Tid, InTxn
<1>3. TypeOK'
  BY DEF Finish, Answer, TypeOK, Tid, Places, Statuses
<1>5. Acts(a)
  BY <1>1, <1>2, <1>3, ActorFacts DEF Finish, Answer, TypeOK, Acts, HoldsLocks, Holding,
     Places, InTxn
<1>6. Fits(a)'
  BY <1>1, <1>2, <1>3, ActorFacts DEF Finish, Answer, TypeOK, Fits, InClientTxn, InTxn,
     Tid, IsRead, IsControl, Ops, Call
<1>7. HoldsLocks(a)'
  BY <1>1, <1>2, <1>3, ActorFacts DEF Finish, Answer, TypeOK, Fits, HoldsLocks, InTxn,
     Tid, IsControl, Gated, Holding, Places, InClientTxn, IsRead
<1> QED BY <1>3, <1>5, <1>6, <1>7

LEMMA InterruptLocks ==
  ASSUME TypeOK, Locks, NEW a \in Actors, Interrupt(a)
  PROVE  TypeOK' /\ Acts(a) /\ Fits(a)' /\ HoldsLocks(a)'
<1>1. Fits(a) /\ HoldsLocks(a) BY DEF Locks
<1>2. (InTxn(a) => Tid(a) \in Txns) /\ call[a] \in Call BY DEF TypeOK, Call, Tid, InTxn
<1>3. TypeOK'
  <2>1. pending' \subseteq Writes
    BY DEF Interrupt, GiveBack, Discarded, TypeOK
  <2>2. sqlTxn' \in [Hives -> BOOLEAN]
    BY DEF Interrupt, MustPoison, GiveBack, TypeOK, Places, Statuses
  <2>3. writeConn' \in [Hives -> Actors \cup Txns \cup {Nobody}]
    BY DEF Interrupt, MustPoison, GiveBack, TypeOK, Places, Statuses
  <2>4. snap' \in [Txns -> SUBSET Writes]
    BY DEF Interrupt, MustPoison, GiveBack, TypeOK, Places, Statuses
  <2>5. pc' \in [Actors -> Places]
    BY DEF Interrupt, MustPoison, GiveBack, TypeOK, Places, Statuses
  <2>6. UNCHANGED <<registered, begun, readOnly, bound, conn, failed, expired, cleaning,
     lease, owned, renewal, opHolder, inside, published, call, at, todo, status, late,
     seen, phase>>
    BY DEF Interrupt, MustPoison, GiveBack
  <2> QED BY <2>1, <2>2, <2>3, <2>4, <2>5, <2>6 DEF TypeOK
<1>5. Acts(a)
  BY <1>1, <1>2, <1>3, ActorFacts DEF Interrupt, MustPoison, GiveBack, TypeOK, Acts,
     HoldsLocks, Holding, Places, InTxn
<1>6. Fits(a)'
  BY <1>1, <1>2, <1>3, ActorFacts DEF Interrupt, MustPoison, GiveBack, TypeOK, Fits,
     InClientTxn, InTxn, Tid, IsRead, IsControl, Ops, Call
<1>7. HoldsLocks(a)'
  BY <1>1, <1>2, <1>3, ActorFacts DEF Interrupt, MustPoison, GiveBack, TypeOK, Fits,
     HoldsLocks, InTxn, Tid, IsControl, Gated, Holding, Places, InClientTxn, IsRead
<1> QED BY <1>3, <1>5, <1>6, <1>7

LEMMA PoisonLocks ==
  ASSUME TypeOK, Locks, NEW a \in Actors, Poison(a)
  PROVE  TypeOK' /\ Acts(a) /\ Fits(a)' /\ HoldsLocks(a)'
<1>1. Fits(a) /\ HoldsLocks(a) BY DEF Locks
<1>2. (InTxn(a) => Tid(a) \in Txns) /\ call[a] \in Call BY DEF TypeOK, Call, Tid, InTxn
<1>3. TypeOK'
  <2>1. conn' \in [Txns -> {"none", "write", "snapshot"}]
    BY DEF Poison, Answer, TypeOK, Places, Statuses
  <2>2. failed' \subseteq Txns
    BY <1>1, <1>2 DEF Poison, TypeOK, Fits
  <2>3. inside' \in [Hives -> SUBSET Actors]
    BY DEF Poison, Answer, TypeOK, Places, Statuses
  <2>4. opHolder' \in [Txns -> Actors \cup {Nobody}]
    BY DEF Poison, Answer, TypeOK, Places, Statuses
  <2>5. pc' \in [Actors -> Places]
    BY DEF Poison, Answer, TypeOK, Places, Statuses
  <2>6. status' \in [Actors -> Statuses]
    BY DEF Poison, Answer, TypeOK, Places, Statuses
  <2>7. UNCHANGED <<registered, begun, readOnly, bound, expired, cleaning, lease, owned,
     renewal, writeConn, sqlTxn, pending, published, snap, call, at, todo, late, seen,
     phase>>
    BY DEF Poison, Answer
  <2> QED BY <2>1, <2>2, <2>3, <2>4, <2>5, <2>6, <2>7 DEF TypeOK
<1>5. Acts(a)
  BY <1>1, <1>2, <1>3, ActorFacts DEF Poison, Answer, TypeOK, Acts, HoldsLocks, Holding,
     Places, InTxn
<1>6. Fits(a)'
  BY <1>1, <1>2, <1>3, ActorFacts DEF Poison, Answer, TypeOK, Fits, InClientTxn, InTxn,
     Tid, IsRead, IsControl, Ops, Call
<1>7. HoldsLocks(a)'
  BY <1>1, <1>2, <1>3, ActorFacts DEF Poison, Answer, TypeOK, Fits, HoldsLocks, InTxn,
     Tid, IsControl, Gated, Holding, Places, InClientTxn, IsRead
<1> QED BY <1>3, <1>5, <1>6, <1>7

LEMMA StepLocks ==
  ASSUME TypeOK, Locks, NEW a \in Actors, Step(a)
  PROVE  TypeOK' /\ Acts(a) /\ Fits(a)' /\ HoldsLocks(a)'
BY AdmitOperationLocks, OperationTimeoutLocks, StartLocks, EnterGateLocks,
   GateTimeoutLocks, RouteWriteLocks, ConnectLocks, ConnectFailsLocks, CheckpointLocks,
   StatementLocks, StatementFailsLocks, DecideCommitLocks, CommitFailsLocks,
   PublishMainLocks, CommitDoneLocks, LocalCommitDoneLocks, NextHiveLocks, RouteReadLocks,
   PinMainLocks, PinVolatileLocks, PinFailsLocks, ReadMainLocks, ReadVolatileLocks,
   ReadFailsLocks, UnregisterLocks, RollBackLocks, FinishLocks, InterruptLocks,
   PoisonLocks DEF Step

-----------------------------------------------------------------------------
(* What the kernel, the clock and shutdown do.                             *)

\* The calls of a scenario are calls.
LEMMA CallsTyped ==
  ASSUME Typed, NEW r \in Requests, NEW k \in scenario.calls[r]
  PROVE  k \in Call /\ (k.op \in {"commit", "abort"} => k.txn # NoTxn)
BY ScenariosAssumption DEF Typed

LEMMA DispatchLocks ==
  ASSUME Typed, Locks, NEW r \in Requests, Dispatch(r)
  PROVE  TypeOK' /\ Acts(r) /\ Fits(r)' /\ HoldsLocks(r)'
<1>1. r \in Actors /\ Fits(r) /\ HoldsLocks(r) /\ TypeOK BY ActorFacts DEF Locks, Typed
<1>2. PICK k \in scenario.calls[r] :
        /\ k.op \notin {"commit", "abort"}
        /\ call' = [call EXCEPT ![r] = k]
        /\ \/ k.txn = NoTxn /\ pc' = [pc EXCEPT ![r] = "admitted"] /\ UNCHANGED status
           \/ k.txn \in registered /\ pc' = [pc EXCEPT ![r] = "operation"] /\ UNCHANGED status
           \/ /\ pc' = [pc EXCEPT ![r] = "answered"]
              /\ status' = [status EXCEPT ![r] = "StorageError"]
  BY DEF Dispatch
<1>3. k \in Call BY CallsTyped
<1>4. /\ pc[r] = "idle"
      /\ UNCHANGED <<txnVars, leaseVars, lockVars, storeVars, at, todo, late, seen, phase>>
  BY DEF Dispatch
<1>5. TypeOK'
  <2>1. call' \in [Actors -> Call] BY <1>1, <1>2, <1>3 DEF TypeOK
  <2>2. pc' \in [Actors -> Places] BY <1>1, <1>2 DEF TypeOK, Places
  <2>3. status' \in [Actors -> Statuses] BY <1>1, <1>2 DEF TypeOK, Statuses
  <2> QED BY <1>1, <1>4, <2>1, <2>2, <2>3 DEF TypeOK
<1>6. \A t \in Txns : opHolder[t] # r BY <1>1, <1>4 DEF HoldsLocks, Holding
<1>7. \A h \in Hives : r \notin inside[h] BY <1>1, <1>4 DEF HoldsLocks, Gated
<1>8. Acts(r)
  BY <1>1, <1>2, <1>4, <1>6, <1>7, ActorFacts DEF Acts, TypeOK
<1>9. Fits(r)'
  <2>1. todo'[r] = {} /\ r \notin late' BY <1>1, <1>4 DEF Fits
  <2>2. call'[r] = k /\ pc'[r] \in {"admitted", "operation", "answered"} BY <1>1, <1>2 DEF TypeOK
  <2>3. pc'[r] = "operation" => k.txn # NoTxn
    <3>1. NoTxn \notin registered BY <1>1, ActorFacts DEF TypeOK
    <3> QED BY <1>1, <1>2, <3>1 DEF TypeOK
  <2> QED BY <1>2, <2>1, <2>2, <2>3 DEF Fits, InClientTxn, InTxn, Tid, IsRead, IsControl
<1>10. HoldsLocks(r)'
  BY <1>1, <1>2, <1>3, <1>4, <1>6, <1>7 DEF HoldsLocks, TypeOK, Gated, Holding, InTxn, Tid, IsControl
<1> QED BY <1>5, <1>8, <1>9, <1>10

LEMMA DispatchControlLocks ==
  ASSUME Typed, Locks, NEW r \in Requests, DispatchControl(r)
  PROVE  TypeOK' /\ Acts(r) /\ Fits(r)' /\ HoldsLocks(r)'
<1>1. r \in Actors /\ Fits(r) /\ HoldsLocks(r) /\ TypeOK BY ActorFacts DEF Locks, Typed
<1>2. PICK k \in scenario.calls[r] :
        /\ k.op \in {"commit", "abort"}
        /\ call' = [call EXCEPT ![r] = k]
        /\ \/ k.txn \in registered /\ pc' = [pc EXCEPT ![r] = "operation"] /\ UNCHANGED status
           \/ /\ pc' = [pc EXCEPT ![r] = "answered"]
              /\ \E s \in {"OK", "StorageError", "Invalid"} : status' = [status EXCEPT ![r] = s]
  BY DEF DispatchControl
<1>3. k \in Call /\ k.txn # NoTxn BY <1>2, CallsTyped
<1>4. /\ pc[r] = "idle"
      /\ UNCHANGED <<txnVars, leaseVars, lockVars, storeVars, at, todo, late, seen, phase>>
  BY DEF DispatchControl
<1>5. TypeOK'
  <2>1. call' \in [Actors -> Call] BY <1>1, <1>2, <1>3 DEF TypeOK
  <2>2. pc' \in [Actors -> Places] BY <1>1, <1>2 DEF TypeOK, Places
  <2>3. status' \in [Actors -> Statuses] BY <1>1, <1>2 DEF TypeOK, Statuses
  <2> QED BY <1>1, <1>4, <2>1, <2>2, <2>3 DEF TypeOK
<1>6. \A t \in Txns : opHolder[t] # r BY <1>1, <1>4 DEF HoldsLocks, Holding
<1>7. \A h \in Hives : r \notin inside[h] BY <1>1, <1>4 DEF HoldsLocks, Gated
<1>8. Acts(r)
  BY <1>1, <1>2, <1>4, <1>6, <1>7, ActorFacts DEF Acts, TypeOK
<1>9. Fits(r)'
  BY <1>1, <1>2, <1>3, <1>4 DEF Fits, TypeOK, InClientTxn, InTxn, Tid, IsRead, IsControl, Call, Ops
<1>10. HoldsLocks(r)'
  BY <1>1, <1>2, <1>3, <1>4, <1>6, <1>7 DEF HoldsLocks, TypeOK, Gated, Holding, InTxn, Tid, IsControl
<1> QED BY <1>5, <1>8, <1>9, <1>10

LEMMA ExpireLocks ==
  ASSUME Typed, Locks, NEW r \in Requests, Expire(r)
  PROVE  TypeOK' /\ Acts(r) /\ Fits(r)' /\ HoldsLocks(r)'
<1>1. r \in Actors /\ Fits(r) /\ HoldsLocks(r) /\ TypeOK BY ActorFacts DEF Locks, Typed
<1>2. TypeOK' BY <1>1 DEF Expire, TypeOK
<1>3. Acts(r) BY <1>1, ActorFacts DEF Expire, Acts, TypeOK
<1>4. Fits(r)'
  BY <1>1 DEF Expire, Fits, InClientTxn, InTxn, Tid, IsRead, IsControl
<1>5. HoldsLocks(r)'
  BY <1>1 DEF Expire, HoldsLocks, InTxn, Tid, IsControl
<1> QED BY <1>2, <1>3, <1>4, <1>5

LEMMA AbortRemainingLocks ==
  ASSUME Typed, Locks, AbortRemaining
  PROVE  TypeOK' /\ Acts(Closer) /\ Fits(Closer)' /\ HoldsLocks(Closer)'
<1>1. Closer \in Actors /\ Fits(Closer) /\ HoldsLocks(Closer) /\ TypeOK
  BY ActorFacts DEF Locks, Typed
<1>2. PICK t \in registered : call' = [call EXCEPT ![Closer].txn = t] BY DEF AbortRemaining
<1>3. t \in Txns /\ t \in begun BY <1>1 DEF TypeOK
<1>4. /\ pc[Closer] \in {"idle", "answered"} /\ pc' = [pc EXCEPT ![Closer] = "operation"]
      /\ UNCHANGED <<txnVars, leaseVars, lockVars, storeVars, at, todo, status, late, seen, phase>>
  BY DEF AbortRemaining, Resting
<1>5. /\ call[Closer].op = "abort" /\ call'[Closer].op = "abort" /\ call'[Closer].txn = t
      /\ \A b \in Actors : b # Closer => call'[b] = call[b]
      /\ call'[Closer] \in Call /\ call' \in [Actors -> Call]
  <2>1. call[Closer] \in Call BY <1>1 DEF TypeOK
  <2>2. call[Closer].op = "abort" BY <1>1, ActorFacts DEF Fits
  <2>3. [call[Closer] EXCEPT !.txn = t] \in Call BY <2>1, <1>3 DEF Call
  <2>4. call' = [call EXCEPT ![Closer] = [call[Closer] EXCEPT !.txn = t]]
    BY <1>1, <1>2 DEF TypeOK
  <2>5. [call[Closer] EXCEPT !.txn = t].txn = t /\ [call[Closer] EXCEPT !.txn = t].op = "abort"
    BY <2>1, <2>2 DEF Call
  <2> HIDE <1>2
  <2> QED BY <1>1, <2>2, <2>3, <2>4, <2>5 DEF TypeOK
<1> HIDE <1>2
<1>6. TypeOK' BY <1>1, <1>4, <1>5 DEF TypeOK, Places
<1>7. \A u \in Txns : opHolder[u] # Closer BY <1>1, <1>4 DEF HoldsLocks, Holding
<1>8. \A h \in Hives : Closer \notin inside[h] BY <1>1, <1>4 DEF HoldsLocks, Gated
<1>9. Acts(Closer)
  BY <1>1, <1>4, <1>5, <1>7, <1>8, ActorFacts DEF Acts, TypeOK
<1>10. Fits(Closer)'
  <2>1. Closer \notin late BY <1>1, ActorFacts DEF TypeOK
  <2>2. todo[Closer] = {} BY <1>1, <1>5 DEF Fits, TypeOK
  <2>3. pc'[Closer] = "operation" BY <1>1, <1>4 DEF TypeOK
  <2>4. t # NoTxn BY <1>3, ActorFacts
  <2> QED BY <1>4, <1>5, <2>1, <2>2, <2>3, <2>4 DEF Fits, InClientTxn, InTxn, Tid, IsRead, IsControl
<1>11. HoldsLocks(Closer)'
  BY <1>1, <1>3, <1>4, <1>5, <1>7, <1>8 DEF HoldsLocks, TypeOK, Gated, Holding, InTxn, Tid, IsControl
<1> QED BY <1>6, <1>9, <1>10, <1>11

\* Tick wakes the cleaners of transactions that have lapsed; they hold nothing
\* yet, and no other actor notices.
Wakes ==
  /\ \A a \in Actors :
       \/ pc'[a] = pc[a] /\ call'[a] = call[a]
       \/ /\ pc[a] = "idle" /\ pc'[a] = "operation" /\ a \notin Requests
          /\ call[a].op = "abort" /\ call'[a].op = "abort" /\ call'[a].txn \in registered
          /\ a # Closer /\ \A t \in Txns : a = Cleaner(t) => t \in cleaning'
  /\ UNCHANGED <<registered, begun, readOnly, bound, conn, failed, lockVars, storeVars>>
  /\ UNCHANGED <<at, todo, status, late, seen>>
  /\ cleaning \subseteq cleaning'

LEMMA TickWakes ==
  ASSUME TypeOK, Locks, Tick
  PROVE  TypeOK' /\ Wakes
<1> DEFINE over == {t \in registered : LeaseExpired(t)}
           due == {t \in registered \ over : lease[t] = "closing"}
           new == {Cleaner(t) : t \in over \ cleaning}
<1>1. /\ expired' = expired \cup over /\ cleaning' = cleaning \cup over
      /\ renewal' = [t \in Txns |-> IF t \in due THEN "pending" ELSE "idle"]
      /\ pc' = [a \in Actors |-> IF a \in new THEN "operation" ELSE pc[a]]
      /\ call' = [a \in Actors |-> IF a \in new THEN [call[a] EXCEPT !.txn = a[2]] ELSE call[a]]
      /\ UNCHANGED <<txnVars, lease, owned, lockVars, storeVars>>
      /\ UNCHANGED <<at, todo, status, late, seen, phase>>
  BY DEF Tick
<1>2. over \subseteq registered /\ registered \subseteq Txns BY DEF TypeOK
<1>3. ASSUME NEW a \in Actors, a \in new
      PROVE  /\ pc[a] = "idle" /\ pc'[a] = "operation" /\ a \notin Requests /\ a # Closer
             /\ call[a].op = "abort" /\ call'[a].op = "abort" /\ call'[a].txn \in registered
             /\ call'[a] \in Call /\ \A t \in Txns : a = Cleaner(t) => t \in cleaning'
  <2>1. PICK t \in over \ cleaning : a = Cleaner(t) BY <1>3
  <2>2. a[2] = t /\ a \notin Requests /\ a # Closer /\ t \in Txns
    BY <2>1, <1>2, ActorFacts
  <2>3. call[a] \in Call /\ call[a].op = "abort" BY <2>2 DEF TypeOK, Locks, Fits
  <2>4. call'[a] = [call[a] EXCEPT !.txn = t] BY <1>1, <1>3, <2>2
  <2>5. [call[a] EXCEPT !.txn = t] \in Call /\ [call[a] EXCEPT !.txn = t].op = "abort"
        /\ [call[a] EXCEPT !.txn = t].txn = t
    BY <2>2, <2>3 DEF Call
  <2>6. pc[a] = "idle" BY <2>1, <2>2 DEF Locks
  <2>7. pc'[a] = "operation" BY <1>1, <1>3
  <2>8. t \in registered BY <1>2, <2>1
  <2>9. \A u \in Txns : a = Cleaner(u) => u = t BY <2>1, <2>2, ActorFacts
  <2>10. t \in cleaning' BY <1>1, <2>1
  <2> QED BY <2>2, <2>3, <2>4, <2>5, <2>6, <2>7, <2>8, <2>9, <2>10
<1>4. \A a \in Actors : a \notin new => pc'[a] = pc[a] /\ call'[a] = call[a] BY <1>1
<1>5. TypeOK'
  <2>1. call' \in [Actors -> Call]
    <3>1. \A a \in Actors : call'[a] \in Call BY <1>3, <1>4 DEF TypeOK
    <3> QED BY <3>1, <1>1
  <2>2. pc' \in [Actors -> Places] BY <1>1 DEF TypeOK, Places
  <2>3. renewal' \in [Txns -> {"idle", "pending", "granted", "refused"}] BY <1>1
  <2>4. expired' \subseteq Txns /\ cleaning' \subseteq Txns BY <1>1, <1>2 DEF TypeOK
  <2> HIDE DEF over, due, new
  <2>5. UNCHANGED <<txnVars, lease, owned, lockVars, storeVars, at, todo, status, late, seen, phase>>
    BY <1>1
  <2> QED BY <2>1, <2>2, <2>3, <2>4, <2>5 DEF TypeOK
<1> HIDE DEF new
<1> QED BY <1>1, <1>3, <1>4, <1>5 DEF Wakes

LEMMA WakesKeepsLocks ==
  ASSUME TypeOK, Locks, Wakes
  PROVE  Locks'
<1>1. ASSUME NEW a \in Actors PROVE Fits(a)' /\ HoldsLocks(a)'
  <2>1. Fits(a) /\ HoldsLocks(a) BY DEF Locks
  <2>2. UNCHANGED <<at, todo, status, late, inside, opHolder, bound, begun>> BY DEF Wakes
  <2>3. CASE pc'[a] = pc[a] /\ call'[a] = call[a]
    <3>1. Fits(a)' BY <2>1, <2>2, <2>3 DEF Fits, InClientTxn, InTxn, Tid, IsRead, IsControl
    <3>2. HoldsLocks(a)' BY <2>1, <2>2, <2>3 DEF HoldsLocks, InTxn, Tid, IsControl
    <3> QED BY <3>1, <3>2
  <2>4. CASE /\ pc[a] = "idle" /\ pc'[a] = "operation" /\ a \notin Requests
             /\ call[a].op = "abort" /\ call'[a].op = "abort" /\ call'[a].txn \in registered
    <3>1. call'[a].txn # NoTxn /\ call'[a].txn \in begun BY <2>4, ActorFacts DEF TypeOK
    <3>2. \A t \in Txns : opHolder[t] # a BY <2>1, <2>4 DEF HoldsLocks, Holding
    <3>3. \A h \in Hives : a \notin inside[h] BY <2>1, <2>4 DEF HoldsLocks, Gated
    <3>4. todo[a] = {} /\ a \notin late BY <2>1, <2>4 DEF Fits
    <3>5. Fits(a)' BY <2>2, <2>4, <3>1, <3>4 DEF Fits, InClientTxn, InTxn, Tid, IsRead, IsControl
    <3>6. HoldsLocks(a)'
      BY <2>2, <2>4, <3>1, <3>2, <3>3 DEF HoldsLocks, InTxn, Tid, IsControl, Holding, Gated
    <3> QED BY <3>5, <3>6
  <2> QED BY <2>3, <2>4 DEF Wakes
<1>2. ASSUME NEW h \in Hives PROVE Exclusive(h)'
  <2>1. Exclusive(h) /\ inside' = inside BY DEF Locks, Wakes
  <2>2. \A a \in inside[h] : a \in Actors /\ pc[a] # "idle"
    BY DEF TypeOK, Locks, HoldsLocks, Gated
  <2>3. \A a \in inside[h] : call'[a] = call[a] BY <2>2 DEF Wakes
  <2> QED BY <2>1, <2>3 DEF Exclusive, IsRead
<1>3. ASSUME NEW t \in Txns, t \notin cleaning' PROVE pc'[Cleaner(t)] = "idle"
  <2>1. Cleaner(t) \in Actors /\ pc[Cleaner(t)] = "idle" BY <1>3, ActorFacts DEF Wakes, Locks
  <2> QED BY <1>3, <2>1 DEF Wakes
<1>4. \A t \in Txns : bound'[t] # NoHive => t \in begun' BY DEF Wakes, Locks
<1> QED BY <1>1, <1>2, <1>3, <1>4 DEF Locks

\* Begin registers an id that nothing has mentioned yet.
LEMMA BeginLocks ==
  ASSUME Typed, Locks, NEW u \in Txns, NEW mode, Begin(u, mode)
  PROVE  TypeOK' /\ Locks'
<1>1. TypeOK /\ TypeOK' BY DEF Typed, TypeOK, Begin
<1>2. UNCHANGED <<bound, conn, failed, cleaning, lockVars, storeVars, actorVars>> BY DEF Begin
<1>3. begun' = begun \cup {u} BY DEF Begin
<1>4. \A a \in Actors : Fits(a)' /\ HoldsLocks(a)'
  BY <1>2, <1>3 DEF Locks, Fits, HoldsLocks, InClientTxn, InTxn, Tid, IsRead, IsControl
<1>5. \A h \in Hives : Exclusive(h)' BY <1>2 DEF Locks, Exclusive, IsRead
<1> QED BY <1>1, <1>2, <1>3, <1>4, <1>5 DEF Locks

\* What only leases, their renewal and the phase see.
Unseen ==
  UNCHANGED <<txnVars, cleaning, lockVars, storeVars, actorVars>>

LEMMA UnseenKeepsLocks == ASSUME Locks, Unseen PROVE Locks'
BY DEF Unseen, Locks, Fits, HoldsLocks, InClientTxn, InTxn, Tid, IsRead, IsControl, Exclusive

\* One case for each kind of step.
LEMMA NextCases ==
  ASSUME Typed, Locks, Next /\ UNCHANGED scenario
  PROVE  \/ \E a \in Actors : Step(a)
         \/ \E r \in Requests : Dispatch(r) \/ DispatchControl(r) \/ Expire(r)
         \/ AbortRemaining \/ Tick
         \/ \E t \in Txns, mode \in {"readWrite", "readOnly"} : Begin(t, mode)
         \/ TypeOK' /\ Unseen
<1>1. TypeOK BY DEF Typed
<1>2. CASE \E t \in Txns : Renew(t) \/ ApplyRenewal(t)
  <2>1. PICK t \in Txns : Renew(t) \/ ApplyRenewal(t) BY <1>2
  <2>2. CASE Renew(t) BY <1>1, <2>2 DEF Renew, Unseen, TypeOK
  <2>3. CASE ApplyRenewal(t)
    <3>1. Unseen BY <2>3 DEF ApplyRenewal, Unseen
    <3>2. /\ expired' \subseteq Txns /\ UNCHANGED <<owned, phase>>
          /\ lease' \in [Txns -> {"fresh", "closing", "over"}]
          /\ renewal' \in [Txns -> {"idle", "pending", "granted", "refused"}]
      BY <1>1, <2>3 DEF ApplyRenewal, TypeOK
    <3> QED BY <1>1, <3>1, <3>2 DEF TypeOK, Unseen
  <2> QED BY <2>1, <2>2, <2>3
<1>3. CASE \E t \in Txns : Age(t) \/ Disown(t)
  BY <1>1, <1>3 DEF Age, Disown, Unseen, TypeOK
<1>4. CASE Drain \/ StopMaintenance \/ MaintenanceDone \/ CloseHives \/ Exited
  BY <1>1, <1>4 DEF Drain, StopMaintenance, MaintenanceDone, CloseHives, Exited, vars, Unseen, TypeOK, Phases
<1> QED BY <1>2, <1>3, <1>4 DEF Next, Maintenance, Shutdown, Environment

LEMMA LocksNext ==
  ASSUME Typed, Locks, [Next /\ UNCHANGED scenario]_<<vars, scenario>>
  PROVE  Typed' /\ Locks'
<1>1. TypeOK /\ scenario' \in Scenarios BY DEF Typed
<1>2. CASE \E a \in Actors : Step(a)
  <2>1. PICK a \in Actors : Step(a) BY <1>2
  <2> QED BY <1>1, <2>1, StepLocks, ActsKeepsLocks DEF Typed
<1>3. CASE \E r \in Requests : Dispatch(r) \/ DispatchControl(r) \/ Expire(r)
  <2>1. PICK r \in Requests : Dispatch(r) \/ DispatchControl(r) \/ Expire(r) BY <1>3
  <2>2. TypeOK' /\ Acts(r) /\ Fits(r)' /\ HoldsLocks(r)'
    BY <2>1, DispatchLocks, DispatchControlLocks, ExpireLocks
  <2>3. r \in Actors BY ActorFacts
  <2> QED BY <1>1, <2>2, <2>3, ActsKeepsLocks DEF Typed
<1>4. CASE AbortRemaining
  <2>1. Closer \in Actors BY ActorFacts
  <2> QED BY <1>1, <1>4, <2>1, AbortRemainingLocks, ActsKeepsLocks DEF Typed
<1>5. CASE Tick BY <1>1, <1>5, TickWakes, WakesKeepsLocks DEF Typed
<1>6. CASE \E t \in Txns, mode \in {"readWrite", "readOnly"} : Begin(t, mode)
  BY <1>1, <1>6, BeginLocks DEF Typed
<1>7. CASE TypeOK' /\ Unseen BY <1>1, <1>7, UnseenKeepsLocks DEF Typed
<1>8. CASE UNCHANGED <<vars, scenario>>
  <2>1. TypeOK' BY <1>1, <1>8 DEF vars, TypeOK
  <2> QED BY <1>1, <1>8, <2>1, UnseenKeepsLocks DEF vars, Unseen, Typed
<1> QED BY <1>2, <1>3, <1>4, <1>5, <1>6, <1>7, <1>8, NextCases

LEMMA LocksInit == Init => Typed /\ Locks
<1> SUFFICES ASSUME Init PROVE Typed /\ Locks OBVIOUS
<1>1. IdleCall \in Call /\ IdleCall.op = "abort" /\ IdleCall.txn = NoTxn
  <2>1. (CHOOSE h \in Hives : TRUE) \in Hives BY ConstantsAssumption
  <2> QED BY <2>1 DEF IdleCall, Call, Ops
<1>2. TypeOK BY <1>1 DEF Init, TypeOK, Places, Statuses, Phases
<1>3. \A a \in Actors : Fits(a)
  BY <1>1 DEF Init, Fits, InClientTxn, InTxn, Tid, IsRead, IsControl
<1>4. \A a \in Actors : HoldsLocks(a)
  BY <1>1, ActorFacts DEF Init, HoldsLocks, InTxn, Tid, IsControl, Holding, Gated
<1>5. (\A h \in Hives : Exclusive(h)) /\ \A t \in Txns : pc[Cleaner(t)] = "idle" /\ bound[t] = NoHive
  BY ActorFacts DEF Init, Exclusive
<1>6. scenario \in Scenarios BY DEF Init
<1> QED BY <1>2, <1>3, <1>4, <1>5, <1>6 DEF Typed, Locks

\* The gates of transactions and hives are held exactly by those at work.
THEOREM LocksInvariant == Spec => [](Typed /\ Locks)
<1>1. Typed /\ Locks /\ [Next /\ UNCHANGED scenario]_<<vars, scenario>> => (Typed /\ Locks)'
  BY LocksNext
<1> QED BY <1>1, LocksInit, PTL DEF Spec

-----------------------------------------------------------------------------
(* Connections.                                                            *)

\* The hives whose connection a step of a may touch: where it writes, and the
\* one its transaction pins, which it may give back.
Reaches(a, h) ==
  \/ at[a] = h /\ pc[a] \in Writing
  \/ /\ pc[a] \in {"rollback", "finish"} /\ InTxn(a)
     /\ conn[Tid(a)] = "write" /\ bound[Tid(a)] = h

\* What a step of a leaves of the hives.
Spares(a) ==
  /\ \A h \in Hives : ~Reaches(a, h) =>
       /\ writeConn'[h] = writeConn[h] /\ sqlTxn'[h] = sqlTxn[h]
       /\ \A w \in Writes : w[2] = h => /\ w \in pending' <=> w \in pending
                                        /\ w \in published' <=> w \in published
  /\ \A h \in Hives : \/ writeConn'[h] \in {writeConn[h], Nobody}
                      \/ pc[a] \in Writing /\ writeConn'[h] = Owner(a)
  /\ \A t \in Txns : opHolder[t] = a /\ conn'[t] = "write" =>
       \/ conn[t] = "write" /\ bound'[t] = bound[t]
       \/ pc[a] = "connect" /\ bound'[t] = at[a] /\ InClientTxn(a)
  /\ published \subseteq published'

\* Where an actor and its transaction stand.
LEMMA Own ==
  ASSUME TypeOK, Locks, Connections, NEW a \in Actors
  PROVE  /\ InTxn(a) => Tid(a) \in Txns
         /\ pc[a] \in Holding /\ InTxn(a) => opHolder[Tid(a)] = a
         /\ \A t \in Txns : opHolder[t] = a => Tid(a) = t /\ InTxn(a) /\ pc[a] \in Holding
         /\ pc[a] \in Writing => /\ at[a] \in Hives /\ a \in inside[at[a]] /\ ~IsRead(a)
                                 /\ Owner(a) = a \/ opHolder[Owner(a)] = a
         /\ pc[a] # "idle" => Owner(a) = a \/ (InTxn(a) /\ Owner(a) = Tid(a))
<1>1. InTxn(a) => Tid(a) \in Txns BY DEF TypeOK, Call, InTxn, Tid
<1>2. Fits(a) /\ HoldsLocks(a) /\ UsesConn(a) BY DEF Locks, Connections
<1>3. pc[a] \in Holding /\ InTxn(a) => opHolder[Tid(a)] = a BY <1>2 DEF HoldsLocks
<1>4. \A t \in Txns : opHolder[t] = a => Tid(a) = t /\ InTxn(a) /\ pc[a] \in Holding
  BY <1>2, ActorFacts DEF HoldsLocks, InTxn
<1>5. pc[a] # "idle" => Owner(a) = a \/ (InTxn(a) /\ Owner(a) = Tid(a))
  BY <1>2 DEF Owner, Fits, IsControl, InClientTxn
<1>6. ASSUME pc[a] \in Writing
      PROVE  at[a] \in Hives /\ a \in inside[at[a]] /\ ~IsRead(a) /\ pc[a] \in Holding
  <2>1. ~IsRead(a) /\ pc[a] \in Gated /\ pc[a] \in Holding
    BY <1>2, <1>6 DEF Fits, Writing, IsRead, Gated, Holding, Places
  <2>2. CASE call[a].op # "commit" BY <1>2, <2>1, <2>2 DEF HoldsLocks
  <2>3. CASE call[a].op = "commit"
    <3>1. conn[Tid(a)] = "write" /\ InTxn(a)
      BY <1>2, <1>6, <2>3 DEF UsesConn, Writing, Fits, IsControl
    <3>2. bound[Tid(a)] \in Hives BY <3>1, <1>1 DEF Connections, Pins
    <3> QED BY <3>2, <2>1, <2>3, <1>2, ActorFacts DEF HoldsLocks, IsControl
  <2> QED BY <2>1, <2>2, <2>3
<1>7. pc[a] \in Writing => pc[a] # "idle" BY DEF Writing
<1> QED BY <1>1, <1>3, <1>4, <1>5, <1>6, <1>7

\* No other actor reaches the hive of a writer.
LEMMA WriterNotReached ==
  ASSUME TypeOK, Locks, Connections, NEW a \in Actors, NEW b \in Actors, a # b,
         pc[b] \in Writing
  PROVE  ~Reaches(a, at[b])
<1> SUFFICES ASSUME Reaches(a, at[b]) PROVE FALSE OBVIOUS
<1>1. at[b] \in Hives /\ b \in inside[at[b]] /\ ~IsRead(b) BY Own
<1>2. CASE at[a] = at[b] /\ pc[a] \in Writing
  <2>1. a \in inside[at[b]] BY <1>2, Own
  <2> QED BY <1>1, <2>1 DEF Locks, Exclusive
<1>3. CASE /\ pc[a] \in {"rollback", "finish"} /\ InTxn(a)
           /\ conn[Tid(a)] = "write" /\ bound[Tid(a)] = at[b]
  <2>1. Tid(a) \in Txns /\ opHolder[Tid(a)] = a BY <1>3, Own DEF Holding, Places
  <2>2. Tid(a) = Owner(b) BY <1>3, <2>1 DEF Connections, Alone
  <2>3. opHolder[Owner(b)] = b BY <2>1, <2>2, Own, ActorFacts
  <2> QED BY <2>1, <2>2, <2>3
<1> QED BY <1>2, <1>3 DEF Reaches

\* Nor the hive of a transaction whose operation gate it does not hold.
LEMMA PinnedNotReached ==
  ASSUME TypeOK, Locks, Connections, NEW a \in Actors, NEW t \in Txns,
         opHolder[t] # a, conn[t] = "write"
  PROVE  ~Reaches(a, bound[t])
<1> SUFFICES ASSUME Reaches(a, bound[t]) PROVE FALSE OBVIOUS
<1>1. CASE at[a] = bound[t] /\ pc[a] \in Writing
  <2>1. t = Owner(a) BY <1>1 DEF Connections, Alone
  <2>2. opHolder[Owner(a)] = a BY <1>1, <2>1, Own, ActorFacts
  <2> QED BY <2>1, <2>2
<1>2. CASE /\ pc[a] \in {"rollback", "finish"} /\ InTxn(a)
           /\ conn[Tid(a)] = "write" /\ bound[Tid(a)] = bound[t]
  <2>1. Tid(a) \in Txns /\ opHolder[Tid(a)] = a BY <1>2, Own DEF Holding, Places
  <2> QED BY <1>2, <2>1 DEF Connections, OnePerHive
<1> QED BY <1>1, <1>2 DEF Reaches

LEMMA OthersKeepConn ==
  ASSUME TypeOK, Locks, Connections, NEW a \in Actors, Acts(a), Spares(a),
         NEW b \in Actors, b # a
  PROVE  UsesConn(b)' /\ Alone(b)'
<1>1. UsesConn(b) /\ Alone(b) /\ Fits(b) /\ HoldsLocks(b) BY DEF Connections, Locks
<1>2. pc'[b] = pc[b] /\ call'[b] = call[b] /\ at'[b] = at[b] BY DEF Acts
<1>3. InTxn(b) => Tid(b) \in Txns BY Own
<1>4. pc[b] \in Holding /\ InTxn(b) =>
        /\ conn'[Tid(b)] = conn[Tid(b)] /\ bound'[Tid(b)] = bound[Tid(b)]
        /\ Tid(b) \in registered' <=> Tid(b) \in registered
        /\ Tid(b) \in failed' <=> Tid(b) \in failed
  <2> HAVE pc[b] \in Holding /\ InTxn(b)
  <2>1. Tid(b) \in Txns /\ opHolder[Tid(b)] = b BY Own
  <2> QED BY <2>1 DEF Acts
<1>5. /\ InTxn(b)' = InTxn(b) /\ Tid(b)' = Tid(b) /\ IsControl(b)' = IsControl(b)
      /\ InClientTxn(b)' = InClientTxn(b) /\ Owner(b)' = Owner(b) /\ Works(b)' = Works(b)
  BY <1>2 DEF InTxn, Tid, IsControl, InClientTxn, Owner, Works
<1>6. pc[b] \in Writing =>
        /\ writeConn'[at[b]] = writeConn[at[b]] /\ at[b] \in Hives
        /\ b \in inside[at[b]] /\ ~IsRead(b)
  BY WriterNotReached, Own DEF Spares
<1>7. \A h \in Hives : writeConn'[h] = b => writeConn[h] = b
  <2> TAKE h \in Hives
  <2>1. pc[a] \in Writing => Owner(a) # b
    BY Own, ActorFacts DEF Writing
  <2> QED BY <2>1, ActorFacts DEF Spares
<1>8. /\ pc[b] \in Writing \cup Gated \cup {"gate", "poisoning"} => pc[b] \in Holding
      /\ pc[b] \in {"pin", "pinning", "poisoning"} => InTxn(b)
      /\ call[b].op = "commit" /\ pc[b] # "idle" => InTxn(b)
      /\ Works(b) => pc[b] \in Holding /\ InTxn(b)
      /\ InClientTxn(b) => InTxn(b)
  BY <1>1 DEF Writing, Gated, Holding, Places, Fits, Works, InClientTxn, IsControl
<1>9. UsesConn(b)'
  <2>1. begun' = begun /\ readOnly' = readOnly BY DEF Acts
  <2>2. Works(b) => Tid(b) \in registered' BY <1>1, <1>4, <1>8 DEF UsesConn
  <2>3. /\ pc[b] = "connect" /\ InClientTxn(b) => conn'[Tid(b)] = "none" /\ Tid(b) \notin failed'
        /\ pc[b] = "statement" /\ InClientTxn(b) =>
             conn'[Tid(b)] = "write" /\ bound'[Tid(b)] = at[b]
        /\ pc[b] \in {"commit", "publishing"} /\ call[b].op = "commit" => conn'[Tid(b)] = "write"
        /\ pc[b] = "poisoning" => conn'[Tid(b)] # "none"
    BY <1>1, <1>4, <1>8 DEF UsesConn, Writing
  <2>4. /\ pc[b] \in Gated \cup {"gate"} /\ call[b].op = "commit" => Tid(b) \notin failed'
        /\ pc[b] \in {"pin", "pinning"} =>
             conn'[Tid(b)] = "none" /\ Tid(b) \notin failed' /\ Tid(b) \in readOnly
        /\ pc[b] \in {"reading", "reading2"} /\ InTxn(b) =>
             /\ Tid(b) \notin failed'
             /\ conn'[Tid(b)] = "none" => Tid(b) \notin readOnly
             /\ conn'[Tid(b)] # "none" => bound'[Tid(b)] = at[b]
    BY <1>1, <1>4, <1>8 DEF UsesConn, Gated
  <2>5. pc[b] \in {"statement", "commit", "publishing"} => writeConn'[at[b]] = Owner(b)
    BY <1>1, <1>6 DEF UsesConn, Writing
  <2>6. \A h \in Hives : writeConn'[h] = b =>
          at[b] = h /\ pc[b] \in {"statement", "commit", "publishing"} /\ Owner(b) = b
    BY <1>1, <1>7 DEF UsesConn
  <2> QED BY <1>1, <1>2, <1>5, <2>1, <2>2, <2>3, <2>4, <2>5, <2>6 DEF UsesConn
<1>10. Alone(b)'
  <2> SUFFICES ASSUME pc[b] \in Writing, NEW t \in Txns, conn'[t] = "write", bound'[t] = at[b]
               PROVE  t = Owner(b) /\ pc[b] # "connect"
    BY <1>2, <1>5 DEF Alone
  <2>1. CASE conn[t] = "write" /\ bound[t] = bound'[t] BY <1>1, <2>1 DEF Alone
  <2>2. CASE opHolder[t] = a /\ pc[a] = "connect" /\ bound'[t] = at[a]
    <3>1. pc[a] \in Writing BY <2>2 DEF Writing
    <3>2. a \in inside[at[b]] /\ ~IsRead(a) BY <2>2, <3>1, Own
    <3> QED BY <3>2, <1>6 DEF Locks, Exclusive
  <2>3. opHolder[t] # a => conn'[t] = conn[t] /\ bound'[t] = bound[t] BY DEF Acts
  <2> QED BY <2>1, <2>2, <2>3 DEF Spares
<1> QED BY <1>9, <1>10

LEMMA OthersPinsKept ==
  ASSUME TypeOK, TypeOK', Locks, Connections, NEW a \in Actors, Acts(a), Spares(a),
         NEW t \in Txns, opHolder[t] # a
  PROVE  Pins(t)'
<1>1. Pins(t) BY DEF Connections
<1>2. conn'[t] = conn[t] /\ bound'[t] = bound[t] /\ (t \in registered' <=> t \in registered)
  BY DEF Acts
<1>3. readOnly' = readOnly BY DEF Acts
<1>4. opHolder[t] \in Actors =>
        opHolder'[t] = opHolder[t] /\ pc'[opHolder[t]] = pc[opHolder[t]]
  BY ActorFacts DEF Acts
<1>5. Poisoned(t)' <=> Poisoned(t)
  BY <1>4, ActorFacts DEF Acts, Poisoned, TypeOK
<1>6. conn[t] = "write" => writeConn'[bound[t]] = writeConn[bound[t]]
  BY <1>1, PinnedNotReached DEF Spares, Pins
<1>7. \A h \in Hives : writeConn'[h] = t => writeConn[h] = t
  <2> TAKE h \in Hives
  <2>1. pc[a] \in Writing => Owner(a) # t
    BY Own, ActorFacts DEF Writing
  <2> QED BY <2>1, ActorFacts DEF Spares
<1> QED BY <1>1, <1>2, <1>3, <1>4, <1>5, <1>6, <1>7 DEF Pins

LEMMA ActsKeepsConn ==
  ASSUME TypeOK, TypeOK', Locks, Connections, NEW a \in Actors, Acts(a), Spares(a),
         UsesConn(a)', Alone(a)', \A t \in Txns : opHolder[t] = a => Pins(t)'
  PROVE  Connections'
<1>1. \A b \in Actors : UsesConn(b)' /\ Alone(b)' BY OthersKeepConn
<1>2. \A t \in Txns : Pins(t)' BY OthersPinsKept
<1>3. OnePerHive'
  <2> SUFFICES ASSUME NEW t \in Txns, NEW u \in Txns, t # u, conn'[t] = "write",
                      conn'[u] = "write", bound'[t] = bound'[u]
               PROVE  FALSE
    BY DEF OnePerHive
  <2>1. ASSUME NEW x \in Txns, conn'[x] = "write"
        PROVE  \/ conn[x] = "write" /\ bound'[x] = bound[x]
               \/ opHolder[x] = a /\ pc[a] = "connect" /\ bound'[x] = at[a]
    BY <2>1 DEF Acts, Spares
  <2>2. \A x \in Txns : pc[a] = "connect" => ~(conn[x] = "write" /\ bound[x] = at[a])
    BY DEF Connections, Alone, Writing
  <2>3. \A x, y \in Txns : opHolder[x] = a /\ opHolder[y] = a => x = y BY Own
  <2> QED BY <2>1, <2>2, <2>3 DEF Connections, OnePerHive
<1> QED BY <1>1, <1>2, <1>3 DEF Connections

LEMMA AdmitOperationConn ==
  ASSUME TypeOK, TypeOK', Locks, Connections, NEW a \in Actors, AdmitOperation(a), Acts(a)
  PROVE  Spares(a) /\ UsesConn(a)' /\ Alone(a)' /\ \A t \in Txns : opHolder[t] = a => Pins(t)'
<1>1. Fits(a) /\ HoldsLocks(a) /\ UsesConn(a) /\ Alone(a) /\ (InTxn(a) => Pins(Tid(a)))
  BY Own DEF Locks, Connections
<1>2. /\ InTxn(a) => Tid(a) \in Txns
      /\ pc[a] \in Writing => at[a] \in Hives
      /\ pc[a] \in Holding /\ InTxn(a) => opHolder[Tid(a)] = a
      /\ \A t \in Txns : opHolder[t] = a => Tid(a) = t /\ InTxn(a) /\ pc[a] \in Holding
  BY Own
<1>3. Spares(a)
  BY <1>1, <1>2, ActorFacts DEF AdmitOperation, TypeOK, Spares, Reaches, Writing, Owner,
     Fits, UsesConn, Holding, Places, WritesOf, InHive, In, Discarded, InClientTxn, InTxn,
     Tid
<1>4. UsesConn(a)'
  BY <1>1, <1>2, ActorFacts DEF AdmitOperation, TypeOK, UsesConn, Works, Writing, Owner,
     InClientTxn, InTxn, Tid, IsControl, IsRead, Gated, Holding, Places, Fits, HoldsLocks
<1>5. Alone(a)'
  BY <1>1, <1>2, ActorFacts DEF AdmitOperation, TypeOK, Alone, Writing, Owner,
     InClientTxn, InTxn, Tid, Fits
<1>6. \A t \in Txns : opHolder[t] = a => Pins(t)'
  BY <1>1, <1>2, ActorFacts DEF AdmitOperation, TypeOK, Pins, Poisoned, Fits, UsesConn,
     Holding, Places, InTxn, Tid, Owner, Writing, InClientTxn
<1> QED BY <1>3, <1>4, <1>5, <1>6

LEMMA OperationTimeoutConn ==
  ASSUME TypeOK, TypeOK', Locks, Connections, NEW a \in Actors, OperationTimeout(a), Acts(a)
  PROVE  Spares(a) /\ UsesConn(a)' /\ Alone(a)' /\ \A t \in Txns : opHolder[t] = a => Pins(t)'
<1>1. Fits(a) /\ HoldsLocks(a) /\ UsesConn(a) /\ Alone(a) /\ (InTxn(a) => Pins(Tid(a)))
  BY Own DEF Locks, Connections
<1>2. /\ InTxn(a) => Tid(a) \in Txns
      /\ pc[a] \in Writing => at[a] \in Hives
      /\ pc[a] \in Holding /\ InTxn(a) => opHolder[Tid(a)] = a
      /\ \A t \in Txns : opHolder[t] = a => Tid(a) = t /\ InTxn(a) /\ pc[a] \in Holding
  BY Own
<1>3. Spares(a)
  BY <1>1, <1>2, ActorFacts DEF OperationTimeout, TypeOK, Spares, Reaches, Writing, Owner,
     Fits, UsesConn, Holding, Places, WritesOf, InHive, In, Discarded, InClientTxn, InTxn,
     Tid
<1>4. UsesConn(a)'
  BY <1>1, <1>2, ActorFacts DEF OperationTimeout, TypeOK, UsesConn, Works, Writing, Owner,
     InClientTxn, InTxn, Tid, IsControl, IsRead, Gated, Holding, Places, Fits, HoldsLocks
<1>5. Alone(a)'
  BY <1>1, <1>2, ActorFacts DEF OperationTimeout, TypeOK, Alone, Writing, Owner,
     InClientTxn, InTxn, Tid, Fits
<1>6. \A t \in Txns : opHolder[t] = a => Pins(t)'
  BY <1>1, <1>2, ActorFacts DEF OperationTimeout, TypeOK, Pins, Poisoned, Fits, UsesConn,
     Holding, Places, InTxn, Tid, Owner, Writing, InClientTxn
<1> QED BY <1>3, <1>4, <1>5, <1>6

LEMMA StartConn ==
  ASSUME TypeOK, TypeOK', Locks, Connections, NEW a \in Actors, Start(a), Acts(a)
  PROVE  Spares(a) /\ UsesConn(a)' /\ Alone(a)' /\ \A t \in Txns : opHolder[t] = a => Pins(t)'
<1>1. Fits(a) /\ HoldsLocks(a) /\ UsesConn(a) /\ Alone(a) /\ (InTxn(a) => Pins(Tid(a)))
  BY Own DEF Locks, Connections
<1>2. /\ InTxn(a) => Tid(a) \in Txns
      /\ pc[a] \in Writing => at[a] \in Hives
      /\ pc[a] \in Holding /\ InTxn(a) => opHolder[Tid(a)] = a
      /\ \A t \in Txns : opHolder[t] = a => Tid(a) = t /\ InTxn(a) /\ pc[a] \in Holding
  BY Own
<1>3. Spares(a)
  BY <1>1, <1>2, ActorFacts DEF Start, StartMutation, StartRead, StartDeleteLayer,
     StartCommit, StartAbort, TypeOK, Spares, Reaches, Writing, Owner, Fits, UsesConn,
     Holding, Places, WritesOf, InHive, In, Discarded, InClientTxn, InTxn, Tid
<1>4. UsesConn(a)'
  <2>1. CASE StartMutation(a)
    BY <2>1, <1>1, <1>2, ActorFacts DEF Start, StartMutation, MutationAllowed, TypeOK,
       UsesConn, Works, Writing, Owner, InClientTxn, InTxn, Tid, IsControl, IsRead, Gated,
       Holding, Places, Fits, HoldsLocks
  <2>2. CASE StartRead(a)
    BY <2>2, <1>1, <1>2, ActorFacts DEF Start, StartRead, MutationAllowed, TypeOK,
       UsesConn, Works, Writing, Owner, InClientTxn, InTxn, Tid, IsControl, IsRead, Gated,
       Holding, Places, Fits, HoldsLocks
  <2>3. CASE StartDeleteLayer(a)
    BY <2>3, <1>1, <1>2, ActorFacts DEF Start, StartDeleteLayer, MutationAllowed, TypeOK,
       UsesConn, Works, Writing, Owner, InClientTxn, InTxn, Tid, IsControl, IsRead, Gated,
       Holding, Places, Fits, HoldsLocks
  <2>4. CASE StartCommit(a)
    BY <2>4, <1>1, <1>2, ActorFacts DEF Start, StartCommit, MutationAllowed, TypeOK,
       UsesConn, Works, Writing, Owner, InClientTxn, InTxn, Tid, IsControl, IsRead, Gated,
       Holding, Places, Fits, HoldsLocks
  <2>5. CASE StartAbort(a)
    BY <2>5, <1>1, <1>2, ActorFacts DEF Start, StartAbort, MutationAllowed, TypeOK,
       UsesConn, Works, Writing, Owner, InClientTxn, InTxn, Tid, IsControl, IsRead, Gated,
       Holding, Places, Fits, HoldsLocks
  <2> QED BY <2>1, <2>2, <2>3, <2>4, <2>5 DEF Start
<1>5. Alone(a)'
  BY <1>1, <1>2, ActorFacts DEF Start, StartMutation, StartRead, StartDeleteLayer,
     StartCommit, StartAbort, TypeOK, Alone, Writing, Owner, InClientTxn, InTxn, Tid, Fits
<1>6. \A t \in Txns : opHolder[t] = a => Pins(t)'
  BY <1>1, <1>2, ActorFacts DEF Start, StartMutation, StartRead, StartDeleteLayer,
     StartCommit, StartAbort, TypeOK, Pins, Poisoned, Fits, UsesConn, Holding, Places,
     InTxn, Tid, Owner, Writing, InClientTxn
<1> QED BY <1>3, <1>4, <1>5, <1>6

LEMMA EnterGateConn ==
  ASSUME TypeOK, TypeOK', Locks, Connections, NEW a \in Actors, EnterGate(a), Acts(a)
  PROVE  Spares(a) /\ UsesConn(a)' /\ Alone(a)' /\ \A t \in Txns : opHolder[t] = a => Pins(t)'
<1>1. Fits(a) /\ HoldsLocks(a) /\ UsesConn(a) /\ Alone(a) /\ (InTxn(a) => Pins(Tid(a)))
  BY Own DEF Locks, Connections
<1>2. /\ InTxn(a) => Tid(a) \in Txns
      /\ pc[a] \in Writing => at[a] \in Hives
      /\ pc[a] \in Holding /\ InTxn(a) => opHolder[Tid(a)] = a
      /\ \A t \in Txns : opHolder[t] = a => Tid(a) = t /\ InTxn(a) /\ pc[a] \in Holding
  BY Own
<1>3. Spares(a)
  BY <1>1, <1>2, ActorFacts DEF EnterGate, TypeOK, Spares, Reaches, Writing, Owner, Fits,
     UsesConn, Holding, Places, WritesOf, InHive, In, Discarded, InClientTxn, InTxn, Tid
<1>4. UsesConn(a)'
  BY <1>1, <1>2, ActorFacts DEF EnterGate, TypeOK, UsesConn, Works, Writing, Owner,
     InClientTxn, InTxn, Tid, IsControl, IsRead, Gated, Holding, Places, Fits, HoldsLocks
<1>5. Alone(a)'
  BY <1>1, <1>2, ActorFacts DEF EnterGate, TypeOK, Alone, Writing, Owner, InClientTxn,
     InTxn, Tid, Fits
<1>6. \A t \in Txns : opHolder[t] = a => Pins(t)'
  BY <1>1, <1>2, ActorFacts DEF EnterGate, TypeOK, Pins, Poisoned, Fits, UsesConn,
     Holding, Places, InTxn, Tid, Owner, Writing, InClientTxn
<1> QED BY <1>3, <1>4, <1>5, <1>6

LEMMA GateTimeoutConn ==
  ASSUME TypeOK, TypeOK', Locks, Connections, NEW a \in Actors, GateTimeout(a), Acts(a)
  PROVE  Spares(a) /\ UsesConn(a)' /\ Alone(a)' /\ \A t \in Txns : opHolder[t] = a => Pins(t)'
<1>1. Fits(a) /\ HoldsLocks(a) /\ UsesConn(a) /\ Alone(a) /\ (InTxn(a) => Pins(Tid(a)))
  BY Own DEF Locks, Connections
<1>2. /\ InTxn(a) => Tid(a) \in Txns
      /\ pc[a] \in Writing => at[a] \in Hives
      /\ pc[a] \in Holding /\ InTxn(a) => opHolder[Tid(a)] = a
      /\ \A t \in Txns : opHolder[t] = a => Tid(a) = t /\ InTxn(a) /\ pc[a] \in Holding
  BY Own
<1>3. Spares(a)
  BY <1>1, <1>2, ActorFacts DEF GateTimeout, TypeOK, Spares, Reaches, Writing, Owner,
     Fits, UsesConn, Holding, Places, WritesOf, InHive, In, Discarded, InClientTxn, InTxn,
     Tid
<1>4. UsesConn(a)'
  BY <1>1, <1>2, ActorFacts DEF GateTimeout, TypeOK, UsesConn, Works, Writing, Owner,
     InClientTxn, InTxn, Tid, IsControl, IsRead, Gated, Holding, Places, Fits, HoldsLocks
<1>5. Alone(a)'
  BY <1>1, <1>2, ActorFacts DEF GateTimeout, TypeOK, Alone, Writing, Owner, InClientTxn,
     InTxn, Tid, Fits
<1>6. \A t \in Txns : opHolder[t] = a => Pins(t)'
  BY <1>1, <1>2, ActorFacts DEF GateTimeout, TypeOK, Pins, Poisoned, Fits, UsesConn,
     Holding, Places, InTxn, Tid, Owner, Writing, InClientTxn
<1> QED BY <1>3, <1>4, <1>5, <1>6

LEMMA RouteWriteConn ==
  ASSUME TypeOK, TypeOK', Locks, Connections, NEW a \in Actors, RouteWrite(a), Acts(a)
  PROVE  Spares(a) /\ UsesConn(a)' /\ Alone(a)' /\ \A t \in Txns : opHolder[t] = a => Pins(t)'
<1>1. Fits(a) /\ HoldsLocks(a) /\ UsesConn(a) /\ Alone(a) /\ (InTxn(a) => Pins(Tid(a)))
  BY Own DEF Locks, Connections
<1>2. /\ InTxn(a) => Tid(a) \in Txns
      /\ pc[a] \in Writing => at[a] \in Hives
      /\ pc[a] \in Holding /\ InTxn(a) => opHolder[Tid(a)] = a
      /\ \A t \in Txns : opHolder[t] = a => Tid(a) = t /\ InTxn(a) /\ pc[a] \in Holding
  BY Own
<1>3. Spares(a)
  BY <1>1, <1>2, ActorFacts DEF RouteWrite, DeclineBusy, TypeOK, Spares, Reaches, Writing,
     Owner, Fits, UsesConn, Holding, Places, WritesOf, InHive, In, Discarded, InClientTxn,
     InTxn, Tid
<1>4. UsesConn(a)'
  BY <1>1, <1>2, ActorFacts DEF RouteWrite, DeclineBusy, TypeOK, Pins, Poisoned, UsesConn,
     Works, Writing, Owner, InClientTxn, InTxn, Tid, IsControl, IsRead, Gated, Holding,
     Places, Fits, HoldsLocks
<1>5. Alone(a)'
  <2>1. CASE pc'[a] \notin Writing BY <2>1 DEF Alone
  <2>2. CASE pc'[a] \in Writing
    <3>1. /\ ~Competes(a) /\ pc'[a] \in {"connect", "statement"} /\ pc[a] = "routing"
          /\ call[a].op \in {"write", "flush", "deleteLayer"}
          /\ UNCHANGED <<conn, bound, at, call>>
          /\ InClientTxn(a) => conn[Tid(a)] = "none" \/ (bound[Tid(a)] = at[a] /\ pc'[a] = "statement")
          /\ InClientTxn(a) \/ pc'[a] = "connect"
      BY <2>2 DEF RouteWrite, DeclineBusy, TypeOK, Writing
    <3>2. at[a] \in Hives /\ a \in inside[at[a]] /\ ~IsRead(a)
      BY <1>1, <3>1 DEF HoldsLocks, Gated, IsRead
    <3>3. ASSUME NEW t \in Txns, conn[t] = "write", bound[t] = at[a]
          PROVE  InClientTxn(a) /\ t = Tid(a)
      <4>1. Pins(t) BY DEF Connections
      <4>2. t \notin readOnly BY <3>3, <4>1 DEF Pins
      <4>3. CASE t \in registered
        <5>1. t \in registered \ {NoTxn} BY <4>3, ActorFacts
        <5> QED BY <3>1, <3>3, <4>2, <4>3, <5>1 DEF Competes, HiveBusy, OtherWriter, InClientTxn, InTxn
      <4>4. CASE t \notin registered
        <5>1. opHolder[t] \in Actors /\ pc[opHolder[t]] = "rollback"
          BY <3>3, <4>1, <4>4 DEF Pins
        <5>2. HoldsLocks(opHolder[t]) /\ Fits(opHolder[t]) BY <5>1 DEF Locks
        <5>3. Tid(opHolder[t]) = t /\ call[opHolder[t]].op = "abort"
          BY <5>1, <5>2 DEF HoldsLocks, Fits
        <5>4. opHolder[t] \in inside[at[a]]
          BY <3>2, <3>3, <5>1, <5>2, <5>3, ActorFacts DEF HoldsLocks, IsControl
        <5>5. a # opHolder[t] BY <3>1, <5>1
        <5> QED BY <3>2, <5>4, <5>5 DEF Locks, Exclusive
      <4> QED BY <4>3, <4>4
    <3>4. InClientTxn(a)' = InClientTxn(a) /\ Tid(a)' = Tid(a) BY <3>1 DEF InClientTxn, InTxn, Tid
    <3>5. InClientTxn(a) => Owner(a)' = Tid(a) BY <3>4 DEF Owner
    <3> QED BY <3>1, <3>3, <3>4, <3>5 DEF Alone
  <2> QED BY <2>1, <2>2
<1>6. \A t \in Txns : opHolder[t] = a => Pins(t)'
  BY <1>1, <1>2, ActorFacts DEF RouteWrite, DeclineBusy, TypeOK, Pins, Poisoned, Fits,
     UsesConn, Holding, Places, InTxn, Tid, Owner, Writing, InClientTxn
<1> QED BY <1>3, <1>4, <1>5, <1>6

LEMMA ConnectConn ==
  ASSUME TypeOK, TypeOK', Locks, Connections, NEW a \in Actors, Connect(a), Acts(a)
  PROVE  Spares(a) /\ UsesConn(a)' /\ Alone(a)' /\ \A t \in Txns : opHolder[t] = a => Pins(t)'
<1>1. Fits(a) /\ HoldsLocks(a) /\ UsesConn(a) /\ Alone(a) /\ (InTxn(a) => Pins(Tid(a)))
  BY Own DEF Locks, Connections
<1>2. /\ InTxn(a) => Tid(a) \in Txns
      /\ pc[a] \in Writing => at[a] \in Hives
      /\ pc[a] \in Holding /\ InTxn(a) => opHolder[Tid(a)] = a
      /\ \A t \in Txns : opHolder[t] = a => Tid(a) = t /\ InTxn(a) /\ pc[a] \in Holding
  BY Own
<1>3. Spares(a)
  BY <1>1, <1>2, ActorFacts DEF Connect, TypeOK, Spares, Reaches, Writing, Owner, Fits,
     UsesConn, Holding, Places, WritesOf, InHive, In, Discarded, InClientTxn, InTxn, Tid
<1>4. UsesConn(a)'
  BY <1>1, <1>2, ActorFacts DEF Connect, TypeOK, UsesConn, Works, Writing, Owner,
     InClientTxn, InTxn, Tid, IsControl, IsRead, Gated, Holding, Places, Fits, HoldsLocks
<1>5. Alone(a)'
  BY <1>1, <1>2, ActorFacts DEF Connect, TypeOK, Alone, Writing, Owner, InClientTxn,
     InTxn, Tid, Fits
<1>6. \A t \in Txns : opHolder[t] = a => Pins(t)'
  BY <1>1, <1>2, <1>3, ActorFacts DEF Connect, TypeOK, Pins, Poisoned, UsesConn, Works,
     IsControl, Holding, Places, InTxn, Tid, InClientTxn, Writing
<1> QED BY <1>3, <1>4, <1>5, <1>6

LEMMA ConnectFailsConn ==
  ASSUME TypeOK, TypeOK', Locks, Connections, NEW a \in Actors, ConnectFails(a), Acts(a)
  PROVE  Spares(a) /\ UsesConn(a)' /\ Alone(a)' /\ \A t \in Txns : opHolder[t] = a => Pins(t)'
<1>1. Fits(a) /\ HoldsLocks(a) /\ UsesConn(a) /\ Alone(a) /\ (InTxn(a) => Pins(Tid(a)))
  BY Own DEF Locks, Connections
<1>2. /\ InTxn(a) => Tid(a) \in Txns
      /\ pc[a] \in Writing => at[a] \in Hives
      /\ pc[a] \in Holding /\ InTxn(a) => opHolder[Tid(a)] = a
      /\ \A t \in Txns : opHolder[t] = a => Tid(a) = t /\ InTxn(a) /\ pc[a] \in Holding
  BY Own
<1>3. Spares(a)
  BY <1>1, <1>2, ActorFacts DEF ConnectFails, Errors, TypeOK, Spares, Reaches, Writing,
     Owner, Fits, UsesConn, Holding, Places, WritesOf, InHive, In, Discarded, InClientTxn,
     InTxn, Tid
<1>4. UsesConn(a)'
  BY <1>1, <1>2, ActorFacts DEF ConnectFails, Errors, TypeOK, UsesConn, Works, Writing,
     Owner, InClientTxn, InTxn, Tid, IsControl, IsRead, Gated, Holding, Places, Fits,
     HoldsLocks
<1>5. Alone(a)'
  BY <1>1, <1>2, ActorFacts DEF ConnectFails, Errors, TypeOK, Alone, Writing, Owner,
     InClientTxn, InTxn, Tid, Fits
<1>6. \A t \in Txns : opHolder[t] = a => Pins(t)'
  BY <1>1, <1>2, ActorFacts DEF ConnectFails, Errors, TypeOK, Pins, Poisoned, Fits,
     UsesConn, Holding, Places, InTxn, Tid, Owner, Writing, InClientTxn
<1> QED BY <1>3, <1>4, <1>5, <1>6

LEMMA CheckpointConn ==
  ASSUME TypeOK, TypeOK', Locks, Connections, NEW a \in Actors, Checkpoint(a), Acts(a)
  PROVE  Spares(a) /\ UsesConn(a)' /\ Alone(a)' /\ \A t \in Txns : opHolder[t] = a => Pins(t)'
<1>1. Fits(a) /\ HoldsLocks(a) /\ UsesConn(a) /\ Alone(a) /\ (InTxn(a) => Pins(Tid(a)))
  BY Own DEF Locks, Connections
<1>2. /\ InTxn(a) => Tid(a) \in Txns
      /\ pc[a] \in Writing => at[a] \in Hives
      /\ pc[a] \in Holding /\ InTxn(a) => opHolder[Tid(a)] = a
      /\ \A t \in Txns : opHolder[t] = a => Tid(a) = t /\ InTxn(a) /\ pc[a] \in Holding
  BY Own
<1>3. Spares(a)
  BY <1>1, <1>2, ActorFacts DEF Checkpoint, Errors, TypeOK, Spares, Reaches, Writing,
     Owner, Fits, UsesConn, Holding, Places, WritesOf, InHive, In, Discarded, InClientTxn,
     InTxn, Tid
<1>4. UsesConn(a)'
  BY <1>1, <1>2, ActorFacts DEF Checkpoint, Errors, TypeOK, UsesConn, Works, Writing,
     Owner, InClientTxn, InTxn, Tid, IsControl, IsRead, Gated, Holding, Places, Fits,
     HoldsLocks
<1>5. Alone(a)'
  BY <1>1, <1>2, ActorFacts DEF Checkpoint, Errors, TypeOK, Alone, Writing, Owner,
     InClientTxn, InTxn, Tid, Fits
<1>6. \A t \in Txns : opHolder[t] = a => Pins(t)'
  BY <1>1, <1>2, ActorFacts DEF Checkpoint, Errors, TypeOK, Pins, Poisoned, Fits,
     UsesConn, Holding, Places, InTxn, Tid, Owner, Writing, InClientTxn
<1> QED BY <1>3, <1>4, <1>5, <1>6

LEMMA StatementConn ==
  ASSUME TypeOK, TypeOK', Locks, Connections, NEW a \in Actors, Statement(a), Acts(a)
  PROVE  Spares(a) /\ UsesConn(a)' /\ Alone(a)' /\ \A t \in Txns : opHolder[t] = a => Pins(t)'
<1>1. Fits(a) /\ HoldsLocks(a) /\ UsesConn(a) /\ Alone(a) /\ (InTxn(a) => Pins(Tid(a)))
  BY Own DEF Locks, Connections
<1>2. /\ InTxn(a) => Tid(a) \in Txns
      /\ pc[a] \in Writing => at[a] \in Hives
      /\ pc[a] \in Holding /\ InTxn(a) => opHolder[Tid(a)] = a
      /\ \A t \in Txns : opHolder[t] = a => Tid(a) = t /\ InTxn(a) /\ pc[a] \in Holding
  BY Own
<1>3. Spares(a)
  BY <1>1, <1>2, ActorFacts DEF Statement, WritesOf, TypeOK, Spares, Reaches, Writing,
     Owner, Fits, UsesConn, Holding, Places, InHive, In, Discarded, InClientTxn, InTxn,
     Tid
<1>4. UsesConn(a)'
  BY <1>1, <1>2, ActorFacts DEF Statement, WritesOf, TypeOK, UsesConn, Works, Writing,
     Owner, InClientTxn, InTxn, Tid, IsControl, IsRead, Gated, Holding, Places, Fits,
     HoldsLocks
<1>5. Alone(a)'
  BY <1>1, <1>2, ActorFacts DEF Statement, WritesOf, TypeOK, Alone, Writing, Owner,
     InClientTxn, InTxn, Tid, Fits
<1>6. \A t \in Txns : opHolder[t] = a => Pins(t)'
  BY <1>1, <1>2, ActorFacts DEF Statement, WritesOf, TypeOK, Pins, Poisoned, Fits,
     UsesConn, Holding, Places, InTxn, Tid, Owner, Writing, InClientTxn
<1> QED BY <1>3, <1>4, <1>5, <1>6

LEMMA StatementFailsConn ==
  ASSUME TypeOK, TypeOK', Locks, Connections, NEW a \in Actors, StatementFails(a), Acts(a)
  PROVE  Spares(a) /\ UsesConn(a)' /\ Alone(a)' /\ \A t \in Txns : opHolder[t] = a => Pins(t)'
<1>1. Fits(a) /\ HoldsLocks(a) /\ UsesConn(a) /\ Alone(a) /\ (InTxn(a) => Pins(Tid(a)))
  BY Own DEF Locks, Connections
<1>2. /\ InTxn(a) => Tid(a) \in Txns
      /\ pc[a] \in Writing => at[a] \in Hives
      /\ pc[a] \in Holding /\ InTxn(a) => opHolder[Tid(a)] = a
      /\ \A t \in Txns : opHolder[t] = a => Tid(a) = t /\ InTxn(a) /\ pc[a] \in Holding
  BY Own
<1>3. Spares(a)
  BY <1>1, <1>2, ActorFacts DEF StatementFails, WritesOf, Discarded, RanUntilFailure,
     StoresOf, Errors, MayEndTransaction, TypeOK, Spares, Reaches, Writing, Owner, Fits,
     UsesConn, Holding, Places, InHive, In, InClientTxn, InTxn, Tid
<1>4. UsesConn(a)'
  BY <1>1, <1>2, ActorFacts DEF StatementFails, WritesOf, Discarded, RanUntilFailure,
     StoresOf, Errors, MayEndTransaction, TypeOK, UsesConn, Works, Writing, Owner,
     InClientTxn, InTxn, Tid, IsControl, IsRead, Gated, Holding, Places, Fits, HoldsLocks
<1>5. Alone(a)'
  BY <1>1, <1>2, ActorFacts DEF StatementFails, WritesOf, Discarded, RanUntilFailure,
     StoresOf, Errors, MayEndTransaction, TypeOK, Alone, Writing, Owner, InClientTxn,
     InTxn, Tid, Fits
<1>6. \A t \in Txns : opHolder[t] = a => Pins(t)'
  BY <1>1, <1>2, ActorFacts DEF StatementFails, WritesOf, Discarded, RanUntilFailure,
     StoresOf, Errors, MayEndTransaction, TypeOK, Pins, Poisoned, Fits, UsesConn, Holding,
     Places, InTxn, Tid, Owner, Writing, InClientTxn
<1> QED BY <1>3, <1>4, <1>5, <1>6

LEMMA DecideCommitConn ==
  ASSUME TypeOK, TypeOK', Locks, Connections, NEW a \in Actors, DecideCommit(a), Acts(a)
  PROVE  Spares(a) /\ UsesConn(a)' /\ Alone(a)' /\ \A t \in Txns : opHolder[t] = a => Pins(t)'
<1>1. Fits(a) /\ HoldsLocks(a) /\ UsesConn(a) /\ Alone(a) /\ (InTxn(a) => Pins(Tid(a)))
  BY Own DEF Locks, Connections
<1>2. /\ InTxn(a) => Tid(a) \in Txns
      /\ pc[a] \in Writing => at[a] \in Hives
      /\ pc[a] \in Holding /\ InTxn(a) => opHolder[Tid(a)] = a
      /\ \A t \in Txns : opHolder[t] = a => Tid(a) = t /\ InTxn(a) /\ pc[a] \in Holding
  BY Own
<1>3. Spares(a)
  BY <1>1, <1>2, ActorFacts DEF DecideCommit, TypeOK, Spares, Reaches, Writing, Owner,
     Fits, UsesConn, Holding, Places, WritesOf, InHive, In, Discarded, InClientTxn, InTxn,
     Tid
<1>4. UsesConn(a)'
  BY <1>1, <1>2, ActorFacts DEF DecideCommit, TypeOK, Pins, Poisoned, UsesConn, Works,
     Writing, Owner, InClientTxn, InTxn, Tid, IsControl, IsRead, Gated, Holding, Places,
     Fits, HoldsLocks
<1>5. Alone(a)'
  <2>1. CASE pc'[a] \notin Writing BY <2>1 DEF Alone
  <2>2. CASE pc'[a] \in Writing
    <3>1. /\ pc'[a] = "commit" /\ pc[a] = "routing" /\ call[a].op = "commit"
          /\ conn[Tid(a)] = "write" /\ UNCHANGED <<conn, bound, at, call>>
      BY <2>2 DEF DecideCommit, TypeOK, Writing
    <3>2. InTxn(a) BY <1>1, <3>1 DEF Fits, IsControl
    <3>3. bound[Tid(a)] \in Hives BY <1>1, <3>1, <3>2 DEF Pins
    <3>4. bound[Tid(a)] = at[a]
      BY <1>1, <3>1, <3>2, <3>3, ActorFacts DEF HoldsLocks, IsControl, Gated
    <3>5. Owner(a)' = Tid(a) BY <3>1 DEF Owner, Tid
    <3> QED BY <1>2, <3>1, <3>2, <3>4, <3>5 DEF Connections, OnePerHive, Alone
  <2> QED BY <2>1, <2>2
<1>6. \A t \in Txns : opHolder[t] = a => Pins(t)'
  BY <1>1, <1>2, ActorFacts DEF DecideCommit, TypeOK, Pins, Poisoned, Fits, UsesConn,
     Holding, Places, InTxn, Tid, Owner, Writing, InClientTxn
<1> QED BY <1>3, <1>4, <1>5, <1>6

LEMMA CommitFailsConn ==
  ASSUME TypeOK, TypeOK', Locks, Connections, NEW a \in Actors, CommitFails(a), Acts(a)
  PROVE  Spares(a) /\ UsesConn(a)' /\ Alone(a)' /\ \A t \in Txns : opHolder[t] = a => Pins(t)'
<1>1. Fits(a) /\ HoldsLocks(a) /\ UsesConn(a) /\ Alone(a) /\ (InTxn(a) => Pins(Tid(a)))
  BY Own DEF Locks, Connections
<1>2. /\ InTxn(a) => Tid(a) \in Txns
      /\ pc[a] \in Writing => at[a] \in Hives
      /\ pc[a] \in Holding /\ InTxn(a) => opHolder[Tid(a)] = a
      /\ \A t \in Txns : opHolder[t] = a => Tid(a) = t /\ InTxn(a) /\ pc[a] \in Holding
  BY Own
<1>3. Spares(a)
  BY <1>1, <1>2, ActorFacts DEF CommitFails, CommitMayFail, Discarded, Errors, TypeOK,
     Spares, Reaches, Writing, Owner, Fits, UsesConn, Holding, Places, WritesOf, InHive,
     In, InClientTxn, InTxn, Tid
<1>4. UsesConn(a)'
  BY <1>1, <1>2, ActorFacts DEF CommitFails, CommitMayFail, Discarded, Errors, TypeOK,
     UsesConn, Works, Writing, Owner, InClientTxn, InTxn, Tid, IsControl, IsRead, Gated,
     Holding, Places, Fits, HoldsLocks
<1>5. Alone(a)'
  BY <1>1, <1>2, ActorFacts DEF CommitFails, CommitMayFail, Discarded, Errors, TypeOK,
     Alone, Writing, Owner, InClientTxn, InTxn, Tid, Fits
<1>6. \A t \in Txns : opHolder[t] = a => Pins(t)'
  BY <1>1, <1>2, ActorFacts DEF CommitFails, CommitMayFail, Discarded, Errors, TypeOK,
     Pins, Poisoned, Fits, UsesConn, Holding, Places, InTxn, Tid, Owner, Writing,
     InClientTxn
<1> QED BY <1>3, <1>4, <1>5, <1>6

LEMMA PublishMainConn ==
  ASSUME TypeOK, TypeOK', Locks, Connections, NEW a \in Actors, PublishMain(a), Acts(a)
  PROVE  Spares(a) /\ UsesConn(a)' /\ Alone(a)' /\ \A t \in Txns : opHolder[t] = a => Pins(t)'
<1>1. Fits(a) /\ HoldsLocks(a) /\ UsesConn(a) /\ Alone(a) /\ (InTxn(a) => Pins(Tid(a)))
  BY Own DEF Locks, Connections
<1>2. /\ InTxn(a) => Tid(a) \in Txns
      /\ pc[a] \in Writing => at[a] \in Hives
      /\ pc[a] \in Holding /\ InTxn(a) => opHolder[Tid(a)] = a
      /\ \A t \in Txns : opHolder[t] = a => Tid(a) = t /\ InTxn(a) /\ pc[a] \in Holding
  BY Own
<1>3. Spares(a)
  BY <1>1, <1>2, ActorFacts DEF PublishMain, TypeOK, Spares, Reaches, Writing, Owner,
     Fits, UsesConn, Holding, Places, WritesOf, InHive, In, Discarded, InClientTxn, InTxn,
     Tid
<1>4. UsesConn(a)'
  BY <1>1, <1>2, ActorFacts DEF PublishMain, TypeOK, UsesConn, Works, Writing, Owner,
     InClientTxn, InTxn, Tid, IsControl, IsRead, Gated, Holding, Places, Fits, HoldsLocks
<1>5. Alone(a)'
  BY <1>1, <1>2, ActorFacts DEF PublishMain, TypeOK, Alone, Writing, Owner, InClientTxn,
     InTxn, Tid, Fits
<1>6. \A t \in Txns : opHolder[t] = a => Pins(t)'
  BY <1>1, <1>2, ActorFacts DEF PublishMain, TypeOK, Pins, Poisoned, Fits, UsesConn,
     Holding, Places, InTxn, Tid, Owner, Writing, InClientTxn
<1> QED BY <1>3, <1>4, <1>5, <1>6

LEMMA CommitDoneConn ==
  ASSUME TypeOK, TypeOK', Locks, Connections, NEW a \in Actors, CommitDone(a), Acts(a)
  PROVE  Spares(a) /\ UsesConn(a)' /\ Alone(a)' /\ \A t \in Txns : opHolder[t] = a => Pins(t)'
<1>1. Fits(a) /\ HoldsLocks(a) /\ UsesConn(a) /\ Alone(a) /\ (InTxn(a) => Pins(Tid(a)))
  BY Own DEF Locks, Connections
<1>2. /\ InTxn(a) => Tid(a) \in Txns
      /\ pc[a] \in Writing => at[a] \in Hives
      /\ pc[a] \in Holding /\ InTxn(a) => opHolder[Tid(a)] = a
      /\ \A t \in Txns : opHolder[t] = a => Tid(a) = t /\ InTxn(a) /\ pc[a] \in Holding
  BY Own
<1>3. Spares(a)
  <2>1. pc[a] \in Writing /\ pc[a] = "publishing" BY DEF CommitDone, PublishVolatile, Writing
  <2>2. \A w \in In(at[a], "volatile") : w[2] = at[a] BY DEF In
  <2>3. /\ sqlTxn' = [sqlTxn EXCEPT ![at[a]] = FALSE]
        /\ writeConn' = [writeConn EXCEPT ![at[a]] = Nobody]
        /\ published' = published \cup (pending \cap In(at[a], "volatile"))
        /\ pending' = pending \ (pending \cap In(at[a], "volatile"))
        /\ bound' = bound
    BY DEF CommitDone, PublishVolatile
  <2>4. \A h \in Hives : ~Reaches(a, h) => h # at[a] BY <2>1 DEF Reaches
  <2>5. \A t \in Txns : conn'[t] = "write" => conn[t] = "write"
    BY DEF CommitDone, TypeOK
  <2>6. \A h \in Hives : h # at[a] => writeConn'[h] = writeConn[h] /\ sqlTxn'[h] = sqlTxn[h]
    BY <2>3 DEF TypeOK
  <2>7. \A h \in Hives : writeConn'[h] \in {writeConn[h], Nobody} BY <2>3 DEF TypeOK
  <2> QED BY <2>2, <2>3, <2>4, <2>5, <2>6, <2>7 DEF Spares
<1>4. UsesConn(a)'
  BY <1>1, <1>2, ActorFacts DEF CommitDone, PublishVolatile, TypeOK, UsesConn, Works,
     Writing, Owner, InClientTxn, InTxn, Tid, IsControl, IsRead, Gated, Holding, Places,
     Fits, HoldsLocks
<1>5. Alone(a)'
  BY <1>1, <1>2, ActorFacts DEF CommitDone, PublishVolatile, TypeOK, Alone, Writing,
     Owner, InClientTxn, InTxn, Tid, Fits
<1>6. \A t \in Txns : opHolder[t] = a => Pins(t)'
  BY <1>1, <1>2, ActorFacts DEF CommitDone, PublishVolatile, TypeOK, Pins, Poisoned, Fits,
     UsesConn, Holding, Places, InTxn, Tid, Owner, Writing, InClientTxn
<1> QED BY <1>3, <1>4, <1>5, <1>6

LEMMA LocalCommitDoneConn ==
  ASSUME TypeOK, TypeOK', Locks, Connections, NEW a \in Actors, LocalCommitDone(a), Acts(a)
  PROVE  Spares(a) /\ UsesConn(a)' /\ Alone(a)' /\ \A t \in Txns : opHolder[t] = a => Pins(t)'
<1>1. Fits(a) /\ HoldsLocks(a) /\ UsesConn(a) /\ Alone(a) /\ (InTxn(a) => Pins(Tid(a)))
  BY Own DEF Locks, Connections
<1>2. /\ InTxn(a) => Tid(a) \in Txns
      /\ pc[a] \in Writing => at[a] \in Hives
      /\ pc[a] \in Holding /\ InTxn(a) => opHolder[Tid(a)] = a
      /\ \A t \in Txns : opHolder[t] = a => Tid(a) = t /\ InTxn(a) /\ pc[a] \in Holding
  BY Own
<1>3. Spares(a)
  <2>1. pc[a] \in Writing /\ pc[a] = "publishing" BY DEF LocalCommitDone, PublishVolatile, Writing
  <2>2. \A w \in In(at[a], "volatile") : w[2] = at[a] BY DEF In
  <2>3. /\ sqlTxn' = [sqlTxn EXCEPT ![at[a]] = FALSE]
        /\ writeConn' = [writeConn EXCEPT ![at[a]] = Nobody]
        /\ published' = published \cup (pending \cap In(at[a], "volatile"))
        /\ pending' = pending \ (pending \cap In(at[a], "volatile"))
        /\ bound' = bound
    BY DEF LocalCommitDone, PublishVolatile
  <2>4. \A h \in Hives : ~Reaches(a, h) => h # at[a] BY <2>1 DEF Reaches
  <2>5. \A t \in Txns : conn'[t] = "write" => conn[t] = "write"
    BY DEF LocalCommitDone, TypeOK
  <2>6. \A h \in Hives : h # at[a] => writeConn'[h] = writeConn[h] /\ sqlTxn'[h] = sqlTxn[h]
    BY <2>3 DEF TypeOK
  <2>7. \A h \in Hives : writeConn'[h] \in {writeConn[h], Nobody} BY <2>3 DEF TypeOK
  <2> QED BY <2>2, <2>3, <2>4, <2>5, <2>6, <2>7 DEF Spares
<1>4. UsesConn(a)'
  BY <1>1, <1>2, ActorFacts DEF LocalCommitDone, PublishVolatile, TypeOK, UsesConn, Works,
     Writing, Owner, InClientTxn, InTxn, Tid, IsControl, IsRead, Gated, Holding, Places,
     Fits, HoldsLocks
<1>5. Alone(a)'
  BY <1>1, <1>2, ActorFacts DEF LocalCommitDone, PublishVolatile, TypeOK, Alone, Writing,
     Owner, InClientTxn, InTxn, Tid, Fits
<1>6. \A t \in Txns : opHolder[t] = a => Pins(t)'
  BY <1>1, <1>2, ActorFacts DEF LocalCommitDone, PublishVolatile, TypeOK, Pins, Poisoned,
     Fits, UsesConn, Holding, Places, InTxn, Tid, Owner, Writing, InClientTxn
<1> QED BY <1>3, <1>4, <1>5, <1>6

LEMMA NextHiveConn ==
  ASSUME TypeOK, TypeOK', Locks, Connections, NEW a \in Actors, NextHive(a), Acts(a)
  PROVE  Spares(a) /\ UsesConn(a)' /\ Alone(a)' /\ \A t \in Txns : opHolder[t] = a => Pins(t)'
<1>1. Fits(a) /\ HoldsLocks(a) /\ UsesConn(a) /\ Alone(a) /\ (InTxn(a) => Pins(Tid(a)))
  BY Own DEF Locks, Connections
<1>2. /\ InTxn(a) => Tid(a) \in Txns
      /\ pc[a] \in Writing => at[a] \in Hives
      /\ pc[a] \in Holding /\ InTxn(a) => opHolder[Tid(a)] = a
      /\ \A t \in Txns : opHolder[t] = a => Tid(a) = t /\ InTxn(a) /\ pc[a] \in Holding
  BY Own
<1>3. Spares(a)
  <2>1. pc[a] \in Writing /\ pc[a] = "publishing" BY DEF NextHive, PublishVolatile, Writing
  <2>2. \A w \in In(at[a], "volatile") : w[2] = at[a] BY DEF In
  <2>3. /\ sqlTxn' = [sqlTxn EXCEPT ![at[a]] = FALSE]
        /\ writeConn' = [writeConn EXCEPT ![at[a]] = Nobody]
        /\ published' = published \cup (pending \cap In(at[a], "volatile"))
        /\ pending' = pending \ (pending \cap In(at[a], "volatile"))
        /\ bound' = bound
    BY DEF NextHive, PublishVolatile
  <2>4. \A h \in Hives : ~Reaches(a, h) => h # at[a] BY <2>1 DEF Reaches
  <2>5. \A t \in Txns : conn'[t] = "write" => conn[t] = "write"
    BY DEF NextHive, TypeOK
  <2>6. \A h \in Hives : h # at[a] => writeConn'[h] = writeConn[h] /\ sqlTxn'[h] = sqlTxn[h]
    BY <2>3 DEF TypeOK
  <2>7. \A h \in Hives : writeConn'[h] \in {writeConn[h], Nobody} BY <2>3 DEF TypeOK
  <2> QED BY <2>2, <2>3, <2>4, <2>5, <2>6, <2>7 DEF Spares
<1>4. UsesConn(a)'
  BY <1>1, <1>2, ActorFacts DEF NextHive, PublishVolatile, TypeOK, UsesConn, Works,
     Writing, Owner, InClientTxn, InTxn, Tid, IsControl, IsRead, Gated, Holding, Places,
     Fits, HoldsLocks
<1>5. Alone(a)'
  BY <1>1, <1>2, ActorFacts DEF NextHive, PublishVolatile, TypeOK, Alone, Writing, Owner,
     InClientTxn, InTxn, Tid, Fits
<1>6. \A t \in Txns : opHolder[t] = a => Pins(t)'
  BY <1>1, <1>2, ActorFacts DEF NextHive, PublishVolatile, TypeOK, Pins, Poisoned, Fits,
     UsesConn, Holding, Places, InTxn, Tid, Owner, Writing, InClientTxn
<1> QED BY <1>3, <1>4, <1>5, <1>6

LEMMA RouteReadConn ==
  ASSUME TypeOK, TypeOK', Locks, Connections, NEW a \in Actors, RouteRead(a), Acts(a)
  PROVE  Spares(a) /\ UsesConn(a)' /\ Alone(a)' /\ \A t \in Txns : opHolder[t] = a => Pins(t)'
<1>1. Fits(a) /\ HoldsLocks(a) /\ UsesConn(a) /\ Alone(a) /\ (InTxn(a) => Pins(Tid(a)))
  BY Own DEF Locks, Connections
<1>2. /\ InTxn(a) => Tid(a) \in Txns
      /\ pc[a] \in Writing => at[a] \in Hives
      /\ pc[a] \in Holding /\ InTxn(a) => opHolder[Tid(a)] = a
      /\ \A t \in Txns : opHolder[t] = a => Tid(a) = t /\ InTxn(a) /\ pc[a] \in Holding
  BY Own
<1>3. Spares(a)
  BY <1>1, <1>2, ActorFacts DEF RouteRead, TypeOK, Spares, Reaches, Writing, Owner, Fits,
     UsesConn, Holding, Places, WritesOf, InHive, In, Discarded, InClientTxn, InTxn, Tid
<1>4. UsesConn(a)'
  BY <1>1, <1>2, ActorFacts DEF RouteRead, TypeOK, UsesConn, Works, Writing, Owner,
     InClientTxn, InTxn, Tid, IsControl, IsRead, Gated, Holding, Places, Fits, HoldsLocks
<1>5. Alone(a)'
  BY <1>1, <1>2, ActorFacts DEF RouteRead, TypeOK, Alone, Writing, Owner, InClientTxn,
     InTxn, Tid, Fits
<1>6. \A t \in Txns : opHolder[t] = a => Pins(t)'
  BY <1>1, <1>2, ActorFacts DEF RouteRead, TypeOK, Pins, Poisoned, Fits, UsesConn,
     Holding, Places, InTxn, Tid, Owner, Writing, InClientTxn
<1> QED BY <1>3, <1>4, <1>5, <1>6

LEMMA PinMainConn ==
  ASSUME TypeOK, TypeOK', Locks, Connections, NEW a \in Actors, PinMain(a), Acts(a)
  PROVE  Spares(a) /\ UsesConn(a)' /\ Alone(a)' /\ \A t \in Txns : opHolder[t] = a => Pins(t)'
<1>1. Fits(a) /\ HoldsLocks(a) /\ UsesConn(a) /\ Alone(a) /\ (InTxn(a) => Pins(Tid(a)))
  BY Own DEF Locks, Connections
<1>2. /\ InTxn(a) => Tid(a) \in Txns
      /\ pc[a] \in Writing => at[a] \in Hives
      /\ pc[a] \in Holding /\ InTxn(a) => opHolder[Tid(a)] = a
      /\ \A t \in Txns : opHolder[t] = a => Tid(a) = t /\ InTxn(a) /\ pc[a] \in Holding
  BY Own
<1>3. Spares(a)
  BY <1>1, <1>2, ActorFacts DEF PinMain, TypeOK, Spares, Reaches, Writing, Owner, Fits,
     UsesConn, Holding, Places, WritesOf, InHive, In, Discarded, InClientTxn, InTxn, Tid
<1>4. UsesConn(a)'
  BY <1>1, <1>2, ActorFacts DEF PinMain, TypeOK, UsesConn, Works, Writing, Owner,
     InClientTxn, InTxn, Tid, IsControl, IsRead, Gated, Holding, Places, Fits, HoldsLocks
<1>5. Alone(a)'
  BY <1>1, <1>2, ActorFacts DEF PinMain, TypeOK, Alone, Writing, Owner, InClientTxn,
     InTxn, Tid, Fits
<1>6. \A t \in Txns : opHolder[t] = a => Pins(t)'
  BY <1>1, <1>2, ActorFacts DEF PinMain, TypeOK, Pins, Poisoned, Fits, UsesConn, Holding,
     Places, InTxn, Tid, Owner, Writing, InClientTxn
<1> QED BY <1>3, <1>4, <1>5, <1>6

LEMMA PinVolatileConn ==
  ASSUME TypeOK, TypeOK', Locks, Connections, NEW a \in Actors, PinVolatile(a), Acts(a)
  PROVE  Spares(a) /\ UsesConn(a)' /\ Alone(a)' /\ \A t \in Txns : opHolder[t] = a => Pins(t)'
<1>1. Fits(a) /\ HoldsLocks(a) /\ UsesConn(a) /\ Alone(a) /\ (InTxn(a) => Pins(Tid(a)))
  BY Own DEF Locks, Connections
<1>2. /\ InTxn(a) => Tid(a) \in Txns
      /\ pc[a] \in Writing => at[a] \in Hives
      /\ pc[a] \in Holding /\ InTxn(a) => opHolder[Tid(a)] = a
      /\ \A t \in Txns : opHolder[t] = a => Tid(a) = t /\ InTxn(a) /\ pc[a] \in Holding
  BY Own
<1>3. Spares(a)
  BY <1>1, <1>2, ActorFacts DEF PinVolatile, TypeOK, Spares, Reaches, Writing, Owner,
     Fits, UsesConn, Holding, Places, WritesOf, InHive, In, Discarded, InClientTxn, InTxn,
     Tid
<1>4. UsesConn(a)'
  BY <1>1, <1>2, ActorFacts DEF PinVolatile, TypeOK, UsesConn, Works, Writing, Owner,
     InClientTxn, InTxn, Tid, IsControl, IsRead, Gated, Holding, Places, Fits, HoldsLocks
<1>5. Alone(a)'
  BY <1>1, <1>2, ActorFacts DEF PinVolatile, TypeOK, Alone, Writing, Owner, InClientTxn,
     InTxn, Tid, Fits
<1>6. \A t \in Txns : opHolder[t] = a => Pins(t)'
  BY <1>1, <1>2, <1>3, ActorFacts DEF PinVolatile, TypeOK, Pins, Poisoned, UsesConn,
     Works, HoldsLocks, Gated, Fits, IsRead, IsControl, Holding, Places, InTxn, Tid
<1> QED BY <1>3, <1>4, <1>5, <1>6

LEMMA PinFailsConn ==
  ASSUME TypeOK, TypeOK', Locks, Connections, NEW a \in Actors, PinFails(a), Acts(a)
  PROVE  Spares(a) /\ UsesConn(a)' /\ Alone(a)' /\ \A t \in Txns : opHolder[t] = a => Pins(t)'
<1>1. Fits(a) /\ HoldsLocks(a) /\ UsesConn(a) /\ Alone(a) /\ (InTxn(a) => Pins(Tid(a)))
  BY Own DEF Locks, Connections
<1>2. /\ InTxn(a) => Tid(a) \in Txns
      /\ pc[a] \in Writing => at[a] \in Hives
      /\ pc[a] \in Holding /\ InTxn(a) => opHolder[Tid(a)] = a
      /\ \A t \in Txns : opHolder[t] = a => Tid(a) = t /\ InTxn(a) /\ pc[a] \in Holding
  BY Own
<1>3. Spares(a)
  BY <1>1, <1>2, ActorFacts DEF PinFails, Errors, TypeOK, Spares, Reaches, Writing, Owner,
     Fits, UsesConn, Holding, Places, WritesOf, InHive, In, Discarded, InClientTxn, InTxn,
     Tid
<1>4. UsesConn(a)'
  BY <1>1, <1>2, ActorFacts DEF PinFails, Errors, TypeOK, UsesConn, Works, Writing, Owner,
     InClientTxn, InTxn, Tid, IsControl, IsRead, Gated, Holding, Places, Fits, HoldsLocks
<1>5. Alone(a)'
  BY <1>1, <1>2, ActorFacts DEF PinFails, Errors, TypeOK, Alone, Writing, Owner,
     InClientTxn, InTxn, Tid, Fits
<1>6. \A t \in Txns : opHolder[t] = a => Pins(t)'
  BY <1>1, <1>2, ActorFacts DEF PinFails, Errors, TypeOK, Pins, Poisoned, Fits, UsesConn,
     Holding, Places, InTxn, Tid, Owner, Writing, InClientTxn
<1> QED BY <1>3, <1>4, <1>5, <1>6

LEMMA ReadMainConn ==
  ASSUME TypeOK, TypeOK', Locks, Connections, NEW a \in Actors, ReadMain(a), Acts(a)
  PROVE  Spares(a) /\ UsesConn(a)' /\ Alone(a)' /\ \A t \in Txns : opHolder[t] = a => Pins(t)'
<1>1. Fits(a) /\ HoldsLocks(a) /\ UsesConn(a) /\ Alone(a) /\ (InTxn(a) => Pins(Tid(a)))
  BY Own DEF Locks, Connections
<1>2. /\ InTxn(a) => Tid(a) \in Txns
      /\ pc[a] \in Writing => at[a] \in Hives
      /\ pc[a] \in Holding /\ InTxn(a) => opHolder[Tid(a)] = a
      /\ \A t \in Txns : opHolder[t] = a => Tid(a) = t /\ InTxn(a) /\ pc[a] \in Holding
  BY Own
<1>3. Spares(a)
  BY <1>1, <1>2, ActorFacts DEF ReadMain, TypeOK, Spares, Reaches, Writing, Owner, Fits,
     UsesConn, Holding, Places, WritesOf, InHive, In, Discarded, InClientTxn, InTxn, Tid
<1>4. UsesConn(a)'
  BY <1>1, <1>2, ActorFacts DEF ReadMain, TypeOK, UsesConn, Works, Writing, Owner,
     InClientTxn, InTxn, Tid, IsControl, IsRead, Gated, Holding, Places, Fits, HoldsLocks
<1>5. Alone(a)'
  BY <1>1, <1>2, ActorFacts DEF ReadMain, TypeOK, Alone, Writing, Owner, InClientTxn,
     InTxn, Tid, Fits
<1>6. \A t \in Txns : opHolder[t] = a => Pins(t)'
  BY <1>1, <1>2, ActorFacts DEF ReadMain, TypeOK, Pins, Poisoned, Fits, UsesConn, Holding,
     Places, InTxn, Tid, Owner, Writing, InClientTxn
<1> QED BY <1>3, <1>4, <1>5, <1>6

LEMMA ReadVolatileConn ==
  ASSUME TypeOK, TypeOK', Locks, Connections, NEW a \in Actors, ReadVolatile(a), Acts(a)
  PROVE  Spares(a) /\ UsesConn(a)' /\ Alone(a)' /\ \A t \in Txns : opHolder[t] = a => Pins(t)'
<1>1. Fits(a) /\ HoldsLocks(a) /\ UsesConn(a) /\ Alone(a) /\ (InTxn(a) => Pins(Tid(a)))
  BY Own DEF Locks, Connections
<1>2. /\ InTxn(a) => Tid(a) \in Txns
      /\ pc[a] \in Writing => at[a] \in Hives
      /\ pc[a] \in Holding /\ InTxn(a) => opHolder[Tid(a)] = a
      /\ \A t \in Txns : opHolder[t] = a => Tid(a) = t /\ InTxn(a) /\ pc[a] \in Holding
  BY Own
<1>3. Spares(a)
  BY <1>1, <1>2, ActorFacts DEF ReadVolatile, TypeOK, Spares, Reaches, Writing, Owner,
     Fits, UsesConn, Holding, Places, WritesOf, InHive, In, Discarded, InClientTxn, InTxn,
     Tid
<1>4. UsesConn(a)'
  BY <1>1, <1>2, ActorFacts DEF ReadVolatile, TypeOK, UsesConn, Works, Writing, Owner,
     InClientTxn, InTxn, Tid, IsControl, IsRead, Gated, Holding, Places, Fits, HoldsLocks
<1>5. Alone(a)'
  BY <1>1, <1>2, ActorFacts DEF ReadVolatile, TypeOK, Alone, Writing, Owner, InClientTxn,
     InTxn, Tid, Fits
<1>6. \A t \in Txns : opHolder[t] = a => Pins(t)'
  BY <1>1, <1>2, ActorFacts DEF ReadVolatile, TypeOK, Pins, Poisoned, Fits, UsesConn,
     Holding, Places, InTxn, Tid, Owner, Writing, InClientTxn
<1> QED BY <1>3, <1>4, <1>5, <1>6

LEMMA ReadFailsConn ==
  ASSUME TypeOK, TypeOK', Locks, Connections, NEW a \in Actors, ReadFails(a), Acts(a)
  PROVE  Spares(a) /\ UsesConn(a)' /\ Alone(a)' /\ \A t \in Txns : opHolder[t] = a => Pins(t)'
<1>1. Fits(a) /\ HoldsLocks(a) /\ UsesConn(a) /\ Alone(a) /\ (InTxn(a) => Pins(Tid(a)))
  BY Own DEF Locks, Connections
<1>2. /\ InTxn(a) => Tid(a) \in Txns
      /\ pc[a] \in Writing => at[a] \in Hives
      /\ pc[a] \in Holding /\ InTxn(a) => opHolder[Tid(a)] = a
      /\ \A t \in Txns : opHolder[t] = a => Tid(a) = t /\ InTxn(a) /\ pc[a] \in Holding
  BY Own
<1>3. Spares(a)
  BY <1>1, <1>2, ActorFacts DEF ReadFails, Errors, TypeOK, Spares, Reaches, Writing,
     Owner, Fits, UsesConn, Holding, Places, WritesOf, InHive, In, Discarded, InClientTxn,
     InTxn, Tid
<1>4. UsesConn(a)'
  BY <1>1, <1>2, ActorFacts DEF ReadFails, Errors, TypeOK, UsesConn, Works, Writing,
     Owner, InClientTxn, InTxn, Tid, IsControl, IsRead, Gated, Holding, Places, Fits,
     HoldsLocks
<1>5. Alone(a)'
  BY <1>1, <1>2, ActorFacts DEF ReadFails, Errors, TypeOK, Alone, Writing, Owner,
     InClientTxn, InTxn, Tid, Fits
<1>6. \A t \in Txns : opHolder[t] = a => Pins(t)'
  BY <1>1, <1>2, ActorFacts DEF ReadFails, Errors, TypeOK, Pins, Poisoned, Fits, UsesConn,
     Holding, Places, InTxn, Tid, Owner, Writing, InClientTxn
<1> QED BY <1>3, <1>4, <1>5, <1>6

LEMMA UnregisterConn ==
  ASSUME TypeOK, TypeOK', Locks, Connections, NEW a \in Actors, Unregister(a), Acts(a)
  PROVE  Spares(a) /\ UsesConn(a)' /\ Alone(a)' /\ \A t \in Txns : opHolder[t] = a => Pins(t)'
<1>1. Fits(a) /\ HoldsLocks(a) /\ UsesConn(a) /\ Alone(a) /\ (InTxn(a) => Pins(Tid(a)))
  BY Own DEF Locks, Connections
<1>2. /\ InTxn(a) => Tid(a) \in Txns
      /\ pc[a] \in Writing => at[a] \in Hives
      /\ pc[a] \in Holding /\ InTxn(a) => opHolder[Tid(a)] = a
      /\ \A t \in Txns : opHolder[t] = a => Tid(a) = t /\ InTxn(a) /\ pc[a] \in Holding
  BY Own
<1>3. Spares(a)
  BY <1>1, <1>2, ActorFacts DEF Unregister, TypeOK, Spares, Reaches, Writing, Owner, Fits,
     UsesConn, Holding, Places, WritesOf, InHive, In, Discarded, InClientTxn, InTxn, Tid
<1>4. UsesConn(a)'
  BY <1>1, <1>2, ActorFacts DEF Unregister, TypeOK, UsesConn, Works, Writing, Owner,
     InClientTxn, InTxn, Tid, IsControl, IsRead, Gated, Holding, Places, Fits, HoldsLocks
<1>5. Alone(a)'
  BY <1>1, <1>2, ActorFacts DEF Unregister, TypeOK, Alone, Writing, Owner, InClientTxn,
     InTxn, Tid, Fits
<1>6. \A t \in Txns : opHolder[t] = a => Pins(t)'
  BY <1>1, <1>2, ActorFacts DEF Unregister, TypeOK, Pins, Poisoned, Fits, UsesConn,
     Holding, Places, InTxn, Tid, Owner, Writing, InClientTxn
<1> QED BY <1>3, <1>4, <1>5, <1>6

LEMMA RollBackConn ==
  ASSUME TypeOK, TypeOK', Locks, Connections, NEW a \in Actors, RollBack(a), Acts(a)
  PROVE  Spares(a) /\ UsesConn(a)' /\ Alone(a)' /\ \A t \in Txns : opHolder[t] = a => Pins(t)'
<1>1. Fits(a) /\ HoldsLocks(a) /\ UsesConn(a) /\ Alone(a) /\ (InTxn(a) => Pins(Tid(a)))
  BY Own DEF Locks, Connections
<1>2. /\ InTxn(a) => Tid(a) \in Txns
      /\ pc[a] \in Writing => at[a] \in Hives
      /\ pc[a] \in Holding /\ InTxn(a) => opHolder[Tid(a)] = a
      /\ \A t \in Txns : opHolder[t] = a => Tid(a) = t /\ InTxn(a) /\ pc[a] \in Holding
  BY Own
<1>3. Spares(a)
  BY <1>1, <1>2, ActorFacts DEF RollBack, GiveBack, TypeOK, Spares, Reaches, Writing,
     Owner, Fits, UsesConn, Holding, Places, WritesOf, InHive, In, Discarded, InClientTxn,
     InTxn, Tid
<1>4. UsesConn(a)'
  BY <1>1, <1>2, ActorFacts DEF RollBack, GiveBack, TypeOK, UsesConn, Works, Writing,
     Owner, InClientTxn, InTxn, Tid, IsControl, IsRead, Gated, Holding, Places, Fits,
     HoldsLocks
<1>5. Alone(a)'
  BY <1>1, <1>2, ActorFacts DEF RollBack, GiveBack, TypeOK, Alone, Writing, Owner,
     InClientTxn, InTxn, Tid, Fits
<1>6. \A t \in Txns : opHolder[t] = a => Pins(t)'
  BY <1>1, <1>2, ActorFacts DEF RollBack, GiveBack, TypeOK, Pins, Poisoned, Fits,
     UsesConn, Holding, Places, InTxn, Tid, Owner, Writing, InClientTxn
<1> QED BY <1>3, <1>4, <1>5, <1>6

LEMMA FinishConn ==
  ASSUME TypeOK, TypeOK', Locks, Connections, NEW a \in Actors, Finish(a), Acts(a)
  PROVE  Spares(a) /\ UsesConn(a)' /\ Alone(a)' /\ \A t \in Txns : opHolder[t] = a => Pins(t)'
<1>1. Fits(a) /\ HoldsLocks(a) /\ UsesConn(a) /\ Alone(a) /\ (InTxn(a) => Pins(Tid(a)))
  BY Own DEF Locks, Connections
<1>2. /\ InTxn(a) => Tid(a) \in Txns
      /\ pc[a] \in Writing => at[a] \in Hives
      /\ pc[a] \in Holding /\ InTxn(a) => opHolder[Tid(a)] = a
      /\ \A t \in Txns : opHolder[t] = a => Tid(a) = t /\ InTxn(a) /\ pc[a] \in Holding
  BY Own
<1>3. Spares(a)
  BY <1>1, <1>2, ActorFacts DEF Finish, Answer, TypeOK, Spares, Reaches, Writing, Owner,
     Fits, UsesConn, Holding, Places, WritesOf, InHive, In, Discarded, InClientTxn, InTxn,
     Tid
<1>4. UsesConn(a)'
  BY <1>1, <1>2, ActorFacts DEF Finish, Answer, TypeOK, UsesConn, Works, Writing, Owner,
     InClientTxn, InTxn, Tid, IsControl, IsRead, Gated, Holding, Places, Fits, HoldsLocks
<1>5. Alone(a)'
  BY <1>1, <1>2, ActorFacts DEF Finish, Answer, TypeOK, Alone, Writing, Owner,
     InClientTxn, InTxn, Tid, Fits
<1>6. \A t \in Txns : opHolder[t] = a => Pins(t)'
  BY <1>1, <1>2, ActorFacts DEF Finish, Answer, TypeOK, Pins, Poisoned, Fits, UsesConn,
     Holding, Places, InTxn, Tid, Owner, Writing, InClientTxn
<1> QED BY <1>3, <1>4, <1>5, <1>6

LEMMA InterruptConn ==
  ASSUME TypeOK, TypeOK', Locks, Connections, NEW a \in Actors, Interrupt(a), Acts(a)
  PROVE  Spares(a) /\ UsesConn(a)' /\ Alone(a)' /\ \A t \in Txns : opHolder[t] = a => Pins(t)'
<1>1. Fits(a) /\ HoldsLocks(a) /\ UsesConn(a) /\ Alone(a) /\ (InTxn(a) => Pins(Tid(a)))
  BY Own DEF Locks, Connections
<1>2. /\ InTxn(a) => Tid(a) \in Txns
      /\ pc[a] \in Writing => at[a] \in Hives
      /\ pc[a] \in Holding /\ InTxn(a) => opHolder[Tid(a)] = a
      /\ \A t \in Txns : opHolder[t] = a => Tid(a) = t /\ InTxn(a) /\ pc[a] \in Holding
  BY Own
<1>3. Spares(a)
  BY <1>1, <1>2, ActorFacts DEF Interrupt, MustPoison, GiveBack, TypeOK, Spares, Reaches,
     Writing, Owner, Fits, UsesConn, Holding, Places, WritesOf, InHive, In, Discarded,
     InClientTxn, InTxn, Tid
<1>4. UsesConn(a)'
  BY <1>1, <1>2, ActorFacts DEF Interrupt, MustPoison, GiveBack, TypeOK, UsesConn, Works,
     Writing, Owner, InClientTxn, InTxn, Tid, IsControl, IsRead, Gated, Holding, Places,
     Fits, HoldsLocks
<1>5. Alone(a)'
  BY <1>1, <1>2, ActorFacts DEF Interrupt, MustPoison, GiveBack, TypeOK, Alone, Writing,
     Owner, InClientTxn, InTxn, Tid, Fits
<1>6. \A t \in Txns : opHolder[t] = a => Pins(t)'
  BY <1>1, <1>2, ActorFacts DEF Interrupt, MustPoison, GiveBack, TypeOK, Pins, Poisoned,
     Fits, UsesConn, Holding, Places, InTxn, Tid, Owner, Writing, InClientTxn
<1> QED BY <1>3, <1>4, <1>5, <1>6

LEMMA PoisonConn ==
  ASSUME TypeOK, TypeOK', Locks, Connections, NEW a \in Actors, Poison(a), Acts(a)
  PROVE  Spares(a) /\ UsesConn(a)' /\ Alone(a)' /\ \A t \in Txns : opHolder[t] = a => Pins(t)'
<1>1. Fits(a) /\ HoldsLocks(a) /\ UsesConn(a) /\ Alone(a) /\ (InTxn(a) => Pins(Tid(a)))
  BY Own DEF Locks, Connections
<1>2. /\ InTxn(a) => Tid(a) \in Txns
      /\ pc[a] \in Writing => at[a] \in Hives
      /\ pc[a] \in Holding /\ InTxn(a) => opHolder[Tid(a)] = a
      /\ \A t \in Txns : opHolder[t] = a => Tid(a) = t /\ InTxn(a) /\ pc[a] \in Holding
  BY Own
<1>3. Spares(a)
  BY <1>1, <1>2, ActorFacts DEF Poison, Answer, TypeOK, Spares, Reaches, Writing, Owner,
     Fits, UsesConn, Holding, Places, WritesOf, InHive, In, Discarded, InClientTxn, InTxn,
     Tid
<1>4. UsesConn(a)'
  BY <1>1, <1>2, ActorFacts DEF Poison, Answer, TypeOK, UsesConn, Works, Writing, Owner,
     InClientTxn, InTxn, Tid, IsControl, IsRead, Gated, Holding, Places, Fits, HoldsLocks
<1>5. Alone(a)'
  BY <1>1, <1>2, ActorFacts DEF Poison, Answer, TypeOK, Alone, Writing, Owner,
     InClientTxn, InTxn, Tid, Fits
<1>6. \A t \in Txns : opHolder[t] = a => Pins(t)'
  BY <1>1, <1>2, ActorFacts DEF Poison, Answer, TypeOK, Pins, Poisoned, Fits, UsesConn,
     Holding, Places, InTxn, Tid, Owner, Writing, InClientTxn
<1> QED BY <1>3, <1>4, <1>5, <1>6

LEMMA StepConn ==
  ASSUME TypeOK, TypeOK', Locks, Connections, NEW a \in Actors, Step(a), Acts(a)
  PROVE  /\ Spares(a) /\ UsesConn(a)' /\ Alone(a)'
         /\ \A t \in Txns : opHolder[t] = a => Pins(t)'
BY AdmitOperationConn, OperationTimeoutConn, StartConn, EnterGateConn, GateTimeoutConn,
   RouteWriteConn, ConnectConn, ConnectFailsConn, CheckpointConn, StatementConn,
   StatementFailsConn, DecideCommitConn, CommitFailsConn, PublishMainConn, CommitDoneConn,
   LocalCommitDoneConn, NextHiveConn, RouteReadConn, PinMainConn, PinVolatileConn,
   PinFailsConn, ReadMainConn, ReadVolatileConn, ReadFailsConn, UnregisterConn,
   RollBackConn, FinishConn, InterruptConn, PoisonConn DEF Step

-----------------------------------------------------------------------------
\* A call is made: nothing but the locals of its actor, at rest until now,
\* changes.
Sends(a) ==
  /\ pc[a] \in {"idle", "answered"} /\ pc'[a] \in {"operation", "answered", "admitted"}
  /\ pc'[a] = "admitted" => ~InTxn(a)'
  /\ a \in Requests => pc[a] = "idle"
  /\ status'[a] \in {status[a], "OK", "StorageError", "Invalid"}
  /\ status'[a] = "OK" => call'[a].op = "abort"
  /\ a \in Requests /\ status'[a] = "OK" => pc'[a] = "answered"
  /\ UNCHANGED <<txnVars, lockVars, storeVars, at, todo, late, seen>>

LEMMA CallsSend ==
  ASSUME Typed, Locks
  PROVE  /\ \A r \in Requests : Dispatch(r) \/ DispatchControl(r) => Sends(r)
         /\ AbortRemaining => Sends(Closer)
<1>1. ASSUME NEW r \in Requests, Dispatch(r) \/ DispatchControl(r) PROVE Sends(r)
  <2>1. r \in Actors /\ Fits(r) /\ TypeOK BY ActorFacts DEF Locks, Typed
  <2>2. pc[r] = "idle" /\ status[r] = "none"
    BY <1>1, <2>1 DEF Dispatch, DispatchControl, Fits
  <2>3. UNCHANGED <<txnVars, lockVars, storeVars, at, todo, late, seen>>
    BY <1>1 DEF Dispatch, DispatchControl
  <2>4. CASE Dispatch(r)
    <3>1. pc'[r] \in {"operation", "answered", "admitted"} BY <2>1, <2>4 DEF Dispatch, TypeOK
    <3>2. pc'[r] = "admitted" => ~InTxn(r)' BY <2>1, <2>4 DEF Dispatch, TypeOK, InTxn, Tid
    <3>3. status'[r] \in {status[r], "StorageError"} BY <2>1, <2>4 DEF Dispatch, TypeOK
    <3> QED BY <2>2, <2>3, <3>1, <3>2, <3>3 DEF Sends
  <2>5. CASE DispatchControl(r)
    <3>1. pc'[r] \in {"operation", "answered"} BY <2>1, <2>5 DEF DispatchControl, TypeOK
    <3>2. /\ status'[r] \in {status[r], "OK", "StorageError", "Invalid"}
          /\ status'[r] = "OK" => call'[r].op = "abort" /\ pc'[r] = "answered"
      BY <2>1, <2>2, <2>5 DEF DispatchControl, TypeOK
    <3> QED BY <2>2, <2>3, <3>1, <3>2 DEF Sends
  <2> QED BY <1>1, <2>4, <2>5
<1>2. ASSUME AbortRemaining PROVE Sends(Closer)
  <2>1. Closer \in Actors /\ TypeOK /\ Fits(Closer) BY ActorFacts DEF Locks, Typed
  <2>2. pc'[Closer] = "operation" /\ UNCHANGED <<txnVars, lockVars, storeVars, at, todo, status, late, seen>>
    BY <1>2, <2>1 DEF AbortRemaining, TypeOK
  <2>3. pc[Closer] \in {"idle", "answered"} BY <1>2 DEF AbortRemaining, Resting
  <2>4. Fits(Closer)' BY <1>2, AbortRemainingLocks
  <2>5. call'[Closer].op = "abort" BY <2>4, ActorFacts DEF Fits
  <2> QED BY <2>2, <2>3, <2>5, ActorFacts DEF Sends
<1> QED BY <1>1, <1>2

\* An actor at rest holds nothing.
LEMMA RestHoldsNothing ==
  ASSUME Locks, NEW a \in Actors, pc[a] \in {"idle", "operation", "answered"}
  PROVE  (\A t \in Txns : opHolder[t] # a) /\ (\A h \in Hives : a \notin inside[h])
BY DEF Locks, HoldsLocks, Holding, Gated

LEMMA SendsKeepsConn ==
  ASSUME TypeOK, TypeOK', Locks, Connections, NEW a \in Actors, Acts(a), Sends(a)
  PROVE  Connections'
<1>1. UsesConn(a) BY DEF Connections
<1>2. Spares(a) BY RestHoldsNothing DEF Sends, Spares
<1>3. UsesConn(a)'
  <2>1. \A h \in Hives : writeConn'[h] # a BY <1>1 DEF UsesConn, Sends
  <2>2. ~Works(a)' BY DEF Works, Sends, Holding
  <2> QED BY <2>1, <2>2 DEF Sends, UsesConn, Writing, Gated
<1>4. Alone(a)' BY DEF Alone, Sends, Writing
<1> QED BY <1>2, <1>3, <1>4, RestHoldsNothing, ActsKeepsConn DEF Sends

LEMMA WakesKeepsConn ==
  ASSUME TypeOK, TypeOK', Locks, Connections, Wakes
  PROVE  Connections'
<1>1. UNCHANGED <<registered, readOnly, bound, conn, failed, opHolder, inside, writeConn, at>>
  BY DEF Wakes
<1>2. ASSUME NEW a \in Actors PROVE UsesConn(a)' /\ Alone(a)'
  <2>1. UsesConn(a) /\ Alone(a) BY DEF Connections
  <2>2. CASE pc'[a] = pc[a] /\ call'[a] = call[a]
    <3>1. /\ InTxn(a)' = InTxn(a) /\ Tid(a)' = Tid(a) /\ IsControl(a)' = IsControl(a)
          /\ InClientTxn(a)' = InClientTxn(a) /\ Owner(a)' = Owner(a) /\ Works(a)' = Works(a)
      BY <2>2 DEF InTxn, Tid, IsControl, InClientTxn, Owner, Works
    <3> QED BY <1>1, <2>1, <2>2, <3>1 DEF UsesConn, Alone
  <2>3. CASE pc[a] = "idle" /\ pc'[a] = "operation"
    <3>1. \A h \in Hives : writeConn'[h] # a BY <1>1, <2>1, <2>3 DEF UsesConn
    <3>2. ~Works(a)' BY <2>3 DEF Works, Holding
    <3> QED BY <2>3, <3>1, <3>2 DEF UsesConn, Alone, Writing, Gated
  <2> QED BY <2>2, <2>3 DEF Wakes
<1>3. ASSUME NEW t \in Txns PROVE Pins(t)'
  <2>1. opHolder[t] \in Actors => pc'[opHolder[t]] = pc[opHolder[t]]
    BY RestHoldsNothing DEF Wakes
  <2>2. Poisoned(t)' <=> Poisoned(t) BY <1>1, <2>1 DEF Poisoned
  <2> QED BY <1>1, <2>1, <2>2 DEF Connections, Pins
<1>4. OnePerHive' BY <1>1 DEF Connections, OnePerHive
<1> QED BY <1>2, <1>3, <1>4 DEF Connections

LEMMA BeginKeepsConn ==
  ASSUME Typed, Locks, Connections, NEW u \in Txns, NEW mode, Begin(u, mode)
  PROVE  Connections'
<1>1. TypeOK BY DEF Typed
<1>2. /\ UNCHANGED <<bound, conn, failed, cleaning, lockVars, storeVars, actorVars>>
      /\ registered' = registered \cup {u} /\ readOnly' \subseteq readOnly \cup {u}
      /\ readOnly \subseteq readOnly' /\ u \notin begun
  BY DEF Begin
<1>3. ASSUME NEW a \in Actors PROVE UsesConn(a)' /\ Alone(a)'
  <2>1. UsesConn(a) /\ Alone(a) /\ HoldsLocks(a) BY DEF Connections, Locks
  <2>2. /\ InTxn(a)' = InTxn(a) /\ Tid(a)' = Tid(a) /\ IsControl(a)' = IsControl(a)
        /\ InClientTxn(a)' = InClientTxn(a) /\ Owner(a)' = Owner(a) /\ Works(a)' = Works(a)
    BY <1>2 DEF InTxn, Tid, IsControl, InClientTxn, Owner, Works
  <2>3. Tid(a) # u \/ ~InTxn(a) \/ pc[a] \in {"idle", "answered"} BY <1>2, <2>1 DEF HoldsLocks
  <2>4. Tid(a) # u \/ pc[a] \in {"idle", "answered"} BY <2>3, ActorFacts DEF InTxn
  <2>5. UsesConn(a)' BY <1>2, <2>1, <2>2, <2>4 DEF UsesConn, Writing, Gated, Works
  <2>6. Alone(a)' BY <1>2, <2>1, <2>2 DEF Alone
  <2> QED BY <2>5, <2>6
<1>4. ASSUME NEW t \in Txns PROVE Pins(t)'
  <2>1. Pins(t) BY DEF Connections
  <2>2. conn[t] # "none" => t # u BY <1>2, <2>1, ActorFacts DEF Pins, Locks
  <2>3. Poisoned(t)' <=> Poisoned(t) BY <1>2 DEF Poisoned
  <2> QED BY <1>2, <2>1, <2>2, <2>3 DEF Pins
<1>5. OnePerHive' BY <1>2 DEF Connections, OnePerHive
<1> QED BY <1>3, <1>4, <1>5 DEF Connections

\* Nothing that connections depend on changes.
LEMMA UnseenKeepsConn ==
  ASSUME Connections, UNCHANGED <<txnVars, lockVars, storeVars, pc, call, at>>
  PROVE  Connections'
<1>1. ASSUME NEW a \in Actors PROVE UsesConn(a)' /\ Alone(a)'
  <2>1. UsesConn(a) /\ Alone(a) BY DEF Connections
  <2>2. /\ InTxn(a)' = InTxn(a) /\ Tid(a)' = Tid(a) /\ IsControl(a)' = IsControl(a)
        /\ InClientTxn(a)' = InClientTxn(a) /\ Owner(a)' = Owner(a) /\ Works(a)' = Works(a)
    BY DEF InTxn, Tid, IsControl, InClientTxn, Owner, Works
  <2> QED BY <2>1, <2>2 DEF UsesConn, Alone
<1>2. \A t \in Txns : Pins(t)' BY DEF Connections, Pins, Poisoned
<1>3. OnePerHive' BY DEF Connections, OnePerHive
<1> QED BY <1>1, <1>2, <1>3 DEF Connections

LEMMA ConnNext ==
  ASSUME Typed, Locks, Connections, [Next /\ UNCHANGED scenario]_<<vars, scenario>>
  PROVE  Connections'
<1>1. TypeOK /\ TypeOK' BY LocksNext DEF Typed
<1>2. CASE \E a \in Actors : Step(a)
  <2>1. PICK a \in Actors : Step(a) BY <1>2
  <2>2. Acts(a) BY <1>1, <2>1, StepLocks
  <2> QED BY <1>1, <2>1, <2>2, StepConn, ActsKeepsConn
<1>3. CASE \E r \in Requests : Dispatch(r) \/ DispatchControl(r)
  <2>1. PICK r \in Requests : Dispatch(r) \/ DispatchControl(r) BY <1>3
  <2>2. r \in Actors /\ Acts(r) /\ Sends(r)
    BY <2>1, DispatchLocks, DispatchControlLocks, CallsSend, ActorFacts
  <2> QED BY <1>1, <2>2, SendsKeepsConn
<1>4. CASE \E r \in Requests : Expire(r)
  <2>1. UNCHANGED <<txnVars, lockVars, storeVars, pc, call, at>> BY <1>4 DEF Expire
  <2> QED BY <2>1, UnseenKeepsConn
<1>5. CASE AbortRemaining
  <2>1. Closer \in Actors /\ Acts(Closer) /\ Sends(Closer)
    BY <1>5, AbortRemainingLocks, CallsSend, ActorFacts
  <2> QED BY <1>1, <2>1, SendsKeepsConn
<1>6. CASE Tick BY <1>1, <1>6, TickWakes, WakesKeepsConn
<1>7. CASE \E t \in Txns, mode \in {"readWrite", "readOnly"} : Begin(t, mode)
  BY <1>7, BeginKeepsConn
<1>8. CASE Unseen BY <1>8, UnseenKeepsConn DEF Unseen
<1>9. CASE UNCHANGED <<vars, scenario>> BY <1>9, UnseenKeepsConn DEF vars
<1> QED BY <1>2, <1>3, <1>4, <1>5, <1>6, <1>7, <1>8, <1>9, NextCases

LEMMA ConnInit == Init => Connections
<1> SUFFICES ASSUME Init PROVE Connections OBVIOUS
<1>1. \A a \in Actors : UsesConn(a) /\ Alone(a)
  BY ActorFacts DEF Init, UsesConn, Alone, Works, Holding, Writing, Gated
<1>2. \A t \in Txns : Pins(t) BY ActorFacts DEF Init, Pins
<1> QED BY <1>1, <1>2 DEF Init, Connections, OnePerHive

LEMMA ConnInvariant == Spec => []Connections
<1>1. Typed /\ Locks /\ Connections /\ [Next /\ UNCHANGED scenario]_<<vars, scenario>> => Connections'
  BY ConnNext
<1> QED BY <1>1, ConnInit, LocksInvariant, PTL DEF Spec

-----------------------------------------------------------------------------
(* The properties.                                                         *)

\* A transaction that holds a connection is its hive's only holder, and a handler
\* admitted to a hive finds the connection free, whatever storage faults do.
LEMMA ConnectionKept ==
  Typed /\ Locks /\ Connections => TypeOK /\ PinnedConnection /\ NeverWaitsForConnection
<1> SUFFICES ASSUME Typed, Locks, Connections
             PROVE  TypeOK /\ PinnedConnection /\ NeverWaitsForConnection
  OBVIOUS
<1>1. TypeOK BY DEF Typed
<1>2. PinnedConnection
  <2> SUFFICES ASSUME NEW t \in Txns, conn[t] = "write", ~Poisoning(t)
               PROVE  writeConn[bound[t]] = t
    BY DEF PinnedConnection
  <2>1. ~Poisoned(t) BY <1>1, Own DEF Poisoned, Poisoning
  <2> QED BY <2>1 DEF Connections, Pins
<1>3. NeverWaitsForConnection
  <2> SUFFICES ASSUME NEW a \in Actors, pc[a] = "connect" PROVE writeConn[at[a]] = Nobody
    BY DEF NeverWaitsForConnection
  <2>1. at[a] \in Hives /\ a \in inside[at[a]] /\ ~IsRead(a) BY <1>1, Own DEF Writing
  <2>2. ASSUME NEW b \in Actors, writeConn[at[a]] = b PROVE FALSE
    <3>1. at[b] = at[a] /\ pc[b] \in {"statement", "commit", "publishing"}
      BY <2>1, <2>2 DEF Connections, UsesConn
    <3>2. b \in inside[at[a]] /\ b # a BY <1>1, <3>1, Own DEF Writing
    <3> QED BY <2>1, <3>2 DEF Locks, Exclusive
  <2>3. ASSUME NEW t \in Txns, writeConn[at[a]] = t PROVE FALSE
    <3>1. conn[t] = "write" /\ bound[t] = at[a] BY <2>1, <2>3 DEF Connections, Pins
    <3> QED BY <3>1 DEF Connections, Alone, Writing
  <2> QED BY <1>1, <2>1, <2>2, <2>3 DEF TypeOK
<1> QED BY <1>1, <1>2, <1>3

\* The manager's one connection per hive serves one transaction at a time and is
\* never waited for (getOrBindWrite, otherWriter, hiveBusy).
THEOREM OneConnectionPerHive ==
  Spec => [](TypeOK /\ PinnedConnection /\ NeverWaitsForConnection)
BY LocksInvariant, ConnInvariant, ConnectionKept, PTL

\* Only lockOperationMode takes the gate of a transaction, and never for a call
\* other than an abort once the lease has expired.
LEMMA AdmissionRefusesExpired ==
  ASSUME TypeOK, NEW a \in Actors, AdmitOperation(a), NEW t \in Txns, LeaseExpired(t)
  PROVE  /\ LeaseExpired(t)'
         /\ opHolder[t] = Nobody /\ opHolder'[t] # Nobody => call[opHolder'[t]].op = "abort"
<1>1. LeaseExpired(t)' BY DEF AdmitOperation, LeaseExpired
<1>2. ASSUME opHolder[t] = Nobody, opHolder'[t] # Nobody PROVE call[opHolder'[t]].op = "abort"
  <2>1. opHolder' = [opHolder EXCEPT ![Tid(a)] = a] /\ ~Refused(a)
    BY <1>2 DEF AdmitOperation
  <2>2. Tid(a) = t /\ opHolder'[t] = a BY <1>2, <2>1 DEF TypeOK
  <2> QED BY <2>1, <2>2 DEF Refused
<1> QED BY <1>1, <1>2

\* Every other step of an actor leaves the leases alone, and takes no gate.
LEMMA StepsKeepExpired ==
  ASSUME TypeOK, NEW a \in Actors, Step(a), ~AdmitOperation(a)
  PROVE  /\ expired \subseteq expired' /\ lease' = lease
         /\ \A t \in Txns : opHolder'[t] \in {opHolder[t], Nobody}
<1>1. CASE Finish(a) \/ Poison(a) BY <1>1 DEF Finish, Poison, Answer
<1>2. CASE DecideCommit(a) BY <1>2 DEF DecideCommit
<1>3. CASE OperationTimeout(a) \/ Start(a) \/ EnterGate(a) \/ GateTimeout(a) \/ RouteWrite(a)
  BY <1>3 DEF OperationTimeout, Start, EnterGate, GateTimeout, RouteWrite
<1>4. CASE Connect(a) \/ ConnectFails(a) \/ Checkpoint(a) \/ Statement(a) \/ StatementFails(a)
  BY <1>4 DEF Connect, ConnectFails, Checkpoint, Statement, StatementFails
<1>5. CASE CommitFails(a) \/ PublishMain(a) \/ CommitDone(a) \/ LocalCommitDone(a) \/ NextHive(a)
  BY <1>5 DEF CommitFails, PublishMain, CommitDone, LocalCommitDone, NextHive, PublishVolatile
<1>6. CASE RouteRead(a) \/ PinMain(a) \/ PinVolatile(a) \/ PinFails(a)
  BY <1>6 DEF RouteRead, PinMain, PinVolatile, PinFails
<1>7. CASE ReadMain(a) \/ ReadVolatile(a) \/ ReadFails(a)
  BY <1>7 DEF ReadMain, ReadVolatile, ReadFails
<1>8. CASE Unregister(a) \/ RollBack(a) \/ Interrupt(a)
  BY <1>8 DEF Unregister, RollBack, Interrupt
<1> QED BY <1>1, <1>2, <1>3, <1>4, <1>5, <1>6, <1>7, <1>8 DEF Step

\* A renewal that comes back late finds the transaction expired (maintainLeases),
\* and time only adds to what has lapsed.
LEMMA LeasesKeepExpired ==
  ASSUME TypeOK, Maintenance \/ Shutdown \/ Environment \/ Exited, NEW t \in Txns, LeaseExpired(t)
  PROVE  LeaseExpired(t)' /\ opHolder' = opHolder
<1>1. CASE Tick BY <1>1 DEF Tick, LeaseExpired
<1>2. CASE \E u \in Txns : Renew(u) BY <1>2 DEF Renew, LeaseExpired
<1>3. CASE \E u \in Txns : ApplyRenewal(u)
  <2> PICK u \in Txns : ApplyRenewal(u) BY <1>3
  <2>1. expired \subseteq expired' /\ opHolder' = opHolder BY DEF ApplyRenewal
  <2>2. CASE lease' = lease BY <2>1, <2>2 DEF LeaseExpired
  <2>3. CASE lease' = [lease EXCEPT ![u] = "fresh"] /\ ~LeaseExpired(u)
    <3>1. t # u BY <2>3
    <3>2. lease'[t] = lease[t] BY <2>3, <3>1 DEF TypeOK
    <3> QED BY <2>1, <3>2 DEF LeaseExpired
  <2> QED BY <2>2, <2>3 DEF ApplyRenewal
<1>4. CASE \E u \in Txns : Age(u)
  <2> PICK u \in Txns : Age(u) BY <1>4
  <2>1. expired' = expired /\ opHolder' = opHolder /\ lease[u] # "over" BY DEF Age
  <2>2. lease[t] = "over" => lease'[t] = "over" BY <2>1 DEF Age, TypeOK
  <2> QED BY <2>1, <2>2 DEF LeaseExpired
<1>5. CASE \E u \in Txns : Disown(u) \/ \E mode \in {"readWrite", "readOnly"} : Begin(u, mode)
  BY <1>5 DEF Disown, Begin, LeaseExpired
<1>6. CASE \E r \in Requests : Dispatch(r) \/ DispatchControl(r) \/ Expire(r)
  BY <1>6 DEF Dispatch, DispatchControl, Expire, LeaseExpired
<1>7. CASE Drain \/ Shutdown \/ Exited
  BY <1>7 DEF Drain, Shutdown, StopMaintenance, MaintenanceDone, AbortRemaining, CloseHives,
              Exited, vars, LeaseExpired
<1> QED BY <1>1, <1>2, <1>3, <1>4, <1>5, <1>6, <1>7 DEF Maintenance, Environment

\* Late renewals cannot revive an expired transaction, and it admits nothing but
\* its cleanup (leaseExpired, lockOperationMode, maintainLeases).
THEOREM ExpiredStaysExpired == Spec => NoRevival
<1> DEFINE Kept(t) ==
      LeaseExpired(t) =>
        /\ LeaseExpired(t)'
        /\ opHolder[t] = Nobody /\ opHolder'[t] # Nobody => call[opHolder'[t]].op = "abort"
<1>1. ASSUME Typed, [Next /\ UNCHANGED scenario]_<<vars, scenario>>
      PROVE  [\A t \in Txns : Kept(t)]_vars
  <2> SUFFICES ASSUME NEW t \in Txns, LeaseExpired(t), Next
               PROVE  /\ LeaseExpired(t)'
                      /\ opHolder[t] = Nobody /\ opHolder'[t] # Nobody =>
                           call[opHolder'[t]].op = "abort"
    BY <1>1
  <2>1. TypeOK BY <1>1 DEF Typed
  <2>2. CASE \E a \in Actors : Step(a)
    <3> PICK a \in Actors : Step(a) BY <2>2
    <3>1. CASE AdmitOperation(a) BY <2>1, <3>1, AdmissionRefusesExpired
    <3>2. CASE ~AdmitOperation(a)
      <4>1. /\ expired \subseteq expired' /\ lease' = lease
            /\ opHolder'[t] \in {opHolder[t], Nobody}
        BY <2>1, <3>2, StepsKeepExpired
      <4> QED BY <4>1 DEF LeaseExpired
    <3> QED BY <3>1, <3>2
  <2>3. CASE Maintenance \/ Shutdown \/ Environment \/ Exited
    <3>1. LeaseExpired(t)' /\ opHolder' = opHolder BY <2>1, <2>3, LeasesKeepExpired
    <3> QED BY <3>1
  <2> QED BY <2>2, <2>3 DEF Next
<1>2. [Next /\ UNCHANGED scenario]_<<vars, scenario>> /\ Typed => [\A t \in Txns : Kept(t)]_vars
  BY <1>1
<1> QED BY <1>2, LocksInvariant, PTL DEF Spec, NoRevival
=============================================================================
