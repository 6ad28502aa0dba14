-------------------------- MODULE GuidCacheProofs --------------------------
(***************************************************************************)
(* Proofs about GuidCache, for any hives, keys, transactions and requests: *)
(* no interleaving of probes, late stores, evictions and hooks leaves the  *)
(* ghost of an aborted create in guidCache, and a key that stays in a      *)
(* request's view is never answered as RSI_NOT_FOUND.                      *)
(*                                                                         *)
(* The invariant has three parts, each resting on the ones before it:      *)
(* Order (who holds a transaction, and that whatever names a hive names    *)
(* the right one), Owed (where a key that may be cached is accounted for)  *)
(* and Watched (what a request whose key stays in its view has learnt).    *)
(***************************************************************************)
EXTENDS GuidCache, TLAPS

\* Between dispatch and answer.
Live(r) == pc[r] \notin {"idle", "answered"}

\* A request is what its scenario says, and stands only where its kind may.
Called(r) ==
  /\ pc[r] # "idle" => Home[Guid(r)] = Home[call[r].new]
  /\ pc[r] \in {"control", "committed", "aborted"} => Txn(r) # NoTxn
  /\ pc[r] \in {"writing", "executed"} => call[r].op \in {"create", "drop"}

\* A transaction is used by one request at a time, and only before it ends.
Owns(r) ==
  Live(r) /\ Txn(r) # NoTxn => /\ operation[Txn(r)] = r
                               /\ pc[r] # "aborted" => Txn(r) \notin ended

\* The hive a request resolved is where its key belongs.
Located(r) ==
  pc[r] \in {"storing", "routed", "writing", "executed"} => at[r] = Home[Guid(r)]

\* A transactional mutation past writeQ works on its transaction's pinned view.
Pins(r) ==
  pc[r] \in {"writing", "executed"} /\ Txn(r) # NoTxn =>
    Txn(r) \notin failed \cup ReadOnly /\ bound[Txn(r)] = at[r]

InOrder(r) == Called(r) /\ Owns(r) /\ Located(r) /\ Pins(r)

\* Keys, views and cache entries are where the keys belong.
AtHome ==
  /\ \A h \in Hives : \A g \in keys[h] : Home[g] = h
  /\ \A t \in Txns : \A g \in view[t] : Home[g] = bound[t]
  /\ \A g \in Guids : cache[g] \in {Home[g], NoHive}

Order == TypeOK /\ scenario \in Scenarios /\ AtHome /\ \A r \in Requests : InOrder(r)

\* t has created, or dropped, g in its view, and the hook comes next.
Creating(t, g) ==
  \E r \in Requests :
    pc[r] = "executed" /\ call[r].op = "create" /\ Txn(r) = t /\ call[r].new = g
Dropping(t, g) ==
  \E r \in Requests :
    pc[r] = "executed" /\ call[r].op = "drop" /\ Txn(r) = t /\ Guid(r) = g

\* What a transaction sees is committed or its own creation, for which it has
\* a hook or is about to have one; what it created and would commit is still
\* in its view, or its commit owes the eviction.
TxnOwed(t) ==
  /\ \A g \in view[t] : g \in born \cup torn \cup onAbort[t] \/ Creating(t, g)
  /\ \A g \in onAbort[t] :
       /\ t \notin ReadOnly /\ bound[t] # NoHive
       /\ t \notin failed \cup ended =>
            g \in view[t] \cup torn \cup onCommit[t] \/ Dropping(t, g)

\* What the create of a key, a committed transaction's hook and the late store
\* of a probe are about to leave in the cache.
StepOwed(r) ==
  /\ pc[r] = "executed" /\ call[r].op = "create" =>
       call[r].new \in IF Txn(r) = NoTxn THEN born ELSE view[Txn(r)]
  /\ pc[r] = "committed" =>
       /\ Txn(r) \notin failed
       /\ \A g \in onAbort[Txn(r)] : g \in born \cup torn \cup onCommit[Txn(r)]
  /\ pc[r] = "storing" =>
       \/ Guid(r) \in born \cup torn
       \/ Txn(r) # NoTxn /\ Guid(r) \in onAbort[Txn(r)]
  /\ pc[r] = "aborted" => view[Txn(r)] = {}

KeysBorn == \A h \in Hives : keys[h] \subseteq born

Owed ==
  /\ KeysBorn /\ NoGhost
  /\ \A t \in Txns : TxnOwed(t)
  /\ \A r \in Requests : StepOwed(r)

\* A request whose key has stayed in its view still sees it, and has not yet
\* passed its hive by.
Watched ==
  \A r \in Requests :
    /\ pc[r] = "idle" => r \notin steady
    /\ r \in steady /\ Live(r) => InView(r)
    /\ r \in steady /\ pc[r] = "probing" => Home[Guid(r)] \in left[r]

-----------------------------------------------------------------------------
Statuses == {"none", "OK", "NotFound", "Invalid", "TxnBusy", "AlreadyExists", "StorageError"}

LEMMA InitTyped == Init => TypeOK
<1> SUFFICES ASSUME Init PROVE TypeOK OBVIOUS
<1> USE GuidCacheAssumption
<1>1. keys \in [Hives -> SUBSET Guids] /\ born \in SUBSET Guids
  BY DEF Init
<1>2. cache \in [Guids -> Hives \cup {NoHive}] BY DEF Init
<1>3. (CHOOSE k \in Call : TRUE) \in Call
  <2>1. PICK h \in Hives : TRUE OBVIOUS
  <2>2. [op |-> "read", txn |-> NoTxn, guid |-> RootGUID[h], new |-> RootGUID[h]] \in Call
    BY DEF Call, Ops
  <2> QED BY <2>2
<1>4. call \in [Requests -> Call] BY <1>3 DEF Init
<1> QED BY <1>1, <1>2, <1>4 DEF Init, TypeOK, Places

\* The answer of r with a status of S, as the rest of the state sees it.
Answers(r, S) ==
  /\ pc' \in [Requests -> Places] /\ status' \in [Requests -> Statuses]
  /\ operation' \in [Txns -> Requests \cup {Nobody}]
  /\ writer' \in [Hives -> Requests \cup {Nobody}]
  /\ pc'[r] = "answered" /\ status'[r] \in S
  /\ \A q \in Requests \ {r} : pc'[q] = pc[q] /\ status'[q] = status[q]
  /\ \A t \in Txns : operation'[t] = IF operation[t] = r THEN Nobody ELSE operation[t]

\* What a failure leaves of the transactions: at most that of r is poisoned.
Poisoned(r) ==
  /\ bound' = bound /\ ended' = ended
  /\ view' \in [Txns -> SUBSET Guids] /\ failed' \in SUBSET Txns
  /\ failed \subseteq failed' /\ failed' \subseteq failed \cup {Txn(r)}
  /\ \A t \in Txns : view'[t] = view[t] \/ (t = Txn(r) /\ t \in failed' /\ view'[t] = {})

LEMMA AnswerTyped ==
  ASSUME TypeOK, NEW r \in Requests, NEW s \in Statuses, Answer(r, s)
  PROVE  Answers(r, {s})
BY DEF Answer, Answers, Goto, Release, TypeOK, Places, Statuses

LEMMA UnsuccessfulTyped ==
  ASSUME TypeOK, NEW r \in Requests, NEW s \in Statuses, Unsuccessful(r, s)
  PROVE  Answers(r, {s, "StorageError"}) /\ Poisoned(r)
<1>1. CASE Answer(r, s) /\ UNCHANGED txnVars
  <2>1. Answers(r, {s}) BY <1>1, AnswerTyped
  <2> QED BY <1>1, <2>1 DEF Answers, Poisoned, txnVars, TypeOK
<1>2. CASE Poison(r)
  <2>1. Answers(r, {"StorageError"}) BY <1>2, AnswerTyped DEF Poison, Statuses
  <2>2. Txn(r) \in Txns BY <1>2 DEF Poison, Pinned, TypeOK, Call, Txn
  <2>3. Poisoned(r) BY <1>2, <2>2 DEF Poison, Poisoned, TypeOK
  <2> QED BY <2>1, <2>3 DEF Answers
<1> QED BY <1>1, <1>2 DEF Unsuccessful

-----------------------------------------------------------------------------
\* What a step of r cannot touch: other requests, the transactions they hold,
\* and the past.
Frame(r) ==
  /\ \A q \in Requests \ {r} :
       /\ pc'[q] = pc[q] /\ call'[q] = call[q] /\ at'[q] = at[q]
       /\ left'[q] = left[q] /\ status'[q] = status[q]
  /\ \A t \in Txns : operation[t] \notin {r, Nobody} => operation'[t] = operation[t]
  /\ \A t \in Txns : t # Txn(r) =>
       /\ bound'[t] = bound[t] /\ view'[t] = view[t]
       /\ onCommit'[t] = onCommit[t] /\ onAbort'[t] = onAbort[t]
       /\ (t \in failed' <=> t \in failed) /\ (t \in ended' <=> t \in ended)
  /\ born \subseteq born' /\ torn \subseteq torn'

LEMMA DispatchTyped ==
  ASSUME TypeOK, scenario \in Scenarios, NEW r \in Requests, Dispatch(r),
         steady' \in SUBSET Requests
  PROVE  TypeOK' /\ Frame(r)
<1>1. PICK k \in scenario[r] :
        /\ call' = [call EXCEPT ![r] = k]
        /\ IF k.txn \in ended
             THEN Answer(r, IF k.op = "abort" THEN "OK" ELSE "StorageError")
             ELSE /\ k.txn # NoTxn => operation[k.txn] = Nobody
                  /\ operation' = [t \in Txns |-> IF t = k.txn THEN r ELSE operation[t]]
                  /\ Goto(r, CASE k.op \in {"commit", "abort"} -> "control"
                               [] k.op = "deleteLayer" -> "evicting"
                               [] OTHER -> "loading")
                  /\ UNCHANGED <<status, writer>>
  BY DEF Dispatch
<1>2. k \in Call BY GuidCacheAssumption
<1>3. /\ call' \in [Requests -> Call]
      /\ \A q \in Requests \ {r} : call'[q] = call[q]
  BY <1>1, <1>2 DEF TypeOK
<1>4. UNCHANGED <<keys, born, cache, bound, view, failed, ended, onCommit, onAbort, at, left, torn>>
  BY DEF Dispatch, hiveVars, txnVars, hookVars
<1>5. CASE k.txn \in ended
  <2>1. Answers(r, Statuses) BY <1>1, <1>5, AnswerTyped DEF Statuses, Answers
  <2> QED BY <1>3, <1>4, <2>1 DEF Answers, TypeOK, Frame, Statuses
<1>6. CASE k.txn \notin ended
  <2>1. /\ pc' \in [Requests -> Places] /\ \A q \in Requests \ {r} : pc'[q] = pc[q]
    <3> DEFINE place == CASE k.op \in {"commit", "abort"} -> "control"
                          [] k.op = "deleteLayer" -> "evicting"
                          [] OTHER -> "loading"
    <3>1. pc' = [pc EXCEPT ![r] = place] BY <1>1, <1>6 DEF Goto
    <3>2. place \in Places BY DEF Places
    <3> HIDE DEF place
    <3> QED BY <3>1, <3>2 DEF TypeOK
  <2>2. /\ operation' \in [Txns -> Requests \cup {Nobody}]
        /\ \A t \in Txns : operation[t] \notin {r, Nobody} => operation'[t] = operation[t]
    <3>1. /\ k.txn # NoTxn => operation[k.txn] = Nobody
          /\ operation' = [t \in Txns |-> IF t = k.txn THEN r ELSE operation[t]]
      BY <1>1, <1>6
    <3> QED BY <3>1, GuidCacheAssumption DEF TypeOK
  <2>3. UNCHANGED <<status, writer>> BY <1>1, <1>6
  <2> QED BY <1>3, <1>4, <2>1, <2>2, <2>3 DEF TypeOK, Frame
<1> QED BY <1>5, <1>6

LEMMA LoadTyped ==
  ASSUME TypeOK, NEW r \in Requests, Load(r), steady' \in SUBSET Requests
  PROVE  TypeOK' /\ Frame(r)
BY DEF Load, TypeOK, Frame, Goto, Evict, Statuses, Places, hiveVars, txnVars, hookVars, Txn, Guid,
    Call, Unsuccessful, Pinned, ViewOf, Forget, DropHooks, EnterGate

LEMMA StoreTyped ==
  ASSUME TypeOK, NEW r \in Requests, Store(r), steady' \in SUBSET Requests
  PROVE  TypeOK' /\ Frame(r)
BY GuidCacheAssumption, AnswerTyped, UnsuccessfulTyped
DEF Store, TypeOK, Frame, Goto, Evict, Statuses, Places, hiveVars, txnVars, hookVars, Txn, Guid,
    Call, Unsuccessful, Pinned, ViewOf, Forget, DropHooks, EnterGate

\* An answered step that leaves the tables and the hooks alone.
LEMMA RefusedTyped ==
  ASSUME TypeOK, NEW r \in Requests, Answers(r, Statuses), Poisoned(r),
         UNCHANGED <<keys, cache, onCommit, onAbort, call, left>>,
         born \subseteq born', born' \in SUBSET Guids,
         torn \subseteq torn', torn' \in SUBSET Guids,
         at' \in [Requests -> Hives \cup {NoHive}], \A q \in Requests \ {r} : at'[q] = at[q],
         steady' \in SUBSET Requests
  PROVE  TypeOK' /\ Frame(r)
<1>1. TypeOK' BY DEF TypeOK, Answers, Poisoned, Statuses
<1>2. Frame(r) BY DEF TypeOK, Answers, Poisoned, Frame
<1> QED BY <1>1, <1>2

LEMMA NotPoisoned ==
  ASSUME TypeOK, NEW r \in Requests, UNCHANGED <<bound, view, failed, ended>>
  PROVE  Poisoned(r)
BY DEF Poisoned, TypeOK

\* The failure of any step but Execute.
LEMMA GivesUpTyped ==
  ASSUME TypeOK, NEW r \in Requests, NEW s \in Statuses, Unsuccessful(r, s),
         UNCHANGED <<keys, born, cache, onCommit, onAbort, call, at, left>>,
         torn \subseteq torn', torn' \in SUBSET Guids,
         steady' \in SUBSET Requests
  PROVE  TypeOK' /\ Frame(r)
<1>1. Answers(r, Statuses) /\ Poisoned(r)
  BY UnsuccessfulTyped DEF Statuses, Answers
<1> QED BY <1>1, RefusedTyped DEF TypeOK

LEMMA ExhaustedTyped ==
  ASSUME TypeOK, NEW r \in Requests, Exhausted(r), steady' \in SUBSET Requests
  PROVE  TypeOK' /\ Frame(r)
<1> DEFINE roots == {h \in Hives : RootGUID[h] = Guid(r)}
<1>1. UNCHANGED <<keys, born, cache, onCommit, onAbort, call, left, torn>>
  BY DEF Exhausted, hiveVars, hookVars
<1>2. CASE /\ call[r].op = "create" /\ roots # {}
           /\ \E h \in roots : at' = [at EXCEPT ![r] = h]
           /\ Goto(r, "routed")
           /\ UNCHANGED <<txnVars, operation, writer, status>>
  BY <1>1, <1>2 DEF TypeOK, Frame, Goto, Places, txnVars
<1>3. CASE call[r].op = "drop" /\ Answer(r, "OK") /\ UNCHANGED <<txnVars, at>>
  <2>1. Answers(r, Statuses) BY <1>3, AnswerTyped DEF Statuses, Answers
  <2> QED BY <1>1, <1>3, <2>1, NotPoisoned, RefusedTyped DEF TypeOK, txnVars
<1>4. CASE Unsuccessful(r, "NotFound") /\ UNCHANGED at
  BY <1>1, <1>4, GivesUpTyped DEF TypeOK, Statuses
<1> QED BY <1>2, <1>3, <1>4 DEF Exhausted

LEMMA FailTyped ==
  ASSUME TypeOK, NEW r \in Requests, Fail(r), steady' \in SUBSET Requests
  PROVE  TypeOK' /\ Frame(r)
BY GivesUpTyped DEF Fail, TypeOK, hiveVars, hookVars, Statuses

LEMMA ProbeTyped ==
  ASSUME TypeOK, NEW r \in Requests, NEW h \in Hives, Probe(r, h), steady' \in SUBSET Requests
  PROVE  TypeOK' /\ Frame(r)
<1>1. /\ pc' \in [Requests -> Places] /\ \A q \in Requests \ {r} : pc'[q] = pc[q]
      /\ at' \in [Requests -> Hives \cup {NoHive}]
      /\ \A q \in Requests \ {r} : at'[q] = at[q]
  <2>1. CASE Guid(r) \in ProbeView(Txn(r), h)
    BY <2>1 DEF Probe, Goto, TypeOK, Places
  <2>2. CASE Guid(r) \notin ProbeView(Txn(r), h)
    BY <2>2 DEF Probe, TypeOK, Places
  <2> QED BY <2>1, <2>2
<1>2. /\ left' \in [Requests -> SUBSET Hives] /\ \A q \in Requests \ {r} : left'[q] = left[q]
  BY DEF Probe, TypeOK
<1>3. UNCHANGED <<keys, born, cache, bound, view, failed, ended, onCommit, onAbort,
                  operation, writer, call, status, torn>>
  BY DEF Probe, hiveVars, txnVars, hookVars
<1> QED BY <1>1, <1>2, <1>3 DEF TypeOK, Frame

LEMMA ReadTyped ==
  ASSUME TypeOK, NEW r \in Requests, Read(r), at[r] \in Hives, steady' \in SUBSET Requests
  PROVE  TypeOK' /\ Frame(r)
<1> DEFINE tx == Txn(r)
           h == at[r]
           pins == tx \in ReadOnly /\ bound[tx] = NoHive
           sees == IF pins THEN keys[h] ELSE ViewOf(tx, h)
<1>1. UNCHANGED <<keys, born, cache, onCommit, onAbort, call, at, left, torn>>
  BY DEF Read, hiveVars, hookVars
<1>2. CASE Unsuccessful(r, "StorageError")
  BY <1>1, <1>2, GivesUpTyped DEF TypeOK, Statuses
<1>3. CASE /\ bound' = IF pins THEN [bound EXCEPT ![tx] = h] ELSE bound
           /\ view' = IF pins THEN [view EXCEPT ![tx] = sees] ELSE view
           /\ Answer(r, IF Guid(r) \in sees THEN "OK" ELSE "NotFound")
           /\ UNCHANGED <<failed, ended>>
  <2>1. Answers(r, Statuses) BY <1>3, AnswerTyped DEF Statuses, Answers
  <2>2. sees \in SUBSET Guids
    BY GuidCacheAssumption DEF TypeOK, ViewOf, Pinned, Call, Txn
  <2>3. /\ bound' \in [Txns -> Hives \cup {NoHive}] /\ view' \in [Txns -> SUBSET Guids]
        /\ \A t \in Txns : t # tx => bound'[t] = bound[t] /\ view'[t] = view[t]
    <3> HIDE DEF sees
    <3> QED BY <1>3, <2>2, GuidCacheAssumption DEF TypeOK
  <2> HIDE DEF sees, pins
  <2> QED BY <1>1, <1>3, <2>1, <2>3 DEF TypeOK, Answers, Frame, Statuses
<1>4. CASE Poison(r)
  BY <1>1, <1>4, GivesUpTyped DEF TypeOK, Statuses, Unsuccessful
<1> QED BY <1>2, <1>3, <1>4 DEF Read

LEMMA WriteQTyped ==
  ASSUME TypeOK, NEW r \in Requests, WriteQ(r), at[r] \in Hives, steady' \in SUBSET Requests
  PROVE  TypeOK' /\ Frame(r)
<1> DEFINE tx == Txn(r)
           h == at[r]
<1>1. UNCHANGED <<keys, born, cache, onCommit, onAbort, call, at, left, torn>>
  BY DEF WriteQ, hiveVars, hookVars
<1>2. CASE Unsuccessful(r, Refusal(r)) /\ Refusal(r) # "none"
  BY <1>1, <1>2, GivesUpTyped DEF TypeOK, Statuses, Refusal
<1>3. CASE Refusal(r) = "none"
  <2>1. /\ writer' = [writer EXCEPT ![h] = r] /\ Goto(r, "writing")
        /\ UNCHANGED <<failed, ended, operation, status>>
        /\ IF tx = NoTxn \/ Pinned(tx)
             THEN UNCHANGED <<bound, view>>
             ELSE bound' = [bound EXCEPT ![tx] = h] /\ view' = [view EXCEPT ![tx] = keys[h]]
    BY <1>3 DEF WriteQ
  <2>2. keys[h] \in SUBSET Guids BY DEF TypeOK
  <2>3. /\ bound' \in [Txns -> Hives \cup {NoHive}] /\ view' \in [Txns -> SUBSET Guids]
        /\ \A t \in Txns : t # tx => bound'[t] = bound[t] /\ view'[t] = view[t]
    BY <2>1, <2>2 DEF TypeOK
  <2>4. /\ pc' \in [Requests -> Places] /\ \A q \in Requests \ {r} : pc'[q] = pc[q]
        /\ writer' \in [Hives -> Requests \cup {Nobody}]
    BY <2>1 DEF TypeOK, Places, Goto
  <2> QED BY <1>1, <2>1, <2>3, <2>4 DEF TypeOK, Frame
<1> QED BY <1>2, <1>3 DEF WriteQ

LEMMA ExecuteTyped ==
  ASSUME TypeOK, NEW r \in Requests, Execute(r), at[r] \in Hives, steady' \in SUBSET Requests
  PROVE  TypeOK' /\ Frame(r)
<1> DEFINE tx == Txn(r)
           h == at[r]
           created == IF call[r].op = "create" THEN {call[r].new} ELSE {}
           dropped == IF call[r].op = "drop" THEN {Guid(r)} ELSE {}
           after == (ViewOf(tx, h) \ dropped) \cup created
<1>1. UNCHANGED <<cache, onCommit, onAbort, call, at, left, torn>>
  BY DEF Execute, hookVars
<1>2. CASE Unsuccessful(r, "AlreadyExists") /\ UNCHANGED hiveVars
  BY <1>1, <1>2, GivesUpTyped DEF TypeOK, Statuses, hiveVars
<1>3. CASE /\ Goto(r, "executed")
           /\ keys' = IF tx = NoTxn THEN [keys EXCEPT ![h] = after] ELSE keys
           /\ born' = IF tx = NoTxn THEN born \cup created ELSE born
           /\ view' = IF tx = NoTxn THEN view ELSE [view EXCEPT ![tx] = after]
           /\ UNCHANGED <<bound, failed, ended, operation, writer, status>>
  <2>1. created \in SUBSET Guids BY DEF TypeOK, Call
  <2>2. after \in SUBSET Guids
    <3>1. ViewOf(tx, h) \in SUBSET Guids BY DEF TypeOK, ViewOf, Pinned, Call, Txn
    <3> QED BY <2>1, <3>1
  <2>3. /\ keys' \in [Hives -> SUBSET Guids] /\ view' \in [Txns -> SUBSET Guids]
        /\ \A t \in Txns : t # tx => view'[t] = view[t]
        /\ born' \in SUBSET Guids /\ born \subseteq born'
    <3> HIDE DEF after, created
    <3> QED BY <1>3, <2>1, <2>2 DEF TypeOK
  <2>4. pc' \in [Requests -> Places] /\ \A q \in Requests \ {r} : pc'[q] = pc[q]
    BY <1>3 DEF TypeOK, Places, Goto
  <2> QED BY <1>1, <1>3, <2>3, <2>4 DEF TypeOK, Frame
<1> QED BY <1>2, <1>3 DEF Execute

LEMMA DropFailsTyped ==
  ASSUME TypeOK, NEW r \in Requests, DropFails(r), steady' \in SUBSET Requests
  PROVE  TypeOK' /\ Frame(r)
<1>1. Guid(r) \in Guids BY DEF TypeOK, Call, Guid
<1> QED BY <1>1, GivesUpTyped DEF DropFails, TypeOK, hiveVars, hookVars, Statuses

LEMMA CacheCreatedTyped ==
  ASSUME TypeOK, NEW r \in Requests, CacheCreated(r), at[r] \in Hives,
         steady' \in SUBSET Requests
  PROVE  TypeOK' /\ Frame(r)
<1>1. Answers(r, Statuses) BY AnswerTyped DEF CacheCreated, Statuses, Answers
<1>2. UNCHANGED <<keys, born, bound, view, failed, ended, onCommit, call, at, left, torn>>
  BY DEF CacheCreated, hiveVars, txnVars
<1>3. cache' \in [Guids -> Hives \cup {NoHive}] BY DEF CacheCreated, TypeOK
<1>4. /\ onAbort' \in [Txns -> SUBSET Guids]
      /\ \A t \in Txns : t # Txn(r) => onAbort'[t] = onAbort[t]
  BY DEF CacheCreated, TypeOK, Call
<1> QED BY <1>1, <1>2, <1>3, <1>4 DEF TypeOK, Answers, Frame, Statuses

LEMMA CacheDroppedTyped ==
  ASSUME TypeOK, NEW r \in Requests, CacheDropped(r), steady' \in SUBSET Requests
  PROVE  TypeOK' /\ Frame(r)
<1>1. Answers(r, Statuses) BY AnswerTyped DEF CacheDropped, Statuses, Answers
<1>2. UNCHANGED <<keys, born, bound, view, failed, ended, onAbort, call, at, left, torn>>
  BY DEF CacheDropped, hiveVars, txnVars
<1>3. cache' \in [Guids -> Hives \cup {NoHive}] BY DEF CacheDropped, TypeOK, Evict
<1>4. /\ onCommit' \in [Txns -> SUBSET Guids]
      /\ \A t \in Txns : t # Txn(r) => onCommit'[t] = onCommit[t]
  BY DEF CacheDropped, TypeOK, Call, Guid
<1> QED BY <1>1, <1>2, <1>3, <1>4 DEF TypeOK, Answers, Frame, Statuses

LEMMA EvictOrphanTyped ==
  ASSUME TypeOK, NEW r \in Requests, EvictOrphan(r), steady' \in SUBSET Requests
  PROVE  TypeOK' /\ Frame(r)
<1>1. Answers(r, Statuses) BY AnswerTyped DEF EvictOrphan, Statuses, Answers
<1>2. UNCHANGED <<keys, born, bound, view, failed, ended, onCommit, onAbort,
                  call, at, left, torn>>
  BY DEF EvictOrphan, hiveVars, txnVars, hookVars
<1>3. cache' \in [Guids -> Hives \cup {NoHive}] BY DEF EvictOrphan, TypeOK, Evict
<1> QED BY <1>1, <1>2, <1>3 DEF TypeOK, Answers, Frame, Statuses

LEMMA CommitTyped ==
  ASSUME TypeOK, NEW r \in Requests, Commit(r), Txn(r) \in Txns, steady' \in SUBSET Requests
  PROVE  TypeOK' /\ Frame(r)
<1> DEFINE tx == Txn(r)
           h == bound[tx]
           publishes == Pinned(tx) /\ tx \notin ReadOnly
<1>1. UNCHANGED <<cache, bound, view, failed, ended, onCommit, onAbort, call, at, left, torn>>
  BY DEF Commit, txnVars, hookVars
<1>2. CASE Answer(r, "StorageError") /\ UNCHANGED hiveVars
  <2>1. Answers(r, Statuses) BY <1>2, AnswerTyped DEF Statuses, Answers
  <2> QED BY <1>1, <1>2, <2>1, NotPoisoned, RefusedTyped DEF TypeOK, hiveVars
<1>3. CASE /\ EnterGate(r)
           /\ keys' = IF publishes THEN [keys EXCEPT ![h] = view[tx]] ELSE keys
           /\ born' = IF publishes THEN born \cup view[tx] ELSE born
           /\ Goto(r, "committed") /\ UNCHANGED <<operation, status>>
  <2>1. view[tx] \in SUBSET Guids BY DEF TypeOK
  <2>2. /\ keys' \in [Hives -> SUBSET Guids] /\ born' \in SUBSET Guids /\ born \subseteq born'
    <3> HIDE DEF publishes
    <3> QED BY <1>3, <2>1 DEF TypeOK
  <2>3. pc' \in [Requests -> Places] /\ \A q \in Requests \ {r} : pc'[q] = pc[q]
    BY <1>3 DEF TypeOK, Places, Goto
  <2>4. writer' \in [Hives -> Requests \cup {Nobody}] BY <1>3 DEF EnterGate, TypeOK
  <2> QED BY <1>1, <1>3, <2>2, <2>3, <2>4 DEF TypeOK, Frame
<1> QED BY <1>2, <1>3 DEF Commit

\* What running the hooks of t, and forgetting it, does to the other variables.
LEMMA HooksTyped ==
  ASSUME TypeOK, NEW t \in Txns, DropHooks(t)
  PROVE  /\ onCommit' \in [Txns -> SUBSET Guids] /\ onAbort' \in [Txns -> SUBSET Guids]
         /\ onCommit'[t] = {} /\ onAbort'[t] = {}
         /\ \A u \in Txns \ {t} : onCommit'[u] = onCommit[u] /\ onAbort'[u] = onAbort[u]
BY DEF TypeOK, DropHooks

LEMMA ForgetTyped ==
  ASSUME TypeOK, NEW t \in Txns, Forget(t)
  PROVE  /\ view' \in [Txns -> SUBSET Guids] /\ ended' = ended \cup {t}
         /\ view'[t] = {} /\ \A u \in Txns \ {t} : view'[u] = view[u]
         /\ UNCHANGED <<bound, failed>>
BY DEF TypeOK, Forget

LEMMA CommitHooksTyped ==
  ASSUME TypeOK, NEW r \in Requests, CommitHooks(r), Txn(r) \in Txns,
         steady' \in SUBSET Requests
  PROVE  TypeOK' /\ Frame(r)
<1>1. Answers(r, Statuses) BY AnswerTyped DEF CommitHooks, Statuses, Answers
<1>2. UNCHANGED <<keys, born, call, at, left, torn>> BY DEF CommitHooks, hiveVars
<1>3. cache' \in [Guids -> Hives \cup {NoHive}] BY DEF CommitHooks, TypeOK, Evict
<1>4. DropHooks(Txn(r)) /\ Forget(Txn(r)) BY DEF CommitHooks
<1> QED BY <1>1, <1>2, <1>3, <1>4, HooksTyped, ForgetTyped DEF TypeOK, Answers, Frame, Statuses

LEMMA AbortTyped ==
  ASSUME TypeOK, NEW r \in Requests, Abort(r), Txn(r) \in Txns, steady' \in SUBSET Requests
  PROVE  TypeOK' /\ Frame(r)
<1>1. UNCHANGED <<keys, born, cache, onCommit, onAbort, operation, status, call, at, left, torn>>
  BY DEF Abort, hiveVars, hookVars
<1>2. pc' \in [Requests -> Places] /\ \A q \in Requests \ {r} : pc'[q] = pc[q]
  BY DEF Abort, TypeOK, Places, Goto
<1>3. writer' \in [Hives -> Requests \cup {Nobody}] BY DEF Abort, EnterGate, TypeOK
<1>4. Forget(Txn(r)) BY DEF Abort
<1> QED BY <1>1, <1>2, <1>3, <1>4, ForgetTyped DEF TypeOK, Frame

LEMMA AbortHooksTyped ==
  ASSUME TypeOK, NEW r \in Requests, AbortHooks(r), Txn(r) \in Txns, steady' \in SUBSET Requests
  PROVE  TypeOK' /\ Frame(r)
<1>1. Answers(r, Statuses) BY AnswerTyped DEF AbortHooks, Statuses, Answers
<1>2. UNCHANGED <<keys, born, bound, view, failed, ended, call, at, left, torn>>
  BY DEF AbortHooks, hiveVars, txnVars
<1>3. cache' \in [Guids -> Hives \cup {NoHive}] BY DEF AbortHooks, TypeOK, Evict
<1>4. DropHooks(Txn(r)) BY DEF AbortHooks
<1> QED BY <1>1, <1>2, <1>3, <1>4, HooksTyped DEF TypeOK, Answers, Frame, Statuses

-----------------------------------------------------------------------------
LEMMA InitOrder == Init => Order
<1> SUFFICES ASSUME Init PROVE Order OBVIOUS
<1>1. TypeOK BY InitTyped
<1>2. AtHome BY GuidCacheAssumption DEF Init, AtHome
<1>3. \A r \in Requests : InOrder(r)
  BY DEF Init, InOrder, Called, Owns, Located, Pins, Live
<1> QED BY <1>1, <1>2, <1>3 DEF Init, Order

\* Where a request may step from.
LEMMA StepLive ==
  ASSUME NEW r \in Requests, Step(r)
  PROVE  Dispatch(r) \/ Live(r)
BY DEF Step, Load, Store, Exhausted, Fail, Probe, Read, WriteQ, Execute, DropFails,
       CacheCreated, CacheDropped, EvictOrphan, Commit, CommitHooks, Abort, AbortHooks, Live

LEMMA Resolved ==
  ASSUME Order, NEW r \in Requests, pc[r] \in {"storing", "routed", "writing", "executed"}
  PROVE  at[r] \in Hives /\ at[r] = Home[Guid(r)] /\ Guid(r) \in Guids
BY GuidCacheAssumption DEF Order, InOrder, Located, TypeOK, Call, Guid

LEMMA Controls ==
  ASSUME Order, NEW r \in Requests, pc[r] \in {"control", "committed", "aborted"}
  PROVE  Txn(r) \in Txns
BY DEF Order, InOrder, Called, TypeOK, Call, Txn

LEMMA StepTyped ==
  ASSUME Order, NEW r \in Requests, Step(r), steady' \in SUBSET Requests
  PROVE  TypeOK' /\ Frame(r)
<1>1. TypeOK /\ scenario \in Scenarios BY DEF Order
<1>2. CASE Read(r) BY <1>1, <1>2, Resolved, ReadTyped DEF Read
<1>3. CASE WriteQ(r) BY <1>1, <1>3, Resolved, WriteQTyped DEF WriteQ
<1>4. CASE Execute(r) BY <1>1, <1>4, Resolved, ExecuteTyped DEF Execute
<1>5. CASE CacheCreated(r) BY <1>1, <1>5, Resolved, CacheCreatedTyped DEF CacheCreated
<1>6. CASE Commit(r) BY <1>1, <1>6, Controls, CommitTyped DEF Commit
<1>7. CASE CommitHooks(r) BY <1>1, <1>7, Controls, CommitHooksTyped DEF CommitHooks
<1>8. CASE Abort(r) BY <1>1, <1>8, Controls, AbortTyped DEF Abort
<1>9. CASE AbortHooks(r) BY <1>1, <1>9, Controls, AbortHooksTyped DEF AbortHooks
<1> QED
  BY <1>1, <1>2, <1>3, <1>4, <1>5, <1>6, <1>7, <1>8, <1>9, DispatchTyped, LoadTyped, StoreTyped,
     ExhaustedTyped, FailTyped, ProbeTyped, DropFailsTyped, CacheDroppedTyped, EvictOrphanTyped
     DEF Step

\* What a live request other than the one that steps may rely on.
Untouched(q) ==
  /\ pc'[q] = pc[q] /\ call'[q] = call[q] /\ at'[q] = at[q]
  /\ left'[q] = left[q] /\ status'[q] = status[q]
  /\ Live(q) /\ Txn(q) # NoTxn =>
       /\ operation'[Txn(q)] = operation[Txn(q)]
       /\ bound'[Txn(q)] = bound[Txn(q)] /\ view'[Txn(q)] = view[Txn(q)]
       /\ onCommit'[Txn(q)] = onCommit[Txn(q)] /\ onAbort'[Txn(q)] = onAbort[Txn(q)]
       /\ (Txn(q) \in failed' <=> Txn(q) \in failed)
       /\ (Txn(q) \in ended' <=> Txn(q) \in ended)

LEMMA OthersUntouched ==
  ASSUME Order, NEW r \in Requests, Step(r), Frame(r), NEW q \in Requests \ {r}
  PROVE  Untouched(q)
<1>1. /\ pc'[q] = pc[q] /\ call'[q] = call[q] /\ at'[q] = at[q]
      /\ left'[q] = left[q] /\ status'[q] = status[q]
  BY DEF Frame
<1> SUFFICES ASSUME Live(q), Txn(q) # NoTxn
             PROVE  /\ operation'[Txn(q)] = operation[Txn(q)]
                    /\ bound'[Txn(q)] = bound[Txn(q)] /\ view'[Txn(q)] = view[Txn(q)]
                    /\ onCommit'[Txn(q)] = onCommit[Txn(q)] /\ onAbort'[Txn(q)] = onAbort[Txn(q)]
                    /\ (Txn(q) \in failed' <=> Txn(q) \in failed)
                    /\ (Txn(q) \in ended' <=> Txn(q) \in ended)
  BY <1>1 DEF Untouched
<1>2. Txn(q) \in Txns /\ operation[Txn(q)] = q /\ q # Nobody
  BY GuidCacheAssumption DEF Order, InOrder, Owns, TypeOK, Call, Txn
<1>3. operation'[Txn(q)] = operation[Txn(q)] BY <1>2 DEF Frame
<1>4. CASE Dispatch(r)
  BY <1>3, <1>4 DEF Dispatch, txnVars, hookVars
<1>5. CASE Live(r)
  <2>1. Txn(q) # Txn(r) BY <1>2, <1>5 DEF Order, InOrder, Owns
  <2> QED BY <1>2, <1>3, <2>1 DEF Frame
<1> QED BY <1>4, <1>5, StepLive

\* A request that no step touches stays in order.
LEMMA OthersInOrder ==
  ASSUME NEW q \in Requests, InOrder(q), Untouched(q)
  PROVE  InOrder(q)'
BY DEF InOrder, Called, Owns, Located, Pins, Live, Untouched, Guid, Txn

\* Evictions, and a poisoned transaction, leave what remains at home.
LEMMA LessAtHome ==
  ASSUME Order, NEW r \in Requests, Poisoned(r), keys' = keys,
         \A g \in Guids : cache'[g] \in {cache[g], NoHive}
  PROVE  AtHome'
<1>1. \A t \in Txns : view'[t] \subseteq view[t] /\ bound'[t] = bound[t]
  BY DEF Poisoned, Order, TypeOK
<1> QED BY <1>1 DEF Order, AtHome

LEMMA FailureAtHome ==
  ASSUME Order, NEW r \in Requests, NEW s \in Statuses, Unsuccessful(r, s),
         UNCHANGED <<keys, cache>>
  PROVE  AtHome'
BY UnsuccessfulTyped, LessAtHome DEF Order

LEMMA DispatchOrder ==
  ASSUME Order, NEW r \in Requests, Dispatch(r), TypeOK', Frame(r)
  PROVE  InOrder(r)' /\ AtHome'
<1>1. InOrder(r)'
  <2>1. PICK k \in scenario[r] :
          /\ call' = [call EXCEPT ![r] = k]
          /\ IF k.txn \in ended
               THEN Answer(r, IF k.op = "abort" THEN "OK" ELSE "StorageError")
               ELSE /\ k.txn # NoTxn => operation[k.txn] = Nobody
                    /\ operation' = [t \in Txns |-> IF t = k.txn THEN r ELSE operation[t]]
                    /\ Goto(r, CASE k.op \in {"commit", "abort"} -> "control"
                                 [] k.op = "deleteLayer" -> "evicting"
                                 [] OTHER -> "loading")
    BY DEF Dispatch
  <2>2. ended' = ended BY DEF Dispatch, txnVars
  <2>3. /\ k \in Call /\ Home[k.guid] = Home[k.new]
        /\ k.op \in {"commit", "abort"} => k.txn # NoTxn
        /\ call'[r] = k
    BY <2>1, GuidCacheAssumption DEF Order, TypeOK
  <2>4. CASE k.txn \in ended
    <3>1. pc'[r] = "answered" BY <2>1, <2>4 DEF Answer, Goto, Order, TypeOK
    <3> QED BY <3>1, <2>3 DEF InOrder, Called, Owns, Located, Pins, Live, Guid, Txn
  <2>5. CASE k.txn \notin ended
    <3>1. pc'[r] \in {"control", "evicting", "loading"}
          /\ (pc'[r] = "control" => k.op \in {"commit", "abort"})
      BY <2>1, <2>5 DEF Goto, Order, TypeOK
    <3>2. k.txn # NoTxn => operation'[k.txn] = r /\ k.txn \notin ended'
      BY <2>1, <2>2, <2>3, <2>5 DEF Call
    <3> QED BY <2>3, <3>1, <3>2 DEF InOrder, Called, Owns, Located, Pins, Guid, Txn
  <2> QED BY <2>4, <2>5
<1>2. AtHome'
  BY GuidCacheAssumption DEF Dispatch, Order, AtHome, Unsuccessful, Poison, Evict, hiveVars, txnVars, TypeOK
<1> QED BY <1>1, <1>2

LEMMA LoadOrder ==
  ASSUME Order, NEW r \in Requests, Load(r), TypeOK', Frame(r)
  PROVE  InOrder(r)' /\ AtHome'
<1>1. InOrder(r)'
  <2>1. /\ pc'[r] \in {"routed", "probing"} /\ pc[r] = "loading"
        /\ pc'[r] = "routed" => cache[Guid(r)] # NoHive
        /\ at'[r] = cache[Guid(r)]
        /\ UNCHANGED <<operation, ended, call>>
    BY DEF Load, Goto, Order, TypeOK, txnVars
  <2>2. Guid(r) \in Guids BY DEF Order, TypeOK, Call, Guid
  <2>3. pc'[r] = "routed" => at'[r] = Home[Guid(r)] BY <2>1, <2>2 DEF Order, AtHome
  <2> QED BY <2>1, <2>3 DEF Order, InOrder, Called, Owns, Located, Pins, Live, Guid, Txn
<1>2. AtHome'
  BY GuidCacheAssumption DEF Load, Order, AtHome, Unsuccessful, Poison, Evict, hiveVars, txnVars, TypeOK
<1> QED BY <1>1, <1>2

LEMMA StoreOrder ==
  ASSUME Order, NEW r \in Requests, Store(r), TypeOK', Frame(r)
  PROVE  InOrder(r)' /\ AtHome'
<1>1. InOrder(r)'
  <2>1. /\ pc[r] = "storing" /\ pc'[r] = "routed"
        /\ UNCHANGED <<operation, ended, call, at>>
    BY DEF Store, Goto, Order, TypeOK, txnVars
  <2> QED BY <2>1 DEF Order, InOrder, Called, Owns, Located, Pins, Live, Guid, Txn
<1>2. AtHome'
  <2>1. at[r] = Home[Guid(r)] BY Resolved DEF Store
  <2>2. \A g \in Guids : cache'[g] = IF g = Guid(r) THEN at[r] ELSE cache[g]
    BY DEF Store, Order, TypeOK
  <2>3. UNCHANGED <<keys, view, bound>> BY DEF Store, hiveVars, txnVars
  <2> QED BY <2>1, <2>2, <2>3 DEF Order, AtHome
<1> QED BY <1>1, <1>2

LEMMA ExhaustedOrder ==
  ASSUME Order, NEW r \in Requests, Exhausted(r), TypeOK', Frame(r)
  PROVE  InOrder(r)' /\ AtHome'
<1>1. InOrder(r)'
  BY GuidCacheAssumption DEF Exhausted, Order, InOrder, Called, Owns, Located, Pins, Live, Goto, Answer, Unsuccessful, Poison, Txn, Guid, txnVars, TypeOK
<1>2. AtHome'
  <2>1. UNCHANGED <<keys, cache>> BY DEF Exhausted, hiveVars
  <2>2. CASE Unsuccessful(r, "NotFound") BY <2>1, <2>2, FailureAtHome DEF Statuses
  <2>3. CASE UNCHANGED txnVars BY <2>1, <2>3 DEF Order, AtHome, txnVars
  <2> QED BY <2>2, <2>3 DEF Exhausted
<1> QED BY <1>1, <1>2

LEMMA FailOrder ==
  ASSUME Order, NEW r \in Requests, Fail(r), TypeOK', Frame(r)
  PROVE  InOrder(r)' /\ AtHome'
<1>1. InOrder(r)'
  BY GuidCacheAssumption DEF Fail, Order, InOrder, Called, Owns, Located, Pins, Live, Goto, Answer, Unsuccessful, Poison, Txn, Guid, txnVars, TypeOK
<1>2. AtHome'
  BY FailureAtHome DEF Fail, Statuses, hiveVars
<1> QED BY <1>1, <1>2

LEMMA ProbeOrder ==
  ASSUME Order, NEW r \in Requests, NEW h \in Hives, Probe(r, h), TypeOK', Frame(r)
  PROVE  InOrder(r)' /\ AtHome'
<1>1. InOrder(r)'
  <2>1. /\ pc[r] = "probing" /\ pc'[r] \in {"probing", "storing"}
        /\ UNCHANGED <<operation, ended, call, keys, view, bound>>
        /\ pc'[r] = "storing" => at'[r] = h /\ Guid(r) \in ViewOf(Txn(r), h)
    BY DEF Probe, ProbeView, Goto, Order, TypeOK, txnVars, hiveVars
  <2>2. Txn(r) \in Txns \cup {NoTxn} BY DEF Order, TypeOK, Call, Txn
  <2>3. Guid(r) \in ViewOf(Txn(r), h) => Home[Guid(r)] = h
    BY <2>2 DEF ViewOf, Pinned, Order, AtHome
  <2> QED BY <2>1, <2>3 DEF Order, InOrder, Called, Owns, Located, Pins, Live, Guid, Txn
<1>2. AtHome'
  BY GuidCacheAssumption DEF Probe, Order, AtHome, Unsuccessful, Poison, Evict, hiveVars, txnVars, TypeOK
<1> QED BY <1>1, <1>2

LEMMA ReadOrder ==
  ASSUME Order, NEW r \in Requests, Read(r), TypeOK', Frame(r)
  PROVE  InOrder(r)' /\ AtHome'
<1>1. InOrder(r)'
  BY GuidCacheAssumption DEF Read, Order, InOrder, Called, Owns, Located, Pins, Live, Goto, Answer, Unsuccessful, Poison, Txn, Guid, txnVars, TypeOK
<1>2. AtHome'
  <2> DEFINE tx == Txn(r)
             h == at[r]
             pins == tx \in ReadOnly /\ bound[tx] = NoHive
             sees == IF pins THEN keys[h] ELSE ViewOf(tx, h)
  <2>1. UNCHANGED <<keys, cache>> BY DEF Read, hiveVars
  <2>2. CASE Unsuccessful(r, "StorageError") BY <2>1, <2>2, FailureAtHome DEF Statuses
  <2>3. CASE Poison(r) BY <2>1, <2>3, FailureAtHome DEF Statuses, Unsuccessful
  <2>4. CASE /\ bound' = IF pins THEN [bound EXCEPT ![tx] = h] ELSE bound
             /\ view' = IF pins THEN [view EXCEPT ![tx] = sees] ELSE view
    <3>1. CASE ~pins BY <2>1, <2>4, <3>1 DEF Order, AtHome
    <3>2. CASE pins
      <4>1. h \in Hives BY Resolved DEF Read
      <4>2. /\ \A t \in Txns : view'[t] = IF t = tx THEN keys[h] ELSE view[t]
            /\ \A t \in Txns : bound'[t] = IF t = tx THEN h ELSE bound[t]
        BY <2>4, <3>2 DEF Order, TypeOK
      <4> QED BY <2>1, <4>1, <4>2 DEF Order, AtHome
    <3> QED BY <3>1, <3>2
  <2> QED BY <2>2, <2>3, <2>4 DEF Read
<1> QED BY <1>1, <1>2

LEMMA WriteQOrder ==
  ASSUME Order, NEW r \in Requests, WriteQ(r), TypeOK', Frame(r)
  PROVE  InOrder(r)' /\ AtHome'
<1>1. InOrder(r)'
  <2> DEFINE tx == Txn(r)
             h == at[r]
  <2>1. CASE Refusal(r) # "none"
    <3>1. pc'[r] = "answered" /\ pc[r] = "routed" /\ call' = call
      BY <2>1 DEF WriteQ, Unsuccessful, Poison, Answer, Goto, Order, TypeOK
    <3> QED BY <3>1 DEF Order, InOrder, Called, Owns, Located, Pins, Live, Guid, Txn
  <2>2. CASE Refusal(r) = "none"
    <3>1. /\ tx \notin ReadOnly /\ tx \notin failed
          /\ ~(Pinned(tx) /\ bound[tx] # h)
      BY <2>2 DEF Refusal
    <3>2. /\ pc[r] = "routed" /\ pc'[r] = "writing" /\ call[r].op \in {"create", "drop"}
          /\ UNCHANGED <<failed, ended, operation, call, at>>
          /\ IF tx = NoTxn \/ Pinned(tx)
               THEN UNCHANGED <<bound, view>>
               ELSE bound' = [bound EXCEPT ![tx] = h]
      BY <2>2 DEF WriteQ, Goto, Order, TypeOK
    <3>3. tx # NoTxn => tx \in Txns BY DEF Order, TypeOK, Call, Txn
    <3>4. tx # NoTxn => bound'[tx] = h BY <3>1, <3>2, <3>3 DEF Order, TypeOK
    <3> QED BY <3>1, <3>2, <3>4 DEF Order, InOrder, Called, Owns, Located, Pins, Live, Guid, Txn
  <2> QED BY <2>1, <2>2
<1>2. AtHome'
  <2> DEFINE tx == Txn(r)
             h == at[r]
  <2>1. UNCHANGED <<keys, cache>> BY DEF WriteQ, hiveVars
  <2>2. CASE Unsuccessful(r, Refusal(r)) BY <2>1, <2>2, FailureAtHome DEF Statuses, Refusal
  <2>3. CASE UNCHANGED <<bound, view>> BY <2>1, <2>3 DEF Order, AtHome
  <2>4. CASE bound' = [bound EXCEPT ![tx] = h] /\ view' = [view EXCEPT ![tx] = keys[h]]
    <3>1. h \in Hives BY Resolved DEF WriteQ
    <3>2. /\ \A t \in Txns : view'[t] = IF t = tx THEN keys[h] ELSE view[t]
          /\ \A t \in Txns : bound'[t] = IF t = tx THEN h ELSE bound[t]
      BY <2>4 DEF Order, TypeOK
    <3> QED BY <2>1, <3>1, <3>2 DEF Order, AtHome
  <2> QED BY <2>2, <2>3, <2>4 DEF WriteQ
<1> QED BY <1>1, <1>2

LEMMA ExecuteOrder ==
  ASSUME Order, NEW r \in Requests, Execute(r), TypeOK', Frame(r)
  PROVE  InOrder(r)' /\ AtHome'
<1>1. InOrder(r)'
  BY GuidCacheAssumption DEF Execute, Order, InOrder, Called, Owns, Located, Pins, Live, Goto, Answer, Unsuccessful, Poison, Txn, Guid, txnVars, TypeOK
<1>2. AtHome'
  <2> DEFINE tx == Txn(r)
             h == at[r]
             created == IF call[r].op = "create" THEN {call[r].new} ELSE {}
             dropped == IF call[r].op = "drop" THEN {Guid(r)} ELSE {}
             after == (ViewOf(tx, h) \ dropped) \cup created
  <2>1. cache' = cache BY DEF Execute
  <2>2. CASE Unsuccessful(r, "AlreadyExists") /\ UNCHANGED hiveVars
    BY <2>1, <2>2, FailureAtHome DEF Statuses, hiveVars
  <2>3. CASE /\ keys' = IF tx = NoTxn THEN [keys EXCEPT ![h] = after] ELSE keys
             /\ view' = IF tx = NoTxn THEN view ELSE [view EXCEPT ![tx] = after]
             /\ UNCHANGED bound
    <3>1. pc[r] = "writing" BY DEF Execute
    <3>2. h \in Hives /\ h = Home[Guid(r)] /\ h = Home[call[r].new]
      BY <3>1, Resolved DEF Order, InOrder, Called
    <3>3. tx # NoTxn => tx \in Txns /\ bound[tx] = h
      BY <3>1 DEF Order, TypeOK, Call, Txn, InOrder, Pins
    <3>4. \A g \in ViewOf(tx, h) : Home[g] = h
      BY <3>2 DEF ViewOf, Pinned, Order, AtHome, TypeOK, Call, Txn
    <3>5. \A g \in after : Home[g] = h BY <3>2, <3>4
    <3> HIDE DEF after
    <3>6. /\ \A i \in Hives : keys'[i] = IF tx = NoTxn /\ i = h THEN after ELSE keys[i]
          /\ \A t \in Txns : view'[t] = IF tx # NoTxn /\ t = tx THEN after ELSE view[t]
      BY <2>3 DEF Order, TypeOK
    <3> QED BY <2>1, <2>3, <3>3, <3>5, <3>6 DEF Order, AtHome
  <2> QED BY <2>2, <2>3 DEF Execute
<1> QED BY <1>1, <1>2

LEMMA DropFailsOrder ==
  ASSUME Order, NEW r \in Requests, DropFails(r), TypeOK', Frame(r)
  PROVE  InOrder(r)' /\ AtHome'
<1>1. InOrder(r)'
  BY GuidCacheAssumption DEF DropFails, Order, InOrder, Called, Owns, Located, Pins, Live, Goto, Answer, Unsuccessful, Poison, Txn, Guid, txnVars, TypeOK
<1>2. AtHome'
  BY GuidCacheAssumption DEF DropFails, Order, AtHome, Unsuccessful, Poison, Evict, hiveVars, txnVars, TypeOK
<1> QED BY <1>1, <1>2

LEMMA CacheCreatedOrder ==
  ASSUME Order, NEW r \in Requests, CacheCreated(r), TypeOK', Frame(r)
  PROVE  InOrder(r)' /\ AtHome'
<1>1. InOrder(r)'
  <2>1. pc[r] = "executed" /\ pc'[r] = "answered" /\ call' = call
    BY DEF CacheCreated, Answer, Goto, Order, TypeOK
  <2> QED BY <2>1 DEF Order, InOrder, Called, Owns, Located, Pins, Live, Guid, Txn
<1>2. AtHome'
  <2>1. at[r] = Home[call[r].new]
    BY Resolved DEF CacheCreated, Order, InOrder, Called
  <2>2. \A g \in Guids : cache'[g] = IF g = call[r].new THEN at[r] ELSE cache[g]
    BY DEF CacheCreated, Order, TypeOK
  <2>3. UNCHANGED <<keys, view, bound>> BY DEF CacheCreated, hiveVars, txnVars
  <2> QED BY <2>1, <2>2, <2>3 DEF Order, AtHome
<1> QED BY <1>1, <1>2

LEMMA CacheDroppedOrder ==
  ASSUME Order, NEW r \in Requests, CacheDropped(r), TypeOK', Frame(r)
  PROVE  InOrder(r)' /\ AtHome'
<1>1. InOrder(r)'
  BY GuidCacheAssumption DEF CacheDropped, Order, InOrder, Called, Owns, Located, Pins, Live, Goto, Answer, Unsuccessful, Poison, Txn, Guid, txnVars, TypeOK
<1>2. AtHome'
  BY GuidCacheAssumption DEF CacheDropped, Order, AtHome, Unsuccessful, Poison, Evict, hiveVars, txnVars, TypeOK
<1> QED BY <1>1, <1>2

LEMMA EvictOrphanOrder ==
  ASSUME Order, NEW r \in Requests, EvictOrphan(r), TypeOK', Frame(r)
  PROVE  InOrder(r)' /\ AtHome'
<1>1. InOrder(r)'
  BY GuidCacheAssumption DEF EvictOrphan, Order, InOrder, Called, Owns, Located, Pins, Live, Goto, Answer, Unsuccessful, Poison, Txn, Guid, txnVars, TypeOK
<1>2. AtHome'
  BY GuidCacheAssumption DEF EvictOrphan, Order, AtHome, Unsuccessful, Poison, Evict, hiveVars, txnVars, TypeOK
<1> QED BY <1>1, <1>2

LEMMA CommitOrder ==
  ASSUME Order, NEW r \in Requests, Commit(r), TypeOK', Frame(r)
  PROVE  InOrder(r)' /\ AtHome'
<1>1. InOrder(r)'
  BY GuidCacheAssumption DEF Commit, Order, InOrder, Called, Owns, Located, Pins, Live, Goto, Answer, Unsuccessful, Poison, Txn, Guid, txnVars, TypeOK
<1>2. AtHome'
  <2> DEFINE tx == Txn(r)
             h == bound[tx]
             publishes == Pinned(tx) /\ tx \notin ReadOnly
  <2>1. UNCHANGED <<cache, bound, view>> BY DEF Commit, txnVars
  <2>2. CASE keys' = keys BY <2>1, <2>2 DEF Order, AtHome
  <2>3. CASE keys' = [keys EXCEPT ![h] = view[tx]]
    <3>1. tx \in Txns BY Controls DEF Commit
    <3>2. \A i \in Hives : keys'[i] = IF i = h THEN view[tx] ELSE keys[i]
      BY <2>3 DEF Order, TypeOK
    <3> QED BY <2>1, <3>1, <3>2 DEF Order, AtHome
  <2> QED BY <2>2, <2>3 DEF Commit, hiveVars
<1> QED BY <1>1, <1>2

LEMMA CommitHooksOrder ==
  ASSUME Order, NEW r \in Requests, CommitHooks(r), TypeOK', Frame(r)
  PROVE  InOrder(r)' /\ AtHome'
<1>1. InOrder(r)'
  BY GuidCacheAssumption DEF CommitHooks, Order, InOrder, Called, Owns, Located, Pins, Live, Goto, Answer, Unsuccessful, Poison, Txn, Guid, txnVars, TypeOK
<1>2. AtHome'
  <2>1. Txn(r) \in Txns BY Controls DEF CommitHooks
  <2>2. /\ keys' = keys /\ Forget(Txn(r))
        /\ \A g \in Guids : cache'[g] \in {cache[g], NoHive}
    BY DEF CommitHooks, hiveVars, Evict
  <2> QED BY <2>1, <2>2, ForgetTyped DEF Order, AtHome
<1> QED BY <1>1, <1>2

LEMMA AbortOrder ==
  ASSUME Order, NEW r \in Requests, Abort(r), TypeOK', Frame(r)
  PROVE  InOrder(r)' /\ AtHome'
<1>1. InOrder(r)'
  BY GuidCacheAssumption DEF Abort, Order, InOrder, Called, Owns, Located, Pins, Live, Goto, Answer, Unsuccessful, Poison, Txn, Guid, txnVars, TypeOK
<1>2. AtHome'
  <2>1. Txn(r) \in Txns BY Controls DEF Abort
  <2>2. UNCHANGED <<keys, cache>> /\ Forget(Txn(r)) BY DEF Abort, hiveVars
  <2> QED BY <2>1, <2>2, ForgetTyped DEF Order, AtHome
<1> QED BY <1>1, <1>2

LEMMA AbortHooksOrder ==
  ASSUME Order, NEW r \in Requests, AbortHooks(r), TypeOK', Frame(r)
  PROVE  InOrder(r)' /\ AtHome'
<1>1. InOrder(r)'
  BY GuidCacheAssumption DEF AbortHooks, Order, InOrder, Called, Owns, Located, Pins, Live, Goto, Answer, Unsuccessful, Poison, Txn, Guid, txnVars, TypeOK
<1>2. AtHome'
  BY GuidCacheAssumption DEF AbortHooks, Order, AtHome, Unsuccessful, Poison, Evict, hiveVars, txnVars, TypeOK
<1> QED BY <1>1, <1>2

\* A step of any request keeps every request in order.
LEMMA StepOrder ==
  ASSUME Order, NEW r \in Requests, Step(r), steady' \in SUBSET Requests,
         UNCHANGED scenario
  PROVE  Order' /\ Frame(r)
<1>1. TypeOK' /\ Frame(r) BY StepTyped
<1>2. \A q \in Requests \ {r} : InOrder(q)'
  BY <1>1, OthersUntouched, OthersInOrder DEF Order
<1>3. InOrder(r)' /\ AtHome'
  BY <1>1, DispatchOrder, LoadOrder, StoreOrder, ExhaustedOrder, FailOrder, ProbeOrder,
     ReadOrder, WriteQOrder, ExecuteOrder, DropFailsOrder, CacheCreatedOrder,
     CacheDroppedOrder, EvictOrphanOrder, CommitOrder, CommitHooksOrder, AbortOrder,
     AbortHooksOrder DEF Step
<1>4. \A q \in Requests : InOrder(q)' BY <1>2, <1>3
<1> QED BY <1>1, <1>3, <1>4 DEF Order

-----------------------------------------------------------------------------
LEMMA InitOwed == Init => Owed
<1> SUFFICES ASSUME Init PROVE Owed OBVIOUS
<1>1. KeysBorn BY DEF Init, KeysBorn
<1>2. NoGhost
  <2> SUFFICES ASSUME NEW g \in Guids, cache[g] # NoHive PROVE g \in born
    BY DEF NoGhost
  <2>1. g = RootGUID[Home[g]] /\ Home[g] \in Hives BY GuidCacheAssumption DEF Init
  <2> QED BY <2>1 DEF Init
<1>3. \A t \in Txns : TxnOwed(t) BY DEF Init, TxnOwed
<1>4. \A r \in Requests : StepOwed(r) BY DEF Init, StepOwed
<1> QED BY <1>1, <1>2, <1>3, <1>4 DEF Owed

\* What a live request holds of a transaction, no other request has pending.
LEMMA OnlyMine ==
  ASSUME Order, NEW r \in Requests, Live(r), NEW t \in Txns, t = Txn(r), NEW g
  PROVE  /\ Creating(t, g) => pc[r] = "executed" /\ call[r].op = "create" /\ call[r].new = g
         /\ Dropping(t, g) => pc[r] = "executed" /\ call[r].op = "drop" /\ Guid(r) = g
<1>1. ASSUME NEW q \in Requests, pc[q] = "executed", Txn(q) = t PROVE q = r
  BY <1>1, GuidCacheAssumption DEF Order, InOrder, Owns, Live
<1> QED BY <1>1 DEF Creating, Dropping

\* A transaction the request that steps does not use stays as owed.
LEMMA OtherTxnOwed ==
  ASSUME Order, Owed, NEW r \in Requests, Step(r), Frame(r), NEW t \in Txns,
         t # Txn(r) \/ Dispatch(r)
  PROVE  TxnOwed(t)'
<1>1. ASSUME NEW g, Creating(t, g) PROVE Creating(t, g)'
  <2>1. PICK q \in Requests :
          pc[q] = "executed" /\ call[q].op = "create" /\ Txn(q) = t /\ call[q].new = g
    BY <1>1 DEF Creating
  <2>2. q # r BY <2>1 DEF Dispatch
  <2>3. pc'[q] = pc[q] /\ call'[q] = call[q] BY <2>2 DEF Frame
  <2> QED BY <2>1, <2>3 DEF Creating, Txn
<1>2. ASSUME NEW g, Dropping(t, g) PROVE Dropping(t, g)'
  <2>1. PICK q \in Requests :
          pc[q] = "executed" /\ call[q].op = "drop" /\ Txn(q) = t /\ Guid(q) = g
    BY <1>2 DEF Dropping
  <2>2. q # r BY <2>1 DEF Dispatch
  <2>3. pc'[q] = pc[q] /\ call'[q] = call[q] BY <2>2 DEF Frame
  <2> QED BY <2>1, <2>3 DEF Dropping, Txn, Guid
<1>3. /\ bound'[t] = bound[t] /\ view'[t] = view[t]
      /\ onCommit'[t] = onCommit[t] /\ onAbort'[t] = onAbort[t]
      /\ (t \in failed' <=> t \in failed) /\ (t \in ended' <=> t \in ended)
      /\ born \subseteq born' /\ torn \subseteq torn'
  BY DEF Frame, Dispatch, txnVars, hookVars
<1> QED BY <1>1, <1>2, <1>3 DEF Owed, TxnOwed

LEMMA OtherStepOwed ==
  ASSUME Order, Owed, NEW r \in Requests, Step(r), Frame(r), NEW q \in Requests \ {r}
  PROVE  StepOwed(q)'
<1>1. Untouched(q) BY OthersUntouched
<1>2. born \subseteq born' /\ torn \subseteq torn' BY DEF Frame
<1>3. pc[q] \in {"executed", "committed", "storing"} => Live(q) BY DEF Live
<1>4. pc[q] \in {"committed", "aborted"} => Live(q) /\ Txn(q) # NoTxn
  BY DEF Order, InOrder, Called, Live
<1> QED BY <1>1, <1>2, <1>3, <1>4 DEF Owed, StepOwed, Untouched, Txn, Guid

\* What a step of r has to show.
StillOwed(r) ==
  /\ KeysBorn' /\ NoGhost' /\ StepOwed(r)'
  /\ \A t \in Txns : t = Txn(r) => TxnOwed(t)'

\* Growing hooks and a shrinking cache owe no less.
LEMMA LessCached ==
  ASSUME Order, Owed, NEW r \in Requests, Frame(r),
         \A g \in Guids : cache'[g] \in {cache[g], NoHive},
         \A t \in Txns : onAbort[t] \subseteq onAbort'[t]
  PROVE  NoGhost'
<1>1. born \subseteq born' /\ torn \subseteq torn' BY DEF Frame
<1> QED BY <1>1 DEF Owed, NoGhost

\* A step that neither executes, commits nor finds a key.
LEMMA QuietOwed ==
  ASSUME Order, Owed, NEW r \in Requests, Frame(r), Live(r), Poisoned(r),
         UNCHANGED <<keys, onCommit, onAbort, call>>,
         \A g \in Guids : cache'[g] \in {cache[g], NoHive},
         pc[r] # "executed" \/ (call[r].op = "drop" /\ Txn(r) \in Txns /\ Guid(r) \in torn'),
         pc'[r] \notin {"executed", "committed", "storing", "aborted"}
  PROVE  StillOwed(r)
<1>1. KeysBorn' BY DEF Frame, Owed, KeysBorn
<1>2. NoGhost' BY LessCached
<1>3. StepOwed(r)' BY DEF StepOwed
<1>4. ASSUME NEW t \in Txns, t = Txn(r) PROVE TxnOwed(t)'
  <2>1. \A g : ~Creating(t, g) BY <1>4, OnlyMine
  <2>2. \A g : Dropping(t, g) => g \in torn' BY <1>4, OnlyMine
  <2>3. TxnOwed(t) BY DEF Owed
  <2>4. /\ view'[t] = view[t] \/ (view'[t] = {} /\ t \in failed')
        /\ failed \subseteq failed' /\ ended' = ended /\ bound' = bound
        /\ born \subseteq born' /\ torn \subseteq torn'
    BY DEF Poisoned, Frame
  <2> QED BY <2>1, <2>2, <2>3, <2>4 DEF TxnOwed
<1> QED BY <1>1, <1>2, <1>3, <1>4 DEF StillOwed

LEMMA FailureOwed ==
  ASSUME Order, Owed, NEW r \in Requests, NEW s \in Statuses, Unsuccessful(r, s), Frame(r),
         Live(r), UNCHANGED <<keys, cache, onCommit, onAbort, call>>,
         pc[r] # "executed" \/ (call[r].op = "drop" /\ Txn(r) \in Txns /\ Guid(r) \in torn')
  PROVE  StillOwed(r)
<1>1. Poisoned(r) /\ pc'[r] = "answered" BY UnsuccessfulTyped DEF Order, Answers
<1> QED BY <1>1, QuietOwed

LEMMA DispatchOwed ==
  ASSUME Order, Owed, NEW r \in Requests, Dispatch(r), Frame(r)
  PROVE  StillOwed(r)
<1>1. KeysBorn' BY DEF Frame, Owed, KeysBorn, Dispatch, hiveVars
<1>2. NoGhost' BY LessCached DEF Dispatch, hookVars
<1>3. StepOwed(r)'
  <2>1. pc'[r] \in {"answered", "control", "evicting", "loading"}
    BY DEF Dispatch, Answer, Goto, Order, TypeOK
  <2> QED BY <2>1 DEF StepOwed
<1>4. \A t \in Txns : TxnOwed(t)' BY OtherTxnOwed DEF Step
<1> QED BY <1>1, <1>2, <1>3, <1>4 DEF StillOwed

LEMMA LoadOwed ==
  ASSUME Order, Owed, NEW r \in Requests, Load(r), Frame(r)
  PROVE  StillOwed(r)
<1>1. pc[r] = "loading" /\ pc'[r] \in {"routed", "probing"}
  BY DEF Load, Goto, Order, TypeOK
<1>2. UNCHANGED <<keys, cache, onCommit, onAbort, call, bound, view, failed, ended>>
  BY DEF Load, hiveVars, txnVars, hookVars
<1> QED BY <1>1, <1>2, NotPoisoned, QuietOwed DEF Order, Live

LEMMA ExhaustedOwed ==
  ASSUME Order, Owed, NEW r \in Requests, Exhausted(r), Frame(r)
  PROVE  StillOwed(r)
<1>1. UNCHANGED <<keys, cache, onCommit, onAbort, call>> /\ pc[r] = "probing" /\ Live(r)
  BY DEF Exhausted, hiveVars, hookVars, Live
<1>2. CASE Unsuccessful(r, "NotFound") BY <1>1, <1>2, FailureOwed DEF Statuses
<1>3. CASE UNCHANGED txnVars /\ (Goto(r, "routed") \/ Answer(r, "OK"))
  <2>1. pc'[r] \in {"routed", "answered"} BY <1>3 DEF Goto, Answer, Order, TypeOK
  <2>2. Poisoned(r) BY <1>3, NotPoisoned DEF Order, txnVars
  <2> QED BY <1>1, <2>1, <2>2, QuietOwed
<1> QED BY <1>2, <1>3 DEF Exhausted

LEMMA FailOwed ==
  ASSUME Order, Owed, NEW r \in Requests, Fail(r), Frame(r)
  PROVE  StillOwed(r)
BY FailureOwed DEF Fail, hiveVars, hookVars, Live, Statuses

\* What a probe finds, in the transaction's view or in the committed tables,
\* is accounted for: the transaction is this request's until it is answered.
LEMMA ProbeOwed ==
  ASSUME Order, Owed, NEW r \in Requests, NEW h \in Hives, Probe(r, h), Frame(r)
  PROVE  StillOwed(r)
<1>1. UNCHANGED <<keys, born, torn, cache, onCommit, onAbort, call, bound, view, failed, ended>>
      /\ pc[r] = "probing" /\ Live(r)
  BY DEF Probe, hiveVars, txnVars, hookVars, Live
<1>2. KeysBorn' BY <1>1 DEF Owed, KeysBorn
<1>3. NoGhost' BY <1>1 DEF Owed, NoGhost
<1>4. /\ pc'[r] \in {"probing", "storing"}
      /\ pc'[r] = "storing" => Guid(r) \in ViewOf(Txn(r), h)
  BY DEF Probe, ProbeView, Goto, Order, TypeOK
<1>5. StepOwed(r)'
  <2>1. ASSUME Guid(r) \in ViewOf(Txn(r), h)
        PROVE  \/ Guid(r) \in born \cup torn
               \/ Txn(r) # NoTxn /\ Guid(r) \in onAbort[Txn(r)]
    <3>1. CASE Guid(r) \in keys[h] BY <3>1 DEF Owed, KeysBorn
    <3>2. CASE Txn(r) # NoTxn /\ Guid(r) \in view[Txn(r)]
      <4>1. Txn(r) \in Txns BY <3>2 DEF Order, TypeOK, Call, Txn
      <4>2. ~Creating(Txn(r), Guid(r)) BY <1>1, <4>1, OnlyMine
      <4> QED BY <3>2, <4>1, <4>2 DEF Owed, TxnOwed
    <3> QED BY <2>1, <3>1, <3>2 DEF ViewOf, Pinned
  <2> QED BY <1>1, <1>4, <2>1 DEF StepOwed, Guid, Txn
<1>6. ASSUME NEW t \in Txns, t = Txn(r) PROVE TxnOwed(t)'
  <2>1. \A g : ~Creating(t, g) /\ ~Dropping(t, g) BY <1>1, <1>6, OnlyMine
  <2>2. TxnOwed(t) BY DEF Owed
  <2> QED BY <1>1, <2>1, <2>2 DEF TxnOwed
<1> QED BY <1>2, <1>3, <1>5, <1>6 DEF StillOwed

\* The late store caches what was accounted for when it was found, and is still.
LEMMA StoreOwed ==
  ASSUME Order, Owed, NEW r \in Requests, Store(r), Frame(r)
  PROVE  StillOwed(r)
<1>1. UNCHANGED <<keys, born, torn, onCommit, onAbort, call, bound, view, failed, ended>>
      /\ pc[r] = "storing" /\ Live(r) /\ pc'[r] = "routed"
  BY DEF Store, hiveVars, txnVars, hookVars, Live, Goto, Order, TypeOK
<1>2. KeysBorn' BY <1>1 DEF Owed, KeysBorn
<1>3. NoGhost'
  <2>1. \A g \in Guids : g # Guid(r) => cache'[g] = cache[g] BY DEF Store, Order, TypeOK
  <2>2. StepOwed(r) BY DEF Owed
  <2>3. Txn(r) # NoTxn => Txn(r) \in Txns BY DEF Order, TypeOK, Call, Txn
  <2>4. Guid(r) \in born \cup torn \/ \E t \in Txns : Guid(r) \in onAbort[t]
    BY <1>1, <2>2, <2>3 DEF StepOwed
  <2> QED BY <1>1, <2>1, <2>4 DEF Owed, NoGhost
<1>4. StepOwed(r)' BY <1>1 DEF StepOwed
<1>5. ASSUME NEW t \in Txns, t = Txn(r) PROVE TxnOwed(t)'
  <2>1. \A g : ~Creating(t, g) /\ ~Dropping(t, g) BY <1>1, <1>5, OnlyMine
  <2>2. TxnOwed(t) BY DEF Owed
  <2> QED BY <1>1, <2>1, <2>2 DEF TxnOwed
<1> QED BY <1>2, <1>3, <1>4, <1>5 DEF StillOwed

\* A transaction that is pinned by this request has no hooks yet.
LEMMA PinOwed ==
  ASSUME Order, Owed, NEW r \in Requests, Frame(r), Live(r), NEW h \in Hives,
         UNCHANGED <<keys, cache, onCommit, onAbort, call, failed, ended>>,
         NEW t \in Txns, t = Txn(r), bound[t] = NoHive,
         view'[t] = keys[h],
         pc[r] = "routed", pc'[r] \in {"answered", "writing"}
  PROVE  StillOwed(r)
<1>1. KeysBorn' BY DEF Frame, Owed, KeysBorn
<1>2. NoGhost' BY LessCached
<1>3. StepOwed(r)' BY DEF StepOwed
<1>4. TxnOwed(t)'
  <2>1. onAbort'[t] = {} BY DEF Owed, TxnOwed, Order, TypeOK
  <2>2. view'[t] \subseteq born' BY DEF Owed, KeysBorn, Frame
  <2> QED BY <2>1, <2>2 DEF TxnOwed
<1> QED BY <1>1, <1>2, <1>3, <1>4 DEF StillOwed

LEMMA ReadOwed ==
  ASSUME Order, Owed, NEW r \in Requests, Read(r), Frame(r)
  PROVE  StillOwed(r)
<1> DEFINE tx == Txn(r)
           h == at[r]
           pins == tx \in ReadOnly /\ bound[tx] = NoHive
           sees == IF pins THEN keys[h] ELSE ViewOf(tx, h)
<1>1. UNCHANGED <<keys, cache, onCommit, onAbort, call>> /\ pc[r] = "routed" /\ Live(r)
  BY DEF Read, hiveVars, hookVars, Live
<1>2. CASE Unsuccessful(r, "StorageError") BY <1>1, <1>2, FailureOwed DEF Statuses
<1>3. CASE Poison(r) BY <1>1, <1>3, FailureOwed DEF Statuses, Unsuccessful
<1>4. CASE /\ bound' = IF pins THEN [bound EXCEPT ![tx] = h] ELSE bound
           /\ view' = IF pins THEN [view EXCEPT ![tx] = sees] ELSE view
           /\ Answer(r, IF Guid(r) \in sees THEN "OK" ELSE "NotFound")
           /\ UNCHANGED <<failed, ended>>
  <2>1. pc'[r] = "answered" BY <1>4 DEF Answer, Goto, Order, TypeOK
  <2>2. CASE ~pins
    <3>1. UNCHANGED <<bound, view, failed, ended>> BY <1>4, <2>2
    <3>2. Poisoned(r) BY <3>1, NotPoisoned DEF Order
    <3> QED BY <1>1, <2>1, <3>2, QuietOwed
  <2>3. CASE pins
    <3>1. tx \in Txns /\ h \in Hives BY <1>1, <2>3, GuidCacheAssumption, Resolved
    <3>2. view'[tx] = keys[h] BY <1>4, <2>3, <3>1 DEF Order, TypeOK
    <3> QED BY <1>1, <1>4, <2>1, <2>3, <3>1, <3>2, PinOwed
  <2> QED BY <2>2, <2>3
<1> QED BY <1>2, <1>3, <1>4 DEF Read

LEMMA WriteQOwed ==
  ASSUME Order, Owed, NEW r \in Requests, WriteQ(r), Frame(r)
  PROVE  StillOwed(r)
<1> DEFINE tx == Txn(r)
           h == at[r]
<1>1. UNCHANGED <<keys, cache, onCommit, onAbort, call>> /\ pc[r] = "routed" /\ Live(r)
  BY DEF WriteQ, hiveVars, hookVars, Live
<1>2. CASE Refusal(r) # "none"
  <2>1. Unsuccessful(r, Refusal(r)) /\ Refusal(r) \in Statuses
    BY <1>2 DEF WriteQ, Refusal, Statuses
  <2> QED BY <1>1, <2>1, FailureOwed
<1>3. CASE Refusal(r) = "none"
  <2>1. /\ Goto(r, "writing") /\ UNCHANGED <<failed, ended>> /\ tx \notin failed
        /\ IF tx = NoTxn \/ Pinned(tx)
             THEN UNCHANGED <<bound, view>>
             ELSE view' = [view EXCEPT ![tx] = keys[h]]
    BY <1>3 DEF WriteQ, Refusal
  <2>2. pc'[r] = "writing" BY <2>1 DEF Goto, Order, TypeOK
  <2>3. CASE UNCHANGED <<bound, view>>
    <3>1. Poisoned(r) BY <2>1, <2>3, NotPoisoned DEF Order
    <3> QED BY <1>1, <2>2, <3>1, QuietOwed
  <2>4. CASE tx # NoTxn /\ ~Pinned(tx)
    <3>1. tx \in Txns /\ tx \notin ended
      BY <1>1, <2>4 DEF Order, TypeOK, Call, Txn, InOrder, Owns
    <3>2. bound[tx] = NoHive BY <2>1, <2>4, <3>1 DEF Pinned
    <3>3. h \in Hives BY <1>1, Resolved
    <3>4. view'[tx] = keys[h] BY <2>1, <2>4, <3>1 DEF Order, TypeOK
    <3> QED BY <1>1, <2>1, <2>2, <3>1, <3>2, <3>3, <3>4, PinOwed
  <2> QED BY <2>1, <2>3, <2>4
<1> QED BY <1>2, <1>3

LEMMA ExecuteOwed ==
  ASSUME Order, Owed, NEW r \in Requests, Execute(r), Frame(r)
  PROVE  StillOwed(r)
<1> DEFINE tx == Txn(r)
           h == at[r]
           created == IF call[r].op = "create" THEN {call[r].new} ELSE {}
           dropped == IF call[r].op = "drop" THEN {Guid(r)} ELSE {}
           after == (ViewOf(tx, h) \ dropped) \cup created
<1>1. UNCHANGED <<cache, onCommit, onAbort, call>> /\ pc[r] = "writing" /\ Live(r)
  BY DEF Execute, hookVars, Live
<1>2. h \in Hives BY <1>1, Resolved
<1>3. CASE Unsuccessful(r, "AlreadyExists") /\ UNCHANGED hiveVars
  BY <1>1, <1>3, FailureOwed DEF Statuses, hiveVars
<1>4. CASE /\ Goto(r, "executed")
           /\ keys' = IF tx = NoTxn THEN [keys EXCEPT ![h] = after] ELSE keys
           /\ born' = IF tx = NoTxn THEN born \cup created ELSE born
           /\ view' = IF tx = NoTxn THEN view ELSE [view EXCEPT ![tx] = after]
           /\ UNCHANGED <<bound, failed, ended>>
  <2>1. pc'[r] = "executed" BY <1>4 DEF Goto, Order, TypeOK
  <2>2. NoGhost' BY <1>1, LessCached
  <2>3. CASE tx = NoTxn
    <3>1. tx \notin Txns BY <2>3, GuidCacheAssumption
    <3>2. after \subseteq keys[h] \cup created BY <2>3 DEF ViewOf, Pinned
    <3>3. \A i \in Hives : keys'[i] = IF i = h THEN after ELSE keys[i]
      BY <1>4, <2>3 DEF Order, TypeOK
    <3>4. KeysBorn' BY <1>4, <2>3, <3>2, <3>3 DEF Owed, KeysBorn
    <3>5. StepOwed(r)' BY <1>1, <1>4, <2>1, <2>3 DEF StepOwed, Txn
    <3> QED BY <2>2, <3>1, <3>4, <3>5 DEF StillOwed
  <2>4. CASE tx # NoTxn
    <3>1. tx \in Txns BY <2>4 DEF Order, TypeOK, Call, Txn
    <3>2. tx \notin failed \cup ended \cup ReadOnly /\ bound[tx] = h /\ h # NoHive
      BY <1>1, <1>2, <2>4, GuidCacheAssumption DEF Order, InOrder, Owns, Pins
    <3>3. ViewOf(tx, h) = view[tx] BY <2>4, <3>2 DEF ViewOf, Pinned
    <3>4. view'[tx] = (view[tx] \ dropped) \cup created
      BY <1>4, <2>4, <3>1, <3>3 DEF Order, TypeOK
    <3>5. KeysBorn' BY <1>4, <2>4 DEF Owed, KeysBorn
    <3>6. StepOwed(r)' BY <1>1, <2>1, <2>4, <3>4 DEF StepOwed, Txn
    <3>7. ASSUME NEW t \in Txns, t = tx PROVE TxnOwed(t)'
      <4>1. /\ \A g \in created : Creating(t, g)'
            /\ \A g \in dropped : Dropping(t, g)'
        BY <1>1, <2>1, <3>7 DEF Creating, Dropping, Txn, Guid
      <4>2. \A g : ~Creating(t, g) /\ ~Dropping(t, g) BY <1>1, <3>7, OnlyMine
      <4>3. TxnOwed(t) BY DEF Owed
      <4>4. UNCHANGED <<born, torn>> BY <1>4, <2>4 DEF Execute
      <4>5. view'[t] = (view[t] \ dropped) \cup created BY <3>4, <3>7
      <4>6. t \notin ReadOnly /\ bound[t] # NoHive BY <3>2, <3>7
      <4> HIDE DEF created, dropped
      <4> QED BY <1>1, <1>4, <4>1, <4>2, <4>3, <4>4, <4>5, <4>6 DEF TxnOwed
    <3> QED BY <2>2, <3>5, <3>6, <3>7 DEF StillOwed
  <2> QED BY <2>3, <2>4
<1> QED BY <1>3, <1>4 DEF Execute

LEMMA DropFailsOwed ==
  ASSUME Order, Owed, NEW r \in Requests, DropFails(r), Frame(r)
  PROVE  StillOwed(r)
<1>1. /\ UNCHANGED <<keys, cache, onCommit, onAbort, call>> /\ pc[r] = "executed" /\ Live(r)
      /\ call[r].op = "drop" /\ Txn(r) # NoTxn /\ Guid(r) \in torn'
      /\ Unsuccessful(r, "StorageError")
  BY DEF DropFails, hiveVars, hookVars, Live
<1>2. Txn(r) \in Txns BY <1>1 DEF Order, TypeOK, Call, Txn
<1> QED BY <1>1, <1>2, FailureOwed DEF Statuses

\* The hook of a create takes over from the create.
LEMMA CacheCreatedOwed ==
  ASSUME Order, Owed, NEW r \in Requests, CacheCreated(r), Frame(r)
  PROVE  StillOwed(r)
<1> DEFINE tx == Txn(r)
           g0 == call[r].new
<1>1. /\ UNCHANGED <<keys, born, torn, onCommit, call, bound, view, failed, ended>>
      /\ pc[r] = "executed" /\ call[r].op = "create" /\ Live(r) /\ pc'[r] = "answered"
  BY DEF CacheCreated, hiveVars, txnVars, Live, Answer, Goto, Order, TypeOK
<1>2. g0 \in IF tx = NoTxn THEN born ELSE view[tx] BY <1>1 DEF Owed, StepOwed
<1>3. tx # NoTxn => /\ tx \in Txns /\ tx \notin ReadOnly /\ bound[tx] # NoHive
  <2>1. at[r] \in Hives BY <1>1, Resolved
  <2> QED BY <1>1, <2>1, GuidCacheAssumption DEF Order, TypeOK, Call, Txn, InOrder, Pins
<1>4. \A t \in Txns : onAbort'[t] = onAbort[t] \cup IF t = tx THEN {g0} ELSE {}
  BY DEF CacheCreated
<1>5. KeysBorn' BY <1>1 DEF Owed, KeysBorn
<1>6. StepOwed(r)' BY <1>1 DEF StepOwed
<1>7. NoGhost'
  <2>1. \A g \in Guids : g # g0 => cache'[g] = cache[g] BY DEF CacheCreated, Order, TypeOK
  <2>2. g0 \in born \/ (tx \in Txns /\ g0 \in onAbort'[tx]) BY <1>2, <1>3, <1>4
  <2> HIDE DEF g0
  <2> QED BY <1>1, <1>4, <2>1, <2>2 DEF Owed, NoGhost
<1>8. ASSUME NEW t \in Txns, t = tx PROVE TxnOwed(t)'
  <2>1. t # NoTxn BY GuidCacheAssumption
  <2>2. \A g : (Creating(t, g) => g = g0) /\ ~Dropping(t, g) BY <1>1, <1>8, OnlyMine
  <2>3. onAbort'[t] = onAbort[t] \cup {g0} BY <1>4, <1>8
  <2>4. g0 \in view[t] /\ t \notin ReadOnly /\ bound[t] # NoHive BY <1>2, <1>3, <1>8, <2>1
  <2>5. TxnOwed(t) BY DEF Owed
  <2> HIDE DEF g0
  <2> QED BY <1>1, <2>2, <2>3, <2>4, <2>5 DEF TxnOwed
<1> QED BY <1>5, <1>6, <1>7, <1>8 DEF StillOwed

\* The hook of a drop takes over from the drop.
LEMMA CacheDroppedOwed ==
  ASSUME Order, Owed, NEW r \in Requests, CacheDropped(r), Frame(r)
  PROVE  StillOwed(r)
<1>1. /\ UNCHANGED <<keys, born, torn, onAbort, call, bound, view, failed, ended>>
      /\ pc[r] = "executed" /\ call[r].op = "drop" /\ Live(r) /\ pc'[r] = "answered"
      /\ \A g \in Guids : cache'[g] \in {cache[g], NoHive}
  BY DEF CacheDropped, hiveVars, txnVars, Live, Answer, Goto, Order, TypeOK, Evict
<1>2. \A t \in Txns : onCommit'[t] = onCommit[t] \cup IF t = Txn(r) THEN {Guid(r)} ELSE {}
  BY DEF CacheDropped
<1>3. KeysBorn' BY <1>1 DEF Owed, KeysBorn
<1>4. StepOwed(r)' BY <1>1 DEF StepOwed
<1>5. NoGhost' BY <1>1, LessCached
<1>6. ASSUME NEW t \in Txns, t = Txn(r) PROVE TxnOwed(t)'
  <2>1. \A g : ~Creating(t, g) /\ (Dropping(t, g) => g = Guid(r)) BY <1>1, <1>6, OnlyMine
  <2>2. onCommit'[t] = onCommit[t] \cup {Guid(r)} BY <1>2, <1>6
  <2>3. TxnOwed(t) BY DEF Owed
  <2> QED BY <1>1, <2>1, <2>2, <2>3 DEF TxnOwed
<1> QED BY <1>3, <1>4, <1>5, <1>6 DEF StillOwed

LEMMA EvictOrphanOwed ==
  ASSUME Order, Owed, NEW r \in Requests, EvictOrphan(r), Frame(r)
  PROVE  StillOwed(r)
<1>1. /\ UNCHANGED <<keys, onCommit, onAbort, call, bound, view, failed, ended>>
      /\ pc[r] = "evicting" /\ Live(r) /\ pc'[r] = "answered"
      /\ \A g \in Guids : cache'[g] \in {cache[g], NoHive}
  BY DEF EvictOrphan, hiveVars, txnVars, hookVars, Live, Answer, Goto, Order, TypeOK, Evict
<1> QED BY <1>1, NotPoisoned, QuietOwed DEF Order

\* What a commit publishes is committed, and what it created and does not
\* publish is the business of its hook.
LEMMA CommitOwed ==
  ASSUME Order, Owed, NEW r \in Requests, Commit(r), Frame(r)
  PROVE  StillOwed(r)
<1> DEFINE tx == Txn(r)
           h == bound[tx]
           publishes == Pinned(tx) /\ tx \notin ReadOnly
<1>1. /\ UNCHANGED <<cache, bound, view, failed, ended, onCommit, onAbort, call, torn>>
      /\ pc[r] = "control" /\ Live(r)
  BY DEF Commit, txnVars, hookVars, Live
<1>2. CASE Answer(r, "StorageError") /\ UNCHANGED hiveVars
  <2>1. pc'[r] = "answered" BY <1>2 DEF Answer, Goto, Order, TypeOK
  <2> QED BY <1>1, <1>2, <2>1, NotPoisoned, QuietOwed DEF Order, hiveVars
<1>3. CASE /\ tx \notin failed
           /\ keys' = IF publishes THEN [keys EXCEPT ![h] = view[tx]] ELSE keys
           /\ born' = IF publishes THEN born \cup view[tx] ELSE born
           /\ Goto(r, "committed")
  <2>1. tx \in Txns BY <1>1, Controls
  <2>2. tx # NoTxn /\ tx \notin ended
    BY <1>1, <2>1, GuidCacheAssumption DEF Order, InOrder, Owns
  <2>3. pc'[r] = "committed" BY <1>3 DEF Goto, Order, TypeOK
  <2>4. NoGhost' BY <1>1, LessCached
  <2>5. KeysBorn'
    <3>1. CASE publishes
      <4>1. \A i \in Hives : keys'[i] = IF i = h THEN view[tx] ELSE keys[i]
        BY <1>3, <3>1 DEF Order, TypeOK
      <4> QED BY <1>3, <3>1, <4>1 DEF Owed, KeysBorn
    <3>2. CASE ~publishes BY <1>3, <3>2 DEF Owed, KeysBorn
    <3> QED BY <3>1, <3>2
  <2>6. TxnOwed(tx) BY <2>1 DEF Owed
  <2>7. \A g : ~Creating(tx, g) /\ ~Dropping(tx, g) BY <1>1, <2>1, OnlyMine
  <2>8. StepOwed(r)'
    <3>1. ASSUME NEW g \in onAbort[tx] PROVE g \in born' \cup torn \cup onCommit[tx]
      <4>1. publishes BY <1>3, <2>2, <2>6, <3>1 DEF TxnOwed, Pinned
      <4>2. g \in view[tx] \cup torn \cup onCommit[tx]
        BY <1>3, <2>2, <2>6, <2>7, <3>1 DEF TxnOwed
      <4> QED BY <1>3, <4>1, <4>2
    <3> QED BY <1>1, <1>3, <2>3, <3>1 DEF StepOwed, Txn
  <2>9. ASSUME NEW t \in Txns, t = tx PROVE TxnOwed(t)'
    <3>1. born \subseteq born' BY DEF Frame
    <3> QED BY <1>1, <2>6, <2>7, <2>9, <3>1 DEF TxnOwed
  <2> QED BY <2>4, <2>5, <2>8, <2>9 DEF StillOwed
<1> QED BY <1>2, <1>3 DEF Commit

LEMMA CommitHooksOwed ==
  ASSUME Order, Owed, NEW r \in Requests, CommitHooks(r), Frame(r)
  PROVE  StillOwed(r)
<1> DEFINE tx == Txn(r)
<1>1. /\ UNCHANGED <<keys, born, torn, call>> /\ pc[r] = "committed" /\ pc'[r] = "answered"
      /\ DropHooks(tx) /\ Forget(tx)
  BY DEF CommitHooks, hiveVars, Answer, Goto, Order, TypeOK
<1>2. tx \in Txns BY <1>1, Controls
<1>3. /\ onAbort'[tx] = {} /\ view'[tx] = {}
      /\ \A u \in Txns \ {tx} : onAbort'[u] = onAbort[u]
  BY <1>1, <1>2, HooksTyped, ForgetTyped DEF Order
<1>4. NoGhost'
  <2> SUFFICES ASSUME NEW g \in Guids \ torn, cache'[g] # NoHive
               PROVE  g \in born \/ \E t \in Txns : g \in onAbort'[t]
    BY <1>1 DEF NoGhost
  <2>1. g \notin onCommit[tx] /\ cache[g] # NoHive BY DEF CommitHooks, Evict
  <2>2. g \in onAbort[tx] => g \in born BY <1>1, <2>1 DEF Owed, StepOwed
  <2>3. g \in born \/ \E t \in Txns : g \in onAbort[t] BY <2>1 DEF Owed, NoGhost
  <2> QED BY <1>3, <2>2, <2>3
<1>5. KeysBorn' BY <1>1 DEF Owed, KeysBorn
<1>6. StepOwed(r)' BY <1>1 DEF StepOwed
<1>7. \A t \in Txns : t = tx => TxnOwed(t)' BY <1>3 DEF TxnOwed
<1> QED BY <1>4, <1>5, <1>6, <1>7 DEF StillOwed

LEMMA AbortOwed ==
  ASSUME Order, Owed, NEW r \in Requests, Abort(r), Frame(r)
  PROVE  StillOwed(r)
<1> DEFINE tx == Txn(r)
<1>1. /\ UNCHANGED <<keys, born, torn, cache, onCommit, onAbort, call>>
      /\ pc[r] = "control" /\ pc'[r] = "aborted" /\ Live(r) /\ Forget(tx)
  BY DEF Abort, hiveVars, hookVars, Live, Goto, Order, TypeOK
<1>2. tx \in Txns BY <1>1, Controls
<1>3. view'[tx] = {} /\ ended' = ended \cup {tx} /\ UNCHANGED <<bound, failed>>
  BY <1>1, <1>2, ForgetTyped DEF Order
<1>4. KeysBorn' BY <1>1 DEF Owed, KeysBorn
<1>5. NoGhost' BY <1>1, LessCached
<1>6. StepOwed(r)' BY <1>1, <1>3 DEF StepOwed, Txn
<1>7. ASSUME NEW t \in Txns, t = tx PROVE TxnOwed(t)'
  <2>1. TxnOwed(t) BY DEF Owed
  <2> QED BY <1>1, <1>3, <1>7, <2>1 DEF TxnOwed
<1> QED BY <1>4, <1>5, <1>6, <1>7 DEF StillOwed

LEMMA AbortHooksOwed ==
  ASSUME Order, Owed, NEW r \in Requests, AbortHooks(r), Frame(r)
  PROVE  StillOwed(r)
<1> DEFINE tx == Txn(r)
<1>1. /\ UNCHANGED <<keys, born, torn, call, view>> /\ pc[r] = "aborted" /\ pc'[r] = "answered"
      /\ DropHooks(tx)
  BY DEF AbortHooks, hiveVars, txnVars, Answer, Goto, Order, TypeOK
<1>2. tx \in Txns BY <1>1, Controls
<1>3. onAbort'[tx] = {} /\ \A u \in Txns \ {tx} : onAbort'[u] = onAbort[u]
  BY <1>1, <1>2, HooksTyped DEF Order
<1>4. NoGhost'
  <2> SUFFICES ASSUME NEW g \in Guids \ torn, cache'[g] # NoHive
               PROVE  g \in born \/ \E t \in Txns : g \in onAbort'[t]
    BY <1>1 DEF NoGhost
  <2>1. g \notin onAbort[tx] /\ cache[g] # NoHive BY DEF AbortHooks, Evict
  <2>2. g \in born \/ \E t \in Txns : g \in onAbort[t] BY <2>1 DEF Owed, NoGhost
  <2> QED BY <1>3, <2>1, <2>2
<1>5. KeysBorn' BY <1>1 DEF Owed, KeysBorn
<1>6. StepOwed(r)' BY <1>1 DEF StepOwed
<1>7. view'[tx] = {} BY <1>1 DEF Owed, StepOwed
<1>8. \A t \in Txns : t = tx => TxnOwed(t)' BY <1>3, <1>7 DEF TxnOwed
<1> QED BY <1>4, <1>5, <1>6, <1>8 DEF StillOwed

LEMMA StepKeepsOwed ==
  ASSUME Order, Owed, NEW r \in Requests, Step(r), Frame(r)
  PROVE  Owed'
<1>1. StillOwed(r)
  BY DispatchOwed, LoadOwed, StoreOwed, ExhaustedOwed, FailOwed, ProbeOwed, ReadOwed,
     WriteQOwed, ExecuteOwed, DropFailsOwed, CacheCreatedOwed, CacheDroppedOwed,
     EvictOrphanOwed, CommitOwed, CommitHooksOwed, AbortOwed, AbortHooksOwed DEF Step
<1>2. \A q \in Requests : StepOwed(q)' BY <1>1, OtherStepOwed DEF StillOwed
<1>3. \A t \in Txns : TxnOwed(t)' BY <1>1, OtherTxnOwed DEF StillOwed
<1> QED BY <1>1, <1>2, <1>3 DEF StillOwed, Owed

-----------------------------------------------------------------------------
LEMMA InitWatched == Init => Watched /\ NeverLost
BY DEF Init, Watched, NeverLost, Live

\* A key in view is found: by the probe of its hive, and by the read there.
LEMMA ReadFinds ==
  ASSUME Order, NEW r \in Requests, Read(r), InView(r)
  PROVE  status'[r] # "NotFound"
<1> DEFINE tx == Txn(r)
           h == at[r]
           pins == tx \in ReadOnly /\ bound[tx] = NoHive
           sees == IF pins THEN keys[h] ELSE ViewOf(tx, h)
<1>1. h = Home[Guid(r)] /\ h \in Hives BY Resolved DEF Read
<1>2. Guid(r) \in ViewOf(tx, h) BY <1>1 DEF InView
<1>3. pins => ViewOf(tx, h) = keys[h] BY DEF ViewOf, Pinned
<1>4. Guid(r) \in sees BY <1>2, <1>3
<1>5. CASE Unsuccessful(r, "StorageError")
  BY <1>5 DEF Unsuccessful, Poison, Answer, Order, TypeOK
<1>6. CASE Poison(r) BY <1>6 DEF Poison, Answer, Order, TypeOK
<1>7. CASE Answer(r, IF Guid(r) \in sees THEN "OK" ELSE "NotFound")
  <2>1. Answer(r, "OK") BY <1>4, <1>7
  <2> QED BY <2>1 DEF Answer, Order, TypeOK
<1> QED BY <1>5, <1>6, <1>7 DEF Read

LEMMA ProbeFinds ==
  ASSUME Order, NEW r \in Requests, NEW h \in Hives, Probe(r, h), InView(r),
         Home[Guid(r)] \in left[r]
  PROVE  pc'[r] = "storing" \/ Home[Guid(r)] \in left'[r]
<1>1. CASE h = Home[Guid(r)]
  <2>1. Guid(r) \in ProbeView(Txn(r), h) BY <1>1 DEF InView, ProbeView
  <2> QED BY <2>1 DEF Probe, Goto, Order, TypeOK
<1>2. CASE h # Home[Guid(r)] BY <1>2 DEF Probe, Order, TypeOK
<1> QED BY <1>1, <1>2

LEMMA NotFoundOnly ==
  ASSUME Order, NEW r \in Requests, Step(r), pc'[r] = "answered", status'[r] = "NotFound"
  PROVE  Read(r) \/ Exhausted(r)
<1>1. TypeOK /\ \A s : Answer(r, s) => status'[r] = s BY DEF Order, TypeOK, Answer
<1>2. CASE Dispatch(r)
  <2>1. PICK k \in scenario[r] :
          IF k.txn \in ended
            THEN Answer(r, IF k.op = "abort" THEN "OK" ELSE "StorageError")
            ELSE Goto(r, CASE k.op \in {"commit", "abort"} -> "control"
                           [] k.op = "deleteLayer" -> "evicting"
                           [] OTHER -> "loading")
    BY <1>2 DEF Dispatch
  <2>2. CASE k.txn \in ended BY <1>1, <2>1, <2>2
  <2>3. CASE k.txn \notin ended BY <1>1, <2>1, <2>3 DEF Goto, TypeOK
  <2> QED BY <2>2, <2>3
<1>3. CASE Load(r) \/ Store(r) \/ Abort(r) \/ \E h \in Hives : Probe(r, h)
  BY <1>1, <1>3 DEF Load, Store, Abort, Probe, Goto, TypeOK
<1>4. CASE WriteQ(r)
  BY <1>1, <1>4 DEF WriteQ, Unsuccessful, Poison, Refusal, Goto, TypeOK
<1>5. CASE Execute(r)
  BY <1>1, <1>5 DEF Execute, Unsuccessful, Poison, Goto, TypeOK
<1>6. CASE Fail(r) \/ DropFails(r)
  BY <1>1, <1>6 DEF Fail, DropFails, Unsuccessful, Poison
<1>7. CASE CacheCreated(r) \/ CacheDropped(r) \/ EvictOrphan(r) \/ CommitHooks(r) \/ AbortHooks(r)
  BY <1>1, <1>7 DEF CacheCreated, CacheDropped, EvictOrphan, CommitHooks, AbortHooks
<1>8. CASE Commit(r)
  BY <1>1, <1>8 DEF Commit, Goto, TypeOK
<1> QED BY <1>2, <1>3, <1>4, <1>5, <1>6, <1>7, <1>8 DEF Step

LEMMA ProbingOnly ==
  ASSUME Order, NEW r \in Requests, Step(r), pc'[r] = "probing"
  PROVE  Load(r) \/ \E h \in Hives : Probe(r, h)
<1>1. TypeOK /\ \A s : Answer(r, s) => pc'[r] = "answered" BY DEF Order, TypeOK, Answer, Goto
<1>2. CASE Dispatch(r)
  <2>1. pc'[r] \in {"answered", "control", "evicting", "loading"}
    BY <1>1, <1>2 DEF Dispatch, Goto, TypeOK
  <2> QED BY <2>1
<1>3. CASE Store(r) \/ Abort(r) BY <1>1, <1>3 DEF Store, Abort, Goto, TypeOK
<1>4. CASE Exhausted(r)
  BY <1>1, <1>4 DEF Exhausted, Unsuccessful, Poison, Goto, TypeOK
<1>5. CASE WriteQ(r) \/ Execute(r)
  BY <1>1, <1>5 DEF WriteQ, Execute, Unsuccessful, Poison, Goto, TypeOK
<1>6. CASE Fail(r) \/ DropFails(r) \/ Read(r)
  BY <1>1, <1>6 DEF Fail, DropFails, Read, Unsuccessful, Poison
<1>7. CASE CacheCreated(r) \/ CacheDropped(r) \/ EvictOrphan(r) \/ CommitHooks(r) \/ AbortHooks(r)
  BY <1>1, <1>7 DEF CacheCreated, CacheDropped, EvictOrphan, CommitHooks, AbortHooks
<1>8. CASE Commit(r)
  BY <1>1, <1>8 DEF Commit, Goto, TypeOK
<1> QED BY <1>2, <1>3, <1>4, <1>5, <1>6, <1>7, <1>8 DEF Step

LEMMA StepWatched ==
  ASSUME Order, Watched, NeverLost, NEW r \in Requests, Step(r), Watch, Frame(r)
  PROVE  Watched' /\ NeverLost'
<1>1. ASSUME NEW q \in Requests
      PROVE  q \in steady' <=> CASE pc[q] = "idle" -> InView(q)'
                                 [] "answered" \in {pc[q], pc'[q]} -> q \in steady
                                 [] OTHER -> q \in steady /\ InView(q)'
  BY DEF Watch
<1>2. \A q \in Requests : InView(q)' => pc'[q] # "idle" BY DEF InView
<1>3. ASSUME NEW q \in Requests \ {r}
      PROVE  /\ pc'[q] = "idle" => q \notin steady'
             /\ q \in steady' /\ Live(q)' => InView(q)'
             /\ q \in steady' /\ pc'[q] = "probing" => Home[Guid(q)'] \in left'[q]
             /\ q \in steady' /\ pc'[q] = "answered" => status'[q] # "NotFound"
  <2>1. pc'[q] = pc[q] /\ call'[q] = call[q] /\ left'[q] = left[q] /\ status'[q] = status[q]
    BY DEF Frame
  <2> QED BY <1>1, <1>2, <2>1 DEF Watched, NeverLost, Live, Guid
<1>4. /\ pc'[r] = "idle" => r \notin steady'
      /\ r \in steady' /\ Live(r)' => InView(r)'
      /\ r \in steady' /\ pc'[r] = "probing" => Home[Guid(r)'] \in left'[r]
      /\ r \in steady' /\ pc'[r] = "answered" => status'[r] # "NotFound"
  <2>1. CASE Dispatch(r)
    <3>1. ~Read(r) /\ ~Exhausted(r) /\ ~Load(r) /\ \A h \in Hives : ~Probe(r, h)
      BY <2>1 DEF Dispatch, Read, Exhausted, Load, Probe
    <3>2. pc[r] = "idle" BY <2>1 DEF Dispatch
    <3> QED BY <1>1, <1>2, <3>1, <3>2, NotFoundOnly, ProbingOnly DEF Live
  <2>2. CASE Live(r)
    <3>1. pc'[r] # "idle" \/ r \notin steady' BY <1>1, <1>2, <2>2 DEF Live
    <3>2. r \in steady' => r \in steady /\ InView(r) BY <1>1, <2>2 DEF Live, Watched
    <3>3. r \in steady' /\ Live(r)' => InView(r)' BY <1>1, <2>2 DEF Live
    <3>4. ASSUME r \in steady', pc'[r] = "probing" PROVE Home[Guid(r)'] \in left'[r]
      <4>1. CASE Load(r)
        <5>1. Guid(r)' = Guid(r) /\ left'[r] = Hives BY <4>1 DEF Load, Order, TypeOK, Guid
        <5>2. Guid(r) \in Guids BY DEF Order, TypeOK, Call, Guid
        <5> QED BY <5>1, <5>2, GuidCacheAssumption
      <4>2. ASSUME NEW h \in Hives, Probe(r, h) PROVE Home[Guid(r)'] \in left'[r]
        <5>1. Guid(r)' = Guid(r) /\ pc[r] = "probing" BY <4>2 DEF Probe, Guid
        <5>2. Home[Guid(r)] \in left[r] BY <3>2, <3>4, <5>1 DEF Watched
        <5> QED BY <3>2, <3>4, <4>2, <5>1, <5>2, ProbeFinds
      <4> QED BY <3>4, <4>1, <4>2, ProbingOnly
    <3>5. ASSUME r \in steady', pc'[r] = "answered" PROVE status'[r] # "NotFound"
      <4>1. CASE Read(r) BY <3>2, <3>5, <4>1, ReadFinds
      <4>2. ~Exhausted(r) BY <3>2, <3>5 DEF Exhausted, Watched
      <4> QED BY <3>5, <4>1, <4>2, NotFoundOnly
    <3> QED BY <3>1, <3>3, <3>4, <3>5
  <2> QED BY <2>1, <2>2, StepLive
<1> QED BY <1>3, <1>4 DEF Watched, NeverLost

-----------------------------------------------------------------------------
\* The inductive invariant: CacheInv does not say why a key that a probe is
\* about to store, or a hook about to forget, is accounted for.
IInv == Order /\ Owed /\ Watched /\ NeverLost

LEMMA NextIInv == IInv /\ [Next /\ UNCHANGED scenario]_<<vars, scenario>> => IInv'
<1> SUFFICES ASSUME IInv, [Next /\ UNCHANGED scenario]_<<vars, scenario>> PROVE IInv'
  OBVIOUS
<1>1. ASSUME NEW r \in Requests, Step(r), Watch, UNCHANGED scenario PROVE IInv'
  <2>1. steady' \in SUBSET Requests BY <1>1 DEF Watch
  <2>2. Order' /\ Frame(r) BY <1>1, <2>1, StepOrder DEF IInv
  <2>3. Owed' BY <1>1, <2>2, StepKeepsOwed DEF IInv
  <2>4. Watched' /\ NeverLost' BY <1>1, <2>2, StepWatched DEF IInv
  <2> QED BY <2>2, <2>3, <2>4 DEF IInv
<1>2. ASSUME UNCHANGED <<vars, scenario>> PROVE IInv'
  <2> USE <1>2 DEF vars, hiveVars, txnVars, hookVars
  <2>1. Order'
    BY DEF IInv, Order, TypeOK, AtHome, InOrder, Called, Owns, Located, Pins, Live, Txn, Guid
  <2>2. Owed'
    BY DEF IInv, Owed, KeysBorn, NoGhost, TxnOwed, StepOwed, Creating, Dropping, Txn, Guid
  <2>3. Watched' /\ NeverLost'
    BY DEF IInv, Watched, NeverLost, InView, ViewOf, Pinned, Live, Txn, Guid
  <2> QED BY <2>1, <2>2, <2>3 DEF IInv
<1> QED BY <1>1, <1>2 DEF Next, Done

(* The invariant holds of every behaviour: requests create, drop, probe,   *)
(* store late, fail and commit in any order.                               *)
THEOREM CacheInvariant == Spec => []IInv
<1>1. Init => IInv BY InitOrder, InitOwed, InitWatched DEF IInv
<1> QED BY <1>1, NextIInv, PTL DEF Spec

(* guidCache names only keys that are committed, or that a transaction     *)
(* created whose abort still owes the eviction: the commit and abort hooks *)
(* of txn.go miss no entry that a late store of resolveHive put back.      *)
THEOREM NoGhostStays == Spec => []CacheInv
<1>1. IInv => CacheInv BY DEF IInv, Order, Owed, CacheInv
<1> QED BY <1>1, CacheInvariant, PTL

(* resolveHive loses no key: one that stays in the request's view from its *)
(* dispatch to its answer is never answered as RSI_NOT_FOUND.              *)
THEOREM KeysNeverLost == Spec => []NeverLost
<1>1. IInv => NeverLost BY DEF IInv
<1> QED BY <1>1, CacheInvariant, PTL
=============================================================================
