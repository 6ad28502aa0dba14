--------------------------- MODULE MCTransactions ---------------------------
(* Small instances of Transactions.tla.  A scenario limits the calls its *)
(* requests may make, so that each question is explored in full.            *)
EXTENDS Transactions, TLC

CONSTANTS r1, r2, r3, r4, t1, t2, h1, h2

Write(t, h, stores) == [op |-> "write", txn |-> t, hive |-> h, stores |-> stores, local |-> FALSE]
LocalWrite(h, stores) == [op |-> "write", txn |-> NoTxn, hive |-> h, stores |-> stores, local |-> TRUE]
Read(t, h) == [op |-> "read", txn |-> t, hive |-> h, stores |-> {}, local |-> FALSE]
Control(op, t) == [op |-> op, txn |-> t, hive |-> h1, stores |-> {}, local |-> FALSE]

\* What the requests that a scenario does not mention do: nothing.
Nothing == [r \in Requests |-> {}]
Scenario(calls, hurried, aging) ==
  [calls |-> calls @@ Nothing, hurried |-> hurried, aging |-> aging]

\* Two writers of one hive and their ends, beside writers with no transaction.
Contention == Scenario(
  r1 :> {Write(t1, h1, Stores)} @@
  r2 :> {Write(t2, h1, {"main"}), Write(NoTxn, h1, Stores), LocalWrite(h1, Stores),
         Control("flush", NoTxn), Control("commit", t1)} @@
  r3 :> {Control("commit", t1), Control("abort", t1), Write(t1, h1, {"volatile"})},
  {r3}, {})

\* A writer of both stores and its commit, beside plain reads, the reads of a
\* snapshot.
Snapshots == Scenario(
  r1 :> {Write(t1, h1, Stores)} @@
  r2 :> {Control("commit", t1)} @@
  r3 :> {Read(t2, h1), Read(NoTxn, h1)} @@
  r4 :> {Read(t2, h1)},
  {}, {})

\* A layer is deleted from two hives while a transaction writes one of them.
Layers == Scenario(
  r1 :> {Control("deleteLayer", NoTxn), Control("deleteLayer", t1)} @@
  r2 :> {Write(t1, h1, {"main"}), Write(t1, h2, Stores)} @@
  r3 :> {Control("commit", t1), Read(NoTxn, h1), Read(t1, h2), Control("flush", t1)},
  {r1}, {})

\* One transaction whose owner may vanish at any point of a read, a write, a
\* commit or an abort.
Leases == Scenario(
  r1 :> {Write(t1, h1, {"main"}), Read(t1, h1)} @@
  r2 :> {Control("commit", t1), Control("abort", t1)},
  {r1}, {t1})

\* A writer with no transaction beside one whose owner may vanish.
Abandoned == Scenario(
  r1 :> {Write(t1, h1, {"main"})} @@
  r2 :> {LocalWrite(h1, {"main"})},
  {}, {t1})

SafetyScenarios == {Contention, Snapshots, Layers}
LeaseScenarios == {Leases, Abandoned}
FaultScenarios == {Contention}
=============================================================================
