---------------------------- MODULE MCGuidCache ----------------------------
(* Small instances of GuidCache.tla: two hives, their roots, a key k of the
   first hive and a key n that is created in it. *)
EXTENDS GuidCache, TLC

CONSTANTS h1, h2, root1, root2, k, n, reader, other, ender, r4, rw, ro

MCHome == [g \in Guids |-> IF g = root2 THEN h2 ELSE h1]
MCRoots == h1 :> root1 @@ h2 :> root2

C(op, t, g, new) == [op |-> op, txn |-> t, guid |-> g, new |-> new]
InTxn(op, t) == C(op, t, k, k)
Plain(op, g) == C(op, NoTxn, g, g)

\* What the requests that a table does not mention do: nothing.
Nothing == [r \in Requests |-> {}]

\* A snapshot reads k while k is dropped outside it and while delete-layer
\* reports k as an orphan.
SnapshotCalls ==
  LET any == {InTxn("read", ro), Plain("read", k), Plain("drop", k),
              Plain("deleteLayer", k), InTxn("abort", ro), InTxn("commit", ro),
              Plain("read", root2)}
  IN reader :> {InTxn("read", ro)} @@ other :> any @@ ender :> any @@ Nothing

\* A read-write transaction creates n, drops k, is interrupted, commits or
\* aborts, while others read n, create n themselves or evict it.
WriteCalls ==
  reader :> {Plain("read", n), C("create", NoTxn, k, n)} @@
  other :> {C("create", rw, root1, n)} @@
  ender :> {InTxn("commit", rw), InTxn("abort", rw)} @@
  r4 :> {C("read", rw, n, n), C("drop", rw, n, n), InTxn("drop", rw), Plain("drop", root1),
         C("create", ro, root1, n), C("drop", rw, root2, root2),
         Plain("deleteLayer", n)}

MCScenarios == {SnapshotCalls, WriteCalls}
=============================================================================
