----------------------------- MODULE LayerWalk -----------------------------
(***************************************************************************)
(* RSI_DELETE_LAYER over all the hives (handleDeleteLayer and              *)
(* deleteLayerFromHive, txn_handlers.go): one transaction per hive, the    *)
(* gate of a hive given back before the next is taken, the orphans of the  *)
(* hives collected in memory and reported only when every hive succeeded.  *)
(* Between two hives other requests link and drop keys, and the walk     *)
(* may end at any hive with RSI_TXN_BUSY, a fault or the deadline.         *)
(*                                                                         *)
(* A path entry is the pair <<layer, target>>; names, parents, hidden      *)
(* entries, values and tombstones are in HiveStore.tla.  What the daemon   *)
(* is told to do next is the kernel's: it drops the keys reported to it    *)
(* and may ask for the same layer again after a failure.                   *)
(***************************************************************************)
EXTENDS Naturals, FiniteSets

CONSTANTS
  Hives,
  Keys,        \* Keys[h]: the GUIDs of hive h other than its root
  Layers,
  Base         \* the layer that is never deleted

AllKeys == UNION {Keys[h] : h \in Hives}

ASSUME LayerWalkAssumption ==
  /\ Base \in Layers
  /\ \A g, h \in Hives : g # h => Keys[g] \cap Keys[h] = {}

VARIABLES
  keys,      \* keys[h]: the key records of hive h
  refs,      \* refs[h]: its path entries that name a key
  left,      \* the hives the walk has not reached
  layer,     \* the layer being deleted, Base while none is
  orphans,   \* allOrphans
  toDrop,    \* GUIDs reported to the kernel that it has not dropped yet
  lost,      \* history: orphans that failed walks have thrown away
  kept       \* history: keys that the base layer has named from the start

walkVars == <<keys, refs, left, layer, orphans, toDrop, lost, kept>>

Entries(h) == Layers \X Keys[h]
Targets(R) == {e[2] : e \in R}
Walking == layer # Base
OfLayer(h, l) == {e \in refs[h] : e[1] = l}

\* The keys of a hive that no entry names.
Unnamed(h) == keys[h] \ Targets(refs[h])
AllUnnamed == UNION {Unnamed(h) : h \in Hives}

\* Every key is linked: a key no entry names is removed when a hive opens.
WalkInit ==
  /\ keys = Keys
  /\ \E E \in SUBSET UNION {Entries(h) : h \in Hives} :
       Targets(E) = AllKeys /\ refs = [h \in Hives |-> E \cap Entries(h)]
  /\ left = {} /\ layer = Base /\ orphans = {} /\ toDrop = {} /\ lost = {}
  /\ kept = UNION {{g \in Keys[h] : <<Base, g>> \in refs[h]} : h \in Hives}

-----------------------------------------------------------------------------
Start(l) ==
  /\ ~Walking
  /\ layer' = l /\ left' = Hives /\ orphans' = {}
  /\ UNCHANGED <<keys, refs, toDrop, lost, kept>>

\* Faulty: whatever the layer names; the entries instead of their targets.
LayerTargets(h, l) == Targets(OfLayer(h, l))

\* findLayerOrphans: named by the layer and by no other, in this hive.
LayerOrphans(h, l) == Targets(OfLayer(h, l)) \ Targets(refs[h] \ OfLayer(h, l))

\* Faulty: the orphans of a hive replace those of the hives before it.
DeleteFromHiveReplaces(h) ==
  /\ Walking /\ h \in left
  /\ orphans' = LayerOrphans(h, layer)
  /\ refs' = [refs EXCEPT ![h] = @ \ OfLayer(h, layer)]
  /\ left' = left \ {h}
  /\ UNCHANGED <<keys, layer, toDrop, lost, kept>>

\* One round of the loop over h.hives, a Go map: any order.  The scan, the
\* deletes and COMMIT are one transaction under the hive's gate.
DeleteFromHive(h) ==
  /\ Walking /\ h \in left
  /\ orphans' = orphans \cup LayerOrphans(h, layer)
  /\ refs' = [refs EXCEPT ![h] = @ \ OfLayer(h, layer)]
  /\ left' = left \ {h}
  /\ UNCHANGED <<keys, layer, toDrop, lost, kept>>

\* Faulty: the transaction that failed is not rolled back.
GiveUpWithoutRollback ==
  /\ Walking
  /\ \E h \in left : refs' = [refs EXCEPT ![h] = @ \ OfLayer(h, layer)]
  /\ layer' = Base /\ orphans' = {} /\ left' = {}
  /\ lost' = lost \cup (orphans \cap AllUnnamed)
  /\ UNCHANGED <<keys, toDrop, kept>>

\* Gate deadline, another writer, or an error in the transaction, which is
\* rolled back: the request returns and allOrphans is discarded.
GiveUp ==
  /\ Walking /\ left # {}
  /\ layer' = Base /\ orphans' = {} /\ left' = {}
  /\ lost' = lost \cup (orphans \cap AllUnnamed)
  /\ UNCHANGED <<keys, refs, toDrop, kept>>

Report ==
  /\ Walking /\ left = {}
  /\ layer' = Base /\ orphans' = {} /\ toDrop' = toDrop \cup orphans
  /\ UNCHANGED <<keys, refs, left, lost, kept>>

\* RSI_CREATE_ENTRY for a key that has lost its last entry, or any other.
Link(h) ==
  \E e \in Entries(h) :
    /\ e[2] \in keys[h] /\ e \notin refs[h]
    /\ refs' = [refs EXCEPT ![h] = @ \cup {e}]
    /\ lost' = lost \ {e[2]}
    /\ UNCHANGED <<keys, left, layer, orphans, toDrop, kept>>

\* RSI_DROP_KEY for a reported GUID: the record and every entry naming it.
Drop(g) ==
  /\ g \in toDrop
  /\ toDrop' = toDrop \ {g}
  /\ keys' = [h \in Hives |-> keys[h] \ {g}]
  /\ refs' = [h \in Hives |-> {e \in refs[h] : e[2] # g}]
  /\ lost' = lost \ {g}
  /\ UNCHANGED <<left, layer, orphans, kept>>

\* The daemon stops at any point and opens its hives again: cleanOrphans.
Reopen ==
  /\ layer' = Base /\ left' = {} /\ orphans' = {} /\ lost' = {}
  /\ keys' = [h \in Hives |-> keys[h] \ Unnamed(h)]
  /\ UNCHANGED <<refs, toDrop, kept>>

WalkNext ==
  \/ \E l \in Layers \ {Base} : Start(l)
  \/ \E h \in Hives : DeleteFromHive(h) \/ Link(h)
  \/ GiveUp \/ Report \/ Reopen
  \/ \E g \in AllKeys : Drop(g)

WalkSpec == WalkInit /\ [][WalkNext]_walkVars

-----------------------------------------------------------------------------
\* Every variable holds a value of its kind.
WalkTypeOK ==
  /\ \A h \in Hives : keys[h] \subseteq Keys[h] /\ refs[h] \subseteq Entries(h)
  /\ left \subseteq Hives /\ layer \in Layers
  /\ orphans \subseteq AllKeys /\ toDrop \subseteq AllKeys /\ lost \subseteq AllKeys
  /\ kept \subseteq AllKeys

\* RSI_DELETE_LAYER reports the keys that the removal left unreferenced: a
\* key record without an entry is with the kernel to be dropped, or still
\* among the orphans of a walk, in whatever hive it is, whatever the order of
\* the hives and whatever was linked between two of them.  What a walk that
\* fails leaves behind is exactly the orphans it had found in the hives before
\* the failure: nothing of the hive it failed in, nothing that a later walk
\* finds, nothing that is linked again, and nothing over a restart.
OrphansReported ==
  /\ lost \subseteq AllUnnamed
  /\ AllUnnamed \subseteq toDrop \cup orphans \cup lost

\* A key that a layer nobody deletes has named all along is never removed:
\* not by a walk, by a walk that failed half-way and was repeated, by the
\* drops the reports lead to, or by the cleanup of a restart.
OtherLayersKeepKeys ==
  kept \subseteq UNION {keys[h] : h \in Hives}

\* A walk costs exactly the keys that only the deleted layers named: every one
\* it leaves unreferenced is reported, or thrown away by a failure of this very
\* walk, and no other key is ever removed.
WalkInv ==
  WalkTypeOK /\ OrphansReported /\ OtherLayersKeepKeys
=============================================================================
