---------------------------- MODULE MCHiveStore ----------------------------
(* Small instances of HiveStore.tla. *)
EXTENDS HiveStore, TLC

\* The GUIDs other than the root are interchangeable, and so are the layers.
Symmetry == Permutations(Guids \ {Root}) \cup Permutations(Layers)
=============================================================================
