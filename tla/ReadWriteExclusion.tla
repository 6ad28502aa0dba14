------------------------- MODULE ReadWriteExclusion -------------------------
(***************************************************************************)
(* What a publication gate promises its callers, with no account of how it *)
(* keeps the promise: a writer holds it alone, readers share it, and while *)
(* a writer is queued no further reader is let in.  Gate.tla, the          *)
(* translation of internal/hivedb/gate.go, is shown to implement this.     *)
(***************************************************************************)

CONSTANTS Readers,  \* callers that ask for read access
          Writers   \* callers that ask for write access

VARIABLES held,     \* callers inside the gate
          queued    \* writers that asked and have neither entered nor given up

vars == <<held, queued>>

Init == held = {} /\ queued = {}

\* A reader is admitted beside readers only, and not past a queued writer.
AdmitReader(r) ==
  /\ r \in Readers \ held
  /\ held \subseteq Readers
  /\ queued = {}
  /\ held' = held \cup {r}
  /\ UNCHANGED queued

\* A writer is admitted alone, either from the queue or on arrival.
AdmitWriter(w) ==
  /\ w \in Writers
  /\ held = {}
  /\ held' = {w}
  /\ queued' = queued \ {w}

Enqueue(w) ==
  /\ w \in Writers \ (held \cup queued)
  /\ queued' = queued \cup {w}
  /\ UNCHANGED held

\* The deadline of a queued writer passes.
Withdraw(w) ==
  /\ w \in queued
  /\ queued' = queued \ {w}
  /\ UNCHANGED held

Leave(c) ==
  /\ c \in held
  /\ held' = held \ {c}
  /\ UNCHANGED queued

Next ==
  \/ \E r \in Readers : AdmitReader(r)
  \/ \E w \in Writers : AdmitWriter(w) \/ Enqueue(w) \/ Withdraw(w)
  \/ \E c \in Readers \cup Writers : Leave(c)

Spec == Init /\ [][Next]_vars
=============================================================================
