-------------------------------- MODULE Gate --------------------------------
(***************************************************************************)
(* The publication gate of internal/hivedb/gate.go: a reader/writer guard  *)
(* whose waits end at the caller's deadline.  Every step below is one      *)
(* critical section of Gate.mu; a caller sleeps on the channel g.changed   *)
(* between two of them.                                                    *)
(***************************************************************************)
EXTENDS Integers, FiniteSets

CONSTANTS Readers,  \* goroutines that call Acquire(ctx, ReadAccess)
          Writers,  \* goroutines that call Acquire(ctx, WriteAccess)
          Patient   \* callers whose context has no deadline (Background)

Callers == Readers \cup Writers

ASSUME CallersAssumption ==
  /\ IsFiniteSet(Readers)
  /\ IsFiniteSet(Writers)
  /\ Readers \cap Writers = {}
  /\ Patient \subseteq Callers

VARIABLES
  readers,         \* g.readers
  waitingWriters,  \* g.waitingWriters
  writer,          \* g.writer
  changed,         \* g.changed # nil: an open channel that waiters sleep on
  pc,              \* where each caller is
  done             \* callers whose context is done

vars == <<readers, waitingWriters, writer, changed, pc, done>>

(***************************************************************************)
(* "idle"    not inside Acquire and not holding the gate                   *)
(* "parked"  asleep in the select on the open channel g.changed            *)
(* "woken"   in the same select, its channel closed by notify              *)
(* "holding" Acquire succeeded, release not called yet                     *)
(***************************************************************************)
Places == {"idle", "parked", "woken", "holding"}

Waiting(c) == pc[c] \in {"parked", "woken"}

Init ==
  /\ readers = 0
  /\ waitingWriters = 0
  /\ writer = FALSE
  /\ changed = FALSE
  /\ pc = [c \in Callers |-> "idle"]
  /\ done = {}

-----------------------------------------------------------------------------
\* A faulty notify that keeps the channel open: nobody is told to recheck.
SilentNotify(at) == pc' = at /\ changed' = changed

\* notify, called with mu held, once the caller's own move is recorded in at:
\* close the channel, so that every sleeper rechecks, and forget it.
Notify(at) ==
  /\ pc' = IF changed
           THEN [c \in Callers |-> IF at[c] = "parked" THEN "woken" ELSE at[c]]
           ELSE at
  /\ changed' = FALSE

\* Faulty admission tests: readers overtake queued writers, as they would under
\* a plain read lock; a writer does not wait for the readers inside.
ReadersBarge(c, ww) == ~writer /\ (c \in Writers => readers = 0)

\* The admission test.  ww is waitingWriters, the caller itself counted.
Eligible(c, ww) ==
  /\ ~writer
  /\ \/ c \in Writers /\ readers = 0
     \/ c \in Readers /\ ww = 0

\* Faulty withdrawals: the count keeps the writer that left; the reader that
\* left is taken off a count it never entered.
GiveUpStillCounted(c, ww) ==
  /\ c \in done
  /\ waitingWriters' = ww
  /\ pc' = [pc EXCEPT ![c] = "idle"]
  /\ done' = done \ {c}
  /\ UNCHANGED <<readers, writer, changed>>

\* The context is done: a writer leaves the count and wakes the others.
GiveUp(c, ww) ==
  /\ c \in done
  /\ IF c \in Writers
     THEN waitingWriters' = ww - 1 /\ Notify([pc EXCEPT ![c] = "idle"])
     ELSE /\ waitingWriters' = ww
          /\ pc' = [pc EXCEPT ![c] = "idle"]
          /\ UNCHANGED changed
  /\ done' = done \ {c}
  /\ UNCHANGED <<readers, writer>>

Admit(c, ww) ==
  /\ c \notin done
  /\ Eligible(c, ww)
  /\ IF c \in Writers
     THEN waitingWriters' = ww - 1 /\ writer' = TRUE /\ UNCHANGED readers
     ELSE waitingWriters' = ww /\ readers' = readers + 1 /\ UNCHANGED writer
  /\ pc' = [pc EXCEPT ![c] = "holding"]
  /\ UNCHANGED <<changed, done>>

\* Remember the current channel, creating it if there is none, and sleep.
Park(c, ww) ==
  /\ c \notin done
  /\ ~Eligible(c, ww)
  /\ waitingWriters' = ww
  /\ changed' = TRUE
  /\ pc' = [pc EXCEPT ![c] = "parked"]
  /\ UNCHANGED <<readers, writer, done>>

\* One turn of the loop in Acquire, from Lock to Unlock.
Turn(c, ww) == GiveUp(c, ww) \/ Admit(c, ww) \/ Park(c, ww)

\* Acquire up to its first Unlock.
Acquire(c) ==
  /\ pc[c] = "idle"
  /\ Turn(c, IF c \in Writers THEN waitingWriters + 1 ELSE waitingWriters)

\* A faulty wait that listens to the channel and not to the context.
ResumeOnNotifyOnly(c) == pc[c] = "woken" /\ Turn(c, waitingWriters)

\* The select returns: the channel was closed, or the context is done.
Resume(c) ==
  /\ pc[c] = "woken" \/ (pc[c] = "parked" /\ c \in done)
  /\ Turn(c, waitingWriters)

\* The function Acquire returned; the request and its context end with it.
Release(c) ==
  /\ pc[c] = "holding"
  /\ IF c \in Writers
     THEN writer' = FALSE /\ UNCHANGED readers
     ELSE readers' = readers - 1 /\ UNCHANGED writer
  /\ Notify([pc EXCEPT ![c] = "idle"])
  /\ done' = done \ {c}
  /\ UNCHANGED waitingWriters

\* The deadline of a caller's context passes, whatever the caller is doing.
Expire(c) ==
  /\ c \notin Patient \cup done
  /\ done' = done \cup {c}
  /\ UNCHANGED <<readers, waitingWriters, writer, changed, pc>>

Next == \E c \in Callers : Acquire(c) \/ Resume(c) \/ Release(c) \/ Expire(c)

Spec == Init /\ [][Next]_vars

\* A runnable goroutine runs and a deadline passes.  Nothing makes anyone call
\* Acquire, and nothing is assumed of those inside.
DeadlineSpec == Spec /\ \A c \in Callers : WF_vars(Resume(c)) /\ WF_vars(Expire(c))

\* Moreover the operations inside end: each is bounded by its own deadline.
HoldersLeave == \A c \in Callers : WF_vars(Release(c))

-----------------------------------------------------------------------------
\* The gate's fields have the types of gate.go.
TypeOK ==
  /\ readers \in Nat
  /\ waitingWriters \in Nat
  /\ writer \in BOOLEAN
  /\ changed \in BOOLEAN
  /\ pc \in [Callers -> Places]
  /\ done \subseteq Callers

Holding == {c \in Callers : pc[c] = "holding"}

ReadersInside == {c \in Readers : pc[c] = "holding"}

WritersQueued == {c \in Writers : Waiting(c)}

\* Gate excludes publication from reads: a writer inside the gate is alone.
Exclusion ==
  \A c, d \in Holding : c # d => c \in Readers /\ d \in Readers

\* The fields of the gate count exactly the callers inside and the writers
\* queued, across every admission, withdrawal and release: a leaked count
\* would shut readers, or everyone, out for good.
CountersExact ==
  /\ readers = Cardinality(ReadersInside)
  /\ waitingWriters = Cardinality(WritersQueued)
  /\ writer <=> \E c \in Writers : pc[c] = "holding"

\* No wake-up is lost: a caller asleep on the channel would fail the test if
\* it ran now, and the channel it sleeps on is the one notify will close.
NoLostWakeup ==
  \A c \in Callers : pc[c] = "parked" => changed /\ ~Eligible(c, waitingWriters)

\* The gate implements reader/writer exclusion with queued writers ahead of
\* new readers.
RW == INSTANCE ReadWriteExclusion WITH
        held <- Holding,
        queued <- WritersQueued

Exclusive == RW!Spec

\* "waiting only until ctx expires": a caller with a deadline leaves Acquire,
\* though the holder of the gate may never release it.
BoundedWait == \A c \in Callers \ Patient : Waiting(c) ~> ~Waiting(c)

\* "sustained reads cannot starve publication": a writer waiting without a
\* deadline (abort, lease cleanup) is admitted although readers keep coming,
\* if those inside leave and other writers stop coming.
WriterNotStarved ==
  \A c \in Writers \cap Patient :
    HoldersLeave /\ <>[](\A d \in Writers \ {c} : pc[d] = "idle") =>
      (Waiting(c) ~> pc[c] = "holding")
=============================================================================
