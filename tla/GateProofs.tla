----------------------------- MODULE GateProofs -----------------------------
(***************************************************************************)
(* What Gate.tla keeps for every finite set of callers: its counters are   *)
(* exact, a writer is alone, no wake-up is lost, and it implements         *)
(* ReadWriteExclusion.                                                     *)
(*                                                                         *)
(* The four invariants are proved together: exclusion rests on the         *)
(* counters being exact, and the counters on the place of every caller.    *)
(***************************************************************************)
EXTENDS Gate, TLAPS, FiniteSetTheorems

IInv == TypeOK /\ Exclusion /\ CountersExact /\ NoLostWakeup

\* The queue once caller c has announced itself.
Announced(c) == WritersQueued \cup ({c} \cap Writers)

-----------------------------------------------------------------------------
\* The sets the counters count are finite, and empty exactly when they are 0.
LEMMA CountedSets ==
  /\ IsFiniteSet(ReadersInside) /\ Cardinality(ReadersInside) \in Nat
  /\ IsFiniteSet(WritersQueued) /\ Cardinality(WritersQueued) \in Nat
  /\ Cardinality(ReadersInside) = 0 <=> ReadersInside = {}
  /\ Cardinality(WritersQueued) = 0 <=> WritersQueued = {}
<1>1. ReadersInside \in SUBSET Readers /\ WritersQueued \in SUBSET Writers
  BY DEF ReadersInside, WritersQueued
<1>2. IsFiniteSet(ReadersInside) /\ IsFiniteSet(WritersQueued)
  BY <1>1, FS_Subset, CallersAssumption
<1> QED
  BY <1>2, FS_CardinalityType, FS_EmptySet

LEMMA AnnouncedFinite ==
  ASSUME NEW c
  PROVE  IsFiniteSet(Announced(c)) /\ Cardinality(Announced(c)) \in Nat
<1>1. Announced(c) \in SUBSET Writers
  BY DEF Announced, WritersQueued
<1> QED
  BY <1>1, FS_Subset, FS_CardinalityType, CallersAssumption

\* Acquire and Resume are the same turn of the loop: the caller is outside,
\* and the number it works with counts the queue with itself in it.
LEMMA TurnOfAcquire ==
  ASSUME IInv, NEW c \in Callers, Acquire(c) \/ Resume(c)
  PROVE  /\ pc[c] # "holding"
         /\ \E ww \in Nat : /\ Turn(c, ww)
                            /\ ww = Cardinality(Announced(c))
                            /\ waitingWriters # 0 => ww # 0
<1>0. waitingWriters = Cardinality(WritersQueued) /\ waitingWriters \in Nat
  BY DEF IInv, CountersExact, TypeOK
<1>1. CASE Acquire(c) /\ c \in Writers
  <2>1. Announced(c) = WritersQueued \cup {c} /\ c \notin WritersQueued
    BY <1>1 DEF Announced, Acquire, WritersQueued, Waiting
  <2>2. Cardinality(Announced(c)) = waitingWriters + 1
    BY <1>0, <2>1, CountedSets, FS_AddElement
  <2> QED
    BY <1>0, <1>1, <2>2 DEF Acquire
<1>2. CASE Acquire(c) /\ c \notin Writers
  <2>1. Announced(c) = WritersQueued
    BY <1>2 DEF Announced
  <2> QED
    BY <1>0, <1>2, <2>1 DEF Acquire
<1>3. CASE Resume(c)
  <2>1. Announced(c) = WritersQueued
    BY <1>3 DEF Announced, Resume, WritersQueued, Waiting
  <2> QED
    BY <1>0, <1>3, <2>1 DEF Resume
<1> QED
  BY <1>1, <1>2, <1>3

\* After notify nobody sleeps on the old channel, and nobody moved but the
\* caller and the sleepers it woke.
LEMMA NotifyWakes ==
  ASSUME IInv, NEW c \in Callers, Notify([pc EXCEPT ![c] = "idle"])
  PROVE  /\ pc' \in [Callers -> Places]
         /\ changed' = FALSE
         /\ pc'[c] = "idle"
         /\ \A d \in Callers : pc'[d] # "parked"
         /\ \A d \in Callers \ {c} : pc'[d] = "holding" <=> pc[d] = "holding"
         /\ \A d \in Callers \ {c} : Waiting(d)' <=> Waiting(d)
<1>1. CASE changed
  BY <1>1 DEF Notify, IInv, TypeOK, Places, Waiting
<1>2. CASE ~changed
  <2>1. \A d \in Callers : pc[d] # "parked"
    BY <1>2 DEF IInv, NoLostWakeup
  <2> QED
    BY <1>2, <2>1 DEF Notify, IInv, TypeOK, Places, Waiting
<1> QED
  BY <1>1, <1>2 DEF IInv, TypeOK

-----------------------------------------------------------------------------
\* A caller that gives up keeps the invariant.
LEMMA GiveUpKeeps ==
  ASSUME IInv, NEW c \in Callers, NEW ww \in Nat, pc[c] # "holding",
         ww = Cardinality(Announced(c)), waitingWriters # 0 => ww # 0,
         GiveUp(c, ww)
  PROVE  IInv' /\ Holding' = Holding /\ WritersQueued' = WritersQueued \ {c}
<1>0. /\ readers' = readers /\ writer' = writer /\ done' \in SUBSET Callers
      /\ pc' \in [Callers -> Places] /\ changed' \in BOOLEAN
      /\ \A d \in Callers : pc'[d] = "holding" <=> pc[d] = "holding"
      /\ WritersQueued' = Announced(c) \ ({c} \cap Writers)
      /\ NoLostWakeup'
  <2>1. CASE c \in Writers
    <3>1. Notify([pc EXCEPT ![c] = "idle"]) /\ readers' = readers /\ writer' = writer
      BY <2>1 DEF GiveUp
    <3>2. /\ pc'[c] = "idle" /\ pc' \in [Callers -> Places] /\ changed' = FALSE
          /\ \A d \in Callers : pc'[d] # "parked"
          /\ \A d \in Callers \ {c} : pc'[d] = "holding" <=> pc[d] = "holding"
          /\ \A d \in Callers \ {c} : Waiting(d)' <=> Waiting(d)
      BY <3>1, NotifyWakes
    <3>3. NoLostWakeup'
      BY <3>2 DEF NoLostWakeup
    <3>4. ~Waiting(c)'
      BY <3>2 DEF Waiting
    <3>5. WritersQueued' = Announced(c) \ {c}
      BY <3>2, <3>4, <2>1 DEF WritersQueued, Announced, Callers
    <3> QED
      BY <3>1, <3>2, <3>3, <3>5, <2>1 DEF GiveUp, IInv, TypeOK
  <2>2. CASE c \notin Writers
    <3>1. /\ pc' = [pc EXCEPT ![c] = "idle"] /\ UNCHANGED <<readers, writer, changed>>
          /\ waitingWriters' = ww /\ done' = done \ {c}
      BY <2>2 DEF GiveUp
    <3>2. Announced(c) = WritersQueued /\ waitingWriters' = waitingWriters
      BY <3>1, <2>2 DEF Announced, IInv, CountersExact
    <3>3. WritersQueued' = WritersQueued
      BY <3>1, <2>2 DEF WritersQueued, Waiting, IInv, TypeOK, Callers
    <3>4. NoLostWakeup'
      BY <3>1, <3>2 DEF NoLostWakeup, Eligible, IInv, TypeOK
    <3> QED
      BY <3>1, <3>2, <3>3, <3>4, <2>2 DEF IInv, TypeOK, Places
  <2> QED
    BY <2>1, <2>2
<1>1. ReadersInside' = ReadersInside /\ Holding' = Holding
  BY <1>0 DEF ReadersInside, Holding, Callers
<1>2. waitingWriters' = Cardinality(WritersQueued') /\ waitingWriters' \in Nat
  <2>1. IsFiniteSet(Announced(c))
    BY AnnouncedFinite
  <2>2. CASE c \in Writers
    <3>1. WritersQueued' = Announced(c) \ {c} /\ c \in Announced(c)
      BY <1>0, <2>2 DEF Announced
    <3>2. Cardinality(WritersQueued') = ww - 1 /\ IsFiniteSet(WritersQueued')
      BY <2>1, <3>1, FS_RemoveElement
    <3>3. waitingWriters' = ww - 1
      BY <2>2 DEF GiveUp
    <3> QED
      BY <3>2, <3>3, FS_CardinalityType
  <2>3. CASE c \notin Writers
    BY <1>0, <2>3 DEF GiveUp
  <2> QED
    BY <2>2, <2>3
<1>3. TypeOK'
  BY <1>0, <1>2 DEF TypeOK, IInv
<1>4. Exclusion'
  BY <1>1 DEF Exclusion, IInv
<1>5. CountersExact'
  BY <1>0, <1>1, <1>2 DEF CountersExact, IInv, Callers
<1>6. WritersQueued' = WritersQueued \ {c}
  BY <1>0 DEF Announced, WritersQueued
<1> QED
  BY <1>0, <1>1, <1>3, <1>4, <1>5, <1>6 DEF IInv

\* A caller let in keeps the invariant: a reader finds no writer inside, a
\* writer finds nobody.
LEMMA AdmitKeeps ==
  ASSUME IInv, NEW c \in Callers, NEW ww \in Nat, pc[c] # "holding",
         ww = Cardinality(Announced(c)), waitingWriters # 0 => ww # 0,
         Admit(c, ww)
  PROVE  /\ IInv'
         /\ Holding' = Holding \cup {c} /\ WritersQueued' = WritersQueued \ {c}
         /\ \/ c \in Writers /\ Holding = {}
            \/ c \in Readers /\ Holding \subseteq Readers /\ WritersQueued = {}
<1>0. /\ pc' = [pc EXCEPT ![c] = "holding"] /\ pc' \in [Callers -> Places]
      /\ changed' = changed /\ done' = done /\ ~writer
      /\ WritersQueued' = Announced(c) \ ({c} \cap Writers)
      /\ Holding' = Holding \cup {c}
      /\ \A d \in Holding : d \in Readers
  <2>1. pc' = [pc EXCEPT ![c] = "holding"] /\ pc' \in [Callers -> Places]
    BY DEF Admit, IInv, TypeOK, Places
  <2>2. WritersQueued' = Announced(c) \ ({c} \cap Writers)
    BY <2>1 DEF WritersQueued, Announced, Waiting, Callers, IInv, TypeOK
  <2>3. Holding' = Holding \cup {c}
    BY <2>1 DEF Holding, IInv, TypeOK
  <2>4. ~writer /\ changed' = changed /\ done' = done
    BY DEF Admit, Eligible
  <2>5. \A d \in Holding : d \in Readers
    BY <2>4 DEF Holding, IInv, CountersExact, Callers
  <2> QED
    BY <2>1, <2>2, <2>3, <2>4, <2>5
<1>a. WritersQueued' = WritersQueued \ {c}
  BY <1>0 DEF Announced, WritersQueued
<1>1. CASE c \in Writers
  <2>1. /\ waitingWriters' = ww - 1 /\ writer' = TRUE /\ readers' = readers
        /\ readers = 0
    BY <1>1, CallersAssumption DEF Admit, Eligible
  <2>2. ReadersInside' = ReadersInside /\ ReadersInside = {}
    BY <1>0, <1>1, <2>1, CallersAssumption, CountedSets
       DEF ReadersInside, IInv, CountersExact, TypeOK, Callers
  <2>3. Holding = {}
    BY <1>0, <2>2 DEF Holding, ReadersInside
  <2>4. waitingWriters' = Cardinality(WritersQueued') /\ waitingWriters' \in Nat
    <3>1. WritersQueued' = Announced(c) \ {c} /\ c \in Announced(c)
      BY <1>0, <1>1 DEF Announced
    <3>2. Cardinality(WritersQueued') = ww - 1 /\ IsFiniteSet(WritersQueued')
      BY <3>1, AnnouncedFinite, FS_RemoveElement
    <3> QED
      BY <2>1, <3>2, FS_CardinalityType
  <2>5. TypeOK'
    BY <1>0, <2>1, <2>4 DEF TypeOK, IInv
  <2>6. Exclusion'
    BY <1>0, <2>3 DEF Exclusion
  <2>7. CountersExact'
    BY <1>0, <1>1, <2>1, <2>2, <2>4 DEF CountersExact, IInv, TypeOK
  <2>8. NoLostWakeup'
    BY <1>0, <2>1 DEF NoLostWakeup, Eligible, IInv, TypeOK
  <2> QED
    BY <1>0, <1>a, <1>1, <2>3, <2>5, <2>6, <2>7, <2>8 DEF IInv
<1>2. CASE c \in Readers /\ c \notin Writers
  <2>1. waitingWriters' = ww /\ readers' = readers + 1 /\ writer' = writer
    BY <1>2 DEF Admit
  <2>2. Announced(c) = WritersQueued /\ WritersQueued' = WritersQueued
    BY <1>0, <1>2 DEF Announced
  <2>3. ReadersInside' = ReadersInside \cup {c} /\ c \notin ReadersInside
    BY <1>0, <1>2 DEF ReadersInside, IInv, TypeOK, Callers
  <2>4. readers' = Cardinality(ReadersInside') /\ readers' \in Nat
    <3>1. Cardinality(ReadersInside') = Cardinality(ReadersInside) + 1
      BY <2>3, CountedSets, FS_AddElement
    <3> QED
      BY <2>1, <3>1 DEF IInv, CountersExact, TypeOK
  <2>5. waitingWriters' = waitingWriters /\ waitingWriters' = Cardinality(WritersQueued')
    BY <2>1, <2>2 DEF IInv, CountersExact
  <2>6. TypeOK'
    BY <1>0, <2>1, <2>4, <2>5 DEF TypeOK, IInv
  <2>7. Exclusion'
    BY <1>0, <1>2 DEF Exclusion
  <2>8. CountersExact'
    BY <1>0, <1>2, <2>1, <2>4, <2>5 DEF CountersExact, IInv, TypeOK, Callers
  <2>9. NoLostWakeup'
    BY <1>0, <2>1, <2>5 DEF NoLostWakeup, Eligible, IInv, TypeOK
  <2>10. Holding \subseteq Readers /\ WritersQueued = {}
    <3>1. ww = 0
      BY <1>2 DEF Admit, Eligible
    <3> QED
      BY <1>0, <2>2, <3>1, CountedSets
  <2> QED
    BY <1>0, <1>a, <1>2, <2>6, <2>7, <2>8, <2>9, <2>10 DEF IInv
<1> QED
  BY <1>1, <1>2 DEF Callers

\* A caller that goes to sleep keeps the invariant: announcing a writer makes
\* no sleeper eligible.
LEMMA ParkKeeps ==
  ASSUME IInv, NEW c \in Callers, NEW ww \in Nat, pc[c] # "holding",
         ww = Cardinality(Announced(c)), waitingWriters # 0 => ww # 0,
         Park(c, ww)
  PROVE  IInv' /\ Holding' = Holding /\ WritersQueued' = Announced(c)
<1>0. /\ pc' = [pc EXCEPT ![c] = "parked"] /\ pc' \in [Callers -> Places]
      /\ changed' = TRUE /\ UNCHANGED <<readers, writer, done>>
      /\ waitingWriters' = ww /\ ~Eligible(c, ww)
  BY DEF Park, IInv, TypeOK, Places
<1>1. WritersQueued' = Announced(c)
  BY <1>0 DEF WritersQueued, Announced, Waiting, Callers, IInv, TypeOK
<1>2. ReadersInside' = ReadersInside /\ Holding' = Holding
  BY <1>0 DEF ReadersInside, Holding, Callers, IInv, TypeOK
<1>3. TypeOK'
  BY <1>0 DEF TypeOK, IInv
<1>4. Exclusion'
  BY <1>2 DEF Exclusion, IInv
<1>5. CountersExact'
  BY <1>0, <1>1, <1>2 DEF CountersExact, IInv, TypeOK, Callers
<1>6. NoLostWakeup'
  BY <1>0 DEF NoLostWakeup, Eligible, IInv, TypeOK
<1> QED
  BY <1>1, <1>2, <1>3, <1>4, <1>5, <1>6 DEF IInv

\* The release function keeps the invariant.
LEMMA ReleaseKeeps ==
  ASSUME IInv, NEW c \in Callers, Release(c)
  PROVE  /\ IInv'
         /\ c \in Holding /\ Holding' = Holding \ {c} /\ WritersQueued' = WritersQueued
<1>1. /\ pc'[c] = "idle" /\ pc' \in [Callers -> Places] /\ changed' = FALSE
      /\ \A d \in Callers : pc'[d] # "parked"
      /\ \A d \in Callers \ {c} : pc'[d] = "holding" <=> pc[d] = "holding"
      /\ \A d \in Callers \ {c} : Waiting(d)' <=> Waiting(d)
  BY NotifyWakes DEF Release
<1>2. waitingWriters' = waitingWriters /\ pc[c] = "holding" /\ done' = done \ {c}
  BY DEF Release
<1>3. Holding' = Holding \ {c} /\ c \in Holding
  BY <1>1, <1>2 DEF Holding
<1>4. WritersQueued' = WritersQueued
  <2>1. ~Waiting(c) /\ ~Waiting(c)'
    BY <1>1, <1>2 DEF Waiting
  <2> QED
    BY <1>1, <2>1 DEF WritersQueued, Callers
<1>5. NoLostWakeup'
  BY <1>1 DEF NoLostWakeup
<1>6. Exclusion'
  BY <1>3 DEF Exclusion, IInv
<1>7. CASE c \in Writers
  <2>1. writer' = FALSE /\ readers' = readers
    BY <1>7 DEF Release
  <2>2. ReadersInside' = ReadersInside
    BY <1>1, <1>7, CallersAssumption DEF ReadersInside, Callers
  <2>3. \A d \in Writers : pc'[d] # "holding"
    BY <1>1, <1>2, <1>3, <1>7, CallersAssumption DEF Exclusion, IInv, Holding, Callers
  <2> QED
    BY <1>1, <1>2, <1>3, <1>4, <1>5, <1>6, <2>1, <2>2, <2>3
       DEF IInv, TypeOK, CountersExact
<1>8. CASE c \in Readers /\ c \notin Writers
  <2>1. writer' = writer /\ readers' = readers - 1
    BY <1>8 DEF Release
  <2>2. ReadersInside' = ReadersInside \ {c} /\ c \in ReadersInside
    BY <1>1, <1>2, <1>8 DEF ReadersInside, Callers
  <2>3. readers' = Cardinality(ReadersInside') /\ IsFiniteSet(ReadersInside')
    BY <2>1, <2>2, CountedSets, FS_RemoveElement DEF IInv, CountersExact
  <2>4. readers' \in Nat
    BY <2>3, FS_CardinalityType
  <2>5. (\E d \in Writers : pc'[d] = "holding") <=> (\E d \in Writers : pc[d] = "holding")
    BY <1>1, <1>8 DEF Callers
  <2> QED
    BY <1>1, <1>2, <1>3, <1>4, <1>5, <1>6, <2>1, <2>3, <2>4, <2>5
       DEF IInv, TypeOK, CountersExact
<1> QED
  BY <1>7, <1>8 DEF Callers

-----------------------------------------------------------------------------
LEMMA InitInv == Init => IInv
<1> SUFFICES ASSUME Init PROVE IInv
  OBVIOUS
<1>1. ReadersInside = {} /\ WritersQueued = {} /\ Holding = {}
  BY DEF Init, ReadersInside, WritersQueued, Holding, Waiting, Callers
<1>2. TypeOK
  BY DEF Init, TypeOK, Places
<1>3. CountersExact
  BY <1>1, FS_EmptySet DEF Init, CountersExact, Callers
<1>4. Exclusion /\ NoLostWakeup
  BY <1>1 DEF Init, Exclusion, NoLostWakeup
<1> QED
  BY <1>2, <1>3, <1>4 DEF IInv

LEMMA NextInv == IInv /\ [Next]_vars => IInv'
<1> SUFFICES ASSUME IInv, [Next]_vars PROVE IInv'
  OBVIOUS
<1>1. ASSUME NEW c \in Callers, Acquire(c) \/ Resume(c)
      PROVE  IInv'
  <2>1. PICK ww \in Nat : /\ Turn(c, ww)
                          /\ ww = Cardinality(Announced(c))
                          /\ waitingWriters # 0 => ww # 0
    BY <1>1, TurnOfAcquire
  <2>2. pc[c] # "holding"
    BY <1>1, TurnOfAcquire
  <2> QED
    BY <2>1, <2>2, GiveUpKeeps, AdmitKeeps, ParkKeeps DEF Turn
<1>2. ASSUME NEW c \in Callers, Release(c)
      PROVE  IInv'
  BY <1>2, ReleaseKeeps
<1>3. ASSUME NEW c \in Callers, Expire(c)
      PROVE  IInv'
  BY <1>3 DEF Expire, IInv, TypeOK, Exclusion, CountersExact, NoLostWakeup,
              Eligible, Holding, ReadersInside, WritersQueued, Waiting
<1>4. CASE UNCHANGED vars
  BY <1>4 DEF vars, IInv, TypeOK, Exclusion, CountersExact, NoLostWakeup,
              Eligible, Holding, ReadersInside, WritersQueued, Waiting
<1> QED
  BY <1>1, <1>2, <1>3, <1>4 DEF Next

\* Every reachable state of gate.go satisfies the inductive invariant.
THEOREM GateInvariant == Spec => []IInv
  BY InitInv, NextInv, PTL DEF Spec

\* The gate's fields have their types: readers and waitingWriters, Go ints, are
\* never decremented below zero.
THEOREM TypeCorrect == Spec => []TypeOK
<1>1. IInv => TypeOK
  BY DEF IInv
<1> QED
  BY <1>1, GateInvariant, PTL

\* A writer inside the gate is alone, for any number of callers.
THEOREM WriterAlone == Spec => []Exclusion
<1>1. IInv => Exclusion
  BY DEF IInv
<1> QED
  BY <1>1, GateInvariant, PTL

\* No admission, withdrawal or release leaks a count.
THEOREM CountsNeverLeak == Spec => []CountersExact
<1>1. IInv => CountersExact
  BY DEF IInv
<1> QED
  BY <1>1, GateInvariant, PTL

\* A caller asleep is never one that could have been let in.
THEOREM WakeupsNeverLost == Spec => []NoLostWakeup
<1>1. IInv => NoLostWakeup
  BY DEF IInv
<1> QED
  BY <1>1, GateInvariant, PTL

-----------------------------------------------------------------------------
\* Every step of gate.go is a step of the abstract gate or changes nothing of
\* what the abstract gate shows.
LEMMA StepRefines == IInv /\ [Next]_vars => [RW!Next]_RW!vars
<1> SUFFICES ASSUME IInv, [Next]_vars PROVE [RW!Next]_RW!vars
  OBVIOUS
<1> USE DEF RW!vars, RW!Next
<1>1. ASSUME NEW c \in Callers, Acquire(c) \/ Resume(c)
      PROVE  [RW!Next]_RW!vars
  <2>0. pc[c] # "holding" /\ c \notin Holding
    BY <1>1, TurnOfAcquire DEF Holding
  <2>1. PICK ww \in Nat : /\ Turn(c, ww)
                          /\ ww = Cardinality(Announced(c))
                          /\ waitingWriters # 0 => ww # 0
    BY <1>1, TurnOfAcquire
  <2>2. CASE GiveUp(c, ww)
    <3>1. Holding' = Holding /\ WritersQueued' = WritersQueued \ {c}
      BY <2>0, <2>1, <2>2, GiveUpKeeps
    <3>2. CASE c \in WritersQueued
      BY <3>1, <3>2 DEF RW!Withdraw, WritersQueued
    <3>3. CASE c \notin WritersQueued
      BY <3>1, <3>3
    <3> QED
      BY <3>2, <3>3
  <2>3. CASE Admit(c, ww)
    <3>1. /\ Holding' = Holding \cup {c} /\ WritersQueued' = WritersQueued \ {c}
          /\ \/ c \in Writers /\ Holding = {}
             \/ c \in Readers /\ Holding \subseteq Readers /\ WritersQueued = {}
      BY <2>0, <2>1, <2>3, AdmitKeeps
    <3>2. CASE c \in Writers /\ Holding = {}
      BY <3>1, <3>2 DEF RW!AdmitWriter
    <3>3. CASE c \in Readers /\ Holding \subseteq Readers /\ WritersQueued = {}
      BY <2>0, <3>1, <3>3 DEF RW!AdmitReader
    <3> QED
      BY <3>1, <3>2, <3>3
  <2>4. CASE Park(c, ww)
    <3>1. Holding' = Holding /\ WritersQueued' = Announced(c)
      BY <2>0, <2>1, <2>4, ParkKeeps
    <3>2. CASE c \in Writers \ WritersQueued
      BY <2>0, <3>1, <3>2 DEF RW!Enqueue, Announced
    <3>3. CASE c \notin Writers \ WritersQueued
      BY <3>1, <3>3 DEF Announced
    <3> QED
      BY <3>2, <3>3
  <2> QED
    BY <2>1, <2>2, <2>3, <2>4 DEF Turn
<1>2. ASSUME NEW c \in Callers, Release(c)
      PROVE  [RW!Next]_RW!vars
  BY <1>2, ReleaseKeeps DEF RW!Leave, Callers
<1>3. ASSUME NEW c \in Callers, Expire(c)
      PROVE  [RW!Next]_RW!vars
  BY <1>3 DEF Expire, Holding, WritersQueued, Waiting
<1>4. CASE UNCHANGED vars
  BY <1>4 DEF vars, Holding, WritersQueued, Waiting
<1> QED
  BY <1>1, <1>2, <1>3, <1>4 DEF Next

\* gate.go implements reader/writer exclusion with queued writers ahead of new
\* readers, whatever the number of callers.
THEOREM GateImplements == Spec => Exclusive
<1>1. Init => RW!Init
  BY DEF Init, RW!Init, Holding, WritersQueued, Waiting, Callers
<1> QED
  BY <1>1, StepRefines, GateInvariant, PTL DEF Spec, Exclusive, RW!Spec
=============================================================================
