---------------------------- MODULE StartupProofs ----------------------------
(***************************************************************************)
(* Proofs about Startup, for any number of processes, hives, declarations  *)
(* and restarts: the runtime directory and the databases have one owner,   *)
(* no exit but a crash leaves anything behind, what the kernel is told at  *)
(* registration is what the databases hold, and no root key changes.       *)
(***************************************************************************)
EXTENDS Startup, TLAPS

\* What an argument vector is made of, and the values a root key can have.
Vectors == Invocations \cup {<<>>}
Roots == Nat \cup Files

\* The variables have their types, and a store has been made by a process that
\* has been started.
Typed ==
  /\ TypeOK
  /\ db \in [Files -> [version : Nat, root : Roots \cup {NoRoot}, seq : 0..MaxSeq]]
  /\ args \in [Daemons -> Vectors] /\ index \in [Daemons -> Nat]
  /\ found \in [Daemons -> SUBSET (Daemons \X (1..MaxStarts) \X Nat)]
  /\ rootGUID \in [Daemons -> Seq(Roots)] /\ maxSequence \in [Daemons -> 0..MaxSeq]
  /\ code \in [Daemons -> {"ok", "error", "crash"}]
  /\ \A s \in dirs : /\ s \in Daemons \X (1..MaxStarts) \X Nat
                     /\ s[2] <= start[s[1]]

\* The runtime lock is held from the end of "locking" until the process is down.
Held ==
  \A d \in Daemons : holder = d <=> pc[d] \notin {"down", "locking"}

\* How far d has got in its declarations: the one being opened, and the root
\* keys it has read.
Progress(d) ==
  /\ pc[d] # "down" => args[d] # <<>> /\ start[d] # 0
  /\ pc[d] \in {"locking", "listing", "sweeping"} => index[d] = 1 /\ rootGUID[d] = <<>>
  /\ pc[d] \in {"making", "schema", "root", "sequence"} => index[d] \in 1..Len(args[d])
  /\ pc[d] \in {"making", "schema", "root"} => Len(rootGUID[d]) + 1 = index[d]
  /\ pc[d] = "sequence" => Len(rootGUID[d]) = index[d]
  /\ pc[d] \in {"device", "registering", "serving", "closeDevice"} =>
       index[d] = Len(args[d]) + 1 /\ Len(rootGUID[d]) = Len(args[d])
  /\ Len(rootGUID[d]) <= Len(args[d])

\* The declarations d has a volatile store for.
Stored(d) ==
  {i \in 1..Len(args[d]) : \/ i < index[d]
                           \/ i = index[d] /\ pc[d] \in {"schema", "root", "sequence"}}

\* What is under /run/loregd while d holds the lock.
Stores(d) ==
  /\ pc[d] = "sweeping" => dirs \subseteq found[d]
  /\ Inside(d) => \A s \in dirs : s[1] = d /\ s[2] = start[d]
  /\ Inside(d) /\ pc[d] # "closeHives" =>
       /\ \A s \in dirs : s[3] \in Stored(d)
       /\ \A i \in Stored(d) : Store(d, i) \in dirs
  /\ pc[d] = "closeHives" => \A s \in dirs : s[3] <= Len(rootGUID[d])
  /\ \/ pc[d] \in {"locking", "listing", "sweeping", "unlock"}
     \/ pc[d] = "down" /\ code[d] # "crash"
     => \A s \in dirs : ~(s[1] = d /\ s[2] = start[d])

\* What d knows of the databases it has opened: their version, their root keys
\* and, until the kernel hands out numbers, a bound on those they hold.
Known(d) ==
  /\ \A i \in 1..Len(args[d]) :
       i < index[d] \/ (i = index[d] /\ pc[d] \in {"root", "sequence"})
         => db[args[d][i].file].version = SchemaVersion
  /\ \A i \in 1..Len(rootGUID[d]) : rootGUID[d][i] = db[args[d][i].file].root
                                    /\ rootGUID[d][i] # NoRoot
  /\ pc[d] \in {"making", "schema", "root", "sequence", "device", "registering"} =>
       \A i \in 1..Len(args[d]) : i < index[d] => db[args[d][i].file].seq <= maxSequence[d]

\* The source the kernel knows is the process that serves.
Registered ==
  /\ \A d \in Daemons : source.by = d => pc[d] \in {"serving", "closeDevice"}
  /\ \A d \in Daemons : pc[d] = "serving" => source.by = d
  /\ source = [by |-> source.by, roots |-> source.roots, seq |-> source.seq]
  /\ RegisteredState

\* The inductive invariant.
IInv ==
  /\ Typed /\ Held /\ Registered
  /\ \A d \in Daemons : Progress(d) /\ Stores(d) /\ Known(d)

\* Only d moves: what the other processes know is what they knew.
Only(d) ==
  \A e \in Daemons \ {d} :
    /\ pc'[e] = pc[e] /\ args'[e] = args[e] /\ start'[e] = start[e]
    /\ index'[e] = index[e] /\ found'[e] = found[e] /\ rootGUID'[e] = rootGUID[e]
    /\ maxSequence'[e] = maxSequence[e] /\ code'[e] = code[e]

\* What d may do to the files: make stores of its own and remove any when it
\* holds the lock, and write databases so that versions and root keys stay.
Harmless(d) ==
  /\ dirs' # dirs => holder = d /\ \A s \in dirs' : s \in dirs \/ s[1] = d
  /\ \A f \in Files : /\ db[f].version = SchemaVersion => db'[f].version = SchemaVersion
                      /\ db[f].root # NoRoot => db'[f].root = db[f].root
                      /\ db'[f].seq = db[f].seq \/ holder = d

-----------------------------------------------------------------------------
\* An argument vector is a sequence of declarations of database files.
LEMMA VectorFacts ==
  \A a \in Vectors : /\ Len(a) \in Nat /\ DOMAIN a = 1..Len(a)
                     /\ \A i \in 1..Len(a) : a[i].file \in Files
<1> SUFFICES ASSUME NEW a \in Invocations
             PROVE  /\ Len(a) \in Nat /\ DOMAIN a = 1..Len(a)
                    /\ \A i \in 1..Len(a) : a[i].file \in Files
  BY DEF Vectors
<1> DEFINE S == [name : {a[i].name : i \in DOMAIN a}, file : Files]
<1>1. a \in Seq(S) BY StartupAssumption
<1>2. \A x \in S : x.file \in Files OBVIOUS
<1> HIDE DEF S
<1> QED BY <1>1, <1>2

\* The larger of two numbers.
LEMMA MaxFacts ==
  ASSUME NEW m \in Nat, NEW n \in Nat
  PROVE  Max({m, n}) \in {m, n} /\ Max({m, n}) >= m /\ Max({m, n}) >= n
<1>1. \E x \in {m, n} : \A y \in {m, n} : x >= y
  <2>1. CASE m >= n BY <2>1
  <2>2. CASE n >= m BY <2>2
  <2> QED BY <2>1, <2>2
<1> QED BY <1>1 DEF Max

\* The lock is held by one process, so the others are down or waiting for it:
\* what d does to the files does not disturb them.
LEMMA OthersKeep ==
  ASSUME IInv, NEW d \in Daemons, Only(d), Harmless(d)
  PROVE  \A e \in Daemons \ {d} : Progress(e)' /\ Stores(e)' /\ Known(e)'
<1> SUFFICES ASSUME NEW e \in Daemons \ {d} PROVE Progress(e)' /\ Stores(e)' /\ Known(e)'
  OBVIOUS
<1>1. Progress(e) /\ Stores(e) /\ Known(e) /\ Typed BY DEF IInv
<1>2. /\ pc'[e] = pc[e] /\ args'[e] = args[e] /\ start'[e] = start[e]
      /\ index'[e] = index[e] /\ found'[e] = found[e] /\ rootGUID'[e] = rootGUID[e]
      /\ maxSequence'[e] = maxSequence[e] /\ code'[e] = code[e]
  BY DEF Only
<1>3. holder = d => pc[e] \in {"down", "locking"} BY DEF IInv, Held
<1>4. Progress(e)' BY <1>1, <1>2 DEF Progress
<1>5. Stores(e)'
  <2>1. CASE dirs' = dirs BY <2>1, <1>1, <1>2 DEF Stores, Inside, Stored, Store
  <2>2. CASE dirs' # dirs
    <3>1. pc[e] \in {"down", "locking"} /\ \A s \in dirs' : s \in dirs \/ s[1] = d
      BY <2>2, <1>3 DEF Harmless
    <3>2. ~Inside(e)' /\ pc'[e] \notin {"sweeping", "closeHives"} BY <3>1, <1>2 DEF Inside
    <3> QED BY <3>1, <3>2, <1>1, <1>2 DEF Stores
  <2> QED BY <2>1, <2>2
<1>6. Known(e)'
  <2>1. args[e] \in Vectors /\ rootGUID[e] \in Seq(Roots) BY <1>1 DEF Typed
  <2>2. /\ Len(args[e]) \in Nat /\ \A i \in 1..Len(args[e]) : args[e][i].file \in Files
        /\ Len(rootGUID[e]) \in Nat /\ Len(rootGUID[e]) <= Len(args[e])
    BY <2>1, <1>1, VectorFacts DEF Progress
  <2>3. \A i \in 1..Len(args[e]) :
          i < index[e] \/ (i = index[e] /\ pc[e] \in {"root", "sequence"})
            => db'[args[e][i].file].version = SchemaVersion
    BY <1>1, <2>2 DEF Known, Harmless
  <2>4. \A i \in 1..Len(rootGUID[e]) : rootGUID[e][i] = db'[args[e][i].file].root
                                       /\ rootGUID[e][i] # NoRoot
    BY <1>1, <2>2 DEF Known, Harmless
  <2>5. pc[e] \in {"making", "schema", "root", "sequence", "device", "registering"} =>
          \A i \in 1..Len(args[e]) : i < index[e] => db'[args[e][i].file].seq <= maxSequence[e]
    BY <1>1, <1>3, <2>2 DEF Known, Harmless
  <2> QED BY <1>2, <2>3, <2>4, <2>5 DEF Known
<1> QED BY <1>4, <1>5, <1>6

\* A registered source stays what it was: the databases it serves are its own.
LEMMA SourceKeeps ==
  ASSUME IInv, NEW d \in Daemons, Only(d), Harmless(d), UNCHANGED source, pc'[d] # "serving",
         source.by = d => pc'[d] = "closeDevice" /\ args'[d] = args[d] /\ UNCHANGED db
  PROVE  Registered'
<1>1. Registered BY DEF IInv
<1>2. \A e \in Daemons : source.by = e => pc'[e] \in {"serving", "closeDevice"}
  BY <1>1 DEF Registered, Only
<1>3. \A e \in Daemons : pc'[e] = "serving" => source.by = e
  BY <1>1 DEF Registered, Only
<1>4. RegisteredState'
  <2>1. CASE source.by = d BY <2>1, <1>1 DEF Registered, RegisteredState
  <2>2. CASE source.by \in Daemons \ {d}
    <3> DEFINE e == source.by
    <3>1. e \in Daemons \ {d} /\ pc[e] \in {"serving", "closeDevice"} BY <2>2, <1>1 DEF Registered
    <3>2. holder # d BY <3>1 DEF IInv, Held
    <3>3. args[e] \in Vectors /\ Known(e) /\ Progress(e) /\ args'[e] = args[e]
      BY <3>1 DEF IInv, Typed, Only
    <3>4. /\ DOMAIN args[e] = 1..Len(args[e]) /\ Len(rootGUID[e]) = Len(args[e])
          /\ \A i \in DOMAIN args[e] : args[e][i].file \in Files
      BY <3>1, <3>3, VectorFacts DEF Progress
    <3>5. \A i \in DOMAIN args[e] : /\ db'[args[e][i].file].root = db[args[e][i].file].root
                                    /\ db'[args[e][i].file].seq = db[args[e][i].file].seq
      BY <3>2, <3>3, <3>4 DEF Known, Harmless
    <3> QED BY <3>1, <3>3, <3>5, <1>1, StartupAssumption DEF Registered, RegisteredState
  <2>3. CASE source.by = Nobody BY <2>3 DEF RegisteredState
  <2> QED BY <2>1, <2>2, <2>3 DEF IInv, Typed, TypeOK
<1> QED BY <1>1, <1>2, <1>3, <1>4 DEF Registered

\* The parts of the invariant after a step of d.
LEMMA AfterStep ==
  ASSUME IInv, NEW d \in Daemons, Only(d), Harmless(d), Typed', Held', Registered',
         Progress(d)', Stores(d)', Known(d)'
  PROVE  IInv'
BY OthersKeep DEF IInv

-----------------------------------------------------------------------------
\* At first every process is down, and the databases are as they were found.
LEMMA InitIInv == Init => IInv
<1> SUFFICES ASSUME Init PROVE IInv OBVIOUS
<1>1. PICK old \in [Files -> (Versions \X (0..1)) \cup {<<Absent, 0>>}] :
        db = [f \in Files |-> [version |-> old[f][1], seq |-> old[f][2],
                               root |-> IF old[f][1] = Absent THEN NoRoot ELSE f]]
  BY DEF Init
<1>2. \A f \in Files : /\ db[f].version \in Versions \cup {Absent} /\ db[f].version \in Nat
                       /\ db[f].root \in {f, NoRoot} /\ db[f].seq \in 0..MaxSeq
                       /\ db[f] = [version |-> db[f].version, root |-> db[f].root,
                                   seq |-> db[f].seq]
  <2> SUFFICES ASSUME NEW f \in Files
               PROVE  /\ db[f].version \in Versions \cup {Absent} /\ db[f].version \in Nat
                      /\ db[f].root \in {f, NoRoot} /\ db[f].seq \in 0..MaxSeq
                      /\ db[f] = [version |-> db[f].version, root |-> db[f].root,
                                  seq |-> db[f].seq]
    OBVIOUS
  <2>1. old[f][1] \in Versions \cup {Absent} /\ old[f][2] \in 0..1
    <3>1. old[f] \in (Versions \X (0..1)) \cup {<<Absent, 0>>} OBVIOUS
    <3> QED BY <3>1
  <2>2. db[f] = [version |-> old[f][1], seq |-> old[f][2],
                 root |-> IF old[f][1] = Absent THEN NoRoot ELSE f]
    BY <1>1
  <2>3. old[f][1] \in Nat
    <3>1. Versions \subseteq Nat /\ Absent \in Nat BY StartupAssumption DEF Absent
    <3> QED BY <2>1, <3>1
  <2>4. old[f][2] \in 0..MaxSeq
    <3>1. MaxSeq \in Nat /\ MaxSeq # 0 BY StartupAssumption
    <3> QED BY <2>1, <3>1
  <2> QED BY <2>1, <2>2, <2>3, <2>4
<1>3. db \in [Files -> [version : Nat, root : Roots \cup {NoRoot}, seq : 0..MaxSeq]]
  BY <1>1, <1>2 DEF Roots
<1>4. Typed
  <2>1. rootGUID \in [Daemons -> Seq(Roots)] BY DEF Init
  <2>2. TypeOK BY <1>2, StartupAssumption DEF Init, TypeOK, Places, NoSource
  <2> QED BY <1>3, <2>1, <2>2, StartupAssumption DEF Init, Typed, Vectors
<1>5. Held /\ Registered
  BY StartupAssumption DEF Init, Held, Registered, RegisteredState, NoSource
<1>6. \A d \in Daemons : Progress(d) /\ Stores(d) /\ Known(d)
  BY DEF Init, Progress, Stores, Known, Inside
<1> QED BY <1>4, <1>5, <1>6 DEF IInv

\* A process is started; its stores will be named by the new start.
LEMMA RunKeeps == ASSUME IInv, NEW d \in Daemons, Run(d) PROVE IInv'
<1>1. Typed /\ Held /\ Registered /\ Progress(d) /\ Stores(d) /\ Known(d) BY DEF IInv
<1>2. /\ Only(d) /\ pc[d] = "down" /\ pc'[d] \in {"down", "locking"}
      /\ args'[d] \in Invocations
      /\ pc'[d] = "locking" => Len(args'[d]) > 0
      /\ start[d] < MaxStarts /\ start'[d] = start[d] + 1 /\ index'[d] = 1
      /\ rootGUID'[d] = <<>> /\ maxSequence'[d] = 0
      /\ UNCHANGED <<db, roots, dirs, holder, source, found>>
      /\ pc' \in [Daemons -> Places] /\ args' \in [Daemons -> Vectors]
      /\ code' \in [Daemons -> {"ok", "error", "crash"}]
  <2>1. PICK a \in Invocations :
          /\ args' = [args EXCEPT ![d] = a]
          /\ \/ Parse(a) /\ pc' = [pc EXCEPT ![d] = "locking"] /\ code' = code
             \/ pc' = pc /\ code' = [code EXCEPT ![d] = "error"]
    BY DEF Run, Goto
  <2>2. args'[d] = a /\ args' \in [Daemons -> Vectors] BY <1>1, <2>1 DEF Typed, Vectors
  <2>3. /\ pc' \in [Daemons -> Places] /\ code' \in [Daemons -> {"ok", "error", "crash"}]
        /\ pc[d] = "down" /\ pc'[d] \in {"down", "locking"}
        /\ pc'[d] = "locking" => Parse(a)
    BY <1>1, <2>1 DEF Run, Typed, TypeOK, Places
  <2>4. Only(d) BY <1>1, <2>1 DEF Run, Typed, TypeOK, Only
  <2>5. /\ start'[d] = start[d] + 1 /\ index'[d] = 1 /\ rootGUID'[d] = <<>>
        /\ maxSequence'[d] = 0
    BY <1>1 DEF Run, Typed, TypeOK
  <2> QED BY <2>2, <2>3, <2>4, <2>5 DEF Run, Parse
<1>3. Harmless(d) BY <1>2 DEF Harmless
<1>4. Typed'
  <2>1. start' \in [Daemons -> 0..MaxStarts]
    <3>1. start \in [Daemons -> 0..MaxStarts] /\ MaxStarts \in Nat
      BY <1>1, StartupAssumption DEF Typed, TypeOK
    <3>2. start[d] + 1 \in 0..MaxStarts BY <1>2, <3>1
    <3> QED BY <3>1, <3>2 DEF Run
  <2>2. index' \in [Daemons -> Nat] /\ maxSequence' \in [Daemons -> 0..MaxSeq]
    BY <1>1, StartupAssumption DEF Run, Typed
  <2>3. rootGUID' \in [Daemons -> Seq(Roots)] BY <1>1 DEF Run, Typed
  <2>4. \A s \in dirs : s[2] <= start'[s[1]]
    <3> SUFFICES ASSUME NEW s \in dirs PROVE s[2] <= start'[s[1]]
      OBVIOUS
    <3>1. s[1] \in Daemons /\ s[2] \in Nat /\ s[2] <= start[s[1]] BY <1>1 DEF Typed
    <3>2. start[d] \in Nat BY <1>1 DEF Typed, TypeOK
    <3> QED BY <1>2, <3>1, <3>2 DEF Only
  <2> QED BY <1>1, <1>2, <2>1, <2>2, <2>3, <2>4 DEF Typed, TypeOK
<1>5. Held' BY <1>1, <1>2, StartupAssumption DEF Only, Held
<1>6. Registered'
  <2>1. source.by # d BY <1>1, <1>2 DEF Registered
  <2> QED BY <2>1, <1>2, <1>3, SourceKeeps
<1>7. Progress(d)'
  <2>1. Len(args'[d]) \in Nat BY <1>2, VectorFacts DEF Vectors
  <2>2. start'[d] # 0 BY <1>1, <1>2 DEF Typed, TypeOK
  <2>3. pc'[d] = "locking" => args'[d] # <<>> BY <1>2
  <2>4. Len(rootGUID'[d]) = 0 BY <1>2
  <2> QED BY <1>2, <2>1, <2>2, <2>3, <2>4 DEF Progress
<1>8. Stores(d)'
  <2>1. \A s \in dirs : ~(s[1] = d /\ s[2] = start'[d])
    BY <1>1, <1>2 DEF Typed, TypeOK
  <2> QED BY <1>2, <2>1 DEF Stores, Inside
<1>9. Known(d)'
  <2>1. Len(args'[d]) \in Nat BY <1>2, VectorFacts DEF Vectors
  <2> QED BY <1>2, <2>1 DEF Known
<1> QED BY <1>2, <1>3, <1>4, <1>5, <1>6, <1>7, <1>8, <1>9, AfterStep

\* The lock is taken, or the process ends.
LEMMA AcquireRuntimeLockKeeps == ASSUME IInv, NEW d \in Daemons, AcquireRuntimeLock(d) PROVE IInv'
<1>1. Typed /\ Held /\ Registered /\ Progress(d) /\ Stores(d) /\ Known(d) BY DEF IInv
<1>2. /\ Only(d) /\ pc[d] = "locking"
      /\ \/ holder = Nobody /\ holder' = d /\ pc'[d] = "listing"
         \/ holder' = holder /\ pc'[d] = "down"
      /\ UNCHANGED <<db, roots, dirs, source, args, start, index, found, rootGUID, maxSequence>>
      /\ pc' \in [Daemons -> Places] /\ code' \in [Daemons -> {"ok", "error", "crash"}]
  BY <1>1 DEF AcquireRuntimeLock, Goto, Typed, TypeOK, Only, Places
<1>3. Harmless(d) BY <1>2 DEF Harmless
<1>4. Typed'
  <2>1. holder' \in Daemons \cup {Nobody} BY <1>1, <1>2 DEF Typed, TypeOK
  <2> QED BY <1>1, <1>2, <2>1 DEF Typed, TypeOK
<1>5. Held' BY <1>1, <1>2, StartupAssumption DEF Only, Held
<1>6. Registered'
  <2>1. source.by # d BY <1>1, <1>2 DEF Registered
  <2> QED BY <2>1, <1>2, <1>3, SourceKeeps
<1>7. Progress(d)' BY <1>1, <1>2 DEF Progress
<1>8. Stores(d)' BY <1>1, <1>2 DEF Stores, Inside, Stored, Store
<1>9. Known(d)' BY <1>1, <1>2 DEF Known
<1> QED BY <1>2, <1>3, <1>4, <1>5, <1>6, <1>7, <1>8, <1>9, AfterStep

\* The residue is listed: all of what is there.
LEMMA ListResidueKeeps == ASSUME IInv, NEW d \in Daemons, ListResidue(d) PROVE IInv'
<1>1. Typed /\ Held /\ Registered /\ Progress(d) /\ Stores(d) /\ Known(d) BY DEF IInv
<1>2. /\ Only(d) /\ pc[d] = "listing" /\ pc'[d] = "sweeping" /\ found'[d] = dirs
      /\ UNCHANGED <<db, roots, dirs, holder, source, args, start, index, rootGUID,
                     maxSequence, code>>
  BY <1>1 DEF ListResidue, Goto, Typed, TypeOK, Only
<1>3. Harmless(d) BY <1>2 DEF Harmless
<1>4. Typed'
  <2>1. pc' \in [Daemons -> Places]
        /\ found' \in [Daemons -> SUBSET (Daemons \X (1..MaxStarts) \X Nat)]
    BY <1>1 DEF ListResidue, Goto, Typed, TypeOK, Places
  <2> QED BY <1>1, <1>2, <2>1 DEF Typed, TypeOK
<1>5. Held' BY <1>1, <1>2, StartupAssumption DEF Only, Held
<1>6. Registered'
  <2>1. source.by # d BY <1>1, <1>2 DEF Registered
  <2> QED BY <2>1, <1>2, <1>3, SourceKeeps
<1>7. Progress(d)' BY <1>1, <1>2 DEF Progress
<1>8. Stores(d)' BY <1>1, <1>2 DEF Stores, Inside, Stored, Store
<1>9. Known(d)' BY <1>1, <1>2 DEF Known
<1> QED BY <1>2, <1>3, <1>4, <1>5, <1>6, <1>7, <1>8, <1>9, AfterStep

\* A directory of the residue goes; when none is left, nothing is there.
LEMMA RemoveResidueKeeps == ASSUME IInv, NEW d \in Daemons, RemoveResidue(d) PROVE IInv'
<1>1. Typed /\ Held /\ Registered /\ Progress(d) /\ Stores(d) /\ Known(d) BY DEF IInv
<1>2. /\ Only(d) /\ pc[d] = "sweeping" /\ pc'[d] \in {"sweeping", "making"}
      /\ dirs' \subseteq dirs /\ found'[d] \subseteq found[d]
      /\ \A s \in dirs \cap found[d] : s \in dirs' => s \in found'[d]
      /\ pc'[d] = "making" => found[d] = {} /\ found'[d] = {}
      /\ UNCHANGED <<db, roots, holder, source, args, start, index, rootGUID, maxSequence,
                     code>>
      /\ pc' \in [Daemons -> Places]
      /\ found' \in [Daemons -> SUBSET (Daemons \X (1..MaxStarts) \X Nat)]
  <2> DEFINE F == Daemons \X (1..MaxStarts) \X Nat
  <2>1. found \in [Daemons -> SUBSET F] /\ pc \in [Daemons -> Places]
    BY <1>1 DEF Typed, TypeOK
  <2> HIDE DEF F
  <2>2. CASE \E s \in found[d] : /\ dirs' = dirs \ {s}
                                 /\ found' = [found EXCEPT ![d] = @ \ {s}]
                                 /\ UNCHANGED pc
    <3>1. PICK s \in found[d] : dirs' = dirs \ {s} /\ found' = [found EXCEPT ![d] = @ \ {s}]
                               /\ UNCHANGED pc
      BY <2>2
    <3>2. Only(d) BY <2>1, <3>1 DEF RemoveResidue, Only
    <3>3. found' \in [Daemons -> SUBSET F] /\ found'[d] = found[d] \ {s} BY <2>1, <3>1
    <3> QED BY <2>1, <3>1, <3>2, <3>3 DEF RemoveResidue, F
  <2>3. CASE found[d] = {} /\ Goto(d, "making") /\ UNCHANGED <<dirs, found>>
    <3>1. Only(d) BY <2>1, <2>3 DEF RemoveResidue, Only, Goto
    <3>2. pc' \in [Daemons -> Places] /\ pc'[d] = "making" BY <2>1, <2>3 DEF Goto, Places
    <3> QED BY <2>1, <2>3, <3>1, <3>2 DEF RemoveResidue, F
  <2> QED BY <2>2, <2>3 DEF RemoveResidue
<1>3. Harmless(d) BY <1>1, <1>2 DEF Harmless, Held
<1>4. Typed'
  <2>1. \A e \in Daemons : found'[e] \subseteq Daemons \X (1..MaxStarts) \X Nat BY <1>2
  <2> QED BY <1>1, <1>2, <2>1 DEF Typed, TypeOK
<1>5. Held' BY <1>1, <1>2, StartupAssumption DEF Only, Held
<1>6. Registered'
  <2>1. source.by # d BY <1>1, <1>2 DEF Registered
  <2> QED BY <2>1, <1>2, <1>3, SourceKeeps
<1>7. Progress(d)'
  <2>1. args[d] \in Vectors /\ args[d] # <<>> BY <1>1, <1>2 DEF Typed, Progress
  <2>2. Len(args[d]) \in Nat /\ Len(args[d]) # 0
    <3>1. CASE args[d] \in Invocations
      <4> DEFINE S == [name : {args[d][i].name : i \in DOMAIN args[d]}, file : Files]
      <4>1. args[d] \in Seq(S) BY <3>1, StartupAssumption
      <4> HIDE DEF S
      <4> QED BY <2>1, <4>1
    <3> QED BY <2>1, <3>1 DEF Vectors
  <2> QED BY <1>1, <1>2, <2>1, <2>2 DEF Progress
<1>8. Stores(d)'
  <2>1. CASE pc'[d] = "sweeping" BY <2>1, <1>1, <1>2 DEF Stores, Inside
  <2>2. CASE pc'[d] = "making"
    <3>1. dirs' = {} BY <2>2, <1>1, <1>2 DEF Stores
    <3>2. Stored(d)' = {} BY <2>2, <1>1, <1>2, VectorFacts DEF Stored, Progress, Typed
    <3> QED BY <2>2, <3>1, <3>2 DEF Stores, Inside
  <2> QED BY <1>2, <2>1, <2>2
<1>9. Known(d)'
  <2>1. index[d] = 1 /\ rootGUID[d] = <<>> /\ Len(args[d]) \in Nat
    BY <1>1, <1>2, VectorFacts DEF Progress, Typed
  <2> QED BY <1>2, <2>1 DEF Known
<1> QED BY <1>2, <1>3, <1>4, <1>5, <1>6, <1>7, <1>8, <1>9, AfterStep

\* A store is made for the declaration whose turn it is.
LEMMA MakeStoreKeeps == ASSUME IInv, NEW d \in Daemons, MakeStore(d) PROVE IInv'
<1>1. Typed /\ Held /\ Registered /\ Progress(d) /\ Stores(d) /\ Known(d) BY DEF IInv
<1>2. /\ Only(d) /\ pc[d] = "making" /\ pc'[d] = "schema"
      /\ UNCHANGED <<db, roots, holder, source, args, start, index, found, rootGUID,
                     maxSequence, code>>
      /\ dirs' = dirs \cup {Store(d, index[d])}
  BY <1>1 DEF MakeStore, Goto, Typed, TypeOK, Only
<1>3. Harmless(d) BY <1>1, <1>2 DEF Harmless, Held, Store
<1>4. Typed'
  <2>1. pc' \in [Daemons -> Places]
    BY <1>1 DEF MakeStore, Goto, Typed, TypeOK, Places
  <2>2. start[d] \in 1..MaxStarts /\ index[d] \in Nat
    BY <1>1, <1>2 DEF Typed, TypeOK, Progress
  <2>3. \A s \in dirs' : s \in Daemons \X (1..MaxStarts) \X Nat /\ s[2] <= start[s[1]]
    BY <1>1, <1>2, <2>2 DEF Typed, TypeOK, Store
  <2> QED BY <1>1, <1>2, <2>1, <2>3 DEF Typed, TypeOK
<1>5. Held' BY <1>1, <1>2, StartupAssumption DEF Only, Held
<1>6. Registered'
  <2>1. source.by # d BY <1>1, <1>2 DEF Registered
  <2> QED BY <2>1, <1>2, <1>3, SourceKeeps
<1>7. Progress(d)' BY <1>1, <1>2 DEF Progress
<1>8. Stores(d)'
  <2>1. index[d] \in 1..Len(args[d]) /\ Stored(d)' = Stored(d) \cup {index[d]}
    BY <1>1, <1>2 DEF Progress, Stored
  <2>2. Inside(d) /\ pc[d] # "closeHives" BY <1>2 DEF Inside
  <2>3. \A s \in dirs' : s[1] = d /\ s[2] = start[d] /\ s[3] \in Stored(d)'
    BY <1>1, <1>2, <2>1, <2>2 DEF Stores, Store
  <2>4. \A i \in Stored(d)' : Store(d, i)' \in dirs'
    BY <1>1, <1>2, <2>1, <2>2 DEF Stores, Store
  <2> QED BY <1>2, <2>3, <2>4 DEF Stores
<1>9. Known(d)' BY <1>1, <1>2 DEF Known
<1> QED BY <1>2, <1>3, <1>4, <1>5, <1>6, <1>7, <1>8, <1>9, AfterStep

\* The schema is there, or is created.
LEMMA EnsureSchemaKeeps == ASSUME IInv, NEW d \in Daemons, EnsureSchema(d) PROVE IInv'
<1>1. Typed /\ Held /\ Registered /\ Progress(d) /\ Stores(d) /\ Known(d) BY DEF IInv
<1>2. /\ Only(d) /\ pc[d] = "schema" /\ pc'[d] = "root" /\ File(d) \in Files
      /\ UNCHANGED <<roots, dirs, holder, source, args, start, index, found, rootGUID,
                      maxSequence, code>>
      /\ \A f \in Files : /\ db'[f].root = db[f].root /\ db'[f].seq = db[f].seq
                          /\ db'[f].version = IF f = File(d) THEN SchemaVersion
                                                              ELSE db[f].version
  <2>1. File(d) \in Files
    BY <1>1, VectorFacts DEF EnsureSchema, Progress, File, Typed
  <2>2. Only(d) /\ pc'[d] = "root" BY <1>1 DEF EnsureSchema, Goto, Typed, TypeOK, Only
  <2> QED BY <1>1, <2>1, <2>2 DEF EnsureSchema, SupportedVersion, Typed
<1>3. Harmless(d) BY <1>2 DEF Harmless
<1>4. Typed'
  <2>1. pc' \in [Daemons -> Places]
    BY <1>1 DEF EnsureSchema, Goto, Typed, TypeOK, Places
  <2>2. db' \in [Files -> [version : Nat, root : Roots \cup {NoRoot}, seq : 0..MaxSeq]]
    <3> DEFINE DB == [version : Nat, root : Roots \cup {NoRoot}, seq : 0..MaxSeq]
    <3>1. \A r \in DB : [r EXCEPT !.version = SchemaVersion] \in DB BY DEF SchemaVersion
    <3>2. db \in [Files -> DB] BY <1>1 DEF Typed
    <3> HIDE DEF DB
    <3> QED BY <1>2, <3>1, <3>2 DEF EnsureSchema, DB
  <2>3. \A f \in Files :
          /\ db'[f].version \in Versions \cup {Absent, SchemaVersion}
          /\ db'[f].root \in 1..roots' \cup {f, NoRoot} /\ db'[f].seq \in 0..MaxSeq
    BY <1>1, <1>2 DEF Typed, TypeOK
  <2> QED BY <1>1, <1>2, <2>1, <2>2, <2>3 DEF Typed, TypeOK
<1>5. Held' BY <1>1, <1>2, StartupAssumption DEF Only, Held
<1>6. Registered'
  <2>1. source.by # d BY <1>1, <1>2 DEF Registered
  <2> QED BY <2>1, <1>2, <1>3, SourceKeeps
<1>7. Progress(d)' BY <1>1, <1>2 DEF Progress
<1>8. Stores(d)' BY <1>1, <1>2 DEF Stores, Inside, Stored, Store
<1>9. Known(d)'
  <2>1. args[d] \in Vectors /\ index[d] \in 1..Len(args[d]) /\ rootGUID[d] \in Seq(Roots)
    BY <1>1, <1>2 DEF Typed, Progress
  <2>2. /\ \A i \in 1..Len(args[d]) : args[d][i].file \in Files
        /\ \A i \in 1..Len(rootGUID[d]) : i \in 1..Len(args[d])
    BY <1>1, <2>1, VectorFacts DEF Progress
  <2>3. \A i \in 1..Len(args[d]) : i <= index[d] => db'[args[d][i].file].version = SchemaVersion
    BY <1>1, <1>2, <2>1, <2>2 DEF Known, File
  <2> QED BY <1>1, <1>2, <2>1, <2>2, <2>3 DEF Known
<1> QED BY <1>2, <1>3, <1>4, <1>5, <1>6, <1>7, <1>8, <1>9, AfterStep

\* The root key is read, or made and kept.
LEMMA EnsureRootKeyKeeps == ASSUME IInv, NEW d \in Daemons, EnsureRootKey(d) PROVE IInv'
<1>1. Typed /\ Held /\ Registered /\ Progress(d) /\ Stores(d) /\ Known(d) BY DEF IInv
<1>2. /\ Only(d) /\ pc[d] = "root" /\ pc'[d] = "sequence" /\ File(d) \in Files
      /\ UNCHANGED <<dirs, holder, source, args, start, index, found, maxSequence, code>>
      /\ roots' \in {roots, roots + 1} /\ rootGUID'[d] = Append(rootGUID[d], db'[File(d)].root)
      /\ db'[File(d)].root # NoRoot
      /\ \A f \in Files : /\ db'[f].version = db[f].version /\ db'[f].seq = db[f].seq
                          /\ db[f].root # NoRoot => db'[f].root = db[f].root
                          /\ db'[f].root \in {db[f].root} \cup {roots'}
                          /\ db'[f].root = db[f].root \/ roots' = roots + 1
  <2>1. File(d) \in Files
    BY <1>1, VectorFacts DEF EnsureRootKey, Progress, File, Typed
  <2>2. Only(d) /\ pc'[d] = "sequence" BY <1>1 DEF EnsureRootKey, Goto, Typed, TypeOK, Only
  <2>3. roots + 1 # NoRoot BY <1>1, StartupAssumption DEF Typed, TypeOK
  <2>4. rootGUID'[d] = Append(rootGUID[d], db'[File(d)].root)
    BY <1>1, <2>1 DEF EnsureRootKey, Typed
  <2> QED BY <1>1, <2>1, <2>2, <2>3, <2>4 DEF EnsureRootKey, Typed
<1>3. Harmless(d) BY <1>2 DEF Harmless
<1>4. Typed'
  <2>1. pc' \in [Daemons -> Places]
    BY <1>1 DEF EnsureRootKey, Goto, Typed, TypeOK, Places
  <2>2. roots \in Nat /\ roots' \in Nat BY <1>1, <1>2 DEF Typed, TypeOK
  <2>3. db' \in [Files -> [version : Nat, root : Roots \cup {NoRoot}, seq : 0..MaxSeq]]
    <3> DEFINE DB == [version : Nat, root : Roots \cup {NoRoot}, seq : 0..MaxSeq]
    <3>1. db \in [Files -> DB] BY <1>1 DEF Typed
    <3>2. \A r \in DB : r.root \in Roots \cup {NoRoot}
                       /\ \A x \in Roots \cup {NoRoot} : [r EXCEPT !.root = x] \in DB
      OBVIOUS
    <3>3. roots + 1 \in Roots BY <2>2 DEF Roots
    <3> HIDE DEF DB
    <3> QED BY <1>2, <3>1, <3>2, <3>3 DEF EnsureRootKey, DB
  <2>4. \A f \in Files :
          /\ db'[f].version \in Versions \cup {Absent, SchemaVersion}
          /\ db'[f].root \in 1..roots' \cup {f, NoRoot} /\ db'[f].seq \in 0..MaxSeq
    <3> SUFFICES ASSUME NEW f \in Files
                 PROVE  /\ db'[f].version \in Versions \cup {Absent, SchemaVersion}
                        /\ db'[f].root \in 1..roots' \cup {f, NoRoot} /\ db'[f].seq \in 0..MaxSeq
      OBVIOUS
    <3>1. /\ db[f].version \in Versions \cup {Absent, SchemaVersion}
          /\ db[f].root \in 1..roots \cup {f, NoRoot} /\ db[f].seq \in 0..MaxSeq
      BY <1>1 DEF Typed, TypeOK
    <3>2. 1..roots \subseteq 1..roots' /\ (roots' = roots + 1 => roots' \in 1..roots')
      BY <1>2, <2>2
    <3>3. db'[f].root \in 1..roots' \cup {f, NoRoot} BY <1>2, <3>1, <3>2
    <3> QED BY <1>2, <3>1, <3>3
  <2>5. db'[File(d)].root \in Roots BY <1>2, <2>3
  <2>6. rootGUID' \in [Daemons -> Seq(Roots)]
    <3>1. rootGUID'[d] \in Seq(Roots) BY <1>1, <1>2, <2>5 DEF Typed
    <3>2. rootGUID' = [rootGUID EXCEPT ![d] = rootGUID'[d]]
      BY <1>1 DEF EnsureRootKey, Typed
    <3> QED BY <1>1, <3>1, <3>2 DEF Typed
  <2> QED BY <1>1, <1>2, <2>1, <2>2, <2>3, <2>4, <2>6 DEF Typed, TypeOK
<1>5. Held' BY <1>1, <1>2, StartupAssumption DEF Only, Held
<1>6. Registered'
  <2>1. source.by # d BY <1>1, <1>2 DEF Registered
  <2> QED BY <2>1, <1>2, <1>3, SourceKeeps
<1>7. Progress(d)'
  <2>1. Len(rootGUID'[d]) = Len(rootGUID[d]) + 1 BY <1>1, <1>2 DEF Typed
  <2> QED BY <1>1, <1>2, <2>1, VectorFacts DEF Progress, Typed
<1>8. Stores(d)' BY <1>1, <1>2 DEF Stores, Inside, Stored, Store
<1>9. Known(d)'
  <2>1. args[d] \in Vectors /\ index[d] \in 1..Len(args[d]) /\ rootGUID[d] \in Seq(Roots)
        /\ Len(rootGUID[d]) + 1 = index[d]
    BY <1>1, <1>2 DEF Typed, Progress
  <2>2. Len(args[d]) \in Nat /\ \A i \in 1..Len(args[d]) : args[d][i].file \in Files
    BY <2>1, VectorFacts
  <2>3. /\ Len(rootGUID'[d]) = index[d] /\ rootGUID'[d][index[d]] = db'[File(d)].root
        /\ \A i \in 1..Len(rootGUID[d]) : /\ rootGUID'[d][i] = rootGUID[d][i]
                                           /\ i \in 1..Len(args[d])
        /\ \A i \in 1..index[d] : i = index[d] \/ i \in 1..Len(rootGUID[d])
    BY <1>2, <2>1, <2>2
  <2>4. \A i \in 1..Len(rootGUID'[d]) : rootGUID'[d][i] = db'[args[d][i].file].root
                                         /\ rootGUID'[d][i] # NoRoot
    BY <1>1, <1>2, <2>2, <2>3 DEF Known, File
  <2> QED BY <1>1, <1>2, <2>2, <2>4 DEF Known
<1> QED BY <1>2, <1>3, <1>4, <1>5, <1>6, <1>7, <1>8, <1>9, AfterStep

\* On to the next declaration, or to the device.
LEMMA ReadMaxSequenceKeeps == ASSUME IInv, NEW d \in Daemons, ReadMaxSequence(d) PROVE IInv'
<1>1. Typed /\ Held /\ Registered /\ Progress(d) /\ Stores(d) /\ Known(d) BY DEF IInv
<1>2. /\ Only(d) /\ pc[d] = "sequence" /\ pc'[d] =
         (IF index[d] = Len(args[d]) THEN "device" ELSE "making")
      /\ index'[d] = index[d] + 1 /\ maxSequence'[d] = LargerSequence(d)
      /\ UNCHANGED <<db, roots, dirs, holder, source, args, start, found, rootGUID, code>>
  BY <1>1 DEF ReadMaxSequence, Goto, Typed, TypeOK, Only
<1>3. Harmless(d) BY <1>2 DEF Harmless
<1>4. Typed'
  <2>1. File(d) \in Files BY <1>1, <1>2, VectorFacts DEF Progress, File, Typed
  <2>2. maxSequence[d] \in 0..MaxSeq /\ db[File(d)].seq \in 0..MaxSeq /\ MaxSeq \in Nat
    BY <1>1, <2>1, StartupAssumption DEF Typed
  <2>3. LargerSequence(d) \in 0..MaxSeq BY <2>2, MaxFacts DEF LargerSequence
  <2>4. pc' \in [Daemons -> Places] BY <1>1 DEF ReadMaxSequence, Goto, Typed, TypeOK, Places
  <2>5. index' \in [Daemons -> Nat] BY <1>1 DEF ReadMaxSequence, Typed
  <2>6. maxSequence' \in [Daemons -> 0..MaxSeq] BY <1>1, <2>3 DEF ReadMaxSequence, Typed
  <2> QED BY <1>1, <1>2, <2>4, <2>5, <2>6 DEF Typed, TypeOK
<1>5. Held' BY <1>1, <1>2, StartupAssumption DEF Only, Held
<1>6. Registered'
  <2>1. source.by # d BY <1>1, <1>2 DEF Registered
  <2> QED BY <2>1, <1>2, <1>3, SourceKeeps
<1>7. Progress(d)' BY <1>1, <1>2, VectorFacts DEF Progress, Typed
<1>8. Stores(d)'
  <2>1. index[d] \in 1..Len(args[d]) /\ Len(args[d]) \in Nat
    BY <1>1, <1>2, VectorFacts DEF Progress, Typed
  <2>2. Stored(d)' = Stored(d) BY <1>2, <2>1 DEF Stored
  <2> QED BY <1>1, <1>2, <2>2 DEF Stores, Inside, Store
<1>9. Known(d)'
  <2>1. /\ index[d] \in 1..Len(args[d]) /\ Len(args[d]) \in Nat
        /\ \A i \in 1..Len(args[d]) : args[d][i].file \in Files
    BY <1>1, <1>2, VectorFacts DEF Progress, Typed
  <2>2. /\ maxSequence[d] <= LargerSequence(d) /\ db[File(d)].seq <= LargerSequence(d)
        /\ LargerSequence(d) \in Nat /\ maxSequence[d] \in Nat
        /\ \A f \in Files : db[f].seq \in Nat
    <3>1. File(d) \in Files BY <1>2, <2>1 DEF File
    <3>2. /\ maxSequence[d] \in 0..MaxSeq /\ MaxSeq \in Nat
          /\ \A f \in Files : db[f].seq \in 0..MaxSeq
      BY <1>1, StartupAssumption DEF Typed
    <3> QED BY <3>1, <3>2, MaxFacts DEF LargerSequence
  <2>3. \A i \in 1..Len(args[d]) :
          i < index[d] + 1 => db[args[d][i].file].seq <= LargerSequence(d)
    <3> SUFFICES ASSUME NEW i \in 1..Len(args[d]), i < index[d] + 1
                 PROVE  db[args[d][i].file].seq <= LargerSequence(d)
      OBVIOUS
    <3>1. CASE i = index[d] BY <3>1, <2>2 DEF File
    <3>2. CASE i < index[d]
      <4>1. db[args[d][i].file].seq <= maxSequence[d] BY <1>1, <1>2, <3>2 DEF Known
      <4> QED BY <4>1, <2>1, <2>2
    <3> QED BY <2>1, <3>1, <3>2
  <2>4. \A i \in 1..Len(args[d]) :
          i < index[d] + 1 => db[args[d][i].file].version = SchemaVersion
    BY <1>1, <1>2, <2>1 DEF Known
  <2> QED BY <1>1, <1>2, <2>3, <2>4 DEF Known
<1> QED BY <1>2, <1>3, <1>4, <1>5, <1>6, <1>7, <1>8, <1>9, AfterStep

\* The device is opened.
LEMMA OpenDeviceKeeps == ASSUME IInv, NEW d \in Daemons, OpenDevice(d) PROVE IInv'
<1>1. Typed /\ Held /\ Registered /\ Progress(d) /\ Stores(d) /\ Known(d) BY DEF IInv
<1>2. /\ Only(d) /\ pc[d] = "device" /\ pc'[d] = "registering"
      /\ UNCHANGED <<db, roots, dirs, holder, source, args, start, index, found, rootGUID,
                     maxSequence, code>>
  BY <1>1 DEF OpenDevice, Goto, Typed, TypeOK, Only
<1>3. Harmless(d) BY <1>2 DEF Harmless
<1>4. Typed'
  <2>1. pc' \in [Daemons -> Places]
    BY <1>1 DEF OpenDevice, Goto, Typed, TypeOK, Places
  <2> QED BY <1>1, <1>2, <2>1 DEF Typed, TypeOK
<1>5. Held' BY <1>1, <1>2, StartupAssumption DEF Only, Held
<1>6. Registered'
  <2>1. source.by # d BY <1>1, <1>2 DEF Registered
  <2> QED BY <2>1, <1>2, <1>3, SourceKeeps
<1>7. Progress(d)' BY <1>1, <1>2 DEF Progress
<1>8. Stores(d)' BY <1>1, <1>2 DEF Stores, Inside, Stored, Store
<1>9. Known(d)' BY <1>1, <1>2 DEF Known
<1> QED BY <1>2, <1>3, <1>4, <1>5, <1>6, <1>7, <1>8, <1>9, AfterStep

\* The kernel learns what the databases hold.
LEMMA RegisterHivesKeeps == ASSUME IInv, NEW d \in Daemons, RegisterHives(d) PROVE IInv'
<1>1. Typed /\ Held /\ Registered /\ Progress(d) /\ Stores(d) /\ Known(d) BY DEF IInv
<1>2. /\ Only(d) /\ pc[d] = "registering" /\ pc'[d] = "serving" /\ source.by = Nobody
      /\ source' = [by |-> d, seq |-> maxSequence[d],
                    roots |-> {<<args[d][i].name, rootGUID[d][i]>> : i \in DOMAIN args[d]}]
      /\ UNCHANGED <<db, roots, dirs, holder, args, start, index, found, rootGUID,
                      maxSequence, code>>
  BY <1>1 DEF RegisterHives, Goto, Typed, TypeOK, Only
<1>3. Harmless(d) BY <1>2 DEF Harmless
<1>4. Typed'
  <2>1. pc' \in [Daemons -> Places]
    BY <1>1 DEF RegisterHives, Goto, Typed, TypeOK, Places
  <2>2. source'.by \in Daemons /\ source'.seq \in 0..MaxSeq BY <1>1, <1>2 DEF Typed
  <2> QED BY <1>1, <1>2, <2>1, <2>2 DEF Typed, TypeOK
<1>5. Held' BY <1>1, <1>2, StartupAssumption DEF Only, Held
<1>6. Registered'
  <2>1. /\ DOMAIN args[d] = 1..Len(args[d]) /\ Len(args[d]) \in Nat
        /\ index[d] = Len(args[d]) + 1 /\ Len(rootGUID[d]) = Len(args[d])
    BY <1>1, <1>2, VectorFacts DEF Progress, Typed
  <2>2. \A i \in DOMAIN args[d] : /\ rootGUID[d][i] = db[args[d][i].file].root
                                  /\ db[args[d][i].file].seq <= maxSequence[d]
    BY <1>1, <1>2, <2>1 DEF Known
  <2>3. RegisteredState' BY <1>2, <2>2 DEF RegisteredState
  <2>4. \A e \in Daemons : pc[e] # "serving"
    BY <1>1, <1>2, StartupAssumption DEF Registered
  <2> QED BY <1>2, <2>3, <2>4 DEF Registered, Only
<1>7. Progress(d)' BY <1>1, <1>2 DEF Progress
<1>8. Stores(d)' BY <1>1, <1>2 DEF Stores, Inside, Stored, Store
<1>9. Known(d)' BY <1>1, <1>2 DEF Known
<1> QED BY <1>2, <1>3, <1>4, <1>5, <1>6, <1>7, <1>8, <1>9, AfterStep

\* A write carries the next number; the kernel counts it.
LEMMA WriteKeeps == ASSUME IInv, NEW d \in Daemons, Write(d) PROVE IInv'
<1>1. Typed /\ Held /\ Registered /\ Progress(d) /\ Stores(d) /\ Known(d) BY DEF IInv
<1>2. /\ Only(d) /\ pc[d] = "serving" /\ source.by = d /\ source.seq < MaxSeq
      /\ source' = [source EXCEPT !.seq = @ + 1]
      /\ UNCHANGED <<roots, dirs, holder, pc, args, start, index, found, rootGUID,
                      maxSequence, code>>
      /\ \A f \in Files : /\ db'[f].version = db[f].version /\ db'[f].root = db[f].root
                          /\ db'[f].seq = db[f].seq \/ db'[f].seq = source.seq + 1
  <2>1. PICK i \in DOMAIN args[d] : db' = [db EXCEPT ![args[d][i].file].seq = source.seq + 1]
    BY DEF Write
  <2>2. args[d][i].file \in Files BY <1>1, VectorFacts DEF Typed
  <2> QED BY <1>1, <2>1, <2>2 DEF Write, procVars, Typed, Only
<1>3. Harmless(d) BY <1>1, <1>2 DEF Harmless, Held
<1>4. Typed'
  <2>1. source.seq \in 0..MaxSeq /\ source.seq + 1 \in 0..MaxSeq /\ MaxSeq \in Nat
    BY <1>1, <1>2, StartupAssumption DEF Typed, TypeOK
  <2>2. source'.by = d /\ source'.seq \in 0..MaxSeq
    BY <1>1, <1>2, <2>1 DEF Registered
  <2>3. db' \in [Files -> [version : Nat, root : Roots \cup {NoRoot}, seq : 0..MaxSeq]]
    BY <1>1, <1>2, <2>1 DEF Write, Typed
  <2>4. \A f \in Files : db'[f].seq \in 0..MaxSeq BY <2>3
  <2> QED BY <1>1, <1>2, <2>2, <2>3, <2>4 DEF Typed, TypeOK
<1>5. Held' BY <1>1, <1>2, StartupAssumption DEF Only, Held
<1>6. Registered'
  <2>1. source = [by |-> d, roots |-> source.roots, seq |-> source.seq] /\ source.seq \in Nat
    BY <1>1, <1>2 DEF Registered, Typed, TypeOK
  <2>2. source' = [by |-> d, roots |-> source.roots, seq |-> source.seq + 1]
    BY <1>2, <2>1
  <2>3. \A i \in DOMAIN args[d] : args[d][i].file \in Files BY <1>1, VectorFacts DEF Typed
  <2>4. \A f \in Files : db[f].seq \in Nat BY <1>1 DEF Typed
  <2>5. \A i \in DOMAIN args[d] : db[args[d][i].file].seq <= source.seq
    BY <1>1, <1>2, StartupAssumption DEF Registered, RegisteredState
  <2>6. \A i \in DOMAIN args[d] : db'[args[d][i].file].seq <= source.seq + 1
    BY <1>2, <2>1, <2>3, <2>4, <2>5
  <2>7. source.roots = {<<args[d][i].name, db'[args[d][i].file].root>> : i \in DOMAIN args[d]}
    BY <1>1, <1>2, <2>3, StartupAssumption DEF Registered, RegisteredState
  <2>8. RegisteredState' BY <1>2, <2>2, <2>6, <2>7 DEF RegisteredState
  <2> QED BY <1>1, <1>2, <2>2, <2>8 DEF Registered, Only
<1>7. Progress(d)' BY <1>1, <1>2 DEF Progress
<1>8. Stores(d)' BY <1>1, <1>2 DEF Stores, Inside, Stored, Store
<1>9. Known(d)'
  <2>1. \A i \in 1..Len(args[d]) : args[d][i].file \in Files
    BY <1>1, VectorFacts DEF Typed
  <2>2. \A i \in 1..Len(rootGUID[d]) : i \in 1..Len(args[d])
    BY <1>1, <1>2, VectorFacts DEF Progress, Typed
  <2> QED BY <1>1, <1>2, <2>1, <2>2 DEF Known
<1> QED BY <1>2, <1>3, <1>4, <1>5, <1>6, <1>7, <1>8, <1>9, AfterStep

\* An error, wherever past the lock: the deferred calls begin where the error
\* leaves something to undo.
LEMMA AbandonKeeps ==
  ASSUME IInv, NEW d \in Daemons, Abandon(d),
         pc[d] \in {"listing", "sweeping", "making", "schema", "root", "sequence",
                   "device", "registering", "serving"}
  PROVE  IInv'
<1>1. Typed /\ Held /\ Registered /\ Progress(d) /\ Stores(d) /\ Known(d) BY DEF IInv
<1>2. /\ Only(d) /\ pc'[d] = CleanupFrom(pc[d]) /\ code'[d] = "error" /\ found'[d] = {}
      /\ dirs' = IF Opening(d) THEN dirs \ {Store(d, index[d])} ELSE dirs
      /\ UNCHANGED <<db, roots, holder, source, args, start, index, rootGUID, maxSequence>>
      /\ pc' \in [Daemons -> Places] /\ code' \in [Daemons -> {"ok", "error", "crash"}]
      /\ found' \in [Daemons -> SUBSET (Daemons \X (1..MaxStarts) \X Nat)]
  <2>1. CleanupFrom(pc[d]) \in Places BY DEF CleanupFrom, Places
  <2>2. pc' \in [Daemons -> Places] /\ pc'[d] = CleanupFrom(pc[d])
    BY <1>1, <2>1 DEF Abandon, Goto, Typed, TypeOK
  <2>3. code' \in [Daemons -> {"ok", "error", "crash"}] /\ code'[d] = "error"
    BY <1>1 DEF Abandon, Typed
  <2>4. found' \in [Daemons -> SUBSET (Daemons \X (1..MaxStarts) \X Nat)] /\ found'[d] = {}
    BY <1>1 DEF Abandon, Typed
  <2>5. Only(d) BY <1>1 DEF Abandon, Goto, Typed, TypeOK, Only
  <2> QED BY <2>2, <2>3, <2>4, <2>5 DEF Abandon
<1>3. Harmless(d) BY <1>1, <1>2 DEF Harmless, Held
<1>4. Typed'
  <2>1. \A e \in Daemons : found'[e] \subseteq Daemons \X (1..MaxStarts) \X Nat BY <1>2
  <2> QED BY <1>1, <1>2, <2>1 DEF Typed, TypeOK
<1>5. Held' BY <1>1, <1>2 DEF Only, Held, CleanupFrom
<1>6. Registered'
  <2>1. pc'[d] # "serving" BY <1>2 DEF CleanupFrom
  <2>2. source.by = d => pc'[d] = "closeDevice"
    BY <1>1, <1>2 DEF Registered, CleanupFrom
  <2> QED BY <1>2, <1>3, <2>1, <2>2, SourceKeeps
<1>7. Progress(d)' BY <1>1, <1>2 DEF Progress, CleanupFrom
<1>8. Stores(d)'
  <2>1. Len(args[d]) \in Nat /\ index[d] \in Nat /\ Len(rootGUID[d]) \in Nat
    BY <1>1, VectorFacts DEF Typed
  <2>2. CASE pc[d] \in {"registering", "serving"}
    <3>1. pc'[d] = "closeDevice" /\ dirs' = dirs /\ Stored(d)' = Stored(d)
      BY <2>2, <1>2 DEF CleanupFrom, Opening, Stored
    <3> QED BY <2>2, <3>1, <1>1, <1>2 DEF Stores, Inside, Store
  <2>3. CASE pc[d] \in {"listing", "sweeping"}
    <3>1. pc'[d] = "unlock" /\ dirs' = dirs BY <2>3, <1>2 DEF CleanupFrom, Opening
    <3> QED BY <2>3, <3>1, <1>1, <1>2 DEF Stores, Inside
  <2>4. CASE pc[d] \in {"making", "schema", "root", "sequence", "device"}
    <3>1. pc'[d] = "closeHives" BY <2>4, <1>2 DEF CleanupFrom
    <3>2. \A s \in dirs : s[1] = d /\ s[2] = start[d] /\ s[3] \in Stored(d)
      BY <2>4, <1>1 DEF Stores, Inside
    <3>3. \A s \in dirs' : s \in dirs /\ (Opening(d) => s # Store(d, index[d]))
      BY <1>2
    <3>4. \A s \in dirs' : Opening(d) => s[3] # index[d]
      <4> SUFFICES ASSUME NEW s \in dirs', Opening(d), s[3] = index[d] PROVE FALSE
        OBVIOUS
      <4>1. s = <<s[1], s[2], s[3]>> BY <3>3, <1>1 DEF Typed
      <4> QED BY <4>1, <3>2, <3>3 DEF Store
    <3>5. \A s \in dirs' : s[3] <= Len(rootGUID[d])
      BY <2>1, <2>4, <3>2, <3>3, <3>4, <1>1 DEF Opening, Stored, Progress
    <3> QED BY <1>2, <3>1, <3>2, <3>3, <3>5 DEF Stores, Inside
  <2> QED BY <2>2, <2>3, <2>4
<1>9. Known(d)' BY <1>1, <1>2 DEF Known, CleanupFrom
<1> QED BY <1>2, <1>3, <1>4, <1>5, <1>6, <1>7, <1>8, <1>9, AfterStep

\* The loop has returned nil.
LEMMA StopServingKeeps == ASSUME IInv, NEW d \in Daemons, StopServing(d) PROVE IInv'
<1>1. Typed /\ Held /\ Registered /\ Progress(d) /\ Stores(d) /\ Known(d) BY DEF IInv
<1>2. /\ Only(d) /\ pc[d] = "serving" /\ pc'[d] = "closeDevice" /\ code'[d] = "ok"
      /\ UNCHANGED <<db, roots, dirs, holder, source, args, start, index, found, rootGUID,
                     maxSequence>>
  BY <1>1 DEF StopServing, Goto, Typed, TypeOK, Only
<1>3. Harmless(d) BY <1>2 DEF Harmless
<1>4. Typed'
  <2>1. pc' \in [Daemons -> Places] /\ code' \in [Daemons -> {"ok", "error", "crash"}]
    BY <1>1 DEF StopServing, Goto, Typed, TypeOK, Places
  <2> QED BY <1>1, <1>2, <2>1 DEF Typed, TypeOK
<1>5. Held' BY <1>1, <1>2, StartupAssumption DEF Only, Held
<1>6. Registered' BY <1>1, <1>2, <1>3, SourceKeeps
<1>7. Progress(d)' BY <1>1, <1>2 DEF Progress
<1>8. Stores(d)' BY <1>1, <1>2 DEF Stores, Inside, Stored, Store
<1>9. Known(d)' BY <1>1, <1>2 DEF Known
<1> QED BY <1>2, <1>3, <1>4, <1>5, <1>6, <1>7, <1>8, <1>9, AfterStep

\* The registration ends with the device.
LEMMA CloseDeviceKeeps == ASSUME IInv, NEW d \in Daemons, CloseDevice(d) PROVE IInv'
<1>1. Typed /\ Held /\ Registered /\ Progress(d) /\ Stores(d) /\ Known(d) BY DEF IInv
<1>2. /\ Only(d) /\ pc[d] = "closeDevice" /\ pc'[d] = "closeHives"
      /\ UNCHANGED <<db, roots, dirs, holder, args, start, index, found, rootGUID,
                     maxSequence, code>>
      /\ source' = IF source.by = d THEN NoSource ELSE source
  BY <1>1 DEF CloseDevice, Goto, Disconnect, Typed, TypeOK, Only
<1>3. Harmless(d) BY <1>2 DEF Harmless
<1>4. Typed'
  <2>1. pc' \in [Daemons -> Places]
    BY <1>1 DEF CloseDevice, Goto, Typed, TypeOK, Places
  <2>2. source'.by \in Daemons \cup {Nobody} /\ source'.seq \in 0..MaxSeq
    BY <1>1, <1>2, StartupAssumption DEF Typed, TypeOK, NoSource
  <2> QED BY <1>1, <1>2, <2>1, <2>2 DEF Typed, TypeOK
<1>5. Held' BY <1>1, <1>2, StartupAssumption DEF Only, Held
<1>6. Registered'
  <2>1. CASE source.by = d
    BY <1>1, <1>2, <2>1, StartupAssumption DEF Registered, RegisteredState, NoSource, Only
  <2>2. CASE source.by # d BY <2>2, <1>2, <1>3, SourceKeeps
  <2> QED BY <2>1, <2>2
<1>7. Progress(d)' BY <1>1, <1>2 DEF Progress
<1>8. Stores(d)'
  <2>1. \A s \in dirs : s[3] <= Len(rootGUID[d])
    BY <1>1, <1>2 DEF Stores, Inside, Stored, Progress
  <2> QED BY <2>1, <1>1, <1>2 DEF Stores, Inside
<1>9. Known(d)' BY <1>1, <1>2 DEF Known
<1> QED BY <1>2, <1>3, <1>4, <1>5, <1>6, <1>7, <1>8, <1>9, AfterStep

\* A store goes; when none is left that was opened, none is left.
LEMMA CloseHivesKeeps == ASSUME IInv, NEW d \in Daemons, CloseHives(d) PROVE IInv'
<1>1. Typed /\ Held /\ Registered /\ Progress(d) /\ Stores(d) /\ Known(d) BY DEF IInv
<1>2. /\ Only(d) /\ pc[d] = "closeHives" /\ pc'[d] \in {"closeHives", "unlock"}
      /\ dirs' \subseteq dirs
      /\ pc'[d] = "unlock" => Opened(d) = {}
      /\ UNCHANGED <<db, roots, holder, source, args, start, index, found, rootGUID,
                      maxSequence, code>>
      /\ pc' \in [Daemons -> Places]
  BY <1>1 DEF CloseHives, Goto, Typed, TypeOK, Only, Places
<1>3. Harmless(d) BY <1>1, <1>2 DEF Harmless, Held
<1>4. Typed' BY <1>1, <1>2 DEF Typed, TypeOK
<1>5. Held' BY <1>1, <1>2, StartupAssumption DEF Only, Held
<1>6. Registered'
  <2>1. source.by # d BY <1>1, <1>2 DEF Registered
  <2> QED BY <2>1, <1>2, <1>3, SourceKeeps
<1>7. Progress(d)' BY <1>1, <1>2 DEF Progress
<1>8. Stores(d)'
  <2>1. \A s \in dirs : s[1] = d /\ s[2] = start[d] /\ s[3] <= Len(rootGUID[d])
    BY <1>1, <1>2 DEF Stores, Inside
  <2>2. CASE pc'[d] = "closeHives" BY <2>1, <2>2, <1>2 DEF Stores, Inside
  <2>3. CASE pc'[d] = "unlock"
    <3>1. dirs = {} BY <2>1, <2>3, <1>2 DEF Opened, Made
    <3> QED BY <2>3, <3>1, <1>2 DEF Stores, Inside
  <2> QED BY <1>2, <2>2, <2>3
<1>9. Known(d)' BY <1>1, <1>2 DEF Known
<1> QED BY <1>2, <1>3, <1>4, <1>5, <1>6, <1>7, <1>8, <1>9, AfterStep

\* The lock is released last.
LEMMA UnlockKeeps == ASSUME IInv, NEW d \in Daemons, Unlock(d) PROVE IInv'
<1>1. Typed /\ Held /\ Registered /\ Progress(d) /\ Stores(d) /\ Known(d) BY DEF IInv
<1>2. /\ Only(d) /\ pc[d] = "unlock" /\ pc'[d] = "down"
      /\ UNCHANGED <<db, roots, dirs, source, args, start, index, found, rootGUID,
                     maxSequence, code>>
      /\ holder' = Nobody
  BY <1>1 DEF Unlock, Goto, Typed, TypeOK, Only
<1>3. Harmless(d) BY <1>2 DEF Harmless
<1>4. Typed'
  <2>1. pc' \in [Daemons -> Places]
    BY <1>1 DEF Unlock, Goto, Typed, TypeOK, Places
  <2> QED BY <1>1, <1>2, <2>1 DEF Typed, TypeOK
<1>5. Held' BY <1>1, <1>2, StartupAssumption DEF Only, Held
<1>6. Registered'
  <2>1. source.by # d BY <1>1, <1>2 DEF Registered
  <2> QED BY <2>1, <1>2, <1>3, SourceKeeps
<1>7. Progress(d)' BY <1>1, <1>2 DEF Progress
<1>8. Stores(d)' BY <1>1, <1>2 DEF Stores, Inside, Stored, Store
<1>9. Known(d)' BY <1>1, <1>2 DEF Known
<1> QED BY <1>2, <1>3, <1>4, <1>5, <1>6, <1>7, <1>8, <1>9, AfterStep

\* The kernel releases what the process held.
LEMMA CrashKeeps == ASSUME IInv, NEW d \in Daemons, Crash(d) PROVE IInv'
<1>1. Typed /\ Held /\ Registered /\ Progress(d) /\ Stores(d) /\ Known(d) BY DEF IInv
<1>2. /\ Only(d) /\ pc'[d] = "down" /\ code'[d] = "crash" /\ found'[d] = {}
      /\ UNCHANGED <<db, roots, dirs, args, start, index, rootGUID, maxSequence>>
      /\ source' = IF source.by = d THEN NoSource ELSE source
      /\ holder' = IF holder = d THEN Nobody ELSE holder
  <2>1. Only(d) /\ pc'[d] = "down" BY <1>1 DEF Crash, Goto, Typed, TypeOK, Only
  <2>2. code'[d] = "crash" /\ found'[d] = {} BY <1>1 DEF Crash, Typed
  <2> QED BY <2>1, <2>2 DEF Crash, Disconnect
<1>3. Harmless(d) BY <1>2 DEF Harmless
<1>4. Typed'
  <2>1. /\ pc' \in [Daemons -> Places] /\ code' \in [Daemons -> {"ok", "error", "crash"}]
        /\ found' \in [Daemons -> SUBSET (Daemons \X (1..MaxStarts) \X Nat)]
    BY <1>1 DEF Crash, Goto, Typed, TypeOK, Places
  <2>2. /\ source'.by \in Daemons \cup {Nobody} /\ source'.seq \in 0..MaxSeq
        /\ holder' \in Daemons \cup {Nobody}
    BY <1>1, <1>2, StartupAssumption DEF Typed, TypeOK, NoSource
  <2> QED BY <1>1, <1>2, <2>1, <2>2 DEF Typed, TypeOK
<1>5. Held' BY <1>1, <1>2, StartupAssumption DEF Only, Held
<1>6. Registered'
  <2>1. CASE source.by = d
    BY <1>1, <1>2, <2>1, StartupAssumption DEF Registered, RegisteredState, NoSource, Only
  <2>2. CASE source.by # d BY <2>2, <1>2, <1>3, SourceKeeps
  <2> QED BY <2>1, <2>2
<1>7. Progress(d)' BY <1>1, <1>2 DEF Progress
<1>8. Stores(d)' BY <1>1, <1>2 DEF Stores, Inside, Stored, Store
<1>9. Known(d)' BY <1>1, <1>2 DEF Known
<1> QED BY <1>2, <1>3, <1>4, <1>5, <1>6, <1>7, <1>8, <1>9, AfterStep

\* Each step of any process keeps the inductive invariant.
LEMMA NextIInv == IInv /\ [Next]_vars => IInv'
<1> SUFFICES ASSUME IInv, [Next]_vars PROVE IInv' OBVIOUS
<1>1. CASE \E d \in Daemons : Run(d) BY <1>1, RunKeeps
<1>2. CASE \E d \in Daemons : AcquireRuntimeLock(d) BY <1>2, AcquireRuntimeLockKeeps
<1>3. CASE \E d \in Daemons : ListResidue(d) BY <1>3, ListResidueKeeps
<1>4. CASE \E d \in Daemons : RemoveResidue(d) BY <1>4, RemoveResidueKeeps
<1>5. CASE \E d \in Daemons : MakeStore(d) BY <1>5, MakeStoreKeeps
<1>6. CASE \E d \in Daemons : EnsureSchema(d) BY <1>6, EnsureSchemaKeeps
<1>7. CASE \E d \in Daemons : EnsureRootKey(d) BY <1>7, EnsureRootKeyKeeps
<1>8. CASE \E d \in Daemons : ReadMaxSequence(d) BY <1>8, ReadMaxSequenceKeeps
<1>9. CASE \E d \in Daemons : OpenDevice(d) BY <1>9, OpenDeviceKeeps
<1>10. CASE \E d \in Daemons : RegisterHives(d) BY <1>10, RegisterHivesKeeps
<1>11. CASE \E d \in Daemons : Write(d) BY <1>11, WriteKeeps
<1>12. CASE \E d \in Daemons : StopServing(d) BY <1>12, StopServingKeeps
<1>13. CASE \E d \in Daemons : CloseDevice(d) BY <1>13, CloseDeviceKeeps
<1>14. CASE \E d \in Daemons : CloseHives(d) BY <1>14, CloseHivesKeeps
<1>15. CASE \E d \in Daemons : Unlock(d) BY <1>15, UnlockKeeps
<1>16. CASE \E d \in Daemons : Crash(d) BY <1>16, CrashKeeps
<1>17. CASE \E d \in Daemons : Fail(d) BY <1>17, AbandonKeeps DEF Fail
<1>18. CASE \E d \in Daemons : RefuseVersion(d) BY <1>18, AbandonKeeps DEF RefuseVersion
<1>19. CASE UNCHANGED vars
  <2>1. Typed' /\ Held' /\ Registered'
    BY <1>19 DEF vars, procVars, IInv, Typed, TypeOK, Held, Registered, RegisteredState
  <2>2. \A d \in Daemons : Progress(d)' /\ Stores(d)' /\ Known(d)'
    BY <1>19 DEF vars, procVars, IInv, Progress, Stores, Stored, Inside, Store, Known
  <2> QED BY <2>1, <2>2 DEF IInv
<1> QED BY <1>1, <1>2, <1>3, <1>4, <1>5, <1>6, <1>7, <1>8, <1>9, <1>10, <1>11, <1>12,
   <1>13, <1>14, <1>15, <1>16, <1>17, <1>18, <1>19 DEF Next, Proceed, Done

-----------------------------------------------------------------------------
\* The inductive invariant holds throughout.
THEOREM StartupInvariant == Spec => []IInv
<1>1. Init => IInv BY InitIInv
<1>2. IInv /\ [Next]_vars => IInv' BY NextIInv
<1> QED BY <1>1, <1>2, PTL DEF Spec

\* The runtime lock gives /run/loregd and the databases one owner at a time,
\* which sees its own stores and no others, and an exit that is not a crash
\* leaves no store, lock or registration (main.go's deferred calls).
THEOREM OneOwnerAtATime == Spec => []OwnershipInv
<1>1. IInv => OwnershipInv
  <2> SUFFICES ASSUME IInv PROVE OwnershipInv OBVIOUS
  <2>1. TypeOK BY DEF IInv, Typed
  <2>2. OneOwner BY DEF IInv, Held, OneOwner, Inside
  <2>3. StoresExact
    <3> SUFFICES ASSUME NEW d \in Daemons, Inside(d)
                 PROVE  /\ dirs = Made(d)
                        /\ pc[d] # "closeHives" =>
                             {s[3] : s \in dirs} =
                               {i \in DOMAIN args[d] :
                                  \/ i < index[d]
                                  \/ i = index[d] /\ pc[d] \in {"schema", "root", "sequence"}}
      BY DEF StoresExact
    <3>1. Stores(d) /\ args[d] \in Vectors BY DEF IInv, Typed
    <3>2. dirs = Made(d) BY <3>1 DEF Stores, Made
    <3>3. DOMAIN args[d] = 1..Len(args[d]) BY <3>1, VectorFacts
    <3>4. ASSUME pc[d] # "closeHives" PROVE {s[3] : s \in dirs} = Stored(d)
      <4>1. \A s \in dirs : s[3] \in Stored(d) BY <3>1, <3>4 DEF Stores
      <4>2. \A i \in Stored(d) : Store(d, i) \in dirs /\ Store(d, i)[3] = i
        BY <3>1, <3>4 DEF Stores, Store
      <4> QED BY <4>1, <4>2
    <3> QED BY <3>2, <3>3, <3>4 DEF Stored
  <2>4. CleanExit
    BY StartupAssumption DEF IInv, Held, Registered, Stores, CleanExit, Made
  <2> QED BY <2>1, <2>2, <2>3, <2>4 DEF OwnershipInv
<1> QED BY <1>1, StartupInvariant, PTL

\* What the kernel was told at registration is what the databases hold: the
\* root keys of the served names, and no number above the one it counts from.
THEOREM RegistrationStaysTrue == Spec => []RegisteredState
<1>1. IInv => RegisteredState BY DEF IInv, Registered
<1> QED BY <1>1, StartupInvariant, PTL

\* Every step keeps the root key of a database that has one, and touches no
\* database of another schema version.
LEMMA StepKeepsDatabase ==
  ASSUME IInv, [Next]_vars, NEW f \in Files
  PROVE  /\ db[f].root # NoRoot => db'[f].root = db[f].root
         /\ db[f].version \notin {Absent, SchemaVersion} => db'[f] = db[f]
<1> DEFINE Kept == /\ db[f].root # NoRoot => db'[f].root = db[f].root
                   /\ db[f].version \notin {Absent, SchemaVersion} => db'[f] = db[f]
<1>1. Typed BY DEF IInv
<1>2. ASSUME NEW d \in Daemons, EnsureSchema(d)
      PROVE  Kept
  <2>1. CASE db' = db BY <2>1
  <2>2. CASE /\ db[File(d)].version = Absent
             /\ db' = [db EXCEPT ![File(d)].version = SchemaVersion]
    <3>1. CASE f = File(d) BY <1>1, <2>2, <3>1 DEF Typed
    <3>2. CASE f # File(d) BY <1>1, <2>2, <3>2 DEF Typed
    <3> QED BY <3>1, <3>2
  <2> QED BY <1>2, <2>1, <2>2 DEF EnsureSchema
<1>3. ASSUME NEW d \in Daemons, EnsureRootKey(d)
      PROVE  Kept
  <2>1. Known(d) /\ Progress(d) /\ pc[d] = "root" BY <1>3 DEF IInv, EnsureRootKey
  <2>2. db[File(d)].version = SchemaVersion BY <2>1 DEF Known, Progress, File
  <2>3. CASE f = File(d) BY <1>1, <1>3, <2>2, <2>3 DEF EnsureRootKey, Typed
  <2>4. CASE f # File(d) BY <1>1, <1>3, <2>4 DEF EnsureRootKey, Typed
  <2> QED BY <2>3, <2>4
<1>4. ASSUME NEW d \in Daemons, Write(d)
      PROVE  Kept
  <2>1. Known(d) /\ Progress(d) /\ pc[d] = "serving" /\ args[d] \in Vectors
    BY <1>1, <1>4 DEF IInv, Write, Typed
  <2>2. PICK i \in DOMAIN args[d] : db' = [db EXCEPT ![args[d][i].file].seq = source.seq + 1]
    BY <1>4 DEF Write
  <2>3. db[args[d][i].file].version = SchemaVersion
    BY <2>1, VectorFacts DEF Known, Progress
  <2>4. CASE f = args[d][i].file BY <1>1, <2>2, <2>3, <2>4 DEF Typed
  <2>5. CASE f # args[d][i].file BY <1>1, <2>2, <2>5 DEF Typed
  <2> QED BY <2>4, <2>5
<1>5. CASE UNCHANGED db BY <1>5
<1>6. \/ UNCHANGED db
      \/ \E d \in Daemons : EnsureSchema(d) \/ EnsureRootKey(d) \/ Write(d)
  <2>1. CASE \E d \in Daemons : Run(d) \/ Fail(d) \/ StopServing(d) \/ Crash(d)
    BY <2>1 DEF Run, Fail, StopServing, Crash, Abandon
  <2>2. ASSUME NEW d \in Daemons, Proceed(d)
        PROVE  UNCHANGED db \/ EnsureSchema(d) \/ EnsureRootKey(d)
    BY <2>2 DEF Proceed, AcquireRuntimeLock, ListResidue, RemoveResidue, MakeStore,
       RefuseVersion, Abandon, ReadMaxSequence, OpenDevice, RegisterHives, CloseDevice,
       CloseHives, Unlock
  <2> QED BY <2>1, <2>2 DEF Next, Done, vars
<1> QED BY <1>2, <1>3, <1>4, <1>5, <1>6

\* A hive keeps its root key, whatever crashes and restarts come between, and
\* a database of another version is left as it was found.
THEOREM RootKeysKept == Spec => DatabaseKept
<1>1. IInv /\ [Next]_vars =>
        [\A f \in Files :
           /\ db[f].root # NoRoot => db'[f].root = db[f].root
           /\ db[f].version \notin {Absent, SchemaVersion} => db'[f] = db[f]]_vars
  BY StepKeepsDatabase
<1> QED BY <1>1, StartupInvariant, PTL DEF Spec, DatabaseKept
==============================================================================
