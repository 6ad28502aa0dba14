------------------------------ MODULE Startup ------------------------------
(***************************************************************************)
(* The life of a loregd process (main.go, hivedb.go, runtime.go,           *)
(* config.go): arguments, the runtime lock and the sweep of crash residue, *)
(* opening each hive, registration, serving, and the deferred cleanup in   *)
(* its order.  Several processes may be started at once on the same        *)
(* /run/loregd and the same databases; each step may fail, and a process   *)
(* may die between any two steps.                                          *)
(*                                                                         *)
(* A database is reduced to what startup reads and writes of it: its       *)
(* schema version, its root key and its highest sequence number.  Orphan   *)
(* cleanup is in HiveStore.tla, draining and rollback in Serve.tla and     *)
(* Transactions.tla.                                                       *)
(***************************************************************************)
EXTENDS Naturals, Sequences, FiniteSets, FiniteSetsExt

CONSTANTS
  Daemons,      \* process slots; a slot is used again after its process ends
  Files,        \* hive databases
  Invocations,  \* argument vectors: sequences of [name, file]
  FoldOf,       \* FoldOf[name]: the folded hive name
  Reserved,     \* names no declaration may use
  Versions,     \* schema versions a database may be found with
  MaxStarts,    \* bound: processes started per slot
  MaxSeq,       \* bound: sequence numbers the kernel hands out
  Nobody, NoRoot

SchemaVersion == 1
Absent == 0     \* no schema_version table

\* A database is found with 0 or 1 as its highest number, and no root key it
\* has or is given is NoRoot.
ASSUME StartupAssumption ==
  /\ \A a \in Invocations : a \in Seq([name : {a[i].name : i \in DOMAIN a}, file : Files])
  /\ Versions \subseteq Nat
  /\ MaxStarts \in Nat /\ MaxSeq \in Nat \ {0}
  /\ Nobody \notin Daemons /\ NoRoot \notin Nat \cup Files

VARIABLES
  db,          \* db[f]: [version, root, seq] of a database file
  roots,       \* root GUIDs generated so far; a root found is named by its file
  dirs,        \* volatile stores under /run/loregd: <<daemon, start, index>>
  holder,      \* who holds /run/loregd/.lock
  source,      \* what the kernel has registered: [by, roots, seq]
  pc, args,
  start,       \* how many processes the slot has run
  index,       \* the declaration being opened
  found,       \* residue cleanupRuntimeResidue has listed and not removed
  rootGUID,    \* rootGUID[d][i]: HiveDB.RootGUID of hive i
  maxSequence,
  code         \* exit status of the slot's last process, "crash" if it was killed

procVars == <<pc, args, start, index, found, rootGUID, maxSequence, code>>
vars == <<db, roots, dirs, holder, source, procVars>>

NoSource == [by |-> Nobody, roots |-> {}, seq |-> 0]

Init ==
  /\ \E old \in [Files -> (Versions \X (0..1)) \cup {<<Absent, 0>>}] :
       db = [f \in Files |-> [version |-> old[f][1], seq |-> old[f][2],
                              root |-> IF old[f][1] = Absent THEN NoRoot ELSE f]]
  /\ roots = 0 /\ dirs = {} /\ holder = Nobody /\ source = NoSource
  /\ pc = [d \in Daemons |-> "down"] /\ args = [d \in Daemons |-> <<>>]
  /\ start = [d \in Daemons |-> 0] /\ index = [d \in Daemons |-> 1]
  /\ found = [d \in Daemons |-> {}] /\ rootGUID = [d \in Daemons |-> <<>>]
  /\ maxSequence = [d \in Daemons |-> 0] /\ code = [d \in Daemons |-> "ok"]

-----------------------------------------------------------------------------
Goto(d, place) == pc' = [pc EXCEPT ![d] = place]
File(d) == args[d][index[d]].file
Store(d, i) == <<d, start[d], i>>

\* The volatile stores process d has made and not removed.
Made(d) == {s \in dirs : s[1] = d /\ s[2] = start[d]}

\* config.Parse: at least one declaration, no reserved name, no folded name
\* twice.  Two names may share a database path.
Parse(a) ==
  /\ Len(a) > 0
  /\ \A i \in DOMAIN a : a[i].name \notin Reserved
  /\ \A i, j \in DOMAIN a : FoldOf[a[i].name] = FoldOf[a[j].name] => i = j

Run(d) ==
  /\ pc[d] = "down" /\ start[d] < MaxStarts
  /\ \E a \in Invocations :
       /\ args' = [args EXCEPT ![d] = a]
       /\ IF Parse(a) THEN Goto(d, "locking") /\ UNCHANGED code
          ELSE UNCHANGED pc /\ code' = [code EXCEPT ![d] = "error"]
  /\ start' = [start EXCEPT ![d] = @ + 1] /\ index' = [index EXCEPT ![d] = 1]
  /\ rootGUID' = [rootGUID EXCEPT ![d] = <<>>]
  /\ maxSequence' = [maxSequence EXCEPT ![d] = 0]
  /\ UNCHANGED <<db, roots, dirs, holder, source, found>>

\* Faulty: the outcome of flock is not looked at.
AcquireRuntimeLockAnyway(d) ==
  /\ pc[d] = "locking"
  /\ holder' = d /\ Goto(d, "listing")
  /\ UNCHANGED <<db, roots, dirs, source, args, start, index, found, rootGUID, maxSequence, code>>

\* flock LOCK_EX|LOCK_NB: a second process does not wait.
AcquireRuntimeLock(d) ==
  /\ pc[d] = "locking"
  /\ IF holder = Nobody
       THEN holder' = d /\ Goto(d, "listing") /\ UNCHANGED code
       ELSE Goto(d, "down") /\ code' = [code EXCEPT ![d] = "error"] /\ UNCHANGED holder
  /\ UNCHANGED <<db, roots, dirs, source, args, start, index, found, rootGUID, maxSequence>>

\* Faulty: the sweep forgets what it lists.
ListNothing(d) ==
  /\ pc[d] = "listing"
  /\ found' = [found EXCEPT ![d] = {}] /\ Goto(d, "sweeping")
  /\ UNCHANGED <<db, roots, dirs, holder, source, args, start, index, rootGUID, maxSequence, code>>

\* ReadDir, and then one RemoveAll after the other.
ListResidue(d) ==
  /\ pc[d] = "listing"
  /\ found' = [found EXCEPT ![d] = dirs] /\ Goto(d, "sweeping")
  /\ UNCHANGED <<db, roots, dirs, holder, source, args, start, index, rootGUID, maxSequence, code>>

\* Faulty: a directory that is gone is looked for again.
RemoveResidueAgain(d) ==
  /\ pc[d] = "sweeping"
  /\ \/ \E s \in found[d] : dirs' = dirs \ {s} /\ UNCHANGED <<found, pc>>
     \/ found[d] = {} /\ Goto(d, "making") /\ UNCHANGED <<dirs, found>>
  /\ UNCHANGED <<db, roots, holder, source, args, start, index, rootGUID, maxSequence, code>>

RemoveResidue(d) ==
  /\ pc[d] = "sweeping"
  /\ \/ \E s \in found[d] : /\ dirs' = dirs \ {s}
                            /\ found' = [found EXCEPT ![d] = @ \ {s}]
                            /\ UNCHANGED pc
     \/ found[d] = {} /\ Goto(d, "making") /\ UNCHANGED <<dirs, found>>
  /\ UNCHANGED <<db, roots, holder, source, args, start, index, rootGUID, maxSequence, code>>

-----------------------------------------------------------------------------
\* openHives: one declaration after the other

\* MkdirTemp, and the connection that creates or opens the file.
MakeStore(d) ==
  /\ pc[d] = "making"
  /\ dirs' = dirs \cup {Store(d, index[d])}
  /\ Goto(d, "schema")
  /\ UNCHANGED <<db, roots, holder, source, args, start, index, found, rootGUID, maxSequence, code>>

\* Faulty: any version is taken for the current one.
AnyVersion(v) == TRUE

SupportedVersion(v) == v = SchemaVersion

\* ensureSchema: tables and version in one transaction, or the version check.
EnsureSchema(d) ==
  /\ pc[d] = "schema"
  /\ \/ db[File(d)].version = Absent /\ db' = [db EXCEPT ![File(d)].version = SchemaVersion]
     \/ db[File(d)].version # Absent /\ SupportedVersion(db[File(d)].version) /\ UNCHANGED db
  /\ Goto(d, "root")
  /\ UNCHANGED <<roots, dirs, holder, source, args, start, index, found, rootGUID, maxSequence, code>>

\* ensureRootKey: the parentless key, or a new one inserted by one statement.
EnsureRootKey(d) ==
  /\ pc[d] = "root"
  /\ LET old == db[File(d)].root
         root == IF old = NoRoot THEN roots + 1 ELSE old
     IN /\ db' = [db EXCEPT ![File(d)].root = root]
        /\ roots' = IF old = NoRoot THEN root ELSE roots
        /\ rootGUID' = [rootGUID EXCEPT ![d] = Append(@, root)]
  /\ Goto(d, "sequence")
  /\ UNCHANGED <<dirs, holder, source, args, start, index, found, maxSequence, code>>

\* Faulty: the number of the last hive read; the first number not in use.
LastSequence(d) == db[File(d)].seq

LargerSequence(d) == Max({maxSequence[d], db[File(d)].seq})

\* The read pool, MaxSequence, and on to the next declaration.
ReadMaxSequence(d) ==
  /\ pc[d] = "sequence"
  /\ maxSequence' = [maxSequence EXCEPT ![d] = LargerSequence(d)]
  /\ index' = [index EXCEPT ![d] = @ + 1]
  /\ Goto(d, IF index[d] = Len(args[d]) THEN "device" ELSE "making")
  /\ UNCHANGED <<db, roots, dirs, holder, source, args, start, found, rootGUID, code>>

OpenDevice(d) ==
  /\ pc[d] = "device"
  /\ Goto(d, "registering")
  /\ UNCHANGED <<db, roots, dirs, holder, source, args, start, index, found, rootGUID,
                 maxSequence, code>>

\* REG_SRC_REGISTER, after the negotiation; then READY=1 and the loop.
RegisterHives(d) ==
  /\ pc[d] = "registering" /\ source.by = Nobody
  /\ source' = [by |-> d, seq |-> maxSequence[d],
                roots |-> {<<args[d][i].name, rootGUID[d][i]>> : i \in DOMAIN args[d]}]
  /\ Goto(d, "serving")
  /\ UNCHANGED <<db, roots, dirs, holder, args, start, index, found, rootGUID, maxSequence, code>>

\* A mutation while serving carries the next number the kernel allocates.
Write(d) ==
  /\ pc[d] = "serving" /\ source.by = d /\ source.seq < MaxSeq
  /\ \E i \in DOMAIN args[d] : db' = [db EXCEPT ![args[d][i].file].seq = source.seq + 1]
  /\ source' = [source EXCEPT !.seq = @ + 1]
  /\ UNCHANGED <<roots, dirs, holder, procVars>>

-----------------------------------------------------------------------------
\* Errors, and run's deferred calls, the last one first

\* Faulty: no deferred removal in OpenIn.
NeverOpening(d) == FALSE

\* What OpenIn's deferred function removes when the error is its own.
Opening(d) == pc[d] \in {"schema", "root"}

\* Where the deferred calls begin for an error at this point.
CleanupFrom(place) ==
  CASE place \in {"registering", "serving"} -> "closeDevice"
    [] place \in {"listing", "sweeping"} -> "unlock"
    [] OTHER -> "closeHives"

\* run returns an error.
Abandon(d) ==
  /\ code' = [code EXCEPT ![d] = "error"]
  /\ dirs' = IF Opening(d) THEN dirs \ {Store(d, index[d])} ELSE dirs
  /\ found' = [found EXCEPT ![d] = {}]
  /\ Goto(d, CleanupFrom(pc[d]))
  /\ UNCHANGED <<db, roots, holder, source, args, start, index, rootGUID, maxSequence>>

\* Any step past the lock may fail.
Fail(d) ==
  /\ pc[d] \in {"listing", "sweeping", "making", "schema", "root", "sequence",
                "device", "registering", "serving"}
  /\ Abandon(d)

\* validateSchemaVersion: newer and older are both refused.
RefuseVersion(d) ==
  /\ pc[d] = "schema" /\ db[File(d)].version # Absent
  /\ ~SupportedVersion(db[File(d)].version)
  /\ Abandon(d)

\* The request loop returned nil: end of file, or the device was closed.
StopServing(d) ==
  /\ pc[d] = "serving"
  /\ code' = [code EXCEPT ![d] = "ok"] /\ Goto(d, "closeDevice")
  /\ UNCHANGED <<db, roots, dirs, holder, source, args, start, index, found, rootGUID, maxSequence>>

Disconnect(d) == source' = IF source.by = d THEN NoSource ELSE source

\* The watcher has been joined; the device, then handlers.Close.
CloseDevice(d) ==
  /\ pc[d] = "closeDevice"
  /\ Disconnect(d) /\ Goto(d, "closeHives")
  /\ UNCHANGED <<db, roots, dirs, holder, args, start, index, found, rootGUID, maxSequence, code>>

\* The stores of the hives openHives returned: those it got as far as opening.
Opened(d) == {s \in Made(d) : s[3] <= Len(rootGUID[d])}

\* closeHives: each hive's connections and then its volatile directory.
CloseHives(d) ==
  /\ pc[d] = "closeHives"
  /\ \/ \E s \in Opened(d) : dirs' = dirs \ {s} /\ UNCHANGED pc
     \/ Opened(d) = {} /\ Goto(d, "unlock") /\ UNCHANGED dirs
  /\ UNCHANGED <<db, roots, holder, source, args, start, index, found, rootGUID, maxSequence, code>>

\* The runtime store goes last.
Unlock(d) ==
  /\ pc[d] = "unlock"
  /\ holder' = Nobody /\ Goto(d, "down")
  /\ UNCHANGED <<db, roots, dirs, source, args, start, index, found, rootGUID, maxSequence, code>>

\* The kernel closes what a killed process had open: the lock, the device and
\* the databases.  Its volatile stores stay.
Crash(d) ==
  /\ pc[d] # "down"
  /\ Goto(d, "down") /\ code' = [code EXCEPT ![d] = "crash"]
  /\ found' = [found EXCEPT ![d] = {}]
  /\ holder' = IF holder = d THEN Nobody ELSE holder
  /\ Disconnect(d)
  /\ UNCHANGED <<db, roots, dirs, args, start, index, rootGUID, maxSequence>>

-----------------------------------------------------------------------------
Proceed(d) ==
  \/ AcquireRuntimeLock(d) \/ ListResidue(d) \/ RemoveResidue(d)
  \/ MakeStore(d) \/ EnsureSchema(d) \/ RefuseVersion(d)
  \/ EnsureRootKey(d) \/ ReadMaxSequence(d)
  \/ OpenDevice(d) \/ RegisterHives(d)
  \/ CloseDevice(d) \/ CloseHives(d) \/ Unlock(d)

\* The bound on starts is reached and every process has ended.
Done ==
  (\A d \in Daemons : pc[d] = "down" /\ start[d] = MaxStarts) /\ UNCHANGED vars

Next ==
  \/ \E d \in Daemons :
       Run(d) \/ Proceed(d) \/ Fail(d) \/ Write(d) \/ StopServing(d) \/ Crash(d)
  \/ Done

\* A running process takes the next step of its startup or of its cleanup.
Spec == Init /\ [][Next]_vars /\ \A d \in Daemons : WF_vars(Proceed(d))

-----------------------------------------------------------------------------
Places == {"down", "locking", "listing", "sweeping", "making", "schema", "root",
           "sequence", "device", "registering", "serving", "closeDevice",
           "closeHives", "unlock"}

\* Every variable holds a value of its kind.
TypeOK ==
  /\ \A f \in Files : /\ db[f].version \in Versions \cup {Absent, SchemaVersion}
                      /\ db[f].root \in 1..roots \cup {f, NoRoot} /\ db[f].seq \in 0..MaxSeq
  /\ roots \in Nat /\ holder \in Daemons \cup {Nobody}
  /\ source.by \in Daemons \cup {Nobody} /\ source.seq \in 0..MaxSeq
  /\ pc \in [Daemons -> Places] /\ start \in [Daemons -> 0..MaxStarts]
  /\ \A d \in Daemons : found[d] \subseteq Daemons \X (1..MaxStarts) \X Nat

\* The processes that use the databases and the runtime directory.
Inside(d) == pc[d] \in {"making", "schema", "root", "sequence", "device",
                        "registering", "serving", "closeDevice", "closeHives"}

\* While a process uses its hives /run/loregd holds its own volatile stores
\* and nothing else: no other process sweeps a live store as the residue of a
\* crash, and the residue of every crash is gone before a hive is opened.
StoresExact ==
  \A d \in Daemons : Inside(d) =>
    /\ dirs = Made(d)
    /\ pc[d] # "closeHives" =>
         {s[3] : s \in dirs} =
           {i \in DOMAIN args[d] : \/ i < index[d]
                                   \/ i = index[d] /\ pc[d] \in {"schema", "root", "sequence"}}

\* The databases are open in one process at a time, also while one is still
\* closing them and another is already starting.
OneOwner ==
  \A d, e \in Daemons : Inside(d) /\ Inside(e) => d = e

\* What the kernel was given at registration is what the databases hold: a
\* served name leads to the root key on disk, and no number it can allocate
\* next is already in a database it serves.
RegisteredState ==
  source.by # Nobody =>
    LET d == source.by IN
    /\ source.roots = {<<args[d][i].name, db[args[d][i].file].root>> : i \in DOMAIN args[d]}
    /\ \A i \in DOMAIN args[d] : db[args[d][i].file].seq <= source.seq

\* A process that was not killed leaves nothing behind: no lock, no
\* registration and none of its volatile stores, whichever step failed.
CleanExit ==
  \A d \in Daemons : pc[d] = "down" /\ code[d] # "crash" =>
    Made(d) = {} /\ holder # d /\ source.by # d

\* /run/loregd and the databases belong to one process at a time: it sees no
\* store but its own, loses none of its own, and leaves none when it ends.
OwnershipInv ==
  TypeOK /\ OneOwner /\ StoresExact /\ CleanExit

\* A hive keeps its root key through every crash and restart, and a database
\* with another schema version is left as it was found.
DatabaseKept ==
  [][\A f \in Files :
       /\ db[f].root # NoRoot => db'[f].root = db[f].root
       /\ db[f].version \notin {Absent, SchemaVersion} => db'[f] = db[f]]_vars

\* Started, a process gets to serve or ends, and an ending one releases the
\* runtime lock: neither the sweep nor the cleanup gets stuck.
StartupResolves ==
  \A d \in Daemons : pc[d] \notin {"down", "serving"} ~> pc[d] \in {"down", "serving"}
=============================================================================
