----------------------------- MODULE KeyTables -----------------------------
(***************************************************************************)
(* The key operations on the two key tables of a hive (keys.go): main.keys *)
(* in the hive's file and volatile.keys in the attached tmpfs database.    *)
(* CREATE_KEY chooses the table by the request's flag, READ_KEY reads the  *)
(* union of both, WRITE_KEY looks for the table first and then updates it, *)
(* DROP_KEY deletes from both.  The columns modelled are the two mutable   *)
(* ones and the stored volatile flag that READ_KEY returns.                *)
(*                                                                         *)
(* A mutation holds the hive's lock exclusively from writeQ to its answer  *)
(* (lockHive, Gate.tla), and a competing mutation is declined while a      *)
(* transaction holds the write connection (Transactions.tla): so a         *)
(* mutation is one step here, on the transaction's copy if one is open.    *)
(***************************************************************************)
CONSTANTS Guids, Root, Descriptors, Times, NoKey

ASSUME KeysAssumption == /\ Root \in Guids
                         /\ NoKey \notin [sd : Descriptors, last_write_time : Times,
                                          volatile : BOOLEAN]

Stores == {"main", "volatile"}
Fields == {"sd", "last_write_time"}
Record == [sd : Descriptors, last_write_time : Times, volatile : BOOLEAN]

VARIABLES
  db,      \* the two tables as committed
  work,    \* the tables as the open transaction sees them; db when none is open
  open,    \* whether a read-write transaction holds the write connection
  answer   \* the last request's status, and the record it returned

\* An answer without a record, and the answer of a read.
Status(status) == [status |-> status, record |-> NoKey]
Found(r) == [status |-> IF r = NoKey THEN "NotFound" ELSE "OK", record |-> r]

tableVars == <<db, work, open, answer>>

\* The first start: ensureRootKey has inserted the root with its default
\* descriptor.
TablesInit ==
  /\ \E sd \in Descriptors, t \in Times :
       db = [s \in Stores |-> [g \in Guids |-> IF s = "main" /\ g = Root
                 THEN [sd |-> sd, last_write_time |-> t, volatile |-> FALSE] ELSE NoKey]]
  /\ work = db
  /\ open = FALSE
  /\ answer = Status("OK")

-----------------------------------------------------------------------------
\* The write connection: the open transaction's, or an auto-commit on the file.
Install(d) == /\ work' = d
              /\ db' = IF open THEN db ELSE d
              /\ UNCHANGED open

Refuse(status) == answer' = Status(status) /\ UNCHANGED <<db, work, open>>

KeyExistsIn(d, s, g) == d[s][g] # NoKey

\* The row of key g in the table of store s becomes r.
Put(d, s, g, r) == [d EXCEPT ![s] = [d[s] EXCEPT ![g] = r]]

\* The store whose table RSI_CREATE_KEY does not insert into.
Other(s) == IF s = "main" THEN "volatile" ELSE "main"

\* The check of the other store, then the primary key of the table itself.
GuidTaken(d, s, g) == KeyExistsIn(d, Other(s), g) \/ KeyExistsIn(d, s, g)

\* The row inserted into store s; last_write_time is the clock's.
NewRow(sd, t, s) == [sd |-> sd, last_write_time |-> t, volatile |-> s = "volatile"]

\* RSI_CREATE_KEY.
CreateKey(g, s, sd, t) ==
  \/ GuidTaken(work, s, g) /\ Refuse("AlreadyExists")
  \/ /\ ~GuidTaken(work, s, g)
     /\ Install(Put(work, s, g, NewRow(sd, t, s)))
     /\ answer' = Status("OK")

-----------------------------------------------------------------------------
\* Faulty: the persistent table is updated whichever table has the key.
TableAlwaysMain(d, g) == "main"

\* isVolatileQ: main is asked first.
Table(d, g) == IF KeyExistsIn(d, "main", g) THEN "main" ELSE "volatile"

\* One UPDATE sets exactly the columns the mask names.
Updated(r, mask, sd, t) ==
  [r EXCEPT !.sd = IF "sd" \in mask THEN sd ELSE @,
            !.last_write_time = IF "last_write_time" \in mask THEN t ELSE @]

\* RSI_WRITE_KEY: the table first, then the UPDATE in it.  No key in either, or
\* no row matched, is NOT_FOUND.  An empty mask asks only whether the row exists.
WriteKey(g, mask, sd, t) ==
  LET s == Table(work, g)
      found == \E store \in Stores : KeyExistsIn(work, store, g)
  IN \/ ~(found /\ KeyExistsIn(work, s, g)) /\ Refuse("NotFound")
     \/ /\ found /\ KeyExistsIn(work, s, g)
        /\ \/ mask = {} /\ UNCHANGED <<db, work, open>>
           \/ /\ mask # {}
              /\ Install(Put(work, s, g, Updated(work[s][g], mask, sd, t)))
        /\ answer' = Status("OK")

\* RSI_DROP_KEY: the deletes visit both tables; a GUID that resolves to no hive
\* is a success too.  The kernel does not drop a registered hive's root.
Deleted(d, g, stores) ==
  [s \in Stores |-> IF s \in stores THEN [d[s] EXCEPT ![g] = NoKey] ELSE d[s]]

DropKey(g) == /\ g # Root
              /\ Install(Deleted(work, g, Stores))
              /\ answer' = Status("OK")

\* A storage fault after the delete from main: the handler's own transaction is
\* rolled back, in one of the client the first deletes stay done.
DropKeyFails(g) == /\ g # Root
                   /\ open
                   /\ \E stores \in {{"main"}, Stores} : Install(Deleted(work, g, stores))
                   /\ answer' = Status("StorageError")

\* readKeyFull, readKeyMeta: SELECT ... main.keys UNION ALL ... volatile.keys LIMIT 1.
ReadKeyFull(d, g) == IF KeyExistsIn(d, "main", g) THEN d["main"][g] ELSE d["volatile"][g]

\* RSI_READ_KEY, on the request's own transaction or on the read pool.
ReadKey(g) ==
  \E d \in {db, work} :
    answer' = Found(ReadKeyFull(d, g)) /\ UNCHANGED <<db, work, open>>

\* A statement fails: nothing has changed.
StorageError == Refuse("StorageError")

-----------------------------------------------------------------------------
Bind == ~open /\ open' = TRUE /\ UNCHANGED <<db, work, answer>>
Commit == open /\ open' = FALSE /\ db' = work /\ UNCHANGED <<work, answer>>
Abort == open /\ open' = FALSE /\ work' = db /\ UNCHANGED <<db, answer>>

\* The process ends and starts again: the volatile database is a new one, and
\* cleanOrphans removes keys of main that no path entry names (HiveStore.tla
\* says which), never the root.
Restart ==
  /\ \E kept \in SUBSET Guids :
       /\ Root \in kept
       /\ db' = [s \in Stores |-> [g \in Guids |->
                   IF s = "main" /\ g \in kept THEN db["main"][g] ELSE NoKey]]
  /\ work' = db'
  /\ open' = FALSE
  /\ UNCHANGED answer

TablesNext ==
  \/ \E g \in Guids :
       \/ \E sd \in Descriptors, t \in Times :
            \/ \E s \in Stores : CreateKey(g, s, sd, t)
            \/ \E mask \in SUBSET Fields : WriteKey(g, mask, sd, t)
       \/ DropKey(g) \/ DropKeyFails(g) \/ ReadKey(g)
  \/ StorageError \/ Bind \/ Commit \/ Abort \/ Restart

TablesSpec == TablesInit /\ [][TablesNext]_tableVars

-----------------------------------------------------------------------------
Tables == [Stores -> [Guids -> Record \cup {NoKey}]]

(* The volatile column a client reads is the truth about the row: it is set *)
(* exactly in the rows a restart loses, and no GUID has a row in each table. *)
FlagTellsStore ==
  \A d \in {db, work} :
    /\ d \in Tables
    /\ \A s \in Stores, g \in Guids :
         KeyExistsIn(d, s, g) => /\ d[s][g].volatile = (s = "volatile")
                                 /\ ~KeyExistsIn(d, Other(s), g)

\* The two tables as the one map a client sees.
Union(d) == [g \in Guids |-> ReadKeyFull(d, g)]

Abstract == INSTANCE KeyMap WITH committed <- Union(db), current <- Union(work)

(* The two tables implement one map of keys: every WRITE_KEY changes just  *)
(* the fields its mask names of the one row there is, every READ_KEY       *)
(* returns what the last write left, a drop or a restart never uncovers a  *)
(* second row, and each status says what the map held.                     *)
OneMap == Abstract!Spec
=============================================================================
