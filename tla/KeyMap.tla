------------------------------- MODULE KeyMap -------------------------------
(***************************************************************************)
(* What the key operations promise a client: a hive is one map from GUIDs  *)
(* to key records.  A request changes it in one step and its answer says   *)
(* what the map held at that step.  A read-write transaction works on a    *)
(* copy that becomes the map when it commits; a restart loses the copy and *)
(* the volatile keys, and recovery may remove keys no path names.          *)
(* KeyTables.tla is the implementation, with two tables per hive.          *)
(***************************************************************************)
CONSTANTS Guids, Root, Descriptors, Times, NoKey

Fields == {"sd", "last_write_time"}
Record == [sd : Descriptors, last_write_time : Times, volatile : BOOLEAN]

VARIABLES
  committed,  \* the map every other request sees
  current,    \* the map the open transaction sees; committed when none is open
  open,       \* whether a read-write transaction is open
  answer      \* the last request's status, and the record it read

\* An answer without a record, and the answer of a read.
Status(status) == [status |-> status, record |-> NoKey]
Found(r) == [status |-> IF r = NoKey THEN "NotFound" ELSE "OK", record |-> r]

vars == <<committed, current, open, answer>>

Init ==
  /\ \E sd \in Descriptors, t \in Times :
       committed = [g \in Guids |->
         IF g = Root THEN [sd |-> sd, last_write_time |-> t, volatile |-> FALSE] ELSE NoKey]
  /\ current = committed
  /\ open = FALSE
  /\ answer = Status("OK")

Becomes(m) == /\ current' = m
              /\ committed' = IF open THEN committed ELSE m
              /\ UNCHANGED open

Create(g, r) ==
  IF current[g] = NoKey
    THEN Becomes([current EXCEPT ![g] = r]) /\ answer' = Status("OK")
    ELSE UNCHANGED <<committed, current, open>> /\ answer' = Status("AlreadyExists")

\* The named fields take their new values, the others keep theirs.
With(r, mask, sd, t) ==
  [r EXCEPT !.sd = IF "sd" \in mask THEN sd ELSE @,
            !.last_write_time = IF "last_write_time" \in mask THEN t ELSE @]

Write(g, mask, sd, t) ==
  IF current[g] # NoKey
    THEN Becomes([current EXCEPT ![g] = With(@, mask, sd, t)]) /\ answer' = Status("OK")
    ELSE UNCHANGED <<committed, current, open>> /\ answer' = Status("NotFound")

Drop(g) == Becomes([current EXCEPT ![g] = NoKey]) /\ answer' = Status("OK")

\* In a client's transaction a drop may fail with the key already removed.
DropFails(g) == /\ open
                /\ Becomes([current EXCEPT ![g] = NoKey])
                /\ answer' = Status("StorageError")

ReadFrom(m, g) == /\ answer' = Found(m[g])
                  /\ UNCHANGED <<committed, current, open>>

Fails == answer' = Status("StorageError") /\ UNCHANGED <<committed, current, open>>

Bind == ~open /\ open' = TRUE /\ UNCHANGED <<committed, current, answer>>
Commit == open /\ open' = FALSE /\ committed' = current /\ UNCHANGED <<current, answer>>
Abort == open /\ open' = FALSE /\ current' = committed /\ UNCHANGED <<committed, answer>>

Restart ==
  \E kept \in SUBSET Guids :
    /\ Root \in kept
    /\ committed' = [g \in Guids |->
         IF committed[g] # NoKey /\ ~committed[g].volatile /\ g \in kept
           THEN committed[g] ELSE NoKey]
    /\ current' = committed'
    /\ open' = FALSE
    /\ UNCHANGED answer

Next ==
  \/ \E g \in Guids :
       \/ \E r \in Record : Create(g, r)
       \/ \E mask \in SUBSET Fields, sd \in Descriptors, t \in Times : Write(g, mask, sd, t)
       \/ g # Root /\ (Drop(g) \/ DropFails(g))
       \/ ReadFrom(committed, g) \/ ReadFrom(current, g)
  \/ Fails \/ Bind \/ Commit \/ Abort \/ Restart

Spec == Init /\ [][Next]_vars
=============================================================================
