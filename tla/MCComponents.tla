---------------------------- MODULE MCComponents ----------------------------
(***************************************************************************)
(* Small instances of the five components whose state no other component   *)
(* touches while they run: case folding on the repository's own table      *)
(* (Fold), the request codec (Wire), the assembly of answers (Answers),    *)
(* the walk of RSI_DELETE_LAYER over the hives (LayerWalk) and the two key *)
(* tables (KeyTables).  They share no variable, so one run checks them     *)
(* side by side: in a behaviour one of them runs, and the others stay in   *)
(* one of their initial states.                                            *)
(***************************************************************************)
EXTENDS Fold, CaseFoldTable, Wire, Answers, LayerWalk, KeyTables, TLC

CONSTANTS h1, h2, g1, g2

VARIABLE component   \* the one that runs; never changes

-----------------------------------------------------------------------------
(* Fold: every pair of the table, the ends of every range, what is next to *)
(* them and both ends of the code space, a rune each; and names of up to   *)
(* three runes of A, a, the Kelvin sign and the capital sharp S.           *)
Sources ==
  {caseFoldPairs[i][1] : i \in DOMAIN caseFoldPairs}
    \cup UNION {{caseFoldRanges[i][1], caseFoldRanges[i][2]} : i \in DOMAIN caseFoldRanges}

MCRunes ==
  Sources \cup {caseFoldPairs[i][2] : i \in DOMAIN caseFoldPairs}
    \cup {x - 1 : x \in Sources} \cup {x + 1 : x \in Sources} \cup {0, 1114111}

MCStrings ==
  {<<x>> : x \in MCRunes} \cup {<<>>}
    \cup [1..2 -> {65, 97, 8490, 7838}] \cup [1..3 -> {65, 97, 8490}]

-----------------------------------------------------------------------------
(* Answers: names and layers 1 and 3 fold alike; 2 is between them as it   *)
(* is written and before them as it is folded.                             *)
MCFold == [n \in 1..3 |-> IF n = 2 THEN 2 ELSE 3]

Keyed(rows) ==
  \A x, y \in rows : FoldOf[x.name] = FoldOf[y.name] /\ x.layer = y.layer => x = y

Row(n, l, t) == [name |-> n, layer |-> l, target |-> t, seq |-> 10 * n - l]

\* Up to three path entries of three names in two layers, hidden or naming
\* one of two keys, each of which may still lack its record.
PathHives ==
  LET places == UNION {kSubset(n, Names \X {1, 2}) : n \in 1..3}
      rows == UNION {{{Row(p[1], p[2], t[p]) : p \in ps} : t \in [ps -> {Hidden, 1, 2}]} :
                       ps \in places}
  IN {[paths |-> p, values |-> {}, blankets |-> {}, keys |-> k] :
        p \in {q \in rows : Keyed(q)}, k \in SUBSET {1, 2}}

\* Values and tombstones in layers of which two differ in case only.
ValueHives ==
  LET rows == {{Row(p[1], p[2], Hidden) : p \in ps} : ps \in kSubset(3, Names \X {1, 3})}
      tombstones == {{[layer |-> l, seq |-> 40 - l] : l \in ls} : ls \in SUBSET Names}
  IN {[paths |-> {}, values |-> v, blankets |-> b, keys |-> {}] :
        v \in {q \in rows : Keyed(q)}, b \in tombstones}

EmptyHive == [paths |-> {}, values |-> {}, blankets |-> {}, keys |-> {}]
MCContents == PathHives \cup ValueHives \cup {EmptyHive}

\* LayerWalk: two hives of one key each.
MCKeys == h1 :> {g1} @@ h2 :> {g2}

-----------------------------------------------------------------------------
MCInit ==
  /\ component \in {"fold", "wire", "answers", "walk", "tables"}
  /\ FoldInit
  /\ WireInit
  /\ WalkInit /\ (component # "walk" => \A h \in Hives : refs[h] = {Base} \X Keys[h])
  /\ TablesInit /\ (component # "tables" =>
                      db["main"][Root] = [sd |-> CHOOSE d \in Descriptors : TRUE, volatile |-> FALSE,
                                          last_write_time |-> CHOOSE t \in Times : TRUE])
  /\ AnswersInit /\ (component # "answers" => hive = EmptyHive)

\* A malformed frame has ended the serving loop.
TornDown == stage = "down" /\ UNCHANGED wireVars

MCNext ==
  /\ UNCHANGED component
  /\ \/ /\ component = "fold" /\ FoldNext
        /\ UNCHANGED <<wireVars, answersVars, walkVars, tableVars>>
     \/ /\ component = "wire" /\ (WireNext \/ TornDown)
        /\ UNCHANGED <<foldVars, answersVars, walkVars, tableVars>>
     \/ /\ component = "answers" /\ AnswersNext
        /\ UNCHANGED <<foldVars, wireVars, walkVars, tableVars>>
     \/ /\ component = "walk" /\ WalkNext
        /\ UNCHANGED <<foldVars, wireVars, answersVars, tableVars>>
     \/ /\ component = "tables" /\ TablesNext
        /\ UNCHANGED <<foldVars, wireVars, answersVars, walkVars>>

MCVars == <<component, foldVars, wireVars, answersVars, walkVars, tableVars>>

\* The fairness is Fold's: a function that is called runs.
MCSpec == MCInit /\ [][MCNext]_MCVars /\ WF_foldVars(Work)
=============================================================================
