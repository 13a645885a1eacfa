-------------------------- MODULE CommandLineProofs --------------------------
(***************************************************************************)
(* The safety properties of the commands, for every number of processes,   *)
(* migrations, statements, files, workers, decks and cards: migrate alone  *)
(* as a specification of its own, then upload-files, import-old with       *)
(* cleanup, and load-scryfall-bulk by the steps of their modules, and at   *)
(* the end the command line, which takes a step of one of them and leaves  *)
(* the others alone.                                                       *)
(*                                                                         *)
(* Of migrate the properties are not inductive by themselves: that two     *)
(* transactions do not commit one migration needs that a transaction with  *)
(* its label inserted holds the others up, that its label is not in the    *)
(* table, and that all its statements have been run.  The other commands   *)
(* have their invariants at the head of their parts.                       *)
(***************************************************************************)
EXTENDS CommandLine, TLAPS

(* migrate *)

\* The table holds the first migrations of the list.
Prefix == \E v \in 0 .. N : labels = 1 .. v

\* Whoever is at a migration has found the earlier ones applied.
EarlierApplied == \A p \in Procs : pc[p] \notin Ended => 1 .. at[p] - 1 \subseteq labels

\* An inserted label is new, it is the only one, and its statements have been run.
NewLabel == \A p \in Procs : pc[p] = "commit" => at[p] \notin labels
OneLabel == \A p, q \in Procs :
              pc[p] = "commit" /\ pc[q] = "commit" /\ at[p] = at[q] => p = q
AllRun == \A p \in Procs : pc[p] \in {"label", "commit"} => done[p] = Statements[at[p]]

MigrateInv == /\ TypeOK /\ Prefix /\ EarlierApplied /\ NewLabel /\ OneLabel /\ AllRun
        /\ SuccessIsCurrent /\ LabelMeansApplied

USE DEF Open, Ended

\* A statement belongs to one of the migrations, and has a place in it.
LEMMA StatementFacts ==
  ASSUME NEW i \in StatementIds
  PROVE  i[1] \in 1 .. N /\ i[2] \in 1 .. Statements[i[1]]
  BY DEF StatementIds

\* The invariant holds in every initial state.
LEMMA MigrateInit == Init => MigrateInv
<1> SUFFICES ASSUME Init PROVE MigrateInv
  OBVIOUS
<1> USE NAssumption, StatementsAssumption, StartsAssumption
<1>1. PICK v \in 0 .. N : labels = 1 .. v /\ schema = SchemaOf(v) /\ table \in {v > 0, TRUE}
  BY DEF Init
<1>2. TypeOK
  <2>1. schema \in [StatementIds -> Nat]
    BY <1>1 DEF SchemaOf
  <2>2. table \in BOOLEAN
    <3>1. (v > 0) \in BOOLEAN
      OBVIOUS
    <3> QED
      BY <1>1, <3>1, Zenon
  <2>3. labels \in SUBSET (1 .. N)
    BY <1>1
  <2> QED
    BY <2>1, <2>2, <2>3 DEF Init, TypeOK
<1>3. LabelMeansApplied
  BY <1>1, StatementFacts DEF LabelMeansApplied, SchemaOf
<1> QED
  BY <1>1, <1>2, <1>3 DEF Init, MigrateInv, Prefix, EarlierApplied, NewLabel, OneLabel, AllRun,
     SuccessIsCurrent

\* No step leaves the types.
LEMMA NextTypeOK == TypeOK /\ AllRun /\ [Next]_vars => TypeOK'
<1> SUFFICES ASSUME TypeOK, AllRun, [Next]_vars PROVE TypeOK'
  OBVIOUS
<1> USE NAssumption, StatementsAssumption, StartsAssumption
<1>1. ASSUME NEW p \in Procs, CheckTable(p) PROVE TypeOK'
  BY <1>1 DEF CheckTable, Go, TypeOK
<1>2. ASSUME NEW p \in Procs, CreateTable(p) PROVE TypeOK'
  BY <1>2 DEF CreateTable, Go, TypeOK
<1>3. ASSUME NEW p \in Procs, Onward(p), starts' = starts, table' = table,
             labels' \in SUBSET (1 .. N), schema' \in [StatementIds -> Nat]
      PROVE TypeOK'
  <2>1. at' \in [Procs -> 1 .. N]
    BY <1>3 DEF Onward, TypeOK
  <2>2. pc' \in [Procs -> {"check", "create"} \cup Open \cup Ended]
    BY <1>3 DEF Onward, TypeOK
  <2>3. done' \in [Procs -> Nat]
    BY <1>3 DEF Onward, TypeOK
  <2>4. \A q \in Procs : done'[q] <= Statements[at'[q]]
    <3> TAKE q \in Procs
    <3>1. CASE q = p
      BY <1>3, <2>1, <3>1 DEF Onward, TypeOK
    <3>2. CASE q # p
      BY <1>3, <3>2 DEF Onward, TypeOK
    <3> QED
      BY <3>1, <3>2
  <2> QED
    BY <1>3, <2>1, <2>2, <2>3, <2>4 DEF TypeOK
<1>4. ASSUME NEW p \in Procs, Select(p) PROVE TypeOK'
  <2>1. CASE Onward(p)
    BY <1>3, <1>4, <2>1 DEF Select, TypeOK
  <2>2. CASE Go(p, "select", "run") /\ UNCHANGED <<at, done>>
    BY <1>4, <2>2 DEF Select, Go, TypeOK
  <2> QED
    BY <1>4, <2>1, <2>2 DEF Select
<1>5. ASSUME NEW p \in Procs, Run(p) PROVE TypeOK'
  <2>1. CASE done' = [done EXCEPT ![p] = @ + 1] /\ UNCHANGED pc
    <3>1. done' \in [Procs -> Nat]
      BY <2>1 DEF TypeOK
    <3>2. ASSUME NEW q \in Procs PROVE done'[q] <= Statements[at[q]]
      <4>1. at[p] \in 1 .. N /\ at[q] \in 1 .. N /\ done[p] \in Nat /\ done[q] \in Nat
        BY DEF TypeOK
      <4>2. done[p] < Statements[at[p]] /\ done[q] <= Statements[at[q]]
        BY <1>5 DEF Run, TypeOK
      <4>3. done'[q] = IF q = p THEN done[p] + 1 ELSE done[q]
        BY <2>1 DEF TypeOK
      <4> QED
        BY <4>1, <4>2, <4>3
    <3> QED
      BY <1>5, <2>1, <3>1, <3>2 DEF Run, TypeOK
  <2>2. CASE pc' = [pc EXCEPT ![p] = "failed"] /\ UNCHANGED done
    BY <1>5, <2>2 DEF Run, TypeOK
  <2> QED
    BY <1>5, <2>1, <2>2 DEF Run
<1>6. ASSUME NEW p \in Procs, LastStatement(p) PROVE TypeOK'
  BY <1>6 DEF LastStatement, Go, TypeOK
<1>7. ASSUME NEW p \in Procs, InsertLabel(p) PROVE TypeOK'
  BY <1>7 DEF InsertLabel, Go, TypeOK
<1>8. ASSUME NEW p \in Procs, Commit(p) PROVE TypeOK'
  <2>1. labels' \in SUBSET (1 .. N)
    BY <1>8 DEF Commit, TypeOK
  <2>2. schema' \in [StatementIds -> Nat]
    BY <1>8 DEF Commit, TypeOK
  <2> QED
    BY <1>3, <1>8, <2>1, <2>2 DEF Commit
<1>9. ASSUME NEW p \in Procs, Kill(p) PROVE TypeOK'
  BY <1>9 DEF Kill, TypeOK
<1>10. ASSUME NEW p \in Procs, Restart(p) PROVE TypeOK'
  <2>1. at' \in [Procs -> 1 .. N] /\ done' \in [Procs -> Nat]
    BY <1>10 DEF Restart, TypeOK
  <2>2. \A q \in Procs : done'[q] <= Statements[at'[q]]
    <3> TAKE q \in Procs
    <3>1. CASE q = p
      BY <1>10, <2>1, <3>1 DEF Restart, TypeOK
    <3>2. CASE q # p
      BY <1>10, <3>2 DEF Restart, TypeOK
    <3> QED
      BY <3>1, <3>2
  <2>3. starts' \in [Procs -> 1 .. MaxStarts]
    BY <1>10 DEF Restart, TypeOK
  <2> QED
    BY <1>10, <2>1, <2>2, <2>3 DEF Restart, TypeOK
<1>11. CASE UNCHANGED vars
  BY <1>11 DEF vars, TypeOK
<1> QED
  BY <1>1, <1>2, <1>4, <1>5, <1>6, <1>7, <1>8, <1>9, <1>10, <1>11 DEF Next, Step

\* A transaction that commits finds exactly the earlier migrations.
LEMMA CommitFacts ==
  ASSUME MigrateInv, NEW p \in Procs, pc[p] = "commit"
  PROVE  /\ labels = 1 .. at[p] - 1
         /\ \A i \in StatementIds : Pending(p, i) <=> i[1] = at[p]
<1> USE NAssumption, StatementsAssumption DEF MigrateInv
<1>1. PICK v \in 0 .. N : labels = 1 .. v
  BY DEF Prefix
<1>2. at[p] \in 1 .. N
  BY DEF TypeOK
<1>3. 1 .. at[p] - 1 \subseteq 1 .. v /\ at[p] \notin 1 .. v
  BY <1>1 DEF EarlierApplied, NewLabel
<1>4. v = at[p] - 1
  <2>1. v < at[p]
    BY <1>2, <1>3
  <2>2. CASE at[p] = 1
    BY <2>1, <2>2
  <2>3. CASE at[p] # 1
    <3>1. at[p] - 1 \in 1 .. at[p] - 1
      BY <1>2, <2>3
    <3> QED
      BY <1>2, <1>3, <2>1, <3>1
  <2> QED
    BY <2>2, <2>3
<1>5. ASSUME NEW i \in StatementIds PROVE Pending(p, i) <=> i[1] = at[p]
  <2>1. i[1] \in 1 .. N /\ i[2] \in 1 .. Statements[i[1]]
    BY StatementFacts
  <2>2. done[p] = Statements[at[p]]
    BY DEF AllRun
  <2> QED
    BY <2>1, <2>2 DEF Pending
<1> QED
  BY <1>1, <1>4, <1>5

\* A commit takes the database to the next version of the schema.
LEMMA CommitApplies ==
  ASSUME MigrateInv, NEW p \in Procs, Commit(p)
  PROVE  History!Apply(at[p])
<1>1. pc[p] = "commit"
  BY DEF Commit
<1>2. labels = 1 .. at[p] - 1
  BY <1>1, CommitFacts
<1>3. schema' = [i \in StatementIds |-> IF i[1] = at[p] THEN schema[i] + 1 ELSE schema[i]]
  BY <1>1, CommitFacts DEF Commit
<1>4. History!StatementIds = StatementIds
  BY DEF History!StatementIds, StatementIds
<1> QED
  BY <1>2, <1>3, <1>4 DEF Commit, History!Apply

\* No step leaves the invariant.
LEMMA MigrateStep == MigrateInv /\ [Next]_vars => MigrateInv'
<1> SUFFICES ASSUME MigrateInv, [Next]_vars PROVE MigrateInv'
  OBVIOUS
<1> USE NAssumption, StatementsAssumption
<1>0. TypeOK'
  BY NextTypeOK DEF MigrateInv
<1>1. ASSUME NEW p \in Procs, CheckTable(p) PROVE MigrateInv'
  BY <1>0, <1>1 DEF CheckTable, Go, MigrateInv, TypeOK, Prefix, EarlierApplied, NewLabel,
     OneLabel,
     AllRun, SuccessIsCurrent, LabelMeansApplied
<1>2. ASSUME NEW p \in Procs, CreateTable(p) PROVE MigrateInv'
  BY <1>0, <1>2 DEF CreateTable, Go, MigrateInv, TypeOK, Prefix, EarlierApplied, NewLabel,
     OneLabel,
     AllRun, SuccessIsCurrent, LabelMeansApplied
<1>3. ASSUME NEW p \in Procs, Onward(p), pc[p] \notin Ended, at[p] \in labels',
             labels \subseteq labels', Prefix',
             \A q \in Procs : pc[q] = "commit" /\ q # p => at[q] \notin labels'
      PROVE  EarlierApplied' /\ NewLabel' /\ OneLabel' /\ AllRun' /\ SuccessIsCurrent'
  <2>1. at[p] \in 1 .. N /\ 1 .. at[p] - 1 \subseteq labels
    BY <1>3 DEF MigrateInv, TypeOK, EarlierApplied
  <2>2. 1 .. at[p] \subseteq labels'
    BY <1>3, <2>1
  <2>3. \A q \in Procs \ {p} : pc'[q] = pc[q] /\ at'[q] = at[q] /\ done'[q] = done[q]
    BY <1>3 DEF Onward, MigrateInv, TypeOK
  <2>4. at'[p] = IF at[p] = N THEN N ELSE at[p] + 1
    BY <1>3 DEF Onward, MigrateInv, TypeOK
  <2>5. pc'[p] = IF at[p] = N THEN "done" ELSE "select"
    BY <1>3 DEF Onward, MigrateInv, TypeOK
  <2>6. EarlierApplied'
    <3> SUFFICES ASSUME NEW q \in Procs, pc'[q] \notin Ended PROVE 1 .. at'[q] - 1 \subseteq labels'
      BY DEF EarlierApplied
    <3>1. CASE q = p
      BY <2>1, <2>2, <2>4, <2>5, <3>1
    <3>2. CASE q # p
      BY <1>3, <2>3, <3>2 DEF MigrateInv, EarlierApplied
    <3> QED
      BY <3>1, <3>2
  <2>7. SuccessIsCurrent'
    <3> SUFFICES ASSUME NEW q \in Procs, pc'[q] = "done" PROVE labels' = 1 .. N
      BY DEF SuccessIsCurrent
    <3>1. labels' \subseteq 1 .. N
      BY <1>0 DEF TypeOK
    <3>2. CASE q = p
      BY <2>2, <2>5, <3>1, <3>2
    <3>3. CASE q # p
      BY <1>3, <2>3, <3>1, <3>3 DEF MigrateInv, SuccessIsCurrent
    <3> QED
      BY <3>2, <3>3
  <2>8. NewLabel' /\ OneLabel' /\ AllRun'
    BY <1>3, <2>3, <2>5 DEF MigrateInv, NewLabel, OneLabel, AllRun
  <2> QED
    BY <2>6, <2>7, <2>8
<1>4. ASSUME NEW p \in Procs, Select(p) PROVE MigrateInv'
  <2>1. CASE pc[p] = "select" /\ at[p] \in labels /\ Onward(p)
    <3>1. Prefix' /\ LabelMeansApplied' /\ labels' = labels
      BY <1>4 DEF Select, MigrateInv, Prefix, LabelMeansApplied
    <3> QED
      BY <1>0, <1>3, <2>1, <3>1 DEF MigrateInv, NewLabel
  <2>2. CASE at[p] \notin labels /\ Go(p, "select", "run") /\ UNCHANGED <<at, done>>
    BY <1>0, <1>4, <2>2 DEF Select, Go, MigrateInv, TypeOK, Prefix, EarlierApplied, NewLabel,
       OneLabel,
       AllRun, SuccessIsCurrent, LabelMeansApplied
  <2> QED
    BY <1>4, <2>1, <2>2 DEF Select
<1>5. ASSUME NEW p \in Procs, Run(p) PROVE MigrateInv'
  <2>1. \A q \in Procs : /\ pc'[q] \in {pc[q], "failed"}
                         /\ pc[q] # "run" => pc'[q] = pc[q] /\ done'[q] = done[q]
    BY <1>5 DEF Run, MigrateInv, TypeOK
  <2>2. labels' = labels /\ schema' = schema /\ at' = at
    BY <1>5 DEF Run
  <2>3. EarlierApplied' /\ NewLabel' /\ SuccessIsCurrent'
    BY <2>1, <2>2 DEF MigrateInv, EarlierApplied, NewLabel, SuccessIsCurrent
  <2>4. OneLabel' /\ AllRun'
    BY <2>1, <2>2 DEF MigrateInv, OneLabel, AllRun
  <2> QED
    BY <1>0, <2>2, <2>3, <2>4 DEF MigrateInv, Prefix, LabelMeansApplied
<1>6. ASSUME NEW p \in Procs, LastStatement(p) PROVE MigrateInv'
  BY <1>0, <1>6 DEF LastStatement, Go, MigrateInv, TypeOK, Prefix, EarlierApplied, NewLabel,
     OneLabel,
     AllRun, SuccessIsCurrent, LabelMeansApplied
<1>7. ASSUME NEW p \in Procs, InsertLabel(p) PROVE MigrateInv'
  BY <1>0, <1>7 DEF InsertLabel, Go, MigrateInv, TypeOK, Prefix, EarlierApplied, NewLabel,
     OneLabel,
     AllRun, SuccessIsCurrent, LabelMeansApplied
<1>8. ASSUME NEW p \in Procs, Commit(p) PROVE MigrateInv'
  <2>1. pc[p] = "commit" /\ Onward(p) /\ labels' = labels \cup {at[p]}
    BY <1>8 DEF Commit
  <2>2. labels = 1 .. at[p] - 1 /\ \A i \in StatementIds : Pending(p, i) <=> i[1] = at[p]
    BY <2>1, CommitFacts
  <2>3. at[p] \in 1 .. N
    BY DEF MigrateInv, TypeOK
  <2>4. labels' = 1 .. at[p]
    BY <2>1, <2>2, <2>3
  <2>5. Prefix'
    BY <2>3, <2>4 DEF Prefix
  <2>6. \A q \in Procs : pc[q] = "commit" /\ q # p => at[q] \notin labels'
    BY <2>1 DEF MigrateInv, NewLabel, OneLabel
  <2>7. LabelMeansApplied'
    <3>1. ASSUME NEW i \in StatementIds
          PROVE  (IF Pending(p, i) THEN schema[i] + 1 ELSE schema[i])
                   = IF i[1] \in labels' THEN 1 ELSE 0
      <4>1. schema[i] = IF i[1] \in labels THEN 1 ELSE 0
        BY DEF MigrateInv, LabelMeansApplied
      <4>2. Pending(p, i) <=> i[1] = at[p]
        BY <2>2
      <4>3. at[p] \notin labels
        BY <2>1 DEF MigrateInv, NewLabel
      <4> QED
        BY <2>1, <4>1, <4>2, <4>3
    <3>2. schema' = [i \in StatementIds |-> IF Pending(p, i) THEN schema[i] + 1 ELSE schema[i]]
      BY <1>8 DEF Commit
    <3> QED
      BY <3>1, <3>2 DEF LabelMeansApplied
  <2> QED
    BY <1>0, <1>3, <2>1, <2>5, <2>6, <2>7 DEF MigrateInv
<1>9. ASSUME NEW p \in Procs, Kill(p) PROVE MigrateInv'
  BY <1>0, <1>9 DEF Kill, MigrateInv, TypeOK, Prefix, EarlierApplied, NewLabel, OneLabel,
     AllRun, SuccessIsCurrent, LabelMeansApplied
<1>10. ASSUME NEW p \in Procs, Restart(p) PROVE MigrateInv'
  <2>1. \A q \in Procs \ {p} : pc'[q] = pc[q] /\ at'[q] = at[q] /\ done'[q] = done[q]
    BY <1>10 DEF Restart, MigrateInv, TypeOK
  <2>2. pc'[p] = "check" /\ at'[p] = 1 /\ labels' = labels /\ schema' = schema
    BY <1>10 DEF Restart, MigrateInv, TypeOK
  <2>3. EarlierApplied' /\ NewLabel' /\ SuccessIsCurrent'
    BY <2>1, <2>2 DEF MigrateInv, EarlierApplied, NewLabel, SuccessIsCurrent
  <2>4. OneLabel' /\ AllRun'
    BY <2>1, <2>2 DEF MigrateInv, OneLabel, AllRun
  <2> QED
    BY <1>0, <2>2, <2>3, <2>4 DEF MigrateInv, Prefix, LabelMeansApplied
<1>11. CASE UNCHANGED vars
  BY <1>0, <1>11 DEF vars, MigrateInv, Prefix, EarlierApplied, NewLabel, OneLabel,
     AllRun, SuccessIsCurrent, LabelMeansApplied
<1> QED
  BY <1>1, <1>2, <1>4, <1>5, <1>6, <1>7, <1>8, <1>9, <1>10, <1>11 DEF Next, Step

\* The invariant holds in every reachable state.
THEOREM MigrateInvariance == Spec => []MigrateInv
<1> QED
  BY MigrateInit, MigrateStep, PTL DEF Spec

\* The state of migrate and of the database always has its type.
THEOREM TypeCorrect == Spec => []TypeOK
<1>1. MigrateInv => TypeOK
  BY DEF MigrateInv
<1> QED
  BY <1>1, MigrateInvariance, PTL

\* A label stands for the whole migration, once, for every number of processes that
\* run migrate, and wherever they are killed.
THEOREM LabelsHold == Spec => []LabelMeansApplied
<1>1. MigrateInv => LabelMeansApplied
  BY DEF MigrateInv
<1> QED
  BY <1>1, MigrateInvariance, PTL

\* A migration is only committed on the schema of exactly the earlier ones.
THEOREM BuildsInOrder == Spec => []BuildsOnTheEarlier
<1>1. MigrateInv => BuildsOnTheEarlier
  BY CommitFacts DEF BuildsOnTheEarlier
<1> QED
  BY <1>1, MigrateInvariance, PTL

\* A process that reports success has brought the schema up to date.
THEOREM SuccessHolds == Spec => []SuccessIsCurrent
<1>1. MigrateInv => SuccessIsCurrent
  BY DEF MigrateInv
<1> QED
  BY <1>1, MigrateInvariance, PTL

\* The labels and the schema start as those of SchemaHistory.
LEMMA HistoryInit == Init => History!Init
<1> SUFFICES ASSUME Init PROVE History!Init
  OBVIOUS
<1>1. History!StatementIds = StatementIds
  BY DEF History!StatementIds, StatementIds
<1> QED
  BY <1>1 DEF Init, SchemaOf, History!Init

\* A step of migrate is a step of SchemaHistory or changes nothing it shows.
LEMMA HistoryStep == MigrateInv /\ [Next]_vars => [History!Next]_<<labels, schema>>
<1> SUFFICES ASSUME MigrateInv, [Next]_vars PROVE [History!Next]_<<labels, schema>>
  OBVIOUS
<1>1. ASSUME NEW p \in Procs, Commit(p) PROVE History!Next
  <2>1. History!Apply(at[p])
    BY <1>1, CommitApplies
  <2>2. at[p] \in 1 .. N
    BY DEF MigrateInv, TypeOK
  <2> QED
    BY <2>1, <2>2 DEF History!Next
<1>2. ASSUME NEW p \in Procs, ~Commit(p), Step(p) \/ Kill(p) \/ Restart(p)
      PROVE  UNCHANGED <<labels, schema>>
  BY <1>2 DEF Step, CheckTable, CreateTable, Select, Run, LastStatement, InsertLabel, Kill,
     Restart
<1>3. CASE UNCHANGED vars
  BY <1>3 DEF vars
<1> QED
  BY <1>1, <1>2, <1>3 DEF Next

\* Readers of the database see one version of the schema after the other: every
\* step of migrate is a step of SchemaHistory or changes nothing it shows.
THEOREM ImplementsHistory == Spec => OneVersionAtATime
<1> QED
  BY HistoryInit, HistoryStep, MigrateInvariance, PTL DEF Spec, OneVersionAtATime, History!Spec

HIDE DEF Open, Ended
-----------------------------------------------------------------------------
(* upload-files *)

(***************************************************************************)
(* A key that two have found free at once is in raced; at any other key    *)
(* there is at most one who is about to write, and it is still free.  The  *)
(* rest is the way of a file: on the disk it has still to be found, is in  *)
(* the channel or with a worker, unless a worker has failed; and the pool  *)
(* has only seen the ends of workers that heard that no file comes.        *)
(***************************************************************************)
Threads == 1 .. Workers
Holds(w) == worker[w] \in {"check", "put", "remove"}
Writes(w) == worker[w] = "put"
Stores(s) == saver[s] = "put"

UpTypes == /\ remote \in [Up!Keys -> Up!Contents \cup {Null}]
           /\ local \in SUBSET Files /\ unsent \in SUBSET Files /\ channel \in SUBSET Files
           /\ worker \in [Threads -> {"recv", "check", "put", "remove", "done", "failed"}]
           /\ item \in [Threads -> Files \cup {Null}]
           /\ left \in 0 .. Workers
           /\ scan \in [Folders -> {"scanning", "done", "failed"}]
           /\ saver \in [Savers -> {"check", "put", "saved", "failed"}]
           /\ key \in [Savers -> Up!Keys]
           /\ raced \in SUBSET Up!Keys /\ refused \in SUBSET Up!Keys

OwnContent == \A k \in Up!Keys : remote[k] \in {Null} \cup Savers \cup (Files \cap {k})
HasItem == \A w \in Threads : Holds(w) => item[w] \in Files
Sent == \A w \in Threads : worker[w] = "remove" => remote[item[w]] # Null \/ item[w] \in refused
RaceOfWorkers == \A v, w \in Threads :
  Writes(v) /\ Writes(w) /\ item[v] = item[w] /\ v # w => item[v] \in raced
RaceOfSavers == \A s, t \in Savers :
  Stores(s) /\ Stores(t) /\ key[s] = key[t] /\ s # t => key[s] \in raced
RaceOfBoth == \A w \in Threads, s \in Savers :
  Writes(w) /\ Stores(s) /\ key[s] = item[w] => key[s] \in raced
StillFree == /\ \A w \in Threads : Writes(w) /\ item[w] \notin raced => remote[item[w]] = Null
             /\ \A s \in Savers : Stores(s) /\ key[s] \notin raced => remote[key[s]] = Null

AllHeard == \A w \in Threads : worker[w] = "done" => channel = {} /\ Up!NoSender
AllFound == \A f \in Folders : scan[f] = "done" => \A k \in unsent : FolderOf[k] # f
PoppedDone == Up!Running => \A w \in left + 1 .. Workers : worker[w] = "done"
OnItsWay == Up!Running => \/ \E w \in Threads : worker[w] = "failed"
                          \/ \A k \in local : \/ k \in unsent \cup channel
                                              \/ \E w \in Threads : Holds(w) /\ item[w] = k
OneAtATime == \A k, l \in channel : k = l
OkIsEmpty == result = "ok" => local = {}

KeysInv == UpTypes /\ OwnContent /\ HasItem /\ Sent /\ RaceOfWorkers /\ RaceOfSavers
             /\ RaceOfBoth /\ StillFree /\ Up!SavedIsThere /\ Up!NoFileLost
WayInv == AllHeard /\ AllFound /\ PoppedDone /\ OnItsWay /\ OneAtATime /\ OkIsEmpty
UpInv == KeysInv /\ WayInv

\* What is assumed of the files, the folders, the workers and the saves.
LEMMA UpConstants ==
  /\ FolderOf \in [Files -> Folders] /\ Workers \in Nat \ {0} /\ NameOf \in [Savers -> Up!Keys]
  /\ Files \cap Savers = {} /\ Null \notin Files /\ Null \notin Savers /\ Null \notin Up!Keys
  /\ Up!Keys = Files \cup Spare /\ Up!Contents = Files \cup Savers
  BY UploadsAssumption DEF Up!FileAssumption, Up!WorkerAssumption, Up!SaverAssumption,
     Up!ContentAssumption, Up!Keys, Up!Contents

\* upload-files starts with all files on the disk, and each key free or with its file.
LEMMA UpInit == Up!Init => UpInv
<1> SUFFICES ASSUME Up!Init PROVE UpInv
  OBVIOUS
<1> USE UpConstants DEF Up!Init, Threads
<1>1. KeysInv
  <2>1. UpTypes
    BY DEF UpTypes
  <2>2. OwnContent
    BY DEF OwnContent
  <2> QED
    BY <2>1, <2>2 DEF KeysInv, HasItem, Holds, Sent, RaceOfWorkers, Writes, RaceOfSavers,
       Stores,
       RaceOfBoth, StillFree, Up!SavedIsThere, Up!NoFileLost
<1>2. WayInv
  BY DEF WayInv, AllHeard, AllFound, PoppedDone, OnItsWay, OneAtATime, OkIsEmpty
<1> QED
  BY <1>1, <1>2 DEF UpInv

\* The steps that concern neither a key nor who is about to write it.
LEMMA KeysQuiet ==
  ASSUME KeysInv, UpTypes', UNCHANGED <<remote, local, saver, key, raced, refused>>,
         \A w \in Threads :
           \/ worker'[w] = worker[w] /\ item'[w] = item[w]
           \/ worker'[w] \in {"recv", "done", "failed"}
           \/ worker'[w] = "check" /\ item'[w] \in Files
  PROVE  KeysInv'
<1> USE DEF KeysInv, Threads
<1>1. OwnContent' /\ Up!SavedIsThere' /\ Up!NoFileLost' /\ RaceOfSavers'
  BY DEF OwnContent, Up!SavedIsThere, Up!NoFileLost, RaceOfSavers, Stores
<1>2. HasItem' /\ Sent'
  BY DEF HasItem, Sent, Holds
<1>3. RaceOfWorkers' /\ RaceOfBoth' /\ StillFree'
  BY DEF RaceOfWorkers, RaceOfBoth, StillFree, Writes, Stores
<1> QED
  BY <1>1, <1>2, <1>3

\* A worker finds its key free.
LEMMA KeysFound ==
  ASSUME KeysInv, UpTypes', NEW w \in Threads, worker[w] = "check",
         worker' = [worker EXCEPT ![w] = "put"], remote[item[w]] = Null, Up!NoteFree(item[w]),
         UNCHANGED <<remote, local, item, saver, key>>
  PROVE  KeysInv'
<1> USE DEF KeysInv, Threads
<1>1. /\ \A v \in Threads : Writes(v) /\ item[v] = item[w] => item[w] \in raced'
      /\ \A s \in Savers : Stores(s) /\ key[s] = item[w] => item[w] \in raced'
      /\ raced \subseteq raced' /\ refused' = refused
  BY DEF Up!NoteFree, Up!AboutToWrite, Writes, Stores
<1>2. /\ worker'[w] = "put" /\ ~Writes(w)
      /\ \A v \in Threads : v # w => worker'[v] = worker[v]
  BY DEF UpTypes, Writes
<1>3. OwnContent' /\ Up!SavedIsThere' /\ Up!NoFileLost' /\ RaceOfSavers'
  BY <1>1 DEF OwnContent, Up!SavedIsThere, Up!NoFileLost, RaceOfSavers, Stores
<1>4. HasItem' /\ Sent'
  BY <1>1, <1>2 DEF HasItem, Sent, Holds
<1>5. RaceOfWorkers' /\ RaceOfBoth' /\ StillFree'
  BY <1>1, <1>2 DEF RaceOfWorkers, RaceOfBoth, StillFree, Writes, Stores
<1> QED
  BY <1>3, <1>4, <1>5

\* A worker writes its key, or the store refuses it, or nobody knows.
LEMMA KeysPut ==
  ASSUME KeysInv, UpTypes', NEW w \in Threads, Writes(w), NEW to \in {"remove", "failed"},
         worker' = [worker EXCEPT ![w] = to], \A v \in Threads : v # w => item'[v] = item[v],
         to = "remove" => item'[w] = item[w],
         \/ remote' = [remote EXCEPT ![item[w]] = item[w]] /\ refused' = refused
         \/ remote' = remote /\ refused' = refused \cup {item[w]}
         \/ remote' = remote /\ refused' = refused /\ to = "failed",
         UNCHANGED <<local, saver, key, raced>>
  PROVE  KeysInv'
<1> USE UpConstants DEF KeysInv
<1>1. item[w] \in Files /\ item[w] \in Up!Keys
  BY DEF HasItem, Holds, Writes
<1>2. /\ worker'[w] = to /\ \A v \in Threads : v # w => worker'[v] = worker[v]
      /\ refused \subseteq refused'
  BY DEF UpTypes
<1>3. \A k \in Up!Keys : remote'[k] = remote[k] \/ (k = item[w] /\ remote'[k] = item[w])
  BY DEF UpTypes
<1>4. OwnContent'
  BY <1>1, <1>3 DEF OwnContent
<1>5. HasItem'
  BY <1>1, <1>2 DEF HasItem, Holds
<1>6. Sent'
  <2> SUFFICES ASSUME NEW v \in Threads, worker'[v] = "remove"
               PROVE  remote'[item'[v]] # Null \/ item'[v] \in refused'
    BY DEF Sent
  <2>1. CASE v = w
    <3>1. item'[v] = item[w] /\ to = "remove"
      BY <1>2, <2>1
    <3>2. CASE remote' = [remote EXCEPT ![item[w]] = item[w]]
      BY <1>1, <3>1, <3>2 DEF UpTypes
    <3>3. CASE refused' = refused \cup {item[w]}
      BY <3>1, <3>3
    <3> QED
      BY <3>1, <3>2, <3>3
  <2>2. CASE v # w
    <3>1. worker[v] = "remove" /\ item'[v] = item[v] /\ item[v] \in Up!Keys
      BY <1>2, <2>2 DEF HasItem, Holds
    <3>2. remote[item[v]] # Null \/ item[v] \in refused
      BY <3>1 DEF Sent
    <3> QED
      BY <1>1, <1>2, <1>3, <3>1, <3>2
  <2> QED
    BY <2>1, <2>2
<1>7. RaceOfWorkers' /\ RaceOfSavers' /\ RaceOfBoth'
  BY <1>2 DEF RaceOfWorkers, RaceOfSavers, RaceOfBoth, Writes, Stores
<1>8. StillFree'
  <2>1. ASSUME NEW v \in Threads, Writes(v)', item'[v] \notin raced PROVE remote'[item'[v]] = Null
    <3>1. v # w /\ item'[v] = item[v] /\ Writes(v)
      BY <1>2, <2>1 DEF Writes
    <3>2. item[v] # item[w] /\ remote[item[v]] = Null /\ item[v] \in Up!Keys
      BY <2>1, <3>1 DEF RaceOfWorkers, StillFree, HasItem, Holds, Writes
    <3> QED
      BY <1>3, <3>1, <3>2
  <2>2. ASSUME NEW s \in Savers, Stores(s), key[s] \notin raced PROVE remote'[key[s]] = Null
    <3>1. key[s] # item[w] /\ remote[key[s]] = Null /\ key[s] \in Up!Keys
      BY <2>2 DEF RaceOfBoth, StillFree, UpTypes
    <3> QED
      BY <1>3, <3>1
  <2> QED
    BY <2>1, <2>2 DEF StillFree, Writes, Stores
<1>9. Up!SavedIsThere'
  <2> SUFFICES ASSUME NEW s \in Savers, saver[s] = "saved", key[s] \notin raced \cup refused'
               PROVE  remote'[key[s]] = s
    BY DEF Up!SavedIsThere
  <2>1. remote[key[s]] = s /\ key[s] \in Up!Keys
    BY <1>2 DEF Up!SavedIsThere, UpTypes
  <2>2. key[s] # item[w]
    BY <2>1 DEF StillFree
  <2> QED
    BY <1>3, <2>1, <2>2
<1>10. Up!NoFileLost'
  BY <1>2, <1>3 DEF Up!NoFileLost
<1> QED
  BY <1>4, <1>5, <1>6, <1>7, <1>8, <1>9, <1>10

\* A saver finds its key free.
LEMMA KeysFree ==
  ASSUME KeysInv, UpTypes', NEW s \in Savers, Up!FindFree(s)
  PROVE  KeysInv'
<1> USE DEF KeysInv
<1>1. /\ saver[s] = "check" /\ saver' = [saver EXCEPT ![s] = "put"]
      /\ remote[key[s]] = Null
      /\ UNCHANGED <<remote, local, worker, item, key>>
  BY DEF Up!FindFree, Up!Saver, Up!command
<1>2. /\ \A v \in Threads : Writes(v) /\ item[v] = key[s] => key[s] \in raced'
      /\ \A t \in Savers : Stores(t) /\ key[t] = key[s] => key[s] \in raced'
      /\ raced \subseteq raced' /\ refused' = refused
  BY DEF Up!FindFree, Up!NoteFree, Up!AboutToWrite, Writes, Stores, Threads
<1>3. /\ saver'[s] = "put" /\ \A t \in Savers : t # s => saver'[t] = saver[t]
  BY <1>1 DEF UpTypes
<1>4. OwnContent' /\ Up!NoFileLost' /\ HasItem' /\ Sent' /\ RaceOfWorkers'
  BY <1>1, <1>2 DEF OwnContent, Up!NoFileLost, HasItem, Sent, Holds, RaceOfWorkers, Writes
<1>5. RaceOfSavers' /\ RaceOfBoth' /\ StillFree'
  BY <1>1, <1>2, <1>3 DEF RaceOfSavers, RaceOfBoth, StillFree, Writes, Stores
<1>6. Up!SavedIsThere'
  BY <1>1, <1>2, <1>3 DEF Up!SavedIsThere
<1> QED
  BY <1>4, <1>5, <1>6

\* A saver that has found its key taken takes another one.
LEMMA KeysTaken ==
  ASSUME KeysInv, UpTypes', NEW s \in Savers, Up!FindTaken(s)
  PROVE  KeysInv'
<1> USE DEF KeysInv
<1>1. /\ saver[s] = "check" /\ \A t \in Savers : t # s => key'[t] = key[t]
      /\ UNCHANGED <<remote, local, worker, item, saver, raced, refused>>
  BY DEF Up!FindTaken, Up!command, Up!history, UpTypes
<1>2. OwnContent' /\ Up!NoFileLost' /\ HasItem' /\ Sent' /\ RaceOfWorkers'
  BY <1>1 DEF OwnContent, Up!NoFileLost, HasItem, Sent, Holds, RaceOfWorkers, Writes
<1>3. RaceOfSavers' /\ RaceOfBoth' /\ StillFree' /\ Up!SavedIsThere'
  BY <1>1 DEF RaceOfSavers, RaceOfBoth, StillFree, Writes, Stores, Up!SavedIsThere
<1> QED
  BY <1>2, <1>3

\* A saver writes its key, or the store refuses it, or nobody knows.
LEMMA KeysSaved ==
  ASSUME KeysInv, UpTypes', NEW s \in Savers, Stores(s), NEW to \in {"saved", "failed"},
         saver' = [saver EXCEPT ![s] = to],
         \/ remote' = [remote EXCEPT ![key[s]] = s] /\ refused' = refused
         \/ remote' = remote /\ refused' = refused \cup {key[s]}
         \/ remote' = remote /\ refused' = refused /\ to = "failed",
         UNCHANGED <<local, worker, item, key, raced>>
  PROVE  KeysInv'
<1> USE UpConstants DEF KeysInv
<1>1. key[s] \in Up!Keys
  BY DEF UpTypes
<1>2. /\ saver'[s] = to /\ \A t \in Savers : t # s => saver'[t] = saver[t]
      /\ refused \subseteq refused'
  BY DEF UpTypes
<1>3. \A k \in Up!Keys : remote'[k] = remote[k] \/ (k = key[s] /\ remote'[k] = s)
  BY DEF UpTypes
<1>4. OwnContent' /\ HasItem'
  BY <1>3 DEF OwnContent, HasItem, Holds
<1>5. Sent'
  <2> SUFFICES ASSUME NEW v \in Threads, worker[v] = "remove"
               PROVE  remote'[item[v]] # Null \/ item[v] \in refused'
    BY DEF Sent
  <2>1. item[v] \in Up!Keys /\ (remote[item[v]] # Null \/ item[v] \in refused)
    BY DEF HasItem, Holds, Sent
  <2> QED
    BY <1>2, <1>3, <2>1
<1>6. RaceOfWorkers' /\ RaceOfSavers' /\ RaceOfBoth'
  BY <1>2 DEF RaceOfWorkers, RaceOfSavers, RaceOfBoth, Writes, Stores
<1>7. StillFree'
  <2>1. ASSUME NEW v \in Threads, Writes(v), item[v] \notin raced PROVE remote'[item[v]] = Null
    <3>1. item[v] # key[s] /\ remote[item[v]] = Null /\ item[v] \in Up!Keys
      BY <2>1 DEF RaceOfBoth, StillFree, HasItem, Holds, Writes
    <3> QED
      BY <1>3, <3>1
  <2>2. ASSUME NEW t \in Savers, Stores(t)', key[t] \notin raced PROVE remote'[key[t]] = Null
    <3>1. t # s /\ Stores(t)
      BY <1>2, <2>2 DEF Stores
    <3>2. key[t] # key[s] /\ remote[key[t]] = Null /\ key[t] \in Up!Keys
      BY <2>2, <3>1 DEF RaceOfSavers, StillFree, UpTypes
    <3> QED
      BY <1>3, <3>1, <3>2
  <2> QED
    BY <2>1, <2>2 DEF StillFree, Writes, Stores
<1>8. Up!SavedIsThere'
  <2> SUFFICES ASSUME NEW t \in Savers, saver'[t] = "saved", key[t] \notin raced \cup refused'
               PROVE  remote'[key[t]] = t
    BY DEF Up!SavedIsThere
  <2>1. CASE t = s
    <3>1. to = "saved" /\ key[s] \notin refused'
      BY <1>2, <2>1
    <3>2. remote' = [remote EXCEPT ![key[s]] = s]
      BY <3>1
    <3> QED
      BY <1>1, <2>1, <3>2 DEF UpTypes
  <2>2. CASE t # s
    <3>1. remote[key[t]] = t /\ key[t] \in Up!Keys
      BY <1>2, <2>2 DEF Up!SavedIsThere, UpTypes
    <3>2. key[t] # key[s]
      BY <3>1 DEF StillFree
    <3> QED
      BY <1>3, <3>1, <3>2
  <2> QED
    BY <2>1, <2>2
<1>9. Up!NoFileLost'
  BY <1>2, <1>3 DEF Up!NoFileLost
<1> QED
  BY <1>4, <1>5, <1>6, <1>7, <1>8, <1>9

\* A file is deleted locally when its key is taken, or its upload was refused.
LEMMA KeysRemoved ==
  ASSUME KeysInv, UpTypes', NEW w \in Threads, Up!Remove(w)
  PROVE  KeysInv'
<1> USE UpConstants DEF KeysInv
<1>1. /\ worker[w] = "remove" /\ worker' = [worker EXCEPT ![w] = "recv"]
      /\ local' = local \ {item[w]} /\ \A v \in Threads : v # w => item'[v] = item[v]
      /\ UNCHANGED <<remote, saver, key, raced, refused>>
  BY DEF Up!Remove, Up!Worker, Up!saving, Up!history, UpTypes
<1>2. /\ worker'[w] = "recv" /\ \A v \in Threads : v # w => worker'[v] = worker[v]
  BY <1>1 DEF UpTypes
<1>3. item[w] \in Up!Keys /\ (remote[item[w]] # Null \/ item[w] \in refused)
  BY <1>1 DEF HasItem, Holds, Sent
<1>4. Up!NoFileLost'
  <2> SUFFICES ASSUME NEW k \in Files
               PROVE  k \in local' \/ remote[k] \in {k} \cup Savers \/ k \in refused
    BY <1>1 DEF Up!NoFileLost
  <2>1. CASE k = item[w]
    BY <1>3, <2>1 DEF OwnContent
  <2>2. CASE k # item[w]
    BY <1>1, <2>2 DEF Up!NoFileLost
  <2> QED
    BY <2>1, <2>2
<1>5. OwnContent' /\ HasItem' /\ Sent' /\ Up!SavedIsThere'
  BY <1>1, <1>2 DEF OwnContent, HasItem, Sent, Holds, Up!SavedIsThere
<1>6. RaceOfWorkers' /\ RaceOfSavers' /\ RaceOfBoth' /\ StillFree'
  BY <1>1, <1>2 DEF RaceOfWorkers, RaceOfSavers, RaceOfBoth, StillFree, Writes, Stores
<1> QED
  BY <1>4, <1>5, <1>6

\* No step leaves the types.
LEMMA UpTypesStep == UpTypes /\ HasItem /\ [Up!Next]_uploadVars => UpTypes'
<1> SUFFICES ASSUME UpTypes, HasItem, [Up!Next]_uploadVars PROVE UpTypes'
  OBVIOUS
<1> USE UpConstants DEF UpTypes, Threads, Up!saving, Up!history, Up!command, Up!Worker, Up!Saver,
    Up!NoteFree, Up!Running
<1>1. ASSUME NEW f \in Folders, Up!ScannerStep(f) PROVE UpTypes'
  <2>1. CASE Up!Send(f)
    BY <2>1 DEF Up!Send
  <2>2. CASE Up!ScanDone(f)
    BY <2>2 DEF Up!ScanDone
  <2>3. CASE Up!ScanFails(f)
    BY <2>3 DEF Up!ScanFails
  <2> QED
    BY <1>1, <2>1, <2>2, <2>3 DEF Up!ScannerStep
<1>2. ASSUME NEW w \in 1 .. Workers, Up!WorkerStep(w) PROVE UpTypes'
  <2>0. worker[w] \in {"check", "put", "remove"} => item[w] \in Files
    BY DEF HasItem, Holds
  <2>1. CASE Up!Receive(w)
    BY <2>1 DEF Up!Receive
  <2>2. CASE Up!NothingMore(w)
    BY <2>2 DEF Up!NothingMore
  <2>3. CASE Up!CheckKey(w)
    BY <2>0, <2>3 DEF Up!CheckKey
  <2>4. CASE Up!Put(w)
    BY <2>0, <2>4 DEF Up!Put
  <2>5. CASE Up!Remove(w)
    BY <2>5 DEF Up!Remove
  <2>6. CASE Up!WorkerFails(w)
    BY <2>0, <2>6 DEF Up!WorkerFails
  <2> QED
    BY <1>2, <2>1, <2>2, <2>3, <2>4, <2>5, <2>6 DEF Up!WorkerStep
<1>3. CASE Up!PopTask
  BY <1>3 DEF Up!PopTask
<1>4. CASE Up!JoinScanners
  BY <1>4 DEF Up!JoinScanners
<1>5. CASE Up!Kill
  BY <1>5 DEF Up!Kill
<1>6. CASE Up!Restart
  BY <1>6 DEF Up!Restart
<1>7. ASSUME NEW s \in Savers, Up!SaverStep(s) PROVE UpTypes'
  <2>1. CASE Up!FindFree(s)
    BY <2>1 DEF Up!FindFree
  <2>2. CASE Up!FindTaken(s)
    BY <2>2 DEF Up!FindTaken
  <2>3. CASE Up!SaverPut(s)
    BY <2>3 DEF Up!SaverPut
  <2>4. CASE Up!SaverFails(s)
    BY <2>4 DEF Up!SaverFails
  <2> QED
    BY <1>7, <2>1, <2>2, <2>3, <2>4 DEF Up!SaverStep
<1>8. CASE UNCHANGED uploadVars
  BY <1>8 DEF uploadVars
<1> QED
  BY <1>1, <1>2, <1>3, <1>4, <1>5, <1>6, <1>7, <1>8 DEF Up!Next, Up!PoolStep

\* Keys and files, step by step.
LEMMA KeysStep == KeysInv /\ [Up!Next]_uploadVars => KeysInv'
<1> SUFFICES ASSUME KeysInv, [Up!Next]_uploadVars PROVE KeysInv'
  OBVIOUS
<1>0. UpTypes'
  BY UpTypesStep DEF KeysInv
<1>t. /\ worker \in [Threads -> {"recv", "check", "put", "remove", "done", "failed"}]
      /\ item \in [Threads -> Files \cup {Null}] /\ channel \in SUBSET Files
  BY DEF KeysInv, UpTypes
<1> USE DEF Threads, Up!saving, Up!history, Up!command, Up!Worker, Up!Saver
<1>1. ASSUME NEW f \in Folders, Up!ScannerStep(f) PROVE KeysInv'
  BY <1>0, <1>1, KeysQuiet DEF Up!ScannerStep, Up!Send, Up!ScanDone, Up!ScanFails
<1>2. ASSUME NEW w \in 1 .. Workers, Up!WorkerStep(w) PROVE KeysInv'
  <2>1. CASE Up!Receive(w)
    <3>1. UNCHANGED <<remote, local, saver, key, raced, refused>>
      BY <2>1 DEF Up!Receive
    <3>2. worker'[w] = "check" /\ item'[w] \in Files
      BY <1>t, <2>1 DEF Up!Receive
    <3>3. \A v \in Threads : v # w => worker'[v] = worker[v] /\ item'[v] = item[v]
      BY <1>t, <2>1 DEF Up!Receive
    <3> QED
      BY <1>0, <3>1, <3>2, <3>3, KeysQuiet
  <2>2. CASE Up!NothingMore(w)
    BY <1>0, <1>t, <2>2, KeysQuiet DEF Up!NothingMore
  <2>3. CASE Up!CheckKey(w)
    <3>1. CASE Up!Worker(w, "check", "put") /\ remote[item[w]] = Null /\ Up!NoteFree(item[w])
      BY <1>0, <2>3, <3>1, KeysFound DEF Up!CheckKey
    <3>2. CASE Up!Worker(w, "check", "remove") /\ remote[item[w]] # Null /\ UNCHANGED Up!history
      <4>1. /\ worker'[w] = "remove" /\ \A v \in Threads : v # w => worker'[v] = worker[v]
            /\ worker[w] = "check"
            /\ UNCHANGED <<remote, local, item, saver, key, raced, refused>>
        BY <1>t, <2>3, <3>2 DEF Up!CheckKey
      <4>2. HasItem' /\ Sent'
        BY <3>2, <4>1 DEF KeysInv, HasItem, Holds, Sent
      <4>3. OwnContent' /\ Up!SavedIsThere' /\ Up!NoFileLost' /\ RaceOfSavers'
        BY <4>1 DEF KeysInv, OwnContent, Up!SavedIsThere, Up!NoFileLost, RaceOfSavers, Stores
      <4>4. RaceOfWorkers' /\ RaceOfBoth' /\ StillFree'
        BY <4>1 DEF KeysInv, RaceOfWorkers, RaceOfBoth, StillFree, Writes, Stores
      <4> QED
        BY <1>0, <4>2, <4>3, <4>4 DEF KeysInv
    <3> QED
      BY <2>3, <3>1, <3>2 DEF Up!CheckKey
  <2>4. CASE Up!Put(w)
    <3>1. /\ Writes(w) /\ worker' = [worker EXCEPT ![w] = "remove"] /\ item' = item
          /\ UNCHANGED <<local, saver, key, raced>>
      BY <2>4 DEF Up!Put, Writes
    <3>2. \/ remote' = [remote EXCEPT ![item[w]] = item[w]] /\ refused' = refused
          \/ remote' = remote /\ refused' = refused \cup {item[w]}
      BY <2>4 DEF Up!Put
    <3> QED
      BY <1>0, <3>1, <3>2, KeysPut
  <2>5. CASE Up!Remove(w)
    BY <1>0, <2>5, KeysRemoved
  <2>6. CASE Up!WorkerFails(w)
    <3>1. /\ worker' = [worker EXCEPT ![w] = "failed"]
          /\ \A v \in Threads : v # w => item'[v] = item[v]
          /\ UNCHANGED <<local, saver, key, raced, refused>>
      BY <1>t, <2>6 DEF Up!WorkerFails
    <3>2. worker'[w] = "failed" /\ \A v \in Threads : v # w => worker'[v] = worker[v]
      BY <1>t, <3>1
    <3>3. CASE remote' = remote
      BY <1>0, <3>1, <3>2, <3>3, KeysQuiet
    <3>4. CASE worker[w] = "put" /\ remote' = [remote EXCEPT ![item[w]] = item[w]]
      BY <1>0, <3>1, <3>4, KeysPut DEF Writes
    <3> QED
      BY <2>6, <3>3, <3>4 DEF Up!WorkerFails
  <2> QED
    BY <1>2, <2>1, <2>2, <2>3, <2>4, <2>5, <2>6 DEF Up!WorkerStep
<1>3. CASE Up!PoolStep
  BY <1>0, <1>3, KeysQuiet DEF Up!PoolStep, Up!PopTask, Up!JoinScanners
<1>4. CASE Up!Kill
  BY <1>0, <1>4, KeysQuiet DEF Up!Kill
<1>5. CASE Up!Restart
  <2>1. \A w \in Threads : worker'[w] = "recv"
    BY <1>5 DEF Up!Restart
  <2> QED
    BY <1>0, <1>5, <2>1, KeysQuiet DEF Up!Restart
<1>6. ASSUME NEW s \in Savers, Up!SaverStep(s) PROVE KeysInv'
  <2>1. CASE Up!SaverPut(s)
    <3>1. /\ Stores(s) /\ saver' = [saver EXCEPT ![s] = "saved"]
          /\ UNCHANGED <<local, worker, item, key, raced>>
      BY <2>1 DEF Up!SaverPut, Stores
    <3>2. \/ remote' = [remote EXCEPT ![key[s]] = s] /\ refused' = refused
          \/ remote' = remote /\ refused' = refused \cup {key[s]}
      BY <2>1 DEF Up!SaverPut
    <3> QED
      BY <1>0, <3>1, <3>2, KeysSaved
  <2>2. CASE Up!SaverFails(s)
    <3>1. /\ saver' = [saver EXCEPT ![s] = "failed"]
          /\ UNCHANGED <<local, worker, item, key, raced, refused>>
      BY <2>2 DEF Up!SaverFails
    <3>2. saver'[s] = "failed" /\ \A t \in Savers : t # s => saver'[t] = saver[t]
      BY <3>1 DEF KeysInv, UpTypes
    <3>3. CASE remote' = remote
      <4>1. OwnContent' /\ Up!NoFileLost' /\ HasItem' /\ Sent' /\ RaceOfWorkers'
        BY <3>1, <3>3 DEF KeysInv, OwnContent, Up!NoFileLost, HasItem, Sent, Holds,
           RaceOfWorkers, Writes
      <4>2. RaceOfSavers' /\ RaceOfBoth' /\ StillFree' /\ Up!SavedIsThere'
        BY <3>1, <3>2, <3>3 DEF KeysInv, RaceOfSavers, RaceOfBoth, StillFree, Writes, Stores,
           Up!SavedIsThere
      <4> QED
        BY <1>0, <4>1, <4>2 DEF KeysInv
    <3>4. CASE saver[s] = "put" /\ remote' = [remote EXCEPT ![key[s]] = s]
      BY <1>0, <3>1, <3>4, KeysSaved DEF Stores
    <3> QED
      BY <2>2, <3>3, <3>4 DEF Up!SaverFails
  <2> QED
    BY <1>0, <1>6, <2>1, <2>2, KeysFree, KeysTaken DEF Up!SaverStep
<1>7. CASE UNCHANGED uploadVars
  BY <1>0, <1>7, KeysQuiet DEF uploadVars
<1> QED
  BY <1>1, <1>2, <1>3, <1>4, <1>5, <1>6, <1>7 DEF Up!Next

\* What only the way of the files depends on.
LEMMA WayQuiet ==
  ASSUME WayInv, UNCHANGED <<local, unsent, scan, channel, worker, item, left>>,
         result' = result \/ (~Up!Running' /\ result' # "ok")
  PROVE  WayInv'
  BY DEF WayInv, AllHeard, AllFound, PoppedDone, OnItsWay, OneAtATime, OkIsEmpty, Up!Running,
     Up!NoSender, Holds

\* A file that is somewhere stays on its way.
LEMMA WayStep == UpTypes /\ HasItem /\ WayInv /\ [Up!Next]_uploadVars => WayInv'
<1> SUFFICES ASSUME UpTypes, HasItem, WayInv, [Up!Next]_uploadVars PROVE WayInv'
  OBVIOUS
<1> USE UpConstants DEF Threads, Up!saving, Up!history, Up!command, Up!Worker, Up!Saver,
    Up!Running, Up!NoSender
<1>t. /\ worker \in [Threads -> {"recv", "check", "put", "remove", "done", "failed"}]
      /\ item \in [Threads -> Files \cup {Null}]
      /\ channel \in SUBSET Files /\ local \in SUBSET Files /\ unsent \in SUBSET Files
      /\ left \in 0 .. Workers /\ scan \in [Folders -> {"scanning", "done", "failed"}]
  BY DEF UpTypes
<1>1. ASSUME NEW f \in Folders, Up!ScannerStep(f) PROVE WayInv'
  <2>1. CASE Up!Send(f)
    <3>1. PICK k \in unsent : channel' = {k} /\ unsent' = unsent \ {k}
      BY <2>1 DEF Up!Send
    <3>2. channel = {} /\ UNCHANGED <<local, scan, worker, item, left, result>>
        /\ scan[f] = "scanning"
      BY <2>1 DEF Up!Send
    <3>3. AllHeard' /\ AllFound' /\ PoppedDone' /\ OneAtATime' /\ OkIsEmpty'
      BY <3>1, <3>2 DEF WayInv, AllHeard, AllFound, PoppedDone, OneAtATime, OkIsEmpty
    <3>4. OnItsWay'
      BY <3>1, <3>2 DEF WayInv, OnItsWay, Holds
    <3> QED
      BY <3>3, <3>4 DEF WayInv
  <2>2. CASE Up!ScanDone(f)
    BY <1>t, <2>2 DEF Up!ScanDone, WayInv, AllHeard, AllFound, PoppedDone, OnItsWay,
       OneAtATime, OkIsEmpty, Holds
  <2>3. CASE Up!ScanFails(f)
    BY <1>t, <2>3 DEF Up!ScanFails, WayInv, AllHeard, AllFound, PoppedDone, OnItsWay,
       OneAtATime, OkIsEmpty, Holds
  <2> QED
    BY <1>1, <2>1, <2>2, <2>3 DEF Up!ScannerStep
<1>2. ASSUME NEW w \in 1 .. Workers, Up!WorkerStep(w) PROVE WayInv'
  <2>0. /\ result = "running" /\ UNCHANGED <<unsent, scan, left, result>>
        /\ worker[w] \notin {"done", "failed"}
        /\ \A v \in Threads : v # w => worker'[v] = worker[v] /\ item'[v] = item[v]
    BY <1>t, <1>2 DEF Up!WorkerStep, Up!Receive, Up!NothingMore, Up!CheckKey, Up!Put,
       Up!Remove, Up!WorkerFails
  <2>1. PoppedDone' /\ OkIsEmpty' /\ AllFound'
    BY <1>t, <2>0 DEF WayInv, PoppedDone, OneAtATime, OkIsEmpty, AllFound
  <2>2. channel' = channel \/ channel' = {}
    BY <1>2 DEF Up!WorkerStep, Up!Receive, Up!NothingMore, Up!CheckKey, Up!Put, Up!Remove,
       Up!WorkerFails
  <2>3. AllHeard' /\ OneAtATime'
    <3>1. worker'[w] = "done" => channel' = {} /\ Up!NoSender
      BY <1>t, <1>2 DEF Up!WorkerStep, Up!Receive, Up!NothingMore, Up!CheckKey, Up!Put,
         Up!Remove, Up!WorkerFails
    <3> QED
      BY <2>0, <2>2, <3>1 DEF WayInv, AllHeard, OneAtATime
  <2>4. OnItsWay'
    <3>1. CASE \E v \in Threads : worker[v] = "failed"
      BY <2>0, <3>1 DEF OnItsWay
    <3>2. CASE Up!WorkerFails(w)
      <4>1. worker'[w] = "failed"
        BY <1>t, <3>2 DEF Up!WorkerFails
      <4> QED
        BY <4>1 DEF OnItsWay
    <3>3. CASE ~Up!WorkerFails(w) /\ ~ \E v \in Threads : worker[v] = "failed"
      <4> SUFFICES ASSUME NEW k \in local'
                   PROVE  k \in unsent \cup channel' \/ \E v \in Threads : Holds(v)' /\ item'[v] = k
        BY <2>0 DEF OnItsWay, Holds
      <4>1. k \in local
        BY <1>2 DEF Up!WorkerStep, Up!Receive, Up!NothingMore, Up!CheckKey, Up!Put, Up!Remove,
           Up!WorkerFails
      <4>2. k \in unsent \cup channel \/ \E v \in Threads : Holds(v) /\ item[v] = k
        BY <2>0, <3>3, <4>1 DEF WayInv, OnItsWay
      <4>3. ASSUME NEW v \in Threads, v # w, Holds(v), item[v] = k PROVE Holds(v)' /\ item'[v] = k
        BY <2>0, <4>3 DEF Holds
      <4>4. CASE Up!Receive(w)
        <5>1. PICK c \in channel : item' = [item EXCEPT ![w] = c]
          BY <4>4 DEF Up!Receive
        <5>2. worker'[w] = "check" /\ item'[w] = c /\ channel' = {} /\ worker[w] = "recv"
          BY <1>t, <4>4, <5>1 DEF Up!Receive
        <5>3. channel = {c}
          BY <5>1 DEF WayInv, OneAtATime
        <5> QED
          BY <4>2, <4>3, <5>2, <5>3 DEF Holds
      <4>5. CASE Up!NothingMore(w) \/ Up!CheckKey(w) \/ Up!Put(w)
        <5>1. /\ channel' = channel /\ item' = item
              /\ Holds(w) => worker'[w] \in {"put", "remove"}
          BY <1>t, <4>5 DEF Up!NothingMore, Up!CheckKey, Up!Put, Holds
        <5> QED
          BY <4>2, <4>3, <5>1 DEF Holds
      <4>6. CASE Up!Remove(w)
        <5>1. channel' = channel /\ k # item[w]
          BY <4>6 DEF Up!Remove
        <5> QED
          BY <4>2, <4>3, <5>1
      <4> QED
        BY <1>2, <3>3, <4>4, <4>5, <4>6 DEF Up!WorkerStep
    <3> QED
      BY <3>1, <3>2, <3>3
  <2> QED
    BY <2>1, <2>3, <2>4 DEF WayInv
<1>3. CASE Up!PopTask
  <2>1. CASE worker[left] = "done" /\ left' = left - 1 /\ UNCHANGED result
    <3>1. UNCHANGED <<local, unsent, scan, channel, worker, item>> /\ left > 0
      BY <1>3 DEF Up!PopTask
    <3>2. PoppedDone'
      BY <1>t, <2>1, <3>1 DEF WayInv, PoppedDone
    <3> QED
      BY <2>1, <3>1, <3>2 DEF WayInv, AllHeard, AllFound, OnItsWay, OneAtATime, OkIsEmpty, Holds
  <2>2. CASE result' = "failed" /\ UNCHANGED left
    BY <1>3, <2>2, WayQuiet DEF Up!PopTask
  <2> QED
    BY <1>3, <2>1, <2>2 DEF Up!PopTask
<1>4. CASE Up!JoinScanners
  <2>1. /\ result = "running" /\ left = 0 /\ \A f \in Folders : scan[f] # "scanning"
        /\ UNCHANGED <<local, unsent, scan, channel, worker, item, left>>
        /\ result' = IF \E f \in Folders : scan[f] = "failed" THEN "failed" ELSE "ok"
    BY <1>4 DEF Up!JoinScanners
  <2>2. CASE \E f \in Folders : scan[f] = "failed"
    BY <2>1, <2>2, WayQuiet
  <2>3. CASE ~ \E f \in Folders : scan[f] = "failed"
    <3>1. \A w \in Threads : worker[w] = "done"
      BY <2>1 DEF WayInv, PoppedDone
    <3>2. channel = {}
      <4>1. 1 \in Threads
        OBVIOUS
      <4> QED
        BY <3>1, <4>1 DEF WayInv, AllHeard
    <3>3. unsent = {}
      <4> SUFFICES ASSUME NEW k \in unsent PROVE FALSE
        OBVIOUS
      <4>1. FolderOf[k] \in Folders
        BY <1>t
      <4>2. scan[FolderOf[k]] = "done"
        BY <1>t, <2>1, <2>3, <4>1
      <4> QED
        BY <4>1, <4>2 DEF WayInv, AllFound
    <3>4. local = {}
      <4>1. \A k \in local : \E w \in Threads : Holds(w) /\ item[w] = k
        BY <2>1, <3>1, <3>2, <3>3 DEF WayInv, OnItsWay
      <4>2. \A w \in Threads : ~Holds(w)
        BY <3>1 DEF Holds
      <4> QED
        BY <4>1, <4>2
    <3> QED
      BY <2>1, <2>3, <3>4 DEF WayInv, AllHeard, AllFound, PoppedDone, OnItsWay, OneAtATime,
         OkIsEmpty
  <2> QED
    BY <2>2, <2>3
<1>5. CASE Up!Kill
  BY <1>5, WayQuiet DEF Up!Kill
<1>6. CASE Up!Restart
  <2>1. /\ unsent' = local /\ local' = local /\ left' = Workers /\ result' = "running"
        /\ channel' = {} /\ \A f \in Folders : scan'[f] = "scanning"
        /\ \A w \in Threads : worker'[w] = "recv"
    BY <1>6 DEF Up!Restart
  <2> QED
    BY <2>1 DEF WayInv, AllHeard, AllFound, PoppedDone, OnItsWay, OneAtATime, OkIsEmpty
<1>7. ASSUME NEW s \in Savers, Up!SaverStep(s) PROVE WayInv'
  BY <1>7, WayQuiet DEF Up!SaverStep, Up!FindFree, Up!FindTaken, Up!SaverPut, Up!SaverFails
<1>8. CASE UNCHANGED uploadVars
  BY <1>8, WayQuiet DEF uploadVars
<1> QED
  BY <1>1, <1>2, <1>3, <1>4, <1>5, <1>6, <1>7, <1>8 DEF Up!Next, Up!PoolStep

\* No step of upload-files or of a save leaves the invariant.
LEMMA UpStep == UpInv /\ [Up!Next]_uploadVars => UpInv'
  BY KeysStep, WayStep DEF UpInv, KeysInv

\* What the invariant of upload-files says of files, objects and success.
LEMMA UpFacts == UpInv => Up!SuccessIsComplete /\ Up!NoFileLost /\ Up!SavedIsThere
  BY UpConstants DEF UpInv, KeysInv, WayInv, OkIsEmpty, Up!SuccessIsComplete, Up!NoFileLost

\* Whoever writes a key that is not in raced finds it still free.
LEMMA UpOverwrites == UpInv /\ [Up!Next]_uploadVars => Up!NothingOverwritten
<1> SUFFICES ASSUME UpInv, [Up!Next]_uploadVars, NEW k \in Up!Keys \ raced', remote[k] # Null
             PROVE  remote'[k] = remote[k]
  BY DEF Up!NothingOverwritten
<1> USE DEF Up!Worker, Up!Saver, Up!saving, Up!history, Up!command
<1>1. ASSUME NEW w \in Threads, worker[w] = "put", remote' = [remote EXCEPT ![item[w]] = item[w]],
             raced' = raced
      PROVE  remote'[k] = remote[k]
  BY <1>1 DEF UpInv, KeysInv, UpTypes, StillFree, Writes
<1>2. ASSUME NEW s \in Savers, saver[s] = "put", remote' = [remote EXCEPT ![key[s]] = s],
             raced' = raced
      PROVE  remote'[k] = remote[k]
  BY <1>2 DEF UpInv, KeysInv, UpTypes, StillFree, Stores
<1>3. ASSUME NEW w \in 1 .. Workers, Up!WorkerStep(w) PROVE remote'[k] = remote[k]
  BY <1>1, <1>3 DEF Threads, Up!WorkerStep, Up!Receive, Up!NothingMore, Up!CheckKey, Up!Put,
     Up!Remove,
     Up!WorkerFails
<1>4. ASSUME NEW s \in Savers, Up!SaverStep(s) PROVE remote'[k] = remote[k]
  BY <1>2, <1>4 DEF Up!SaverStep, Up!FindFree, Up!FindTaken, Up!SaverPut, Up!SaverFails
<1>5. ASSUME NEW f \in Folders, Up!ScannerStep(f) PROVE remote' = remote
  BY <1>5 DEF Up!ScannerStep, Up!Send, Up!ScanDone, Up!ScanFails
<1>6. CASE Up!PoolStep \/ Up!Kill \/ Up!Restart
  BY <1>6 DEF Up!PoolStep, Up!PopTask, Up!JoinScanners, Up!Kill, Up!Restart
<1>7. CASE UNCHANGED uploadVars
  BY <1>7 DEF uploadVars
<1> QED
  BY <1>3, <1>4, <1>5, <1>6, <1>7 DEF Up!Next
-----------------------------------------------------------------------------
(* import-old and cleanup *)

(***************************************************************************)
(* An old deck has the URL of the old system or the canonical one, and a   *)
(* deck with cards always the canonical one: so cleanup, which only takes  *)
(* up decks with another URL, never meets cards.  What import-old has to   *)
(* do for an old deck is in the list, in the transaction, or done.         *)
(***************************************************************************)
Current == cpc \in {"look", "delete", "fix"}
InHand == ipc \in {"select", "reset", "create", "load"}

OldTypes == /\ old \in [OldIds -> Urls]
            /\ row \in [Old!Ids -> Urls \cup Old!NoRow]
            /\ filled \in SUBSET Old!Ids
            /\ ipc \in {"idle", "insert", "list", "next", "select", "reset", "create", "load",
                        "count", "ok", "failed", "panicked"}
            /\ cpc \in {"idle", "next", "look", "delete", "fix", "ok", "failed"}
            /\ toLoad \in SUBSET Urls
            /\ target \in Old!Loaded \cup {Null}
            /\ deck \in Old!Ids \cup {Null}
            /\ toCheck \in SUBSET (Old!Ids \X Urls)
            /\ checked \in (Old!Ids \X Urls) \cup {Null}
            /\ lost \in SUBSET Old!Loaded

OneRow == \A d, e \in Old!Ids : Old!Present(d) /\ row[d] = row[e] => d = e
OldRow == \A o \in OldIds : Old!Present(o) => row[o] = old[o] \/ row[o] = Canon[old[o]]
NewRow == \A n \in NewIds : Old!Present(n) => row[n] \in Old!Loaded
FilledRow == \A d \in filled : row[d] \in Old!Loaded

Stays(d, u) == d \in OldIds /\ u = old[d] /\ row[d] \in {u, "gone"}
Listed == \A t \in toCheck : ~Old!IsFine(t[2]) => Stays(t[1], t[2])
ListedOnce == \A s, t \in toCheck : s[1] = t[1] => s = t
CheckedNow == Current => /\ checked \in Old!Ids \X Urls /\ ~Old!IsFine(checked[2])
                         /\ Stays(checked[1], checked[2])
                         /\ \A t \in toCheck : t[1] # checked[1]
Duplicate == cpc = "delete" => \/ Canon[checked[2]] \in lost
                               \/ \E e \in Old!Ids : row[e] = Canon[checked[2]]

HasTarget == InHand \/ ipc = "count" => target \in Old!Loaded
HasDeck == /\ ipc \in {"reset", "load", "count"} => deck \in Old!Ids
           /\ ipc = "reset" => row[deck] \in {target, "gone"}
           /\ ipc = "load" => /\ row[deck] = target \/ (deck \in NewIds /\ row[deck] = "unused")
                              /\ \A d \in Old!Ids : row[d] = target => d = deck
Counted == ipc = "count" => (deck \in filled /\ row[deck] = target) \/ target \in lost
Served(u) == u \in lost \/ \E d \in filled : row[d] = u
Progress == ipc \in {"next", "select", "reset", "create", "load", "count", "ok"} =>
  \A o \in OldIds : \/ old[o] \in toLoad
                    \/ Served(Canon[old[o]])
                    \/ InHand /\ target = Canon[old[o]]
Finished == ipc = "ok" => toLoad = {}

RowsInv == OldTypes /\ OneRow /\ OldRow /\ NewRow /\ FilledRow
CleanInv == Listed /\ ListedOnce /\ CheckedNow /\ Duplicate
ImportInv == HasTarget /\ HasDeck /\ Counted /\ Progress /\ Finished /\ Old!PanicsHaveReason
OldInv == RowsInv /\ CleanInv /\ ImportInv

\* What is assumed of identifiers and URLs: a canonical URL is its own.
LEMMA OldConstants ==
  /\ OldIds \cap NewIds = {} /\ Null \notin Old!Ids /\ Null \notin Urls
  /\ \A u \in Urls : u \notin Old!NoRow
  /\ Old!Ids = OldIds \cup NewIds
  /\ \A u \in Urls : Canon[u] = Null \/ (Canon[u] \in Urls /\ Canon[Canon[u]] = Canon[u])
  /\ \A u \in Urls : Canon[u] = Null \/ Canon[u] \in Old!Loaded
  /\ \A u \in Old!Loaded : u \in Urls /\ Canon[u] = u /\ Old!IsFine(u) /\ u # Null
  /\ Null \notin Old!Loaded
  BY OldDecksAssumption DEF Old!IdAssumption, Old!CanonAssumption, Old!Ids, Old!Loaded,
     Old!IsFine

\* import-old starts with nothing to do.
LEMMA OldInit == Old!Init => OldInv
<1> SUFFICES ASSUME Old!Init PROVE OldInv
  OBVIOUS
<1> USE OldConstants DEF Old!Init, Old!NoRow, Old!Present
<1>1. RowsInv
  BY DEF RowsInv, OldTypes, OneRow, OldRow, NewRow, FilledRow
<1>2. CleanInv
  BY DEF CleanInv, Listed, ListedOnce, CheckedNow, Duplicate, Current
<1>3. ImportInv
  BY DEF ImportInv, HasTarget, HasDeck, Counted, Progress, Finished, Old!PanicsHaveReason,
     InHand
<1> QED
  BY <1>1, <1>2, <1>3 DEF OldInv

\* No step leaves the types.
LEMMA OldTypesStep ==
  RowsInv /\ CleanInv /\ HasTarget /\ HasDeck /\ [Old!Next]_deckVars => OldTypes'
<1> SUFFICES ASSUME RowsInv, CleanInv, HasTarget, HasDeck, [Old!Next]_deckVars PROVE OldTypes'
  OBVIOUS
<1> USE OldConstants DEF RowsInv, OldTypes, Old!import, Old!clean, Old!counts, Old!Import,
    Old!Clean, Old!Idle, Old!NoRow, Old!Present
<1>1. CASE Old!StartImport
  BY <1>1 DEF Old!StartImport
<1>2. CASE Old!InsertOld
  BY <1>2 DEF Old!InsertOld
<1>3. CASE Old!ListOld
  BY <1>3 DEF Old!ListOld
<1>4. CASE Old!NextOld
  BY <1>4 DEF Old!NextOld
<1>5. CASE Old!NoneLeft
  BY <1>5 DEF Old!NoneLeft
<1>6. CASE Old!SelectDeck
  BY <1>6 DEF Old!SelectDeck, Old!At
<1>7. CASE Old!ResetDeck
  BY <1>7 DEF Old!ResetDeck
<1>8. CASE Old!CreateDeck
  BY <1>8 DEF Old!CreateDeck
<1>9. CASE Old!CommitDeck
  BY <1>9 DEF Old!CommitDeck, HasTarget, HasDeck, InHand
<1>10. CASE Old!Count
  BY <1>10 DEF Old!Count
<1>11. CASE Old!ImportFails
  BY <1>11 DEF Old!ImportFails
<1>12. CASE Old!StartCleanup
  BY <1>12 DEF Old!StartCleanup
<1>13. CASE Old!NextCheck
  BY <1>13 DEF Old!NextCheck
<1>14. CASE Old!AllChecked
  BY <1>14 DEF Old!AllChecked
<1>15. CASE Old!Look
  BY <1>15 DEF Old!Look
<1>16. CASE Old!DeleteDuplicate
  BY <1>16 DEF Old!DeleteDuplicate
<1>17. CASE Old!FixUrl
  <2>1. Canon[checked[2]] \in Urls
    BY <1>17 DEF Old!FixUrl, CleanInv, CheckedNow, Current, Old!IsFine, Stays
  <2> QED
    BY <1>17, <2>1 DEF Old!FixUrl
<1>18. CASE Old!CleanupFails
  BY <1>18 DEF Old!CleanupFails
<1>19. ASSUME NEW u \in Old!Loaded, Old!AddDeck(u) PROVE OldTypes'
  BY <1>19 DEF Old!AddDeck
<1>20. ASSUME NEW d \in Old!Ids, Old!DeleteDeck(d) PROVE OldTypes'
  BY <1>20 DEF Old!DeleteDeck, FilledRow
<1>21. CASE UNCHANGED deckVars
  BY <1>21 DEF deckVars
<1> QED
  BY <1>1, <1>2, <1>3, <1>4, <1>5, <1>6, <1>7, <1>8, <1>9, <1>10, <1>11, <1>12, <1>13, <1>14,
     <1>15, <1>16, <1>17, <1>18, <1>19, <1>20, <1>21
  DEF Old!Next, Old!ImportStep, Old!CleanupStep, Old!UserStep
\* An identifier that is drawn is a new one.
LEMMA DrawnIsNew ==
  ASSUME NEW d, Old!Drawn(d)
  PROVE  d \in NewIds /\ row[d] = "unused" /\ ~Old!Held(d)
  BY DEF Old!Drawn, Old!Fresh

\* Most steps leave the rows alone, and each leaves one of the commands alone.
LEMMA OldSteps ==
  ASSUME [Old!Next]_deckVars
  PROVE  /\ \/ Old!InsertOld \/ Old!CommitDeck \/ Old!DeleteDuplicate \/ Old!FixUrl
            \/ \E u \in Old!Loaded : Old!AddDeck(u)
            \/ \E d \in Old!Ids : Old!DeleteDeck(d)
            \/ UNCHANGED <<old, row, filled, lost>>
         /\ \/ Old!CleanupStep
            \/ UNCHANGED <<cpc, toCheck, checked>>
         /\ \/ Old!ImportStep
            \/ UNCHANGED <<ipc, toLoad, target, deck>>
<1> USE DEF Old!import, Old!clean
<1>1. CASE Old!ImportStep
  BY <1>1 DEF Old!ImportStep, Old!StartImport, Old!ListOld, Old!NextOld, Old!NoneLeft,
     Old!SelectDeck, Old!ResetDeck, Old!CreateDeck, Old!Count, Old!ImportFails, Old!InsertOld,
     Old!CommitDeck
<1>2. CASE Old!CleanupStep
  BY <1>2 DEF Old!CleanupStep, Old!StartCleanup, Old!NextCheck, Old!AllChecked, Old!Look,
     Old!CleanupFails, Old!DeleteDuplicate, Old!FixUrl
<1>3. CASE Old!UserStep
  BY <1>3 DEF Old!UserStep, Old!AddDeck, Old!DeleteDeck
<1>4. CASE UNCHANGED deckVars
  BY <1>4 DEF deckVars
<1> QED
  BY <1>1, <1>2, <1>3, <1>4 DEF Old!Next

\* The rows stay apart, and cards under canonical URLs.
LEMMA RowsStep == OldInv /\ [Old!Next]_deckVars => RowsInv'
<1> SUFFICES ASSUME OldInv, [Old!Next]_deckVars PROVE RowsInv'
  OBVIOUS
<1>0. OldTypes'
  BY OldTypesStep DEF OldInv, ImportInv
<1> USE OldConstants DEF OldInv, RowsInv, ImportInv, OldTypes, Old!import, Old!clean, Old!counts,
    Old!Import, Old!Clean, Old!NoRow, Old!Present, Old!At, Old!Held, Old!HeldUrl
<1>1. CASE Old!InsertOld
  <2>1. PICK add \in SUBSET OldIds :
          LET free == {o \in OldIds : ~Old!Present(o) /\ Old!At(old[o]) = {}} IN
          /\ add \subseteq free
          /\ \A o, p \in add : old[o] = old[p] => o = p
          /\ row' = [d \in Old!Ids |-> IF d \in add THEN old[d] ELSE row[d]]
    BY <1>1 DEF Old!InsertOld
  <2>2. UNCHANGED <<old, filled>>
    BY <1>1 DEF Old!InsertOld
  <2>3. OneRow'
    <3> SUFFICES ASSUME NEW d \in Old!Ids, NEW e \in Old!Ids, row'[d] \notin {"unused", "gone"},
                        row'[d] = row'[e]
                 PROVE  d = e
      BY DEF OneRow
    <3>1. CASE d \in add /\ e \in add
      BY <2>1, <3>1
    <3>2. CASE d \in add /\ e \notin add
      BY <2>1, <3>2
    <3>3. CASE d \notin add /\ e \in add
      BY <2>1, <3>3
    <3>4. CASE d \notin add /\ e \notin add
      BY <2>1, <3>4 DEF OneRow
    <3> QED
      BY <3>1, <3>2, <3>3, <3>4
  <2>4. OldRow' /\ NewRow' /\ FilledRow'
    BY <2>1, <2>2 DEF OldRow, NewRow, FilledRow
  <2> QED
    BY <1>0, <2>3, <2>4
<1>2. CASE Old!CommitDeck
  BY <1>0, <1>2 DEF Old!CommitDeck, OneRow, OldRow, NewRow, FilledRow, HasTarget, HasDeck,
     InHand
<1>3. CASE Old!DeleteDuplicate
  BY <1>0, <1>3 DEF Old!DeleteDuplicate, OneRow, OldRow, NewRow, FilledRow
<1>4. CASE Old!FixUrl
  <2>1. Stays(checked[1], checked[2]) /\ Canon[checked[2]] \in Old!Loaded
    BY <1>4 DEF Old!FixUrl, CleanInv, CheckedNow, Current, Old!IsFine, Stays
  <2> QED
    BY <1>0, <1>4, <2>1 DEF Old!FixUrl, OneRow, OldRow, NewRow, FilledRow, Stays
<1>5. ASSUME NEW u \in Old!Loaded, Old!AddDeck(u) PROVE RowsInv'
  BY <1>0, <1>5, DrawnIsNew DEF Old!AddDeck, OneRow, OldRow, NewRow, FilledRow
<1>6. ASSUME NEW d \in Old!Ids, Old!DeleteDeck(d) PROVE RowsInv'
  BY <1>0, <1>6 DEF Old!DeleteDeck, OneRow, OldRow, NewRow, FilledRow
<1>7. CASE UNCHANGED <<old, row, filled, lost>>
  BY <1>0, <1>7 DEF OneRow, OldRow, NewRow, FilledRow
<1> QED
  BY <1>1, <1>2, <1>3, <1>4, <1>5, <1>6, <1>7, OldSteps

\* What cleanup has still to look at keeps the URL it was listed with, or is gone.
LEMMA CleanStep == OldInv /\ [Old!Next]_deckVars => CleanInv'
<1> SUFFICES ASSUME OldInv, [Old!Next]_deckVars PROVE CleanInv'
  OBVIOUS
<1> USE OldConstants DEF OldInv, RowsInv, CleanInv, ImportInv, OldTypes, Old!import, Old!clean,
    Old!counts, Old!Import, Old!Clean, Old!Idle, Old!NoRow, Old!Present, Old!At, Current
<1>1. ASSUME UNCHANGED <<cpc, toCheck, checked>> PROVE CleanInv'
  <2> USE DEF Stays, Old!IsFine
  <2>1. CASE Old!InsertOld
    BY <1>1, <2>1 DEF Old!InsertOld, Listed, ListedOnce, CheckedNow, Duplicate
  <2>2. CASE Old!CommitDeck
    BY <1>1, <2>2 DEF Old!CommitDeck, Listed, ListedOnce, CheckedNow, Duplicate, HasTarget,
       HasDeck, InHand
  <2>3. CASE Old!DeleteDuplicate \/ Old!FixUrl
    BY <1>1, <2>3 DEF Old!DeleteDuplicate, Old!FixUrl
  <2>4. ASSUME NEW u \in Old!Loaded, Old!AddDeck(u) PROVE CleanInv'
    BY <1>1, <2>4, DrawnIsNew DEF Old!AddDeck, Listed, ListedOnce, CheckedNow, Duplicate
  <2>5. ASSUME NEW d \in Old!Ids, Old!DeleteDeck(d) PROVE CleanInv'
    BY <1>1, <2>5 DEF Old!DeleteDeck, Listed, ListedOnce, CheckedNow, Duplicate, FilledRow
  <2>6. CASE UNCHANGED <<old, row, filled, lost>>
    BY <1>1, <2>6 DEF Listed, ListedOnce, CheckedNow, Duplicate
  <2> QED
    BY <2>1, <2>2, <2>3, <2>4, <2>5, <2>6, OldSteps
<1>2. CASE Old!StartCleanup
  BY <1>2 DEF Old!StartCleanup, Listed, ListedOnce, CheckedNow, Duplicate, OldRow, NewRow,
     Stays,
     Old!IsFine
<1>3. CASE Old!NextCheck
  <2>1. PICK t \in toCheck : /\ toCheck' = toCheck \ {t} /\ checked' = t
                             /\ cpc' = IF Old!IsFine(t[2]) THEN "next" ELSE "look"
    BY <1>3 DEF Old!NextCheck
  <2>2. UNCHANGED <<old, row, filled, lost>>
    BY <1>3 DEF Old!NextCheck
  <2>3. Listed' /\ ListedOnce' /\ Duplicate'
    BY <2>1, <2>2 DEF Listed, ListedOnce, Duplicate, Stays, Old!IsFine
  <2>4. CheckedNow'
    <3>1. t \in Old!Ids \X Urls
      BY <2>1
    <3>2. \A s \in toCheck' : s[1] # t[1]
      BY <2>1 DEF ListedOnce
    <3>3. ~Old!IsFine(t[2]) => Stays(t[1], t[2])'
      BY <2>2 DEF Listed, Stays
    <3> QED
      BY <2>1, <3>1, <3>2, <3>3 DEF CheckedNow, Old!IsFine, Stays
  <2> QED
    BY <2>3, <2>4
<1>4. CASE Old!AllChecked \/ Old!Look \/ Old!CleanupFails
  BY <1>4 DEF Old!AllChecked, Old!Look, Old!CleanupFails, Listed, ListedOnce, CheckedNow,
     Duplicate,
     Stays, Old!IsFine
<1>5. CASE Old!DeleteDuplicate
  BY <1>5 DEF Old!DeleteDuplicate, Listed, ListedOnce, CheckedNow, Duplicate, Stays, Old!IsFine
<1>6. CASE Old!FixUrl
  BY <1>6 DEF Old!FixUrl, Listed, ListedOnce, CheckedNow, Duplicate, Stays, Old!IsFine
<1> QED
  BY <1>1, <1>2, <1>3, <1>4, <1>5, <1>6, OldSteps DEF Old!CleanupStep

\* A deck with cards is never the one that cleanup takes up.
LEMMA NoCardsToClean == OldInv /\ Current => checked[1] \notin filled
  BY OldConstants DEF OldInv, RowsInv, CleanInv, FilledRow, CheckedNow, Stays, Old!IsFine,
     Old!Loaded,
     Old!NoRow

\* What an old deck was loaded into keeps its cards, unless the user takes them.
LEMMA ServedStays ==
  OldInv /\ [Old!Next]_deckVars => \A u \in Old!Loaded : Served(u) => Served(u)'
<1> SUFFICES ASSUME OldInv, [Old!Next]_deckVars, NEW u \in Old!Loaded, Served(u) PROVE Served(u)'
  OBVIOUS
<1> USE OldConstants DEF OldInv, RowsInv, ImportInv, OldTypes, Old!Import, Old!Clean, Old!NoRow,
    Old!Present, Old!At, Served
<1>1. CASE Old!InsertOld
  BY <1>1 DEF Old!InsertOld, FilledRow
<1>2. CASE Old!CommitDeck
  BY <1>2 DEF Old!CommitDeck, HasTarget, HasDeck, InHand, FilledRow
<1>3. CASE Old!DeleteDuplicate
  BY <1>3, NoCardsToClean DEF Old!DeleteDuplicate, Current
<1>4. CASE Old!FixUrl
  BY <1>4, NoCardsToClean DEF Old!FixUrl, Current
<1>5. ASSUME NEW v \in Old!Loaded, Old!AddDeck(v) PROVE Served(u)'
  BY <1>5, DrawnIsNew DEF Old!AddDeck, FilledRow
<1>6. ASSUME NEW d \in Old!Ids, Old!DeleteDeck(d) PROVE Served(u)'
  BY <1>6 DEF Old!DeleteDeck
<1>7. CASE UNCHANGED <<old, row, filled, lost>>
  BY <1>7
<1> QED
  BY <1>1, <1>2, <1>3, <1>4, <1>5, <1>6, <1>7, OldSteps

\* The steps of cleanup and of the users, as import-old sees them.
LEMMA OthersInImport ==
  ASSUME OldInv, [Old!Next]_deckVars, UNCHANGED <<ipc, toLoad, target, deck>>
  PROVE  ImportInv'
<1> USE OldConstants DEF OldInv, RowsInv, ImportInv, OldTypes, Old!import, Old!clean, Old!counts,
    Old!Import, Old!Clean, Old!NoRow, Old!Present, Old!At, Old!Held, Old!HeldUrl, InHand
<1>1. HasTarget'
  BY DEF HasTarget
<1>2. Progress'
  <2>1. old' = old
    BY DEF Old!Next, deckVars, Old!ImportStep, Old!StartImport, Old!ListOld, Old!NextOld,
       Old!NoneLeft, Old!SelectDeck, Old!ResetDeck, Old!CreateDeck, Old!Count, Old!ImportFails,
       Old!InsertOld, Old!CommitDeck, Old!CleanupStep, Old!StartCleanup, Old!NextCheck,
       Old!AllChecked, Old!Look, Old!CleanupFails, Old!DeleteDuplicate, Old!FixUrl, Old!UserStep,
       Old!AddDeck, Old!DeleteDeck
  <2>2. \A o \in OldIds : Served(Canon[old[o]]) => Served(Canon[old[o]])'
    <3>1. \A o \in OldIds : Served(Canon[old[o]]) => Canon[old[o]] \in Old!Loaded
      BY DEF Served, FilledRow
    <3> QED
      BY <2>1, <3>1, ServedStays
  <2> QED
    BY <2>1, <2>2 DEF Progress
<1>3. HasDeck' /\ Counted' /\ Finished' /\ Old!PanicsHaveReason'
  <2> USE DEF HasDeck, Counted, Finished, Old!PanicsHaveReason
  <2>1. CASE Old!InsertOld \/ Old!CommitDeck
    BY <2>1 DEF Old!InsertOld, Old!CommitDeck
  <2>2. CASE Old!DeleteDuplicate
    BY <2>2, NoCardsToClean DEF Old!DeleteDuplicate, Current, CleanInv, CheckedNow, Stays,
       HasTarget,
       Old!IsFine
  <2>3. CASE Old!FixUrl
    BY <2>3, NoCardsToClean DEF Old!FixUrl, Current, CleanInv, CheckedNow, Stays, HasTarget,
       Old!IsFine
  <2>4. ASSUME NEW u \in Old!Loaded, Old!AddDeck(u)
        PROVE  HasDeck' /\ Counted' /\ Finished' /\ Old!PanicsHaveReason'
    BY <2>4, DrawnIsNew DEF Old!AddDeck, HasTarget, OneRow
  <2>5. ASSUME NEW d \in Old!Ids, Old!DeleteDeck(d)
        PROVE  HasDeck' /\ Counted' /\ Finished' /\ Old!PanicsHaveReason'
    BY <2>5 DEF Old!DeleteDeck, HasTarget
  <2>6. CASE UNCHANGED <<old, row, filled, lost>>
    BY <2>6
  <2> QED
    BY <2>1, <2>2, <2>3, <2>4, <2>5, <2>6, OldSteps
<1> QED
  BY <1>1, <1>2, <1>3

\* import-old's own steps: an old deck leaves the list for the transaction, and the
\* transaction for the decks with cards.
LEMMA ImportStepInv == OldInv /\ [Old!Next]_deckVars => ImportInv'
<1> SUFFICES ASSUME OldInv, Old!ImportStep PROVE ImportInv'
  BY OldSteps, OthersInImport
<1> USE OldConstants DEF OldInv, RowsInv, ImportInv, OldTypes, Old!import, Old!clean, Old!counts,
    Old!Import, Old!Idle, Old!NoRow, Old!Present, Old!At, InHand, HasTarget, HasDeck, Counted,
    Finished, Old!PanicsHaveReason
<1>1. CASE Old!StartImport
  BY <1>1 DEF Old!StartImport, Progress
<1>2. CASE Old!InsertOld
  BY <1>2 DEF Old!InsertOld, Progress
<1>3. CASE Old!ListOld
  <2>1. \A o \in OldIds : o \in filled => row[o] = Canon[old[o]]
    BY DEF OldRow, FilledRow
  <2> QED
    BY <1>3, <2>1 DEF Old!ListOld, Progress, Served
<1>4. CASE Old!NextOld
  BY <1>4 DEF Old!NextOld, Progress, Served
<1>5. CASE Old!NoneLeft
  BY <1>5 DEF Old!NoneLeft, Progress, Served
<1>6. CASE Old!SelectDeck
  BY <1>6 DEF Old!SelectDeck, Progress, Served
<1>7. CASE Old!ResetDeck
  BY <1>7 DEF Old!ResetDeck, Progress, Served, OneRow
<1>8. CASE Old!CreateDeck
  <2>1. /\ ipc = "create" /\ UNCHANGED <<old, row, filled, toLoad, target, lost>>
        /\ \/ ipc' = "load" /\ deck' \in NewIds /\ row[deck'] = "unused" /\ Old!At(target) = {}
           \/ ipc' = "failed"
    BY <1>8, DrawnIsNew DEF Old!CreateDeck
  <2>2. HasTarget' /\ HasDeck' /\ Counted' /\ Finished' /\ Old!PanicsHaveReason'
    BY <2>1
  <2>3. Progress'
    BY <2>1 DEF Progress, Served
  <2> QED
    BY <2>2, <2>3
<1>9. CASE Old!CommitDeck
  <2>1. HasTarget' /\ HasDeck' /\ Counted' /\ Finished' /\ Old!PanicsHaveReason'
    BY <1>9 DEF Old!CommitDeck
  <2>2. Progress'
    <3>1. \A u \in Old!Loaded : Served(u) \/ u = target => Served(u)'
      BY <1>9 DEF Old!CommitDeck, Served, FilledRow
    <3>2. \A o \in OldIds : Served(Canon[old[o]]) => Canon[old[o]] \in Old!Loaded
      BY DEF Served, FilledRow
    <3> QED
      BY <1>9, <3>1, <3>2 DEF Old!CommitDeck, Progress
  <2> QED
    BY <2>1, <2>2
<1>10. CASE Old!Count
  BY <1>10 DEF Old!Count, Progress, Served
<1>11. CASE Old!ImportFails
  BY <1>11 DEF Old!ImportFails, Progress
<1> QED
  BY <1>1, <1>2, <1>3, <1>4, <1>5, <1>6, <1>7, <1>8, <1>9, <1>10, <1>11 DEF Old!ImportStep

\* No step of import-old, of cleanup or of a user leaves the invariant.
LEMMA OldStep == OldInv /\ [Old!Next]_deckVars => OldInv'
  BY RowsStep, CleanStep, ImportStepInv DEF OldInv

\* What the invariant says of the success and the panic of import-old.
LEMMA OldFacts == OldInv => Old!ImportIsComplete /\ Old!PanicsHaveReason
  BY OldConstants DEF OldInv, ImportInv, Progress, Finished, InHand, Served,
     Old!ImportIsComplete

\* Neither command takes cards, nor the last deck of a site.
LEMMA OldKeeps == OldInv /\ [Old!Next]_deckVars => Old!CardsKept /\ Old!DecksKept
<1> SUFFICES ASSUME OldInv, [Old!Next]_deckVars PROVE Old!CardsKept /\ Old!DecksKept
  OBVIOUS
<1> USE OldConstants DEF OldInv, RowsInv, OldTypes, Old!import, Old!clean, Old!counts,
    Old!Import, Old!Clean, Old!NoRow, Old!Present, Old!At
<1>1. CASE Old!InsertOld
  BY <1>1 DEF Old!InsertOld, Old!CardsKept, Old!DecksKept
<1>2. CASE Old!CommitDeck
  BY <1>2 DEF Old!CommitDeck, Old!CardsKept, Old!DecksKept, ImportInv, HasTarget, HasDeck,
     InHand
<1>3. CASE Old!DeleteDuplicate
  <2>1. Old!CardsKept
    BY <1>3, NoCardsToClean DEF Old!DeleteDuplicate, Current, Old!CardsKept
  <2>2. Old!DecksKept
    BY <1>3 DEF Old!DeleteDuplicate, Current, Old!DecksKept, CleanInv, CheckedNow, Duplicate,
       Stays,
       Old!IsFine
  <2> QED
    BY <2>1, <2>2
<1>4. CASE Old!FixUrl
  BY <1>4 DEF Old!FixUrl, Old!CardsKept, Old!DecksKept, CleanInv, CheckedNow, Current, Stays,
     Old!IsFine
<1>5. ASSUME NEW u \in Old!Loaded, Old!AddDeck(u) PROVE Old!CardsKept /\ Old!DecksKept
  <2>1. adds' # adds
    BY <1>5 DEF Old!AddDeck
  <2> QED
    BY <1>5, <2>1, DrawnIsNew DEF Old!AddDeck, Old!CardsKept, Old!DecksKept
<1>6. ASSUME NEW d \in Old!Ids, Old!DeleteDeck(d) PROVE Old!CardsKept /\ Old!DecksKept
  <2>1. deletes' # deletes
    BY <1>6 DEF Old!DeleteDeck
  <2> QED
    BY <1>6, <2>1 DEF Old!DeleteDeck, Old!CardsKept, Old!DecksKept
<1>7. CASE UNCHANGED <<old, row, filled, lost>>
  BY <1>7 DEF Old!CardsKept, Old!DecksKept
<1> QED
  BY <1>1, <1>2, <1>3, <1>4, <1>5, <1>6, <1>7, OldSteps
-----------------------------------------------------------------------------
(* load-scryfall-bulk *)

(***************************************************************************)
(* A file is whole, or it is being copied, or a run was cut off; what the  *)
(* iterator has returned is whole and saved in the file's version.         *)
(***************************************************************************)
GotWhole == got => length = Bulk!Whole /\ phase \notin {"request", "copy"}
HasFile == phase \in {"copy", "read", "parse", "panicked"} => version # 0
TornByFault == version # 0 /\ length < Bulk!Whole /\ phase # "copy" => faults > 0
PanicOnEmpty == phase = "panicked" => length = 0
NoneSeen == phase \in {"request", "copy", "read"} => seen = 0
SeenSaved == phase = "parse" => /\ 4 * seen <= length
                                /\ \A c \in 1 .. seen : saved[c] = version

BulkInv == /\ Bulk!TypeOK /\ GotWhole /\ HasFile /\ TornByFault /\ PanicOnEmpty /\ NoneSeen
           /\ SeenSaved /\ Bulk!SuccessIsComplete

\* load-scryfall-bulk starts without a file and with no card seen.
LEMMA BulkInit == Bulk!Init => BulkInv
<1> SUFFICES ASSUME Bulk!Init PROVE BulkInv
  OBVIOUS
<1> USE BulkAssumption DEF Bulk!NAssumption, Bulk!VersionAssumption, Bulk!FaultsAssumption,
    Bulk!Init
<1>1. Bulk!TypeOK
  <2>1. saved \in [1 .. Cards -> 0 .. version]
    OBVIOUS
  <2>2. fresh \in BOOLEAN /\ got \in BOOLEAN
    OBVIOUS
  <2>3. /\ published \in 1 .. MaxVersion /\ length \in 0 .. Bulk!Whole
        /\ version \in 0 .. published /\ seen \in 0 .. Cards /\ faults \in 0 .. MaxFaults
    BY DEF Bulk!Whole
  <2>4. phase \in {"request", "copy", "read", "parse"} \cup Bulk!Ended
    BY DEF Bulk!Ended
  <2> QED
    BY <2>1, <2>2, <2>3, <2>4 DEF Bulk!TypeOK
<1>2. got = FALSE /\ phase = "none" /\ version = 0
  OBVIOUS
<1> QED
  BY <1>1, <1>2 DEF BulkInv, GotWhole, HasFile, TornByFault, PanicOnEmpty, NoneSeen, SeenSaved,
     Bulk!SuccessIsComplete

\* The cards are the same in the steps that do not save one.
LEMMA BulkStep == BulkInv /\ [Bulk!Next]_cardVars => BulkInv'
<1> SUFFICES ASSUME BulkInv, [Bulk!Next]_cardVars PROVE BulkInv'
  OBVIOUS
<1> USE BulkAssumption DEF Bulk!NAssumption, Bulk!VersionAssumption, Bulk!FaultsAssumption,
    Bulk!file, Bulk!Ended, Bulk!Go, Bulk!Whole
<1>1. ASSUME NEW force \in BOOLEAN, Bulk!Start(force) PROVE BulkInv'
  <2>1. /\ phase' \in {"request", "read"} /\ (phase' = "read" => version # 0)
        /\ got' = FALSE /\ seen' = 0
        /\ UNCHANGED <<published, length, version, fresh, saved, faults>>
        /\ phase \in {"none", "ok", "failed", "panicked"}
    BY <1>1 DEF Bulk!Start, Bulk!NeedsDownload
  <2>2. Bulk!TypeOK'
    <3>1. got' \in BOOLEAN /\ fresh' \in BOOLEAN
      BY <2>1 DEF BulkInv, Bulk!TypeOK
    <3> QED
      BY <2>1, <3>1 DEF BulkInv, Bulk!TypeOK
  <2> QED
    BY <2>1, <2>2 DEF BulkInv, Bulk!TypeOK, GotWhole, HasFile, TornByFault,
       PanicOnEmpty, NoneSeen, SeenSaved, Bulk!SuccessIsComplete
<1>2. CASE Bulk!CreateFile
  BY <1>2 DEF Bulk!CreateFile, BulkInv, Bulk!TypeOK, GotWhole, HasFile, TornByFault,
     PanicOnEmpty, NoneSeen, SeenSaved, Bulk!SuccessIsComplete
<1>3. CASE Bulk!Copy
  <2>1. /\ phase = "copy" /\ fresh' = TRUE
        /\ UNCHANGED <<published, version, saved, seen, faults>>
    BY <1>3 DEF Bulk!Copy
  <2>2. PICK n \in length + 1 .. 4 * Cards + 2 : length' = n
    BY <1>3 DEF Bulk!Copy
  <2>3. \/ length' = 4 * Cards + 2 /\ phase' = "read" /\ got' = TRUE
        \/ length' # 4 * Cards + 2 /\ phase' = "copy" /\ got' = FALSE
    BY <1>3 DEF Bulk!Copy
  <2>4. length' \in 0 .. 4 * Cards + 2
    BY <2>2 DEF BulkInv, Bulk!TypeOK
  <2>5. Bulk!TypeOK'
    BY <2>1, <2>3, <2>4 DEF BulkInv, Bulk!TypeOK
  <2>6. GotWhole' /\ HasFile' /\ TornByFault' /\ PanicOnEmpty' /\ NoneSeen' /\ SeenSaved'
      /\ Bulk!SuccessIsComplete'
    BY <2>1, <2>3, <2>4 DEF BulkInv, GotWhole, HasFile, TornByFault,
       PanicOnEmpty, NoneSeen, SeenSaved, Bulk!SuccessIsComplete
  <2> QED
    BY <2>5, <2>6 DEF BulkInv
<1>4. CASE Bulk!Read
  BY <1>4 DEF Bulk!Read, BulkInv, Bulk!TypeOK, GotWhole, HasFile, TornByFault,
     PanicOnEmpty, NoneSeen, SeenSaved, Bulk!SuccessIsComplete
<1>5. CASE Bulk!SaveCard
  <2>1. 4 * seen + 4 <= length /\ length \in 0 .. 4 * Cards + 2
      /\ seen \in 0 .. Cards /\ seen + 1 \in 1 .. Cards
    BY <1>5 DEF Bulk!SaveCard, Bulk!CardIsWhole, BulkInv, Bulk!TypeOK
  <2>2. saved' \in [1 .. Cards -> 0 .. version] /\ \A c \in 1 .. seen + 1 : saved'[c] = version
    BY <1>5, <2>1 DEF Bulk!SaveCard, BulkInv, Bulk!TypeOK, SeenSaved
  <2> QED
    BY <1>5, <2>1, <2>2 DEF Bulk!SaveCard, BulkInv, Bulk!TypeOK, GotWhole, HasFile, TornByFault,
       PanicOnEmpty, NoneSeen, SeenSaved, Bulk!SuccessIsComplete
<1>6. CASE Bulk!BadCard
  BY <1>6 DEF Bulk!BadCard, BulkInv, Bulk!TypeOK, GotWhole, HasFile, TornByFault,
     PanicOnEmpty, NoneSeen, SeenSaved, Bulk!SuccessIsComplete
<1>7. CASE Bulk!NoMoreCards
  <2>1. length = 4 * Cards + 2 => seen = Cards
    BY <1>7 DEF Bulk!NoMoreCards, Bulk!AtEnd, BulkInv, Bulk!TypeOK
  <2>2. got => length = 4 * Cards + 2
    BY DEF BulkInv, GotWhole
  <2>3. Bulk!SuccessIsComplete'
    BY <1>7, <2>1, <2>2 DEF Bulk!NoMoreCards, BulkInv, SeenSaved, Bulk!SuccessIsComplete
  <2> QED
    BY <1>7, <2>3 DEF Bulk!NoMoreCards, BulkInv, Bulk!TypeOK, GotWhole, HasFile, TornByFault,
       PanicOnEmpty, NoneSeen, SeenSaved
<1>8. CASE Bulk!Fault
  BY <1>8 DEF Bulk!Fault, BulkInv, Bulk!TypeOK, GotWhole, HasFile, TornByFault,
     PanicOnEmpty, NoneSeen, SeenSaved, Bulk!SuccessIsComplete
<1>9. CASE Bulk!Age
  BY <1>9 DEF Bulk!Age, BulkInv, Bulk!TypeOK, GotWhole, HasFile, TornByFault,
     PanicOnEmpty, NoneSeen, SeenSaved, Bulk!SuccessIsComplete
<1>10. CASE Bulk!Publish
  BY <1>10 DEF Bulk!Publish, BulkInv, Bulk!TypeOK, GotWhole, HasFile, TornByFault,
     PanicOnEmpty, NoneSeen, SeenSaved, Bulk!SuccessIsComplete
<1>11. CASE UNCHANGED cardVars
  BY <1>11 DEF cardVars, BulkInv, Bulk!TypeOK, GotWhole, HasFile, TornByFault,
     PanicOnEmpty, NoneSeen, SeenSaved, Bulk!SuccessIsComplete
<1> QED
  BY <1>1, <1>2, <1>3, <1>4, <1>5, <1>6, <1>7, <1>8, <1>9, <1>10, <1>11 DEF Bulk!Next, Bulk!Step

\* What the invariant of load-scryfall-bulk says of its success and its failure.
LEMMA BulkFacts == BulkInv => Bulk!SuccessIsComplete /\ Bulk!FailsOnTornFileOnly
<1> SUFFICES ASSUME BulkInv PROVE Bulk!FailsOnTornFileOnly
  BY DEF BulkInv
<1> USE BulkAssumption DEF Bulk!NAssumption, Bulk!VersionAssumption, Bulk!FaultsAssumption,
    Bulk!Whole, BulkInv, Bulk!TypeOK
<1>1. CASE phase = "panicked"
  BY <1>1 DEF GotWhole, HasFile, TornByFault, PanicOnEmpty, Bulk!FailsOnTornFileOnly
<1>2. CASE phase = "parse" /\ ~Bulk!AtEnd /\ ~Bulk!CardIsWhole
  <2>1. length = 4 * seen + 3 /\ length \in Nat /\ seen \in Nat
    BY <1>2 DEF Bulk!AtEnd, Bulk!CardIsWhole
  <2>2. length # 4 * Cards + 2
    BY <2>1
  <2> QED
    BY <1>2, <2>2 DEF GotWhole, HasFile, TornByFault, Bulk!FailsOnTornFileOnly
<1> QED
  BY <1>1, <1>2 DEF Bulk!FailsOnTornFileOnly
-----------------------------------------------------------------------------
(* the command line *)

(***************************************************************************)
(* A process is stale when it has failed, or is bound to: it is about to   *)
(* create a table that is there by now, or at statements that another has  *)
(* committed.  Whoever makes another one stale is not.                     *)
(***************************************************************************)
Stale(p) == \/ pc[p] = "failed"
            \/ pc[p] = "create" /\ table
            \/ pc[p] \in {"run", "label"} /\ at[p] \in labels
SomeoneFresh == \E p \in Procs : ~Stale(p)

\* At the start no process is stale.
LEMMA FreshInit == Init => SomeoneFresh
  BY ProcsAssumption DEF Init, SomeoneFresh, Stale

\* The step of a process leaves the others fresh, or it is a commit or the creation of
\* the table.
LEMMA FreshStep == MigrateInv /\ SomeoneFresh /\ [Next]_vars => SomeoneFresh'
<1> SUFFICES ASSUME MigrateInv, [Next]_vars, NEW f \in Procs, ~Stale(f) PROVE SomeoneFresh'
  BY DEF SomeoneFresh
<1> USE NAssumption DEF MigrateInv, TypeOK, SomeoneFresh, Stale, Go, Onward
<1>1. ASSUME NEW p \in Procs, CheckTable(p) PROVE SomeoneFresh'
  <2>1. ~Stale(f)'
    BY <1>1 DEF CheckTable
  <2> QED
    BY <2>1
<1>2. ASSUME NEW p \in Procs, CreateTable(p) PROVE SomeoneFresh'
  <2>1. CASE table
    BY <1>2, <2>1 DEF CreateTable
  <2>2. CASE ~table
    <3>1. ~Stale(p)'
      BY <1>2, <2>2 DEF CreateTable
    <3> QED
      BY <3>1
  <2> QED
    BY <2>1, <2>2
<1>3. ASSUME NEW p \in Procs, Select(p) PROVE SomeoneFresh'
  <2>1. ~Stale(f)'
    BY <1>3 DEF Select
  <2> QED
    BY <2>1
<1>4. ASSUME NEW p \in Procs, Run(p) PROVE SomeoneFresh'
  <2>1. CASE pc' = pc
    BY <1>4, <2>1 DEF Run
  <2>2. CASE pc' = [pc EXCEPT ![p] = "failed"] /\ schema[NextStatement(p)] > 0
    <3>1. NextStatement(p) \in StatementIds /\ NextStatement(p)[1] = at[p]
      BY <1>4, StatementsAssumption DEF Run, NextStatement, StatementIds
    <3>2. at[p] \in labels
      BY <2>2, <3>1 DEF LabelMeansApplied
    <3>3. f # p
      BY <1>4, <3>2 DEF Run
    <3> QED
      BY <1>4, <2>2, <3>3 DEF Run
  <2> QED
    BY <1>4, <2>1, <2>2 DEF Run
<1>5. ASSUME NEW p \in Procs, LastStatement(p) PROVE SomeoneFresh'
  <2>1. ~Stale(f)'
    BY <1>5 DEF LastStatement
  <2> QED
    BY <2>1
<1>6. ASSUME NEW p \in Procs, InsertLabel(p) PROVE SomeoneFresh'
  <2>1. ~Stale(f)'
    BY <1>6 DEF InsertLabel
  <2> QED
    BY <2>1
<1>7. ASSUME NEW p \in Procs, Commit(p) PROVE SomeoneFresh'
  <2>1. ~Stale(p)'
    BY <1>7 DEF Commit
  <2> QED
    BY <2>1
<1>8. ASSUME NEW p \in Procs, Kill(p) \/ Restart(p) PROVE SomeoneFresh'
  <2>1. ~Stale(f)'
    BY <1>8 DEF Kill, Restart
  <2> QED
    BY <2>1
<1>9. CASE UNCHANGED vars
  <2>1. ~Stale(f)'
    BY <1>9 DEF vars
  <2> QED
    BY <2>1
<1> QED
  BY <1>1, <1>2, <1>3, <1>4, <1>5, <1>6, <1>7, <1>8, <1>9 DEF Next, Step

\* What the parts keep, together.
LineInv == MigrateInv /\ SomeoneFresh /\ UpInv /\ OldInv /\ BulkInv

\* The invariants of the commands hold at the start of each.
LEMMA LineInitInv == LineInit => LineInv
  BY MigrateInit, FreshInit, UpInit, OldInit, BulkInit DEF LineInit, LineInv

\* A step of the command line is a step of every command, or leaves it alone.
LEMMA LineSteps ==
  ASSUME [LineNext]_allVars
  PROVE  [Next]_vars /\ [Up!Next]_uploadVars /\ [Old!Next]_deckVars /\ [Bulk!Next]_cardVars
<1>1. CASE Migrate
  BY <1>1 DEF Migrate, ButMigrate
<1>2. CASE UploadFiles
  BY <1>2 DEF UploadFiles, ButUpload
<1>3. CASE ImportAndCleanup
  BY <1>3 DEF ImportAndCleanup, ButImport
<1>4. CASE LoadScryfallBulk
  BY <1>4 DEF LoadScryfallBulk, ButBulk
<1>5. CASE UNCHANGED allVars
  BY <1>5 DEF allVars
<1> QED
  BY <1>1, <1>2, <1>3, <1>4, <1>5 DEF LineNext

\* No step of the command line leaves the invariants of the commands.
LEMMA LineStepInv == LineInv /\ [LineNext]_allVars => LineInv'
<1> SUFFICES ASSUME LineInv, [LineNext]_allVars PROVE LineInv'
  OBVIOUS
<1>1. [Next]_vars /\ [Up!Next]_uploadVars /\ [Old!Next]_deckVars /\ [Bulk!Next]_cardVars
  BY LineSteps
<1> QED
  BY <1>1, MigrateStep, FreshStep, UpStep, OldStep, BulkStep DEF LineInv

\* The invariants of all commands hold in every reachable state.
LEMMA LineInvariance == LineSpec => []LineInv
<1> QED
  BY LineInitInv, LineStepInv, PTL DEF LineSpec

\* A command that reports success has done the whole of its work, for every number of
\* files, decks, cards, workers and starts.
THEOREM CommandsComplete == LineSpec => []SuccessMeansDone
<1>1. LineInv => SuccessMeansDone
  BY UpFacts, OldFacts, BulkFacts DEF LineInv, MigrateInv, SuccessMeansDone
<1> QED
  BY <1>1, LineInvariance, PTL

\* No command fails because of how it works: of the processes that migrate one is never
\* bound to fail, import-old only panics when a user was quicker, and the bulk data only
\* fails to load from a file that was cut off.
THEOREM FailuresExplained == LineSpec => []FailuresHaveReason
<1>1. MigrateInv /\ SomeoneFresh => SomeoneSucceeds
  BY DEF SomeoneFresh, Stale, SomeoneSucceeds
<1>2. LineInv => FailuresHaveReason
  BY <1>1, OldFacts, BulkFacts DEF LineInv, FailuresHaveReason
<1> QED
  BY <1>2, LineInvariance, PTL

\* No command loses a file, an object, a card or a deck, nor overwrites one, at any step,
\* wherever it is killed.
THEOREM CommandsLoseNothing == LineSpec => NothingLost
<1>1. LineInv => Up!NoFileLost /\ Up!SavedIsThere
  BY UpFacts DEF LineInv
<1>2. LineInv /\ [LineNext]_allVars
        => [Up!NothingOverwritten /\ Old!CardsKept /\ Old!DecksKept]_allVars
  <2> SUFFICES ASSUME LineInv, [LineNext]_allVars
               PROVE  Up!NothingOverwritten /\ Old!CardsKept /\ Old!DecksKept
    OBVIOUS
  <2>1. [Up!Next]_uploadVars /\ [Old!Next]_deckVars
    BY LineSteps
  <2> QED
    BY <2>1, UpOverwrites, OldKeeps DEF LineInv
<1> QED
  BY <1>1, <1>2, LineInvariance, PTL DEF LineSpec, NothingLost

\* Whatever command is run, readers of the database see one version of the schema after
\* the other.
THEOREM CommandsShowHistory == LineSpec => OneVersionAtATime
<1>1. LineInit => History!Init
  BY HistoryInit DEF LineInit
<1>2. LineInv /\ [LineNext]_allVars => [History!Next]_<<labels, schema>>
  BY LineSteps, HistoryStep DEF LineInv
<1> QED
  BY <1>1, <1>2, LineInvariance, PTL DEF LineSpec, OneVersionAtATime, History!Spec

\* Whatever command is run, a migration is only committed on the schema of exactly the
\* earlier ones.
THEOREM CommandsBuildInOrder == LineSpec => []BuildsOnTheEarlier
<1>1. LineInv => BuildsOnTheEarlier
  BY CommitFacts DEF LineInv, BuildsOnTheEarlier
<1> QED
  BY <1>1, LineInvariance, PTL
=============================================================================
