------------------------------ MODULE Migrations ------------------------------
(***************************************************************************)
(* The command migrate (ttsmagic-server/src/migrations.rs): every process  *)
(* that runs it creates the table of applied migrations if there is none,  *)
(* and then takes the list of migrations in order, each in a transaction   *)
(* of its own: it looks for the migration's label, runs its statements if  *)
(* there is none, inserts the label and commits.  Several processes may    *)
(* run it at once, and any of them may be killed or lose its connection    *)
(* and be started again.                                                   *)
(*                                                                         *)
(* Of PostgreSQL the model has: a statement that creates or alters what    *)
(* another open transaction has created or altered waits for the end of    *)
(* that transaction; most statements fail when they have taken effect      *)
(* already; labels are unique, and inserting one that an open transaction  *)
(* has inserted waits too; a transaction that is not committed leaves      *)
(* nothing behind.                                                         *)
(***************************************************************************)
EXTENDS Naturals, FiniteSets

CONSTANTS
  Procs,        \* the processes that run the command
  N, Statements,
  Repeatable,   \* the statements that can take effect twice, as an UPDATE does
  MaxStarts     \* bound: how often a process is started

StatementIds == UNION {{m} \X (1 .. Statements[m]) : m \in 1 .. N}

ASSUME ProcsAssumption == Procs # {}
ASSUME NAssumption == N \in Nat \ {0}
ASSUME StatementsAssumption == Statements \in [1 .. N -> Nat \ {0}]
ASSUME RepeatableAssumption == Repeatable \subseteq StatementIds
ASSUME StartsAssumption == MaxStarts \in Nat \ {0}

VARIABLES
  table,        \* whether the table migrations exists
  labels,       \* its rows
  schema,       \* how often each statement has taken effect
  pc,           \* where each process stands
  at,           \* the migration it is at
  done,         \* how many of its statements the open transaction has run
  starts

vars == <<table, labels, schema, pc, at, done, starts>>

Open == {"select", "run", "label", "commit"}
Ended == {"done", "failed", "killed"}

TypeOK ==
  /\ table \in BOOLEAN
  /\ labels \in SUBSET (1 .. N)
  /\ schema \in [StatementIds -> Nat]
  /\ pc \in [Procs -> {"check", "create"} \cup Open \cup Ended]
  /\ at \in [Procs -> 1 .. N]
  /\ done \in [Procs -> Nat]
  /\ \A p \in Procs : done[p] <= Statements[at[p]]
  /\ starts \in [Procs -> 1 .. MaxStarts]

\* The schema of version v.
SchemaOf(v) == [i \in StatementIds |-> IF i[1] <= v THEN 1 ELSE 0]

\* An empty database, or one that an earlier release has migrated.
Init ==
  /\ \E v \in 0 .. N : /\ labels = 1 .. v
                       /\ schema = SchemaOf(v)
                       /\ table \in {v > 0, TRUE}
  /\ pc = [p \in Procs |-> "check"]
  /\ at = [p \in Procs |-> 1]
  /\ done = [p \in Procs |-> 0]
  /\ starts = [p \in Procs |-> 1]

Go(p, from, to) == /\ pc[p] = from
                   /\ pc' = [pc EXCEPT ![p] = to]
-----------------------------------------------------------------------------
(* CREATE TABLE IF NOT EXISTS: PostgreSQL looks first and creates then, and  *)
(* fails when the table has come to be in between.                           *)

CheckTable(p) ==
  /\ Go(p, "check", IF table THEN "select" ELSE "create")
  /\ UNCHANGED <<table, labels, schema, at, done, starts>>

CreateTable(p) ==
  /\ Go(p, "create", IF table THEN "failed" ELSE "select")
  /\ table' = TRUE
  /\ UNCHANGED <<labels, schema, at, done, starts>>
-----------------------------------------------------------------------------
(* apply_migration, in the transaction of apply_all *)

\* On to the next migration of the list, or to the end.
Onward(p) ==
  /\ pc' = [pc EXCEPT ![p] = IF at[p] = N THEN "done" ELSE "select"]
  /\ at' = [at EXCEPT ![p] = IF at[p] = N THEN N ELSE at[p] + 1]
  /\ done' = [done EXCEPT ![p] = 0]

\* The label is there: roll back and go on.
Select(p) ==
  /\ \/ pc[p] = "select" /\ at[p] \in labels /\ Onward(p)
     \/ at[p] \notin labels /\ Go(p, "select", "run") /\ UNCHANGED <<at, done>>
  /\ UNCHANGED <<table, labels, schema, starts>>

\* Whether the open transaction of q has run the statement i.
Pending(q, i) == /\ pc[q] \in {"run", "label", "commit"}
                 /\ at[q] = i[1] /\ i[2] <= done[q]

NextStatement(p) == <<at[p], done[p] + 1>>

\* Mutant: there is no transaction, and every statement is committed at once.
RunAtOnce(p) ==
  LET i == NextStatement(p) IN
  /\ pc[p] = "run" /\ done[p] < Statements[at[p]]
  /\ \/ /\ schema[i] = 0 \/ i \in Repeatable
        /\ schema' = [schema EXCEPT ![i] = @ + 1]
        /\ done' = [done EXCEPT ![p] = @ + 1]
        /\ UNCHANGED pc
     \/ /\ schema[i] > 0 /\ i \notin Repeatable
        /\ pc' = [pc EXCEPT ![p] = "failed"]
        /\ UNCHANGED <<schema, done>>
  /\ UNCHANGED <<table, labels, at, starts>>

\* The next statement, once no other transaction is in its way.
Run(p) ==
  LET i == NextStatement(p) IN
  /\ pc[p] = "run" /\ done[p] < Statements[at[p]]
  /\ \A q \in Procs \ {p} : ~Pending(q, i)
  /\ \/ /\ schema[i] = 0 \/ i \in Repeatable
        /\ done' = [done EXCEPT ![p] = @ + 1]
        /\ UNCHANGED pc
     \/ /\ schema[i] > 0 /\ i \notin Repeatable
        /\ pc' = [pc EXCEPT ![p] = "failed"]
        /\ UNCHANGED done
  /\ UNCHANGED <<table, labels, schema, at, starts>>

LastStatement(p) ==
  /\ done[p] = Statements[at[p]]
  /\ Go(p, "run", "label")
  /\ UNCHANGED <<table, labels, schema, at, done, starts>>

\* INSERT waits for another transaction's row of the same label.
InsertLabel(p) ==
  /\ \A q \in Procs \ {p} : ~(pc[q] = "commit" /\ at[q] = at[p])
  /\ Go(p, "label", IF at[p] \in labels THEN "failed" ELSE "commit")
  /\ UNCHANGED <<table, labels, schema, at, done, starts>>

Commit(p) ==
  /\ pc[p] = "commit"
  /\ labels' = labels \cup {at[p]}
  /\ schema' = [i \in StatementIds |-> IF Pending(p, i) THEN schema[i] + 1 ELSE schema[i]]
  /\ Onward(p)
  /\ UNCHANGED <<table, starts>>
-----------------------------------------------------------------------------
\* The process ends, or its connection does: PostgreSQL rolls back.
Kill(p) == /\ pc[p] \notin Ended
           /\ pc' = [pc EXCEPT ![p] = "killed"]
           /\ UNCHANGED <<table, labels, schema, at, done, starts>>

Restart(p) == /\ pc[p] \in {"failed", "killed"} /\ starts[p] < MaxStarts
              /\ pc' = [pc EXCEPT ![p] = "check"]
              /\ at' = [at EXCEPT ![p] = 1]
              /\ done' = [done EXCEPT ![p] = 0]
              /\ starts' = [starts EXCEPT ![p] = @ + 1]
              /\ UNCHANGED <<table, labels, schema>>

Step(p) == \/ CheckTable(p) \/ CreateTable(p) \/ Select(p) \/ Run(p)
           \/ LastStatement(p) \/ InsertLabel(p) \/ Commit(p)

Next == \E p \in Procs : Step(p) \/ Kill(p) \/ Restart(p)

\* A process runs on, and PostgreSQL ends every statement that nothing holds up.
Spec == Init /\ [][Next]_vars /\ \A p \in Procs : WF_vars(Step(p))
-----------------------------------------------------------------------------
\* A label stands for the whole migration, once: whoever is killed between two
\* statements, and however two processes get into each other's way, the
\* statements of a migration have taken effect once if its label is in the table, and
\* not at all otherwise (apply_all, transaction by transaction).
LabelMeansApplied == schema = [i \in StatementIds |-> IF i[1] \in labels THEN 1 ELSE 0]

\* A migration only runs on the schema it was written for: while a process is
\* about to commit its statements, exactly the earlier ones are in the database.
BuildsOnTheEarlier == \A p \in Procs : pc[p] = "commit" => labels = 1 .. at[p] - 1

\* Success means that the schema is the current one.
SuccessIsCurrent == \A p \in Procs : pc[p] = "done" => labels = 1 .. N

\* The race has a winner: when every process has come to its end by itself, one has
\* reported success, whatever errors the others met.  What an earlier run of
\* theirs left when it was killed is in nobody's way (tx.rollback).
SomeoneSucceeds == (\A p \in Procs : pc[p] \in {"done", "failed"}) =>
                     \E p \in Procs : pc[p] = "done"

\* Readers of the database see one version of the schema after the other.
History == INSTANCE SchemaHistory
OneVersionAtATime == History!Spec

\* Nobody waits for ever: every process ends.
AllEnd == \A p \in Procs : <>[](pc[p] \in Ended)
=============================================================================
