---------------------------- MODULE SchemaHistory ----------------------------
(***************************************************************************)
(* What ttsmagic-server/src/migrations.rs promises to whoever reads the    *)
(* database: it goes from one version of the schema to the next, in the    *)
(* order of the list of migrations, and a migration's statements and its   *)
(* label appear together and once.                                         *)
(***************************************************************************)
EXTENDS Naturals

CONSTANTS
  N,            \* how many migrations there are
  Statements    \* Statements[m]: how many statements the m-th has

VARIABLES
  labels,       \* the migrations of the table migrations
  schema        \* how often each statement has taken effect

StatementIds == UNION {{m} \X (1 .. Statements[m]) : m \in 1 .. N}

Apply(m) ==
  /\ labels = 1 .. m - 1
  /\ labels' = labels \cup {m}
  /\ schema' = [i \in StatementIds |-> IF i[1] = m THEN schema[i] + 1 ELSE schema[i]]

\* The database may be at any version already.
Init == \E v \in 0 .. N :
          /\ labels = 1 .. v
          /\ schema = [i \in StatementIds |-> IF i[1] <= v THEN 1 ELSE 0]

Next == \E m \in 1 .. N : Apply(m)

Spec == Init /\ [][Next]_<<labels, schema>>
=============================================================================
