------------------------------- MODULE MCSessions -------------------------------
(***************************************************************************)
(* Small settings for the sessions: two goroutines, three connections.     *)
(***************************************************************************)
EXTENDS PreparedStatements, TLC

CONSTANTS c1, c2, k1, k2, k3

Load(driver, pool, n1, n2, f, p, s) ==
    [driver |-> driver, pool |-> pool, calls |-> (c1 :> n1 @@ c2 :> n2), faults |-> f, panics |-> p,
     statements |-> s]

\* Pools of the least size that lets every call return: one connection more than those who
\* may wait for a second one while they hold one, and one for each that a panic may leak.
MCLoads ==
    {Load("pgx", {k1, k2, k3}, 2, 2, 0, 0, 0), Load("pgx", {k1, k2}, 2, 1, 1, 0, 0),
     Load("sql", {k1, k2}, 2, 1, 1, 0, 0), Load("pgx", {k1, k2}, 1, 1, 1, 1, 0),
     Load("sql", {k1, k2}, 1, 1, 1, 1, 0), Load("pgx", {k1, k2}, 1, 0, 1, 0, 1),
     Load("pgx", {k1, k2}, 0, 0, 0, 0, 2)}

Statement(name, sql) == [name |-> name, sql |-> sql]
\* One SQL under two names, one name for two texts, SQL the server refuses, and SQL for a name.
MCStatements ==
    {Statement("a", "select"), Statement("a", "update"), Statement("b", "typo"), Statement("update", "update")}

ASSUME LabelsApart

MCSpec == PreparedSpec /\ Fairness

================================================================================
