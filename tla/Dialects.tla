-------------------------------- MODULE Dialects --------------------------------
(***************************************************************************)
(* What the query builders ask of a dialect: the capability methods of the *)
(* Dialect interface as the fields of a record, and its placeholders.      *)
(***************************************************************************)
EXTENDS Naturals

Postgres ==
    [name |-> "postgres", numbered |-> TRUE, returning |-> TRUE, upsert |-> "on_conflict",
     insertIgnore |-> "", ignoreConflicts |-> TRUE, cte |-> TRUE, windows |-> TRUE,
     distinctOn |-> TRUE, forUpdate |-> TRUE, noKeyUpdate |-> TRUE, fullJoin |-> TRUE,
     rightJoin |-> TRUE, forShare |-> "FOR SHARE", forShareOf |-> TRUE, regexp |-> TRUE,
     fullText |-> TRUE, limitOnMutate |-> FALSE]

MySQL ==
    [name |-> "mysql", numbered |-> FALSE, returning |-> FALSE, upsert |-> "duplicate_key",
     insertIgnore |-> "INSERT IGNORE", ignoreConflicts |-> TRUE, cte |-> TRUE, windows |-> TRUE,
     distinctOn |-> FALSE, forUpdate |-> TRUE, noKeyUpdate |-> FALSE, fullJoin |-> FALSE,
     rightJoin |-> TRUE, forShare |-> "LOCK IN SHARE MODE", forShareOf |-> FALSE,
     regexp |-> FALSE, fullText |-> FALSE, limitOnMutate |-> TRUE]

SQLite ==
    [name |-> "sqlite", numbered |-> FALSE, returning |-> TRUE, upsert |-> "on_conflict",
     insertIgnore |-> "INSERT OR IGNORE", ignoreConflicts |-> TRUE, cte |-> TRUE,
     windows |-> TRUE, distinctOn |-> FALSE, forUpdate |-> FALSE, noKeyUpdate |-> FALSE,
     fullJoin |-> FALSE, rightJoin |-> FALSE, forShare |-> "", forShareOf |-> FALSE,
     regexp |-> FALSE, fullText |-> FALSE, limitOnMutate |-> TRUE]

\* The number a placeholder carries: "$n", or none in "?".
Placeholder(d, n) == IF d.numbered THEN n ELSE 0

================================================================================
