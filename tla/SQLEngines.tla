------------------------------- MODULE SQLEngines -------------------------------
(***************************************************************************)
(* The databases as readers of a statement's tokens: which statements they *)
(* refuse, and how they read a WHERE clause.  External: the server         *)
(* grammars, as far as the words the builders write are concerned.         *)
(***************************************************************************)
EXTENDS Rendering

PostgresOnly == {"DISTINCT ON", "FOR NO KEY UPDATE", "FOR KEY SHARE", "ILIKE", "NOT ILIKE", "~", "~*", "!~",
                 "!~*", "@@", "to_tsvector", "to_tsquery", "plainto_tsquery", "phraseto_tsquery",
                 "websearch_to_tsquery", "->", "->>", "#>", "#>>", "?", "?|", "?&", "@>", "<@", "&&", "ARRAY",
                 "ON CONSTRAINT", "FULL JOIN"}
Locks        == {"FOR UPDATE", "FOR SHARE", "OF", "NOWAIT", "SKIP LOCKED"}
MySQLOnly    == {"INSERT IGNORE", "ON DUPLICATE KEY UPDATE", "LOCK IN SHARE MODE", "= VALUES"}

\* Words an engine does not know; "minimal" is a database of the bare standard.
Lacking ==
    [postgres |-> MySQLOnly \cup {"INSERT OR IGNORE"},
     mysql    |-> PostgresOnly \cup {"INSERT OR IGNORE", "ON CONFLICT", "RETURNING", "NULLS FIRST",
                                     "NULLS LAST", "= EXCLUDED."},
     sqlite   |-> (PostgresOnly \ {"->", "->>"}) \cup MySQLOnly
                  \cup Locks \cup {"RIGHT JOIN"},
     minimal  |-> PostgresOnly \cup MySQLOnly
                  \cup Locks \cup {"INSERT OR IGNORE", "ON CONFLICT", "RETURNING", "NULLS FIRST",
                                    "NULLS LAST", "= EXCLUDED.", "WITH", "WITH RECURSIVE", "OVER",
                                    "RIGHT JOIN"}]

IsWord(toks, i, s) == i \in DOMAIN toks /\ toks[i].t = "word" /\ toks[i].s = s
At(toks, s)        == {i \in DOMAIN toks : IsWord(toks, i, s)}
Words(toks)        == {toks[i].s : i \in {j \in DOMAIN toks : toks[j].t = "word"}}
IsMutation(toks)   == IsWord(toks, 1, "UPDATE") \/ IsWord(toks, 1, "DELETE FROM")

\* How many parentheses are open at each token, itself not counted.
Depths(toks) ==
    LET Opens(i)  == IF IsWord(toks, i, "(") THEN 1 ELSE 0
        Closes(i) == IF IsWord(toks, i, ")") THEN 1 ELSE 0
        After(depths, i) == Append(depths, IF i = 1 THEN 0 ELSE depths[i - 1] + Opens(i - 1) - Closes(i))
    IN  FoldLeft(After, <<>>, [i \in DOMAIN toks |-> i])

Clauses == JoinKinds \cup {"WITH", "WITH RECURSIVE", "SELECT", "FROM", "ON", "WHERE", "GROUP BY", "HAVING",
                       "ORDER BY", "RETURNING", "SET", "VALUES", "PARTITION BY"}
TakesAlias == JoinKinds \cup {"WITH", "WITH RECURSIVE", "SELECT", "FROM", "RETURNING"}

\* AS belongs to the clause that was opened last between the same parentheses.
MisplacedAlias(toks) ==
    LET depth == Depths(toks)
        Opened(i) == {j \in 1 .. i : /\ depth[j] = depth[i] /\ toks[j].t = "word" /\ toks[j].s \in Clauses
                                     /\ \A k \in j .. i : depth[k] >= depth[i]}
    IN  \E i \in At(toks, "AS") : \/ Opened(i) = {}
                                  \/ toks[CHOOSE j \in Opened(i) : \A k \in Opened(i) : k <= j].s \notin TakesAlias

Reason(cond, name) == IF cond THEN {name} ELSE {}

\* Why a database refuses the statement; an empty set is a statement it runs.
Refusals(d, toks) ==
    (Words(toks) \cap Lacking[d.name])
    \cup Reason(MisplacedAlias(toks), "alias outside a select list")
    \cup Reason(d.name \in {"postgres", "minimal"} /\ IsMutation(toks) /\ At(toks, "LIMIT") # {}, "mutation with LIMIT")
    \cup Reason(d.name = "sqlite" /\ IsMutation(toks) /\ {"LIMIT", "RETURNING"} \subseteq Words(toks),
                "LIMIT before RETURNING")
    \cup Reason(d.name # "postgres" /\ \E i \in At(toks, "OFFSET") : ~IsWord(toks, i - 1, "LIMIT"),
                "OFFSET without LIMIT")
    \cup Reason(d.name = "sqlite" /\ IsWord(toks, 1, "("), "operand in parentheses")
    \cup Reason({"NOWAIT", "SKIP LOCKED"} \subseteq Words(toks), "NOWAIT and SKIP LOCKED")
    \cup Reason(\E i \in At(toks, "LOCK IN SHARE MODE") : IsWord(toks, i + 1, "NOWAIT") \/ IsWord(toks, i + 1, "SKIP LOCKED"),
                "option of LOCK IN SHARE MODE")
    \cup Reason(d.name # "sqlite" /\ \E i \in At(toks, "COUNT") : IsWord(toks, i + 2, ")"), "COUNT of nothing")
    \cup Reason(\E i \in At(toks, "IN") \cup At(toks, "NOT IN") : IsWord(toks, i + 2, ")"), "empty list")
    \cup Reason(\E i \in At(toks, "*") : ~IsWord(toks, i - 1, "(") /\ ~IsWord(toks, i + 1, "FROM"),
                "* without FROM")
    \cup Reason(\E i \in At(toks, "ON CONFLICT") : IsWord(toks, i + 1, "DO UPDATE SET"), "update without target")
    \cup Reason(\E i \in UNION {At(toks, w) : w \in {"SET", "DO UPDATE SET", "ON DUPLICATE KEY UPDATE"}} :
                    i + 1 \notin DOMAIN toks \/ toks[i + 1].t # "ident", "nothing assigned")
    \cup Reason(Cardinality(At(toks, "CASE")) > Cardinality(At(toks, "WHEN")), "CASE without branches")

--------------------------------------------------------------------------------
(* Reading a condition made of tests "table . column IS NULL"                *)

\* Each returns the truth of what starts at token i, and where it ends.
RECURSIVE Disjunction(_, _, _), Conjunction(_, _, _), Test(_, _, _)
Disjunction(toks, i, holds) ==
    LET left  == Conjunction(toks, i, holds)
        right == Disjunction(toks, left.next + 1, holds)
    IN  IF ~IsWord(toks, left.next, "OR") THEN left
        ELSE [val |-> left.val \/ right.val, next |-> right.next]
Conjunction(toks, i, holds) ==
    LET left  == Test(toks, i, holds)
        right == Conjunction(toks, left.next + 1, holds)
    IN  IF ~IsWord(toks, left.next, "AND") THEN left
        ELSE [val |-> left.val /\ right.val, next |-> right.next]
Test(toks, i, holds) ==
    IF IsWord(toks, i, "NOT")
    THEN LET inner == Test(toks, i + 1, holds) IN [val |-> ~inner.val, next |-> inner.next]
    ELSE IF IsWord(toks, i, "(")
    THEN LET inner == Disjunction(toks, i + 1, holds) IN [val |-> inner.val, next |-> inner.next + 1]
    ELSE [val |-> toks[i + 2].s \in holds, next |-> i + 4]

\* Which rows a statement's own WHERE clause selects, given the columns that are NULL.
Selects(toks, holds) ==
    LET depth == Depths(toks)
        where == {i \in At(toks, "WHERE") : depth[i] = 0}
    IN  \A i \in where : Disjunction(toks, i + 1, holds).val

================================================================================
