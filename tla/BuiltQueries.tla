------------------------------ MODULE BuiltQueries -------------------------------
(***************************************************************************)
(* What the programs of Builders build, as the database reads it: the      *)
(* values behind the placeholders, the clauses an engine knows, the rows   *)
(* and the condition of the statement.                                     *)
(***************************************************************************)
EXTENDS Builders, SQLEngines

\* The database receives behind every placeholder the value that stands at that place
\* of the query, by number or by position, through sub-selects, CTEs and expressions
\* that bind out of turn (BuildContext.Add).
PlaceholdersFit ==
    \A d \in Dialects : Builds(d) =>
        LET params == {i \in DOMAIN out[d].toks : out[d].toks[i].t = "param"}
        IN  /\ Cardinality(params) = Len(out[d].args)
            /\ \A i \in params : Received(out[d], i) = out[d].toks[i].want

\* What the builders are known to let through although an engine refuses it.
Everywhere == {"* without FROM", "alias outside a select list"}
Ungated    == {"ILIKE", "NOT ILIKE", "#>", "#>>", "ARRAY", "?", "?|", "?&", "@>", "<@", "&&"}
KnownGaps ==
    [postgres |-> Everywhere \cup {"COUNT of nothing", "NOWAIT and SKIP LOCKED"},
     mysql    |-> Everywhere \cup Ungated
                  \cup {"COUNT of nothing", "NOWAIT and SKIP LOCKED", "option of LOCK IN SHARE MODE",
                        "->", "->>", "NULLS LAST", "OFFSET without LIMIT"},
     sqlite   |-> Everywhere \cup Ungated
                  \cup {"ON CONSTRAINT", "OFFSET without LIMIT", "LIMIT before RETURNING",
                        "operand in parentheses"},
     minimal  |-> Everywhere \cup Ungated \cup {"->", "->>", "NULLS LAST", "OFFSET without LIMIT"}]

\* Build returns SQL that the chosen engine runs, or an error: a clause an engine lacks
\* never reaches it, but for the known gaps (dialect.go:24-149, docs/spec/dialects.md:97).
BuiltIsAccepted == \A d \in Dialects : Builds(d) => Refusals(d, out[d].toks) \subseteq KnownGaps[d.name]

\* Conditions the reader of SQLEngines can read, and what they say of a row whose
\* columns in "holds" are NULL.
RECURSIVE Readable(_), True(_, _)
Readable(e) ==
    \/ e = Nil
    \/ e.k = "null" /\ e.op = "IS NULL"
    \/ e.k \in {"logic", "not"} /\ \A i \in DOMAIN e.parts : Readable(e.parts[i])
True(e, holds) ==
    CASE e = Nil -> TRUE
      [] e.k = "null" -> e.parts[1].c \in holds
      [] e.k = "not"  -> ~True(e.parts[1], holds)
      [] e.k = "logic" /\ e.op = "AND" -> \A i \in DOMAIN e.parts : True(e.parts[i], holds)
      [] OTHER -> \E i \in DOMAIN e.parts : True(e.parts[i], holds)

RECURSIVE NullTested(_)
NullTested(e) ==
    IF e = Nil THEN {} ELSE IF e.k = "null" THEN {e.parts[1].c}
    ELSE UNION {NullTested(e.parts[i]) : i \in DOMAIN e.parts}

\* The WHERE clause, read back by SQL's precedence, selects the rows that satisfy every
\* condition the calls since the last Where gave, and no others: And never loosens,
\* loses or rebrackets what was asked (expr.go And, Or, Not; Where and And of the builders).
WhereKeepsMeaning ==
    \A d \in Dialects :
        (Builds(d) /\ Newest.kind \in {"select", "update", "delete"}
            /\ \A i \in DOMAIN Asked.conds : Readable(Asked.conds[i])) =>
        \A holds \in SUBSET UNION {NullTested(Asked.conds[i]) : i \in DOMAIN Asked.conds} :
            Selects(out[d].toks, holds) <=> \A i \in DOMAIN Asked.conds : True(Asked.conds[i], holds)

\* Every inserted row carries, under each listed column, the value its struct has there,
\* and only absent fields are left out (structToColVals, Values, ValueSlice).
RowsAligned ==
    \A d \in Dialects : (Builds(d) /\ Newest.kind = "insert") =>
        LET toks   == out[d].toks
            First(w) == CHOOSE i \in At(toks, w) : \A j \in At(toks, w) : i <= j
            cols   == SelectSeq(SubSeq(toks, First("("), First(")")), LAMBDA k : k.t = "ident")
            ends   == UNION {At(toks, w) : w \in {"ON CONFLICT", "ON DUPLICATE KEY UPDATE", "RETURNING"}}
                      \cup {Len(toks) + 1}
            values == ReceivedFrom(out[d], First("VALUES"), (CHOOSE i \in ends : \A j \in ends : i <= j) - 1)
        IN  /\ Len(values) = Len(cols) * Len(Asked.rows)
            /\ \A r \in DOMAIN Asked.rows :
                  LET fields == Tagged(Asked.rows[r])
                      Received1(c) == values[(r - 1) * Len(cols) + c]
                  IN  /\ \A f \in DOMAIN fields : fields[f].v # Absent =>
                            \E c \in DOMAIN cols : cols[c].s = fields[f].col /\ Received1(c) = fields[f].v
                      /\ \A c \in DOMAIN cols : \E f \in DOMAIN fields :
                            /\ fields[f].col = cols[c].s
                            /\ fields[f].v = Absent => Received1(c) \in {"NULL", Absent}

================================================================================
