------------------------------- MODULE Rendering --------------------------------
(***************************************************************************)
(* BuildContext and Build: how the pieces of a statement become its text   *)
(* and its arguments.                                                      *)
(*                                                                         *)
(* The text is a sequence of tokens.  A parameter token keeps, beside the  *)
(* number its placeholder shows, the value that stands there in the query  *)
(* ("want"), which the rendering itself never looks at.                    *)
(***************************************************************************)
EXTENDS Queries

Word(s)     == [t |-> "word", s |-> s]
Ident(s)    == [t |-> "ident", s |-> s]
Param(n, v) == [t |-> "param", s |-> "", n |-> n, want |-> v]

\* What a piece adds to the text, and the arguments bound so far.
Wrote(toks, args) == [err |-> "", toks |-> toks, args |-> args]
Failed(code)      == [err |-> code, toks |-> <<>>, args |-> <<>>]

\* BuildContext.Add
Bind(v, d, args) == Wrote(<<Param(Placeholder(d, Len(args) + 1), v)>>, Append(args, v))

\* validateIdentifier: identifiers the models use that it refuses.
BadIdentifiers == {"", "a.b"}
Quote(n, args) == IF n \in BadIdentifiers THEN Failed("invalid_identifier") ELSE Wrote(<<Ident(n)>>, args)

\* ColRef: the column and then, where it has one, its table are validated.
ColRef(c, args) ==
    IF c.c \in BadIdentifiers \/ c.t = "a.b" THEN Failed("invalid_identifier")
    ELSE Wrote((IF c.t = "" THEN <<>> ELSE <<Ident(c.t), Word(".")>>) \o <<Ident(c.c)>>, args)

\* The table and the column name that a selectable column reports.
RECURSIVE TableName(_), ColumnName(_)
TableName(e)  == IF e.k = "column" THEN e.t ELSE IF e.k = "aliased" THEN TableName(e.parts[1]) ELSE ""
ColumnName(e) == IF e.k = "column" THEN e.c ELSE IF e.alias # "" THEN e.alias ELSE ColumnName(e.parts[1])
\* The name alone, where the column has a table.
Unqualified(ref) == IF TableName(ref) # "" THEN Name(ColumnName(ref)) ELSE AsRef(ref)

RECURSIVE RenderPiece(_, _, _), RenderAll(_, _, _)

\* The pieces render in order, those marked late after the others; the text joins them.
RenderAll(ps, d, args) ==
    LET positions == [i \in DOMAIN ps |-> i]
        order == SelectSeq(positions, LAMBDA i : ps[i].k # "late")
                 \o SelectSeq(positions, LAMBDA i : ps[i].k = "late")
        done[n \in 0 .. Len(ps)] ==
            IF n = 0 THEN [err |-> "", toks |-> [i \in DOMAIN ps |-> <<>>], args |-> args]
            ELSE LET before == done[n - 1]
                 IN  IF before.err # "" THEN before
                     ELSE LET r == RenderPiece(ps[order[n]], d, before.args)
                          IN  [err |-> r.err, toks |-> [before.toks EXCEPT ![order[n]] = r.toks],
                               args |-> r.args]
        all == done[Len(ps)]
    IN  IF all.err # "" THEN Failed(all.err) ELSE Wrote(FlattenSeq(all.toks), all.args)

PiecesOf(e, mode, d) ==
    CASE e.k = "exists"    -> ExistsPieces(e)
      [] e.k = "in select" -> InSelectPieces(e)
      [] OTHER             -> ExpressionPieces(e, mode, d)

RenderPiece(p, d, args) ==
    CASE p.k = "text"   -> Wrote([i \in DOMAIN p.words |-> Word(p.words[i])], args)
      [] p.k = "name"   -> Quote(p.n, args)
      [] p.k = "check"  -> [Quote(p.n, args) EXCEPT !.toks = <<>>]
      [] p.k = "column" -> ColRef(p, args)
      [] p.k = "fail"   -> Failed(p.code)
      [] p.k \in {"lit", "late"} -> Bind(p.v, d, args)
      [] p.k = "select" -> RenderAll(SelectPieces(p.of, d), d, args)
      [] p.k = "bare"   -> RenderPiece(Unqualified(p.of), d, args)
      [] p.k = "in"     -> IF p.of.k \in {"column", "lit", "fail"} THEN RenderPiece(p.of, d, args)
                           ELSE RenderAll(PiecesOf(p.of, p.mode, d), d, args)
      [] OTHER          -> RenderAll(PiecesOf(p, "sql", d), d, args)

\* A statement starts without arguments; a failure leaves neither text nor arguments.
RenderStatement(ps, d) == RenderAll(ps, d, <<>>)

--------------------------------------------------------------------------------
(* How a database reads the text                                             *)

\* The value behind the i-th token: by its number, or by its place among the placeholders.
Received(r, i) ==
    LET before == {j \in 1 .. i : r.toks[j].t = "param"}
        n      == IF r.toks[i].n # 0 THEN r.toks[i].n ELSE Cardinality(before)
    IN  IF n \in DOMAIN r.args THEN r.args[n] ELSE Absent

\* The values of the parameters from token i to token j, in the order of the text.
ReceivedFrom(r, i, j) ==
    LET params == SelectSeq([k \in 1 .. (j - i + 1) |-> i + k - 1], LAMBDA k : r.toks[k].t = "param")
    IN  [k \in DOMAIN params |-> Received(r, params[k])]

================================================================================
