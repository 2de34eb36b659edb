----------------------------- MODULE MigrationLedger -----------------------------
(***************************************************************************)
(* What kit.Migrate promises of a database and of the rows of              *)
(* _grizzle_migrations: the DDL statements of a batch and the row that      *)
(* records them succeed or fail together (kit/migrate.go, applyWithHistory),*)
(* and a batch applies to the database as it is at that moment, with nothing *)
(* of another batch in between.                                             *)
(***************************************************************************)
EXTENDS Naturals, Sequences, SequencesExt

CONSTANT TableOrder   \* the tables, in the order of sort.Strings

Tables  == ToSet(TableOrder)
\* What a table consists of: itself, one column and one index that may come and go.
Objects  == {"table", "col", "idx"}
Contents == {S \in SUBSET Objects : S = {} \/ "table" \in S}
Schemas  == [Tables -> Contents]

\* A statement: [op, on] with what it adds or drops.
Statement(op, t, what) == [op |-> op, on |-> t, what |-> what]

\* The content of its table after a statement the database accepts.
\* CREATE TABLE IF NOT EXISTS and DROP TABLE IF EXISTS accept everything.
After(s, content) ==
    CASE s.op = "create" -> IF content = {} THEN s.what ELSE content
      [] s.op = "drop_table" -> {}
      [] s.op = "add"  -> content \cup s.what
      [] s.op = "drop" -> content \ s.what

Run(db, s) == [db EXCEPT ![s.on] = After(s, @)]

\* The schemas a batch goes through, from the one it starts on to the one it leaves.
States(db, stmts) ==
    LET state[n \in 0..Len(stmts)] == IF n = 0 THEN db ELSE Run(state[n - 1], stmts[n])
    IN  state
RunAll(db, stmts) == States(db, stmts)[Len(stmts)]

FlatMap(F(_), s) == FlattenSeq([i \in DOMAIN s |-> F(s[i])])
When(cond, s)    == IF cond THEN s ELSE <<>>

\* kit.Diff and AllChangeSQL, as far as tables come and go and change: created tables
\* with their indexes, then what changed inside tables, then dropped tables.
CreateTable(live, target, t) ==
    When(live[t] = {} /\ target[t] # {},
         <<Statement("create", t, target[t] \ {"idx"})>>
         \o When("idx" \in target[t], <<Statement("add", t, {"idx"})>>))
AlterObject(live, target, t, o) ==
    When(o \in target[t] \ live[t], <<Statement("add", t, {o})>>)
    \o When(o \in live[t] \ target[t], <<Statement("drop", t, {o})>>)
AlterTable(live, target, t) ==
    When(live[t] # {} /\ target[t] # {},
         AlterObject(live, target, t, "col") \o AlterObject(live, target, t, "idx"))
DropTable(live, target, t) ==
    When(live[t] # {} /\ target[t] = {}, <<Statement("drop_table", t, {})>>)

Diff(live, target) ==
    FlatMap(LAMBDA t : CreateTable(live, target, t), TableOrder)
    \o FlatMap(LAMBDA t : AlterTable(live, target, t), TableOrder)
    \o FlatMap(LAMBDA t : DropTable(live, target, t), TableOrder)

Batches == {Diff(live, target) : live, target \in Schemas}

VARIABLES
    db,       \* the committed schema
    history   \* the rows of _grizzle_migrations: [id, stmts]

Init == db \in Schemas /\ history = {}

\* A migration: the row it adds says what it does to the database.
Apply ==
    \E row \in history' \ history :
        /\ row.id \notin {r.id : r \in history}
        /\ history' = history \cup {row}
        /\ db' = RunAll(db, row.stmts)

\* kit.Push leaves no row.
Push ==
    /\ UNCHANGED history
    /\ db' # db
    /\ \E stmts \in Batches : db' = RunAll(db, stmts)

Next == Apply \/ Push

Spec == Init /\ [][Next]_<<db, history>>

================================================================================
