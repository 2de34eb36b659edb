--------------------------- MODULE PreparedStatements ---------------------------
(***************************************************************************)
(* driver/pgx/prepared.go over the pool of Sessions: statements are        *)
(* validated by preparing them, under a name, on one connection; they run  *)
(* by their SQL on whichever connection there is.  A name and a SQL text   *)
(* are strings both, and pgx takes either where it takes one.              *)
(***************************************************************************)
EXTENDS Sessions, Sequences, FiniteSets

CONSTANTS
    Statements,   \* statements that may be prepared, registered and run: a name and its SQL
    Broken        \* SQL texts the server cannot prepare: an unknown column, a wrong type

Names == {s.name : s \in Statements}
SQLs  == {s.sql : s \in Statements}
None    == "none"
Refused == "refused"   \* by the server

ASSUME PreparedAssumption ==
    /\ \A s \in Statements : s.sql \notin {None, Refused}
    /\ \A l \in Loads : l.statements > 0 => l.driver = "pgx"

VARIABLES
    known,      \* of each connection: the SQL prepared under each name
    entries,    \* the registry's statements
    checking,   \* the entry that PrepareAll validates; 0: it does not run
    expired,    \* the context of this PrepareAll has ended
    verdict,    \* how the last PrepareAll ended
    ready,      \* how many entries the last PrepareAll that returned nil validated
    handles,    \* statements returned by PrepareSelect and PrepareExec
    ran         \* the last execution, if any: what was asked, whether it was validated, what ran

allVars == <<vars, known, entries, checking, expired, verdict, ready, handles, ran>>

PreparedInit ==
    /\ Init
    /\ known = [k \in Conns |-> [n \in Names |-> None]]
    /\ entries = <<>>
    /\ checking = 0
    /\ expired = FALSE
    /\ verdict = "none"
    /\ ready = 0
    /\ handles = {}
    /\ ran = {}

--------------------------------------------------------------------------------

\* Conn.Prepare: a name that is taken can be prepared again with its own SQL only.
Prepares(k, s) == known[k][s.name] = s.sql \/ (known[k][s.name] = None /\ s.sql \notin Broken)
Remember(k, s) == known' = [known EXCEPT ![k][s.name] = s.sql]
\* A connection that is closed and replaced knows no name.
Forgetting(ks) == [k \in Conns |-> IF k \in ks THEN [n \in Names |-> None] ELSE known[k]]

More == Len(entries) + Cardinality(handles) < load.statements

\* RegisterSelect and RegisterExec build the statement and append it.
Register(s) ==
    /\ checking = 0 /\ More
    /\ entries' = Append(entries, s)
    /\ UNCHANGED <<vars, known, checking, expired, verdict, ready, handles, ran>>

PrepareAll ==
    /\ checking = 0 /\ load.statements > 0
    /\ expired' = FALSE
    /\ IF entries = <<>> THEN checking' = 0 /\ ready' = 0 /\ verdict' = "nil"
       ELSE checking' = 1 /\ verdict' = "none" /\ UNCHANGED ready
    /\ UNCHANGED <<vars, known, entries, handles, ran>>

ContextExpires ==
    /\ checking > 0
    /\ expired' = TRUE
    /\ UNCHANGED <<vars, known, entries, checking, verdict, ready, handles, ran>>

\* Mutant: every statement is prepared under the name of the first.
EntryUnderFirstName(i) == [entries[i] EXCEPT !.name = entries[1].name]
Entry(i) == entries[i]
\* Mutant: the loop ends one statement early.
LastBut(i) == i + 1 >= Len(entries)
Last(i) == i = Len(entries)

\* validateStatement takes a connection, prepares, and releases it.
Validate(k) ==
    /\ checking > 0 /\ ~expired /\ Idle(k)
    /\ Prepares(k, Entry(checking))
    /\ Remember(k, Entry(checking))
    /\ IF Last(checking) THEN checking' = 0 /\ ready' = Len(entries) /\ verdict' = "nil"
       ELSE checking' = checking + 1 /\ UNCHANGED <<ready, verdict>>
    /\ UNCHANGED <<vars, entries, expired, handles, ran>>

\* The first error ends PrepareAll; the statements after it are not looked at.
EndsWith(error) ==
    /\ checking' = 0
    /\ verdict' = error
    /\ UNCHANGED <<vars, entries, expired, ready, handles, ran>>

ValidateRefused(k) ==
    /\ checking > 0 /\ ~expired /\ Idle(k)
    /\ ~Prepares(k, Entry(checking))
    /\ EndsWith(Refused)
    /\ UNCHANGED known

\* preparedValidationError keeps the cause of an ended context only: to the caller, a server
\* that cannot be reached and one that refuses are the same error.
Mishaps == {"unreachable"} \cup (IF expired THEN {"context"} ELSE {})

\* The pool has no connection to give, or none in time.
AcquireFails ==
    /\ checking > 0
    /\ \E error \in Mishaps : EndsWith(error)
    /\ UNCHANGED known

\* The context ends or the connection breaks while the server prepares: pgx closes it.
PrepareBreaks(k) ==
    /\ checking > 0 /\ Idle(k)
    /\ \E error \in Mishaps : EndsWith(error)
    /\ known' = Forgetting({k})

\* PrepareSelect and PrepareExec; on an error they return no statement.
Prepare(k, s) ==
    /\ More /\ Idle(k) /\ Prepares(k, s)
    /\ Remember(k, s)
    /\ handles' = handles \cup {s}
    /\ UNCHANGED <<vars, entries, checking, expired, verdict, ready, ran>>

\* PrepareSelect or PrepareExec breaks a connection, or the pool retires it.
Replaced(k) ==
    /\ Idle(k)
    /\ known' = Forgetting({k})
    /\ UNCHANGED <<vars, entries, checking, expired, verdict, ready, handles, ran>>

\* Statements a program holds: those of a registry can be run before PrepareAll.
Held == handles \cup {entries[i] : i \in DOMAIN entries}
Validated(s) == s \in handles \/ \E i \in 1 .. ready : entries[i] = s

\* Conn.Query and Conn.Exec take a text for a name, if the connection knows that name,
\* and for SQL otherwise.
Meant(k, text) == IF text \in Names /\ known[k][text] # None THEN known[k][text] ELSE text
\* What the server is made to run, if it does not refuse.
Executes(k, text) == IF Meant(k, text) \in SQLs \ Broken THEN Meant(k, text) ELSE Refused

\* Mutant: the statement runs under its name.
SQLRunByName(k, s) == Executes(k, s.name)
SQLRun(k, s) == Executes(k, s.sql)

\* QueryAll, QueryOne, QueryOpt and Exec on any idle connection, ExecTx on the transaction's,
\* which a refused statement aborts.
Run(k, s) ==
    /\ ran' = {[asked |-> s, validated |-> Validated(s), got |-> SQLRun(k, s)]}
    /\ \/ Idle(k) /\ UNCHANGED vars
       \/ \E c \in Clients :
             /\ InCallback(c) /\ InTx(c, k) /\ c \in live /\ Takes(k)
             /\ IF SQLRun(k, s) = Refused THEN TxExecFails(c, k) ELSE UNCHANGED vars
    /\ UNCHANGED <<known, entries, checking, expired, verdict, ready, handles>>

\* A connection that comes back to the pool may have been closed and replaced.
Session ==
    /\ Next
    /\ \E closed \in SUBSET {k \in Conns : owner[k] # Nobody /\ owner'[k] = Nobody} :
          known' = Forgetting(closed)
    /\ UNCHANGED <<entries, checking, expired, verdict, ready, handles, ran>>

PreparedNext ==
    \/ Session \/ PrepareAll \/ ContextExpires \/ AcquireFails
    \/ \E s \in Statements : Register(s)
    \/ \E k \in Conns : \/ Validate(k) \/ ValidateRefused(k) \/ PrepareBreaks(k) \/ Replaced(k)
                        \/ \E s \in Statements : Prepare(k, s)
                        \/ \E s \in Held : Run(k, s)

PreparedSpec == PreparedInit /\ [][PreparedNext]_allVars

--------------------------------------------------------------------------------
(* Properties                                                                *)

\* Once PrepareAll has returned nil, and of every statement that PrepareSelect or PrepareExec
\* returned, the server knows how to run the SQL, whichever connections the validation used
\* and whatever names they had prepared before (validateStatement, PrepareAll).
ReadyMeansValid ==
    /\ \A i \in 1 .. ready : entries[i].sql \notin Broken
    /\ \A s \in handles : s.sql \notin Broken

\* PrepareAll is refused by the server for SQL that is wrong or for a name that another
\* statement took, on whichever connection it validates: validating again what was valid is
\* not.  (The comment at prepared.go:265-267 has every error mean "a SQL problem"; an ended
\* context and a lost connection are none.)
ErrorsHaveCause ==
    [][\A i \in 1 .. Len(entries) :
          (checking = i /\ checking' = 0 /\ verdict' = Refused) =>
             \/ entries[i].sql \in Broken
             \/ \E s \in Held \ {entries[i]} : s.name = entries[i].name]_allVars

\* No statement's name is the SQL of another one, whose text pgx would take for the name.
LabelsApart == \A s, t \in Statements : s.name = t.sql => s.sql = t.sql

\* A statement that was validated runs, and runs its own SQL: on the connection that prepared
\* it and on those that did not, beside names prepared there for other SQL, and after
\* connections were replaced ("avoiding the cross-connection named-statement mismatch",
\* prepared.go:49-51).
ValidatedRuns == \A r \in ran : r.validated => r.got = r.asked.sql

================================================================================
