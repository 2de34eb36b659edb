--------------------------------- MODULE Migrate ---------------------------------
(***************************************************************************)
(* kit.Migrate, Push, Status and DryRun run by several processes against    *)
(* one database: deployments that start together, an operator who looks at  *)
(* the status meanwhile, connections that break, processes that die and are *)
(* started again.                                                           *)
(*                                                                          *)
(* One call: create the history table, introspect in several queries (no    *)
(* transaction), diff, run the statements and insert the history row in a   *)
(* transaction, commit.  PostgreSQL and SQLite run DDL inside transactions, *)
(* holding the tables they touch (SQLite the whole database); MySQL commits *)
(* around every DDL statement.                                              *)
(***************************************************************************)
EXTENDS Naturals, Sequences, SequencesExt, FiniteSets

CONSTANTS
    Procs,       \* processes
    TableOrder,  \* the tables, in the order of sort.Strings
    Dialects,    \* among "postgres", "mysql", "sqlite"
    Declared,    \* "bare" or "qualified": table names of the schema in the code
    Calls,       \* set of choices of the call each process makes: [Procs -> mode]
    Targets,     \* set of choices of their schemas: [Procs -> Schemas]
    Starts,      \* the databases to begin with
    MaxFaults    \* bound on broken connections and crashes

VARIABLES
    dialect,  \* of the database, for good
    base,     \* the schema the database began with
    db,       \* the committed schema
    history,  \* the committed rows of _grizzle_migrations
    nextId,   \* the sequence behind their ids
    ledger,   \* whether _grizzle_migrations exists
    call,     \* the call of each process
    target,   \* the schema in its code
    pc,       \* "start", "history", "list", "read", "apply", "commit", "done", "failed"
    seen,     \* history rows it loaded (Status)
    live,     \* what it has read of the schema
    unread,   \* queries of the introspection still to be made
    todo,     \* statements still to run
    batch,    \* all its statements
    work,     \* the tables its transaction holds, as it left them
    row,      \* the history row it inserted: a set of at most one
    result,   \* "none", "current", "applied", "reported", "failed"
    faults
vars == <<dialect, base, db, history, nextId, ledger, call, target, pc, seen, live, unread,
          todo, batch, work, row, result, faults>>

--------------------------------------------------------------------------------
MaxRows == Cardinality(Procs) * (MaxFaults + 2)
Ledger == INSTANCE MigrationLedger

Tables  == Ledger!Tables
Schemas == Ledger!Schemas
Nothing == [t \in Tables |-> {}]

AutoCommits == dialect = "mysql"

\* The names under which introspection files the tables: IntrospectMySQL puts the
\* database's name before them, the others do not (for the default schema).
LiveNames == IF dialect = "mysql" THEN "qualified" ELSE "bare"

\* Mutant: as if introspection filed the tables under other names.
PlanByOtherNames(read, want) == Ledger!Diff(Nothing, want) \o Ledger!Diff(read, Nothing)

\* Diff matches tables by name: under other names every live table is to be dropped
\* and every table of the code to be created, in that order.
Plan(read, want) ==
    IF Declared = LiveNames THEN Ledger!Diff(read, want)
    ELSE Ledger!Diff(Nothing, want) \o Ledger!Diff(read, Nothing)

\* The database accepts s on a table with this content.  ADD COLUMN fails on what exists,
\* CREATE INDEX except under SQLite (IF NOT EXISTS); MySQL has no DROP INDEX IF EXISTS.
Accepts(s, content) ==
    CASE s.op \in {"create", "drop_table"} -> TRUE
      [] s.op = "add"  -> /\ content # {}
                          /\ s.what \cap content = {} \/ (s.what = {"idx"} /\ dialect = "sqlite")
      [] s.op = "drop" -> /\ content # {}
                          /\ s.what \subseteq content \/ (s.what = {"idx"} /\ dialect # "mysql")

\* What the statements of p see of a table.
Content(p, t) == IF t \in DOMAIN work[p] THEN work[p][t] ELSE db[t]
Scope(t)      == IF dialect = "sqlite" THEN Tables ELSE {t}
Held(t)       == {q \in Procs : Scope(t) \cap DOMAIN work[q] # {}}
Blockers(p)   == IF pc[p] = "apply" /\ todo[p] # <<>> THEN Held(Head(todo[p]).on) \ {p} ELSE {}

NoWork == <<>>

Modes == {"migrate", "push", "status", "dry_run"}

\* What the constants stand for.
ASSUME MigrateAssumption ==
    /\ IsFiniteSet(Procs) /\ MaxFaults \in Nat
    /\ TableOrder \in Seq(Tables)
    /\ Dialects \subseteq {"postgres", "mysql", "sqlite"} /\ Declared \in {"bare", "qualified"}
    /\ Starts \subseteq Schemas
    /\ Calls \subseteq [Procs -> Modes]
    /\ Targets \subseteq [Procs -> Schemas]

\* The statements of the rows run on the database as it began, in the order of the
\* ids, which is how loadHistory reads the rows: the schema after the first n ids.
Numbered(rows, n) == {r \in rows : r.id = n}
ReplayStates(rows) ==
    LET state[n \in 0..MaxRows] ==
            IF n = 0 THEN base
            ELSE IF Numbered(rows, n) = {} THEN state[n - 1]
            ELSE Ledger!RunAll(state[n - 1], (CHOOSE r \in Numbered(rows, n) : TRUE).stmts)
    IN  state
Replay(rows) == ReplayStates(rows)[MaxRows]

--------------------------------------------------------------------------------
Init ==
    /\ dialect \in Dialects
    /\ base \in Starts /\ db = base
    /\ history = {} /\ nextId = 1 /\ ledger = FALSE
    /\ call \in Calls /\ target \in Targets
    /\ pc = [p \in Procs |-> "start"]
    /\ seen = [p \in Procs |-> {}]
    /\ live = [p \in Procs |-> Nothing]
    /\ unread = [p \in Procs |-> {}]
    /\ todo = [p \in Procs |-> <<>>] /\ batch = [p \in Procs |-> <<>>]
    /\ work = [p \in Procs |-> NoWork]
    /\ row = [p \in Procs |-> {}]
    /\ result = [p \in Procs |-> "none"]
    /\ faults = 0

Goto(p, label) == pc' = [pc EXCEPT ![p] = label]

\* ensureMigrationsTable, outside any transaction.
Ensure(p) ==
    /\ pc[p] = "start" /\ call[p] \in {"migrate", "status"}
    /\ ledger' = TRUE
    /\ Goto(p, IF call[p] = "status" THEN "history" ELSE "list")
    /\ UNCHANGED <<dialect, base, db, history, nextId, call, target, seen, live, unread, todo, batch,
                   work, row, result, faults>>

LoadHistory(p) ==
    /\ pc[p] = "history" /\ ledger
    /\ seen' = [seen EXCEPT ![p] = history]
    /\ Goto(p, "list")
    /\ UNCHANGED <<dialect, base, db, history, nextId, ledger, call, target, live, unread, todo, batch,
                   work, row, result, faults>>

\* The first query of the introspection; Push and DryRun begin here.
ListTables(p) ==
    /\ pc[p] = "list" \/ (pc[p] = "start" /\ call[p] \in {"push", "dry_run"})
    /\ LET found == {t \in Tables : db[t] # {}}
       IN  /\ live' = [live EXCEPT ![p] = [t \in Tables |-> db[t] \cap {"table"}]]
           /\ unread' = [unread EXCEPT ![p] = found \X {"col", "idx"}]
    /\ Goto(p, "read")
    /\ UNCHANGED <<dialect, base, db, history, nextId, ledger, call, target, seen, todo, batch,
                   work, row, result, faults>>

\* The queries that follow: the columns of every listed table, then the indexes; one
\* table at a time in the order of a Go map, or all of them at once (MySQL).
Queries(p) ==
    LET columns == unread[p] \cap (Tables \X {"col"})
        turn    == IF columns # {} THEN columns ELSE unread[p]
    IN  IF dialect = "mysql" THEN {turn} ELSE {{r} : r \in turn}
Read(p) ==
    /\ pc[p] = "read" /\ unread[p] # {}
    /\ \E query \in Queries(p) :
         /\ live' = [live EXCEPT ![p] = [t \in Tables |->
                        @[t] \cup {o \in db[t] : <<t, o>> \in query}]]
         /\ unread' = [unread EXCEPT ![p] = @ \ query]
    /\ UNCHANGED <<dialect, base, db, history, nextId, ledger, call, target, pc, seen, todo, batch,
                   work, row, result, faults>>

\* Mutant: Status reads the history after it has introspected.
CompareThenLoad(p) ==
    /\ pc[p] = "read" /\ unread[p] = {}
    /\ LET stmts   == Plan(live[p], target[p])
           outcome == IF call[p] \in {"status", "dry_run"} THEN "reported"
                      ELSE IF stmts = <<>> THEN "current" ELSE "none"
       IN  /\ todo' = [todo EXCEPT ![p] = stmts]
           /\ batch' = [batch EXCEPT ![p] = stmts]
           /\ result' = [result EXCEPT ![p] = outcome]
           /\ Goto(p, IF outcome = "none" THEN "apply" ELSE "done")
    /\ seen' = [seen EXCEPT ![p] = history]
    /\ UNCHANGED <<dialect, base, db, history, nextId, ledger, call, target, live, unread,
                   work, row, faults>>

\* Diff.  Without changes the call returns before it opens a transaction.
Compare(p) ==
    /\ pc[p] = "read" /\ unread[p] = {}
    /\ LET stmts   == Plan(live[p], target[p])
           outcome == IF call[p] \in {"status", "dry_run"} THEN "reported"
                      ELSE IF stmts = <<>> THEN "current" ELSE "none"
       IN  /\ todo' = [todo EXCEPT ![p] = stmts]
           /\ batch' = [batch EXCEPT ![p] = stmts]
           /\ result' = [result EXCEPT ![p] = outcome]
           /\ Goto(p, IF outcome = "none" THEN "apply" ELSE "done")
    /\ UNCHANGED <<dialect, base, db, history, nextId, ledger, call, target, seen, live, unread,
                   work, row, faults>>

\* Mutant: the statements run on the pool, beside the transaction.
ExecuteOnPool(p) ==
    /\ pc[p] = "apply" /\ todo[p] # <<>> /\ Accepts(Head(todo[p]), db[Head(todo[p]).on])
    /\ db' = Ledger!Run(db, Head(todo[p]))
    /\ todo' = [todo EXCEPT ![p] = Tail(@)]
    /\ UNCHANGED <<dialect, base, history, nextId, ledger, call, target, pc, seen, live, unread,
                   batch, work, row, result, faults>>

\* tx.Exec of the next statement, which waits for the tables another transaction holds.
Execute(p) ==
    /\ pc[p] = "apply" /\ todo[p] # <<>> /\ Blockers(p) = {}
    /\ LET s == Head(todo[p])
       IN  /\ Accepts(s, Content(p, s.on))
           /\ IF AutoCommits
              THEN db' = Ledger!Run(db, s) /\ UNCHANGED work
              ELSE /\ work' = [work EXCEPT ![p] =
                        [t \in DOMAIN @ \cup Scope(s.on) |->
                            IF t = s.on THEN Ledger!After(s, Content(p, t)) ELSE Content(p, t)]]
                   /\ UNCHANGED db
    /\ todo' = [todo EXCEPT ![p] = Tail(@)]
    /\ UNCHANGED <<dialect, base, history, nextId, ledger, call, target, pc, seen, live, unread, batch,
                   row, result, faults>>

\* The INSERT of Migrate: under MySQL the DDL before it has ended the transaction.
Record(p) ==
    /\ pc[p] = "apply" /\ todo[p] = <<>> /\ call[p] = "migrate"
    /\ nextId <= MaxRows
    /\ LET new == {[id |-> nextId, stmts |-> batch[p]]}
       IN  IF AutoCommits THEN history' = history \cup new /\ UNCHANGED row
           ELSE row' = [row EXCEPT ![p] = new] /\ UNCHANGED history
    /\ nextId' = nextId + 1
    /\ Goto(p, "commit")
    /\ UNCHANGED <<dialect, base, db, ledger, call, target, seen, live, unread, todo, batch, work, result,
                   faults>>

\* Push commits without a row.
Finished(p) == pc[p] = "commit" \/ (pc[p] = "apply" /\ todo[p] = <<>> /\ call[p] = "push")

\* The server commits; answer is what the caller gets.
Publish(p, label, answer) ==
    /\ db' = [t \in Tables |-> Content(p, t)]
    /\ history' = history \cup row[p]
    /\ work' = [work EXCEPT ![p] = NoWork]
    /\ row' = [row EXCEPT ![p] = {}]
    /\ result' = [result EXCEPT ![p] = answer]
    /\ Goto(p, label)

Commit(p) ==
    /\ Finished(p)
    /\ Publish(p, "done", "applied")
    /\ UNCHANGED <<dialect, base, nextId, ledger, call, target, seen, live, unread, todo, batch, faults>>

\* The commit goes through, its answer does not.
CommitUnanswered(p) ==
    /\ Finished(p) /\ faults < MaxFaults
    /\ Publish(p, "failed", "failed")
    /\ faults' = faults + 1
    /\ UNCHANGED <<dialect, base, nextId, ledger, call, target, seen, live, unread, todo, batch>>

\* Mutant: the transaction is left open.
GiveUpWithoutRollback(p) ==
    /\ result' = [result EXCEPT ![p] = "failed"]
    /\ Goto(p, "failed")
    /\ UNCHANGED <<dialect, base, db, history, nextId, ledger, call, target, seen, live, unread,
                   todo, batch, work, row>>

\* Mutant: the transaction is rolled back and no error returned.
GiveUpSilently(p) ==
    /\ work' = [work EXCEPT ![p] = NoWork]
    /\ row' = [row EXCEPT ![p] = {}]
    /\ result' = [result EXCEPT ![p] = "applied"]
    /\ Goto(p, "done")
    /\ UNCHANGED <<dialect, base, db, history, nextId, ledger, call, target, seen, live, unread,
                   todo, batch>>

\* tx.Rollback, or the server dropping a broken connection.
GiveUp(p) ==
    /\ work' = [work EXCEPT ![p] = NoWork]
    /\ row' = [row EXCEPT ![p] = {}]
    /\ result' = [result EXCEPT ![p] = "failed"]
    /\ Goto(p, "failed")
    /\ UNCHANGED <<dialect, base, db, history, nextId, ledger, call, target, seen, live, unread, todo, batch>>

\* The database refuses the statement: somebody else has been there since the read.
Refuse(p) ==
    /\ pc[p] = "apply" /\ todo[p] # <<>> /\ Blockers(p) = {}
    /\ ~Accepts(Head(todo[p]), Content(p, Head(todo[p]).on))
    /\ GiveUp(p) /\ UNCHANGED faults

\* The server ends a deadlock by failing one of the two.
Deadlock(p) ==
    /\ \E q \in Blockers(p) : p \in Blockers(q)
    /\ GiveUp(p) /\ UNCHANGED faults

\* A broken connection, a cancelled context or a crash, at any moment.
Fault(p) ==
    /\ pc[p] \notin {"done", "failed"} /\ faults < MaxFaults
    /\ GiveUp(p) /\ faults' = faults + 1

\* Mutant: the batch of the failed call is run again.
RerunBatch(p) ==
    /\ pc[p] = "failed"
    /\ Goto(p, IF batch[p] = <<>> THEN "start" ELSE "apply")
    /\ result' = [result EXCEPT ![p] = "none"]
    /\ todo' = [todo EXCEPT ![p] = batch[p]]
    /\ UNCHANGED <<dialect, base, db, history, nextId, ledger, call, target, seen, live, unread,
                   batch, work, row, faults>>

\* The call is made again, knowing nothing.
Rerun(p) ==
    /\ pc[p] = "failed"
    /\ Goto(p, "start")
    /\ result' = [result EXCEPT ![p] = "none"]
    /\ live' = [live EXCEPT ![p] = Nothing] /\ unread' = [unread EXCEPT ![p] = {}]
    /\ seen' = [seen EXCEPT ![p] = {}]
    /\ todo' = [todo EXCEPT ![p] = <<>>] /\ batch' = [batch EXCEPT ![p] = <<>>]
    /\ UNCHANGED <<dialect, base, db, history, nextId, ledger, call, target, work, row, faults>>

Step(p) ==
    \/ Ensure(p) \/ LoadHistory(p) \/ ListTables(p) \/ Read(p) \/ Compare(p)
    \/ Execute(p) \/ Record(p) \/ Commit(p) \/ Refuse(p) \/ Deadlock(p) \/ Rerun(p)

Next == \E p \in Procs : Step(p) \/ CommitUnanswered(p) \/ Fault(p)

Spec     == Init /\ [][Next]_vars
FairSpec == Spec /\ \A p \in Procs : WF_vars(Step(p))

--------------------------------------------------------------------------------
(* Properties                                                                *)

\* Types; and a transaction is open only between a process's first statement and the
\* end of its call, whichever way that ends: no failed call keeps tables locked.
TypeOK ==
    /\ db \in Schemas
    /\ \A r \in history : r.id \in 1..(nextId - 1)
    /\ \A p \in Procs :
         /\ DOMAIN work[p] \subseteq Tables /\ \A t \in DOMAIN work[p] : work[p][t] \in Ledger!Contents
         /\ work[p] # NoWork => ~AutoCommits /\ pc[p] \in {"apply", "commit"}
         /\ pc[p] = "commit" => todo[p] = <<>>
         /\ live[p] \in Schemas
         /\ result[p] # "none" => pc[p] \in {"done", "failed"}

SameTarget == \A p, q \in Procs : target[p] = target[q]
NoPush     == \A p \in Procs : call[p] # "push"

\* The statements of the recorded migrations, run again in the order of their ids on
\* the database as it began, give the database: no DDL without its row, no row
\* without its DDL, and ids in an order that tells what happened ("oldest first"),
\* whoever ran beside whom.  (applyWithHistory, "all in a single transaction so they
\* succeed or fail together")
HistoryExplainsSchema == NoPush => Replay(history) = db

\* Among processes of one program version, a call that reports success, AlreadyCurrent
\* or not, leaves the schema of the code, although it looked at the database in
\* pieces and long before.  (MigrateResult, PushResult)
SuccessMeansCurrent ==
    [][SameTarget => \A p \in Procs :
         result[p] = "none" /\ result'[p] \in {"current", "applied"} => db' = target[p]]_vars

\* Once the database has the schema of the code no call changes it any more: those
\* under way run into what is there, those that begin find nothing to do.  ("Calling
\* Migrate twice with an unchanged schema is a no-op")
StaysCurrent ==
    [][SameTarget => \A p \in Procs : db = target[p] => db' = target[p]]_vars

\* Status lists no pending statement that the history it lists has already run: the
\* history is loaded first.  (Status)
StatusConsistent ==
    SameTarget /\ NoPush =>
        \A p \in Procs : call[p] = "status" /\ result[p] = "reported" =>
            ToSet(todo[p]) \subseteq ToSet(Ledger!Diff(Replay(seen[p]), target[p]))

\* Every committed transaction is one whole batch, run on the database as it was at
\* the commit, and its row.
ImplementsLedger == Ledger!Spec

\* Calls that fail are made again; when connections stop breaking, the database
\* reaches the schema of the code and keeps it, also where every statement commits
\* by itself and a failed call leaves half of its work behind.
RetriesConverge ==
    \A p \in Procs : SameTarget /\ call[p] \in {"migrate", "push"} => <>[](db = target[p])

================================================================================
