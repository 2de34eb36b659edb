-------------------------------- MODULE Sessions --------------------------------
(***************************************************************************)
(* Packages driver/pgx and driver/sql: transactions and queries of several *)
(* goroutines ("clients") over one pool of connections.                    *)
(*                                                                         *)
(* Transaction takes a connection, runs the callback, and commits or rolls *)
(* back.  Calls on the DB, from within a callback too, take a connection   *)
(* of their own; rows keep theirs until they are scanned.  The pool, the   *)
(* driver and the server are modelled as these packages use them.          *)
(***************************************************************************)
EXTENDS Integers

CONSTANTS
    Clients,     \* goroutines that use the DB
    Conns,       \* connections
    Writes,      \* writes that may be executed, each once
    Loads        \* settings: the driver, its pool and the bounds under which they are used

Nobody  == "nobody"    \* an idle connection
Leaked  == "leaked"    \* held by a transaction that nobody will end
Watched == "watched"   \* held until database/sql's goroutine rolls back

\* Bounds: on the calls of each client on the DB, on faults (server errors, lost answers,
\* broken connections, ended contexts), on callbacks that panic and on prepared statements.
LoadType == [driver : {"pgx", "sql"}, pool : SUBSET Conns, calls : [Clients -> Nat],
             faults : Nat, panics : Nat, statements : Nat]

ASSUME SessionsAssumption ==
    /\ Clients \cap {Nobody, Leaked, Watched} = {}
    /\ Loads \subseteq LoadType

VARIABLES
    stage,     \* of each client: "out", or where its call of Transaction is
    live,      \* clients whose call has a context that has not ended
    waits,     \* what it waits for a connection of the pool to do
    sent,      \* writes its last transaction sent
    acked,     \* those that were acknowledged
    outcome,   \* how its last transaction returned
    left,      \* calls it may still make
    owner,     \* of each connection: who holds it
    tx,        \* "idle", or the state of the transaction on it
    pending,   \* writes the transaction will commit
    rows,      \* connections from which a result is still being read
    data,      \* committed writes
    unused,    \* writes not yet executed
    load,      \* the setting
    faults, panics

clientVars == <<stage, live, waits, sent, acked, outcome, left>>
poolVars   == <<owner, tx, pending, rows>>
bounds     == <<load, faults, panics>>
vars       == <<clientVars, poolVars, data, unused, bounds>>

Init ==
    /\ stage = [c \in Clients |-> "out"]
    /\ live = Clients
    /\ waits = [c \in Clients |-> ""]
    /\ sent = [c \in Clients |-> {}]
    /\ acked = [c \in Clients |-> {}]
    /\ outcome = [c \in Clients |-> "none"]
    /\ load \in Loads
    /\ left = load.calls
    /\ owner = [k \in Conns |-> Nobody]
    /\ tx = [k \in Conns |-> "idle"]
    /\ pending = [k \in Conns |-> {}]
    /\ rows = {}
    /\ data = {}
    /\ unused = Writes
    /\ faults = 0
    /\ panics = 0

--------------------------------------------------------------------------------
(* The pool                                                                  *)

Idle(k)      == k \in load.pool /\ owner[k] = Nobody
InTx(c, k)   == owner[k] = c /\ tx[k] # "idle"     \* the connection of its transaction
Reading(c, k) == owner[k] = c /\ tx[k] = "idle"    \* one of its rows, outside a transaction
NotReading(c) == \A k \in Conns : ~Reading(c, k)

\* A connection takes a further statement: pgx refuses it while rows are open.
Takes(k) == tx[k] = "open" /\ (k \in rows => load.driver = "sql")

\* The connections go back to the pool, rolled back, or closed and replaced.
Release(ks) ==
    /\ owner' = [k \in Conns |-> IF k \in ks THEN Nobody ELSE owner[k]]
    /\ tx' = [k \in Conns |-> IF k \in ks THEN "idle" ELSE tx[k]]
    /\ pending' = [k \in Conns |-> IF k \in ks THEN {} ELSE pending[k]]
    /\ rows' = rows \ ks

Fault == faults < load.faults /\ faults' = faults + 1 /\ UNCHANGED <<load, panics>>
\* The context of the call has ended, or something else fails.
FailsOrEnded(c) == IF c \in live THEN Fault ELSE UNCHANGED bounds

\* The connection breaks, and its transaction is gone.
ConnectionBreaks(k) ==
    /\ owner[k] \in Clients /\ tx[k] \in {"open", "failed"}
    /\ Fault
    /\ tx' = [tx EXCEPT ![k] = "broken"]
    /\ pending' = [pending EXCEPT ![k] = {}]
    /\ rows' = rows \ {k}
    /\ UNCHANGED <<clientVars, owner, data, unused>>

ContextEnds(c) ==
    /\ c \in live /\ (stage[c] # "out" \/ waits[c] # "")
    /\ Fault
    /\ live' = live \ {c}
    /\ UNCHANGED <<stage, waits, sent, acked, outcome, left, poolVars, data, unused>>

--------------------------------------------------------------------------------
(* Transaction                                                               *)

Returns(c, how) ==
    /\ stage' = [stage EXCEPT ![c] = "out"]
    /\ outcome' = [outcome EXCEPT ![c] = how]
    /\ UNCHANGED <<live, waits, sent, acked, left>>

Transaction(c) ==
    /\ stage[c] = "out" /\ waits[c] = "" /\ NotReading(c) /\ left[c] > 0
    /\ left' = [left EXCEPT ![c] = @ - 1]
    /\ stage' = [stage EXCEPT ![c] = "begin"]
    /\ live' = live \cup {c}
    /\ sent' = [sent EXCEPT ![c] = {}]
    /\ acked' = [acked EXCEPT ![c] = {}]
    /\ outcome' = [outcome EXCEPT ![c] = "none"]
    /\ UNCHANGED <<waits, poolVars, data, unused, bounds>>

Begin(c, k) ==
    /\ stage[c] = "begin" /\ c \in live /\ Idle(k)
    /\ owner' = [owner EXCEPT ![k] = c]
    /\ tx' = [tx EXCEPT ![k] = "open"]
    /\ stage' = [stage EXCEPT ![c] = "fn"]
    /\ UNCHANGED <<live, waits, sent, acked, outcome, left, pending, rows, data, unused, bounds>>

\* The callback does not run.
BeginFails(c) ==
    /\ stage[c] = "begin"
    /\ FailsOrEnded(c)
    /\ Returns(c, "begin error")
    /\ UNCHANGED <<poolVars, data, unused>>

\* Mutant: the callback goes on while a call of its is under way.
InCallbackAnyway(c) == stage[c] = "fn" /\ NotReading(c)
InCallback(c) == stage[c] = "fn" /\ waits[c] = "" /\ NotReading(c)

FnReturns(c, next) ==
    /\ InCallback(c)
    /\ stage' = [stage EXCEPT ![c] = next]
    /\ UNCHANGED <<live, waits, sent, acked, outcome, left, poolVars, data, unused, bounds>>

\* Nothing is deferred in Transaction: the panic passes it, and the connection stays taken.
FnPanics(c) ==
    /\ InCallback(c) /\ panics < load.panics
    /\ panics' = panics + 1
    /\ owner' = [k \in Conns |-> IF InTx(c, k) THEN Leaked ELSE owner[k]]
    /\ Returns(c, "panic")
    /\ UNCHANGED <<tx, pending, rows, data, unused, load, faults>>

CommitOk(c, k) ==
    /\ stage[c] = "commit" /\ InTx(c, k) /\ c \in live /\ Takes(k)
    /\ data' = data \cup pending[k]
    /\ Release({k})
    /\ Returns(c, "ok")
    /\ UNCHANGED <<unused, bounds>>

\* A transaction that failed or broke, an ended context, open rows, or the server says no.
\* database/sql leaves the connection of an ended context to the goroutine that watches it.
CommitRefused(c, k) ==
    /\ stage[c] = "commit" /\ InTx(c, k)
    /\ IF c \in live /\ Takes(k) THEN Fault ELSE UNCHANGED bounds
    /\ IF load.driver = "sql" /\ c \notin live
       THEN owner' = [owner EXCEPT ![k] = Watched] /\ UNCHANGED <<tx, pending, rows>>
       ELSE Release({k})
    /\ Returns(c, "commit error")
    /\ UNCHANGED <<data, unused>>

\* The server commits, its answer is lost.
CommitLost(c, k) ==
    /\ stage[c] = "commit" /\ InTx(c, k) /\ c \in live /\ Takes(k)
    /\ Fault
    /\ data' = data \cup pending[k]
    /\ Release({k})
    /\ Returns(c, "commit error")
    /\ UNCHANGED unused

\* sql.ErrTxDone: the transaction was rolled back when its context ended.
CommitTooLate(c) ==
    /\ stage[c] = "commit" /\ \A k \in Conns : ~InTx(c, k)
    /\ Returns(c, "commit error")
    /\ UNCHANGED <<poolVars, data, unused, bounds>>

\* Mutant: the transaction is committed although the callback failed.
RollbackCommits(c) ==
    /\ stage[c] = "rollback"
    /\ data' = data \cup UNION {pending[k] : k \in {l \in Conns : InTx(c, l)}}
    /\ Release({k \in Conns : InTx(c, k)})
    /\ Returns(c, "callback error")
    /\ UNCHANGED <<unused, bounds>>
\* Mutant: the callback's error is returned, and nothing else is done.
RollbackForgotten(c) ==
    /\ stage[c] = "rollback"
    /\ Returns(c, "callback error")
    /\ UNCHANGED <<poolVars, data, unused, bounds>>
\* Whatever Rollback answers, the callback's error is returned.
Rollback(c) ==
    /\ stage[c] = "rollback"
    /\ Release({k \in Conns : InTx(c, k)})
    /\ Returns(c, "callback error")
    /\ UNCHANGED <<data, unused, bounds>>

\* database/sql rolls back by itself once the context has ended.
AwaitDone(k) ==
    /\ load.driver = "sql"
    /\ tx[k] # "idle" /\ \/ owner[k] \in {Watched, Leaked}
                         \/ owner[k] \in Clients /\ owner[k] \notin live
    /\ Release({k})
    /\ UNCHANGED <<clientVars, data, unused, bounds>>

--------------------------------------------------------------------------------
(* Methods of Tx                                                             *)

Execute(c, k, w) ==
    /\ InCallback(c) /\ InTx(c, k) /\ c \in live /\ Takes(k) /\ w \in unused
    /\ unused' = unused \ {w}
    /\ sent' = [sent EXCEPT ![c] = @ \cup {w}]
    /\ UNCHANGED <<stage, live, waits, outcome, left, owner, data>>

\* Mutant: Tx executes on the pool instead of on its transaction.
TxExecOnPool(c, k, w) ==
    /\ InCallback(c) /\ InTx(c, k) /\ c \in live /\ w \in unused
    /\ unused' = unused \ {w}
    /\ sent' = [sent EXCEPT ![c] = @ \cup {w}]
    /\ acked' = [acked EXCEPT ![c] = @ \cup {w}]
    /\ data' = data \cup {w}
    /\ UNCHANGED <<stage, live, waits, outcome, left, poolVars, bounds>>
TxExec(c, k, w) ==
    /\ Execute(c, k, w)
    /\ pending' = [pending EXCEPT ![k] = @ \cup {w}]
    /\ acked' = [acked EXCEPT ![c] = @ \cup {w}]
    /\ UNCHANGED <<tx, rows, bounds>>

\* The write may have been executed, and the connection is gone.
TxExecLost(c, k, w) ==
    /\ Execute(c, k, w)
    /\ Fault
    /\ tx' = [tx EXCEPT ![k] = "broken"]
    /\ pending' = [pending EXCEPT ![k] = {}]
    /\ rows' = rows \ {k}
    /\ UNCHANGED acked

\* A failed statement: PostgreSQL aborts the transaction with it, which MySQL and SQLite do not.
TxExecFails(c, k) ==
    /\ InCallback(c) /\ InTx(c, k) /\ c \in live /\ Takes(k) /\ load.driver = "pgx"
    /\ Fault
    /\ tx' = [tx EXCEPT ![k] = "failed"]
    /\ UNCHANGED <<clientVars, owner, pending, rows, data, unused>>

\* MySQL and SQLite roll back the transaction with a few errors (a deadlock, a full disk), and
\* would answer its COMMIT with success: the callback is taken to return such an error.
TxRolledBack(c, k) ==
    /\ InCallback(c) /\ InTx(c, k) /\ c \in live /\ Takes(k) /\ load.driver = "sql"
    /\ Fault
    /\ tx' = [tx EXCEPT ![k] = "failed"]
    /\ pending' = [pending EXCEPT ![k] = {}]
    /\ rows' = rows \ {k}
    /\ stage' = [stage EXCEPT ![c] = "rollback"]
    /\ UNCHANGED <<live, waits, sent, acked, outcome, left, owner, data, unused>>

TxQuery(c, k) ==
    /\ InCallback(c) /\ InTx(c, k) /\ c \in live /\ tx[k] = "open" /\ k \notin rows
    /\ rows' = rows \cup {k}
    /\ UNCHANGED <<clientVars, owner, tx, pending, data, unused, bounds>>

\* ScanAll, ScanOne and ScanOneOpt close the rows, whatever they return.
TxScan(c, k) ==
    /\ InCallback(c) /\ InTx(c, k) /\ k \in rows
    /\ rows' = rows \ {k}
    /\ UNCHANGED <<clientVars, owner, tx, pending, data, unused, bounds>>

--------------------------------------------------------------------------------
(* Methods of DB, outside a transaction or beside one                        *)

Ask(c, what) ==
    /\ stage[c] \in {"out", "fn"} /\ waits[c] = "" /\ NotReading(c) /\ left[c] > 0
    /\ left' = [left EXCEPT ![c] = @ - 1]
    /\ waits' = [waits EXCEPT ![c] = what]
    /\ live' = IF stage[c] = "out" THEN live \cup {c} ELSE live
    /\ UNCHANGED <<stage, sent, acked, outcome, poolVars, data, unused, bounds>>

Served(c) ==
    /\ waits' = [waits EXCEPT ![c] = ""]
    /\ UNCHANGED <<stage, live, sent, acked, outcome, left>>

\* Takes a connection, executes, and gives it back; the write commits by itself (one
\* that was executed before changes nothing).
Exec(c, k, w) ==
    /\ waits[c] = "exec" /\ c \in live /\ Idle(k)
    /\ data' = data \cup ({w} \cap unused)
    /\ unused' = unused \ {w}
    /\ Served(c)
    /\ UNCHANGED <<poolVars, bounds>>

Query(c, k) ==
    /\ waits[c] = "query" /\ c \in live /\ Idle(k)
    /\ owner' = [owner EXCEPT ![k] = c]
    /\ rows' = rows \cup {k}
    /\ Served(c)
    /\ UNCHANGED <<tx, pending, data, unused, bounds>>

AskFails(c) ==
    /\ waits[c] # ""
    /\ FailsOrEnded(c)
    /\ Served(c)
    /\ UNCHANGED <<poolVars, data, unused>>

\* Mutant: the rows are read, but not closed.
ScanKeepsRows(c, k) ==
    /\ Reading(c, k)
    /\ owner' = [owner EXCEPT ![k] = Leaked]
    /\ UNCHANGED <<clientVars, tx, pending, rows, data, unused, bounds>>
\* The second half of FromSelect, FromSelectOne and FromSelectOpt.
Scan(c, k) ==
    /\ Reading(c, k)
    /\ Release({k})
    /\ UNCHANGED <<clientVars, data, unused, bounds>>

--------------------------------------------------------------------------------

OfTransaction(c) ==
    \/ Transaction(c) \/ BeginFails(c) \/ FnPanics(c) \/ CommitTooLate(c) \/ Rollback(c)
    \/ \E next \in {"commit", "rollback"} : FnReturns(c, next)
    \/ \E k \in Conns : Begin(c, k) \/ CommitOk(c, k) \/ CommitRefused(c, k) \/ CommitLost(c, k)
OfTx(c) ==
    \E k \in Conns : \/ TxExecFails(c, k) \/ TxRolledBack(c, k) \/ TxQuery(c, k) \/ TxScan(c, k)
                     \/ \E w \in Writes : TxExec(c, k, w) \/ TxExecLost(c, k, w)
OfDB(c) ==
    \/ AskFails(c) \/ \E what \in {"exec", "query"} : Ask(c, what)
    \/ \E k \in Conns : Query(c, k) \/ Scan(c, k) \/ \E w \in Writes : Exec(c, k, w)

Next ==
    \/ \E c \in Clients : OfTransaction(c) \/ OfTx(c) \/ OfDB(c) \/ ContextEnds(c)
    \/ \E k \in Conns : ConnectionBreaks(k) \/ AwaitDone(k)

\* Callbacks return and rows are scanned; the pool hands out what is free; the driver
\* answers, at the latest when the context has ended; database/sql watches the contexts.
Proceeds(c) ==
    \/ CommitTooLate(c) \/ Rollback(c) \/ \E next \in {"commit", "rollback"} : FnReturns(c, next)
    \/ \E k \in Conns : \/ Begin(c, k) \/ CommitOk(c, k) \/ CommitRefused(c, k)
                        \/ Query(c, k) \/ Scan(c, k) \/ \E w \in Writes : Exec(c, k, w)
    \/ c \notin live /\ (BeginFails(c) \/ AskFails(c))
Watches == \E k \in Conns : owner[k] # Leaked /\ AwaitDone(k)

Fairness == (\A c \in Clients : WF_vars(Proceeds(c))) /\ WF_vars(Watches)

Spec == Init /\ [][Next]_vars /\ Fairness

--------------------------------------------------------------------------------
(* Properties                                                                *)

\* Type correctness; and a client waits for the pool only outside Transaction or in its callback.
TypeOK ==
    /\ \A c \in Clients : waits[c] # "" => stage[c] \in {"out", "fn"}
    /\ stage \in [Clients -> {"out", "begin", "fn", "commit", "rollback"}]
    /\ live \subseteq Clients
    /\ waits \in [Clients -> {"", "exec", "query"}]
    /\ sent \in [Clients -> SUBSET Writes]
    /\ acked \in [Clients -> SUBSET Writes]
    /\ outcome \in [Clients -> {"none", "ok", "begin error", "callback error", "commit error", "panic"}]
    /\ load \in Loads
    /\ left \in [Clients -> Nat]
    /\ owner \in [Conns -> Clients \cup {Nobody, Leaked, Watched}]
    /\ tx \in [Conns -> {"idle", "open", "failed", "broken"}]
    /\ pending \in [Conns -> SUBSET Writes]
    /\ rows \subseteq Conns
    /\ data \in SUBSET Writes
    /\ unused \in SUBSET Writes
    /\ faults \in Nat /\ panics \in Nat

\* What the last transaction of c has told of its writes.
Truthful(c) ==
    /\ outcome[c] = "ok" => acked[c] = sent[c] /\ sent[c] \subseteq data
    /\ outcome[c] = "commit error" => sent[c] \subseteq data \/ sent[c] \cap data = {}
    /\ outcome[c] \notin {"ok", "commit error"} => sent[c] \cap data = {}
\* What Transaction returns is what happened: nil means that all the callback's writes are
\* committed, an error of Begin or of the callback (or a panic) that none is, an error of
\* Commit that all are or none (docs/spec/transactions.md, error precedence); and none is
\* visible before.
TransactionAtomic == \A c \in Clients : Truthful(c)

\* The pool never hands out a connection that carries something of its last user, whichever
\* way a call ended; a client outside the callback holds no transaction, and none holds two.
\* Only a panic loses a connection.
PoolClean ==
    /\ \A k \in Conns : owner[k] = Nobody => tx[k] = "idle" /\ pending[k] = {} /\ k \notin rows
    /\ \A c \in Clients, k \in Conns : InTx(c, k) =>
          /\ stage[c] \in {"fn", "commit", "rollback"}
          /\ \A other \in Conns : InTx(c, other) => other = k
    /\ \A k \in Conns : owner[k] = Leaked => panics > 0

\* Committed data grows by the writes of one transaction, all of them at once and while its
\* Transaction commits, or by one write that was executed outside (Transaction, Exec).
WritesTogether ==
    [][/\ data \subseteq data'
       /\ data' # data =>
             \/ \E c \in Clients : stage[c] = "commit" /\ data' = data \cup sent[c]
             \/ \E c \in Clients, w \in unused : waits[c] = "exec" /\ data' = data \cup {w}]_vars

\* Every call returns, if the pool has a connection more than goroutines that may hold one,
\* and than connections that panics may leak: callbacks use the DB beside their transaction
\* (Transaction, Query and Exec of DB).
CallsReturn ==
    \A c \in Clients : (stage[c] # "out" \/ waits[c] # "") ~> (stage[c] = "out" /\ waits[c] = "")

================================================================================
