---------------------------- MODULE MigrateAgreement -----------------------------
(***************************************************************************)
(* Proofs about processes of one program version, that is, with one schema   *)
(* in their code: what a call that reports success leaves, that a database   *)
(* with that schema keeps it, and what Status lists.                         *)
(*                                                                           *)
(* The argument is about single objects (the table, its column, its index).  *)
(* Once an object is there exactly if the code wants it, no statement that   *)
(* the database accepts changes that, whoever planned it and on however old  *)
(* a picture of the schema.                                                  *)
(***************************************************************************)
EXTENDS MigrateProofs

\* Introspection and code name the tables alike.
NamesMatch == \A d \in Dialects : Declared = IF d = "mysql" THEN "qualified" ELSE "bare"

\* From content c a table has come to content e, where the code wants w: what was right
\* still is, and a table created since is there with all but its index.
Right(c, w, o)   == o \in c <=> o \in w
Whole(c, w)      == c = {} \/ w \ {"idx"} \subseteq c
Further(c, e, w) ==
    /\ \A o \in Ledger!Objects : Right(c, w, o) => Right(e, w, o)
    /\ Whole(c, w) => Whole(e, w)

\* What a statement sees to.
Covered(s)        == IF s.op = "drop_table" THEN Ledger!Objects ELSE s.what
Achieved(s, c, w) == \A o \in Covered(s) : Right(c, w, o)

\* The tables a transaction holds are further than their committed contents.
Ahead ==
    \A p \in Procs : \A t \in DOMAIN work[p] : Further(db[t], work[p][t], target[p][t])

\* p has looked at the schema.
Looked(p) == pc[p] \in {"read"} \cup Open

\* What a process found right is right, as far as it has read.
FoundRight(p) ==
    Looked(p) => \A t \in Tables, o \in Ledger!Objects :
      <<t, o>> \notin unread[p] /\ Right(live[p][t], target[p][t], o)
        => Right(db[t], target[p][t], o)

\* A table it did not find is whole, if somebody has created it since.
MissedWhole(p) ==
    Looked(p) => \A t \in Tables : live[p][t] = {} => Whole(db[t], target[p][t])

\* Every statement it has run has had its effect, and the effect lasts.
EffectsLast(p) ==
    pc[p] \in Open =>
      /\ unread[p] = {}
      /\ \A i \in 1..Executed(p) :
           Achieved(batch[p][i], Content(p, batch[p][i].on), target[p][batch[p][i].on])

Agrees(p) == FoundRight(p) /\ MissedWhole(p) /\ EffectsLast(p)

AgreementInv ==
    /\ HistoryInv /\ Declared = LiveNames /\ Ahead
    /\ SameTarget => \A p \in Procs : Agrees(p)

\* What Status loaded of the history, run again: the schema at that time.
Loaded(p) == Replay(seen[p])

\* What Status has read, too, is further than what it loaded.
ReadFurther(p) ==
    \A t \in Tables :
      /\ \A o \in Ledger!Objects :
           <<t, o>> \notin unread[p] /\ Right(Loaded(p)[t], target[p][t], o)
             => Right(live[p][t], target[p][t], o)
      /\ <<t, "col">> \notin unread[p] /\ Loaded(p)[t] = {} /\ target[p][t] # {} /\ live[p][t] # {}
           => target[p][t] \ {"idx"} \subseteq live[p][t]

\* Between loading the history and comparing, the database only gets further.
Behind(p) ==
    /\ Loaded(p) \in Schemas
    /\ \A t \in Tables : Further(Loaded(p)[t], db[t], target[p][t])
    /\ pc[p] = "read" => ReadFurther(p)

StatusBehind == \A p \in Procs : call[p] = "status" /\ pc[p] \in {"list", "read"} => Behind(p)

StatusInv ==
    AgreementInv /\ (SameTarget /\ NoPush /\ ~AutoCommits => StatusBehind /\ StatusConsistent)

--------------------------------------------------------------------------------
(* One statement                                                              *)

\* Nothing is further than itself, and further is transitive.
LEMMA FurtherOrder ==
    /\ \A c, w : Further(c, c, w)
    /\ \A c, d, e, w : Further(c, d, w) /\ Further(d, e, w) => Further(c, e, w)
BY DEF Further

\* A planned statement that the database accepts makes nothing wrong that was right.
LEMMA AcceptedFurther ==
    ASSUME NEW read \in Schemas, NEW want \in Schemas, NEW s \in Changes(read, want),
           NEW c \in Ledger!Contents, Accepts(s, c)
    PROVE  Further(c, Ledger!After(s, c), want[s.on])
<1> DEFINE w == want[s.on]
<1>1. s \in Statements /\ s.on \in Tables
  BY StatementForms DEF Changes
<1>2. w \in Ledger!Contents /\ read[s.on] \in Ledger!Contents
  BY <1>1 DEF Schemas, Tables, Ledger!Schemas
<1>3. CASE s.op = "create"
  <2>1. s.what = w \ {"idx"} /\ w # {}
    BY <1>3 DEF Changes
  <2>2. Ledger!After(s, c) = IF c = {} THEN s.what ELSE c
    BY <1>3 DEF Ledger!After
  <2> QED BY <1>2, <2>1, <2>2 DEF Further, Right, Whole
<1>4. CASE s.op = "add"
  <2>1. s.what \subseteq w /\ c # {}
    BY <1>4 DEF Changes, Accepts
  <2>2. Ledger!After(s, c) = c \cup s.what
    BY <1>4 DEF Ledger!After
  <2> QED BY <1>2, <2>1, <2>2 DEF Further, Right, Whole
<1>5. CASE s.op = "drop"
  <2>1. s.what \cap w = {} /\ c # {}
    BY <1>5 DEF Changes, Accepts
  <2>2. Ledger!After(s, c) = c \ s.what
    BY <1>5 DEF Ledger!After
  <2> QED BY <1>2, <2>1, <2>2 DEF Further, Right, Whole
<1>6. CASE s.op = "drop_table"
  <2>1. w = {}
    BY <1>6 DEF Changes
  <2>2. Ledger!After(s, c) = {}
    BY <1>6 DEF Ledger!After
  <2> QED BY <2>1, <2>2 DEF Further, Right, Whole
<1> QED BY <1>1, <1>3, <1>4, <1>5, <1>6, StatementForms

\* It also has its effect, if a table to be created is whole where it exists already.
LEMMA AcceptedAchieves ==
    ASSUME NEW read \in Schemas, NEW want \in Schemas, NEW s \in Changes(read, want),
           NEW c \in Ledger!Contents, Accepts(s, c),
           read[s.on] = {} => Whole(c, want[s.on])
    PROVE  Achieved(s, Ledger!After(s, c), want[s.on])
<1> DEFINE w == want[s.on]
<1>1. s \in Statements /\ s.on \in Tables
  BY StatementForms DEF Changes
<1>3. CASE s.op = "create"
  <2>1. s.what = w \ {"idx"} /\ (c # {} => w \ {"idx"} \subseteq c)
    BY <1>3 DEF Changes, Whole
  <2>2. Ledger!After(s, c) = IF c = {} THEN s.what ELSE c
    BY <1>3 DEF Ledger!After
  <2> QED BY <1>3, <2>1, <2>2 DEF Achieved, Right, Covered
<1>4. CASE s.op = "add"
  <2>1. s.what \subseteq w
    BY <1>4 DEF Changes
  <2>2. Ledger!After(s, c) = c \cup s.what
    BY <1>4 DEF Ledger!After
  <2> QED BY <1>4, <2>1, <2>2 DEF Achieved, Right, Covered
<1>5. CASE s.op = "drop"
  <2>1. s.what \cap w = {}
    BY <1>5 DEF Changes
  <2>2. Ledger!After(s, c) = c \ s.what
    BY <1>5 DEF Ledger!After
  <2> QED BY <1>5, <2>1, <2>2 DEF Achieved, Right, Covered
<1>6. CASE s.op = "drop_table"
  <2>1. w = {} /\ Ledger!After(s, c) = {}
    BY <1>6 DEF Changes, Ledger!After
  <2> QED BY <2>1 DEF Achieved, Right
<1> QED BY <1>1, <1>3, <1>4, <1>5, <1>6, StatementForms

\* An effect lasts.
LEMMA AchievedLasts ==
    ASSUME NEW s \in Statements, NEW c, NEW e, NEW w, Achieved(s, c, w), Further(c, e, w)
    PROVE  Achieved(s, e, w)
<1>1. Covered(s) \subseteq Ledger!Objects
  BY StatementForms DEF Covered
<1> QED BY <1>1 DEF Achieved, Further

\* Whatever is not as the code wants it, some statement of the plan sees to.
LEMMA PlanCovers ==
    ASSUME NEW read \in Schemas, NEW want \in Schemas, NEW t \in Tables, NEW o \in Ledger!Objects,
           ~Right(read[t], want[t], o)
    PROVE  \E s \in Changes(read, want) : s.on = t /\ o \in Covered(s)
<1> DEFINE r == read[t]
           w == want[t]
<1>1. r \in Ledger!Contents /\ w \in Ledger!Contents
  BY DEF Schemas, Tables, Ledger!Schemas
<1>2. CASE r = {} /\ w # {}
  <2> DEFINE a == [op |-> "create", on |-> t, what |-> w \ {"idx"}]
             b == [op |-> "add", on |-> t, what |-> {"idx"}]
  <2>1. a \in Changes(read, want)
    BY <1>1, <1>2 DEF Changes, Statements, Ledger!Contents, Ledger!Objects
  <2>2. "idx" \in w => b \in Changes(read, want)
    BY <1>2 DEF Changes, Statements, Singles
  <2>3. o \in w
    BY <1>2 DEF Right
  <2>4. CASE o = "idx"
    <3>1. b.on = t /\ o \in Covered(b)
      BY <2>4 DEF Covered
    <3> QED BY <2>2, <2>3, <2>4, <3>1
  <2>5. CASE o # "idx"
    <3>1. a.on = t /\ o \in Covered(a)
      BY <2>3, <2>5 DEF Covered
    <3> QED BY <2>1, <3>1
  <2> QED BY <2>4, <2>5
<1>3. CASE r # {} /\ w # {}
  <2>1. o \in {"col", "idx"}
    BY <1>1, <1>3 DEF Right, Ledger!Contents, Ledger!Objects
  <2> DEFINE a == [op |-> "add", on |-> t, what |-> {o}]
             b == [op |-> "drop", on |-> t, what |-> {o}]
  <2>2. CASE o \in w \ r
    <3>1. a \in Changes(read, want)
      BY <1>3, <2>1, <2>2 DEF Changes, Statements, Singles
    <3>2. a.on = t /\ o \in Covered(a)
      BY DEF Covered
    <3> QED BY <3>1, <3>2
  <2>3. CASE o \in r \ w
    <3>1. b \in Changes(read, want)
      BY <1>3, <2>1, <2>3 DEF Changes, Statements, Singles
    <3>2. b.on = t /\ o \in Covered(b)
      BY DEF Covered
    <3> QED BY <3>1, <3>2
  <2> QED BY <2>2, <2>3 DEF Right
<1>4. CASE w = {}
  <2> DEFINE a == [op |-> "drop_table", on |-> t, what |-> {}]
  <2>1. r # {}
    BY <1>4 DEF Right
  <2>2. a \in Changes(read, want)
    BY <1>4, <2>1 DEF Changes, Statements
  <2>3. a.on = t /\ o \in Covered(a)
    BY DEF Covered
  <2> QED BY <2>2, <2>3
<1> QED BY <1>2, <1>3, <1>4


--------------------------------------------------------------------------------
(* One step                                                                   *)

\* The statements of a batch are changes between what its process read and wants.
LEMMA BatchChanges ==
    ASSUME HistoryInv, Declared = LiveNames, NEW p \in Procs, pc[p] \in Open
    PROVE  /\ batch[p] = Ledger!Diff(live[p], target[p])
           /\ live[p] \in Schemas /\ target[p] \in Schemas
           /\ \A i \in 1..Len(batch[p]) : batch[p][i] \in Changes(live[p], target[p])
           /\ Changes(live[p], target[p]) \subseteq ToSet(batch[p])
<1>1. batch[p] = Ledger!Diff(live[p], target[p])
  BY DEF HistoryInv, LedgerInv, Planned, Plan
<1>2. live[p] \in Schemas /\ target[p] \in Schemas
  BY DEF HistoryInv, LedgerInv, Inv, Typed
<1> DEFINE C == Changes(live[p], target[p])
<1>3. batch[p] \in Seq(C) /\ C \subseteq ToSet(batch[p])
  BY <1>1, <1>2, DiffChanges
<1> HIDE DEF C
<1>4. \A i \in 1..Len(batch[p]) : batch[p][i] \in C
  BY <1>3
<1> QED BY <1>1, <1>2, <1>3, <1>4 DEF C

\* What a transaction sees is further than what is committed.
LEMMA ContentFurther ==
    ASSUME AgreementInv, NEW p \in Procs, NEW t \in Tables
    PROVE  Further(db[t], Content(p, t), target[p][t])
BY FurtherOrder DEF AgreementInv, Ahead, Content

\* The statement a process runs next is accepted by what it sees, and takes it further.
LEMMA ExecuteFurther ==
    ASSUME AgreementInv, NEW p \in Procs, Execute(p)
    PROVE  LET s == Head(todo[p])
               c == Content(p, s.on)
           IN  /\ s \in Changes(live[p], target[p]) /\ s \in Statements /\ s.on \in Tables
               /\ c \in Ledger!Contents /\ Accepts(s, c)
               /\ Further(c, Ledger!After(s, c), target[p][s.on])
               /\ s = batch[p][Executed(p) + 1] /\ Executed(p) \in Nat
               /\ Executed(p)' = Executed(p) + 1
<1> DEFINE s == Head(todo[p])
<1>0. HistoryInv /\ Inv /\ Typed /\ Declared = LiveNames
  BY DEF AgreementInv, HistoryInv, LedgerInv, Inv
<1>1. /\ pc[p] = "apply" /\ pc[p] \in Open /\ todo[p] # <<>> /\ Accepts(s, Content(p, s.on))
      /\ todo' = [todo EXCEPT ![p] = Tail(todo[p])] /\ batch' = batch
  BY <1>0, ExecuteStep DEF Open
<1>2. /\ Len(batch[p]) \in Nat /\ Len(todo[p]) \in Nat /\ Len(todo[p]) <= Len(batch[p])
      /\ todo[p] \in Seq(Statements)
  BY <1>0, <1>1, Counting DEF HistoryInv
<1>3. /\ Len(todo[p]) # 0 /\ Len(Tail(todo[p])) = Len(todo[p]) - 1 /\ s = todo[p][1]
      /\ 1 \in 1..Len(todo[p])
  BY <1>1, <1>2, TailFacts
<1>4. todo'[p] = Tail(todo[p])
  BY <1>0, <1>1 DEF Typed
<1>5. /\ Executed(p) \in Nat /\ Executed(p)' = Executed(p) + 1
      /\ Executed(p) + 1 \in 1..Len(batch[p])
  <2> DEFINE b == Len(batch[p])
             k == Len(todo[p])
  <2>1. /\ b \in Nat /\ k \in Nat /\ k # 0 /\ k <= b
        /\ Executed(p) = b - k /\ Executed(p)' = b - (k - 1)
    BY <1>1, <1>2, <1>3, <1>4 DEF Executed
  <2> HIDE DEF b, k
  <2>2. Executed(p) \in Nat /\ Executed(p)' = Executed(p) + 1 /\ Executed(p) + 1 \in 1..b
    BY <2>1
  <2> QED BY <2>2 DEF b
<1>6. s = batch[p][Executed(p) + 1]
  BY <1>0, <1>1, <1>3 DEF HistoryInv, LedgerInv, Planned
<1>7. s \in Changes(live[p], target[p]) /\ live[p] \in Schemas /\ target[p] \in Schemas
  BY <1>0, <1>1, <1>5, <1>6, BatchChanges
<1> HIDE DEF s
<1>8. s \in Statements /\ s.on \in Tables
  BY <1>7, StatementForms DEF Changes
<1>9. Content(p, s.on) \in Ledger!Contents
  BY <1>0, <1>8, ContentType
<1>10. Further(Content(p, s.on), Ledger!After(s, Content(p, s.on)), target[p][s.on])
  BY <1>1, <1>7, <1>9, AcceptedFurther
<1> QED BY <1>1, <1>5, <1>6, <1>7, <1>8, <1>9, <1>10 DEF s

\* A step of p, of whichever kind.
Moves(p) == Step(p) \/ CommitUnanswered(p) \/ Fault(p)

\* What a step leaves alone.
LEMMA MovesFrame ==
    ASSUME Inv, NEW p \in Procs, Moves(p)
    PROVE  /\ UNCHANGED <<dialect, base, call, target>>
           /\ \A q \in Procs \ {p} :
                /\ pc'[q] = pc[q] /\ todo'[q] = todo[q] /\ batch'[q] = batch[q] /\ live'[q] = live[q]
                /\ unread'[q] = unread[q] /\ seen'[q] = seen[q] /\ work'[q] = work[q]
                /\ result'[q] = result[q]
<1>0. Typed
  BY DEF Inv
<1>1. CASE Ensure(p) \/ LoadHistory(p) \/ ListTables(p) \/ Read(p) \/ Compare(p) \/ Rerun(p)
  BY <1>0, <1>1 DEF Ensure, LoadHistory, ListTables, Read, Compare, Rerun, Goto, Typed
<1>2. CASE Execute(p)
  BY <1>0, <1>2 DEF Execute, Typed
<1>3. CASE Record(p)
  BY <1>0, <1>3 DEF Record, Goto, Typed
<1>4. CASE Commit(p) \/ CommitUnanswered(p)
  BY <1>0, <1>4 DEF Commit, CommitUnanswered, Publish, Goto, Typed
<1>5. CASE Refuse(p) \/ Deadlock(p) \/ Fault(p)
  BY <1>0, <1>5 DEF Refuse, Deadlock, Fault, GiveUp, Goto, Typed
<1> QED BY <1>1, <1>2, <1>3, <1>4, <1>5 DEF Moves, Step

\* The committed database gets further, and no table another transaction holds changes.
LEMMA MovesDatabase ==
    ASSUME AgreementInv, NEW p \in Procs, Moves(p)
    PROVE  /\ \A t \in Tables : Further(db[t], db'[t], target[p][t])
           /\ \A q \in Procs \ {p} : \A t \in DOMAIN work[q] : db'[t] = db[t]
<1>0. Inv /\ Typed
  BY DEF AgreementInv, HistoryInv, LedgerInv, Inv
<1>1. CASE db' = db
  BY <1>1, FurtherOrder
<1>2. CASE Execute(p) /\ db' # db
  <2> DEFINE s == Head(todo[p])
             c == Content(p, s.on)
  <2>1. AutoCommits
    BY <1>2 DEF Execute
  <2>2. \A q \in Procs : DOMAIN work[q] = {}
    BY <1>0, <2>1, HoldingsFacts DEF Inv, Phases
  <2>3. db' = [db EXCEPT ![s.on] = Ledger!After(s, c)]
    BY <1>0, <1>2, <2>1, ExecuteStep
  <2>4. c = db[s.on]
    BY <2>2 DEF Content
  <2>5. s.on \in Tables /\ Further(c, Ledger!After(s, c), target[p][s.on])
    BY <1>2, ExecuteFurther
  <2> HIDE DEF s, c
  <2>6. \A t \in Tables : db'[t] = IF t = s.on THEN Ledger!After(s, c) ELSE db[t]
    BY <1>0, <2>3, <2>5 DEF Typed, Schemas, Tables, Ledger!Schemas
  <2> QED BY <2>2, <2>4, <2>5, <2>6, FurtherOrder
<1>3. CASE Commit(p) \/ CommitUnanswered(p)
  <2>1. db' = [t \in Tables |-> Content(p, t)]
    BY <1>3 DEF Commit, CommitUnanswered, Publish
  <2>2. \A t \in Tables : Further(db[t], db'[t], target[p][t])
    BY <2>1, ContentFurther
  <2> QED BY <1>0, <2>1, <2>2, PublishElsewhere
<1>4. CASE \/ Ensure(p) \/ LoadHistory(p) \/ ListTables(p) \/ Read(p) \/ Compare(p) \/ Rerun(p)
           \/ Record(p) \/ Refuse(p) \/ Deadlock(p) \/ Fault(p)
  <2>1. db' = db
    BY <1>4 DEF Ensure, LoadHistory, ListTables, Read, Compare, Rerun, Record, Refuse, Deadlock, Fault,
                GiveUp
  <2> QED BY <1>1, <2>1
<1> QED BY <1>1, <1>2, <1>3, <1>4 DEF Moves, Step

\* Transactions stay ahead.
LEMMA MovesAhead ==
    ASSUME AgreementInv, NEW p \in Procs, Moves(p)
    PROVE  Ahead'
<1>0. Inv /\ Typed
  BY DEF AgreementInv, HistoryInv, LedgerInv, Inv
<1>1. target' = target /\ \A q \in Procs \ {p} : work'[q] = work[q]
  BY <1>0, MovesFrame
<1>2. \A q \in Procs \ {p} : \A t \in DOMAIN work[q] : Further(db'[t], work'[q][t], target'[q][t])
  BY <1>1, MovesDatabase DEF AgreementInv, Ahead
<1>3. \A t \in DOMAIN work'[p] : Further(db'[t], work'[p][t], target[p][t])
  <2>1. CASE Execute(p) /\ ~AutoCommits
    <3> DEFINE s == Head(todo[p])
               D == DOMAIN work[p] \cup Scope(s.on)
    <3>1. /\ db' = db /\ DOMAIN work'[p] = D
          /\ \A t \in D : work'[p][t] = IF t = s.on THEN Ledger!After(s, Content(p, s.on)) ELSE Content(p, t)
      BY <1>0, <2>1, ExecuteStep
    <3>2. work'[p] \in Holdings
      BY <1>0, <2>1, ExecuteStep
    <3>3. DOMAIN work'[p] \subseteq Tables
      BY <3>2, HoldingsFacts
    <3>4. Further(Content(p, s.on), Ledger!After(s, Content(p, s.on)), target[p][s.on]) /\ s.on \in Tables
      BY <2>1, ExecuteFurther
    <3>5. \A t \in Tables : Further(db[t], Content(p, t), target[p][t])
      BY ContentFurther
    <3> HIDE DEF s, D
    <3> QED BY <3>1, <3>3, <3>4, <3>5, FurtherOrder
  <2>2. CASE Execute(p) /\ AutoCommits
    <3>1. work'[p] = NoWork
      BY <1>0, <2>2, ExecuteStep DEF Inv, Phases
    <3> QED BY <3>1, HoldingsFacts
  <2>3. CASE Commit(p) \/ CommitUnanswered(p) \/ Refuse(p) \/ Deadlock(p) \/ Fault(p)
    <3>1. work'[p] = NoWork
      BY <1>0, <2>3 DEF Commit, CommitUnanswered, Publish, Refuse, Deadlock, Fault, GiveUp, Typed
    <3> QED BY <3>1, HoldingsFacts
  <2>4. CASE Ensure(p) \/ LoadHistory(p) \/ ListTables(p) \/ Read(p) \/ Compare(p) \/ Rerun(p) \/ Record(p)
    <3>1. work' = work /\ db' = db
      BY <2>4 DEF Ensure, LoadHistory, ListTables, Read, Compare, Rerun, Record
    <3> QED BY <3>1 DEF AgreementInv, Ahead
  <2> QED BY <2>1, <2>2, <2>3, <2>4 DEF Moves, Step
<1>4. \A q \in Procs : q = p \/ q \in Procs \ {p}
  OBVIOUS
<1> QED BY <1>1, <1>2, <1>3, <1>4 DEF Ahead


\* What its transaction sees after a statement it has run.
LEMMA ExecuteContent ==
    ASSUME AgreementInv, NEW p \in Procs, Execute(p), NEW t \in Tables
    PROVE  Content(p, t)' = IF t = Head(todo[p]).on THEN Ledger!After(Head(todo[p]), Content(p, t))
                            ELSE Content(p, t)
<1> DEFINE s == Head(todo[p])
           D == DOMAIN work[p] \cup Scope(s.on)
<1>0. Inv /\ Typed
  BY DEF AgreementInv, HistoryInv, LedgerInv, Inv
<1>1. pc[p] = "apply" /\ todo[p] # <<>> /\ Blockers(p) = {}
  BY <1>0, ExecuteStep
<1>2. s.on \in Tables /\ s.on \in Scope(s.on)
  BY <1>0, <1>1, Unblocked
<1>3. CASE AutoCommits
  <2>1. /\ db' = [db EXCEPT ![s.on] = Ledger!After(s, Content(p, s.on))] /\ work' = work
        /\ work[p] = NoWork
    BY <1>0, <1>3, ExecuteStep DEF Inv, Phases
  <2>2. \A u \in Tables : Content(p, u) = db[u] /\ Content(p, u)' = db'[u]
    BY <2>1, HoldingsFacts DEF Content
  <2> HIDE DEF s
  <2>3. db'[t] = IF t = s.on THEN Ledger!After(s, Content(p, s.on)) ELSE db[t]
    BY <1>0, <1>2, <2>1 DEF Typed, Schemas, Tables, Ledger!Schemas
  <2> QED BY <2>2, <2>3 DEF s
<1>4. CASE ~AutoCommits
  <2>1. /\ db' = db /\ DOMAIN work'[p] = D
        /\ \A u \in D : work'[p][u] = IF u = s.on THEN Ledger!After(s, Content(p, s.on)) ELSE Content(p, u)
    BY <1>0, <1>4, ExecuteStep
  <2>2. CASE t \in D
    <3>1. Content(p, t)' = work'[p][t]
      BY <2>1, <2>2 DEF Content
    <3> QED BY <2>1, <2>2, <3>1
  <2>3. CASE t \notin D
    <3>1. Content(p, t)' = db[t] /\ t # s.on
      BY <1>2, <2>1, <2>3 DEF Content
    <3>2. Content(p, t) = db[t]
      BY <2>3 DEF Content
    <3> QED BY <3>1, <3>2
  <2> QED BY <2>2, <2>3
<1> QED BY <1>3, <1>4

\* What others do keeps what a process counts on, as they want the same schema.
LEMMA OthersAgree ==
    ASSUME AgreementInv, SameTarget, NEW p \in Procs, Moves(p), NEW q \in Procs \ {p}
    PROVE  Agrees(q)'
<1>0. Inv /\ HistoryInv /\ Declared = LiveNames /\ Agrees(q)
  BY DEF AgreementInv, HistoryInv, LedgerInv
<1>1. /\ pc'[q] = pc[q] /\ todo'[q] = todo[q] /\ batch'[q] = batch[q] /\ live'[q] = live[q]
      /\ unread'[q] = unread[q] /\ work'[q] = work[q] /\ target'[q] = target[q]
  BY <1>0, MovesFrame
<1>2. target[q] = target[p]
  BY DEF SameTarget
<1>3. \A t \in Tables : Further(db[t], db'[t], target[q][t])
  BY <1>2, MovesDatabase
<1>4. FoundRight(q)'
  <2> SUFFICES ASSUME Looked(q)', NEW t \in Tables, NEW o \in Ledger!Objects,
                      <<t, o>> \notin unread'[q], Right(live'[q][t], target'[q][t], o)
               PROVE  Right(db'[t], target'[q][t], o)
    BY DEF FoundRight
  <2>1. Looked(q)
    BY <1>1 DEF Looked
  <2>2. Right(db[t], target[q][t], o)
    BY <1>0, <1>1, <2>1 DEF Agrees, FoundRight
  <2> QED BY <1>1, <1>3, <2>2 DEF Further
<1>5. MissedWhole(q)'
  <2> SUFFICES ASSUME Looked(q)', NEW t \in Tables, live'[q][t] = {}
               PROVE  Whole(db'[t], target'[q][t])
    BY DEF MissedWhole
  <2>1. Looked(q)
    BY <1>1 DEF Looked
  <2>2. Whole(db[t], target[q][t])
    BY <1>0, <1>1, <2>1 DEF Agrees, MissedWhole
  <2> QED BY <1>1, <1>3, <2>2 DEF Further
<1>6. EffectsLast(q)'
  <2>1. SUFFICES ASSUME pc'[q] \in Open
                 PROVE  /\ unread'[q] = {}
                        /\ \A i \in 1..Executed(q)' :
                             Achieved(batch[q][i], Content(q, batch[q][i].on), target[q][batch[q][i].on])'
    BY DEF EffectsLast
  <2>2. pc[q] \in Open /\ Executed(q)' = Executed(q)
    BY <1>1, <2>1 DEF Executed
  <2>3. unread[q] = {} /\ \A i \in 1..Executed(q) :
           Achieved(batch[q][i], Content(q, batch[q][i].on), target[q][batch[q][i].on])
    BY <1>0, <2>2 DEF Agrees, EffectsLast
  <2>4. \A u \in Tables : Further(Content(q, u), Content(q, u)', target[q][u])
    <3>1. ASSUME NEW u \in Tables PROVE Further(Content(q, u), Content(q, u)', target[q][u])
      <4>1. CASE u \in DOMAIN work[q]
        <5>1. Content(q, u)' = work[q][u] /\ Content(q, u) = work[q][u]
          BY <1>1, <4>1 DEF Content
        <5> QED BY <5>1, FurtherOrder
      <4>2. CASE u \notin DOMAIN work[q]
        <5>1. Content(q, u)' = db'[u] /\ Content(q, u) = db[u]
          BY <1>1, <4>2 DEF Content
        <5> QED BY <1>3, <5>1
      <4> QED BY <4>1, <4>2
    <3> QED BY <3>1
  <2>5. ASSUME NEW i \in 1..Executed(q), NEW s, s = batch[q][i]
        PROVE  Achieved(s, Content(q, s.on)', target[q][s.on])
    <3>1. Executed(q) \in 0..Len(batch[q]) /\ Len(batch[q]) \in Nat /\ batch[q] \in Seq(Statements)
      BY <1>0, <2>2, Counting DEF HistoryInv
    <3>2. i \in 1..Len(batch[q])
      BY <3>1
    <3>3. s \in Statements
      BY <2>5, <3>1, <3>2
    <3>4. s.on \in Tables
      BY <3>3, StatementForms
    <3>5. Achieved(s, Content(q, s.on), target[q][s.on])
      BY <2>3, <2>5
    <3> QED BY <2>4, <3>3, <3>4, <3>5, AchievedLasts
  <2>6. \A i \in 1..Executed(q) : Achieved(batch[q][i], Content(q, batch[q][i].on), target[q][batch[q][i].on])'
    <3>1. ASSUME NEW i \in 1..Executed(q)
          PROVE  Achieved(batch[q][i], Content(q, batch[q][i].on), target[q][batch[q][i].on])'
      <4>1. PICK s : s = batch[q][i]
        OBVIOUS
      <4>2. batch'[q][i] = s /\ target'[q][batch'[q][i].on] = target[q][s.on]
        BY <1>1, <4>1
      <4>3. Achieved(s, Content(q, s.on)', target[q][s.on])
        BY <2>5, <4>1
      <4>4. Content(q, batch[q][i].on)' = Content(q, s.on)'
        BY <4>2 DEF Content
      <4> QED BY <4>2, <4>3, <4>4 DEF Achieved
    <3> QED BY <3>1
  <2> QED BY <1>1, <2>2, <2>3, <2>6
<1> QED BY <1>4, <1>5, <1>6 DEF Agrees

\* The list of tables is right about which tables there are.
LEMMA ListTablesAgrees ==
    ASSUME AgreementInv, NEW p \in Procs, ListTables(p)
    PROVE  Agrees(p)'
<1> DEFINE found == {t \in Tables : db[t] # {}}
           heads == [t \in Tables |-> db[t] \cap {"table"}]
<1>0. Inv /\ Typed
  BY DEF AgreementInv, HistoryInv, LedgerInv, Inv
<1>1. /\ live'[p] = heads /\ unread'[p] = found \X {"col", "idx"} /\ pc'[p] = "read"
      /\ db' = db /\ target' = target
  BY <1>0 DEF ListTables, Goto, Typed
<1>2. \A t \in Tables : db[t] \in Ledger!Contents
  BY <1>0 DEF Typed, Schemas, Tables, Ledger!Schemas
<1>3. FoundRight(p)'
  <2> SUFFICES ASSUME NEW t \in Tables, NEW o \in Ledger!Objects,
                      <<t, o>> \notin unread'[p], Right(live'[p][t], target'[p][t], o)
               PROVE  Right(db'[t], target'[p][t], o)
    BY DEF FoundRight
  <2>1. o \in heads[t] <=> o \in db[t]
    BY <1>1, <1>2 DEF Ledger!Contents, Ledger!Objects
  <2> QED BY <1>1, <2>1 DEF Right
<1>4. MissedWhole(p)'
  <2> SUFFICES ASSUME NEW t \in Tables, live'[p][t] = {}
               PROVE  Whole(db'[t], target'[p][t])
    BY DEF MissedWhole
  <2>1. db[t] = {}
    BY <1>1, <1>2 DEF Ledger!Contents
  <2> QED BY <1>1, <2>1 DEF Whole
<1>5. EffectsLast(p)'
  BY <1>1 DEF EffectsLast, Open
<1> QED BY <1>3, <1>4, <1>5 DEF Agrees

\* What a query reads is what is there.
LEMMA ReadAgrees ==
    ASSUME AgreementInv, SameTarget, NEW p \in Procs, Read(p)
    PROVE  Agrees(p)'
<1>0. Inv /\ Typed /\ ReadsListed /\ Agrees(p)
  BY DEF AgreementInv, HistoryInv, LedgerInv, Inv
<1>1. PICK query \in Queries(p) :
        /\ live' = [live EXCEPT ![p] = [t \in Tables |->
                        live[p][t] \cup {o \in db[t] : <<t, o>> \in query}]]
        /\ unread' = [unread EXCEPT ![p] = unread[p] \ query]
  BY DEF Read
<1>2. query \subseteq unread[p]
  BY <1>1 DEF Queries
<1>3. /\ \A t \in Tables : live'[p][t] = live[p][t] \cup {o \in db[t] : <<t, o>> \in query}
      /\ unread'[p] = unread[p] \ query
  BY <1>0, <1>1 DEF Typed
<1>4. pc[p] = "read" /\ UNCHANGED <<db, target, pc>> /\ Looked(p)
  BY DEF Read, Looked
<1>5. FoundRight(p)'
  <2> SUFFICES ASSUME NEW t \in Tables, NEW o \in Ledger!Objects,
                      <<t, o>> \notin unread'[p], Right(live'[p][t], target'[p][t], o)
               PROVE  Right(db'[t], target'[p][t], o)
    BY DEF FoundRight
  <2>1. CASE <<t, o>> \in query
    <3>1. o \notin live[p][t]
      BY <1>0, <1>2, <2>1 DEF ReadsListed
    <3> QED BY <1>3, <1>4, <2>1, <3>1 DEF Right
  <2>2. CASE <<t, o>> \notin query
    <3>1. <<t, o>> \notin unread[p] /\ Right(live[p][t], target[p][t], o)
      BY <1>3, <1>4, <2>2 DEF Right
    <3> QED BY <1>0, <1>4, <3>1 DEF Agrees, FoundRight
  <2> QED BY <2>1, <2>2
<1>6. MissedWhole(p)'
  <2> SUFFICES ASSUME NEW t \in Tables, live'[p][t] = {}
               PROVE  Whole(db'[t], target'[p][t])
    BY DEF MissedWhole
  <2>1. live[p][t] = {}
    BY <1>3
  <2> QED BY <1>0, <1>4, <2>1 DEF Agrees, MissedWhole
<1>7. EffectsLast(p)'
  BY <1>4 DEF EffectsLast, Open
<1> QED BY <1>5, <1>6, <1>7 DEF Agrees

\* Nothing has been run yet when the batch is made.
LEMMA CompareAgrees ==
    ASSUME AgreementInv, SameTarget, NEW p \in Procs, Compare(p)
    PROVE  Agrees(p)'
<1> DEFINE stmts == Plan(live[p], target[p])
<1>0. Inv /\ Typed /\ Agrees(p)
  BY DEF AgreementInv, HistoryInv, LedgerInv, Inv
<1>1. /\ pc[p] = "read" /\ Looked(p) /\ unread[p] = {}
      /\ UNCHANGED <<db, target, live, unread>>
  BY DEF Compare, Looked
<1>2. FoundRight(p)' /\ MissedWhole(p)'
  BY <1>0, <1>1 DEF Agrees, FoundRight, MissedWhole
<1>3. stmts \in Seq(Statements)
  BY <1>0, PlanType DEF Typed
<1>4. todo'[p] = stmts /\ batch'[p] = stmts
  BY <1>0 DEF Compare, Typed
<1> HIDE DEF stmts
<1>5. Executed(p)' = 0
  <2> DEFINE n == Len(stmts)
  <2>1. n \in Nat /\ Executed(p)' = n - n
    BY <1>3, <1>4 DEF Executed
  <2> HIDE DEF n
  <2> QED BY <2>1
<1>6. EffectsLast(p)'
  BY <1>1, <1>5 DEF EffectsLast
<1> QED BY <1>2, <1>6 DEF Agrees

\* A statement that has run has had its effect, and keeps those of the earlier ones.
LEMMA ExecuteAgrees ==
    ASSUME AgreementInv, SameTarget, NEW p \in Procs, Execute(p)
    PROVE  Agrees(p)'
<1> DEFINE s == Head(todo[p])
           c == Content(p, s.on)
           n == Executed(p)
<1>0. Inv /\ Typed /\ HistoryInv /\ Agrees(p) /\ Moves(p)
  BY DEF AgreementInv, HistoryInv, LedgerInv, Inv, Moves, Step
<1>1. /\ pc[p] = "apply" /\ pc[p] \in Open /\ Looked(p)
      /\ UNCHANGED <<target, pc, live, unread, batch>>
  BY <1>0, ExecuteStep DEF Open, Looked
<1>2. \A t \in Tables : Further(db[t], db'[t], target[p][t])
  BY <1>0, MovesDatabase
<1>3. FoundRight(p)' /\ MissedWhole(p)'
  BY <1>0, <1>1, <1>2 DEF Agrees, FoundRight, MissedWhole, Further
<1>4. /\ s \in Changes(live[p], target[p]) /\ s \in Statements /\ s.on \in Tables
      /\ c \in Ledger!Contents /\ Accepts(s, c)
      /\ Further(c, Ledger!After(s, c), target[p][s.on])
      /\ s = batch[p][n + 1] /\ n \in Nat /\ Executed(p)' = n + 1
  BY ExecuteFurther
<1>5. live[p] \in Schemas /\ target[p] \in Schemas
  BY <1>0 DEF Typed
<1>6. live[p][s.on] = {} => Whole(c, target[p][s.on])
  BY <1>0, <1>1, <1>4, ContentFurther DEF Agrees, MissedWhole, Further
<1>7. \A t \in Tables : Content(p, t)' = IF t = s.on THEN Ledger!After(s, Content(p, t)) ELSE Content(p, t)
  BY ExecuteContent
<1> HIDE DEF s, n
<1>8. Achieved(s, Ledger!After(s, c), target[p][s.on])
  BY <1>4, <1>5, <1>6, AcceptedAchieves
<1>9. \A t \in Tables : Further(Content(p, t), Content(p, t)', target[p][t])
  BY <1>4, <1>7, FurtherOrder
<1>10. ASSUME NEW i \in 1..n
       PROVE  Achieved(batch[p][i], Content(p, batch[p][i].on), target[p][batch[p][i].on])'
  <2>1. PICK r : r = batch[p][i]
    OBVIOUS
  <2>2. n \in 0..Len(batch[p]) /\ Len(batch[p]) \in Nat /\ batch[p] \in Seq(Statements)
    BY <1>0, <1>1, Counting DEF HistoryInv, n
  <2>3. i \in 1..Len(batch[p])
    BY <2>2
  <2>4. r \in Statements /\ r.on \in Tables
    BY <2>1, <2>2, <2>3, StatementForms
  <2>5. Achieved(r, Content(p, r.on), target[p][r.on])
    BY <1>0, <1>1, <2>1 DEF Agrees, EffectsLast, n
  <2>6. Achieved(r, Content(p, r.on)', target[p][r.on])
    BY <1>9, <2>4, <2>5, AchievedLasts
  <2>7. batch'[p][i] = r /\ Content(p, batch[p][i].on)' = Content(p, r.on)'
    BY <1>1, <2>1 DEF Content
  <2> QED BY <1>1, <2>6, <2>7 DEF Achieved
<1>11. ASSUME NEW m, m = n + 1
       PROVE  Achieved(batch[p][m], Content(p, batch[p][m].on), target[p][batch[p][m].on])'
  <2>1. PICK r : r = s
    OBVIOUS
  <2>2. r = batch[p][m] /\ batch'[p][m] = r /\ r.on \in Tables
    BY <1>1, <1>4, <1>11, <2>1
  <2>3. Content(p, batch[p][m].on)' = Content(p, r.on)'
    BY <2>2 DEF Content
  <2>4. Content(p, r.on)' = Ledger!After(r, Content(p, r.on))
    BY <1>7, <2>1, <2>2 DEF s
  <2>5. Achieved(r, Content(p, r.on)', target[p][r.on])
    BY <1>8, <2>1, <2>4
  <2> QED BY <1>1, <2>2, <2>3, <2>5 DEF Achieved
<1>12. EffectsLast(p)'
  <2> SUFFICES ASSUME NEW i \in 1..Executed(p)'
               PROVE  Achieved(batch[p][i], Content(p, batch[p][i].on), target[p][batch[p][i].on])'
    BY <1>0, <1>1 DEF Agrees, EffectsLast
  <2>1. i \in 1..n \/ i = n + 1
    BY <1>4
  <2>2. CASE i \in 1..n
    BY <1>10, <2>2
  <2>3. CASE i = n + 1
    BY <1>11, <2>3
  <2> QED BY <2>1, <2>2, <2>3
<1> QED BY <1>3, <1>12 DEF Agrees

\* Inserting the row touches none of the tables of the schema.
LEMMA RecordAgrees ==
    ASSUME AgreementInv, SameTarget, NEW p \in Procs, Record(p)
    PROVE  Agrees(p)'
<1>0. Inv /\ Typed /\ Agrees(p)
  BY DEF AgreementInv, HistoryInv, LedgerInv, Inv
<1>1. /\ pc[p] = "apply" /\ pc[p] \in Open /\ Looked(p)
      /\ UNCHANGED <<db, target, live, unread, batch, todo, work>>
  BY DEF Record, Open, Looked
<1>2. FoundRight(p)' /\ MissedWhole(p)'
  BY <1>0, <1>1 DEF Agrees, FoundRight, MissedWhole
<1>3. Executed(p)' = Executed(p)
  BY <1>1 DEF Executed
<1>4. ASSUME NEW i \in 1..Executed(p)
      PROVE  Achieved(batch[p][i], Content(p, batch[p][i].on), target[p][batch[p][i].on])'
  <2>1. Achieved(batch[p][i], Content(p, batch[p][i].on), target[p][batch[p][i].on])
    BY <1>0, <1>1 DEF Agrees, EffectsLast
  <2> QED BY <1>1, <2>1 DEF Achieved, Content
<1>5. EffectsLast(p)'
  BY <1>0, <1>1, <1>3, <1>4 DEF Agrees, EffectsLast
<1> QED BY <1>2, <1>5 DEF Agrees

\* Every step keeps what every process counts on.
LEMMA MovesAgree ==
    ASSUME AgreementInv, SameTarget, NEW p \in Procs, Moves(p)
    PROVE  \A q \in Procs : Agrees(q)'
<1>0. Typed
  BY DEF AgreementInv, HistoryInv, LedgerInv, Inv
<1>1. Agrees(p)'
  <2>1. CASE \/ Ensure(p) \/ LoadHistory(p) \/ Rerun(p) \/ Refuse(p) \/ Deadlock(p) \/ Fault(p)
             \/ Commit(p) \/ CommitUnanswered(p)
    <3>1. pc'[p] \in {"start", "history", "list", "done", "failed"}
      BY <1>0, <2>1 DEF Typed, Ensure, LoadHistory, Rerun, Refuse, Deadlock, Fault, GiveUp, Commit,
                        CommitUnanswered, Publish, Goto
    <3>2. Looked(p)' = FALSE /\ pc'[p] \notin Open
      BY <3>1 DEF Looked, Open
    <3> QED BY <3>2 DEF Agrees, FoundRight, MissedWhole, EffectsLast
  <2>2. CASE ListTables(p) \/ Read(p) \/ Compare(p) \/ Execute(p) \/ Record(p)
    BY <2>2, ListTablesAgrees, ReadAgrees, CompareAgrees, ExecuteAgrees, RecordAgrees
  <2> QED BY <2>1, <2>2 DEF Moves, Step
<1>2. \A q \in Procs \ {p} : Agrees(q)'
  BY OthersAgree
<1>3. \A q \in Procs : q = p \/ q \in Procs \ {p}
  OBVIOUS
<1> QED BY <1>1, <1>2, <1>3

\* The first states.
LEMMA InitAgreement == Init /\ NamesMatch => AgreementInv
<1> SUFFICES ASSUME Init, NamesMatch PROVE AgreementInv
  OBVIOUS
<1>1. HistoryInv
  BY InitHistoryInv
<1>2. Declared = LiveNames
  BY DEF Init, NamesMatch, LiveNames
<1>3. Ahead
  BY HoldingsFacts DEF Init, Ahead
<1>4. \A p \in Procs : Agrees(p)
  BY DEF Init, Agrees, FoundRight, MissedWhole, EffectsLast, Looked, Open
<1> QED BY <1>1, <1>2, <1>3, <1>4 DEF AgreementInv

\* Every step keeps the invariant.
LEMMA NextAgreement ==
    ASSUME AgreementInv, [Next]_vars
    PROVE  AgreementInv'
<1>0. HistoryInv /\ Inv /\ HistoryInv'
  BY NextHistoryInv DEF AgreementInv, HistoryInv, LedgerInv
<1>1. CASE UNCHANGED vars
  <2>1. \A p \in Procs : Agrees(p)' = Agrees(p)
    <3> SUFFICES ASSUME NEW p \in Procs PROVE Agrees(p)' = Agrees(p)
      OBVIOUS
    <3>1. (FoundRight(p)' = FoundRight(p)) /\ (MissedWhole(p)' = MissedWhole(p))
      BY <1>1 DEF vars, FoundRight, MissedWhole, Looked
    <3>2. EffectsLast(p)' = EffectsLast(p)
      BY <1>1 DEF vars, EffectsLast, Achieved, Content, Executed
    <3> QED BY <3>1, <3>2 DEF Agrees
  <2>2. Ahead' = Ahead /\ LiveNames' = LiveNames /\ SameTarget' = SameTarget
    BY <1>1 DEF vars, Ahead, LiveNames, SameTarget
  <2> QED BY <1>0, <2>1, <2>2 DEF AgreementInv
<1>2. ASSUME NEW p \in Procs, Moves(p) PROVE AgreementInv'
  <2>1. UNCHANGED <<dialect, target>>
    BY <1>0, <1>2, MovesFrame
  <2>2. Ahead'
    BY <1>2, MovesAhead
  <2>3. SameTarget' = SameTarget /\ LiveNames' = LiveNames
    BY <2>1 DEF SameTarget, LiveNames
  <2>4. SameTarget => \A q \in Procs : Agrees(q)'
    BY <1>2, MovesAgree
  <2> QED BY <1>0, <2>2, <2>3, <2>4 DEF AgreementInv
<1> QED BY <1>1, <1>2 DEF Next, Moves

\* The invariant holds in every behaviour.
LEMMA AgreementInvariance == ASSUME NamesMatch PROVE Spec => []AgreementInv
<1>1. Init => AgreementInv
  BY InitAgreement
<1> QED BY <1>1, NextAgreement, PTL DEF Spec

--------------------------------------------------------------------------------
(* What a call that reports success leaves                                    *)

\* A schema is the one the code wants if every object is right.
LEMMA RightEverywhere ==
    ASSUME NEW d \in Schemas, NEW want \in Schemas,
           \A t \in Tables, o \in Ledger!Objects : Right(d[t], want[t], o)
    PROVE  d = want
<1>1. d \in [Tables -> Ledger!Contents] /\ want \in [Tables -> Ledger!Contents]
  BY DEF Schemas, Tables, Ledger!Schemas
<1>2. ASSUME NEW t \in Tables PROVE d[t] = want[t]
  <2>1. d[t] \subseteq Ledger!Objects /\ want[t] \subseteq Ledger!Objects
    BY <1>1 DEF Ledger!Contents
  <2> QED BY <2>1 DEF Right
<1> QED BY <1>1, <1>2

\* StaysCurrent: no step of any call changes a database that has the schema all
\* processes want, under any of the databases (Migrate, Push).
THEOREM StaysCurrentAlways == ASSUME NamesMatch PROVE Spec => StaysCurrent
<1>1. ASSUME AgreementInv, [Next]_vars
      PROVE  [SameTarget => \A p \in Procs : db = target[p] => db' = target[p]]_vars
  <2>1. ASSUME NEW q \in Procs, Moves(q), SameTarget, NEW p \in Procs, db = target[p]
        PROVE  db' = target[p]
    <3>1. target[q] = target[p] /\ db \in Schemas /\ target[p] \in Schemas
      BY <1>1, <2>1 DEF SameTarget, AgreementInv, HistoryInv, LedgerInv, Inv, Typed
    <3>2. db' \in Schemas
      BY <1>1, NextHistoryInv DEF AgreementInv, HistoryInv, LedgerInv, Inv, Typed
    <3>3. \A t \in Tables : Further(db[t], db'[t], target[p][t])
      BY <1>1, <2>1, <3>1, MovesDatabase
    <3>4. \A t \in Tables, o \in Ledger!Objects : Right(db'[t], target[p][t], o)
      BY <2>1, <3>3 DEF Further, Right
    <3> QED BY <3>1, <3>2, <3>4, RightEverywhere
  <2> QED BY <1>1, <2>1 DEF Next, Moves
<1> QED BY <1>1, AgreementInvariance, PTL DEF Spec, StaysCurrent

\* A process that finds nothing to do has found the schema it wants, and it is still there.
LEMMA CurrentIsCurrent ==
    ASSUME AgreementInv, SameTarget, NEW p \in Procs, Compare(p), result'[p] = "current"
    PROVE  db' = target[p]
<1>0. Inv /\ Typed /\ Agrees(p) /\ Declared = LiveNames
  BY DEF AgreementInv, HistoryInv, LedgerInv, Inv
<1>1. pc[p] = "read" /\ Looked(p) /\ unread[p] = {} /\ db' = db
  BY DEF Compare, Looked
<1>2. Plan(live[p], target[p]) = <<>>
  BY <1>0 DEF Compare, Typed
<1>3. db \in Schemas /\ live[p] \in Schemas /\ target[p] \in Schemas
  BY <1>0 DEF Typed
<1>4. Changes(live[p], target[p]) = {}
  <2>1. Ledger!Diff(live[p], target[p]) = <<>>
    BY <1>0, <1>2 DEF Plan
  <2>2. ToSet(<<>>) = {}
    BY DEF ToSet
  <2> QED BY <1>3, <2>1, <2>2, DiffChanges
<1>5. \A t \in Tables, o \in Ledger!Objects : Right(live[p][t], target[p][t], o)
  BY <1>3, <1>4, PlanCovers
<1>6. \A t \in Tables, o \in Ledger!Objects : Right(db[t], target[p][t], o)
  BY <1>0, <1>1, <1>5 DEF Agrees, FoundRight
<1> QED BY <1>1, <1>3, <1>6, RightEverywhere

\* A process that commits has put right what it found wrong, and the rest still is right.
LEMMA AppliedIsCurrent ==
    ASSUME AgreementInv, SameTarget, NEW p \in Procs, Commit(p)
    PROVE  db' = target[p]
<1>0. Inv /\ Typed /\ HistoryInv /\ Agrees(p) /\ Declared = LiveNames
  BY DEF AgreementInv, HistoryInv, LedgerInv, Inv
<1>1. pc[p] \in Open /\ todo[p] = <<>> /\ Looked(p) /\ db' = [t \in Tables |-> Content(p, t)]
  BY <1>0 DEF Commit, Finished, Publish, Open, Looked, Inv, Phases
<1>2. unread[p] = {} /\ live[p] \in Schemas /\ target[p] \in Schemas
  BY <1>0, <1>1 DEF Agrees, EffectsLast, Typed
<1>3. Executed(p) = Len(batch[p]) /\ Len(batch[p]) \in Nat /\ batch[p] \in Seq(Statements)
  <2> DEFINE b == Len(batch[p])
  <2>1. b \in Nat /\ Executed(p) = b - 0 /\ batch[p] \in Seq(Statements)
    BY <1>0, <1>1, Counting DEF HistoryInv, Executed
  <2> HIDE DEF b
  <2>2. Executed(p) = b
    BY <2>1
  <2> QED BY <2>1, <2>2 DEF b
<1>4. Changes(live[p], target[p]) \subseteq ToSet(batch[p])
  BY <1>0, <1>1, BatchChanges
<1>5. ASSUME NEW t \in Tables, NEW o \in Ledger!Objects
      PROVE  Right(Content(p, t), target[p][t], o)
  <2>1. CASE Right(live[p][t], target[p][t], o)
    <3>1. Right(db[t], target[p][t], o)
      BY <1>0, <1>1, <1>2, <2>1 DEF Agrees, FoundRight
    <3> QED BY <3>1, ContentFurther DEF Further
  <2>2. CASE ~Right(live[p][t], target[p][t], o)
    <3>1. PICK s \in Changes(live[p], target[p]) : s.on = t /\ o \in Covered(s)
      BY <1>2, <2>2, PlanCovers
    <3>2. PICK i \in 1..Len(batch[p]) : batch[p][i] = s
      BY <1>3, <1>4 DEF ToSet
    <3>3. Achieved(s, Content(p, t), target[p][t])
      BY <1>0, <1>1, <1>3, <3>1, <3>2 DEF Agrees, EffectsLast
    <3> QED BY <3>1, <3>3 DEF Achieved
  <2> QED BY <2>1, <2>2
<1>6. db' \in Schemas /\ \A t \in Tables, o \in Ledger!Objects : Right(db'[t], target[p][t], o)
  <2>1. \A t \in Tables : Content(p, t) \in Ledger!Contents
    BY <1>0, ContentType
  <2>2. db' \in Schemas
    BY <1>1, <2>1 DEF Schemas, Tables, Ledger!Schemas
  <2> QED BY <1>1, <1>5, <2>2
<1> QED BY <1>2, <1>6, RightEverywhere

\* SuccessMeansCurrent: among processes that want the same schema, a call that reports
\* success, with or without changes, leaves that schema, although it introspected in
\* several queries and outside the transaction (Migrate, MigrateResult; Push, PushResult).
THEOREM SuccessIsCurrent == ASSUME NamesMatch PROVE Spec => SuccessMeansCurrent
<1>1. ASSUME AgreementInv, [Next]_vars
      PROVE  [SameTarget => \A p \in Procs :
                result[p] = "none" /\ result'[p] \in {"current", "applied"} => db' = target[p]]_vars
  <2>0. Inv /\ Typed
    BY <1>1 DEF AgreementInv, HistoryInv, LedgerInv, Inv
  <2>1. ASSUME NEW q \in Procs, Moves(q), SameTarget, NEW p \in Procs,
               result[p] = "none", result'[p] \in {"current", "applied"}
        PROVE  db' = target[p]
    <3>1. q = p
      BY <2>0, <2>1, MovesFrame
    <3>2. CASE Compare(p)
      <4>1. result'[p] = "current"
        BY <2>0, <2>1, <3>2 DEF Compare, Typed
      <4> QED BY <1>1, <2>1, <3>2, <4>1, CurrentIsCurrent
    <3>3. CASE Commit(p)
      BY <1>1, <2>1, <3>3, AppliedIsCurrent
    <3>4. CASE CommitUnanswered(p) \/ Refuse(p) \/ Deadlock(p) \/ Fault(p)
      <4>1. result'[p] = "failed"
        BY <2>0, <3>4 DEF CommitUnanswered, Publish, Refuse, Deadlock, Fault, GiveUp, Typed
      <4> QED BY <2>1, <4>1
    <3>5. CASE Ensure(p) \/ LoadHistory(p) \/ ListTables(p) \/ Read(p) \/ Execute(p) \/ Record(p) \/ Rerun(p)
      <4>1. result'[p] = "none"
        BY <2>0, <2>1, <3>5 DEF Ensure, LoadHistory, ListTables, Read, Execute, Record, Rerun, Typed
      <4> QED BY <2>1, <4>1
    <3> QED BY <2>1, <3>1, <3>2, <3>3, <3>4, <3>5 DEF Moves, Step
  <2> QED BY <1>1, <2>1 DEF Next, Moves
<1> QED BY <1>1, AgreementInvariance, PTL DEF Spec, SuccessMeansCurrent

--------------------------------------------------------------------------------
(* What Status lists                                                          *)

\* On a schema that is further, nothing is to be done that was not to be done before.
LEMMA ChangesShrink ==
    ASSUME NEW old \in Schemas, NEW read \in Schemas, NEW want \in Schemas,
           \A t \in Tables, o \in Ledger!Objects :
             Right(old[t], want[t], o) => Right(read[t], want[t], o),
           \A t \in Tables :
             old[t] = {} /\ want[t] # {} /\ read[t] # {} => want[t] \ {"idx"} \subseteq read[t]
    PROVE  Changes(read, want) \subseteq Changes(old, want)
<1> SUFFICES ASSUME NEW s \in Changes(read, want) PROVE s \in Changes(old, want)
  OBVIOUS
<1>1. s \in Statements /\ s.on \in Tables
  BY StatementForms DEF Changes
<1> DEFINE t == s.on
<1>2. /\ old[t] \in Ledger!Contents /\ read[t] \in Ledger!Contents /\ want[t] \in Ledger!Contents
  BY <1>1 DEF Schemas, Tables, Ledger!Schemas
<1>3. /\ "table" \in Ledger!Objects /\ "idx" \in Ledger!Objects /\ "col" \in Ledger!Objects
  BY DEF Ledger!Objects
<1>4. \A o \in Ledger!Objects : Right(old[t], want[t], o) => Right(read[t], want[t], o)
  BY <1>1
<1>5. CASE s.op \in {"create", "add"} /\ read[t] = {} /\ want[t] # {}
  <2>1. old[t] = {}
    BY <1>2, <1>3, <1>4, <1>5 DEF Right, Ledger!Contents
  <2> QED BY <1>1, <1>5, <2>1 DEF Changes
<1>6. CASE s.op = "add" /\ read[t] # {}
  <2>1. s.what \in Singles /\ s.what \subseteq want[t] \ read[t] /\ want[t] # {}
    BY <1>1, <1>6, StatementForms DEF Changes
  <2>2. s.what \cap old[t] = {}
    BY <1>3, <1>4, <2>1 DEF Right, Singles
  <2>3. CASE old[t] = {}
    <3>1. s.what = {"idx"} /\ "idx" \in want[t]
      BY <1>1, <1>6, <2>1, <2>3 DEF Singles
    <3> QED BY <1>1, <1>6, <2>3, <3>1 DEF Changes
  <2>4. CASE old[t] # {}
    BY <1>1, <1>6, <2>1, <2>2, <2>4 DEF Changes
  <2> QED BY <2>3, <2>4
<1>7. CASE s.op = "drop"
  <2>1. s.what \in Singles /\ s.what \subseteq read[t] \ want[t] /\ want[t] # {}
    BY <1>1, <1>7, StatementForms DEF Changes
  <2>2. s.what \subseteq old[t] /\ old[t] # {}
    BY <1>3, <1>4, <2>1 DEF Right, Singles
  <2> QED BY <1>1, <1>7, <2>1, <2>2 DEF Changes
<1>8. CASE s.op = "drop_table"
  <2>1. s.what = {} /\ read[t] # {} /\ want[t] = {}
    BY <1>1, <1>8, StatementForms DEF Changes
  <2>2. old[t] # {}
    BY <1>2, <1>3, <1>4, <2>1 DEF Right, Ledger!Contents
  <2> QED BY <1>1, <1>8, <2>1, <2>2 DEF Changes
<1>9. s.op \in {"create", "add"} /\ read[t] = {} => want[t] # {}
  BY DEF Changes
<1>10. s.op = "create" => read[t] = {}
  BY DEF Changes
<1> QED BY <1>1, <1>5, <1>6, <1>7, <1>8, <1>9, <1>10, StatementForms

\* A status that has compared lists nothing its history has run.
LEMMA CompareReports ==
    ASSUME AgreementInv, NEW p \in Procs, Compare(p), Behind(p)
    PROVE  ToSet(todo'[p]) \subseteq ToSet(Ledger!Diff(Loaded(p), target[p]))
<1>0. Inv /\ Typed /\ Declared = LiveNames
  BY DEF AgreementInv, HistoryInv, LedgerInv, Inv
<1>1. pc[p] = "read" /\ unread[p] = {}
  BY DEF Compare
<1>2. live[p] \in Schemas /\ target[p] \in Schemas /\ Loaded(p) \in Schemas
  BY <1>0 DEF Typed, Behind
<1>3. todo'[p] = Ledger!Diff(live[p], target[p])
  BY <1>0 DEF Compare, Plan, Typed
<1>4. Changes(live[p], target[p]) \subseteq Changes(Loaded(p), target[p])
  BY <1>1, <1>2, ChangesShrink DEF Behind, ReadFurther
<1>5. Ledger!Diff(live[p], target[p]) \in Seq(Changes(live[p], target[p]))
  BY <1>2, DiffChanges
<1>6. ToSet(Ledger!Diff(live[p], target[p])) \subseteq Changes(live[p], target[p])
  <2> DEFINE C == Changes(live[p], target[p])
             d == Ledger!Diff(live[p], target[p])
  <2>1. d \in Seq(C)
    BY <1>5
  <2> HIDE DEF C, d
  <2>2. ToSet(d) \subseteq C
    BY <2>1 DEF ToSet
  <2> QED BY <2>2 DEF C, d
<1>7. Changes(Loaded(p), target[p]) \subseteq ToSet(Ledger!Diff(Loaded(p), target[p]))
  BY <1>2, DiffChanges
<1> QED BY <1>3, <1>4, <1>6, <1>7

\* What a process loaded stays what it was.
LEMMA LoadedStays ==
    ASSUME NEW p, base' = base, seen'[p] = seen[p]
    PROVE  Loaded(p)' = Loaded(p)
BY DEF Loaded, Replay, ReplayStates, Numbered

\* Status loads a history that explains the schema of the moment.
LEMMA LoadBehind ==
    ASSUME AgreementInv, NoPush, ~AutoCommits, NEW p \in Procs, LoadHistory(p)
    PROVE  Behind(p)'
<1>0. Inv /\ Typed /\ HistoryExplainsSchema
  BY DEF AgreementInv, HistoryInv, LedgerInv, Inv
<1>1. seen'[p] = history /\ UNCHANGED <<base, db>> /\ pc'[p] = "list"
  BY <1>0 DEF LoadHistory, Goto, Typed
<1>2. Loaded(p)' = Replay(history)
  BY <1>1 DEF Loaded, Replay, ReplayStates, Numbered
<1>3. Loaded(p)' = db /\ db \in Schemas
  BY <1>0, <1>2 DEF HistoryExplainsSchema, Typed
<1> QED BY <1>1, <1>3, FurtherOrder DEF Behind

\* The list of tables is of a database that has only got further.
LEMMA ListBehind ==
    ASSUME AgreementInv, NEW p \in Procs, ListTables(p), Behind(p)
    PROVE  Behind(p)'
<1> DEFINE found == {t \in Tables : db[t] # {}}
           heads == [t \in Tables |-> db[t] \cap {"table"}]
<1>0. Typed
  BY DEF AgreementInv, HistoryInv, LedgerInv, Inv
<1>1. /\ live'[p] = heads /\ unread'[p] = found \X {"col", "idx"} /\ pc'[p] = "read"
      /\ UNCHANGED <<db, base, target, seen>>
  BY <1>0 DEF ListTables, Goto, Typed
<1>2. \A t \in Tables : db[t] \in Ledger!Contents
  BY <1>0 DEF Typed, Schemas, Tables, Ledger!Schemas
<1>3. Loaded(p)' = Loaded(p)
  BY <1>1, LoadedStays
<1>4. ReadFurther(p)'
  <2> SUFFICES ASSUME NEW t \in Tables
               PROVE  /\ \A o \in Ledger!Objects :
                           <<t, o>> \notin unread'[p] /\ Right(Loaded(p)[t], target[p][t], o)
                             => Right(live'[p][t], target[p][t], o)
                      /\ <<t, "col">> \notin unread'[p] => live'[p][t] = {}
    BY <1>1, <1>3 DEF ReadFurther
  <2>1. ASSUME NEW o \in Ledger!Objects, <<t, o>> \notin unread'[p], Right(Loaded(p)[t], target[p][t], o)
        PROVE  Right(live'[p][t], target[p][t], o)
    <3>1. o \in heads[t] <=> o \in db[t]
      BY <1>1, <1>2, <2>1 DEF Ledger!Contents, Ledger!Objects
    <3>2. Right(db[t], target[p][t], o)
      BY <2>1 DEF Behind, Further
    <3> QED BY <1>1, <3>1, <3>2 DEF Right
  <2>2. <<t, "col">> \notin unread'[p] => live'[p][t] = {}
    BY <1>1
  <2> QED BY <2>1, <2>2
<1> QED BY <1>1, <1>3, <1>4 DEF Behind

\* So is every column and index read after it.
LEMMA ReadBehind ==
    ASSUME AgreementInv, SameTarget, NEW p \in Procs, Read(p), Behind(p)
    PROVE  Behind(p)'
<1>0. Inv /\ Typed /\ ReadsListed /\ Agrees(p)
  BY DEF AgreementInv, HistoryInv, LedgerInv, Inv
<1>1. PICK query \in Queries(p) :
        /\ live' = [live EXCEPT ![p] = [t \in Tables |->
                        live[p][t] \cup {o \in db[t] : <<t, o>> \in query}]]
        /\ unread' = [unread EXCEPT ![p] = unread[p] \ query]
  BY DEF Read
<1>2. query \subseteq unread[p]
  BY <1>1 DEF Queries
<1>3. /\ \A t \in Tables : live'[p][t] = live[p][t] \cup {o \in db[t] : <<t, o>> \in query}
      /\ unread'[p] = unread[p] \ query
  BY <1>0, <1>1 DEF Typed
<1>4. pc[p] = "read" /\ UNCHANGED <<db, base, target, seen, pc>> /\ ReadFurther(p) /\ Looked(p)
  BY DEF Read, Behind, Looked
<1>5. Loaded(p)' = Loaded(p)
  BY <1>4, LoadedStays
<1> DEFINE old == Loaded(p)
           want == target[p]
<1>6. ASSUME NEW t \in Tables, NEW o \in Ledger!Objects, <<t, o>> \notin unread'[p],
             Right(old[t], want[t], o)
      PROVE  Right(live'[p][t], want[t], o)
  <2>1. CASE <<t, o>> \in query
    <3>1. o \notin live[p][t]
      BY <1>0, <1>2, <2>1 DEF ReadsListed
    <3>2. Right(db[t], want[t], o)
      BY <1>6 DEF Behind, Further
    <3> QED BY <1>3, <2>1, <3>1, <3>2 DEF Right
  <2>2. CASE <<t, o>> \notin query
    <3>1. <<t, o>> \notin unread[p]
      BY <1>3, <1>6, <2>2
    <3>2. Right(live[p][t], want[t], o)
      BY <1>4, <1>6, <3>1 DEF ReadFurther
    <3> QED BY <1>3, <2>2, <3>2 DEF Right
  <2> QED BY <2>1, <2>2
<1>7. ASSUME NEW t \in Tables, <<t, "col">> \notin unread'[p], old[t] = {}, want[t] # {}, live'[p][t] # {}
      PROVE  want[t] \ {"idx"} \subseteq live'[p][t]
  <2>1. live[p][t] # {}
    <3>1. ASSUME NEW o, <<t, o>> \in query PROVE "table" \in live[p][t]
      BY <1>0, <1>2, <3>1 DEF ReadsListed
    <3> QED BY <1>3, <1>7, <3>1
  <2>2. CASE <<t, "col">> \in query
    <3>1. "table" \in live[p][t] /\ <<t, "table">> \notin unread[p]
      BY <1>0, <1>2, <2>2 DEF ReadsListed, Typed
    <3>2. "table" \in want[t] /\ want[t] \in Ledger!Contents /\ "table" \in Ledger!Objects
      <4>1. want \in Schemas
        BY <1>0 DEF Typed
      <4>2. want[t] \in Ledger!Contents
        BY <4>1 DEF Schemas, Tables, Ledger!Schemas
      <4> QED BY <1>7, <4>2 DEF Ledger!Contents, Ledger!Objects
    <3>3. "table" \in db[t]
      BY <1>0, <1>4, <3>1, <3>2 DEF Agrees, FoundRight, Right
    <3>4. want[t] \ {"idx"} \subseteq db[t]
      BY <1>7, <3>3 DEF Behind, Further, Whole
    <3> QED BY <1>3, <2>2, <3>1, <3>2, <3>4 DEF Ledger!Contents, Ledger!Objects
  <2>3. CASE <<t, "col">> \notin query
    <3>1. <<t, "col">> \notin unread[p]
      BY <1>3, <1>7, <2>3
    <3>2. want[t] \ {"idx"} \subseteq live[p][t]
      BY <1>4, <1>7, <2>1, <3>1 DEF ReadFurther
    <3> QED BY <1>3, <3>2
  <2> QED BY <2>2, <2>3
<1>8. ReadFurther(p)'
  BY <1>4, <1>5, <1>6, <1>7 DEF ReadFurther
<1> QED BY <1>4, <1>5, <1>8 DEF Behind

\* What others do meanwhile only takes the database further.
LEMMA OthersBehind ==
    ASSUME AgreementInv, SameTarget, NEW p \in Procs, Moves(p), NEW q \in Procs \ {p}, Behind(q)
    PROVE  Behind(q)'
<1>0. Inv
  BY DEF AgreementInv, HistoryInv, LedgerInv
<1>1. /\ pc'[q] = pc[q] /\ live'[q] = live[q] /\ unread'[q] = unread[q] /\ seen'[q] = seen[q]
      /\ UNCHANGED <<base, target>>
  BY <1>0, MovesFrame
<1>2. Loaded(q)' = Loaded(q)
  BY <1>1, LoadedStays
<1>3. target[q] = target[p]
  BY DEF SameTarget
<1>4. \A t \in Tables : Further(db[t], db'[t], target[q][t])
  BY <1>3, MovesDatabase
<1>5. \A t \in Tables : Further(Loaded(q)[t], db'[t], target[q][t])
  BY <1>4, FurtherOrder DEF Behind
<1>6. ReadFurther(q)' = ReadFurther(q)
  BY <1>1, <1>2 DEF ReadFurther
<1> QED BY <1>1, <1>2, <1>5, <1>6 DEF Behind

\* What Status listed of what it loaded, it has listed for good.
LEMMA ReportStays ==
    ASSUME AgreementInv, NEW p \in Procs, Moves(p), NEW q \in Procs,
           result[q] = "reported", result'[q] = "reported"
    PROVE  /\ todo'[q] = todo[q] /\ target'[q] = target[q] /\ call'[q] = call[q]
           /\ Loaded(q)' = Loaded(q)
<1>0. Inv /\ Typed
  BY DEF AgreementInv, HistoryInv, LedgerInv, Inv
<1>1. pc[q] \in {"done", "failed"}
  BY <1>0 DEF Inv, Phases
<1>2. todo'[q] = todo[q] /\ seen'[q] = seen[q]
  <2>1. CASE q # p
    BY <1>0, <2>1, MovesFrame
  <2>2. CASE q = p
    <3>1. ~Rerun(p)
      BY <1>0, <2>2 DEF Rerun, Typed
    <3>2. ~Deadlock(p)
      BY <1>1, <2>2 DEF Deadlock, Blockers
    <3>3. CASE CommitUnanswered(p) \/ Commit(p) \/ Fault(p) \/ Refuse(p)
      BY <3>3 DEF Commit, CommitUnanswered, Fault, Refuse, GiveUp
    <3> QED BY <1>1, <2>2, <3>1, <3>2, <3>3
         DEF Moves, Step, Ensure, LoadHistory, ListTables, Read, Compare, Execute, Record
  <2> QED BY <2>1, <2>2
<1>3. UNCHANGED <<base, call, target>>
  BY <1>0, MovesFrame
<1> QED BY <1>2, <1>3, LoadedStays

\* The invariant of Status.
LEMMA NextStatus ==
    ASSUME StatusInv, [Next]_vars
    PROVE  StatusInv'
<1>0. AgreementInv /\ AgreementInv' /\ Inv /\ Typed
  BY NextAgreement DEF StatusInv, AgreementInv, HistoryInv, LedgerInv, Inv
<1>1. CASE UNCHANGED vars
  <2>1. \A p \in Procs : Behind(p)' = Behind(p) /\ Loaded(p)' = Loaded(p)
    <3> SUFFICES ASSUME NEW p \in Procs PROVE Behind(p)' = Behind(p) /\ Loaded(p)' = Loaded(p)
      OBVIOUS
    <3>1. Loaded(p)' = Loaded(p)
      BY <1>1, LoadedStays DEF vars
    <3>2. ReadFurther(p)' = ReadFurther(p)
      BY <1>1, <3>1 DEF vars, ReadFurther
    <3> QED BY <1>1, <3>1, <3>2 DEF vars, Behind
  <2>2. StatusBehind' = StatusBehind
    BY <1>1, <2>1 DEF vars, StatusBehind
  <2>3. StatusConsistent' = StatusConsistent
    BY <1>1, <2>1 DEF vars, StatusConsistent, Loaded, SameTarget, NoPush
  <2>4. SameTarget' = SameTarget /\ NoPush' = NoPush /\ AutoCommits' = AutoCommits
    BY <1>1 DEF vars, SameTarget, NoPush, AutoCommits
  <2> QED BY <1>0, <2>2, <2>3, <2>4 DEF StatusInv
<1>2. ASSUME NEW p \in Procs, Moves(p), (SameTarget /\ NoPush /\ ~AutoCommits)'
      PROVE  StatusBehind' /\ StatusConsistent'
  <2>0. UNCHANGED <<dialect, base, call, target>>
    BY <1>0, <1>2, MovesFrame
  <2>1. SameTarget /\ NoPush /\ ~AutoCommits
    BY <1>2, <2>0 DEF SameTarget, NoPush, AutoCommits
  <2>2. StatusBehind /\ StatusConsistent
    BY <2>1 DEF StatusInv
  <2>3. ASSUME NEW q \in Procs, call[q] = "status", pc'[q] \in {"list", "read"}
        PROVE  Behind(q)'
    <3>1. CASE q # p
      <4>1. pc'[q] = pc[q]
        BY <1>0, <1>2, <3>1, MovesFrame
      <4>2. Behind(q)
        BY <2>2, <2>3, <4>1 DEF StatusBehind
      <4> QED BY <1>0, <1>2, <2>1, <3>1, <4>2, OthersBehind
    <3>2. CASE q = p
      <4>1. CASE LoadHistory(p)
        BY <1>0, <2>1, <3>2, <4>1, LoadBehind
      <4>2. CASE ListTables(p)
        <5>1. Behind(p)
          BY <2>2, <2>3, <3>2, <4>2 DEF ListTables, StatusBehind
        <5> QED BY <1>0, <3>2, <4>2, <5>1, ListBehind
      <4>3. CASE Read(p)
        <5>1. Behind(p)
          BY <2>2, <2>3, <3>2, <4>3 DEF Read, StatusBehind
        <5> QED BY <1>0, <2>1, <3>2, <4>3, <5>1, ReadBehind
      <4>4. CASE Ensure(p)
        BY <1>0, <2>3, <3>2, <4>4 DEF Ensure, Goto, Typed
      <4>5. CASE Compare(p) \/ Rerun(p) \/ Record(p)
        BY <1>0, <2>3, <3>2, <4>5 DEF Compare, Rerun, Record, Goto, Typed
      <4>6. CASE Execute(p)
        BY <1>0, <2>3, <3>2, <4>6 DEF Execute
      <4>7. CASE Commit(p) \/ CommitUnanswered(p) \/ Refuse(p) \/ Deadlock(p) \/ Fault(p)
        BY <1>0, <2>3, <3>2, <4>7 DEF Commit, CommitUnanswered, Publish, Refuse, Deadlock, Fault, GiveUp,
                                      Goto, Typed
      <4> QED BY <1>2, <4>1, <4>2, <4>3, <4>4, <4>5, <4>6, <4>7 DEF Moves, Step
    <3> QED BY <3>1, <3>2
  <2>4. ASSUME NEW q \in Procs, call[q] = "status", result'[q] = "reported"
        PROVE  ToSet(todo'[q]) \subseteq ToSet(Ledger!Diff(Loaded(q)', target[q]))
    <3>1. CASE result[q] = "reported"
      <4>1. todo'[q] = todo[q] /\ Loaded(q)' = Loaded(q)
        BY <1>0, <1>2, <2>4, <3>1, ReportStays
      <4> QED BY <2>1, <2>2, <2>4, <3>1, <4>1 DEF StatusConsistent, Loaded
    <3>2. CASE result[q] # "reported"
      <4>1. q = p
        BY <1>0, <1>2, <2>4, <3>2, MovesFrame
      <4>2. Compare(p)
        <5>1. CASE Commit(p) \/ CommitUnanswered(p) \/ Refuse(p) \/ Deadlock(p) \/ Fault(p)
          <6>1. result'[p] \in {"applied", "failed"}
            BY <1>0, <5>1 DEF Commit, CommitUnanswered, Publish, Refuse, Deadlock, Fault, GiveUp, Typed
          <6> QED BY <2>4, <4>1, <6>1
        <5>2. CASE \/ Ensure(p) \/ LoadHistory(p) \/ ListTables(p) \/ Read(p) \/ Execute(p) \/ Record(p)
          BY <2>4, <3>2, <4>1, <5>2 DEF Ensure, LoadHistory, ListTables, Read, Execute, Record
        <5>3. CASE Rerun(p)
          BY <1>0, <2>4, <4>1, <5>3 DEF Rerun, Typed
        <5> QED BY <1>2, <5>1, <5>2, <5>3 DEF Moves, Step
      <4>3. Behind(p) /\ UNCHANGED <<base, seen>>
        BY <2>2, <2>4, <4>1, <4>2 DEF Compare, StatusBehind
      <4>4. Loaded(p)' = Loaded(p)
        BY <4>3, LoadedStays
      <4> QED BY <1>0, <4>1, <4>2, <4>3, <4>4, CompareReports
    <3> QED BY <3>1, <3>2
  <2>5. StatusBehind'
    BY <2>0, <2>3 DEF StatusBehind
  <2>6. StatusConsistent'
    BY <2>0, <2>4 DEF StatusConsistent, Loaded
  <2> QED BY <2>5, <2>6
<1> QED BY <1>0, <1>1, <1>2 DEF StatusInv, Next, Moves

\* StatusConsistent: where the database runs DDL in transactions, Status lists no
\* statement that the history it lists has run already, although it reads the history
\* and the schema in separate queries beside running migrations (Status).
THEOREM StatusIsConsistent ==
    ASSUME "mysql" \notin Dialects, Declared = "bare"
    PROVE  Spec => []StatusConsistent
<1>1. NamesMatch
  BY DEF NamesMatch
<1>2. Init => StatusInv
  <2> SUFFICES ASSUME Init PROVE StatusInv
    OBVIOUS
  <2>1. AgreementInv
    BY <1>1, InitAgreement
  <2>2. StatusBehind /\ StatusConsistent
    BY DEF Init, StatusBehind, StatusConsistent
  <2> QED BY <2>1, <2>2 DEF StatusInv
<1>3. StatusInv => StatusConsistent
  BY DEF StatusInv, StatusConsistent, AgreementInv, HistoryInv, LedgerInv, Inv, Typed, AutoCommits
<1> QED BY <1>2, <1>3, NextStatus, PTL DEF Spec

================================================================================
