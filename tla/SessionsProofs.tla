----------------------------- MODULE SessionsProofs -----------------------------
(***************************************************************************)
(* Proofs about Sessions: for every set of clients, connections, writes    *)
(* and settings, transactions are all or nothing and Transaction says      *)
(* which, and connections return to the pool clean.  And about             *)
(* PreparedStatements: for every set of statements and any pool, what was  *)
(* validated is valid, validation fails for a reason, and the sessions     *)
(* below keep their promises.                                              *)
(***************************************************************************)
EXTENDS PreparedStatements, TLAPS

--------------------------------------------------------------------------------
(* The inductive invariant                                                   *)

Stages   == {"out", "begin", "fn", "commit", "rollback"}
Outcomes == {"none", "ok", "begin error", "callback error", "commit error", "panic"}
States   == {"idle", "open", "failed", "broken"}
Holders  == Clients \cup {Nobody, Leaked, Watched}
Sets     == SUBSET Writes
Calls    == {"", "exec", "query"}

StageType   == stage \in [Clients -> Stages]
WaitsType   == waits \in [Clients -> Calls]
LeftType    == left \in [Clients -> Nat]
SentType    == sent \in [Clients -> Sets]
AckedType   == acked \in [Clients -> Sets]
OutcomeType == outcome \in [Clients -> Outcomes]
OwnerType   == owner \in [Conns -> Holders]
TxType      == tx \in [Conns -> States]
PendingType == pending \in [Conns -> Sets]
Waiting     == \A c \in Clients : waits[c] # "" => stage[c] \in {"out", "fn"}

\* TypeOK, by groups of variables.
ClientTypes ==
    /\ StageType /\ WaitsType /\ LeftType /\ SentType /\ AckedType /\ OutcomeType
    /\ live \subseteq Clients /\ Waiting
PoolTypes  == OwnerType /\ TxType /\ PendingType /\ rows \subseteq Conns
OtherTypes ==
    data \subseteq Writes /\ unused \subseteq Writes /\ load \in Loads /\ faults \in Nat /\ panics \in Nat

\* While Transaction runs it has told nothing, and before it has a connection it has sent nothing.
Begun ==
    \A c \in Clients :
        /\ stage[c] # "out" => outcome[c] = "none"
        /\ stage[c] = "begin" => sent[c] = {}

\* Writes are executed once: committed writes are used up, and each belongs to one transaction.
Ledger ==
    /\ data \cap unused = {}
    /\ \A c \in Clients :
          /\ acked[c] \subseteq sent[c]
          /\ sent[c] \cap unused = {}
          /\ \A other \in Clients : other # c => sent[c] \cap sent[other] = {}

\* An open transaction carries all that its client has sent, and all of it was acknowledged.
Carried ==
    \A c \in Clients, k \in Conns :
        InTx(c, k) /\ tx[k] = "open" => pending[k] = sent[c] /\ acked[c] = sent[c]

IInv ==
    /\ ClientTypes /\ PoolTypes /\ OtherTypes
    /\ PoolClean /\ TransactionAtomic /\ Begun /\ Ledger /\ Carried

\* The holders that are no clients are told apart.
LEMMA Markers ==
    Nobody \notin Clients /\ Leaked \notin Clients /\ Watched \notin Clients
    /\ Nobody # Leaked /\ Nobody # Watched /\ Leaked # Watched
  BY SessionsAssumption DEF Nobody, Leaked, Watched

\* The groups together are the type invariant.
LEMMA Types == TypeOK <=> ClientTypes /\ PoolTypes /\ OtherTypes
  BY DEF TypeOK, ClientTypes, PoolTypes, OtherTypes, StageType, WaitsType, LeftType, SentType, AckedType,
     OutcomeType, OwnerType, TxType, PendingType, Waiting, Stages, Outcomes, States, Holders, Sets, Calls

--------------------------------------------------------------------------------
(* Parts of the invariant that a step does not touch                         *)

\* The types depend on the variables of their group.
LEMMA SameClients == ClientTypes /\ UNCHANGED clientVars => ClientTypes'
  BY DEF ClientTypes, clientVars, StageType, WaitsType, LeftType, SentType, AckedType, OutcomeType,
     Waiting

\* The same for the pool,
LEMMA SamePool == PoolTypes /\ UNCHANGED poolVars => PoolTypes'
  BY DEF PoolTypes, poolVars, OwnerType, TxType, PendingType

\* and for the rest.
LEMMA SameOthers == OtherTypes /\ UNCHANGED <<data, unused, bounds>> => OtherTypes'
  BY DEF OtherTypes, bounds

\* PoolClean speaks of the pool, the stages and the panics.
LEMMA SamePoolClean == PoolClean /\ UNCHANGED poolVars /\ UNCHANGED <<stage, panics>> => PoolClean'
  BY DEF PoolClean, poolVars, InTx

\* TransactionAtomic speaks of what was sent, told and committed.
LEMMA SameAtomic == TransactionAtomic /\ UNCHANGED <<outcome, acked, sent, data>> => TransactionAtomic'
  BY DEF TransactionAtomic, Truthful

\* Begun speaks of the stages, of what was told and what was sent.
LEMMA SameBegun == Begun /\ UNCHANGED <<stage, outcome, sent>> => Begun'
  BY DEF Begun

\* Ledger speaks of the writes, wherever they are.
LEMMA SameLedger == Ledger /\ UNCHANGED <<data, unused, acked, sent>> => Ledger'
  BY DEF Ledger

\* Carried speaks of transactions and what was sent.
LEMMA SameCarried == Carried /\ UNCHANGED <<owner, tx, pending, sent, acked>> => Carried'
  BY DEF Carried, InTx

--------------------------------------------------------------------------------
(* Faults, and the effects that several actions share                        *)

\* A fault costs one of a number, and committed data stays within the writes.
LEMMA FaultTyped ==
    ASSUME OtherTypes, Fault \/ UNCHANGED bounds, UNCHANGED unused, data' \subseteq Writes
    PROVE  OtherTypes'
  BY DEF OtherTypes, Fault, bounds

\* Whatever Transaction returns, the client is outside and may start anew.
LEMMA ReturnsTyped ==
    ASSUME ClientTypes, NEW c \in Clients, NEW how \in Outcomes, Returns(c, how)
    PROVE  ClientTypes'
<1>1. StageType'
  BY DEF ClientTypes, Returns, StageType, Stages
<1>2. OutcomeType'
  BY DEF ClientTypes, Returns, OutcomeType
<1>3. Waiting'
  BY DEF ClientTypes, Returns, StageType, Waiting
<1>4. UNCHANGED <<live, waits, sent, acked, left>>
  BY DEF Returns
<1> QED
  BY <1>1, <1>2, <1>3, <1>4 DEF ClientTypes, WaitsType, LeftType, SentType, AckedType

\* Outside, Begun asks nothing.
LEMMA ReturnsBegun ==
    ASSUME ClientTypes, Begun, NEW c \in Clients, NEW how \in Outcomes, Returns(c, how)
    PROVE  Begun'
  BY DEF ClientTypes, StageType, OutcomeType, Begun, Returns

\* A client that may call has a call to give.
LEMMA OneLess ==
    ASSUME LeftType, NEW c \in Clients, left[c] > 0, left' = [left EXCEPT ![c] = @ - 1]
    PROVE  LeftType'
<1>1. left[c] - 1 \in Nat
  BY DEF LeftType
<1> QED
  BY <1>1 DEF LeftType

\* The writes of the other transactions are neither committed nor forgotten.
LEMMA OthersTruthful ==
    ASSUME TransactionAtomic, NEW c \in Clients, NEW more, data' = data \cup more,
           \A d \in Clients : d # c =>
               /\ sent[d] \cap more = {}
               /\ outcome'[d] = outcome[d] /\ acked'[d] = acked[d] /\ sent'[d] = sent[d],
           Truthful(c)'
    PROVE  TransactionAtomic'
<1> SUFFICES ASSUME NEW d \in Clients, d # c
             PROVE  Truthful(d)'
  BY DEF TransactionAtomic
<1>1. Truthful(d)
  BY DEF TransactionAtomic
<1>2. sent[d] \cap more = {} /\ outcome'[d] = outcome[d] /\ acked'[d] = acked[d] /\ sent'[d] = sent[d]
  OBVIOUS
<1> QED
  BY <1>1, <1>2 DEF Truthful

\* A client that returns with an error, while nothing is committed, has told the truth if
\* it had told nothing.
LEMMA ErrorTruthful ==
    ASSUME ClientTypes, TransactionAtomic, Begun, NEW c \in Clients, stage[c] # "out", UNCHANGED data,
           NEW how \in Outcomes \ {"ok"}, Returns(c, how)
    PROVE  TransactionAtomic'
<1>1. Truthful(c) /\ outcome[c] = "none"
  BY DEF TransactionAtomic, Begun
<1>2. outcome'[c] = how /\ how # "ok"
  BY DEF ClientTypes, OutcomeType, Returns
<1>3. UNCHANGED <<sent, acked>>
  BY DEF Returns
<1>4. Truthful(c)'
  BY <1>1, <1>2, <1>3 DEF Truthful
<1>5. \A d \in Clients : d # c => outcome'[d] = outcome[d]
  BY DEF ClientTypes, OutcomeType, Returns
<1>6. data' = data \cup {}
  OBVIOUS
<1> QED
  BY <1>3, <1>4, <1>5, <1>6, OthersTruthful, ZenonT(60)

\* Connections that return to the pool keep the types,
LEMMA ReleasedTyped ==
    ASSUME PoolTypes, NEW ks \in SUBSET Conns, Release(ks)
    PROVE  PoolTypes'
<1>1. OwnerType'
  BY DEF PoolTypes, Release, OwnerType, Holders
<1>2. TxType'
  BY DEF PoolTypes, Release, TxType, States
<1>3. PendingType'
  BY DEF PoolTypes, Release, PendingType, Sets
<1> QED
  BY <1>1, <1>2, <1>3 DEF PoolTypes, Release

\* and carry nothing; the others carry what they did.
LEMMA ReleasedCarried ==
    ASSUME Carried, NEW ks \in SUBSET Conns, Release(ks), UNCHANGED <<sent, acked>>
    PROVE  Carried'
  BY Markers DEF Carried, Release, InTx

\* A client whose transaction ends gives up its connection.
LEMMA ReleasedClean ==
    ASSUME PoolClean, NEW ks \in SUBSET Conns, Release(ks), UNCHANGED panics,
           \A c \in Clients : stage'[c] = stage[c] \/ \A k \in Conns : InTx(c, k) => k \in ks
    PROVE  PoolClean'
  BY Markers DEF PoolClean, Release, InTx

\* Who has a transaction is in the callback or ends it.
LEMMA HoldersClean ==
    ASSUME PoolClean, UNCHANGED poolVars, UNCHANGED panics,
           \A c \in Clients, k \in Conns : InTx(c, k) => stage'[c] \in {"fn", "commit", "rollback"}
    PROVE  PoolClean'
  BY DEF PoolClean, poolVars, InTx

\* Calls on a transaction concern its connection, which stays with its client.
LEMMA WithinClean ==
    ASSUME PoolClean, NEW k \in Conns, owner[k] \in Clients, tx[k] # "idle",
           UNCHANGED <<owner, panics>>, \A c \in Clients : stage'[c] \in {stage[c], "rollback"},
           \A j \in Conns : j # k => tx'[j] = tx[j] /\ pending'[j] = pending[j] /\ (j \in rows' => j \in rows)
    PROVE  PoolClean'
  BY Markers DEF PoolClean, InTx

\* A transaction that is no longer open carries nothing.
LEMMA ClosedCarried ==
    ASSUME Carried, NEW k \in Conns, UNCHANGED <<owner, sent, acked>>,
           tx'[k] # "open", tx[k] # "idle",
           \A j \in Conns : j # k => tx'[j] = tx[j] /\ pending'[j] = pending[j]
    PROVE  Carried'
  BY DEF Carried, InTx

--------------------------------------------------------------------------------
(* One lemma for each action                                                 *)

\* A new call: the client holds no transaction, so forgetting what its last one sent disturbs nobody.
LEMMA TransactionKeeps ==
    ASSUME IInv, NEW c \in Clients, Transaction(c)
    PROVE  IInv'
<1>1. \A k \in Conns : ~InTx(c, k)
  BY DEF IInv, PoolClean, Transaction
<1>2. ClientTypes'
  <2>1. StageType'
    BY DEF IInv, ClientTypes, StageType, Stages, Transaction
  <2>2. SentType' /\ AckedType'
    BY DEF IInv, ClientTypes, SentType, AckedType, Sets, Transaction
  <2>3. OutcomeType'
    BY DEF IInv, ClientTypes, OutcomeType, Outcomes, Transaction
  <2>4. LeftType'
    BY OneLess DEF IInv, ClientTypes, Transaction
  <2>5. Waiting'
    BY DEF IInv, ClientTypes, StageType, Waiting, Transaction
  <2>6. live' \subseteq Clients /\ UNCHANGED waits
    BY DEF IInv, ClientTypes, Transaction
  <2> QED
    BY <2>1, <2>2, <2>3, <2>4, <2>5, <2>6 DEF IInv, ClientTypes, WaitsType
<1>3. PoolClean'
  <2>1. UNCHANGED poolVars /\ UNCHANGED panics
    BY DEF Transaction, bounds
  <2>2. \A d \in Clients, k \in Conns : InTx(d, k) => stage'[d] = stage[d]
    BY <1>1 DEF IInv, ClientTypes, StageType, Transaction
  <2> QED
    BY <2>1, <2>2, HoldersClean DEF IInv, PoolClean
<1>4. TransactionAtomic'
  <2>1. Truthful(c)'
    BY DEF IInv, ClientTypes, SentType, AckedType, OutcomeType, Truthful, Transaction
  <2>2. \A d \in Clients : d # c => outcome'[d] = outcome[d] /\ acked'[d] = acked[d] /\ sent'[d] =
        sent[d] /\ sent[d] \cap {} = {}
    BY DEF IInv, ClientTypes, SentType, AckedType, OutcomeType, Transaction
  <2>3. data' = data \cup {}
    BY DEF Transaction
  <2> QED
    BY <2>1, <2>2, <2>3, OthersTruthful DEF IInv
<1>5. Begun'
  BY DEF IInv, ClientTypes, StageType, OutcomeType, SentType, Begun, Transaction
<1>6. Ledger'
  <2>1. sent' = [sent EXCEPT ![c] = {}] /\ acked' = [acked EXCEPT ![c] = {}] /\ UNCHANGED <<data,
        unused>>
    BY DEF Transaction
  <2> QED
    BY <2>1 DEF IInv, ClientTypes, SentType, AckedType, Ledger
<1>7. Carried'
  <2>1. UNCHANGED <<owner, tx, pending>>
    BY DEF Transaction, poolVars
  <2>2. \A d \in Clients : d # c => acked'[d] = acked[d] /\ sent'[d] = sent[d]
    BY DEF IInv, ClientTypes, SentType, AckedType, Transaction
  <2> QED
    BY <1>1, <2>1, <2>2 DEF IInv, Carried, InTx
<1>8. PoolTypes' /\ OtherTypes'
  BY SamePool, SameOthers DEF IInv, Transaction, poolVars, bounds, NotReading, Reading
<1> QED
  BY <1>2, <1>3, <1>4, <1>5, <1>6, <1>7, <1>8 DEF IInv

\* The connection comes clean out of the pool and the client has sent nothing: the transaction carries it all.
LEMMA BeginKeeps ==
    ASSUME IInv, NEW c \in Clients, NEW k \in Conns, Begin(c, k)
    PROVE  IInv'
<1>1. owner[k] = Nobody /\ stage[c] = "begin"
  BY DEF Begin, Idle
<1>2. \A j \in Conns : ~InTx(c, j)
  BY <1>1 DEF IInv, PoolClean
<1>3. owner' = [owner EXCEPT ![k] = c] /\ tx' = [tx EXCEPT ![k] = "open"] /\ UNCHANGED <<pending,
      rows, sent, acked, panics>>
  BY DEF Begin, bounds
<1>4. stage' = [stage EXCEPT ![c] = "fn"]
  BY DEF Begin
<1>5. ClientTypes'
  <2>1. StageType' /\ Waiting'
    BY <1>1, <1>4 DEF IInv, ClientTypes, StageType, Stages, Waiting, Begin
  <2> QED
    BY <2>1 DEF IInv, ClientTypes, WaitsType, LeftType, SentType, AckedType, OutcomeType, Begin
<1>6. PoolTypes'
  BY <1>3 DEF IInv, PoolTypes, OwnerType, TxType, PendingType, Holders, States
<1>7. PoolClean'
  <2>1. stage'[c] = "fn" /\ \A d \in Clients : d # c => stage'[d] = stage[d]
    BY <1>4 DEF IInv, ClientTypes, StageType
  <2>2. owner'[k] = c /\ \A j \in Conns : j # k => owner'[j] = owner[j] /\ tx'[j] = tx[j]
    BY <1>3 DEF IInv, PoolTypes, OwnerType, TxType
  <2> QED
    BY <1>2, <1>3, <2>1, <2>2, Markers DEF IInv, PoolClean, InTx
<1>8. Begun'
  BY <1>1, <1>4 DEF IInv, ClientTypes, StageType, Begun, Begin
<1>9. Carried'
  <2>1. owner'[k] = c /\ \A j \in Conns : j # k => owner'[j] = owner[j] /\ tx'[j] = tx[j]
    BY <1>3 DEF IInv, PoolTypes, OwnerType, TxType
  <2>2. pending[k] = {}
    BY <1>1 DEF IInv, PoolClean
  <2>3. sent[c] = {} /\ acked[c] = {}
    BY <1>1 DEF IInv, Begun, Ledger
  <2> QED
    BY <1>3, <2>1, <2>2, <2>3, SMTT(60) DEF IInv, Carried, InTx
<1>10. OtherTypes' /\ TransactionAtomic' /\ Ledger'
  BY SameOthers, SameAtomic, SameLedger DEF IInv, Begin, bounds, Idle
<1> QED
  BY <1>5, <1>6, <1>7, <1>8, <1>9, <1>10 DEF IInv

\* Nothing was sent, so that the error tells the truth.
LEMMA BeginFailsKeeps ==
    ASSUME IInv, NEW c \in Clients, BeginFails(c)
    PROVE  IInv'
<1>1. ClientTypes'
  BY ReturnsTyped DEF IInv, BeginFails, Outcomes
<1>2. OtherTypes'
  BY FaultTyped DEF IInv, OtherTypes, BeginFails, FailsOrEnded
<1>3. PoolClean'
  <2>1. UNCHANGED poolVars /\ UNCHANGED panics
    BY DEF BeginFails, FailsOrEnded, Returns, poolVars, Fault, bounds
  <2>2. \A k \in Conns : ~InTx(c, k)
    BY DEF IInv, PoolClean, BeginFails
  <2>3. \A d \in Clients : d # c => stage'[d] = stage[d]
    BY DEF IInv, ClientTypes, StageType, BeginFails, Returns
  <2> QED
    BY <2>1, <2>2, <2>3, HoldersClean DEF IInv, PoolClean
<1>4. TransactionAtomic'
  BY ErrorTruthful DEF IInv, BeginFails, Outcomes
<1>5. Begun'
  BY ReturnsBegun DEF IInv, BeginFails, Outcomes
<1>6. PoolTypes' /\ Ledger' /\ Carried'
  BY SamePool, SameLedger, SameCarried DEF IInv, BeginFails, poolVars, FailsOrEnded, Returns, Fault,
     bounds
<1> QED
  BY <1>1, <1>2, <1>3, <1>4, <1>5, <1>6 DEF IInv

\* The client keeps its transaction on the way to its end.
LEMMA FnReturnsKeeps ==
    ASSUME IInv, NEW c \in Clients, NEW next \in {"commit", "rollback"}, FnReturns(c, next)
    PROVE  IInv'
<1>1. stage[c] = "fn" /\ waits[c] = "" /\ stage' = [stage EXCEPT ![c] = next]
  BY DEF FnReturns, InCallback
<1>2. ClientTypes'
  <2>1. StageType' /\ Waiting'
    BY <1>1 DEF IInv, ClientTypes, StageType, Stages, Waiting, FnReturns
  <2> QED
    BY <2>1 DEF IInv, ClientTypes, WaitsType, LeftType, SentType, AckedType, OutcomeType, FnReturns
<1>3. PoolClean'
  <2>1. UNCHANGED poolVars /\ UNCHANGED panics
    BY DEF FnReturns, bounds
  <2>2. \A d \in Clients : stage'[d] \in {stage[d], "commit", "rollback"}
    BY <1>1 DEF IInv, ClientTypes, StageType
  <2> QED
    BY <2>1, <2>2, HoldersClean DEF IInv, PoolClean
<1>4. Begun'
  BY <1>1 DEF IInv, ClientTypes, StageType, Begun, FnReturns
<1>5. PoolTypes' /\ OtherTypes' /\ TransactionAtomic' /\ Ledger' /\ Carried'
  BY SamePool, SameOthers, SameAtomic, SameLedger, SameCarried DEF IInv, FnReturns, poolVars,
     bounds, InCallback, NotReading, Reading
<1> QED
  BY <1>2, <1>3, <1>4, <1>5 DEF IInv

\* The connection is lost, with a panic to show for it; the writes on it stay uncommitted.
LEMMA FnPanicsKeeps ==
    ASSUME IInv, NEW c \in Clients, FnPanics(c)
    PROVE  IInv'
<1>1. owner' = [k \in Conns |-> IF InTx(c, k) THEN Leaked ELSE owner[k]] /\ UNCHANGED <<tx, pending,
      rows>>
  BY DEF FnPanics
<1>2. panics' = panics + 1 /\ panics \in Nat
  BY DEF IInv, OtherTypes, FnPanics
<1>3. ClientTypes'
  BY ReturnsTyped DEF IInv, FnPanics, Outcomes
<1>4. PoolTypes'
  BY <1>1 DEF IInv, PoolTypes, OwnerType, TxType, PendingType, Holders
<1>5. OtherTypes'
  <2>1. panics' \in Nat
    BY <1>2
  <2> QED
    BY <2>1 DEF IInv, OtherTypes, FnPanics
<1>6. PoolClean'
  <2>1. \A d \in Clients : d # c => stage'[d] = stage[d]
    BY DEF IInv, ClientTypes, StageType, FnPanics, Returns
  <2>2. panics' > 0
    BY <1>2
  <2> QED
    BY <1>1, <2>1, <2>2, Markers DEF IInv, PoolClean, InTx
<1>7. TransactionAtomic'
  BY ErrorTruthful DEF IInv, FnPanics, InCallback, Outcomes
<1>8. Begun'
  BY ReturnsBegun DEF IInv, FnPanics, Outcomes
<1>9. Carried'
  BY <1>1, Markers DEF IInv, Carried, InTx, FnPanics, Returns
<1>10. Ledger'
  BY SameLedger DEF IInv, FnPanics, Returns, InCallback, NotReading, Reading
<1> QED
  BY <1>3, <1>4, <1>5, <1>6, <1>7, <1>8, <1>9, <1>10 DEF IInv

\* The transaction is open, so that it carries all the client has sent.
LEMMA CommitOkKeeps ==
    ASSUME IInv, NEW c \in Clients, NEW k \in Conns, CommitOk(c, k)
    PROVE  IInv'
<1>1. pending[k] = sent[c] /\ acked[c] = sent[c] /\ sent[c] \subseteq Writes
  BY DEF IInv, ClientTypes, SentType, Sets, Carried, CommitOk, Takes
<1>2. data' = data \cup sent[c] /\ UNCHANGED <<sent, acked, unused>>
  BY <1>1 DEF CommitOk, Returns
<1>3. ClientTypes'
  BY ReturnsTyped DEF IInv, CommitOk, Outcomes
<1>4. PoolTypes'
  BY ReleasedTyped DEF IInv, CommitOk
<1>5. OtherTypes'
  BY <1>1, <1>2, FaultTyped DEF IInv, OtherTypes, CommitOk
<1>6. PoolClean'
  <2>1. \A d \in Clients : d # c => stage'[d] = stage[d]
    BY DEF IInv, ClientTypes, StageType, CommitOk, Returns
  <2>2. \A j \in Conns : InTx(c, j) => j = k
    BY DEF IInv, PoolClean, CommitOk
  <2>3. Release({k}) /\ UNCHANGED panics
    BY DEF CommitOk, Fault, bounds
  <2> QED
    BY <2>1, <2>2, <2>3, ReleasedClean DEF IInv
<1>7. TransactionAtomic'
  <2>1. outcome'[c] = "ok" /\ \A d \in Clients : d # c => outcome'[d] = outcome[d]
    BY DEF IInv, ClientTypes, OutcomeType, CommitOk, Returns
  <2>2. Truthful(c)'
    BY <1>1, <1>2, <2>1 DEF Truthful
  <2>3. \A d \in Clients : d # c => sent[d] \cap sent[c] = {}
    BY DEF IInv, Ledger
  <2> QED
    BY <1>2, <2>1, <2>2, <2>3, OthersTruthful DEF IInv
<1>8. Begun'
  BY ReturnsBegun DEF IInv, CommitOk, Outcomes
<1>9. Ledger'
  BY <1>2 DEF IInv, Ledger
<1>10. Carried'
  BY ReleasedCarried DEF IInv, CommitOk, Returns
<1> QED
  BY <1>3, <1>4, <1>5, <1>6, <1>7, <1>8, <1>9, <1>10 DEF IInv

\* As CommitOk, but what is told is an error.
LEMMA CommitLostKeeps ==
    ASSUME IInv, NEW c \in Clients, NEW k \in Conns, CommitLost(c, k)
    PROVE  IInv'
<1>1. pending[k] = sent[c] /\ acked[c] = sent[c] /\ sent[c] \subseteq Writes
  BY DEF IInv, ClientTypes, SentType, Sets, Carried, CommitLost, Takes
<1>2. data' = data \cup sent[c] /\ UNCHANGED <<sent, acked, unused>>
  BY <1>1 DEF CommitLost, Returns
<1>3. ClientTypes'
  BY ReturnsTyped DEF IInv, CommitLost, Outcomes
<1>4. PoolTypes'
  BY ReleasedTyped DEF IInv, CommitLost
<1>5. OtherTypes'
  BY <1>1, <1>2, FaultTyped DEF IInv, OtherTypes, CommitLost
<1>6. PoolClean'
  <2>1. \A d \in Clients : d # c => stage'[d] = stage[d]
    BY DEF IInv, ClientTypes, StageType, CommitLost, Returns
  <2>2. \A j \in Conns : InTx(c, j) => j = k
    BY DEF IInv, PoolClean, CommitLost
  <2>3. Release({k}) /\ UNCHANGED panics
    BY DEF CommitLost, Fault, bounds
  <2> QED
    BY <2>1, <2>2, <2>3, ReleasedClean DEF IInv
<1>7. TransactionAtomic'
  <2>1. outcome'[c] = "commit error" /\ \A d \in Clients : d # c => outcome'[d] = outcome[d]
    BY DEF IInv, ClientTypes, OutcomeType, CommitLost, Returns
  <2>2. Truthful(c)'
    BY <1>1, <1>2, <2>1 DEF Truthful
  <2>3. \A d \in Clients : d # c => sent[d] \cap sent[c] = {}
    BY DEF IInv, Ledger
  <2> QED
    BY <1>2, <2>1, <2>2, <2>3, OthersTruthful DEF IInv
<1>8. Begun'
  BY ReturnsBegun DEF IInv, CommitLost, Outcomes
<1>9. Ledger'
  BY <1>2 DEF IInv, Ledger
<1>10. Carried'
  BY ReleasedCarried DEF IInv, CommitLost, Returns
<1> QED
  BY <1>3, <1>4, <1>5, <1>6, <1>7, <1>8, <1>9, <1>10 DEF IInv

\* Nothing is committed, and the connection is either released or left to database/sql.
LEMMA CommitRefusedKeeps ==
    ASSUME IInv, NEW c \in Clients, NEW k \in Conns, CommitRefused(c, k)
    PROVE  IInv'
<1>1. Release({k}) \/ (owner' = [owner EXCEPT ![k] = Watched] /\ UNCHANGED <<tx, pending, rows>>)
  BY DEF CommitRefused
<1>2. UNCHANGED <<sent, acked, panics>>
  BY DEF CommitRefused, Returns, Fault, bounds
<1>3. ClientTypes'
  BY ReturnsTyped DEF IInv, CommitRefused, Outcomes
<1>4. PoolTypes'
  <2>1. CASE Release({k})
    BY <2>1, ReleasedTyped DEF IInv
  <2>2. CASE owner' = [owner EXCEPT ![k] = Watched] /\ UNCHANGED <<tx, pending, rows>>
    BY <2>2 DEF IInv, PoolTypes, OwnerType, TxType, PendingType, Holders
  <2> QED
    BY <1>1, <2>1, <2>2
<1>5. OtherTypes'
  BY FaultTyped DEF IInv, OtherTypes, CommitRefused, FailsOrEnded
<1>6. PoolClean'
  <2>1. \A d \in Clients : d # c => stage'[d] = stage[d]
    BY DEF IInv, ClientTypes, StageType, CommitRefused, Returns
  <2>2. InTx(c, k) /\ \A j \in Conns : InTx(c, j) => j = k
    BY DEF IInv, PoolClean, CommitRefused
  <2>3. CASE Release({k})
    BY <1>2, <2>1, <2>2, <2>3, ReleasedClean DEF IInv
  <2>4. CASE owner' = [owner EXCEPT ![k] = Watched] /\ UNCHANGED <<tx, pending, rows>>
    BY <1>2, <2>1, <2>2, <2>4, Markers DEF IInv, PoolTypes, OwnerType, PoolClean, InTx
  <2> QED
    BY <1>1, <2>3, <2>4
<1>7. TransactionAtomic'
  BY ErrorTruthful DEF IInv, CommitRefused, Outcomes
<1>8. Begun'
  BY ReturnsBegun DEF IInv, CommitRefused, Outcomes
<1>9. Carried'
  <2>1. CASE Release({k})
    BY <1>2, <2>1, ReleasedCarried DEF IInv
  <2>2. CASE owner' = [owner EXCEPT ![k] = Watched] /\ UNCHANGED <<tx, pending, rows>>
    BY <1>2, <2>2, Markers DEF IInv, PoolTypes, OwnerType, Carried, InTx
  <2> QED
    BY <1>1, <2>1, <2>2
<1>10. Ledger'
  BY SameLedger DEF IInv, CommitRefused, Fault, Returns, bounds, Takes
<1> QED
  BY <1>3, <1>4, <1>5, <1>6, <1>7, <1>8, <1>9, <1>10 DEF IInv

\* There is no transaction any more, and nothing was committed.
LEMMA CommitTooLateKeeps ==
    ASSUME IInv, NEW c \in Clients, CommitTooLate(c)
    PROVE  IInv'
<1>1. ClientTypes'
  BY ReturnsTyped DEF IInv, CommitTooLate, Outcomes
<1>2. PoolClean'
  <2>1. UNCHANGED poolVars /\ UNCHANGED panics
    BY DEF CommitTooLate, Returns, poolVars, bounds
  <2>2. \A k \in Conns : ~InTx(c, k)
    BY DEF CommitTooLate
  <2>3. \A d \in Clients : d # c => stage'[d] = stage[d]
    BY DEF IInv, ClientTypes, StageType, CommitTooLate, Returns
  <2> QED
    BY <2>1, <2>2, <2>3, HoldersClean DEF IInv, PoolClean
<1>3. TransactionAtomic'
  BY ErrorTruthful DEF IInv, CommitTooLate, Outcomes
<1>4. Begun'
  BY ReturnsBegun DEF IInv, CommitTooLate, Outcomes
<1>5. PoolTypes' /\ OtherTypes' /\ Ledger' /\ Carried'
  BY SamePool, SameOthers, SameLedger, SameCarried DEF IInv, CommitTooLate, poolVars, bounds,
     Returns
<1> QED
  BY <1>1, <1>2, <1>3, <1>4, <1>5 DEF IInv

\* Nothing is committed, and whatever the client held goes back.
LEMMA RollbackKeeps ==
    ASSUME IInv, NEW c \in Clients, Rollback(c)
    PROVE  IInv'
<1>1. ClientTypes'
  BY ReturnsTyped DEF IInv, Rollback, Outcomes
<1>2. PoolTypes'
  BY ReleasedTyped DEF IInv, Rollback
<1>3. PoolClean'
  <2>1. \A d \in Clients : d # c => stage'[d] = stage[d]
    BY DEF IInv, ClientTypes, StageType, Rollback, Returns
  <2>2. Release({k \in Conns : InTx(c, k)}) /\ UNCHANGED panics
    BY DEF Rollback, bounds
  <2> QED
    BY <2>1, <2>2, ReleasedClean DEF IInv
<1>4. TransactionAtomic'
  BY ErrorTruthful DEF IInv, Rollback, Outcomes
<1>5. Begun'
  BY ReturnsBegun DEF IInv, Rollback, Outcomes
<1>6. Carried'
  BY ReleasedCarried DEF IInv, Rollback, Returns
<1>7. OtherTypes' /\ Ledger'
  BY SameOthers, SameLedger DEF IInv, Rollback, bounds, Returns
<1> QED
  BY <1>1, <1>2, <1>3, <1>4, <1>5, <1>6, <1>7 DEF IInv

\* database/sql releases a connection of somebody who can no longer commit.
LEMMA AwaitDoneKeeps ==
    ASSUME IInv, NEW k \in Conns, AwaitDone(k)
    PROVE  IInv'
<1>1. PoolTypes'
  BY ReleasedTyped DEF IInv, AwaitDone
<1>2. PoolClean'
  BY ReleasedClean DEF IInv, AwaitDone, clientVars, bounds
<1>3. Carried'
  BY ReleasedCarried DEF IInv, AwaitDone, clientVars
<1>4. ClientTypes' /\ OtherTypes' /\ TransactionAtomic' /\ Begun' /\ Ledger'
  BY SameClients, SameOthers, SameAtomic, SameBegun, SameLedger DEF IInv, AwaitDone, clientVars,
     bounds
<1> QED
  BY <1>1, <1>2, <1>3, <1>4 DEF IInv

\* The rows go, and their connection with them.
LEMMA ScanKeeps ==
    ASSUME IInv, NEW c \in Clients, NEW k \in Conns, Scan(c, k)
    PROVE  IInv'
<1>1. PoolTypes'
  BY ReleasedTyped DEF IInv, Scan
<1>2. PoolClean'
  BY ReleasedClean DEF IInv, Scan, clientVars, bounds
<1>3. Carried'
  BY ReleasedCarried DEF IInv, Scan, clientVars
<1>4. ClientTypes' /\ OtherTypes' /\ TransactionAtomic' /\ Begun' /\ Ledger'
  BY SameClients, SameOthers, SameAtomic, SameBegun, SameLedger DEF IInv, Scan, clientVars, bounds,
     Reading
<1> QED
  BY <1>1, <1>2, <1>3, <1>4 DEF IInv

\* The write joins what is sent, acknowledged and carried.
LEMMA TxExecKeeps ==
    ASSUME IInv, NEW c \in Clients, NEW k \in Conns, NEW w \in Writes, TxExec(c, k, w)
    PROVE  IInv'
<1>1. stage[c] = "fn" /\ InTx(c, k) /\ tx[k] # "idle" /\ owner[k] = c
  BY DEF TxExec, Execute, bounds, InCallback, Takes, NotReading, Reading, InTx
<1>2. sent' = [sent EXCEPT ![c] = @ \cup {w}] /\ unused' = unused \ {w} /\ w \in unused /\ UNCHANGED
      data
  BY DEF TxExec, Execute
<1>3. \A d \in Clients : d # c => sent'[d] = sent[d]
  BY <1>2 DEF IInv, ClientTypes, SentType
<1>4. sent'[c] = sent[c] \cup {w}
  BY <1>2 DEF IInv, ClientTypes, SentType
<1>5. acked' = [acked EXCEPT ![c] = @ \cup {w}]
  BY DEF TxExec
<1>6. acked'[c] = acked[c] \cup {w} /\ \A d \in Clients : d # c => acked'[d] = acked[d]
  BY <1>5 DEF IInv, ClientTypes, AckedType
<1>7. ClientTypes'
  <2>1. SentType' /\ AckedType'
    BY <1>2, <1>5 DEF IInv, ClientTypes, SentType, AckedType, Sets
  <2>2. UNCHANGED <<stage, live, waits, left, outcome>>
    BY DEF TxExec, Execute
  <2> QED
    BY <2>1, <2>2 DEF IInv, ClientTypes, StageType, WaitsType, LeftType, OutcomeType, Waiting
<1>8. PoolTypes'
  BY DEF IInv, PoolTypes, OwnerType, TxType, PendingType, Sets, TxExec, Execute, bounds, InCallback,
     Takes, NotReading, Reading
<1>9. OtherTypes'
  BY DEF IInv, OtherTypes, TxExec, Execute, Fault, bounds
<1>10. PoolClean'
  <2>1. \A j \in Conns : j # k => tx'[j] = tx[j] /\ pending'[j] = pending[j] /\ (j \in rows' => j
        \in rows)
    BY DEF IInv, PoolTypes, TxType, PendingType, TxExec, Execute, bounds, InCallback, Takes,
       NotReading, Reading
  <2>2. UNCHANGED <<owner, stage, panics>>
    BY DEF TxExec, Execute, bounds, InCallback, Takes, NotReading, Reading
  <2> QED
    BY <1>1, <2>1, <2>2, WithinClean DEF IInv
<1>11. TransactionAtomic'
  <2>1. outcome[c] = "none"
    BY <1>1 DEF IInv, Begun
  <2>2. Truthful(c) /\ data \cap unused = {}
    BY DEF IInv, TransactionAtomic, Ledger
  <2>3. UNCHANGED <<outcome, data>>
    BY DEF TxExec, Execute
  <2>4. Truthful(c)'
    BY <1>2, <1>4, <2>1, <2>2, <2>3 DEF Truthful
  <2>5. data' = data \cup {} /\ \A d \in Clients : sent[d] \cap {} = {}
    BY <2>3
  <2> QED
    BY <1>3, <1>6, <2>3, <2>4, <2>5, OthersTruthful DEF IInv
<1>12. Begun'
  <2>1. UNCHANGED <<stage, outcome>>
    BY DEF TxExec, Execute
  <2> QED
    BY <1>1, <1>3, <2>1 DEF IInv, Begun
<1>13. Ledger'
  <2>1. \A d \in Clients : sent[d] \cap unused = {}
    BY DEF IInv, Ledger
  <2> QED
    BY <1>2, <1>3, <1>4, <1>6, <2>1 DEF IInv, Ledger
<1>14. Carried'
  <2>1. \A j \in Conns : InTx(c, j) => j = k
    BY <1>1 DEF IInv, PoolClean
  <2>2. pending'[k] = pending[k] \cup {w} /\ UNCHANGED <<owner, tx>> /\ \A j \in Conns : j # k =>
        pending'[j] = pending[j]
    BY DEF IInv, PoolTypes, PendingType, TxExec, Execute
  <2>3. \A d \in Clients, j \in Conns : owner[j] = d /\ tx[j] = "open" => pending[j] = sent[d] /\
        acked[d] = sent[d] /\ (d = c <=> j = k)
    BY <1>1, <2>1 DEF IInv, Carried, InTx
  <2>4. ASSUME NEW d \in Clients, NEW j \in Conns, owner[j] = d, tx[j] = "open" PROVE pending'[j] =
        sent'[d] /\ acked'[d] = sent'[d]
    <3>1. CASE d = c
      <4>1. j = k /\ pending[k] = sent[c] /\ acked[c] = sent[c]
        BY <2>3, <2>4, <3>1
      <4>2. pending'[k] = pending[k] \cup {w}
        BY <2>2
      <4> QED
        BY <1>4, <1>6, <3>1, <4>1, <4>2
    <3>2. CASE d # c
      BY <1>3, <1>6, <2>2, <2>3, <2>4, <3>2
    <3> QED
      BY <3>1, <3>2
  <2>5. UNCHANGED owner /\ UNCHANGED tx
    BY <2>2
  <2> QED
    BY <2>4, <2>5 DEF Carried, InTx
<1> QED
  BY <1>7, <1>8, <1>9, <1>10, <1>11, <1>12, <1>13, <1>14 DEF IInv

\* The write is sent but not acknowledged, and the transaction no longer open.
LEMMA TxExecLostKeeps ==
    ASSUME IInv, NEW c \in Clients, NEW k \in Conns, NEW w \in Writes, TxExecLost(c, k, w)
    PROVE  IInv'
<1>1. stage[c] = "fn" /\ InTx(c, k) /\ tx[k] # "idle" /\ owner[k] = c
  BY DEF TxExecLost, Fault, Execute, InCallback, Takes, NotReading, Reading, InTx
<1>2. sent' = [sent EXCEPT ![c] = @ \cup {w}] /\ unused' = unused \ {w} /\ w \in unused /\ UNCHANGED
      data
  BY DEF TxExecLost, Execute
<1>3. \A d \in Clients : d # c => sent'[d] = sent[d]
  BY <1>2 DEF IInv, ClientTypes, SentType
<1>4. sent'[c] = sent[c] \cup {w}
  BY <1>2 DEF IInv, ClientTypes, SentType
<1>5. UNCHANGED acked
  BY DEF TxExecLost
<1>6. acked'[c] = acked[c] /\ \A d \in Clients : d # c => acked'[d] = acked[d]
  BY <1>5
<1>7. ClientTypes'
  <2>1. SentType' /\ AckedType'
    BY <1>2, <1>5 DEF IInv, ClientTypes, SentType, AckedType, Sets
  <2>2. UNCHANGED <<stage, live, waits, left, outcome>>
    BY DEF TxExecLost, Execute
  <2> QED
    BY <2>1, <2>2 DEF IInv, ClientTypes, StageType, WaitsType, LeftType, OutcomeType, Waiting
<1>8. PoolTypes'
  BY DEF IInv, PoolTypes, OwnerType, TxType, PendingType, States, Sets, TxExecLost, Fault, Execute,
     InCallback, Takes, NotReading, Reading
<1>9. OtherTypes'
  BY DEF IInv, OtherTypes, TxExecLost, Execute, Fault, bounds
<1>10. PoolClean'
  <2>1. \A j \in Conns : j # k => tx'[j] = tx[j] /\ pending'[j] = pending[j] /\ (j \in rows' => j
        \in rows)
    BY DEF IInv, PoolTypes, TxType, PendingType, TxExecLost, Fault, Execute, InCallback, Takes,
       NotReading, Reading
  <2>2. UNCHANGED <<owner, stage, panics>>
    BY DEF TxExecLost, Fault, Execute, InCallback, Takes, NotReading, Reading
  <2> QED
    BY <1>1, <2>1, <2>2, WithinClean DEF IInv
<1>11. TransactionAtomic'
  <2>1. outcome[c] = "none"
    BY <1>1 DEF IInv, Begun
  <2>2. Truthful(c) /\ data \cap unused = {}
    BY DEF IInv, TransactionAtomic, Ledger
  <2>3. UNCHANGED <<outcome, data>>
    BY DEF TxExecLost, Execute
  <2>4. Truthful(c)'
    BY <1>2, <1>4, <2>1, <2>2, <2>3 DEF Truthful
  <2>5. data' = data \cup {} /\ \A d \in Clients : sent[d] \cap {} = {}
    BY <2>3
  <2> QED
    BY <1>3, <1>6, <2>3, <2>4, <2>5, OthersTruthful DEF IInv
<1>12. Begun'
  <2>1. UNCHANGED <<stage, outcome>>
    BY DEF TxExecLost, Execute
  <2> QED
    BY <1>1, <1>3, <2>1 DEF IInv, Begun
<1>13. Ledger'
  <2>1. \A d \in Clients : sent[d] \cap unused = {}
    BY DEF IInv, Ledger
  <2> QED
    BY <1>2, <1>3, <1>4, <1>6, <2>1 DEF IInv, Ledger
<1>14. Carried'
  <2>1. \A j \in Conns : InTx(c, j) => j = k
    BY <1>1 DEF IInv, PoolClean
  <2>2. tx'[k] = "broken" /\ UNCHANGED owner /\ \A j \in Conns : j # k => tx'[j] = tx[j] /\
        pending'[j] = pending[j]
    BY DEF IInv, PoolTypes, TxType, PendingType, TxExecLost, Execute
  <2> QED
    BY <1>1, <1>3, <1>6, <2>1, <2>2 DEF IInv, Carried, InTx
<1> QED
  BY <1>7, <1>8, <1>9, <1>10, <1>11, <1>12, <1>13, <1>14 DEF IInv

\* The transaction is no longer open; nothing was sent.
LEMMA TxExecFailsKeeps ==
    ASSUME IInv, NEW c \in Clients, NEW k \in Conns, TxExecFails(c, k)
    PROVE  IInv'
<1>1. stage[c] = "fn" /\ InTx(c, k) /\ tx[k] # "idle" /\ owner[k] = c
  BY DEF TxExecFails, Fault, InCallback, clientVars, Takes, NotReading, Reading, InTx
<1>2. PoolTypes'
  BY DEF IInv, PoolTypes, OwnerType, TxType, PendingType, States, Sets, TxExecFails, Fault,
     InCallback, clientVars, Takes, NotReading, Reading
<1>3. OtherTypes'
  BY FaultTyped DEF IInv, OtherTypes, TxExecFails
<1>4. PoolClean'
  <2>1. \A j \in Conns : j # k => tx'[j] = tx[j] /\ pending'[j] = pending[j] /\ (j \in rows' => j
        \in rows)
    BY DEF IInv, PoolTypes, TxType, PendingType, TxExecFails, Fault, InCallback, clientVars, Takes,
       NotReading, Reading
  <2>2. UNCHANGED <<owner, stage, panics>>
    BY DEF TxExecFails, Fault, InCallback, clientVars, Takes, NotReading, Reading
  <2> QED
    BY <1>1, <2>1, <2>2, WithinClean DEF IInv
<1>5. Carried'
  <2>1. tx'[k] # "open" /\ UNCHANGED <<owner, sent, acked>> /\ \A j \in Conns : j # k => tx'[j] =
        tx[j] /\ pending'[j] = pending[j]
    BY DEF IInv, PoolTypes, TxType, PendingType, TxExecFails, Fault, InCallback, clientVars, Takes,
       NotReading, Reading
  <2> QED
    BY <1>1, <2>1, ClosedCarried DEF IInv
<1>6. ClientTypes' /\ TransactionAtomic' /\ Begun' /\ Ledger'
  BY SameClients, SameAtomic, SameBegun, SameLedger DEF IInv, TxExecFails, clientVars, Fault,
     InCallback, Takes, NotReading, Reading
<1> QED
  BY <1>2, <1>3, <1>4, <1>5, <1>6 DEF IInv

\* The transaction is gone with its writes, and the callback, which hears of it, fails.
LEMMA TxRolledBackKeeps ==
    ASSUME IInv, NEW c \in Clients, NEW k \in Conns, TxRolledBack(c, k)
    PROVE  IInv'
<1>1. stage[c] = "fn" /\ waits[c] = "" /\ tx[k] # "idle" /\ owner[k] = c
  BY DEF TxRolledBack, InCallback, InTx
<1>2. /\ tx' = [tx EXCEPT ![k] = "failed"] /\ pending' = [pending EXCEPT ![k] = {}] /\ rows' = rows \ {k}
      /\ stage' = [stage EXCEPT ![c] = "rollback"]
      /\ UNCHANGED <<live, waits, sent, acked, outcome, left, owner, data, unused, load, panics>>
  BY DEF TxRolledBack, Fault
<1>3. ClientTypes'
  <2>1. StageType' /\ Waiting'
    BY <1>1, <1>2 DEF IInv, ClientTypes, StageType, Stages, Waiting
  <2> QED
    BY <1>2, <2>1 DEF IInv, ClientTypes, WaitsType, LeftType, SentType, AckedType, OutcomeType
<1>4. PoolTypes'
  BY <1>2 DEF IInv, PoolTypes, OwnerType, TxType, PendingType, States, Sets
<1>5. OtherTypes'
  BY FaultTyped DEF IInv, OtherTypes, TxRolledBack
<1>6. tx'[k] = "failed" /\ \A j \in Conns : j # k => tx'[j] = tx[j] /\ pending'[j] = pending[j]
  BY <1>2 DEF IInv, PoolTypes, TxType, PendingType
<1>7. PoolClean'
  <2>1. \A d \in Clients : stage'[d] \in {stage[d], "rollback"}
    BY <1>2 DEF IInv, ClientTypes, StageType
  <2> QED
    BY <1>1, <1>2, <1>6, <2>1, WithinClean DEF IInv
<1>8. Begun'
  BY <1>1, <1>2 DEF IInv, ClientTypes, StageType, Begun
<1>9. TransactionAtomic' /\ Ledger' /\ Carried'
  BY <1>1, <1>2, <1>6, SameAtomic, SameLedger, ClosedCarried DEF IInv
<1> QED
  BY <1>3, <1>4, <1>5, <1>7, <1>8, <1>9 DEF IInv

\* A result is being read on a connection that its client holds.
LEMMA TxQueryKeeps ==
    ASSUME IInv, NEW c \in Clients, NEW k \in Conns, TxQuery(c, k)
    PROVE  IInv'
<1>1. stage[c] = "fn" /\ InTx(c, k) /\ tx[k] # "idle" /\ owner[k] = c
  BY DEF TxQuery, InCallback, clientVars, bounds, NotReading, Reading, InTx
<1>2. PoolTypes'
  BY DEF IInv, PoolTypes, OwnerType, TxType, PendingType, States, Sets, TxQuery, InCallback,
     clientVars, bounds, NotReading, Reading
<1>3. PoolClean'
  <2>1. \A j \in Conns : j # k => tx'[j] = tx[j] /\ pending'[j] = pending[j] /\ (j \in rows' => j
        \in rows)
    BY DEF IInv, PoolTypes, TxType, PendingType, TxQuery, InCallback, clientVars, bounds,
       NotReading, Reading
  <2>2. UNCHANGED <<owner, stage, panics>>
    BY DEF TxQuery, InCallback, clientVars, bounds, NotReading, Reading
  <2> QED
    BY <1>1, <2>1, <2>2, WithinClean DEF IInv
<1>4. ClientTypes' /\ OtherTypes' /\ TransactionAtomic' /\ Begun' /\ Ledger' /\ Carried'
  BY SameClients, SameOthers, SameAtomic, SameBegun, SameLedger, SameCarried DEF IInv, TxQuery,
     clientVars, bounds, InCallback, NotReading, Reading
<1> QED
  BY <1>2, <1>3, <1>4 DEF IInv

\* The result is read.
LEMMA TxScanKeeps ==
    ASSUME IInv, NEW c \in Clients, NEW k \in Conns, TxScan(c, k)
    PROVE  IInv'
<1>1. stage[c] = "fn" /\ InTx(c, k) /\ tx[k] # "idle" /\ owner[k] = c
  BY DEF TxScan, InCallback, clientVars, bounds, NotReading, Reading, InTx
<1>2. PoolTypes'
  BY DEF IInv, PoolTypes, OwnerType, TxType, PendingType, States, Sets, TxScan, InCallback,
     clientVars, bounds, NotReading, Reading
<1>3. PoolClean'
  <2>1. \A j \in Conns : j # k => tx'[j] = tx[j] /\ pending'[j] = pending[j] /\ (j \in rows' => j
        \in rows)
    BY DEF IInv, PoolTypes, TxType, PendingType, TxScan, InCallback, clientVars, bounds, NotReading,
       Reading
  <2>2. UNCHANGED <<owner, stage, panics>>
    BY DEF TxScan, InCallback, clientVars, bounds, NotReading, Reading
  <2> QED
    BY <1>1, <2>1, <2>2, WithinClean DEF IInv
<1>4. ClientTypes' /\ OtherTypes' /\ TransactionAtomic' /\ Begun' /\ Ledger' /\ Carried'
  BY SameClients, SameOthers, SameAtomic, SameBegun, SameLedger, SameCarried DEF IInv, TxScan,
     clientVars, bounds, InCallback, NotReading, Reading
<1> QED
  BY <1>2, <1>3, <1>4 DEF IInv

\* The transaction is gone, and its client can no longer commit.
LEMMA ConnectionBreaksKeeps ==
    ASSUME IInv, NEW k \in Conns, ConnectionBreaks(k)
    PROVE  IInv'
<1>1. owner[k] \in Clients /\ tx[k] # "idle"
  BY DEF ConnectionBreaks
<1>2. PoolTypes'
  BY DEF IInv, PoolTypes, OwnerType, TxType, PendingType, States, Sets, ConnectionBreaks, Fault,
     clientVars
<1>3. OtherTypes'
  BY FaultTyped DEF IInv, OtherTypes, ConnectionBreaks
<1>4. PoolClean'
  <2>1. \A j \in Conns : j # k => tx'[j] = tx[j] /\ pending'[j] = pending[j] /\ (j \in rows' => j
        \in rows)
    BY DEF IInv, PoolTypes, TxType, PendingType, ConnectionBreaks, Fault, clientVars
  <2>2. UNCHANGED <<owner, stage, panics>>
    BY DEF ConnectionBreaks, Fault, clientVars
  <2> QED
    BY <1>1, <2>1, <2>2, WithinClean DEF IInv
<1>5. Carried'
  <2>1. tx'[k] # "open" /\ UNCHANGED <<owner, sent, acked>> /\ \A j \in Conns : j # k => tx'[j] =
        tx[j] /\ pending'[j] = pending[j]
    BY DEF IInv, PoolTypes, TxType, PendingType, ConnectionBreaks, Fault, clientVars
  <2> QED
    BY <1>1, <2>1, ClosedCarried DEF IInv
<1>6. ClientTypes' /\ TransactionAtomic' /\ Begun' /\ Ledger'
  BY SameClients, SameAtomic, SameBegun, SameLedger DEF IInv, ConnectionBreaks, clientVars, Fault
<1> QED
  BY <1>2, <1>3, <1>4, <1>5, <1>6 DEF IInv

\* The client waits outside Transaction or in its callback.
LEMMA AskKeeps ==
    ASSUME IInv, NEW c \in Clients, NEW what \in {"exec", "query"}, Ask(c, what)
    PROVE  IInv'
<1>1. ClientTypes'
  <2>1. WaitsType'
    BY DEF IInv, ClientTypes, WaitsType, Calls, Ask, Served
  <2>2. Waiting'
    BY DEF IInv, ClientTypes, WaitsType, Waiting, Ask, Served
  <2>3. LeftType'
    BY OneLess DEF IInv, ClientTypes, Ask
  <2>4. live' \subseteq Clients /\ UNCHANGED <<stage, sent, acked, outcome>>
    BY DEF IInv, ClientTypes, Ask
  <2> QED
    BY <2>1, <2>2, <2>3, <2>4 DEF IInv, ClientTypes, StageType, SentType, AckedType, OutcomeType
<1>2. PoolClean'
  BY SamePoolClean DEF IInv, Ask, NotReading, poolVars, bounds, Reading
<1>3. PoolTypes' /\ OtherTypes' /\ TransactionAtomic' /\ Begun' /\ Ledger' /\ Carried'
  BY SamePool, SameOthers, SameAtomic, SameBegun, SameLedger, SameCarried DEF IInv, Ask, poolVars,
     bounds, NotReading, Reading
<1> QED
  BY <1>1, <1>2, <1>3 DEF IInv

\* The call returns without a connection.
LEMMA AskFailsKeeps ==
    ASSUME IInv, NEW c \in Clients, AskFails(c)
    PROVE  IInv'
<1>1. ClientTypes'
  <2>1. WaitsType'
    BY DEF IInv, ClientTypes, WaitsType, Calls, AskFails, Served
  <2>2. Waiting'
    BY DEF IInv, ClientTypes, WaitsType, Waiting, AskFails, Served
  <2>3. UNCHANGED <<stage, live, sent, acked, outcome, left>>
    BY DEF AskFails, Served
  <2> QED
    BY <2>1, <2>2, <2>3 DEF IInv, ClientTypes, StageType, LeftType, SentType, AckedType, OutcomeType
<1>2. OtherTypes'
  BY FaultTyped DEF IInv, OtherTypes, AskFails, FailsOrEnded
<1>3. PoolClean'
  BY SamePoolClean DEF IInv, AskFails, FailsOrEnded, Served, poolVars, Fault, bounds
<1>4. PoolTypes' /\ TransactionAtomic' /\ Begun' /\ Ledger' /\ Carried'
  BY SamePool, SameAtomic, SameBegun, SameLedger, SameCarried DEF IInv, AskFails, poolVars,
     FailsOrEnded, Served, Fault, bounds
<1> QED
  BY <1>1, <1>2, <1>3, <1>4 DEF IInv

\* Only the context of one call ends.
LEMMA ContextEndsKeeps ==
    ASSUME IInv, NEW c \in Clients, ContextEnds(c)
    PROVE  IInv'
<1>1. ClientTypes'
  BY DEF IInv, ClientTypes, StageType, WaitsType, LeftType, SentType, AckedType, OutcomeType,
     Waiting, ContextEnds
<1>2. OtherTypes'
  BY FaultTyped DEF IInv, OtherTypes, ContextEnds
<1>3. PoolClean'
  BY SamePoolClean DEF IInv, ContextEnds, Fault, poolVars
<1>4. PoolTypes' /\ TransactionAtomic' /\ Begun' /\ Ledger' /\ Carried'
  BY SamePool, SameAtomic, SameBegun, SameLedger, SameCarried DEF IInv, ContextEnds, poolVars, Fault
<1> QED
  BY <1>1, <1>2, <1>3, <1>4 DEF IInv

\* The write was unused, so that it belongs to no transaction.
LEMMA ExecKeeps ==
    ASSUME IInv, NEW c \in Clients, NEW k \in Conns, NEW w \in Writes, Exec(c, k, w)
    PROVE  IInv'
<1>1. ClientTypes'
  <2>1. WaitsType'
    BY DEF IInv, ClientTypes, WaitsType, Calls, Exec, Served
  <2>2. Waiting'
    BY DEF IInv, ClientTypes, WaitsType, Waiting, Exec, Served
  <2>3. UNCHANGED <<stage, live, sent, acked, outcome, left>>
    BY DEF Exec, Served
  <2> QED
    BY <2>1, <2>2, <2>3 DEF IInv, ClientTypes, StageType, LeftType, SentType, AckedType, OutcomeType
<1>2. OtherTypes'
  BY DEF IInv, OtherTypes, Exec, bounds
<1>3. PoolClean'
  BY SamePoolClean DEF IInv, Exec, Served, Idle, poolVars, bounds
<1>4. TransactionAtomic'
  <2>1. Truthful(c) /\ \A d \in Clients : sent[d] \cap unused = {}
    BY DEF IInv, TransactionAtomic, Ledger
  <2>2. UNCHANGED <<outcome, acked, sent>> /\ data' = data \cup ({w} \cap unused)
    BY DEF Exec, Served
  <2>3. Truthful(c)'
    BY <2>1, <2>2 DEF Truthful
  <2>4. \A d \in Clients : sent[d] \cap ({w} \cap unused) = {}
    BY <2>1
  <2> QED
    BY <2>2, <2>3, <2>4, OthersTruthful DEF IInv
<1>5. Ledger'
  <2>1. UNCHANGED <<acked, sent>> /\ data' = data \cup ({w} \cap unused) /\ unused' = unused \ {w}
    BY DEF Exec, Served
  <2> QED
    BY <2>1 DEF IInv, Ledger
<1>6. PoolTypes' /\ Begun' /\ Carried'
  BY SamePool, SameBegun, SameCarried DEF IInv, Exec, poolVars, Served, Idle, bounds
<1> QED
  BY <1>1, <1>2, <1>3, <1>4, <1>5, <1>6 DEF IInv

\* The connection comes clean out of the pool, without a transaction.
LEMMA QueryKeeps ==
    ASSUME IInv, NEW c \in Clients, NEW k \in Conns, Query(c, k)
    PROVE  IInv'
<1>1. owner[k] = Nobody /\ tx[k] = "idle" /\ pending[k] = {}
  BY DEF IInv, PoolClean, Query, Idle
<1>2. owner'[k] = c /\ UNCHANGED <<tx, pending>> /\ \A j \in Conns : j # k => owner'[j] = owner[j]
  BY DEF IInv, PoolTypes, OwnerType, Query
<1>3. ClientTypes'
  <2>1. WaitsType'
    BY DEF IInv, ClientTypes, WaitsType, Calls, Query, Served
  <2>2. Waiting'
    BY DEF IInv, ClientTypes, WaitsType, Waiting, Query, Served
  <2>3. UNCHANGED <<stage, live, sent, acked, outcome, left>>
    BY DEF Query, Served
  <2> QED
    BY <2>1, <2>2, <2>3 DEF IInv, ClientTypes, StageType, LeftType, SentType, AckedType, OutcomeType
<1>4. PoolTypes'
  BY DEF IInv, PoolTypes, OwnerType, TxType, PendingType, Holders, Query
<1>5. PoolClean'
  <2>1. UNCHANGED <<stage, panics>> /\ rows' = rows \cup {k}
    BY DEF Query, Served, bounds
  <2> QED
    BY <1>1, <1>2, <2>1, Markers DEF IInv, PoolClean, InTx
<1>6. Carried'
  <2>1. UNCHANGED <<sent, acked>>
    BY DEF Query, Served
  <2> QED
    BY <1>1, <1>2, <2>1 DEF IInv, Carried, InTx
<1>7. OtherTypes' /\ TransactionAtomic' /\ Begun' /\ Ledger'
  BY SameOthers, SameAtomic, SameBegun, SameLedger DEF IInv, Query, bounds, Served, Idle
<1> QED
  BY <1>3, <1>4, <1>5, <1>6, <1>7 DEF IInv

--------------------------------------------------------------------------------
(* All steps                                                                 *)

\* Nothing is held, sent or told yet.
LEMMA InitIInv == Init => IInv
<1> SUFFICES ASSUME Init
             PROVE  IInv
  OBVIOUS
<1>1. load.calls \in [Clients -> Nat]
  BY SessionsAssumption DEF Init, LoadType
<1>2. ClientTypes
  BY <1>1 DEF Init, ClientTypes, StageType, WaitsType, LeftType, SentType, AckedType, OutcomeType,
     Waiting, Stages, Calls, Outcomes, Sets
<1>3. PoolTypes
  BY DEF Init, PoolTypes, OwnerType, TxType, PendingType, Holders, States, Sets
<1>4. OtherTypes
  BY DEF Init, OtherTypes
<1>5. PoolClean
  BY Markers DEF Init, PoolClean, InTx
<1>6. TransactionAtomic
  BY DEF Init, TransactionAtomic, Truthful
<1>7. Begun /\ Ledger /\ Carried
  BY Markers DEF Init, Begun, Ledger, Carried, InTx
<1> QED
  BY <1>2, <1>3, <1>4, <1>5, <1>6, <1>7 DEF IInv

\* A stuttering step changes nothing.
LEMMA StutterKeeps == IInv /\ UNCHANGED vars => IInv'
  BY SameClients, SamePool, SameOthers, SamePoolClean, SameAtomic, SameBegun, SameLedger, SameCarried
     DEF IInv, vars, clientVars, poolVars, bounds

\* Every disjunct of Next keeps the invariant, by its lemma.
LEMMA NextKeeps == IInv /\ Next => IInv'
<1> SUFFICES ASSUME IInv, Next
             PROVE  IInv'
  OBVIOUS
<1>1. ASSUME NEW c \in Clients, OfTransaction(c)
      PROVE  IInv'
  BY <1>1, TransactionKeeps, BeginFailsKeeps, FnPanicsKeeps, CommitTooLateKeeps, RollbackKeeps,
     FnReturnsKeeps, BeginKeeps, CommitOkKeeps, CommitRefusedKeeps, CommitLostKeeps DEF OfTransaction
<1>2. ASSUME NEW c \in Clients, OfTx(c)
      PROVE  IInv'
  BY <1>2, TxExecFailsKeeps, TxRolledBackKeeps, TxQueryKeeps, TxScanKeeps, TxExecKeeps, TxExecLostKeeps DEF OfTx
<1>3. ASSUME NEW c \in Clients, OfDB(c)
      PROVE  IInv'
  BY <1>3, AskFailsKeeps, AskKeeps, QueryKeeps, ScanKeeps, ExecKeeps DEF OfDB
<1> QED
  BY <1>1, <1>2, <1>3, ContextEndsKeeps, ConnectionBreaksKeeps, AwaitDoneKeeps DEF Next

\* The invariant holds throughout.
LEMMA Invariance == Spec => []IInv
<1>1. IInv /\ [Next]_vars => IInv'
  BY NextKeeps, StutterKeeps
<1> QED
  BY InitIInv, <1>1, PTL DEF Spec

--------------------------------------------------------------------------------
(* The theorems                                                              *)

\* Every variable keeps its type, and a client waits for the pool only outside
\* Transaction or in its callback.
THEOREM TypeCorrect == Spec => []TypeOK
<1>1. IInv => TypeOK
  BY Types DEF IInv
<1> QED
  BY Invariance, <1>1, PTL

\* What Transaction returns is what happened to the callback's writes: all of them are
\* committed, or none (Transaction of both drivers).
THEOREM TransactionsAtomic == Spec => []TransactionAtomic
<1>1. IInv => TransactionAtomic
  BY DEF IInv
<1> QED
  BY Invariance, <1>1, PTL

\* The pool hands out clean connections only, clients hold transactions only in their
\* callback and while they end it, one each, and only a panic loses a connection.
THEOREM PoolStaysClean == Spec => []PoolClean
<1>1. IInv => PoolClean
  BY DEF IInv
<1> QED
  BY Invariance, <1>1, PTL

\* Committed data grows by all the writes of one transaction, while that commits, or by
\* one write that was executed outside.
Together ==
    /\ data \subseteq data'
    /\ data' # data =>
          \/ \E c \in Clients : stage[c] = "commit" /\ data' = data \cup sent[c]
          \/ \E c \in Clients, w \in unused : waits[c] = "exec" /\ data' = data \cup {w}

\* Data changes in CommitOk and CommitLost, by what the open transaction carries, and in Exec.
LEMMA NextTogether == IInv /\ [Next]_vars => [Together]_vars
<1> SUFFICES ASSUME IInv, Next
             PROVE  Together
  OBVIOUS
<1>1. ASSUME NEW c \in Clients, OfTransaction(c)
      PROVE  Together
  <2>1. ASSUME NEW k \in Conns, CommitOk(c, k) \/ CommitLost(c, k)
        PROVE  Together
    <3>1. pending[k] = sent[c]
      BY <2>1 DEF CommitOk, CommitLost, IInv, Carried, Takes
    <3>2. stage[c] = "commit" /\ data' = data \cup sent[c]
      BY <2>1, <3>1 DEF CommitOk, CommitLost
    <3> QED
      BY <3>2 DEF Together
  <2>2. CASE UNCHANGED data
    BY <2>2 DEF Together
  <2>3. \/ \E k \in Conns : CommitOk(c, k) \/ CommitLost(c, k)
        \/ UNCHANGED data
    BY <1>1 DEF OfTransaction, Transaction, BeginFails, FnPanics, CommitTooLate, Rollback, FnReturns,
       Begin, CommitRefused
  <2> QED
    BY <2>1, <2>2, <2>3
<1>2. ASSUME NEW c \in Clients, OfTx(c)
      PROVE  UNCHANGED data
  BY <1>2 DEF OfTx, TxExecFails, TxRolledBack, TxQuery, TxScan, TxExec, TxExecLost, Execute
<1>3. ASSUME NEW c \in Clients, OfDB(c)
      PROVE  Together
  <2>1. ASSUME NEW k \in Conns, NEW w \in Writes, Exec(c, k, w)
        PROVE  Together
    <3>1. waits[c] = "exec" /\ data' = data \cup ({w} \cap unused)
      BY <2>1 DEF Exec
    <3>2. CASE w \in unused
      BY <3>1, <3>2 DEF Together
    <3>3. CASE w \notin unused
      BY <3>1, <3>3 DEF Together
    <3> QED
      BY <3>2, <3>3
  <2>2. CASE UNCHANGED data
    BY <2>2 DEF Together
  <2>3. \/ \E k \in Conns, w \in Writes : Exec(c, k, w)
        \/ UNCHANGED data
    BY <1>3 DEF OfDB, AskFails, Ask, Query, Scan
  <2> QED
    BY <2>1, <2>2, <2>3
<1>4. ASSUME NEW c \in Clients, ContextEnds(c)
      PROVE  UNCHANGED data
  BY <1>4 DEF ContextEnds
<1>5. ASSUME NEW k \in Conns, ConnectionBreaks(k) \/ AwaitDone(k)
      PROVE  UNCHANGED data
  BY <1>5 DEF ConnectionBreaks, AwaitDone
<1>6. UNCHANGED data => Together
  BY DEF Together
<1> QED
  BY <1>1, <1>2, <1>3, <1>4, <1>5, <1>6 DEF Next

\* Commits are whole and never taken back (WritesTogether).
THEOREM WritesStayTogether == Spec => WritesTogether
<1>1. [][Together]_vars <=> WritesTogether
  BY DEF Together, WritesTogether
<1> QED
  BY Invariance, NextTogether, <1>1, PTL DEF Spec

--------------------------------------------------------------------------------
(* Prepared statements: the inductive invariant                              *)

KnownType    == known \in [Conns -> [Names -> SQLs \cup {None}]]
EntriesType  == entries \in Seq(Statements)
CheckingType == checking \in 0 .. Len(entries)
ReadyType    == ready \in 0 .. Len(entries)

PreparedTypes == KnownType /\ EntriesType /\ CheckingType /\ ReadyType /\ handles \subseteq Statements

\* A name that a connection knows stands for valid SQL, and for a statement the program holds.
KnownValid ==
    \A k \in Conns, n \in Names : known[k][n] # None =>
        /\ known[k][n] \notin Broken
        /\ \E s \in Held : s.name = n /\ s.sql = known[k][n]

\* The entries that PrepareAll has passed are valid.
Passed == \A i \in 1 .. checking - 1 : entries[i].sql \notin Broken

PInv == PreparedTypes /\ KnownValid /\ Passed /\ ReadyMeansValid

--------------------------------------------------------------------------------

\* The registry is a sequence of statements, and a program holds statements only.
LEMMA HeldAreStatements ==
    ASSUME PreparedTypes
    PROVE  /\ Held \subseteq Statements
           /\ \A i \in 1 .. Len(entries) : entries[i] \in Held
  BY DEF PreparedTypes, EntriesType, Held

\* To prepare a statement, as Conn.Prepare does it, keeps what the connections know valid.
LEMMA RememberValid ==
    ASSUME PreparedTypes, KnownValid, NEW k \in Conns, NEW s \in Statements, Prepares(k, s), Remember(k, s),
           s \in Held', Held \subseteq Held'
    PROVE  s.sql \notin Broken /\ KnownType' /\ KnownValid'
<1>1. s.name \in Names /\ s.sql \in SQLs /\ s.sql # None
  BY PreparedAssumption DEF Names, SQLs
<1>2. s.sql \notin Broken
  BY <1>1 DEF Prepares, KnownValid
<1>3. KnownType'
  BY <1>1 DEF PreparedTypes, KnownType, Remember
<1>4. known'[k][s.name] = s.sql
  BY <1>1 DEF PreparedTypes, KnownType, Remember
<1>5. \A j \in Conns, n \in Names : j # k \/ n # s.name => known'[j][n] = known[j][n]
  BY <1>1 DEF PreparedTypes, KnownType, Remember
<1>6. KnownValid'
  <2> SUFFICES ASSUME NEW j \in Conns, NEW n \in Names, known'[j][n] # None
               PROVE  /\ known'[j][n] \notin Broken
                      /\ \E t \in Held' : t.name = n /\ t.sql = known'[j][n]
    BY DEF KnownValid
  <2>1. CASE j = k /\ n = s.name
    BY <1>2, <1>4, <2>1
  <2>2. CASE j # k \/ n # s.name
    BY <1>5, <2>2 DEF KnownValid
  <2> QED
    BY <2>1, <2>2
<1> QED
  BY <1>2, <1>3, <1>6

\* Nothing is prepared, registered or validated at first.
LEMMA InitPInv == PreparedInit => PInv
  BY DEF PreparedInit, PInv, PreparedTypes, KnownType, EntriesType, CheckingType, ReadyType, KnownValid,
     Passed, ReadyMeansValid

\* A connection that was replaced knows no name: what the others know stays valid.
LEMMA ForgettingValid ==
    ASSUME PreparedTypes, KnownValid, NEW ks \in SUBSET Conns, known' = Forgetting(ks),
           UNCHANGED <<entries, handles>>
    PROVE  KnownType' /\ KnownValid'
<1>1. KnownType'
  BY DEF PreparedTypes, KnownType, Forgetting
<1>2. Held' = Held
  BY DEF Held
<1> QED
  BY <1>1, <1>2 DEF KnownValid, Forgetting

\* Connections that are replaced forget; the rest is as it was.
LEMMA SessionKeepsPInv ==
    ASSUME PInv, Session
    PROVE  PInv'
<1>1. PICK closed \in SUBSET {k \in Conns : owner[k] # Nobody /\ owner'[k] = Nobody} :
          known' = Forgetting(closed)
  BY DEF Session
<1>2. UNCHANGED <<entries, checking, ready, handles>>
  BY DEF Session
<1>3. KnownType' /\ KnownValid'
  BY <1>1, <1>2, ForgettingValid DEF PInv
<1> QED
  BY <1>2, <1>3 DEF PInv, PreparedTypes, EntriesType, CheckingType, ReadyType, Passed, ReadyMeansValid

\* A statement more is registered: those before it stay where they are.
LEMMA RegisterKeepsPInv ==
    ASSUME PInv, NEW s \in Statements, Register(s)
    PROVE  PInv'
<1>1. entries' = Append(entries, s) /\ UNCHANGED <<known, checking, ready, handles>> /\ checking = 0
  BY DEF Register
<1>2. entries \in Seq(Statements) /\ ready \in 0 .. Len(entries)
  BY DEF PInv, PreparedTypes, EntriesType, ReadyType
<1>3. /\ entries' \in Seq(Statements)
      /\ Len(entries') = Len(entries) + 1
      /\ \A i \in 1 .. Len(entries) : entries'[i] = entries[i]
  BY <1>1, <1>2
<1>4. Held \subseteq Held'
  BY <1>1, <1>2, <1>3 DEF Held
<1>5. PreparedTypes'
  BY <1>1, <1>2, <1>3 DEF PInv, PreparedTypes, KnownType, EntriesType, CheckingType, ReadyType
<1>6. KnownValid'
  BY <1>1, <1>4 DEF PInv, KnownValid
<1>7. Passed' /\ ReadyMeansValid'
  BY <1>1, <1>2, <1>3 DEF PInv, Passed, ReadyMeansValid
<1> QED
  BY <1>5, <1>6, <1>7 DEF PInv

\* PrepareAll begins; with an empty registry it is done.
LEMMA PrepareAllKeepsPInv ==
    ASSUME PInv, PrepareAll
    PROVE  PInv'
<1>1. UNCHANGED <<known, entries, handles>> /\ checking' \in {0, 1} /\ entries \in Seq(Statements)
  BY DEF PInv, PreparedTypes, EntriesType, PrepareAll
<1>2. \/ entries = <<>> /\ checking' = 0 /\ ready' = 0
      \/ entries # <<>> /\ checking' = 1 /\ ready' = ready
  BY DEF PrepareAll
<1>3. CheckingType' /\ ReadyType'
  BY <1>1, <1>2 DEF PInv, PreparedTypes, CheckingType, ReadyType
<1>4. KnownValid'
  BY <1>1 DEF PInv, KnownValid, Held
<1>5. Passed'
  BY <1>2 DEF Passed
<1>6. ReadyMeansValid'
  BY <1>1, <1>2 DEF PInv, ReadyMeansValid
<1> QED
  BY <1>1, <1>3, <1>4, <1>5, <1>6 DEF PInv, PreparedTypes, KnownType, EntriesType

\* The entry under validation is prepared: it is valid too, and with the last one all are.
LEMMA ValidateKeepsPInv ==
    ASSUME PInv, NEW k \in Conns, Validate(k)
    PROVE  PInv'
<1> DEFINE s == entries[checking]
<1>1. checking \in 1 .. Len(entries) /\ entries \in Seq(Statements) /\ ready \in 0 .. Len(entries)
  BY DEF PInv, PreparedTypes, EntriesType, CheckingType, ReadyType, Validate
<1>2. s \in Statements /\ s \in Held
  BY <1>1 DEF Held
<1>3. Prepares(k, s) /\ Remember(k, s) /\ UNCHANGED <<entries, handles>>
  BY DEF Validate, Entry
<1>4. Held' = Held
  BY <1>3 DEF Held
<1>5. s.sql \notin Broken /\ KnownType' /\ KnownValid'
  BY <1>2, <1>3, <1>4, RememberValid DEF PInv
<1>6. \/ checking = Len(entries) /\ checking' = 0 /\ ready' = Len(entries)
      \/ checking # Len(entries) /\ checking' = checking + 1 /\ ready' = ready
  BY DEF Validate, Last
<1>7. CheckingType' /\ ReadyType'
  BY <1>1, <1>3, <1>6 DEF CheckingType, ReadyType
<1>8. \A i \in 1 .. checking : entries[i].sql \notin Broken
  BY <1>1, <1>5 DEF PInv, Passed
<1>9. Passed' /\ ReadyMeansValid'
  BY <1>1, <1>3, <1>6, <1>8 DEF PInv, Passed, ReadyMeansValid
<1> QED
  BY <1>3, <1>5, <1>7, <1>9 DEF PInv, PreparedTypes, EntriesType

\* The first error ends PrepareAll, and what was ready before stays ready.
LEMMA EndKeepsPInv ==
    ASSUME PInv, NEW error, EndsWith(error), KnownType', KnownValid'
    PROVE  PInv'
  BY DEF PInv, PreparedTypes, EntriesType, CheckingType, ReadyType, Passed, ReadyMeansValid, EndsWith

\* The server refuses, it cannot be reached, or the context has ended: the connections that are
\* left know what they knew.
LEMMA FailureKeepsPInv ==
    ASSUME PInv, AcquireFails \/ \E k \in Conns : ValidateRefused(k) \/ PrepareBreaks(k)
    PROVE  PInv'
<1>1. ASSUME NEW k \in Conns, PrepareBreaks(k)
      PROVE  PInv'
  <2>1. PICK error \in Mishaps : EndsWith(error)
    BY <1>1 DEF PrepareBreaks
  <2>2. known' = Forgetting({k}) /\ {k} \in SUBSET Conns /\ UNCHANGED <<entries, handles>>
    BY <1>1, <2>1 DEF PrepareBreaks, EndsWith
  <2> QED
    BY <2>1, <2>2, ForgettingValid, EndKeepsPInv DEF PInv
<1>2. CASE AcquireFails \/ \E k \in Conns : ValidateRefused(k)
  <2>1. PICK error : EndsWith(error) /\ UNCHANGED known
    BY <1>2 DEF AcquireFails, ValidateRefused
  <2>2. KnownType' /\ KnownValid'
    BY <2>1 DEF PInv, PreparedTypes, KnownType, KnownValid, Held, EndsWith
  <2> QED
    BY <2>1, <2>2, EndKeepsPInv
<1> QED
  BY <1>1, <1>2

\* An idle connection is replaced.
LEMMA ReplacedKeepsPInv ==
    ASSUME PInv, NEW k \in Conns, Replaced(k)
    PROVE  PInv'
<1>1. known' = Forgetting({k}) /\ {k} \in SUBSET Conns /\ UNCHANGED <<entries, checking, ready, handles>>
  BY DEF Replaced
<1>2. KnownType' /\ KnownValid'
  BY <1>1, ForgettingValid DEF PInv
<1> QED
  BY <1>1, <1>2 DEF PInv, PreparedTypes, EntriesType, CheckingType, ReadyType, Passed, ReadyMeansValid

\* A statement that was prepared at once is valid.
LEMMA PrepareKeepsPInv ==
    ASSUME PInv, NEW k \in Conns, NEW s \in Statements, Prepare(k, s)
    PROVE  PInv'
<1>1. handles' = handles \cup {s} /\ UNCHANGED <<entries, checking, ready>>
  BY DEF Prepare
<1>2. s \in Held' /\ Held \subseteq Held'
  BY <1>1 DEF Held
<1>3. s.sql \notin Broken /\ KnownType' /\ KnownValid'
  BY <1>2, RememberValid DEF PInv, Prepare
<1>4. PreparedTypes'
  BY <1>1, <1>3 DEF PInv, PreparedTypes, EntriesType, CheckingType, ReadyType
<1>5. Passed' /\ ReadyMeansValid'
  BY <1>1, <1>3 DEF PInv, Passed, ReadyMeansValid
<1> QED
  BY <1>3, <1>4, <1>5 DEF PInv

\* Nothing of the registry changes when a statement runs, or when nothing happens.
LEMMA UnpreparedKeepsPInv ==
    PInv /\ UNCHANGED <<known, entries, checking, ready, handles>> => PInv'
  BY DEF PInv, PreparedTypes, KnownType, EntriesType, CheckingType, ReadyType, KnownValid, Held, Passed,
     ReadyMeansValid

\* The invariant holds throughout.
LEMMA PreparedInvariance == PreparedSpec => []PInv
<1>1. PInv /\ [PreparedNext]_allVars => PInv'
  <2> SUFFICES ASSUME PInv, [PreparedNext]_allVars
               PROVE  PInv'
    OBVIOUS
  <2>1. CASE \E k \in Conns : \E s \in Held : Run(k, s)
    BY <2>1, UnpreparedKeepsPInv DEF Run
  <2>2. CASE UNCHANGED allVars \/ ContextExpires
    BY <2>2, UnpreparedKeepsPInv DEF allVars, ContextExpires
  <2> QED
    BY <2>1, <2>2, SessionKeepsPInv, RegisterKeepsPInv, PrepareAllKeepsPInv, ValidateKeepsPInv,
       FailureKeepsPInv, ReplacedKeepsPInv, PrepareKeepsPInv DEF PreparedNext
<1> QED
  BY InitPInv, <1>1, PTL DEF PreparedSpec

--------------------------------------------------------------------------------
(* The theorems                                                              *)

\* Whatever PrepareAll passed before it returned nil, and whatever PrepareSelect and
\* PrepareExec returned, the server can prepare.
THEOREM ReadyIsValid == PreparedSpec => []ReadyMeansValid
<1>1. PInv => ReadyMeansValid
  BY DEF PInv
<1> QED
  BY PreparedInvariance, <1>1, PTL

\* To the pool, a statement that is refused in a transaction is a call of Tx that fails; the
\* other steps of the registry are none.
LEMMA PreparedSteps == [PreparedNext]_allVars => [Next]_vars
<1> SUFFICES ASSUME PreparedNext \/ UNCHANGED allVars
             PROVE  Next \/ UNCHANGED vars
  OBVIOUS
<1>1. ASSUME NEW k \in Conns, NEW s \in Held, Run(k, s)
      PROVE  Next \/ UNCHANGED vars
  <2>1. CASE UNCHANGED vars
    BY <2>1
  <2>2. ASSUME NEW c \in Clients, TxExecFails(c, k)
        PROVE  Next
    BY <2>2 DEF Next, OfTx
  <2> QED
    BY <1>1, <2>1, <2>2 DEF Run
<1>2. CASE Session
  BY <1>2 DEF Session
<1>3. CASE \/ PrepareAll \/ ContextExpires \/ AcquireFails
           \/ \E s \in Statements : Register(s)
           \/ \E k \in Conns : \/ Validate(k) \/ ValidateRefused(k) \/ PrepareBreaks(k) \/ Replaced(k)
                               \/ \E s \in Statements : Prepare(k, s)
  BY <1>3 DEF Register, PrepareAll, ContextExpires, Validate, EndsWith, ValidateRefused, AcquireFails,
     PrepareBreaks, Prepare, Replaced
<1>4. CASE UNCHANGED allVars
  BY <1>4 DEF allVars
<1> QED
  BY <1>1, <1>2, <1>3, <1>4 DEF PreparedNext

\* With prepared statements on the same pool, transactions stay all or nothing, and
\* connections clean.
THEOREM PreparedKeepsSessions == PreparedSpec => [](TypeOK /\ TransactionAtomic /\ PoolClean)
<1>1. PreparedInit => IInv
  BY InitIInv DEF PreparedInit
<1>2. IInv /\ [PreparedNext]_allVars => IInv'
  BY PreparedSteps, NextKeeps, StutterKeeps
<1>3. IInv => TypeOK /\ TransactionAtomic /\ PoolClean
  BY Types DEF IInv
<1> QED
  BY <1>1, <1>2, <1>3, PTL DEF PreparedSpec

\* What ErrorsHaveCause says of a step.
FailsForCause ==
    \A i \in 1 .. Len(entries) :
        (checking = i /\ checking' = 0 /\ verdict' = Refused) =>
           \/ entries[i].sql \in Broken
           \/ \E s \in Held \ {entries[i]} : s.name = entries[i].name

\* Only ValidateRefused ends PrepareAll so, and it meets a name that another statement took.
LEMMA NextFailsForCause == PInv /\ [PreparedNext]_allVars => [FailsForCause]_allVars
<1> SUFFICES ASSUME PInv, PreparedNext, NEW i \in 1 .. Len(entries),
                    checking = i, checking' = 0, verdict' = Refused
             PROVE  \/ entries[i].sql \in Broken
                    \/ \E s \in Held \ {entries[i]} : s.name = entries[i].name
  BY DEF FailsForCause
<1>1. entries \in Seq(Statements) /\ i # 0
  BY DEF PInv, PreparedTypes, EntriesType
<1>2. ~\E k \in Conns : Validate(k)
  BY <1>1 DEF Validate, Refused
<1>3. ~AcquireFails /\ ~\E k \in Conns : PrepareBreaks(k)
  BY DEF AcquireFails, PrepareBreaks, EndsWith, Mishaps, Refused
<1>4. PICK k \in Conns : ValidateRefused(k)
  BY <1>1, <1>2, <1>3 DEF PreparedNext, Session, Register, PrepareAll, ContextExpires, Prepare, Replaced, Run
<1>5. entries[i] \in Statements
  BY <1>1
<1>6. entries[i].name \in Names
  BY <1>5 DEF Names
<1>7. ~Prepares(k, entries[i])
  BY <1>4 DEF ValidateRefused, Entry
<1>8. CASE known[k][entries[i].name] # None
  BY <1>6, <1>7, <1>8 DEF PInv, KnownValid, Prepares
<1>9. CASE known[k][entries[i].name] = None
  BY <1>7, <1>9 DEF Prepares
<1> QED
  BY <1>8, <1>9

\* PrepareAll is refused because the SQL is wrong or another statement has taken the name: on
\* an unchanged registry, what passed is not refused again, on whichever connection.
THEOREM RefusalsHaveCause == PreparedSpec => ErrorsHaveCause
<1>1. [][FailsForCause]_allVars <=> ErrorsHaveCause
  BY DEF FailsForCause, ErrorsHaveCause
<1> QED
  BY PreparedInvariance, NextFailsForCause, <1>1, PTL DEF PreparedSpec

--------------------------------------------------------------------------------
(* What an execution runs                                                    *)

\* A run is of a statement, and one that was validated gets its own SQL.
RanType == \A r \in ran : r.asked \in Statements /\ (r.validated => r.got = r.asked.sql)

\* On any connection: what is prepared there under a name is of a statement that the program
\* holds, so that a name which is the text of s stands for the text of s.
LEMMA ValidatedExecutes ==
    ASSUME LabelsApart, PInv, NEW k \in Conns, NEW s \in Held, Validated(s)
    PROVE  SQLRun(k, s) = s.sql
<1>1. Held \subseteq Statements
  BY HeldAreStatements DEF PInv
<1>2. s.sql \in SQLs \ Broken
  BY <1>1 DEF SQLs, Validated, PInv, ReadyMeansValid
<1>3. ASSUME s.sql \in Names, known[k][s.sql] # None
      PROVE  known[k][s.sql] = s.sql
  <2>1. PICK t \in Held : t.name = s.sql /\ t.sql = known[k][s.sql]
    BY <1>3 DEF PInv, KnownValid
  <2> QED
    BY <1>1, <2>1 DEF LabelsApart
<1>4. Meant(k, s.sql) = s.sql
  BY <1>3 DEF Meant
<1> QED
  BY <1>2, <1>4 DEF SQLRun, Executes

\* Every step keeps that: Run alone writes ran.
LEMMA NextKeepsRan ==
    ASSUME LabelsApart
    PROVE  PInv /\ RanType /\ [PreparedNext]_allVars => RanType'
<1> SUFFICES ASSUME PInv, RanType, [PreparedNext]_allVars
             PROVE  RanType'
  OBVIOUS
<1>1. ASSUME NEW k \in Conns, NEW s \in Held, Run(k, s)
      PROVE  RanType'
  <2>1. s \in Statements
    BY HeldAreStatements DEF PInv
  <2>2. Validated(s) => SQLRun(k, s) = s.sql
    BY ValidatedExecutes
  <2>3. ran' = {[asked |-> s, validated |-> Validated(s), got |-> SQLRun(k, s)]}
    BY <1>1 DEF Run
  <2> QED
    BY <2>1, <2>2, <2>3 DEF RanType
<1>2. CASE UNCHANGED ran
  BY <1>2 DEF RanType
<1> QED
  BY <1>1, <1>2 DEF PreparedNext, Session, Register, PrepareAll, ContextExpires, Validate, EndsWith,
     ValidateRefused, AcquireFails, PrepareBreaks, Prepare, Replaced, allVars

\* If no name is the SQL of another statement, a statement that was validated is neither
\* refused nor taken for another one, wherever it runs: on the connection that prepared it,
\* on one that did not, on one that replaced either, and beside names prepared for other SQL.
THEOREM ValidatedStatementsRun ==
    ASSUME LabelsApart
    PROVE  PreparedSpec => []ValidatedRuns
<1>1. PreparedInit => RanType
  BY DEF PreparedInit, RanType
<1>2. RanType => ValidatedRuns
  BY DEF RanType, ValidatedRuns
<1> QED
  BY PreparedInvariance, NextKeepsRan, <1>1, <1>2, PTL DEF PreparedSpec

================================================================================
