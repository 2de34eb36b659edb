SPECIFICATION MCSpec
CONSTANTS
    c1 = c1
    c2 = c2
    k1 = k1
    k2 = k2
    k3 = k3
    Clients = {c1, c2}
    Conns = {k1, k2, k3}
    Writes = {w1, w2}
    Loads <- MCLoads
    Statements <- MCStatements
    Broken = {"typo"}
INVARIANTS
    TypeOK
    TransactionAtomic
    PoolClean
    ReadyMeansValid
    ValidatedRuns
PROPERTIES
    WritesTogether
    ErrorsHaveCause
    CallsReturn
CHECK_DEADLOCK FALSE
