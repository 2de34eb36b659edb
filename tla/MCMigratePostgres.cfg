CONSTANTS
    p1 = p1  p2 = p2  p3 = p3
    Procs = {p1, p2, p3}
    TableOrder <- MCTables
    Dialects = {"postgres", "sqlite"}
    Declared = "bare"
    Calls <- MCTwoAndStatus
    Targets <- MCTargets
    Starts <- MCStarts
    MaxFaults = 1
SPECIFICATION Spec
INVARIANTS TypeOK HistoryExplainsSchema StatusConsistent
PROPERTIES SuccessMeansCurrent StaysCurrent ImplementsLedger
CHECK_DEADLOCK FALSE
