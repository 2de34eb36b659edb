CONSTANTS
    p1 = p1  p2 = p2  p3 = p3
    Procs = {p1, p2}
    TableOrder <- MCTables
    Dialects = {"mysql"}
    Declared = "bare"
    Calls <- MCTwoMigrate
    Targets <- MCSameTargets
    Starts <- MCStarts
    MaxFaults = 0
SPECIFICATION Spec
PROPERTIES StaysCurrent
CHECK_DEADLOCK FALSE
