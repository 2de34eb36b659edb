CONSTANTS
    p1 = p1  p2 = p2  p3 = p3
    Procs = {p1, p2}
    TableOrder <- MCTables
    Dialects = {"mysql"}
    Declared = "qualified"
    Calls <- MCTwo
    Targets <- MCSameTargets
    Starts <- MCStarts
    MaxFaults = 2
SPECIFICATION FairSpec
PROPERTIES SuccessMeansCurrent StaysCurrent RetriesConverge
CHECK_DEADLOCK FALSE
