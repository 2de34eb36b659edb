SPECIFICATION Spec
CONSTANTS
    Starts <- MCStarts
    Dialects <- MCDialects
    ColumnLists <- MCColumnLists
    Conditions <- MCConditions
    Joined <- MCJoined
    Sources <- MCSources
    Orders <- MCOrders
    Counts <- MCCounts
    Locking <- MCLocking
    LockTables <- MCLockTables
    KeyLists <- MCKeyLists
    KeyColumn <- id
    Rows <- MCRows
    Slices <- MCSlices
    Assigned <- MCAssigned
    Targets <- MCTargets
    Aliasing = TRUE
    Rendered <- RenderStatement
PROPERTY BuildersNeverChange
CHECK_DEADLOCK FALSE
