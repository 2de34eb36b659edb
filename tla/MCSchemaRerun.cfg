CONSTANTS
    Alphabet <- MCAlphabet
    Schemas <- SteadySchemas
    Evolves <- AnyEvolution
    MaxMigrations = 2
SPECIFICATION Spec
INVARIANTS RerunIsNoop
CHECK_DEADLOCK FALSE
