CONSTANTS
    Alphabet <- MCAlphabet
    Schemas <- UniqueSchemas
    Evolves <- AnyEvolution
    MaxMigrations = 2
SPECIFICATION Spec
INVARIANTS StatementsApply
CHECK_DEADLOCK FALSE
