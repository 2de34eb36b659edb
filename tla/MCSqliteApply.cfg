SPECIFICATION Spec
CONSTANTS
    Alphabet <- MCAlphabet
    Schemas <- MCSchemas
    Evolves <- MCEvolves
    MaxMigrations = 3
INVARIANTS
    StatementsApply
    Converges
CHECK_DEADLOCK FALSE
