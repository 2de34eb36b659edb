CONSTANTS
    Alphabet <- MCAlphabet
    Schemas <- MCSchemas
    Evolves <- MCEvolves
    MaxMigrations = 3
SPECIFICATION Spec
INVARIANTS TypeOK StatementsApply Converges EnumsConverge DataKept
CHECK_DEADLOCK FALSE
