CONSTANTS
    Alphabet <- MCAlphabet
    Schemas <- IndexSchemas
    Evolves <- AnyEvolution
    MaxMigrations = 2
SPECIFICATION Spec
INVARIANTS Converges
CHECK_DEADLOCK FALSE
