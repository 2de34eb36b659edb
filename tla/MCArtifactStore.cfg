SPECIFICATION Spec
CONSTANTS
    p1 = p1
    p2 = p2
    n1 = n1
    bad = bad
    a1 = a1
    a2 = a2
    big = big
    s1 = s1
    s2 = s2
    None = None
    Partial = Partial
    Procs = {p1, p2}
    Names = {n1}
    BadNames = {bad}
    Payloads = {a1, a2, big}
    Oversized = {big}
    InvalidSQL = {a2}
    StagingIds = {s1, s2}
    ForeignChoices <- MCForeign
    MaxArtifacts = 1
    MaxArtifactDirEntries = 2
SYMMETRY Symmetry
INVARIANTS
    TypeOK
    PublishedWhole
    CreatedIsMine
    OneWinner
    StagingOwned
    ReadUntorn
    ListingExact
PROPERTIES
    PublishedForever
    ImplementsRegistry
