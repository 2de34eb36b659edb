--------------------------- MODULE ArtifactRegistry ---------------------------
(***************************************************************************)
(* What an ArtifactStore promises its callers: migration artifacts are     *)
(* published whole, under a name of their own, and never change again.     *)
(* Every call takes effect in one step, as in MemArtifactStore, whose      *)
(* methods run under one mutex.  FSArtifactStore (module ArtifactStore)    *)
(* is shown to implement this module.                                      *)
(***************************************************************************)

CONSTANTS
    Procs,      \* callers
    Names,      \* migration directory names
    Payloads,   \* the bytes of one artifact: migration.sql and snapshot.json
    None        \* no artifact

VARIABLES
    artifacts,  \* [Names -> Payloads \cup {None}]
    outcome,    \* how the last call of each caller ended
    got         \* the artifact the last call read, if it read one

vars == <<artifacts, outcome, got>>

\* An error of any code leaves the store as it was.
Errors == {"invalid_migration_name", "invalid_path",
           "resource_limit", "duplicate_migration", "empty_migrations_dir",
           "unsupported_artifact_format", "invalid_statement_segmentation",
           "cancelled"}

\* Calls in progress, lists and resolved roots do not concern this module.
Quiet == {"none", "resolved", "listed"}

Outcomes == Errors \cup Quiet \cup {"created", "read"}

Init ==
    /\ artifacts = [n \in Names |-> None]
    /\ outcome = [p \in Procs |-> "none"]
    /\ got = [p \in Procs |-> None]

Create(p, n, a) ==
    /\ artifacts[n] = None
    /\ artifacts' = [artifacts EXCEPT ![n] = a]
    /\ outcome' = [outcome EXCEPT ![p] = "created"]
    /\ got' = [got EXCEPT ![p] = None]

Read(p, n) ==
    /\ artifacts[n] # None
    /\ got' = [got EXCEPT ![p] = artifacts[n]]
    /\ outcome' = [outcome EXCEPT ![p] = "read"]
    /\ UNCHANGED artifacts

\* A call that returns an error, one that has begun and not yet answered, and
\* the calls that only look at the directory.
Other(p) ==
    /\ \E o \in Errors \cup Quiet : outcome' = [outcome EXCEPT ![p] = o]
    /\ got' = [got EXCEPT ![p] = None]
    /\ UNCHANGED artifacts

Next ==
    \E p \in Procs :
        \/ \E n \in Names, a \in Payloads : Create(p, n, a)
        \/ \E n \in Names : Read(p, n)
        \/ Other(p)

Spec == Init /\ [][Next]_vars

===============================================================================
