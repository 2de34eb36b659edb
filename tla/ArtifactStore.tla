----------------------------- MODULE ArtifactStore -----------------------------
(***************************************************************************)
(* FSArtifactStore of kit/filemigrate: callers in several processes share  *)
(* one migrations directory and have only the file system to coordinate    *)
(* through.  CreateArtifact stages both files in a temporary sibling and   *)
(* renames it; every file-system call is a step of its own, so the steps   *)
(* of several callers interleave and a process may die between any two.    *)
(***************************************************************************)
EXTENDS FiniteSets, Naturals

CONSTANTS
    Procs,           \* calling processes
    Names,           \* valid migration directory names
    BadNames,        \* names validateArtifactName rejects
    Payloads,        \* artifact bytes; one value stands for both files
    Oversized,       \* payloads over the byte caps
    InvalidSQL,      \* payloads validateMigrationSQL rejects
    StagingIds,      \* names os.MkdirTemp may draw: bounds how many exist at once
    ForeignChoices,  \* what else may already lie in the root directory
    MaxArtifacts, MaxArtifactDirEntries,
    None, Partial    \* no file or directory; a file created and not yet filled

ForeignKinds == {"sidecar", "stray_file", "symlink", "dot_dir"}

File == Payloads \cup {None, Partial}
Dir  == [sql : File, snap : File]

ASSUME ArtifactAssumption ==
    /\ Oversized \subseteq Payloads
    /\ InvalidSQL \subseteq Payloads
    /\ ForeignChoices \subseteq SUBSET ForeignKinds
    /\ BadNames \cap Names = {}
    /\ Names \cap (ForeignKinds \cup StagingIds) = {}   \* a valid name has no leading dot
    /\ None \notin Payloads /\ Partial \notin Payloads /\ None # Partial
    /\ None \notin Dir
    /\ None \notin Names
    /\ None \notin StagingIds
    /\ MaxArtifacts \in Nat /\ MaxArtifactDirEntries \in Nat

VARIABLES
    rootDir,    \* does the migrations directory exist
    foreign,    \* entries of the root that no CreateArtifact made
    published,  \* artifact directories: [Names -> Dir \cup {None}]
    staging,    \* .grizzle-staging-* directories: [StagingIds -> Dir \cup {None}]
    handle,     \* State of the ArtifactRoot each caller holds
    pc, frame,  \* control and locals of each caller's call
    result,     \* what the last call returned
    orphans     \* history: staging directories their call has abandoned

disk == <<rootDir, foreign, published, staging, orphans>>
vars == <<disk, handle, pc, frame, result>>

Empty    == [sql |-> None, snap |-> None]
Whole(a) == [sql |-> a, snap |-> a]

\* Arguments and locals; sql and snap are the bytes ReadArtifact holds.
NoFrame == [name |-> None, payload |-> None, sid |-> None, sql |-> None, snap |-> None,
            before |-> {}, toStat |-> {}, listing |-> {}]

Present(dirs) == {d \in DOMAIN dirs : dirs[d] # None}
Entries       == foreign \cup Present(published) \cup Present(staging)
EntryNames    == ForeignKinds \cup Names \cup StagingIds

Frame == [name : Names \cup {None}, payload : Payloads \cup {None},
          sid : StagingIds \cup {None}, sql : File, snap : File,
          before : SUBSET EntryNames, toStat : SUBSET EntryNames,
          listing : SUBSET EntryNames]

Writing == {"create_sql", "fill_sql", "create_snap", "fill_snap", "rename", "cleanup"}
Calling == Writing \cup {"lstat", "mkdirtemp", "read_dir", "read_sql", "read_snap",
                         "scan", "stat"}

Errors == {"invalid_migration_name", "invalid_path",
           "resource_limit", "duplicate_migration", "empty_migrations_dir",
           "unsupported_artifact_format", "invalid_statement_segmentation",
           "cancelled"}

Results == Errors \cup {"none", "resolved", "listed", "created", "read"}

\* Types of the variables.
TypeOK ==
    /\ rootDir \in BOOLEAN
    /\ foreign \in SUBSET ForeignKinds
    /\ published \in [Names -> Dir \cup {None}]
    /\ staging \in [StagingIds -> Dir \cup {None}]
    /\ orphans \in SUBSET StagingIds
    /\ handle \in [Procs -> {"unresolved", "absent", "present"}]
    /\ pc \in [Procs -> Calling \cup {"idle"}]
    /\ frame \in [Procs -> Frame]
    /\ result \in [Procs -> Results]

Init ==
    /\ rootDir \in BOOLEAN
    /\ foreign \in IF rootDir THEN ForeignChoices ELSE {{}}
    /\ published = [n \in Names |-> None]
    /\ staging = [s \in StagingIds |-> None]
    /\ orphans = {}
    /\ handle = [p \in Procs |-> "unresolved"]
    /\ pc = [p \in Procs |-> "idle"]
    /\ frame = [p \in Procs |-> NoFrame]
    /\ result = [p \in Procs |-> "none"]

--------------------------------------------------------------------------------
(* Control of one caller                                                     *)

At(p, step) == pc[p] = step

Goto(p, step) == pc' = [pc EXCEPT ![p] = step] /\ UNCHANGED result

Begin(p, step, locals) ==
    /\ At(p, "idle")
    /\ pc' = [pc EXCEPT ![p] = step]
    /\ frame' = [frame EXCEPT ![p] = locals]
    /\ result' = [result EXCEPT ![p] = "none"]

Return(p, r) ==
    /\ pc' = [pc EXCEPT ![p] = "idle"]
    /\ result' = [result EXCEPT ![p] = r]

\* Return an error: nothing of the call survives.
Fail(p, code) ==
    /\ Return(p, code)
    /\ frame' = [frame EXCEPT ![p] = NoFrame]

--------------------------------------------------------------------------------
(* ResolveRoot                                                               *)

Modes == {"read_for_check", "read_for_migrate", "ensure_for_write"}

\* RootEnsureForWrite makes the directory; the two read modes differ in what
\* an absent root means to them.
ResolveRoot(p, mode) ==
    /\ At(p, "idle")
    /\ rootDir' = (rootDir \/ mode = "ensure_for_write")
    /\ IF ~rootDir' /\ mode = "read_for_migrate"
       THEN Fail(p, "empty_migrations_dir") /\ UNCHANGED handle
       ELSE /\ Fail(p, "resolved")
            /\ handle' = [handle EXCEPT ![p] = IF rootDir' THEN "present" ELSE "absent"]
    /\ UNCHANGED <<foreign, published, staging, orphans>>

\* A cancelled context; a symlink on the way, or something that is no directory.
ResolveReject(p) ==
    /\ At(p, "idle")
    /\ \E r \in {"cancelled", "invalid_path"} : Fail(p, r)
    /\ UNCHANGED <<disk, handle>>

--------------------------------------------------------------------------------
(* CreateArtifact                                                            *)

\* Every call looks at its context first.  (A negative limit or an empty
\* directory name, invalid_config, ends a call as early and is not told apart.)
EarlyErrors == {"cancelled"}

\* What the checks before the first file-system call may say.
CreateRejections(n, a) ==
    EarlyErrors \cup (IF n \in BadNames THEN {"invalid_migration_name"}
                        ELSE IF a \in Oversized THEN {"resource_limit"} ELSE {})

CreateReject(p, n, a) ==
    /\ At(p, "idle")
    /\ handle[p] # "unresolved"
    /\ \E r \in CreateRejections(n, a) : Fail(p, r)
    /\ UNCHANGED <<disk, handle>>

CreateBegin(p, n, a) ==
    /\ handle[p] # "unresolved"
    /\ a \notin Oversized
    /\ Begin(p, "lstat", [NoFrame EXCEPT !.name = n, !.payload = a])
    /\ UNCHANGED <<disk, handle>>

\* os.Lstat(target): only a name that is there at this instant is a duplicate.
CreateLstat(p) ==
    /\ At(p, "lstat")
    /\ IF published[frame[p].name] # None
       THEN Fail(p, "duplicate_migration")
       ELSE Goto(p, "mkdirtemp") /\ UNCHANGED frame
    /\ UNCHANGED <<disk, handle>>

\* Mutant: a fixed staging name made with os.MkdirAll, taken over if it exists.
CreateMkdirTempFixed(p) ==
    /\ At(p, "mkdirtemp")
    /\ rootDir
    /\ \E s \in StagingIds :
        /\ staging' = [staging EXCEPT ![s] = Empty]
        /\ frame' = [frame EXCEPT ![p].sid = s]
    /\ Goto(p, "create_sql")
    /\ UNCHANGED <<rootDir, foreign, published, orphans, handle>>

CreateMkdirTemp(p) ==
    /\ At(p, "mkdirtemp")
    /\ rootDir
    /\ \E s \in StagingIds :
        /\ staging[s] = None
        /\ staging' = [staging EXCEPT ![s] = Empty]
        /\ frame' = [frame EXCEPT ![p].sid = s]
    /\ Goto(p, "create_sql")
    /\ UNCHANGED <<rootDir, foreign, published, orphans, handle>>

\* No root directory, or an I/O error: nothing is staged yet.
CreateMkdirTempFails(p) ==
    /\ At(p, "mkdirtemp")
    /\ Fail(p, "invalid_path")
    /\ UNCHANGED <<disk, handle>>

\* writeFile: os.Create leaves an empty file that f.Write and f.Close then fill.
Write(p, staged, step) ==
    /\ staging' = [staging EXCEPT ![frame[p].sid] = staged]
    /\ Goto(p, step)
    /\ UNCHANGED <<rootDir, foreign, published, orphans, handle, frame>>

Staged(p) == staging[frame[p].sid]

CreateSQL(p) ==
    /\ At(p, "create_sql")
    /\ Write(p, [Staged(p) EXCEPT !.sql = Partial], "fill_sql")

FillSQL(p) ==
    /\ At(p, "fill_sql")
    /\ Write(p, [Staged(p) EXCEPT !.sql = frame[p].payload], "create_snap")

\* Mutant: the rename no longer waits for the snapshot's Write and Close.
CreateSnapUnfilled(p) ==
    /\ At(p, "create_snap")
    /\ Write(p, [Staged(p) EXCEPT !.snap = Partial], "rename")

CreateSnap(p) ==
    /\ At(p, "create_snap")
    /\ Write(p, [Staged(p) EXCEPT !.snap = Partial], "fill_snap")

FillSnap(p) ==
    /\ At(p, "fill_snap")
    /\ Write(p, [Staged(p) EXCEPT !.snap = frame[p].payload], "rename")

\* Any of the four may fail (a full disk), and so may the rename.
WriteFails(p) ==
    /\ pc[p] \in Writing \ {"cleanup"}
    /\ Goto(p, "cleanup")
    /\ UNCHANGED <<disk, handle, frame>>

\* Mutant: publishing replaces what is there, leaving it to the earlier Lstat.
RenameReplaces(n) == TRUE

\* The commit point is os.Rename(tmp, target) of a non-empty directory: it fails
\* when target exists by now, and the caller gets that error.
RenameAllowed(n) == published[n] = None

CreateRename(p) ==
    /\ At(p, "rename")
    /\ RenameAllowed(frame[p].name)
    /\ published' = [published EXCEPT ![frame[p].name] = Staged(p)]
    /\ staging' = [staging EXCEPT ![frame[p].sid] = None]
    /\ frame' = [frame EXCEPT ![p].sid = None]
    /\ Return(p, "created")
    /\ UNCHANGED <<rootDir, foreign, orphans, handle>>

\* The deferred os.RemoveAll; its error is ignored.
CreateCleanup(p) ==
    /\ At(p, "cleanup")
    /\ \/ staging' = [staging EXCEPT ![frame[p].sid] = None] /\ UNCHANGED orphans
       \/ orphans' = orphans \cup {frame[p].sid} /\ UNCHANGED staging
    /\ Fail(p, "invalid_path")
    /\ UNCHANGED <<rootDir, foreign, published, handle>>

--------------------------------------------------------------------------------
(* ReadArtifact                                                              *)

ReadReject(p, n) ==
    /\ At(p, "idle")
    /\ handle[p] # "unresolved"
    /\ \E r \in EarlyErrors \cup (IF n \in BadNames THEN {"invalid_migration_name"} ELSE {}) :
        Fail(p, r)
    /\ UNCHANGED <<disk, handle>>

ReadBegin(p, n) ==
    /\ handle[p] # "unresolved"
    /\ Begin(p, "read_dir", [NoFrame EXCEPT !.name = n])
    /\ UNCHANGED <<disk, handle>>

ReadDirLstat(p) ==
    /\ At(p, "read_dir")
    /\ IF published[frame[p].name] = None
       THEN Fail(p, "invalid_path")
       ELSE Goto(p, "read_sql") /\ UNCHANGED frame
    /\ UNCHANGED <<disk, handle>>

\* What artifactReadErrorCode makes of readArtifactFile's errors: a cancelled
\* context and a failing disk are invalid_path as much as a missing file is.
FileErrors(file) ==
    {"invalid_path"} \cup (IF file \in Oversized THEN {"resource_limit"} ELSE {})

Opened(p) == published[frame[p].name]

ReadFails(p) ==
    /\ \/ At(p, "read_sql")  /\ \E e \in FileErrors(Opened(p).sql)  : Fail(p, e)
       \/ At(p, "read_snap") /\ \E e \in FileErrors(Opened(p).snap) : Fail(p, e)
    /\ UNCHANGED <<disk, handle>>

ReadSQLFile(p) ==
    /\ At(p, "read_sql")
    /\ Opened(p).sql \notin Oversized \cup {None}
    /\ frame' = [frame EXCEPT ![p].sql = Opened(p).sql]
    /\ Goto(p, "read_snap")
    /\ UNCHANGED <<disk, handle>>

\* The snapshot is read last; then the SQL bytes are validated and both returned.
ReadSnapFile(p) ==
    /\ At(p, "read_snap")
    /\ Opened(p).snap \notin Oversized \cup {None}
    /\ IF frame[p].sql \in InvalidSQL
       THEN Fail(p, "invalid_statement_segmentation")
       ELSE /\ frame' = [frame EXCEPT ![p].snap = Opened(p).snap]
            /\ Return(p, "read")
    /\ UNCHANGED <<disk, handle>>

--------------------------------------------------------------------------------
(* ListArtifacts                                                             *)

ListReject(p) ==
    /\ At(p, "idle")
    /\ handle[p] # "unresolved"
    /\ \E r \in EarlyErrors : Fail(p, r)
    /\ UNCHANGED <<disk, handle>>

\* An absent root lists as empty without another look at the file system.
ListAbsent(p) ==
    /\ At(p, "idle")
    /\ handle[p] = "absent"
    /\ Fail(p, "listed")
    /\ UNCHANGED <<disk, handle>>

ListBegin(p) ==
    /\ handle[p] = "present"
    /\ Begin(p, "scan", [NoFrame EXCEPT !.before = Entries])
    /\ UNCHANGED <<disk, handle>>

\* os.ReadDir is not atomic: an entry that came or went during the scan may or
\* may not be in what it returns.
ListScan(p) ==
    /\ At(p, "scan")
    /\ \E seen \in SUBSET (frame[p].before \cup Entries) :
        /\ frame[p].before \cap Entries \subseteq seen
        /\ frame' = [frame EXCEPT ![p].toStat = seen]
        /\ IF Cardinality(seen) > MaxArtifactDirEntries
           THEN Return(p, "resource_limit")
           ELSE Goto(p, "stat")
    /\ UNCHANGED <<disk, handle>>

\* Mutant: the Lstat error is passed on without a diagnostic code.
EntryErrorUncoded(e) ==
    IF e \notin Entries \/ e = "symlink" THEN "lstat_error"
    ELSE IF e = "stray_file" THEN "unsupported_artifact_format"
    ELSE "none"

\* The Lstat of one entry and classifyArtifactRootSidecar.  A directory passes
\* whatever its name is.
EntryError(e) ==
    IF e \notin Entries \/ e = "symlink" THEN "invalid_path"
    ELSE IF e = "stray_file" THEN "unsupported_artifact_format"
    ELSE "none"

\* Mutant: every directory is taken for a staging directory.
SkippedDirs(e) == e # "sidecar"

Skipped(e) == e = "sidecar" \/ e \in StagingIds

\* One iteration of the loop.  Entries are visited in any order: which of two
\* bad entries is the one reported is not told apart here.
ListStat(p) ==
    /\ At(p, "stat")
    /\ \E e \in frame[p].toStat :
        IF EntryError(e) # "none"
        THEN Fail(p, EntryError(e))
        ELSE /\ frame' = [frame EXCEPT ![p].toStat = @ \ {e},
                                       ![p].listing = @ \cup (IF Skipped(e) THEN {} ELSE {e})]
             /\ UNCHANGED <<pc, result>>
    /\ UNCHANGED <<disk, handle>>

\* os.ReadDir fails, or the context is cancelled between two entries.
ListFails(p) ==
    /\ \/ At(p, "scan") /\ Fail(p, "invalid_path")
       \/ At(p, "stat") /\ Fail(p, "cancelled")
    /\ UNCHANGED <<disk, handle>>

ListReturn(p) ==
    /\ At(p, "stat")
    /\ frame[p].toStat = {}
    /\ IF Cardinality(frame[p].listing) > MaxArtifacts
       THEN Fail(p, "resource_limit")
       ELSE Return(p, "listed") /\ UNCHANGED frame
    /\ UNCHANGED <<disk, handle>>

--------------------------------------------------------------------------------
(* The process dies: its locals are gone, the file system keeps what it has. *)

Crash(p) ==
    /\ pc[p] # "idle"
    /\ Fail(p, "none")
    /\ handle' = [handle EXCEPT ![p] = "unresolved"]
    /\ orphans' = orphans \cup ({frame[p].sid} \ {None})
    /\ UNCHANGED <<rootDir, foreign, published, staging>>

CreateNext(p) ==
    \/ \E n \in Names \cup BadNames, a \in Payloads : CreateReject(p, n, a)
    \/ \E n \in Names, a \in Payloads : CreateBegin(p, n, a)
    \/ CreateLstat(p)
    \/ CreateMkdirTemp(p)
    \/ CreateMkdirTempFails(p)
    \/ CreateSQL(p)
    \/ FillSQL(p)
    \/ CreateSnap(p)
    \/ FillSnap(p)
    \/ WriteFails(p)
    \/ CreateRename(p)
    \/ CreateCleanup(p)

ReadNext(p) ==
    \/ \E n \in Names \cup BadNames : ReadReject(p, n)
    \/ \E n \in Names : ReadBegin(p, n)
    \/ ReadDirLstat(p)
    \/ ReadSQLFile(p)
    \/ ReadSnapFile(p)
    \/ ReadFails(p)

ListNext(p) ==
    \/ ListReject(p)
    \/ ListAbsent(p)
    \/ ListBegin(p)
    \/ ListScan(p)
    \/ ListStat(p)
    \/ ListFails(p)
    \/ ListReturn(p)

Next ==
    \E p \in Procs :
        \/ \E mode \in Modes : ResolveRoot(p, mode)
        \/ ResolveReject(p)
        \/ CreateNext(p)
        \/ ReadNext(p)
        \/ ListNext(p)
        \/ Crash(p)

Spec == Init /\ [][Next]_vars

--------------------------------------------------------------------------------
(* Properties                                                                *)

\* A directory under an artifact's name holds both files, finished and of one
\* call: staging plus rename never shows a reader half an artifact.
PublishedWhole ==
    \A n \in Names : published[n] # None => published[n] \in {Whole(a) : a \in Payloads}

\* CreateArtifact returns success only to the caller whose bytes are on disk.
CreatedIsMine ==
    \A p \in Procs :
        result[p] = "created" => published[frame[p].name] = Whole(frame[p].payload)

\* However many callers race past the Lstat of one name, one of them creates it.
OneWinner ==
    \A p, q \in Procs :
        /\ p # q
        /\ result[p] = "created" /\ result[q] = "created"
        => frame[p].name # frame[q].name

\* What is published stays, byte for byte: no later create, cleanup or crash
\* disturbs it.
PublishedForever ==
    [][\A n \in Names : published[n] # None => published'[n] = published[n]]_vars

\* Two calls never write into one staging directory, and a staging directory
\* without a call is one a crash or a failed RemoveAll left behind.
StagingOwned ==
    \A s \in StagingIds : staging[s] # None =>
        /\ \A p, q \in Procs : frame[p].sid = s /\ frame[q].sid = s => p = q
        /\ s \in orphans \/ \E p \in Procs : frame[p].sid = s /\ pc[p] \in Writing

\* ReadArtifact returns the SQL and the snapshot of one and the same artifact,
\* although it opens the two files at different times.
ReadUntorn ==
    \A p \in Procs :
        result[p] = "read" =>
            [sql |-> frame[p].sql, snap |-> frame[p].snap] = published[frame[p].name]

\* A listing names every artifact that was there when it began, and nothing
\* that is not there.
ListingExact ==
    \A p \in Procs :
        result[p] = "listed" =>
            /\ frame[p].before \cap Names \subseteq frame[p].listing
            /\ frame[p].listing \cap Names \subseteq Present(published)

\* The atomic store, read off the disk: a directory is an artifact.
Registry == INSTANCE ArtifactRegistry WITH
    artifacts <- [n \in Names |-> IF published[n] = None THEN None ELSE published[n].sql],
    outcome   <- result,
    got       <- [p \in Procs |-> IF result[p] # "read" THEN None
                                  ELSE IF frame[p].sql = frame[p].snap THEN frame[p].sql
                                  ELSE Partial]

\* FSArtifactStore behaves as the atomic in-memory store does.
ImplementsRegistry == Registry!Spec

================================================================================
