-------------------------------- MODULE MCMigrate --------------------------------
EXTENDS Migrate, TLC

CONSTANTS p1, p2, p3
MCTables == <<"t1", "t2">>

Full == {"table", "col", "idx"}
Schema(a, b) == "t1" :> a @@ "t2" :> b

\* From nothing, and from a first version.
MCStarts == {Schema({}, {}), Schema({"table", "idx"}, {"table", "col"})}

\* The versions of the code: one creates both tables, one drops the second.
V1 == Schema(Full, {"table", "idx"})
V2 == Schema({"table", "col"}, {})

Same(v)       == [p \in Procs |-> v]
MCSameTargets == {Same(V1), Same(V2)}
\* Also a rolling deployment of two versions, each dropping what the other changes.
V3            == Schema({}, {"table", "idx"})
MCTargets     == MCSameTargets \cup {[p \in Procs |-> IF p = p1 THEN V3 ELSE V2]}

MCTwoAndStatus == {p1 :> "migrate" @@ p2 :> "migrate" @@ p3 :> "status"}
\* Without Status.
MCTwo          == {p1 :> "migrate" @@ p2 :> "migrate", p1 :> "migrate" @@ p2 :> "push",
                   p1 :> "migrate" @@ p2 :> "dry_run"}
MCTwoMigrate   == {p1 :> "migrate" @@ p2 :> "migrate"}
================================================================================
