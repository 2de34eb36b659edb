---------------------------- MODULE MCArtifactStore ----------------------------
(* Two callers racing for one name in a root that may hold other entries.      *)
EXTENDS ArtifactStore, TLC

CONSTANTS p1, p2, n1, bad, a1, a2, big, s1, s2

MCForeign == {{"sidecar"}, {"symlink"}, {"stray_file"}, {"dot_dir"}}

Symmetry == Permutations(Procs) \cup Permutations(StagingIds)

================================================================================
