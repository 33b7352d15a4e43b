--------------------------- MODULE MCDurableStore ---------------------------
(* Small instances of DurableStore for TLC. *)
EXTENDS DurableStore, TLC

(* Files, keys and values are interchangeable. *)
Symmetry == Permutations(Inodes \ ReadOnlyFiles) \cup Permutations(Keys) \cup Permutations(Values)

(* Two states are the same when they differ only in files that nothing     *)
(* refers to and in the local variables of a compaction that has returned. *)
View ==
  <<dirs, [i \in Inodes |-> IF i \in Free THEN EmptyFile ELSE files[i]], pc, todo, handle,
    scan, index, IF pc \in {"down", "recover", "scan", "open", "sync"} THEN <<>> ELSE build,
    history, mutations, faults>>
=============================================================================
