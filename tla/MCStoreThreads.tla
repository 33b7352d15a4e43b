--------------------------- MODULE MCStoreThreads ---------------------------
(***************************************************************************)
(* StoreThreads for TLC.  Neither keys nor values are told apart by any    *)
(* action or property; the clients are, by the one that calls ForEach.     *)
(***************************************************************************)
EXTENDS StoreThreads, TLC

Symmetry == Permutations(Keys) \cup Permutations(Values)
=============================================================================
