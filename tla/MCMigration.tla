---------------------------- MODULE MCMigration -----------------------------
(* Small instances of Migration for TLC; which file gets which inode does  *)
(* not matter.                                                             *)
EXTENDS Migration, TLC

Symmetry == Permutations(Inodes)
=============================================================================
