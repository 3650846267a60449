---------------------------- MODULE MCSQLiteQueue ----------------------------
(* SQLiteQueue for TLC: jobs and users are interchangeable.                *)
EXTENDS SQLiteQueue, TLC

Symmetry == Permutations(Jobs)
=============================================================================
