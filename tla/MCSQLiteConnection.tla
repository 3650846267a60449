------------------------- MODULE MCSQLiteConnection --------------------------
(* SQLiteConnection for TLC: threads are interchangeable, and so are texts. *)
EXTENDS SQLiteConnection, TLC

Symmetry == Permutations(Threads) \union Permutations(SQLs)
==============================================================================
