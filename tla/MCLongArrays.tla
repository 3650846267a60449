---------------------------- MODULE MCLongArrays ----------------------------
(* LongArrays for TLC: one name, which nextArrayName() may also come upon, *)
(* two arrays, two statements, and as many table objects as can be         *)
(* referred to at once.                                                    *)
EXTENDS LongArrays, TLC
CONSTANT x

MCAutoNames == <<x>>
Symmetric == Permutations(VTables) \union Permutations(Arrays)
==============================================================================
