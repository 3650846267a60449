---------------------------- MODULE MCBindBuffers ----------------------------
(* Instances of BindBuffers for TLC. *)
EXTENDS BindBuffers, TLC

Symmetry == Permutations(Buffers) \union Permutations(Streams) \union Permutations(Stmts)
            \union Permutations(Params)
==============================================================================
