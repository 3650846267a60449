---------------------------- MODULE MCIntArrayMap ----------------------------
(* IntArrayMap for TLC: a table of three cells that grows to four and six, *)
(* names that collide in a cell, two of them with the same hash, and a     *)
(* second array of one name.                                               *)
EXTENDS IntArrayMap, TLC
CONSTANTS n1, n2, n3, n4, a1, a2, a3, a4, a5

MCHash == n1 :> 5 @@ n2 :> 2 @@ n3 :> 5 @@ n4 :> 1
MCName == a1 :> n1 @@ a2 :> n2 @@ a3 :> n3 @@ a4 :> n4 @@ a5 :> n1
==============================================================================
