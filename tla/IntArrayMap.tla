----------------------------- MODULE IntArrayMap -----------------------------
(***************************************************************************)
(* The table of arrays in native/intarray.c: a hash table with open        *)
(* addressing and linear probing, in which every virtual table finds its   *)
(* array by name, with the part of sqlite3_intarray_create and             *)
(* sqlite3_intarray_destroy that concerns it.                              *)
(*                                                                         *)
(* A cell of the table holds an array (key, hash and value are always set  *)
(* together), or is Empty, or Removed (hash = -1). An array that was freed *)
(* may still be in a cell: the hash in the cell is good, but its key is    *)
(* memory that was freed, and compares as it happens (the parameter        *)
(* "reads": the freed arrays that pass for the name they are asked for).   *)
(***************************************************************************)
EXTENDS Naturals, FiniteSets

CONSTANTS
  Names,           (* the names of arrays, up to case                      *)
  strHash,         (* their hash codes                                     *)
  Arrays,          (* the arrays that may be allocated                     *)
  zName,           (* the name of each                                     *)
  Empty, Removed,  (* the contents of a cell without a key                 *)
  NoArray,
  InitialSize      (* initialCount: 17 in the code                         *)

ASSUME MapAssumption ==
  /\ strHash \in [Names -> Nat]
  /\ zName \in [Arrays -> Names]
  /\ Empty \notin Arrays /\ Removed \notin Arrays /\ Empty # Removed
  /\ NoArray \notin Arrays
  /\ InitialSize \in Nat /\ InitialSize > 1

VARIABLES
  hashtable, size, rehashSize, count,   (* the fields of the map           *)
  live,           (* the arrays handed out and not yet destroyed           *)
  new,            (* the array that is being created                       *)
  at,             (* how far its creation is                               *)
  newtable, i,    (* local variables of rehash()                           *)
  disturbed       (* history: the hashes of freed arrays left in the table *)

mapVars == <<hashtable, size, rehashSize, count>>
rehashVars == <<newtable, i>>
vars == <<mapVars, live, new, at, rehashVars, disturbed>>

Cells == Arrays \union {Empty, Removed}
NewTable(n) == [c \in 0 .. n - 1 |-> Empty]

TypeOK ==
  /\ size \in Nat /\ size > 1 /\ rehashSize \in Nat /\ count \in Nat
  /\ hashtable \in [0 .. size - 1 -> Cells]
  /\ live \subseteq Arrays
  /\ new \in Arrays \union {NoArray}
  /\ at \in {"idle", "full", "copying", "creating"}
  /\ at = "idle" <=> new = NoArray
  /\ i \in 0 .. size
  /\ newtable \in [0 .. (size + size \div 2) - 1 -> Cells]
  /\ disturbed \subseteq Nat

(* intarrayMapInit().                                                      *)
Init ==
  /\ hashtable = NewTable(InitialSize)
  /\ size = InitialSize
  /\ rehashSize = (InitialSize * 2) \div 3
  /\ count = 0
  /\ live = {}
  /\ new = NoArray /\ at = "idle"
  /\ newtable = NewTable(InitialSize + InitialSize \div 2) /\ i = 0
  /\ disturbed = {}

-----------------------------------------------------------------------------
(* Searching a table t of n cells.                                         *)

Hash(a) == strHash[zName[a]]

(* The cell of the k-th turn of a loop that does i = (i + 1) % size.       *)
Probe(n, h, k) == LET c == (h % n) + k IN IF c < n THEN c ELSE c - n

(* The turns before a loop stops: at an empty cell, or at one without key. *)
Filled(t, n, h) ==
  {k \in 0 .. n - 1 : \A j \in 0 .. k : t[Probe(n, h, j)] # Empty}
Keys(t, n, h) ==
  {k \in 0 .. n - 1 : \A j \in 0 .. k : t[Probe(n, h, j)] \in Arrays}

Entries(t) == {t[c] : c \in DOMAIN t} \intersect Arrays

(* The entries whose array has been freed.                                 *)
Stale == Entries(hashtable) \ (live \union {new})

(* Cell c has the hash of array a, and stricmp() finds the names equal.    *)
Same(c, a, reads) ==
  /\ c \in Arrays
  /\ Hash(c) = Hash(a)
  /\ IF {c, a} \intersect Stale = {} THEN zName[c] = zName[a]
                                     ELSE {c, a} \intersect reads # {}

Hits(t, n, turns, a, reads) ==
  {k \in turns : Same(t[Probe(n, Hash(a), k)], a, reads)}
First(turns) == CHOOSE k \in turns : \A j \in turns : k <= j

(* mapPut_(): the table after it, the same one if it fails. The first cell *)
(* without a key is taken, but the name may follow it if it is a removed   *)
(* one (the "trail").                                                      *)
MapPut(t, n, a, reads) ==
  LET keys == Keys(t, n, Hash(a))
      free == Cardinality(keys)
      seen == keys \union Filled(t, n, Hash(a))
  IN IF free = n \/ Hits(t, n, seen, a, reads) # {} THEN t
     ELSE [t EXCEPT ![Probe(n, Hash(a), free)] = a]

\* Mutations: a removed cell becomes an empty one; nothing is removed.
MapRemove_Empties(a, reads) ==
  LET hits == Hits(hashtable, size, Keys(hashtable, size, Hash(a)), a, reads) IN
  IF hits = {} THEN UNCHANGED <<hashtable, count>>
  ELSE /\ hashtable' = [hashtable EXCEPT ![Probe(size, Hash(a), First(hits))] = Empty]
       /\ count' = count - 1
MapRemove_Forgets(a, reads) == UNCHANGED <<hashtable, count>>

(* intarrayMapRemove(). Its loop, other than that of intarrayMapFind(),    *)
(* ends at the first cell without a key, be it removed or empty.           *)
MapRemove(a, reads) ==
  LET hits == Hits(hashtable, size, Keys(hashtable, size, Hash(a)), a, reads) IN
  IF hits = {} THEN UNCHANGED <<hashtable, count>>
  ELSE /\ hashtable' = [hashtable EXCEPT ![Probe(size, Hash(a), First(hits))] = Removed]
       /\ count' = count - 1

(* intarrayMapFind(), for the name of array a.                             *)
MapFind(a, reads) ==
  LET hits == Hits(hashtable, size, Filled(hashtable, size, Hash(a)), a, reads) IN
  IF hits = {} THEN NoArray ELSE hashtable[Probe(size, Hash(a), First(hits))]

-----------------------------------------------------------------------------
Create_Uncounted(a, reads) ==        \* mutation: map->count++ is left out
  /\ at = "idle"
  /\ a \notin live \union Entries(hashtable)
  /\ hashtable' = MapPut(hashtable, size, a, reads)
  /\ hashtable' # hashtable
  /\ new' = a
  /\ at' = IF count >= rehashSize THEN "full" ELSE "creating"
  /\ UNCHANGED <<size, rehashSize, count, live, rehashVars>>

(* sqlite3_intarray_create() up to intarrayMapPut(). If that refuses the   *)
(* name, the array is freed and nothing has changed.                       *)
Create(a, reads) ==
  /\ at = "idle"
  /\ a \notin live \union Entries(hashtable)
  /\ hashtable' = MapPut(hashtable, size, a, reads)
  /\ hashtable' # hashtable
  /\ count' = count + 1
  /\ new' = a
  /\ at' = IF count' >= rehashSize THEN "full" ELSE "creating"
  /\ UNCHANGED <<size, rehashSize, live, rehashVars>>

(* rehash() has no memory for a larger table: the array is freed, and its  *)
(* entry stays.                                                            *)
RehashFails ==
  /\ at = "full"
  /\ new' = NoArray /\ at' = "idle"
  /\ UNCHANGED <<mapVars, live, rehashVars>>

Rehash ==
  /\ at = "full"
  /\ newtable' = NewTable(size + size \div 2)
  /\ i' = 0
  /\ at' = "copying"
  /\ UNCHANGED <<mapVars, live, new>>

(* The loop of rehash(); what mapPut_() returns is ignored.                *)
RehashCell(reads) ==
  /\ at = "copying"
  /\ i < size
  /\ newtable' = IF hashtable[i] \in Arrays
                 THEN MapPut(newtable, size + size \div 2, hashtable[i], reads)
                 ELSE newtable
  /\ i' = i + 1
  /\ UNCHANGED <<mapVars, live, new, at>>

RehashEnds ==
  /\ at = "copying"
  /\ i = size
  /\ rehashSize' = size
  /\ size' = size + size \div 2
  /\ hashtable' = newtable
  /\ newtable' = NewTable(size' + size' \div 2) /\ i' = 0
  /\ at' = "creating"
  /\ UNCHANGED <<count, live, new>>

(* create_vtable(): CREATE VIRTUAL TABLE may fail for reasons of its own,  *)
(* and does when intarrayCreate() does not find the name.                  *)
TableCreated(reads) ==
  /\ at = "creating"
  /\ MapFind(new, reads) # NoArray
  /\ live' = live \union {new}
  /\ new' = NoArray /\ at' = "idle"
  /\ UNCHANGED <<mapVars, rehashVars>>

TableNotCreated(reads) ==
  /\ at = "creating"
  /\ MapRemove(new, reads)
  /\ new' = NoArray /\ at' = "idle"
  /\ UNCHANGED <<size, rehashSize, live, rehashVars>>

(* sqlite3_intarray_destroy(), once the content and the table are dropped. *)
Destroy(a, reads) ==
  /\ at = "idle"
  /\ a \in live
  /\ MapRemove(a, reads)
  /\ live' = live \ {a}
  /\ UNCHANGED <<size, rehashSize, new, at, rehashVars>>

Step ==
  \/ RehashFails \/ Rehash \/ RehashEnds
  \/ \E reads \in SUBSET Stale :
       \/ RehashCell(reads) \/ TableCreated(reads) \/ TableNotCreated(reads)
       \/ \E a \in Arrays : Create(a, reads) \/ Destroy(a, reads)

Next == Step /\ disturbed' = disturbed \union {Hash(a) : a \in Stale'}

Spec == Init /\ [][Next]_vars

-----------------------------------------------------------------------------
(***************************************************************************)
(* Properties.                                                             *)
(***************************************************************************)

Owned == live \union ({new} \ {NoArray})

(* The hash of array a was never that of a freed array in the table.       *)
Undisturbed(a) == Hash(a) \notin disturbed

(* intarrayMapFind(): a virtual table that is created or connected finds   *)
(* its array, and no other, wherever collisions, removals and growth have  *)
(* put the entry. So there are no two arrays of one name either            *)
(* (INTARRAY_DUPLICATE_NAME), although a name is put into a removed cell   *)
(* that comes before the one where it may already be.                      *)
ArrayFound ==
  \A a \in Owned : Undisturbed(a) => MapFind(a, {}) = a

(* map->count, by which the table grows, never falls behind the number of  *)
(* keys. So, as long as growth was never refused and no entry outlived its *)
(* array (disturbed), a third of the cells is free after every operation,  *)
(* and INTARRAY_INTERNAL_ERROR impossible.                                 *)
UsedCells == {c \in 0 .. size - 1 : hashtable[c] \in Arrays}
RoomIsLeft ==
  /\ Cardinality(UsedCells) <= count
  /\ at = "idle" /\ disturbed = {} => Cardinality(UsedCells) < rehashSize

(* "mark for further traversal and removal" (intarray.c:216): an array is  *)
(* freed with its entry, but for two cases: a removed cell comes before    *)
(* the entry, or the table could not grow for it.                          *)
Hidden(a) ==
  \E k \in Filled(hashtable, size, Hash(a)) : hashtable[Probe(size, Hash(a), k)] = Removed
FreedWithItsEntry ==
  [][\A a \in Owned \ Owned' :
       a \in Entries(hashtable') => Hidden(a) \/ at = "full" \/ ~Undisturbed(a)]_vars
==============================================================================
