-------------------------- MODULE IntArrayMap_proofs --------------------------
(***************************************************************************)
(* The theorems about IntArrayMap: for any names and arrays, any hash      *)
(* function and any initial size of the table.                             *)
(***************************************************************************)
EXTENDS IntArrayMap, FiniteSetTheorems, WellFoundedInduction, TLAPS

(* The cells of a table of n cells that hold an array.                     *)
UsedIn(t, n) == {c \in 0 .. n - 1 : t[c] \in Arrays}

(* A search that goes on until an empty cell comes to every entry.         *)
Reachable(t, n) ==
  \A c \in UsedIn(t, n) :
    \E k \in Filled(t, n, Hash(t[c])) : Probe(n, Hash(t[c]), k) = c

Once(t, n) == \A c, d \in UsedIn(t, n) : t[c] = t[d] => c = d

SizeTells == rehashSize < size

(* The array that is being created is not handed out, and has an entry as  *)
(* long as the table has not grown for it.                                 *)
NewTells ==
  /\ new \notin live
  /\ at \in {"full", "copying"} => new \in Entries(hashtable)

StaleTells == \A c \in Stale : Hash(c) \in disturbed

Present == \A a \in Owned : Undisturbed(a) => a \in Entries(hashtable)

NamesOnce == \A a, b \in Owned : Undisturbed(a) /\ zName[a] = zName[b] => a = b

CountTells == Cardinality(UsedIn(hashtable, size)) <= count

RoomTells ==
  disturbed = {} =>
    /\ count <= rehashSize
    /\ at \in {"idle", "creating"} => count < rehashSize

(* The new table holds what was copied from the cells before i.            *)
Passed == {c \in UsedIn(hashtable, size) : c < i}
NewSize == size + size \div 2
CopyTells ==
  at = "copying" =>
    /\ Reachable(newtable, NewSize) /\ Once(newtable, NewSize)
    /\ \A d \in UsedIn(newtable, NewSize) : \E c \in Passed : newtable[d] = hashtable[c]
    /\ \A c \in Passed : Undisturbed(hashtable[c]) => hashtable[c] \in Entries(newtable)
    /\ Cardinality(UsedIn(newtable, NewSize)) <= Cardinality(Passed)

IndInv ==
  /\ TypeOK /\ SizeTells /\ NewTells /\ StaleTells /\ Present /\ NamesOnce
  /\ CountTells /\ RoomTells /\ CopyTells
  /\ Reachable(hashtable, size) /\ Once(hashtable, size)

USE MapAssumption

(***************************************************************************)
(* Arithmetic, and the turns of a search.                                  *)
(***************************************************************************)
Table(t, n) == n \in Nat /\ n > 0 /\ t \in [0 .. n - 1 -> Cells]

LEMMA HashType == \A a \in Arrays : Hash(a) \in Nat
  BY DEF Hash

LEMMA Grown ==
  ASSUME NEW n \in Nat, n > 1
  PROVE  n + n \div 2 \in Nat /\ n < n + n \div 2
  OBVIOUS

LEMMA ModRange ==
  ASSUME NEW n \in Nat, n > 0, NEW h \in Nat
  PROVE  h % n \in 0 .. n - 1
  OBVIOUS

LEMMA ProbeType ==
  ASSUME NEW n \in Nat, n > 0, NEW h \in Nat, NEW k \in 0 .. n - 1
  PROVE  Probe(n, h, k) \in 0 .. n - 1
<1> DEFINE m == h % n
<1>1. m \in 0 .. n - 1
  BY ModRange
<1> HIDE DEF m
<1>2. Probe(n, h, k) = IF m + k < n THEN m + k ELSE m + k - n
  BY DEF Probe, m
<1> QED
  BY <1>1, <1>2

LEMMA ProbeInjective ==
  ASSUME NEW n \in Nat, n > 0, NEW h \in Nat, NEW k \in 0 .. n - 1, NEW j \in 0 .. n - 1,
         Probe(n, h, k) = Probe(n, h, j)
  PROVE  k = j
<1> DEFINE m == h % n
<1>1. m \in 0 .. n - 1
  BY ModRange
<1> HIDE DEF m
<1>2. /\ Probe(n, h, k) = IF m + k < n THEN m + k ELSE m + k - n
      /\ Probe(n, h, j) = IF m + j < n THEN m + j ELSE m + j - n
  BY DEF Probe, m
<1>3. (IF m + k < n THEN m + k ELSE m + k - n) = (IF m + j < n THEN m + j ELSE m + j - n)
  BY <1>2
<1>4. m \in Int /\ k \in Int /\ j \in Int /\ 0 <= k /\ k < n /\ 0 <= j /\ j < n
  BY <1>1
<1> QED
  BY <1>3, <1>4

(* A search that never stops visits every cell.                            *)
LEMMA ProbeOnto ==
  ASSUME NEW n \in Nat, n > 0, NEW h \in Nat, NEW c \in 0 .. n - 1
  PROVE  \E k \in 0 .. n - 1 : Probe(n, h, k) = c
<1> DEFINE m == h % n
           k == IF c >= m THEN c - m ELSE c - m + n
<1>1. m \in 0 .. n - 1
  BY ModRange
<1> HIDE DEF m
<1>2. Probe(n, h, k) = IF m + k < n THEN m + k ELSE m + k - n
  BY DEF Probe, m
<1>3. k \in 0 .. n - 1 /\ Probe(n, h, k) = c
  BY <1>1, <1>2
<1> QED
  BY <1>3

LEMMA FirstIsFirst ==
  ASSUME NEW S, S \subseteq Nat, S # {}
  PROVE  First(S) \in S /\ \A j \in S : First(S) <= j
<1>1. PICK x \in S : \A y \in S : ~(<<y, x>> \in OpToRel(<, Nat))
  BY WFMin, NatLessThanWellFounded
<1>2. ASSUME NEW y \in S PROVE x <= y
  <2>1. y \in Nat /\ x \in Nat
    OBVIOUS
  <2>2. ~(y < x)
    BY <1>1, <2>1 DEF OpToRel
  <2> QED
    BY <2>1, <2>2
<1> QED
  BY <1>2 DEF First

LEMMA CellsFinite ==
  ASSUME NEW n \in Nat, NEW S, S \subseteq 0 .. n - 1
  PROVE  IsFiniteSet(S) /\ Cardinality(S) \in Nat /\ Cardinality(S) <= n
<1>1. IsFiniteSet(0 .. n - 1) /\ Cardinality(0 .. n - 1) = n
  BY FS_Interval
<1> QED
  BY <1>1, FS_Subset, FS_CardinalityType

(* The turns that find keys come first, and the next one finds none.       *)
LEMMA KeysComeFirst ==
  ASSUME NEW t, NEW n, Table(t, n), NEW h \in Nat
  PROVE  LET free == Cardinality(Keys(t, n, h)) IN
         /\ free \in 0 .. n
         /\ Keys(t, n, h) = 0 .. free - 1
         /\ free < n => t[Probe(n, h, free)] \notin Arrays
<1> DEFINE keys == Keys(t, n, h)
           rest == (0 .. n - 1) \ keys
<1>0. n \in Nat /\ n > 0
  BY DEF Table
<1>1. CASE rest = {}
  <2>1. keys = 0 .. n - 1
    BY <1>1 DEF Keys
  <2>2. Cardinality(0 .. n - 1) = n
    BY <1>0, FS_Interval
  <2> QED
    BY <1>0, <2>1, <2>2
<1>2. CASE rest # {}
  <2> DEFINE k == First(rest)
  <2>1. k \in rest /\ \A j \in rest : k <= j
    <3>1. rest \subseteq Nat
      BY <1>0
    <3> QED
      BY <3>1, <1>2, FirstIsFirst
  <2> HIDE DEF k
  <2>2. k \in Nat /\ k < n /\ k \notin keys
    BY <1>0, <2>1
  <2>3. \A j \in 0 .. k - 1 : j \in keys
    BY <1>0, <2>1, <2>2
  <2>4. \A j \in keys : j \in 0 .. k - 1
    <3> SUFFICES ASSUME NEW j \in keys, j >= k PROVE FALSE
      BY <1>0, <2>2 DEF Keys
    <3>1. j \in 0 .. n - 1 /\ \A l \in 0 .. j : t[Probe(n, h, l)] \in Arrays
      BY DEF Keys
    <3>2. \A l \in 0 .. k : l \in 0 .. j
      BY <3>1, <2>2
    <3>3. k \in keys
      BY <1>0, <2>2, <3>1, <3>2 DEF Keys
    <3> QED
      BY <3>3, <2>2
  <2>5. keys = 0 .. k - 1
    BY <2>3, <2>4
  <2>6. Cardinality(0 .. k - 1) = k
    BY <2>2, FS_Interval
  <2>7. t[Probe(n, h, k)] \notin Arrays
    <3> SUFFICES ASSUME t[Probe(n, h, k)] \in Arrays PROVE FALSE
      OBVIOUS
    <3>1. ASSUME NEW l \in 0 .. k PROVE t[Probe(n, h, l)] \in Arrays
      <4>1. CASE l = k
        BY <4>1
      <4>2. CASE l # k
        <5>1. l \in 0 .. k - 1 /\ l \in 0 .. l
          BY <2>2, <4>2
        <5> QED
          BY <5>1, <2>3 DEF Keys
      <4> QED
        BY <4>1, <4>2
    <3>2. k \in keys
      BY <1>0, <2>2, <3>1 DEF Keys
    <3> QED
      BY <3>2, <2>2
  <2> QED
    BY <1>0, <2>2, <2>5, <2>6, <2>7
<1> QED
  BY <1>1, <1>2

(***************************************************************************)
(* What putting and removing an entry makes of a table.                    *)
(***************************************************************************)
LEMMA EntryCell ==
  ASSUME NEW t, NEW n, Table(t, n)
  PROVE  /\ \A c \in UsedIn(t, n) : c \in 0 .. n - 1 /\ t[c] \in Entries(t) /\ t[c] \in Arrays
         /\ \A a \in Entries(t) : a \in Arrays /\ \E c \in UsedIn(t, n) : t[c] = a
  BY DEF Table, UsedIn, Entries

LEMMA UsedFinite ==
  ASSUME NEW t, NEW n, Table(t, n)
  PROVE  /\ IsFiniteSet(UsedIn(t, n)) /\ Cardinality(UsedIn(t, n)) \in Nat
         /\ Cardinality(UsedIn(t, n)) <= n
<1>1. n \in Nat /\ UsedIn(t, n) \subseteq 0 .. n - 1
  BY DEF Table, UsedIn
<1> QED
  BY <1>1, CellsFinite

(* The array is put at turn f, the first that finds no key.                *)
Puts(t, u, n, a) ==
  \E f \in 0 .. n - 1 :
    /\ \A j \in 0 .. f - 1 : t[Probe(n, Hash(a), j)] \in Arrays
    /\ t[Probe(n, Hash(a), f)] \notin Arrays
    /\ u = [t EXCEPT ![Probe(n, Hash(a), f)] = a]

Seen(t, n, a) == Keys(t, n, Hash(a)) \union Filled(t, n, Hash(a))

LEMMA PutCases ==
  ASSUME NEW t, NEW n, Table(t, n), NEW a \in Arrays, NEW reads
  PROVE  \/ /\ MapPut(t, n, a, reads) = t
            /\ UsedIn(t, n) = 0 .. n - 1 \/ Hits(t, n, Seen(t, n, a), a, reads) # {}
         \/ /\ Puts(t, MapPut(t, n, a, reads), n, a)
            /\ Hits(t, n, Seen(t, n, a), a, reads) = {}
<1> DEFINE h == Hash(a)
           free == Cardinality(Keys(t, n, h))
           hits == Hits(t, n, Seen(t, n, a), a, reads)
<1>0. n \in Nat /\ n > 0 /\ h \in Nat
  BY HashType DEF Table
<1>1. /\ free \in 0 .. n
      /\ Keys(t, n, h) = 0 .. free - 1
      /\ free < n => t[Probe(n, h, free)] \notin Arrays
  BY <1>0, KeysComeFirst
<1>2. MapPut(t, n, a, reads) = IF free = n \/ hits # {} THEN t
                               ELSE [t EXCEPT ![Probe(n, h, free)] = a]
  BY DEF MapPut, Seen
<1>3. \A j \in 0 .. free - 1 : t[Probe(n, h, j)] \in Arrays
  <2> SUFFICES ASSUME NEW j \in 0 .. free - 1 PROVE t[Probe(n, h, j)] \in Arrays
    OBVIOUS
  <2>1. j \in Keys(t, n, h) /\ j \in 0 .. j
    BY <1>1
  <2> QED
    BY <2>1 DEF Keys
<1> HIDE DEF h, free, hits
<1>4. CASE free = n
  <2>1. UsedIn(t, n) = 0 .. n - 1
    <3> SUFFICES ASSUME NEW c \in 0 .. n - 1 PROVE t[c] \in Arrays
      BY DEF UsedIn
    <3>1. PICK k \in 0 .. n - 1 : Probe(n, h, k) = c
      BY <1>0, ProbeOnto
    <3> QED
      BY <3>1, <1>3, <1>4
  <2> QED
    BY <1>2, <1>4, <2>1
<1>5. CASE hits # {}
  BY <1>2, <1>5 DEF hits
<1>6. CASE free # n /\ hits = {}
  <2>1. free \in 0 .. n - 1 /\ free < n
    BY <1>0, <1>1, <1>6
  <2>2. MapPut(t, n, a, reads) = [t EXCEPT ![Probe(n, h, free)] = a]
    BY <1>2, <1>6
  <2>3. Puts(t, MapPut(t, n, a, reads), n, a)
    BY <1>1, <1>3, <2>1, <2>2 DEF Puts, h
  <2> QED
    BY <2>3, <1>6 DEF hits
<1> QED
  BY <1>4, <1>5, <1>6

(* Cell c is given a key, or loses it, and does not become empty.          *)
Writes(t, u, c, x) == u = [t EXCEPT ![c] = x]

LEMMA FilledGrows ==
  ASSUME NEW t, NEW n, Table(t, n), NEW c \in 0 .. n - 1, NEW x \in Cells, x # Empty,
         NEW u, Writes(t, u, c, x), NEW h \in Nat
  PROVE  Filled(t, n, h) \subseteq Filled(u, n, h)
<1>0. n \in Nat /\ n > 0 /\ t \in [0 .. n - 1 -> Cells]
  BY DEF Table
<1> SUFFICES ASSUME NEW k \in Filled(t, n, h) PROVE k \in Filled(u, n, h)
  OBVIOUS
<1>1. k \in 0 .. n - 1 /\ \A j \in 0 .. k : t[Probe(n, h, j)] # Empty
  BY DEF Filled
<1>2. ASSUME NEW j \in 0 .. k PROVE u[Probe(n, h, j)] # Empty
  <2>1. j \in 0 .. n - 1
    BY <1>0, <1>1
  <2>2. Probe(n, h, j) \in 0 .. n - 1
    BY <1>0, <2>1, ProbeType
  <2> QED
    BY <1>0, <1>1, <2>2 DEF Writes
<1> QED
  BY <1>1, <1>2 DEF Filled

LEMMA OldCellsReached ==
  ASSUME NEW t, NEW n, Table(t, n), Reachable(t, n),
         NEW c \in 0 .. n - 1, NEW x \in Cells, x # Empty,
         NEW u, Writes(t, u, c, x)
  PROVE  \A d \in UsedIn(t, n) \ {c} :
           \E k \in Filled(u, n, Hash(u[d])) : Probe(n, Hash(u[d]), k) = d
<1> SUFFICES ASSUME NEW d \in UsedIn(t, n) \ {c}
             PROVE  \E k \in Filled(u, n, Hash(u[d])) : Probe(n, Hash(u[d]), k) = d
  OBVIOUS
<1>1. d \in 0 .. n - 1 /\ t[d] \in Arrays
  BY DEF UsedIn
<1>2. u[d] = t[d]
  BY <1>1 DEF Table, Writes
<1>3. PICK k \in Filled(t, n, Hash(t[d])) : Probe(n, Hash(t[d]), k) = d
  BY DEF Reachable
<1>4. Hash(t[d]) \in Nat
  BY <1>1, HashType
<1>5. Filled(t, n, Hash(t[d])) \subseteq Filled(u, n, Hash(t[d]))
  BY <1>4, FilledGrows
<1> QED
  BY <1>2, <1>3, <1>5 DEF Writes

LEMMA PutKeeps ==
  ASSUME NEW t, NEW n, Table(t, n), NEW a \in Arrays, NEW u, Puts(t, u, n, a)
  PROVE  /\ Table(u, n)
         /\ Reachable(t, n) => Reachable(u, n)
         /\ Once(t, n) /\ a \notin Entries(t) => Once(u, n)
         /\ Entries(u) = Entries(t) \union {a}
         /\ Cardinality(UsedIn(u, n)) <= Cardinality(UsedIn(t, n)) + 1
<1>0. n \in Nat /\ n > 0 /\ t \in [0 .. n - 1 -> Cells] /\ Hash(a) \in Nat
  BY HashType DEF Table
<1>1. PICK f \in 0 .. n - 1 :
        /\ \A j \in 0 .. f - 1 : t[Probe(n, Hash(a), j)] \in Arrays
        /\ t[Probe(n, Hash(a), f)] \notin Arrays
        /\ u = [t EXCEPT ![Probe(n, Hash(a), f)] = a]
  BY DEF Puts
<1> DEFINE c == Probe(n, Hash(a), f)
<1>2. c \in 0 .. n - 1
  BY <1>0, ProbeType
<1>3. a \in Cells /\ a # Empty
  BY MapAssumption DEF Cells
<1>4. t[c] \notin Arrays /\ u = [t EXCEPT ![c] = a]
  BY <1>1
<1>5. Table(u, n)
  BY <1>0, <1>3, <1>4 DEF Table
<1>6. f \in Filled(u, n, Hash(a))
  <2> SUFFICES ASSUME NEW j \in 0 .. f PROVE u[Probe(n, Hash(a), j)] # Empty
    BY DEF Filled
  <2>1. j \in 0 .. n - 1
    BY <1>0
  <2>2. Probe(n, Hash(a), j) \in 0 .. n - 1
    BY <1>0, <2>1, ProbeType
  <2>3. CASE j = f
    BY <1>0, <1>1, <1>3, <2>2, <2>3
  <2>4. CASE j # f
    <3>1. j \in 0 .. f - 1
      BY <2>4
    <3>2. t[Probe(n, Hash(a), j)] # Empty
      BY <3>1, <1>1, MapAssumption
    <3> QED
      BY <1>0, <1>1, <1>3, <2>2, <3>2
  <2> QED
    BY <2>3, <2>4
<1> HIDE DEF c
<1>7. UsedIn(u, n) = UsedIn(t, n) \union {c} /\ u[c] = a
      /\ \A d \in UsedIn(t, n) : d # c /\ u[d] = t[d]
  BY <1>0, <1>2, <1>4 DEF UsedIn
<1>8. Reachable(t, n) => Reachable(u, n)
  <2> SUFFICES ASSUME Reachable(t, n), NEW d \in UsedIn(u, n)
               PROVE  \E k \in Filled(u, n, Hash(u[d])) : Probe(n, Hash(u[d]), k) = d
    BY DEF Reachable
  <2>1. CASE d = c
    BY <2>1, <1>6, <1>7 DEF c
  <2>2. CASE d # c
    <3>1. d \in UsedIn(t, n) \ {c}
      BY <2>2, <1>7
    <3>2. Writes(t, u, c, a)
      BY <1>4 DEF Writes
    <3>3. \A b \in UsedIn(t, n) \ {c} :
            \E k \in Filled(u, n, Hash(u[b])) : Probe(n, Hash(u[b]), k) = b
      BY <3>2, <1>2, <1>3, OldCellsReached
    <3> QED
      BY <3>1, <3>3
  <2> QED
    BY <2>1, <2>2
<1>9. Once(t, n) /\ a \notin Entries(t) => Once(u, n)
  <2> SUFFICES ASSUME Once(t, n), a \notin Entries(t),
                      NEW d \in UsedIn(u, n), NEW e \in UsedIn(u, n), u[d] = u[e]
               PROVE  d = e
    BY DEF Once
  <2>1. \A b \in UsedIn(t, n) : t[b] # a
    BY EntryCell
  <2> QED
    BY <2>1, <1>7 DEF Once
<1>10. Entries(u) = Entries(t) \union {a}
  <2>1. \A b \in Entries(u) : b \in Entries(t) \union {a}
    BY <1>5, <1>7, EntryCell
  <2>2. \A b \in Entries(t) : b \in Entries(u)
    BY <1>5, <1>7, EntryCell
  <2>3. a \in Entries(u)
    <3>1. c \in UsedIn(u, n) /\ u[c] = a
      BY <1>7
    <3> QED
      BY <3>1, <1>5, EntryCell
  <2> QED
    BY <2>1, <2>2, <2>3
<1>11. Cardinality(UsedIn(u, n)) <= Cardinality(UsedIn(t, n)) + 1
  <2>1. IsFiniteSet(UsedIn(t, n)) /\ Cardinality(UsedIn(t, n)) \in Nat
    BY UsedFinite
  <2>2. Cardinality(UsedIn(t, n) \cup {c}) =
          IF c \in UsedIn(t, n) THEN Cardinality(UsedIn(t, n)) ELSE Cardinality(UsedIn(t, n)) + 1
    BY <2>1, FS_AddElement
  <2> QED
    BY <2>1, <2>2, <1>7
<1> QED
  BY <1>5, <1>8, <1>9, <1>10, <1>11

LEMMA RemoveKeeps ==
  ASSUME NEW t, NEW n, Table(t, n), NEW c \in UsedIn(t, n),
         NEW u, Writes(t, u, c, Removed)
  PROVE  /\ Table(u, n)
         /\ Reachable(t, n) => Reachable(u, n)
         /\ Once(t, n) => Once(u, n) /\ t[c] \notin Entries(u)
         /\ Entries(u) \subseteq Entries(t) /\ Entries(t) \subseteq Entries(u) \union {t[c]}
         /\ Cardinality(UsedIn(u, n)) = Cardinality(UsedIn(t, n)) - 1
         /\ Cardinality(UsedIn(t, n)) >= 1
<1>0. n \in Nat /\ n > 0 /\ t \in [0 .. n - 1 -> Cells]
  BY DEF Table
<1>1. c \in 0 .. n - 1 /\ t[c] \in Arrays
  BY DEF UsedIn
<1>2. Removed \in Cells /\ Removed # Empty /\ Removed \notin Arrays
  BY MapAssumption DEF Cells
<1>3. Table(u, n)
  BY <1>0, <1>1, <1>2 DEF Table, Writes
<1>4. UsedIn(u, n) = UsedIn(t, n) \ {c} /\ \A d \in UsedIn(u, n) : d # c /\ u[d] = t[d]
  BY <1>0, <1>1, <1>2 DEF UsedIn, Writes
<1>10. /\ \A d \in UsedIn(u, n) : u[d] \in Entries(u)
       /\ \A b \in Entries(u) : \E d \in UsedIn(u, n) : u[d] = b
  BY <1>3, EntryCell
<1>11. \A d \in UsedIn(t, n) : t[d] \in Entries(t)
  BY EntryCell
<1>5. Reachable(t, n) => Reachable(u, n)
  <2> SUFFICES ASSUME Reachable(t, n), NEW d \in UsedIn(u, n)
               PROVE  \E k \in Filled(u, n, Hash(u[d])) : Probe(n, Hash(u[d]), k) = d
    BY DEF Reachable
  <2>1. d \in UsedIn(t, n) \ {c}
    BY <1>4
  <2>2. \A b \in UsedIn(t, n) \ {c} :
          \E k \in Filled(u, n, Hash(u[b])) : Probe(n, Hash(u[b]), k) = b
    BY <1>1, <1>2, OldCellsReached
  <2> QED
    BY <2>1, <2>2
<1>6. Once(t, n) => Once(u, n) /\ t[c] \notin Entries(u)
  <2> SUFFICES ASSUME Once(t, n) PROVE Once(u, n) /\ t[c] \notin Entries(u)
    OBVIOUS
  <2>1. Once(u, n)
    BY <1>4 DEF Once
  <2>2. \A d \in UsedIn(u, n) : u[d] # t[c]
    BY <1>4 DEF Once
  <2> QED
    BY <2>1, <2>2, <1>10
<1>7. Entries(u) \subseteq Entries(t)
  <2> SUFFICES ASSUME NEW b \in Entries(u) PROVE b \in Entries(t)
    OBVIOUS
  <2>1. PICK d \in UsedIn(u, n) : u[d] = b
    BY <1>10
  <2>2. d \in UsedIn(t, n) /\ t[d] = b
    BY <2>1, <1>4
  <2> QED
    BY <2>2, <1>11
<1>8. Entries(t) \subseteq Entries(u) \union {t[c]}
  <2> SUFFICES ASSUME NEW b \in Entries(t), b # t[c] PROVE b \in Entries(u)
    OBVIOUS
  <2>1. PICK d \in UsedIn(t, n) : t[d] = b
    BY EntryCell
  <2>2. d \in UsedIn(u, n) /\ u[d] = b
    BY <2>1, <1>4
  <2> QED
    BY <2>2, <1>3, EntryCell
<1>9. /\ Cardinality(UsedIn(u, n)) = Cardinality(UsedIn(t, n)) - 1
      /\ Cardinality(UsedIn(t, n)) >= 1
  <2>1. IsFiniteSet(UsedIn(t, n)) /\ Cardinality(UsedIn(t, n)) \in Nat
    BY UsedFinite
  <2>2. Cardinality(UsedIn(t, n) \ {c}) = Cardinality(UsedIn(t, n)) - 1
    BY <2>1, FS_RemoveElement
  <2>3. Cardinality(UsedIn(u, n)) \in Nat
    BY <1>3, UsedFinite
  <2>4. Cardinality(UsedIn(u, n)) = Cardinality(UsedIn(t, n)) - 1
    BY <2>2, <1>4
  <2> QED
    BY <2>1, <2>3, <2>4
<1> QED
  BY <1>3, <1>5, <1>6, <1>7, <1>8, <1>9

(***************************************************************************)
(* What a comparison of names can find.                                    *)
(***************************************************************************)
LEMMA Tables ==
  ASSUME TypeOK
  PROVE  /\ Table(hashtable, size) /\ Table(newtable, NewSize)
         /\ NewSize \in Nat /\ size < NewSize /\ Owned \subseteq Arrays
<1>1. NewSize \in Nat /\ size < NewSize /\ NewSize > 0
  BY Grown DEF TypeOK, NewSize
<1>2. newtable \in [0 .. NewSize - 1 -> Cells]
  BY DEF TypeOK, NewSize
<1>3. Table(hashtable, size)
  BY DEF TypeOK, Table
<1>4. Owned \subseteq Arrays
  BY DEF TypeOK, Owned
<1> QED
  BY <1>1, <1>2, <1>3, <1>4 DEF Table

LEMMA OwnedNotStale == \A a \in Owned : a \notin Stale
  BY DEF Owned, Stale

(* An entry that passes for an undisturbed array is that array.            *)
LEMMA SameIsSelf ==
  ASSUME TypeOK, StaleTells, NamesOnce, NEW a \in Owned, Undisturbed(a),
         NEW c \in Entries(hashtable), NEW reads, Same(c, a, reads)
  PROVE  c = a
<1>1. c \in Arrays /\ Hash(c) = Hash(a)
  BY DEF Same
<1>2. c \notin Stale /\ a \notin Stale
  BY <1>1, OwnedNotStale DEF StaleTells, Undisturbed
<1>3. zName[c] = zName[a]
  BY <1>2 DEF Same
<1>4. c \in Owned
  BY <1>1, <1>2, MapAssumption DEF Stale, Owned
<1>5. Undisturbed(c)
  BY <1>1 DEF Undisturbed
<1> QED
  BY <1>3, <1>4, <1>5 DEF NamesOnce

LEMMA HitIsEntry ==
  ASSUME NEW t, NEW n, Table(t, n), NEW a \in Arrays, NEW reads,
         NEW turns, turns \subseteq 0 .. n - 1, NEW k \in Hits(t, n, turns, a, reads)
  PROVE  LET c == Probe(n, Hash(a), k) IN
         c \in UsedIn(t, n) /\ t[c] \in Entries(t) /\ Same(t[c], a, reads)
<1> DEFINE c == Probe(n, Hash(a), k)
<1>0. n \in Nat /\ n > 0 /\ Hash(a) \in Nat
  BY HashType DEF Table
<1>1. k \in 0 .. n - 1 /\ Same(t[c], a, reads)
  BY DEF Hits
<1>2. c \in 0 .. n - 1
  BY <1>0, <1>1, ProbeType
<1>3. t[c] \in Arrays
  BY <1>1 DEF Same
<1>4. c \in UsedIn(t, n)
  BY <1>2, <1>3 DEF UsedIn
<1> QED
  BY <1>1, <1>4, EntryCell

(* The first of the turns that hit, and what it finds.                     *)
LEMMA FirstHit ==
  ASSUME NEW t, NEW n, Table(t, n), NEW a \in Arrays, NEW reads,
         NEW turns, turns \subseteq 0 .. n - 1, Hits(t, n, turns, a, reads) # {}
  PROVE  LET c == Probe(n, Hash(a), First(Hits(t, n, turns, a, reads))) IN
         c \in UsedIn(t, n) /\ t[c] \in Entries(t) /\ Same(t[c], a, reads)
<1> DEFINE hits == Hits(t, n, turns, a, reads)
<1>1. hits \subseteq Nat
  <2>1. hits \subseteq turns
    BY DEF Hits
  <2>2. n \in Nat /\ 0 .. n - 1 \subseteq Nat
    BY DEF Table
  <2> QED
    BY <2>1, <2>2
<1>2. First(hits) \in hits
  BY <1>1, FirstIsFirst
<1> HIDE DEF hits
<1>3. First(hits) \in Hits(t, n, turns, a, reads)
  BY <1>2 DEF hits
<1> QED
  BY <1>3, HitIsEntry DEF hits

LEMMA TurnsInTable ==
  ASSUME NEW t, NEW n, NEW h
  PROVE  Keys(t, n, h) \subseteq 0 .. n - 1 /\ Filled(t, n, h) \subseteq 0 .. n - 1
  BY DEF Keys, Filled

(* A search that goes on until an empty cell finds an array in its table.  *)
LEMMA Found ==
  ASSUME NEW t, NEW n, Table(t, n), Reachable(t, n), NEW b \in Entries(t)
  PROVE  \E k \in Filled(t, n, Hash(b)) : t[Probe(n, Hash(b), k)] = b
<1>1. PICK c \in UsedIn(t, n) : t[c] = b
  BY EntryCell
<1> QED
  BY <1>1 DEF Reachable

(* What taking array a out does to the table.                              *)
Removes(a) ==
  /\ hashtable' \in [0 .. size - 1 -> Cells] /\ count' \in Nat /\ count' <= count
  /\ Reachable(hashtable', size) /\ Once(hashtable', size)
  /\ Cardinality(UsedIn(hashtable', size)) <= count'
  /\ Entries(hashtable') \subseteq Entries(hashtable)
  /\ Undisturbed(a) => Entries(hashtable) \subseteq Entries(hashtable') \union {a}
  /\ \A b \in Entries(hashtable) : b \in Entries(hashtable') \/ Hash(b) = Hash(a)

LEMMA MapRemoveEffect ==
  ASSUME IndInv, NEW a \in Owned, NEW reads, MapRemove(a, reads)
  PROVE  Removes(a)
<1> DEFINE hits == Hits(hashtable, size, Keys(hashtable, size, Hash(a)), a, reads)
           c == Probe(size, Hash(a), First(hits))
<1>0. /\ TypeOK /\ StaleTells /\ NamesOnce /\ CountTells
      /\ Reachable(hashtable, size) /\ Once(hashtable, size)
  BY DEF IndInv
<1>1. Table(hashtable, size) /\ a \in Arrays /\ count \in Nat
  BY <1>0, Tables DEF TypeOK
<1>2. CASE hits = {}
  <2>1. hashtable' = hashtable /\ count' = count
    BY <1>2 DEF MapRemove
  <2> QED
    BY <1>0, <1>1, <2>1 DEF Removes, CountTells, Table
<1>3. CASE hits # {}
  <2>1. hashtable' = [hashtable EXCEPT ![c] = Removed] /\ count' = count - 1
    BY <1>3 DEF MapRemove
  <2>2. Keys(hashtable, size, Hash(a)) \subseteq 0 .. size - 1
    BY TurnsInTable
  <2>3. c \in UsedIn(hashtable, size) /\ hashtable[c] \in Entries(hashtable)
        /\ Same(hashtable[c], a, reads)
    BY <1>1, <1>3, <2>2, FirstHit
  <2> HIDE DEF c, hits
  <2>4. Writes(hashtable, hashtable', c, Removed)
    BY <2>1 DEF Writes
  <2>5. /\ Table(hashtable', size)
        /\ Reachable(hashtable', size) /\ Once(hashtable', size)
        /\ Entries(hashtable') \subseteq Entries(hashtable)
        /\ Entries(hashtable) \subseteq Entries(hashtable') \union {hashtable[c]}
        /\ Cardinality(UsedIn(hashtable', size)) = Cardinality(UsedIn(hashtable, size)) - 1
        /\ Cardinality(UsedIn(hashtable, size)) >= 1
    BY <1>0, <1>1, <2>3, <2>4, RemoveKeeps
  <2>6. Cardinality(UsedIn(hashtable, size)) \in Nat /\ Cardinality(UsedIn(hashtable, size)) <= count
    BY <1>0, <1>1, UsedFinite DEF CountTells
  <2>7. count' \in Nat /\ count' <= count /\ Cardinality(UsedIn(hashtable', size)) <= count'
    BY <1>1, <2>1, <2>5, <2>6
  <2>8. Undisturbed(a) => hashtable[c] = a
    BY <1>0, <2>3, SameIsSelf
  <2>9. Hash(hashtable[c]) = Hash(a)
    BY <2>3 DEF Same
  <2> QED
    BY <2>5, <2>7, <2>8, <2>9 DEF Removes, Table
<1> QED
  BY <1>2, <1>3

-----------------------------------------------------------------------------
(***************************************************************************)
(* The invariant holds in the initial state.                               *)
(***************************************************************************)
LEMMA NewTableEmpty ==
  ASSUME NEW n \in Nat
  PROVE  /\ NewTable(n) \in [0 .. n - 1 -> Cells]
         /\ UsedIn(NewTable(n), n) = {} /\ Entries(NewTable(n)) = {}
         /\ Reachable(NewTable(n), n) /\ Once(NewTable(n), n)
         /\ Cardinality(UsedIn(NewTable(n), n)) = 0
<1>1. Empty \in Cells /\ Empty \notin Arrays
  BY MapAssumption DEF Cells
<1>2. NewTable(n) \in [0 .. n - 1 -> Cells] /\ \A c \in 0 .. n - 1 : NewTable(n)[c] = Empty
  BY <1>1 DEF NewTable
<1>3. UsedIn(NewTable(n), n) = {}
  BY <1>1, <1>2 DEF UsedIn
<1>4. Entries(NewTable(n)) = {}
  BY <1>1, <1>2 DEF Entries
<1> QED
  BY <1>2, <1>3, <1>4, FS_EmptySet DEF Reachable, Once

LEMMA Thirds ==
  ASSUME NEW n \in Nat, n > 1
  PROVE  (n * 2) \div 3 \in Nat /\ (n * 2) \div 3 > 0 /\ (n * 2) \div 3 < n
  OBVIOUS

LEMMA InitInv == Init => IndInv
<1> SUFFICES ASSUME Init PROVE IndInv
  OBVIOUS
<1>0. /\ InitialSize \in Nat /\ InitialSize > 1
      /\ InitialSize + InitialSize \div 2 \in Nat
  BY MapAssumption, Grown
<1>1. /\ hashtable = NewTable(InitialSize) /\ size = InitialSize
      /\ rehashSize = (InitialSize * 2) \div 3 /\ count = 0
      /\ live = {} /\ new = NoArray /\ at = "idle"
      /\ newtable = NewTable(InitialSize + InitialSize \div 2) /\ i = 0 /\ disturbed = {}
  BY DEF Init
<1>2. rehashSize \in Nat /\ rehashSize > 0 /\ rehashSize < size
  BY <1>0, <1>1, Thirds
<1>3. /\ hashtable \in [0 .. size - 1 -> Cells]
      /\ Entries(hashtable) = {} /\ Cardinality(UsedIn(hashtable, size)) = 0
      /\ Reachable(hashtable, size) /\ Once(hashtable, size)
  BY <1>0, <1>1, NewTableEmpty
<1>4. newtable \in [0 .. (size + size \div 2) - 1 -> Cells]
  BY <1>0, <1>1, NewTableEmpty
<1>5. TypeOK
  BY <1>0, <1>1, <1>2, <1>3, <1>4 DEF TypeOK
<1>6. Owned = {} /\ Stale = {}
  BY <1>1, <1>3 DEF Owned, Stale
<1> QED
  BY <1>1, <1>2, <1>3, <1>5, <1>6
     DEF IndInv, SizeTells, NewTells, StaleTells, Present, NamesOnce, CountTells, RoomTells, CopyTells

-----------------------------------------------------------------------------
(***************************************************************************)
(* Every step keeps the invariant.                                         *)
(***************************************************************************)
History == disturbed' = disturbed \union {Hash(a) : a \in Stale'}

LEMMA HistoryGrows ==
  ASSUME TypeOK, History
  PROVE  /\ disturbed \subseteq disturbed' /\ disturbed' \subseteq Nat
         /\ StaleTells'
         /\ \A a : Undisturbed(a)' => Undisturbed(a)
<1>1. disturbed \subseteq disturbed' /\ StaleTells'
  BY DEF History, StaleTells
<1>2. Stale' \subseteq Arrays
  BY DEF Stale, Entries
<1>3. disturbed' \subseteq Nat
  BY <1>2, HashType DEF History, TypeOK
<1> QED
  BY <1>1, <1>3 DEF Undisturbed

(* The arrays that stay in the table are found under the same names.       *)
LEMMA PresenceStays ==
  ASSUME IndInv, History, Owned' \subseteq Owned,
         \A a \in Owned' : Undisturbed(a) => a \in Entries(hashtable')
  PROVE  Present' /\ NamesOnce'
<1>1. \A a : Undisturbed(a)' => Undisturbed(a)
  BY HistoryGrows DEF IndInv
<1>2. NamesOnce
  BY DEF IndInv
<1> QED
  BY <1>1, <1>2 DEF Present, NamesOnce

LEMMA RehashFailsInv == IndInv /\ RehashFails /\ History => IndInv'
<1> SUFFICES ASSUME IndInv, RehashFails, History PROVE IndInv'
  OBVIOUS
<1>0. /\ TypeOK /\ SizeTells /\ NewTells /\ Present /\ CountTells
      /\ Reachable(hashtable, size) /\ Once(hashtable, size)
  BY DEF IndInv
<1>1. /\ at = "full" /\ new' = NoArray /\ at' = "idle"
      /\ UNCHANGED <<hashtable, size, rehashSize, count, live, newtable, i>>
  BY DEF RehashFails, mapVars, rehashVars
<1>2. disturbed' \subseteq Nat /\ StaleTells'
  BY <1>0, HistoryGrows
<1>3. TypeOK'
  BY <1>0, <1>1, <1>2 DEF TypeOK
<1>4. Owned' \subseteq Owned
  BY <1>0, <1>1, MapAssumption DEF TypeOK, Owned
<1>5. Present' /\ NamesOnce'
  BY <1>0, <1>1, <1>4, PresenceStays DEF Present
<1>6. disturbed' # {}
  <2>1. new \in Entries(hashtable) /\ new \notin live
    BY <1>0, <1>1 DEF NewTells
  <2>2. new \in Stale'
    BY <2>1, <1>1, MapAssumption DEF Stale, Entries
  <2> QED
    BY <2>2 DEF History
<1>7. NewTells' /\ SizeTells' /\ CountTells' /\ CopyTells' /\ RoomTells'
      /\ Reachable(hashtable, size)' /\ Once(hashtable, size)'
  <2>1. NewTells'
    BY <1>0, <1>1, MapAssumption DEF NewTells, TypeOK
  <2>2. SizeTells' /\ CountTells' /\ CopyTells' /\ RoomTells'
    BY <1>0, <1>1, <1>6 DEF SizeTells, CountTells, CopyTells, RoomTells
  <2>3. Reachable(hashtable, size)' /\ Once(hashtable, size)'
    BY <1>0, <1>1
  <2> QED
    BY <2>1, <2>2, <2>3
<1> QED
  BY <1>2, <1>3, <1>5, <1>7 DEF IndInv

LEMMA RehashInv == IndInv /\ Rehash /\ History => IndInv'
<1> SUFFICES ASSUME IndInv, Rehash, History PROVE IndInv'
  OBVIOUS
<1>0. /\ TypeOK /\ SizeTells /\ NewTells /\ Present /\ CountTells /\ RoomTells
      /\ Reachable(hashtable, size) /\ Once(hashtable, size)
  BY DEF IndInv
<1>1. /\ at = "full" /\ newtable' = NewTable(NewSize) /\ i' = 0 /\ at' = "copying"
      /\ UNCHANGED <<hashtable, size, rehashSize, count, live, new>>
  BY DEF Rehash, mapVars, NewSize
<1>2. disturbed \subseteq disturbed' /\ disturbed' \subseteq Nat /\ StaleTells'
  BY <1>0, HistoryGrows
<1>3. /\ newtable' \in [0 .. NewSize - 1 -> Cells]
      /\ UsedIn(newtable', NewSize) = {} /\ Cardinality(UsedIn(newtable', NewSize)) = 0
      /\ Reachable(newtable', NewSize) /\ Once(newtable', NewSize)
  <2>1. NewSize \in Nat
    BY <1>0, Tables
  <2> QED
    BY <2>1, <1>1, NewTableEmpty
<1>4. TypeOK'
  <2>1. newtable' \in [0 .. (size' + size' \div 2) - 1 -> Cells]
    BY <1>1, <1>3 DEF NewSize
  <2> QED
    BY <2>1, <1>0, <1>1, <1>2 DEF TypeOK
<1>5. Owned' = Owned
  BY <1>1 DEF Owned
<1>6. Present' /\ NamesOnce'
  BY <1>0, <1>1, <1>5, PresenceStays DEF Present
<1>7. NewTells' /\ SizeTells' /\ CountTells' /\ RoomTells'
  BY <1>0, <1>1, <1>2 DEF NewTells, SizeTells, CountTells, RoomTells
<1>8. Reachable(hashtable, size)' /\ Once(hashtable, size)'
  BY <1>0, <1>1
<1>9. CopyTells'
  <2>1. NewSize' = NewSize
    BY <1>1 DEF NewSize
  <2>2. Passed' = {}
    BY <1>1 DEF Passed, UsedIn
  <2>3. Reachable(newtable, NewSize)' /\ Once(newtable, NewSize)'
    BY <2>1, <1>3
  <2>4. UsedIn(newtable, NewSize)' = {}
    BY <2>1, <1>3
  <2>5. (Cardinality(UsedIn(newtable, NewSize)) <= Cardinality(Passed))'
    BY <2>2, <2>4, FS_EmptySet
  <2> QED
    BY <2>2, <2>3, <2>4, <2>5 DEF CopyTells
<1> QED
  BY <1>2, <1>4, <1>6, <1>7, <1>8, <1>9 DEF IndInv

LEMMA TableCreatedInv ==
  ASSUME NEW reads
  PROVE  IndInv /\ TableCreated(reads) /\ History => IndInv'
<1> SUFFICES ASSUME IndInv, TableCreated(reads), History PROVE IndInv'
  OBVIOUS
<1>0. /\ TypeOK /\ SizeTells /\ NewTells /\ Present /\ CountTells /\ RoomTells
      /\ Reachable(hashtable, size) /\ Once(hashtable, size)
  BY DEF IndInv
<1>1. /\ at = "creating" /\ live' = live \union {new} /\ new' = NoArray /\ at' = "idle"
      /\ UNCHANGED <<hashtable, size, rehashSize, count, newtable, i>>
  BY DEF TableCreated, mapVars, rehashVars
<1>2. disturbed \subseteq disturbed' /\ disturbed' \subseteq Nat /\ StaleTells'
  BY <1>0, HistoryGrows
<1>3. new \in Arrays
  BY <1>0, <1>1 DEF TypeOK
<1>4. TypeOK'
  BY <1>0, <1>1, <1>2, <1>3 DEF TypeOK
<1>5. Owned' = Owned
  BY <1>1, <1>3, MapAssumption DEF Owned
<1>6. Present' /\ NamesOnce'
  BY <1>0, <1>1, <1>5, PresenceStays DEF Present
<1>7. NewTells' /\ SizeTells' /\ CountTells' /\ RoomTells' /\ CopyTells'
  <2>1. NewTells'
    BY <1>1, <1>4, MapAssumption DEF NewTells, TypeOK
  <2> QED
    BY <2>1, <1>0, <1>1, <1>2 DEF SizeTells, CountTells, RoomTells, CopyTells
<1>8. Reachable(hashtable, size)' /\ Once(hashtable, size)'
  BY <1>0, <1>1
<1> QED
  BY <1>2, <1>4, <1>6, <1>7, <1>8 DEF IndInv

(* After an entry was taken out, whether or not the array is still owned.  *)
LEMMA RemovedInv ==
  ASSUME IndInv, History, NEW a \in Owned, Removes(a),
         Owned' = Owned \ {a}, live' \subseteq live, new' = NoArray, at' = "idle",
         at \in {"idle", "creating"},
         UNCHANGED <<size, rehashSize, newtable, i>>
  PROVE  IndInv'
<1>0. /\ TypeOK /\ SizeTells /\ Present /\ RoomTells
  BY DEF IndInv
<1>2. disturbed \subseteq disturbed' /\ disturbed' \subseteq Nat /\ StaleTells'
  BY <1>0, HistoryGrows
<1>3. /\ hashtable' \in [0 .. size' - 1 -> Cells] /\ count' \in Nat /\ count' <= count
      /\ Reachable(hashtable', size') /\ Once(hashtable', size')
      /\ Cardinality(UsedIn(hashtable', size')) <= count'
  BY DEF Removes
<1>4. TypeOK'
  BY <1>0, <1>2, <1>3 DEF TypeOK
<1>5. Present' /\ NamesOnce'
  <2>1. ASSUME NEW b \in Owned', Undisturbed(b) PROVE b \in Entries(hashtable')
    <3>1. b \in Owned /\ b # a /\ b \in Entries(hashtable)
      BY <2>1, <1>0 DEF Present
    <3>2. CASE Hash(b) = Hash(a)
      BY <3>1, <3>2, <2>1 DEF Undisturbed, Removes
    <3>3. CASE Hash(b) # Hash(a)
      BY <3>1, <3>3 DEF Removes
    <3> QED
      BY <3>2, <3>3
  <2> QED
    BY <2>1, PresenceStays
<1>6. NewTells' /\ SizeTells' /\ CountTells' /\ CopyTells'
  <2>1. NewTells'
    BY <1>4, MapAssumption DEF NewTells, TypeOK
  <2> QED
    BY <2>1, <1>0, <1>3 DEF SizeTells, CountTells, CopyTells
<1>7. RoomTells'
  <2> SUFFICES ASSUME disturbed' = {} PROVE count' < rehashSize'
    BY <1>3, <1>4 DEF RoomTells, TypeOK
  <2>1. count < rehashSize
    BY <1>0, <1>2 DEF RoomTells
  <2> QED
    BY <2>1, <1>0, <1>3 DEF TypeOK
<1> QED
  BY <1>2, <1>3, <1>4, <1>5, <1>6, <1>7 DEF IndInv

LEMMA TableNotCreatedInv ==
  ASSUME NEW reads
  PROVE  IndInv /\ TableNotCreated(reads) /\ History => IndInv'
<1> SUFFICES ASSUME IndInv, TableNotCreated(reads), History PROVE IndInv'
  OBVIOUS
<1>0. TypeOK /\ NewTells
  BY DEF IndInv
<1>1. /\ at = "creating" /\ MapRemove(new, reads) /\ new' = NoArray /\ at' = "idle"
      /\ UNCHANGED <<size, rehashSize, live, newtable, i>>
  BY DEF TableNotCreated, rehashVars
<1>2. new \in Owned /\ Owned' = Owned \ {new}
  BY <1>0, <1>1, MapAssumption DEF Owned, TypeOK, NewTells
<1>3. Removes(new)
  BY <1>1, <1>2, MapRemoveEffect
<1> QED
  BY <1>1, <1>2, <1>3, RemovedInv

LEMMA DestroyInv ==
  ASSUME NEW a \in Arrays, NEW reads
  PROVE  IndInv /\ Destroy(a, reads) /\ History => IndInv'
<1> SUFFICES ASSUME IndInv, Destroy(a, reads), History PROVE IndInv'
  OBVIOUS
<1>0. TypeOK
  BY DEF IndInv
<1>1. /\ at = "idle" /\ a \in live /\ MapRemove(a, reads) /\ live' = live \ {a}
      /\ UNCHANGED <<size, rehashSize, new, at, newtable, i>>
  BY DEF Destroy, rehashVars
<1>2. new = NoArray
  BY <1>0, <1>1 DEF TypeOK
<1>3. a \in Owned /\ Owned' = Owned \ {a}
  BY <1>1, <1>2 DEF Owned
<1>4. Removes(a)
  BY <1>1, <1>3, MapRemoveEffect
<1>5. live' \subseteq live /\ new' = NoArray /\ at' = "idle" /\ at \in {"idle", "creating"}
  BY <1>1, <1>2
<1> QED
  BY <1>1, <1>3, <1>4, <1>5, RemovedInv

(* A name that is owned, and was not disturbed, is refused.                *)
LEMMA NameIsNew ==
  ASSUME IndInv, NEW a \in Arrays, a \notin live \union Entries(hashtable), NEW reads,
         Hits(hashtable, size, Seen(hashtable, size, a), a, reads) = {},
         NEW b \in Owned, Undisturbed(b)
  PROVE  zName[b] # zName[a]
<1> SUFFICES ASSUME zName[b] = zName[a] PROVE FALSE
  OBVIOUS
<1>0. TypeOK /\ Present /\ Reachable(hashtable, size)
  BY DEF IndInv
<1>1. Table(hashtable, size) /\ b \in Arrays
  BY <1>0, Tables
<1>2. b \in Entries(hashtable)
  BY <1>0 DEF Present
<1>3. Hash(b) = Hash(a)
  BY DEF Hash
<1>4. PICK k \in Filled(hashtable, size, Hash(b)) :
        hashtable[Probe(size, Hash(b), k)] = b
  BY <1>0, <1>1, <1>2, Found
<1>5. {b, a} \intersect Stale = {}
  BY OwnedNotStale DEF Stale
<1>6. Same(b, a, reads)
  BY <1>1, <1>3, <1>5 DEF Same
<1>7. k \in Hits(hashtable, size, Seen(hashtable, size, a), a, reads)
  BY <1>3, <1>4, <1>6 DEF Hits, Seen
<1> QED
  BY <1>7

LEMMA CreateInv ==
  ASSUME NEW a \in Arrays, NEW reads
  PROVE  IndInv /\ Create(a, reads) /\ History => IndInv'
<1> SUFFICES ASSUME IndInv, Create(a, reads), History PROVE IndInv'
  OBVIOUS
<1>0. /\ TypeOK /\ SizeTells /\ NewTells /\ Present /\ NamesOnce /\ CountTells /\ RoomTells
      /\ Reachable(hashtable, size) /\ Once(hashtable, size)
  BY DEF IndInv
<1>1. /\ at = "idle" /\ a \notin live \union Entries(hashtable)
      /\ hashtable' = MapPut(hashtable, size, a, reads) /\ hashtable' # hashtable
      /\ count' = count + 1 /\ new' = a
      /\ at' = IF count' >= rehashSize THEN "full" ELSE "creating"
      /\ UNCHANGED <<size, rehashSize, live, newtable, i>>
  BY DEF Create, rehashVars
<1>2. disturbed \subseteq disturbed' /\ disturbed' \subseteq Nat /\ StaleTells'
      /\ \A b : Undisturbed(b)' => Undisturbed(b)
  BY <1>0, HistoryGrows
<1>3. Table(hashtable, size) /\ size' = size
  BY <1>0, <1>1, Tables
<1>4. /\ Puts(hashtable, hashtable', size, a)
      /\ Hits(hashtable, size, Seen(hashtable, size, a), a, reads) = {}
  BY <1>1, <1>3, PutCases
<1>5. /\ Table(hashtable', size) /\ Reachable(hashtable', size) /\ Once(hashtable', size)
      /\ Entries(hashtable') = Entries(hashtable) \union {a}
      /\ Cardinality(UsedIn(hashtable', size)) <= Cardinality(UsedIn(hashtable, size)) + 1
  BY <1>0, <1>1, <1>3, <1>4, PutKeeps
<1>6. a # NoArray /\ new = NoArray
  BY <1>0, <1>1, MapAssumption DEF TypeOK
<1>7. Owned = live /\ Owned' = live \union {a} /\ a \notin live
  BY <1>1, <1>6 DEF Owned
<1>8. count < rehashSize \/ disturbed # {}
  BY <1>0, <1>1 DEF TypeOK, RoomTells
<1>9. count \in Nat /\ rehashSize \in Nat /\ at' \in {"full", "creating"}
  BY <1>0, <1>1 DEF TypeOK
<1>10. TypeOK'
  <2>1. count' \in Nat
    BY <1>1, <1>9
  <2>2. hashtable' \in [0 .. size' - 1 -> Cells]
    BY <1>3, <1>5 DEF Table
  <2> QED
    BY <2>1, <2>2, <1>0, <1>1, <1>2, <1>6, <1>9 DEF TypeOK
<1>11. Present'
  BY <1>0, <1>2, <1>5, <1>7 DEF Present
<1>12. NamesOnce'
  <2> SUFFICES ASSUME NEW b \in Owned', NEW d \in Owned', Undisturbed(b)', zName[b] = zName[d]
               PROVE  b = d
    BY DEF NamesOnce
  <2>1. Undisturbed(b)
    BY <1>2
  <2>2. Undisturbed(d)
    BY <2>1 DEF Undisturbed, Hash
  <2>3. \A e \in Owned : Undisturbed(e) => zName[e] # zName[a]
    BY <1>1, <1>4, NameIsNew
  <2> QED
    BY <2>1, <2>2, <2>3, <1>0, <1>7 DEF NamesOnce
<1>13. NewTells'
  BY <1>1, <1>5, <1>7 DEF NewTells
<1>14. SizeTells' /\ CopyTells'
  BY <1>0, <1>1, <1>9 DEF SizeTells, CopyTells
<1>15. CountTells'
  <2>1. /\ Cardinality(UsedIn(hashtable, size)) \in Nat
        /\ Cardinality(UsedIn(hashtable', size)) \in Nat
    BY <1>3, <1>5, UsedFinite
  <2>2. Cardinality(UsedIn(hashtable, size)) <= count
    BY <1>0 DEF CountTells
  <2>3. Cardinality(UsedIn(hashtable', size)) <= count + 1
    BY <2>1, <2>2, <1>5, <1>9
  <2> QED
    BY <2>3, <1>1, <1>3 DEF CountTells
<1>16. RoomTells'
  <2> SUFFICES ASSUME disturbed' = {}
               PROVE  /\ count' <= rehashSize
                      /\ at' = "creating" => count' < rehashSize
    BY <1>1, <1>9 DEF RoomTells
  <2>1. count < rehashSize
    BY <1>2, <1>8
  <2> QED
    BY <2>1, <1>1, <1>9
<1> QED
  BY <1>2, <1>3, <1>5, <1>10, <1>11, <1>12, <1>13, <1>14, <1>15, <1>16 DEF IndInv

LEMMA RehashEndsInv == IndInv /\ RehashEnds /\ History => IndInv'
<1> SUFFICES ASSUME IndInv, RehashEnds, History PROVE IndInv'
  OBVIOUS
<1>0. /\ TypeOK /\ SizeTells /\ NewTells /\ Present /\ NamesOnce /\ CountTells /\ RoomTells
      /\ CopyTells
  BY DEF IndInv
<1>1. /\ at = "copying" /\ i = size /\ rehashSize' = size /\ size' = NewSize
      /\ hashtable' = newtable /\ newtable' = NewTable(size' + size' \div 2) /\ i' = 0
      /\ at' = "creating"
      /\ UNCHANGED <<count, live, new>>
  BY DEF RehashEnds, NewSize
<1>2. disturbed \subseteq disturbed' /\ disturbed' \subseteq Nat /\ StaleTells'
  BY <1>0, HistoryGrows
<1>3. /\ size \in Nat /\ size > 1 /\ NewSize \in Nat /\ size < NewSize
      /\ Table(hashtable, size) /\ Table(newtable, NewSize)
  BY <1>0, Tables DEF TypeOK
<1>4. Passed = UsedIn(hashtable, size)
  BY <1>1, <1>3 DEF Passed, UsedIn
<1>5. /\ Reachable(newtable, NewSize) /\ Once(newtable, NewSize)
      /\ \A c \in UsedIn(hashtable, size) :
           Undisturbed(hashtable[c]) => hashtable[c] \in Entries(newtable)
      /\ Cardinality(UsedIn(newtable, NewSize)) <= Cardinality(UsedIn(hashtable, size))
  BY <1>0, <1>1, <1>4 DEF CopyTells
<1>6. count \in Nat /\ rehashSize \in Nat
  BY <1>0 DEF TypeOK
<1>7. TypeOK'
  <2>1. newtable' \in [0 .. (size' + size' \div 2) - 1 -> Cells]
    BY <1>1, <1>3, Grown, NewTableEmpty
  <2>2. hashtable' \in [0 .. size' - 1 -> Cells]
    BY <1>1, <1>3 DEF Table
  <2>3. size' \in Nat /\ size' > 1 /\ rehashSize' \in Nat /\ i' \in 0 .. size'
    BY <1>1, <1>3
  <2> QED
    BY <2>1, <2>2, <2>3, <1>0, <1>1, <1>2 DEF TypeOK
<1>8. Owned' = Owned
  BY <1>1 DEF Owned
<1>9. Present' /\ NamesOnce'
  <2>1. ASSUME NEW a \in Owned', Undisturbed(a) PROVE a \in Entries(hashtable')
    <3>1. a \in Entries(hashtable)
      BY <2>1, <1>0, <1>8 DEF Present
    <3>2. PICK c \in UsedIn(hashtable, size) : hashtable[c] = a
      BY <3>1, <1>3, EntryCell
    <3> QED
      BY <3>2, <2>1, <1>1, <1>5
  <2> QED
    BY <2>1, <1>8, PresenceStays
<1>10. NewTells' /\ SizeTells' /\ CopyTells'
  BY <1>0, <1>1, <1>3 DEF NewTells, SizeTells, CopyTells
<1>11. CountTells'
  <2>1. /\ Cardinality(UsedIn(hashtable, size)) \in Nat
        /\ Cardinality(UsedIn(newtable, NewSize)) \in Nat
    BY <1>3, UsedFinite
  <2>2. Cardinality(UsedIn(hashtable, size)) <= count
    BY <1>0 DEF CountTells
  <2>3. Cardinality(UsedIn(newtable, NewSize)) <= count
    BY <2>1, <2>2, <1>5, <1>6
  <2> QED
    BY <2>3, <1>1 DEF CountTells
<1>12. RoomTells'
  <2> SUFFICES ASSUME disturbed' = {} PROVE count < size
    BY <1>1, <1>3, <1>6 DEF RoomTells
  <2>1. count <= rehashSize /\ rehashSize < size
    BY <1>0, <1>2 DEF RoomTells, SizeTells
  <2> QED
    BY <2>1, <1>3, <1>6
<1>13. Reachable(hashtable, size)' /\ Once(hashtable, size)'
  BY <1>1, <1>5
<1> QED
  BY <1>2, <1>7, <1>9, <1>10, <1>11, <1>12, <1>13 DEF IndInv

(* The entry of cell i is copied, or left out: then it is in the new table *)
(* already, or one of its hash has been freed.                             *)
LEMMA EntryCopied ==
  ASSUME IndInv, at = "copying", i < size, NEW a, a = hashtable[i], a \in Arrays, NEW reads,
         NEW u, u = MapPut(newtable, NewSize, a, reads)
  PROVE  /\ Table(u, NewSize) /\ Reachable(u, NewSize) /\ Once(u, NewSize)
         /\ Entries(newtable) \subseteq Entries(u)
         /\ Entries(u) \subseteq Entries(newtable) \union {a}
         /\ Undisturbed(a) => a \in Entries(u)
         /\ Cardinality(UsedIn(u, NewSize)) <= Cardinality(Passed) + 1
<1>0. /\ TypeOK /\ StaleTells /\ NamesOnce /\ CopyTells /\ Once(hashtable, size)
  BY DEF IndInv
<1>1. /\ Table(hashtable, size) /\ Table(newtable, NewSize)
      /\ NewSize \in Nat /\ size \in Nat /\ size < NewSize /\ i \in 0 .. size - 1
  BY <1>0, Tables DEF TypeOK
<1>2. /\ Reachable(newtable, NewSize) /\ Once(newtable, NewSize)
      /\ \A d \in UsedIn(newtable, NewSize) : \E c \in Passed : newtable[d] = hashtable[c]
      /\ Cardinality(UsedIn(newtable, NewSize)) <= Cardinality(Passed)
  BY <1>0 DEF CopyTells
<1>3. /\ Cardinality(Passed) \in Nat /\ Cardinality(Passed) <= size
      /\ Cardinality(UsedIn(newtable, NewSize)) \in Nat
  <2>1. Passed \subseteq 0 .. size - 1
    BY DEF Passed, UsedIn
  <2> QED
    BY <2>1, <1>1, CellsFinite, UsedFinite
<1>4. i \in UsedIn(hashtable, size) /\ i \notin Passed /\ a \in Entries(hashtable)
  BY <1>1, EntryCell DEF UsedIn, Passed
<1>5. \A b \in Entries(newtable) : b \in Arrays /\ \E c \in Passed : b = hashtable[c]
  BY <1>1, <1>2, EntryCell
<1>6. a \notin Entries(newtable)
  <2> SUFFICES ASSUME a \in Entries(newtable) PROVE FALSE
    OBVIOUS
  <2>1. PICK c \in Passed : a = hashtable[c]
    BY <1>5
  <2>2. c \in UsedIn(hashtable, size) /\ c = i
    BY <2>1, <1>0, <1>4 DEF Once, Passed
  <2> QED
    BY <2>1, <2>2, <1>4
<1> DEFINE hits == Hits(newtable, NewSize, Seen(newtable, NewSize, a), a, reads)
<1>7. CASE /\ u = newtable
           /\ UsedIn(newtable, NewSize) = 0 .. NewSize - 1 \/ hits # {}
  <2>1. UsedIn(newtable, NewSize) # 0 .. NewSize - 1
    <3> SUFFICES ASSUME UsedIn(newtable, NewSize) = 0 .. NewSize - 1 PROVE FALSE
      OBVIOUS
    <3>1. Cardinality(0 .. NewSize - 1) = NewSize
      BY <1>1, FS_Interval
    <3>2. Cardinality(UsedIn(newtable, NewSize)) = NewSize
      BY <3>1
    <3> QED
      BY <3>2, <1>1, <1>2, <1>3
  <2>2. hits # {}
    BY <2>1, <1>7
  <2>3. PICK k \in hits : TRUE
    BY <2>2
  <2>4. Seen(newtable, NewSize, a) \subseteq 0 .. NewSize - 1
    BY TurnsInTable DEF Seen
  <2> DEFINE b == newtable[Probe(NewSize, Hash(a), k)]
  <2>5. b \in Entries(newtable) /\ Same(b, a, reads)
    BY <2>3, <2>4, <1>1, HitIsEntry
  <2> HIDE DEF b
  <2>6. b \in Entries(hashtable)
    BY <2>5, <1>1, <1>5, EntryCell DEF Passed
  <2>7. Undisturbed(a) => a \in Owned
    BY <1>0, <1>4, MapAssumption DEF StaleTells, Undisturbed, Stale, Owned
  <2>8. Undisturbed(a) => b = a
    BY <2>5, <2>6, <2>7, <1>0, SameIsSelf
  <2> QED
    BY <2>5, <2>8, <1>1, <1>2, <1>3, <1>7
<1>8. CASE Puts(newtable, u, NewSize, a)
  <2>1. /\ Table(u, NewSize)
        /\ Reachable(newtable, NewSize) => Reachable(u, NewSize)
        /\ Once(newtable, NewSize) /\ a \notin Entries(newtable) => Once(u, NewSize)
        /\ Entries(u) = Entries(newtable) \union {a}
        /\ Cardinality(UsedIn(u, NewSize)) <= Cardinality(UsedIn(newtable, NewSize)) + 1
    BY <1>1, <1>8, PutKeeps
  <2>2. Cardinality(UsedIn(u, NewSize)) \in Nat
    BY <2>1, UsedFinite
  <2>3. Cardinality(UsedIn(u, NewSize)) <= Cardinality(Passed) + 1
    BY <2>1, <2>2, <1>2, <1>3
  <2> QED
    BY <2>1, <2>3, <1>2, <1>6
<1> QED
  BY <1>1, <1>7, <1>8, PutCases

LEMMA RehashCellInv ==
  ASSUME NEW reads
  PROVE  IndInv /\ RehashCell(reads) /\ History => IndInv'
<1> SUFFICES ASSUME IndInv, RehashCell(reads), History PROVE IndInv'
  OBVIOUS
<1>0. /\ TypeOK /\ SizeTells /\ NewTells /\ Present /\ NamesOnce /\ CountTells /\ RoomTells
      /\ CopyTells /\ Reachable(hashtable, size) /\ Once(hashtable, size)
  BY DEF IndInv
<1> DEFINE a == hashtable[i]
<1>1. /\ at = "copying" /\ i < size /\ i' = i + 1
      /\ newtable' = IF a \in Arrays THEN MapPut(newtable, NewSize, a, reads) ELSE newtable
      /\ UNCHANGED <<hashtable, size, rehashSize, count, live, new, at>>
  BY DEF RehashCell, mapVars, NewSize
<1>2. disturbed \subseteq disturbed' /\ disturbed' \subseteq Nat /\ StaleTells'
      /\ \A b : Undisturbed(b)' => Undisturbed(b)
  BY <1>0, HistoryGrows
<1>3. /\ Table(hashtable, size) /\ Table(newtable, NewSize)
      /\ NewSize \in Nat /\ size \in Nat /\ size < NewSize /\ i \in 0 .. size - 1
      /\ NewSize' = NewSize
  BY <1>0, <1>1, Tables DEF TypeOK, NewSize
<1>4. /\ Reachable(newtable, NewSize) /\ Once(newtable, NewSize)
      /\ \A d \in UsedIn(newtable, NewSize) : \E c \in Passed : newtable[d] = hashtable[c]
      /\ \A c \in Passed : Undisturbed(hashtable[c]) => hashtable[c] \in Entries(newtable)
      /\ Cardinality(UsedIn(newtable, NewSize)) <= Cardinality(Passed)
  BY <1>0, <1>1 DEF CopyTells
<1>5. IsFiniteSet(Passed) /\ Cardinality(Passed) \in Nat
  <2>1. Passed \subseteq 0 .. size - 1
    BY DEF Passed, UsedIn
  <2> QED
    BY <2>1, <1>3, CellsFinite
<1>6. Passed' = IF a \in Arrays THEN Passed \union {i} ELSE Passed
  BY <1>1, <1>3 DEF Passed, UsedIn
<1>7. i \notin Passed
  BY <1>3 DEF Passed
<1>8. /\ Table(newtable', NewSize)
      /\ Reachable(newtable', NewSize) /\ Once(newtable', NewSize)
      /\ \A d \in UsedIn(newtable', NewSize) : \E c \in Passed' : newtable'[d] = hashtable[c]
      /\ \A c \in Passed' : Undisturbed(hashtable[c]) => hashtable[c] \in Entries(newtable')
      /\ Cardinality(UsedIn(newtable', NewSize)) <= Cardinality(Passed')
  <2>1. CASE a \notin Arrays
    <3>1. newtable' = newtable /\ Passed' = Passed
      BY <2>1, <1>1, <1>6
    <3> QED
      BY <3>1, <1>3, <1>4
  <2>2. CASE a \in Arrays
    <3>1. newtable' = MapPut(newtable, NewSize, a, reads) /\ Passed' = Passed \union {i}
      BY <2>2, <1>1, <1>6
    <3>2. /\ Table(newtable', NewSize)
          /\ Reachable(newtable', NewSize) /\ Once(newtable', NewSize)
          /\ Entries(newtable) \subseteq Entries(newtable')
          /\ Entries(newtable') \subseteq Entries(newtable) \union {a}
          /\ Undisturbed(a) => a \in Entries(newtable')
          /\ Cardinality(UsedIn(newtable', NewSize)) <= Cardinality(Passed) + 1
      BY <3>1, <2>2, <1>1, EntryCopied
    <3>3. Cardinality(Passed') = Cardinality(Passed) + 1
      <4>1. Cardinality(Passed \cup {i}) = Cardinality(Passed) + 1
        BY <1>5, <1>7, FS_AddElement
      <4> QED
        BY <4>1, <3>1
    <3>4. \A b \in Entries(newtable) : \E c \in Passed : b = hashtable[c]
      BY <1>3, <1>4, EntryCell
    <3>5. ASSUME NEW d \in UsedIn(newtable', NewSize)
          PROVE  \E c \in Passed' : newtable'[d] = hashtable[c]
      <4>1. newtable'[d] \in Entries(newtable')
        BY <3>2, EntryCell
      <4>2. CASE newtable'[d] = a
        BY <4>2, <3>1
      <4>3. CASE newtable'[d] \in Entries(newtable)
        BY <4>3, <3>1, <3>4
      <4> QED
        BY <4>1, <4>2, <4>3, <3>2
    <3>6. \A c \in Passed' : Undisturbed(hashtable[c]) => hashtable[c] \in Entries(newtable')
      BY <3>1, <3>2, <1>4
    <3> QED
      BY <3>2, <3>3, <3>5, <3>6
  <2> QED
    BY <2>1, <2>2
<1>9. TypeOK'
  <2>1. newtable' \in [0 .. (size' + size' \div 2) - 1 -> Cells]
    BY <1>1, <1>8 DEF Table, NewSize
  <2>2. i' \in 0 .. size'
    BY <1>1, <1>3
  <2> QED
    BY <2>1, <2>2, <1>0, <1>1, <1>2 DEF TypeOK
<1>10. Owned' = Owned
  BY <1>1 DEF Owned
<1>11. Present' /\ NamesOnce'
  BY <1>0, <1>1, <1>10, PresenceStays DEF Present
<1>12. NewTells' /\ SizeTells' /\ CountTells' /\ RoomTells'
  BY <1>0, <1>1, <1>2 DEF NewTells, SizeTells, CountTells, RoomTells
<1>13. Reachable(hashtable, size)' /\ Once(hashtable, size)'
  BY <1>0, <1>1
<1>14. CopyTells'
  <2>1. Reachable(newtable, NewSize)' /\ Once(newtable, NewSize)'
    BY <1>3, <1>8
  <2>2. (\A d \in UsedIn(newtable, NewSize) : \E c \in Passed : newtable[d] = hashtable[c])'
    BY <1>1, <1>3, <1>8
  <2>3. (\A c \in Passed : Undisturbed(hashtable[c]) => hashtable[c] \in Entries(newtable))'
    BY <1>1, <1>2, <1>8
  <2>4. (Cardinality(UsedIn(newtable, NewSize)) <= Cardinality(Passed))'
    BY <1>3, <1>8
  <2> QED
    BY <2>1, <2>2, <2>3, <2>4 DEF CopyTells
<1> QED
  BY <1>2, <1>9, <1>11, <1>12, <1>13, <1>14 DEF IndInv

LEMMA StutterInv == IndInv /\ UNCHANGED vars => IndInv'
  BY DEF IndInv, vars, mapVars, rehashVars, TypeOK, SizeTells, NewTells, StaleTells, Stale,
         Entries, Present, Owned, Undisturbed, NamesOnce, CountTells, UsedIn, RoomTells,
         CopyTells, NewSize, Passed, Reachable, Once

LEMMA NextInv == IndInv /\ [Next]_vars => IndInv'
<1> SUFFICES ASSUME IndInv, Step, History PROVE IndInv'
  BY StutterInv DEF Next, History
<1>1. CASE RehashFails
  BY <1>1, RehashFailsInv
<1>2. CASE Rehash
  BY <1>2, RehashInv
<1>3. CASE RehashEnds
  BY <1>3, RehashEndsInv
<1>4. ASSUME NEW reads \in SUBSET Stale, RehashCell(reads) PROVE IndInv'
  BY <1>4, RehashCellInv
<1>5. ASSUME NEW reads \in SUBSET Stale, TableCreated(reads) PROVE IndInv'
  BY <1>5, TableCreatedInv
<1>6. ASSUME NEW reads \in SUBSET Stale, TableNotCreated(reads) PROVE IndInv'
  BY <1>6, TableNotCreatedInv
<1>7. ASSUME NEW reads \in SUBSET Stale, NEW a \in Arrays, Create(a, reads) PROVE IndInv'
  BY <1>7, CreateInv
<1>8. ASSUME NEW reads \in SUBSET Stale, NEW a \in Arrays, Destroy(a, reads) PROVE IndInv'
  BY <1>8, DestroyInv
<1> QED
  BY <1>1, <1>2, <1>3, <1>4, <1>5, <1>6, <1>7, <1>8 DEF Step

(***************************************************************************)
(* The theorems.                                                           *)
(***************************************************************************)
(* The hash table is well formed in every state: each entry is where a     *)
(* search comes to it, no array has two, those that are owned and not      *)
(* disturbed have one, and a rehash has copied all that it has passed.     *)
THEOREM Invariance == Spec => []IndInv
<1>1. Init => IndInv
  BY InitInv
<1>2. IndInv /\ [Next]_vars => IndInv'
  BY NextInv
<1> QED
  BY <1>1, <1>2, PTL DEF Spec

(* map->count never goes below zero, the copy of rehash() has the size the *)
(* map is given after it, and a creation is in one of its stages exactly   *)
(* as long as there is an array being created.                             *)
THEOREM TypeCorrect == Spec => []TypeOK
<1>1. IndInv => TypeOK
  BY DEF IndInv
<1> QED
  BY <1>1, Invariance, PTL

LEMMA FoundFirst == IndInv => ArrayFound
<1> SUFFICES ASSUME IndInv, NEW a \in Owned, Undisturbed(a) PROVE MapFind(a, {}) = a
  BY DEF ArrayFound
<1>0. /\ TypeOK /\ StaleTells /\ NamesOnce /\ Present /\ Reachable(hashtable, size)
  BY DEF IndInv
<1>1. Table(hashtable, size) /\ a \in Arrays
  BY <1>0, Tables
<1> DEFINE turns == Filled(hashtable, size, Hash(a))
           hits == Hits(hashtable, size, turns, a, {})
           c == Probe(size, Hash(a), First(hits))
<1>2. a \in Entries(hashtable)
  BY <1>0 DEF Present
<1>3. hits # {}
  <2>1. PICK k \in turns : hashtable[Probe(size, Hash(a), k)] = a
    BY <1>0, <1>1, <1>2, Found
  <2>2. Same(a, a, {})
    BY <1>1, OwnedNotStale DEF Same
  <2> QED
    BY <2>1, <2>2 DEF Hits
<1>4. turns \subseteq 0 .. size - 1
  BY TurnsInTable
<1>5. hashtable[c] \in Entries(hashtable) /\ Same(hashtable[c], a, {})
  BY <1>1, <1>3, <1>4, FirstHit
<1>6. MapFind(a, {}) = hashtable[c]
  BY <1>3 DEF MapFind
<1> HIDE DEF c
<1> QED
  BY <1>0, <1>5, <1>6, SameIsSelf

(* intarrayMapFind() with the name of an array that is owned returns that  *)
(* array: after any history of collisions, of removed cells taken again    *)
(* and of growth, for any hash function, as long as no array with its hash *)
(* was freed and left in the table.                                        *)
THEOREM ArraysAreFound == Spec => []ArrayFound
  BY Invariance, FoundFirst, PTL

LEMMA RoomFromCount == IndInv => RoomIsLeft
<1> SUFFICES ASSUME IndInv PROVE RoomIsLeft
  OBVIOUS
<1>0. TypeOK /\ CountTells /\ RoomTells
  BY DEF IndInv
<1>1. UsedCells = UsedIn(hashtable, size)
  BY DEF UsedCells, UsedIn
<1>2. Table(hashtable, size) /\ count \in Nat /\ rehashSize \in Nat
  BY <1>0, Tables DEF TypeOK
<1>3. Cardinality(UsedCells) \in Nat /\ Cardinality(UsedCells) <= count
  BY <1>0, <1>1, <1>2, UsedFinite DEF CountTells
<1>4. at = "idle" /\ disturbed = {} => count < rehashSize
  BY <1>0 DEF RoomTells
<1> QED
  BY <1>2, <1>3, <1>4 DEF RoomIsLeft

(* map->count is never less than the number of keys, so a put finds a cell *)
(* to take and intarrayMapPut() has no INTARRAY_INTERNAL_ERROR to return,  *)
(* unless the map could not grow.                                          *)
THEOREM RoomEnough == Spec => []RoomIsLeft
  BY Invariance, RoomFromCount, PTL

(* Where no removed cell comes before its entry, an array is taken out.    *)
LEMMA TakenOut ==
  ASSUME IndInv, NEW a \in Owned, Undisturbed(a), ~Hidden(a), NEW reads, MapRemove(a, reads)
  PROVE  a \notin Entries(hashtable')
<1>0. /\ TypeOK /\ StaleTells /\ NamesOnce /\ Present
      /\ Reachable(hashtable, size) /\ Once(hashtable, size)
  BY DEF IndInv
<1>1. Table(hashtable, size) /\ a \in Arrays
  BY <1>0, Tables
<1> DEFINE h == Hash(a)
           keys == Keys(hashtable, size, h)
           hits == Hits(hashtable, size, keys, a, reads)
           c == Probe(size, h, First(hits))
<1>2. PICK k \in Filled(hashtable, size, h) : hashtable[Probe(size, h, k)] = a
  BY <1>0, <1>1, Found DEF Present
<1>3. k \in keys
  <2>1. k \in 0 .. size - 1 /\ \A j \in 0 .. k : hashtable[Probe(size, h, j)] # Empty
    BY <1>2 DEF Filled
  <2> SUFFICES ASSUME NEW j \in 0 .. k PROVE hashtable[Probe(size, h, j)] \in Arrays
    BY <2>1 DEF Keys
  <2>2. j \in 0 .. size - 1 /\ size \in Nat /\ size > 0 /\ h \in Nat
    BY <2>1, <1>1, HashType DEF Table
  <2>3. j \in Filled(hashtable, size, h)
    <3>1. \A l \in 0 .. j : l \in 0 .. k
      BY <2>1
    <3> QED
      BY <3>1, <2>1, <2>2 DEF Filled
  <2>4. Probe(size, h, j) \in 0 .. size - 1
    BY <2>2, ProbeType
  <2>5. hashtable[Probe(size, h, j)] \in Cells
    BY <2>4, <1>1 DEF Table
  <2>6. hashtable[Probe(size, h, j)] # Removed
    BY <2>3 DEF Hidden
  <2> QED
    BY <2>1, <2>5, <2>6 DEF Cells
<1>4. hits # {}
  <2>1. Same(a, a, reads)
    BY <1>1, OwnedNotStale DEF Same
  <2> QED
    BY <2>1, <1>2, <1>3 DEF Hits
<1>5. hashtable' = [hashtable EXCEPT ![c] = Removed]
  BY <1>4 DEF MapRemove
<1>6. keys \subseteq 0 .. size - 1
  BY TurnsInTable
<1>7. c \in UsedIn(hashtable, size) /\ hashtable[c] \in Entries(hashtable)
      /\ Same(hashtable[c], a, reads)
  BY <1>1, <1>4, <1>6, FirstHit
<1> HIDE DEF c
<1>8. hashtable[c] = a
  BY <1>0, <1>7, SameIsSelf
<1>9. Writes(hashtable, hashtable', c, Removed)
  BY <1>5 DEF Writes
<1>10. hashtable[c] \notin Entries(hashtable')
  BY <1>0, <1>1, <1>7, <1>9, RemoveKeeps
<1> QED
  BY <1>8, <1>10

(* What FreedWithItsEntry says of one step.                                *)
GivenUp ==
  \A a \in Owned \ Owned' :
     a \in Entries(hashtable') => Hidden(a) \/ at = "full" \/ ~Undisturbed(a)

LEMMA StepGivesUp == IndInv /\ [Next]_vars => GivenUp
<1> SUFFICES ASSUME IndInv, [Next]_vars, NEW a \in Owned, a \notin Owned',
                    a \in Entries(hashtable'), ~Hidden(a), at # "full", Undisturbed(a)
             PROVE  FALSE
  BY DEF GivenUp
<1>0. TypeOK
  BY DEF IndInv
<1>1. CASE UNCHANGED <<live, new>>
  BY <1>1 DEF Owned
<1>2. ASSUME NEW reads, NEW b, b \in Owned, Owned \ {b} \subseteq Owned', MapRemove(b, reads)
      PROVE  FALSE
  <2>1. b = a
    BY <1>2
  <2> QED
    BY <2>1, <1>2, TakenOut
<1>3. ASSUME NEW reads, TableCreated(reads) PROVE FALSE
  <2>1. Owned \subseteq Owned'
    BY <1>3, <1>0, MapAssumption DEF TableCreated, Owned, TypeOK
  <2> QED
    BY <2>1
<1>4. ASSUME NEW reads, TableNotCreated(reads) PROVE FALSE
  <2>1. new \in Owned /\ Owned \ {new} \subseteq Owned' /\ MapRemove(new, reads)
    BY <1>4, <1>0, MapAssumption DEF TableNotCreated, Owned, TypeOK
  <2> QED
    BY <2>1, <1>2
<1>5. ASSUME NEW reads, NEW b, Create(b, reads) PROVE FALSE
  <2>1. Owned \subseteq Owned'
    BY <1>5, <1>0 DEF Create, Owned, TypeOK
  <2> QED
    BY <2>1
<1>6. ASSUME NEW reads, NEW b, Destroy(b, reads) PROVE FALSE
  <2>1. b \in Owned /\ Owned \ {b} \subseteq Owned' /\ MapRemove(b, reads)
    BY <1>6 DEF Destroy, Owned
  <2> QED
    BY <2>1, <1>2
<1>7. CASE Step
  BY <1>1, <1>3, <1>4, <1>5, <1>6, <1>7
     DEF Step, RehashFails, Rehash, RehashEnds, RehashCell, mapVars, rehashVars
<1> QED
  BY <1>1, <1>7 DEF Next, vars

(* sqlite3_intarray_destroy() frees an array with its entry: what keeps it *)
(* from it is a removed cell before the entry, a map that could not grow,  *)
(* or an earlier array of the same hash that was left in the table so.     *)
THEOREM EntriesGoWithArrays == Spec => FreedWithItsEntry
<1>1. IndInv /\ [Next]_vars => [GivenUp]_vars
  BY StepGivesUp
<1> QED
  BY <1>1, Invariance, PTL DEF Spec, FreedWithItsEntry, GivenUp
==============================================================================
