-------------------------- MODULE LongArrays_proofs --------------------------
(***************************************************************************)
(* The theorems about LongArrays: for any names, arrays, table objects and *)
(* statements.                                                             *)
(***************************************************************************)
EXTENDS LongArrays, FiniteSetTheorems, TLAPS

(* Array a is allocated, and has name n.                                   *)
Has(a, n) == a \in Arrays /\ place[a] # "free" /\ zName[a] = n

NamesApart ==
  /\ \A a \in Arrays : place[a] # "free" => zName[a] \in Names
  /\ \A a, b \in Arrays :
       place[a] # "free" /\ place[b] # "free" /\ zName[a] = zName[b] => a = b

StatementsEnd == phase # "open" => Prepared = {}

(* DBFLAG_SchemaChange tells whether a rollback changes the tables.        *)
SavedTells ==
  phase # "closed" =>
    /\ autoCommit => ~changed /\ mark = NoMark
    /\ ~changed => saved = tables /\ (mark # NoMark => mark = tables)

(* A table the schema knows is connected to the array that has its name.   *)
Connected ==
  \A n \in Names : conn[n] # NoVTable => n \in tables /\ Has(arrOf[conn[n]], n)

(* A statement that has not expired has the VTable that the schema has.    *)
Current ==
  \A s \in Prepared : ~stmt[s].expired => conn[stmt[s].name] = stmt[s].vtab

CursorsHaveArrays ==
  \A s \in Prepared : stmt[s].open => Has(arrOf[stmt[s].vtab], stmt[s].name)

(* No VTable is forgotten before it is disconnected.                       *)
ObjectsReferenced == \A v \in VTables : arrOf[v] # NoArray => Referenced(v)

(* connectCount may be too small, never too large.                         *)
ObjectsOf(ao, a) == {v \in VTables : ao[v] = a}
CountTells == \A a \in Arrays : connectCount[a] <= Cardinality(ObjectsOf(arrOf, a))

(* As long as no schema was cleared, every VTable is that of a table, and  *)
(* every table has its array.                                              *)
NothingOutlives ==
  reset \/ /\ \A v \in VTables : arrOf[v] # NoArray => \E n \in Names : conn[n] = v
           /\ phase # "closed" => \A n \in tables : \E a \in Arrays : Has(a, n)

AllDisconnected == phase = "closed" => \A v \in VTables : arrOf[v] = NoArray

IndInv ==
  /\ TypeOK /\ NamesApart /\ StatementsEnd /\ SavedTells
  /\ Connected /\ Current /\ CursorsHaveArrays
  /\ ObjectsReferenced /\ CountTells /\ NothingOutlives /\ AllDisconnected

-----------------------------------------------------------------------------
(***************************************************************************)
(* Operators.                                                              *)
(***************************************************************************)

(* Find() is the array of that name.                                       *)
LEMMA FindTells ==
  ASSUME NamesApart, NEW n
  PROVE  /\ Find(n) # NoArray => Has(Find(n), n)
         /\ \A a : Has(a, n) => Find(n) = a /\ a # NoArray
<1>1. CASE \E a \in Arrays : place[a] # "free" /\ zName[a] = n
  <2>1. /\ Find(n) \in Arrays /\ place[Find(n)] # "free" /\ zName[Find(n)] = n
    BY <1>1 DEF Find
  <2> QED
    BY <2>1, LongArraysAssumption DEF Has, NamesApart
<1>2. CASE ~\E a \in Arrays : place[a] # "free" /\ zName[a] = n
  BY <1>2 DEF Find, Has
<1> QED
  BY <1>1, <1>2

LEMMA ObjectsFinite ==
  ASSUME NEW ao, NEW a
  PROVE  IsFiniteSet(ObjectsOf(ao, a)) /\ Cardinality(ObjectsOf(ao, a)) \in Nat
<1>1. ObjectsOf(ao, a) \subseteq VTables
  BY DEF ObjectsOf
<1> QED
  BY <1>1, LongArraysAssumption, FS_Subset, FS_CardinalityType

(* A new object for array a.                                               *)
LEMMA ObjectsGained ==
  ASSUME NEW ao, NEW v \in VTables, NEW a \in Arrays, NEW more, ao[v] = NoArray,
         more[v] = a, \A w \in VTables \ {v} : more[w] = ao[w]
  PROVE  /\ Cardinality(ObjectsOf(more, a)) = Cardinality(ObjectsOf(ao, a)) + 1
         /\ \A b \in Arrays \ {a} : ObjectsOf(more, b) = ObjectsOf(ao, b)
<1>1. /\ ObjectsOf(more, a) = ObjectsOf(ao, a) \union {v}
      /\ v \notin ObjectsOf(ao, a)
  BY LongArraysAssumption DEF ObjectsOf
<1>2. \A b \in Arrays \ {a} : ObjectsOf(more, b) = ObjectsOf(ao, b)
  BY LongArraysAssumption DEF ObjectsOf
<1> QED
  BY <1>1, <1>2, ObjectsFinite, FS_AddElement

(* The objects "lost" are no longer those of array a.                      *)
LEMMA ObjectsLost ==
  ASSUME NEW ao, NEW a, NEW lost, lost \subseteq ObjectsOf(ao, a)
  PROVE  /\ Cardinality(lost) \in Nat
         /\ Cardinality(ObjectsOf(ao, a) \ lost) =
              Cardinality(ObjectsOf(ao, a)) - Cardinality(lost)
<1>1. IsFiniteSet(ObjectsOf(ao, a)) /\ IsFiniteSet(lost)
  BY ObjectsFinite, FS_Subset
<1>2. ObjectsOf(ao, a) \intersect lost = lost
  OBVIOUS
<1> QED
  BY <1>1, <1>2, FS_Difference, FS_CardinalityType

(* The objects that a step leaves without a reference are disconnected,    *)
(* and the counts go down with them.                                       *)
LEMMA SettleTells ==
  ASSUME NEW ao \in [VTables -> Arrays \union {NoArray}], NEW cc \in [Arrays -> Int],
         NEW set \in SUBSET Arrays, Settle(ao, cc, set),
         \A a \in Arrays \ set : cc[a] <= Cardinality(ObjectsOf(ao, a)),
         \A a \in set : \E v \in VTables : ao[v] = a /\ Referenced(v)'
  PROVE  /\ arrOf' \in [VTables -> Arrays \union {NoArray}]
         /\ connectCount' \in [Arrays -> Int]
         /\ CountTells' /\ ObjectsReferenced'
         /\ \A v \in VTables : arrOf'[v] = ao[v] \/ arrOf'[v] = NoArray
         /\ \A v \in VTables : Referenced(v)' => arrOf'[v] = ao[v]
<1> DEFINE gone == {v \in VTables : ao[v] # NoArray /\ ~Referenced(v)'}
           lost(a) == {v \in gone : ao[v] = a}
<1>1. /\ arrOf' = [v \in VTables |-> IF v \in gone THEN NoArray ELSE ao[v]]
      /\ connectCount' = [a \in Arrays |->
           IF a \in set THEN 1 ELSE cc[a] - Cardinality(lost(a))]
  BY DEF Settle
<1>2. \A v : v \in gone <=> v \in VTables /\ ao[v] # NoArray /\ ~Referenced(v)'
  OBVIOUS
<1>3. gone \in SUBSET VTables
  OBVIOUS
<1> HIDE DEF gone
<1>4. ASSUME NEW a \in Arrays
      PROVE  /\ Cardinality(lost(a)) \in Nat
             /\ Cardinality(ObjectsOf(arrOf', a)) =
                  Cardinality(ObjectsOf(ao, a)) - Cardinality(lost(a))
  <2>1. /\ lost(a) \subseteq ObjectsOf(ao, a)
        /\ ObjectsOf(arrOf', a) = ObjectsOf(ao, a) \ lost(a)
    BY <1>1, <1>3, LongArraysAssumption DEF ObjectsOf
  <2> HIDE DEF lost
  <2> QED
    BY <2>1, ObjectsLost
<1>5. arrOf' \in [VTables -> Arrays \union {NoArray}]
  BY <1>1
<1>6. connectCount' \in [Arrays -> Int]
  <2> DEFINE new(a) == IF a \in set THEN 1 ELSE cc[a] - Cardinality(lost(a))
  <2>1. ASSUME NEW a \in Arrays PROVE new(a) \in Int
    <3> HIDE DEF lost
    <3> QED
      BY <1>4
  <2>2. connectCount' = [a \in Arrays |-> new(a)]
    BY <1>1
  <2> HIDE DEF new
  <2> QED
    BY <2>1, <2>2
<1>7. \A v \in VTables : /\ arrOf'[v] = ao[v] \/ arrOf'[v] = NoArray
                         /\ Referenced(v)' => arrOf'[v] = ao[v]
                         /\ arrOf'[v] # NoArray => Referenced(v)'
  BY <1>1, <1>2
<1>8. CountTells'
  <2> SUFFICES ASSUME NEW a \in Arrays
               PROVE  connectCount'[a] <= Cardinality(ObjectsOf(arrOf', a))
    BY DEF CountTells
  <2> HIDE DEF lost
  <2>1. CASE a \notin set
    BY <1>1, <1>4, <2>1, ObjectsFinite
  <2>2. CASE a \in set
    <3>1. PICK v \in VTables : arrOf'[v] = a
      BY <1>7, <2>2
    <3>2. ObjectsOf(arrOf', a) # {}
      BY <3>1 DEF ObjectsOf
    <3>3. Cardinality(ObjectsOf(arrOf', a)) # 0
      BY <3>2, ObjectsFinite, FS_EmptySet
    <3> QED
      BY <1>1, <2>2, <3>3, ObjectsFinite
  <2> QED
    BY <2>1, <2>2
<1> QED
  BY <1>5, <1>6, <1>7, <1>8 DEF ObjectsReferenced

(***************************************************************************)
(* What a step does to the invariant.                                      *)
(***************************************************************************)

(* All of TypeOK but what Settle() changes.                                *)
OtherTypeOK ==
  /\ phase \in {"open", "finalizing", "closing", "closed"}
  /\ place \in [Arrays -> Places]
  /\ zName \in [Arrays -> Names \union {NoName}]
  /\ bound \in [Arrays -> BOOLEAN]
  /\ commitState \in [Arrays -> {-1, 0, 1}]
  /\ counter \in 0 .. Len(AutoNames)
  /\ autoCommit \in BOOLEAN /\ changed \in BOOLEAN /\ reset \in BOOLEAN
  /\ tables \subseteq Names /\ saved \subseteq Names
  /\ mark = NoMark \/ mark \subseteq Names
  /\ conn \in [Names -> VTables \union {NoVTable}]
  /\ trans \subseteq VTables /\ pending \subseteq VTables
  /\ stmt \in [Stmts -> Statement \union {NoStmt}]

(* What statements and connected tables refer to.                          *)
References ==
  /\ \A s \in Prepared : /\ s \in Stmts /\ stmt[s] \in Statement
                         /\ stmt[s].vtab \in VTables /\ stmt[s].name \in Names
                         /\ Referenced(stmt[s].vtab)
  /\ \A n \in Names : conn[n] # NoVTable => conn[n] \in VTables /\ Referenced(conn[n])

LEMMA AllRefer == OtherTypeOK => References
<1> SUFFICES ASSUME OtherTypeOK PROVE References
  OBVIOUS
<1>1. ASSUME NEW s \in Prepared
      PROVE  /\ s \in Stmts /\ stmt[s] \in Statement
             /\ stmt[s].vtab \in VTables /\ stmt[s].name \in Names
  BY <1>1 DEF OtherTypeOK, Prepared, Statement
<1>2. ASSUME NEW n \in Names, conn[n] # NoVTable
      PROVE  conn[n] \in VTables /\ Referenced(conn[n])
  BY <1>2 DEF OtherTypeOK, Referenced, Range
<1> QED
  BY <1>1, <1>2 DEF References, Referenced

(* All statements expire: nothing else changes about them.                 *)
LEMMA ExpiredTells ==
  ASSUME stmt \in [Stmts -> Statement \union {NoStmt}], stmt' = Expired
  PROVE  /\ stmt' \in [Stmts -> Statement \union {NoStmt}]
         /\ Prepared' = Prepared
         /\ \A s \in Prepared :
              /\ stmt'[s].name = stmt[s].name /\ stmt'[s].vtab = stmt[s].vtab
              /\ stmt'[s].open = stmt[s].open /\ stmt'[s].expired
<1>1. ASSUME NEW s \in Stmts, stmt[s] # NoStmt
      PROVE  /\ stmt'[s] = [stmt[s] EXCEPT !.expired = TRUE]
             /\ stmt'[s] \in Statement
             /\ stmt'[s].name = stmt[s].name /\ stmt'[s].vtab = stmt[s].vtab
             /\ stmt'[s].open = stmt[s].open /\ stmt'[s].expired
  <2>1. stmt'[s] = [stmt[s] EXCEPT !.expired = TRUE] /\ stmt[s] \in Statement
    BY <1>1 DEF Expired, Prepared
  <2> QED
    BY <2>1 DEF Statement
<1>2. ASSUME NEW s \in Stmts, stmt[s] = NoStmt PROVE stmt'[s] = NoStmt
  BY <1>2 DEF Expired, Prepared
<1>3. NoStmt \notin Statement
  BY LongArraysAssumption DEF Statement
<1>4. Prepared' = Prepared
  BY <1>1, <1>2, <1>3 DEF Prepared
<1>5. stmt' \in [Stmts -> Statement \union {NoStmt}]
  <2>1. \A s \in Stmts : stmt'[s] \in Statement \union {NoStmt}
    BY <1>1, <1>2
  <2> QED
    BY <2>1 DEF Expired
<1> QED
  BY <1>1, <1>4, <1>5 DEF Prepared

(* No array is freed or gets another name, no table a new connection, and  *)
(* no statement another object.                                            *)
Loosened ==
  /\ UNCHANGED zName
  /\ \A a \in Arrays : place'[a] = "free" <=> place[a] = "free"
  /\ \A n \in Names : conn'[n] # NoVTable => conn'[n] = conn[n] /\ n \in tables'
  /\ \A s \in Prepared' :
       /\ s \in Prepared
       /\ stmt'[s].name = stmt[s].name /\ stmt'[s].vtab = stmt[s].vtab
       /\ stmt'[s].open => stmt[s].open
       /\ ~stmt'[s].expired =>
            ~stmt[s].expired /\ conn'[stmt[s].name] = conn[stmt[s].name]

LEMMA LinksKept ==
  ASSUME IndInv, OtherTypeOK', Loosened,
         \A v \in VTables : Referenced(v)' => arrOf'[v] = arrOf[v]
  PROVE  NamesApart' /\ Connected' /\ Current' /\ CursorsHaveArrays'
<1>1. NamesApart'
  BY DEF Loosened, NamesApart, IndInv
<1>2. ASSUME NEW a, NEW n, Has(a, n) PROVE Has(a, n)'
  BY <1>2 DEF Loosened, Has
<1>3. Connected'
  <2> SUFFICES ASSUME NEW n \in Names, conn'[n] # NoVTable
               PROVE  n \in tables' /\ Has(arrOf[conn[n]], n)'
    BY DEF Connected
  <2>1. conn'[n] = conn[n] /\ n \in tables' /\ Has(arrOf[conn[n]], n)
    BY DEF Loosened, Connected, IndInv
  <2>2. arrOf'[conn'[n]] = arrOf[conn[n]]
    <3>1. References'
      BY AllRefer, PTL
    <3> QED
      BY <2>1, <3>1 DEF References
  <2> QED
    BY <1>2, <2>1, <2>2
<1>4. Current'
  BY DEF Loosened, Current, IndInv
<1>5. CursorsHaveArrays'
  <2>1. References'
    BY AllRefer, PTL
  <2> SUFFICES ASSUME NEW s \in Prepared', stmt'[s].open
               PROVE  Has(arrOf[stmt[s].vtab], stmt[s].name)'
    BY DEF CursorsHaveArrays
  <2>2. /\ s \in Prepared /\ stmt[s].open
        /\ stmt'[s].name = stmt[s].name /\ stmt'[s].vtab = stmt[s].vtab
    BY DEF Loosened
  <2>3. arrOf'[stmt'[s].vtab] = arrOf[stmt[s].vtab]
    BY <2>1, <2>2 DEF References
  <2> QED
    BY <1>2, <2>2, <2>3 DEF CursorsHaveArrays, IndInv
<1> QED
  BY <1>1, <1>3, <1>4, <1>5

(* A step that leaves all objects where they are.                          *)
LEMMA QuietStep ==
  ASSUME IndInv, OtherTypeOK', SavedTells',
         UNCHANGED <<phase, zName, tables, arrOf, conn, connectCount, trans, pending, reset>>,
         \A a \in Arrays : place'[a] = "free" <=> place[a] = "free",
         stmt' = stmt
  PROVE  IndInv'
<1>1. Loosened
  BY DEF Loosened, Prepared, IndInv, Connected
<1>2. \A v : Referenced(v)' <=> Referenced(v)
  BY DEF Referenced, Prepared
<1>3. NamesApart' /\ Connected' /\ Current' /\ CursorsHaveArrays'
  BY <1>1, LinksKept
<1>4. TypeOK'
  BY DEF IndInv, TypeOK, OtherTypeOK
<1>5. StatementsEnd' /\ ObjectsReferenced' /\ CountTells' /\ AllDisconnected'
  BY <1>2 DEF IndInv, StatementsEnd, Prepared, ObjectsReferenced, CountTells, AllDisconnected
<1>6. NothingOutlives'
  BY DEF IndInv, NothingOutlives, Has
<1> QED
  BY <1>3, <1>4, <1>5, <1>6 DEF IndInv

(* A step that leaves objects without a reference.                         *)
LEMMA SettleStep ==
  ASSUME IndInv, OtherTypeOK', SavedTells', StatementsEnd', Loosened,
         Settle(arrOf, connectCount, {}),
         reset' \/ (UNCHANGED <<conn, tables, reset>> /\ phase # "closed"),
         phase' # "closed"
  PROVE  IndInv'
<1>1. /\ arrOf' \in [VTables -> Arrays \union {NoArray}]
      /\ connectCount' \in [Arrays -> Int]
      /\ CountTells' /\ ObjectsReferenced'
      /\ \A v \in VTables : arrOf'[v] = arrOf[v] \/ arrOf'[v] = NoArray
      /\ \A v \in VTables : Referenced(v)' => arrOf'[v] = arrOf[v]
  <2>1. \A a \in Arrays \ {} : connectCount[a] <= Cardinality(ObjectsOf(arrOf, a))
    BY DEF IndInv, CountTells
  <2>2. /\ arrOf \in [VTables -> Arrays \union {NoArray}]
        /\ connectCount \in [Arrays -> Int] /\ {} \in SUBSET Arrays
    BY DEF IndInv, TypeOK
  <2> QED
    BY <2>1, <2>2, SettleTells
<1>2. NamesApart' /\ Connected' /\ Current' /\ CursorsHaveArrays'
  BY <1>1, LinksKept
<1>3. TypeOK'
  BY <1>1 DEF TypeOK, OtherTypeOK
<1>4. NothingOutlives'
  <2> SUFFICES ASSUME ~reset' PROVE NothingOutlives'
    BY DEF NothingOutlives
  <2> QED
    BY <1>1 DEF IndInv, NothingOutlives, Has, Loosened
<1> QED
  BY <1>1, <1>2, <1>3, <1>4 DEF IndInv, AllDisconnected

(* A prepare that fails.                                                   *)
LEMMA PrepareFailsStep ==
  ASSUME IndInv, PrepareFails, UNCHANGED <<phase, zName>>, phase # "closed",
         place' \in [Arrays -> Places], bound' \in [Arrays -> BOOLEAN],
         counter' \in 0 .. Len(AutoNames), UNCHANGED commitState,
         \A a \in Arrays : place'[a] = "free" <=> place[a] = "free"
  PROVE  IndInv'
<1>1. OtherTypeOK'
  BY DEF IndInv, TypeOK, OtherTypeOK, PrepareFails, txnVars
<1>2. SavedTells' /\ StatementsEnd' /\ Loosened
  BY DEF IndInv, SavedTells, StatementsEnd, Loosened, Prepared, Connected, PrepareFails, txnVars
<1> QED
  BY <1>1, <1>2, SettleStep DEF PrepareFails

-----------------------------------------------------------------------------
(***************************************************************************)
(* The steps.                                                              *)
(***************************************************************************)

LEMMA UserStep ==
  ASSUME IndInv,
         \/ \E name \in Names \union {NoName}, cached \in BOOLEAN : ReuseArray(name, cached)
         \/ \E a \in Arrays : BindNothing(a) \/ DisposeInUse(a) \/ DisposeCached(a)
         \/ Begin \/ Savepoint
  PROVE  IndInv'
<1>1. OtherTypeOK'
  BY DEF IndInv, TypeOK, OtherTypeOK, Places, ReuseArray, BindNothing, DisposeInUse, DisposeCached,
         Begin, Savepoint, arrayVars, txnVars
<1>2. /\ UNCHANGED <<phase, zName, tables, arrOf, conn, connectCount, trans, pending, stmt, reset>>
      /\ phase = "open"
  BY DEF ReuseArray, BindNothing, DisposeInUse, DisposeCached, Begin, Savepoint, arrayVars, txnVars
<1>3. SavedTells'
  <2>1. CASE UNCHANGED <<saved, changed, mark, autoCommit>>
    BY <1>2, <2>1 DEF IndInv, SavedTells
  <2>2. CASE Begin
    BY <1>2, <2>2 DEF IndInv, SavedTells, Begin
  <2>3. CASE Savepoint
    BY <1>2, <2>3 DEF IndInv, SavedTells, Savepoint
  <2> QED
    BY <2>1, <2>2, <2>3 DEF ReuseArray, BindNothing, DisposeInUse, DisposeCached, txnVars
<1>4. \A a \in Arrays : place'[a] = "free" <=> place[a] = "free"
  BY DEF IndInv, TypeOK, ReuseArray, Pool, BindNothing, DisposeInUse, DisposeCached, Users, Begin,
         Savepoint, arrayVars
<1> QED
  BY <1>1, <1>2, <1>3, <1>4, QuietStep

(* A VTable that malloc() finds room for, and that array a gets.           *)
LEMMA NewObject ==
  ASSUME IndInv, NEW v \in NewVTable, NEW a \in Arrays
  PROVE  /\ v \in VTables /\ ~Referenced(v) /\ arrOf[v] = NoArray
         /\ \A n \in Names : conn[n] # v
         /\ \A s \in Prepared : stmt[s].vtab # v
         /\ [arrOf EXCEPT ![v] = a] \in [VTables -> Arrays \union {NoArray}]
         /\ [arrOf EXCEPT ![v] = a][v] = a
         /\ \A w \in VTables \ {v} : [arrOf EXCEPT ![v] = a][w] = arrOf[w]
<1>1. v \in VTables /\ ~Referenced(v) /\ arrOf[v] = NoArray
  BY DEF NewVTable, IndInv, ObjectsReferenced
<1>2. (\A n \in Names : conn[n] # v) /\ \A s \in Prepared : stmt[s].vtab # v
  BY <1>1 DEF Referenced, Range, IndInv, TypeOK
<1> QED
  BY <1>1, <1>2 DEF IndInv, TypeOK

(* CREATE VIRTUAL TABLE, for an array that is new or has lost its table.   *)
LEMMA CreateTableStep ==
  ASSUME IndInv, phase = "open", UNCHANGED phase, NEW n \in Names, NEW a \in Arrays,
         CreateTable(n, a),
         place' \in [Arrays -> Places], zName' \in [Arrays -> Names \union {NoName}],
         bound' \in [Arrays -> BOOLEAN], commitState' \in [Arrays -> {-1, 0, 1}],
         counter' \in 0 .. Len(AutoNames),
         Has(a, n)', \A m : Has(a, m) => m = n,
         \A b \in Arrays \ {a} : /\ place'[b] = place[b] /\ zName'[b] = zName[b]
                                 /\ ~Has(b, n)
  PROVE  IndInv'
<1>1. PICK v \in NewVTable :
        /\ conn' = [conn EXCEPT ![n] = v]
        /\ trans' = IF autoCommit THEN trans ELSE trans \union {v}
        /\ SchemaChanged
        /\ Settle([arrOf EXCEPT ![v] = a], connectCount, {a})
  BY DEF CreateTable
<1>2. n \notin tables /\ tables' = tables \union {n} /\ pending' = {}
  BY DEF CreateTable
<1>3. PICK ao : ao = [arrOf EXCEPT ![v] = a]
  OBVIOUS
<1>4. /\ v \in VTables /\ ~Referenced(v) /\ arrOf[v] = NoArray
      /\ \A m \in Names : conn[m] # v
      /\ \A s \in Prepared : stmt[s].vtab # v
      /\ ao \in [VTables -> Arrays \union {NoArray}]
      /\ ao[v] = a /\ \A w \in VTables \ {v} : ao[w] = arrOf[w]
  BY <1>3, NewObject
<1>5. OtherTypeOK'
  <2>1. stmt' \in [Stmts -> Statement \union {NoStmt}]
    BY <1>1, ExpiredTells DEF IndInv, TypeOK, SchemaChanged
  <2> QED
    BY <1>1, <1>2, <1>4, <2>1 DEF IndInv, TypeOK, OtherTypeOK, SchemaChanged
<1>6. /\ conn'[n] = v /\ \A m \in Names \ {n} : conn'[m] = conn[m]
      /\ Prepared' = Prepared
      /\ \A s \in Prepared : /\ stmt'[s].name = stmt[s].name /\ stmt'[s].vtab = stmt[s].vtab
                             /\ stmt'[s].open = stmt[s].open /\ stmt'[s].expired
  <2>1. conn'[n] = v /\ \A m \in Names \ {n} : conn'[m] = conn[m]
    BY <1>1 DEF IndInv, TypeOK
  <2> QED
    BY <1>1, <2>1, ExpiredTells DEF IndInv, TypeOK, SchemaChanged
<1>7. /\ arrOf' \in [VTables -> Arrays \union {NoArray}]
      /\ connectCount' \in [Arrays -> Int]
      /\ CountTells' /\ ObjectsReferenced'
      /\ \A w \in VTables : arrOf'[w] = ao[w] \/ arrOf'[w] = NoArray
      /\ \A w \in VTables : Referenced(w)' => arrOf'[w] = ao[w]
  <2>1. \A b \in Arrays \ {a} : connectCount[b] <= Cardinality(ObjectsOf(ao, b))
    <3> SUFFICES ASSUME NEW b \in Arrays \ {a}
                 PROVE  connectCount[b] <= Cardinality(ObjectsOf(ao, b))
      OBVIOUS
    <3>1. arrOf \in [VTables -> Arrays \union {NoArray}]
      BY DEF IndInv, TypeOK
    <3>2. ObjectsOf(ao, b) = ObjectsOf(arrOf, b)
      BY <1>4, LongArraysAssumption DEF ObjectsOf
    <3> QED
      BY <3>2 DEF IndInv, CountTells
  <2>2. References'
    BY <1>5, AllRefer, PTL
  <2>3. Referenced(v)'
    BY <1>4, <1>6, <2>2, LongArraysAssumption DEF References
  <2>4. \A b \in {a} : \E w \in VTables : ao[w] = b /\ Referenced(w)'
    BY <1>4, <2>3
  <2>5. connectCount \in [Arrays -> Int] /\ {a} \in SUBSET Arrays
    BY DEF IndInv, TypeOK
  <2>6. Settle(ao, connectCount, {a})
    BY <1>1, <1>3
  <2> QED
    BY <1>4, <2>1, <2>4, <2>5, <2>6, SettleTells
<1>8. TypeOK'
  BY <1>5, <1>7 DEF TypeOK, OtherTypeOK
<1>9. SavedTells' /\ StatementsEnd' /\ AllDisconnected'
  BY <1>1, <1>2 DEF IndInv, SavedTells, StatementsEnd, AllDisconnected, SchemaChanged
<1>10. ASSUME NEW b, NEW m, Has(b, m) PROVE Has(b, m)'
  BY <1>10 DEF Has
<1>11. NamesApart'
  BY DEF IndInv, NamesApart, Has
<1>12. \A w \in VTables \ {v} : Referenced(w)' => arrOf'[w] = arrOf[w]
  BY <1>4, <1>7
<1>13. References /\ References'
  <2>1. OtherTypeOK
    BY DEF IndInv, TypeOK, OtherTypeOK
  <2> QED
    BY <1>5, <2>1, AllRefer, PTL
<1>14. Connected'
  <2> SUFFICES ASSUME NEW m \in Names, conn'[m] # NoVTable
               PROVE  m \in tables' /\ Has(arrOf[conn[m]], m)'
    BY DEF Connected
  <2>1. CASE m = n
    BY <1>2, <1>4, <1>6, <1>7, <1>13, <2>1 DEF References
  <2>2. CASE m # n
    <3>1. conn'[m] = conn[m] /\ m \in tables /\ Has(arrOf[conn[m]], m)
      BY <1>6, <2>2 DEF IndInv, Connected
    <3>2. conn[m] \in VTables \ {v} /\ Referenced(conn[m])'
      BY <1>4, <1>13, <3>1 DEF References
    <3> QED
      BY <1>2, <1>10, <1>12, <3>1, <3>2
  <2> QED
    BY <2>1, <2>2
<1>15. Current'
  BY <1>6 DEF Current
<1>16. CursorsHaveArrays'
  <2> SUFFICES ASSUME NEW s \in Prepared', stmt'[s].open
               PROVE  Has(arrOf[stmt[s].vtab], stmt[s].name)'
    BY DEF CursorsHaveArrays
  <2>1. /\ s \in Prepared /\ stmt'[s].vtab = stmt[s].vtab /\ stmt'[s].name = stmt[s].name
        /\ Has(arrOf[stmt[s].vtab], stmt[s].name)
    BY <1>6 DEF IndInv, CursorsHaveArrays
  <2>2. stmt[s].vtab \in VTables \ {v} /\ Referenced(stmt[s].vtab)'
    BY <1>4, <1>13, <2>1 DEF References
  <2> QED
    BY <1>10, <1>12, <2>1, <2>2
<1>17. NothingOutlives'
  <2>1. reset' = reset
    BY <1>1 DEF SchemaChanged
  <2>2. CASE reset
    BY <2>1, <2>2 DEF NothingOutlives
  <2>3. CASE ~reset
    <3>1. ASSUME NEW w \in VTables, arrOf'[w] # NoArray PROVE \E m \in Names : conn'[m] = w
      <4>1. CASE w = v
        BY <1>6, <4>1
      <4>2. CASE w # v
        <5>1. PICK m \in Names : conn[m] = w
          BY <1>4, <1>7, <2>3, <3>1, <4>2 DEF IndInv, NothingOutlives
        <5>2. m # n
          BY <1>2, <5>1, LongArraysAssumption DEF IndInv, Connected
        <5> QED
          BY <1>6, <5>1, <5>2
      <4> QED
        BY <4>1, <4>2
    <3>2. ASSUME NEW m \in tables' PROVE \E b \in Arrays : Has(b, m)'
      BY <1>2, <1>10, <2>3, <3>2 DEF IndInv, NothingOutlives
    <3> QED
      BY <3>1, <3>2 DEF NothingOutlives
  <2> QED
    BY <2>2, <2>3
<1> QED
  BY <1>7, <1>8, <1>9, <1>11, <1>14, <1>15, <1>16, <1>17 DEF IndInv

(* A statement is compiled over table n, whose object v is an old or a new *)
(* one.                                                                    *)
CompiledWith(s, n, open, v, ao, cc) ==
  /\ n \in tables /\ pending' = {} /\ Holds(s, n, v, open)
  /\ UNCHANGED <<phase, arrayVars, counter, txnVars, tables, reset>>
  /\ conn' = [conn EXCEPT ![n] = v] /\ conn[n] \in {v, NoVTable}
  /\ Settle(ao, cc, {}) /\ Has(ao[v], n)
  /\ \A a \in Arrays : cc[a] <= Cardinality(ObjectsOf(ao, a))
  /\ \A w \in VTables \ {v} : ao[w] = arrOf[w]
  /\ Referenced(v) => ao[v] = arrOf[v]

LEMMA CompileWith ==
  ASSUME IndInv, phase = "open", NEW s \in Stmts, NEW n \in Names, NEW open \in BOOLEAN,
         NEW v \in VTables, NEW ao \in [VTables -> Arrays \union {NoArray}],
         NEW cc \in [Arrays -> Int], CompiledWith(s, n, open, v, ao, cc)
  PROVE  IndInv'
<1> USE DEF CompiledWith
<1>1. OtherTypeOK'
  BY DEF IndInv, TypeOK, OtherTypeOK, Holds, Statement, arrayVars, txnVars
<1>2. /\ stmt'[s] = [name |-> n, vtab |-> v, open |-> open, expired |-> FALSE]
      /\ \A t \in Stmts \ {s} : stmt'[t] = stmt[t]
      /\ \A t \in Prepared' : t \in Prepared \/ t = s
  BY DEF IndInv, TypeOK, Holds, Prepared
<1>3. /\ arrOf' \in [VTables -> Arrays \union {NoArray}]
      /\ connectCount' \in [Arrays -> Int]
      /\ CountTells' /\ ObjectsReferenced'
      /\ \A w \in VTables : arrOf'[w] = ao[w] \/ arrOf'[w] = NoArray
      /\ \A w \in VTables : Referenced(w)' => arrOf'[w] = ao[w]
  <2>1. (\A a \in Arrays \ {} : cc[a] <= Cardinality(ObjectsOf(ao, a))) /\ {} \in SUBSET Arrays
    OBVIOUS
  <2>2. \A a \in {} : \E w \in VTables : ao[w] = a /\ Referenced(w)'
    OBVIOUS
  <2> QED
    BY <2>1, <2>2, SettleTells
<1>4. TypeOK'
  BY <1>1, <1>3 DEF TypeOK, OtherTypeOK
<1>5. NamesApart' /\ SavedTells' /\ StatementsEnd' /\ AllDisconnected'
  BY DEF IndInv, NamesApart, SavedTells, StatementsEnd, AllDisconnected, arrayVars, txnVars
<1>6. References /\ References'
  <2>1. OtherTypeOK
    BY DEF IndInv, TypeOK, OtherTypeOK
  <2> QED
    BY <1>1, <2>1, AllRefer, PTL
<1>7. \A b, m : Has(b, m)' <=> Has(b, m)
  BY DEF Has, arrayVars
<1>8. conn'[n] = v /\ \A m \in Names \ {n} : conn'[m] = conn[m]
  BY DEF IndInv, TypeOK
<1>9. Connected'
  <2> SUFFICES ASSUME NEW m \in Names, conn'[m] # NoVTable
               PROVE  m \in tables' /\ Has(arrOf[conn[m]], m)'
    BY DEF Connected
  <2>1. arrOf'[conn'[m]] = ao[conn'[m]] /\ conn'[m] \in VTables
    BY <1>3, <1>6 DEF References
  <2>2. CASE m = n
    BY <1>7, <1>8, <2>1, <2>2 DEF txnVars
  <2>3. CASE m # n
    <3>1. conn'[m] = conn[m] /\ m \in tables /\ Has(arrOf[conn[m]], m) /\ Referenced(conn[m])
      BY <1>6, <1>8, <2>3 DEF IndInv, Connected, References
    <3> QED
      BY <1>7, <2>1, <3>1
  <2> QED
    BY <2>2, <2>3
<1>10. Current'
  <2> SUFFICES ASSUME NEW t \in Prepared', ~stmt'[t].expired
               PROVE  conn'[stmt'[t].name] = stmt'[t].vtab
    BY DEF Current
  <2>1. CASE t = s
    BY <1>2, <1>8, <2>1
  <2>2. CASE t # s
    <3>1. /\ t \in Prepared /\ stmt'[t] = stmt[t] /\ stmt[t].name \in Names
          /\ conn[stmt[t].name] = stmt[t].vtab /\ stmt[t].vtab \in VTables
      BY <1>2, <1>6, <2>2 DEF IndInv, Current, References, Prepared
    <3> QED
      BY <1>8, <3>1, LongArraysAssumption
  <2> QED
    BY <2>1, <2>2
<1>11. CursorsHaveArrays'
  <2> SUFFICES ASSUME NEW t \in Prepared', stmt'[t].open
               PROVE  Has(arrOf[stmt[t].vtab], stmt[t].name)'
    BY DEF CursorsHaveArrays
  <2>1. stmt'[t].vtab \in VTables /\ arrOf'[stmt'[t].vtab] = ao[stmt'[t].vtab]
    BY <1>3, <1>6 DEF References
  <2>2. CASE t = s
    BY <1>2, <1>7, <2>1, <2>2
  <2>3. CASE t # s
    <3>1. /\ t \in Prepared /\ stmt'[t] = stmt[t] /\ Referenced(stmt[t].vtab)
          /\ Has(arrOf[stmt[t].vtab], stmt[t].name)
      BY <1>2, <1>6, <2>3 DEF IndInv, CursorsHaveArrays, References, Prepared
    <3> QED
      BY <1>7, <2>1, <3>1
  <2> QED
    BY <2>2, <2>3
<1>12. NothingOutlives'
  <2>1. CASE reset
    BY <2>1 DEF NothingOutlives
  <2>2. CASE ~reset
    <3>1. ASSUME NEW w \in VTables, arrOf'[w] # NoArray PROVE \E m \in Names : conn'[m] = w
      <4>1. CASE w = v
        BY <1>8, <4>1
      <4>2. CASE w # v
        <5>1. PICK m \in Names : conn[m] = w
          BY <1>3, <2>2, <3>1, <4>2 DEF IndInv, NothingOutlives
        <5> QED
          BY <1>8, <4>2, <5>1, LongArraysAssumption
      <4> QED
        BY <4>1, <4>2
    <3>2. phase' # "closed" => \A m \in tables' : \E b \in Arrays : Has(b, m)'
      BY <1>7, <2>2 DEF IndInv, NothingOutlives
    <3> QED
      BY <3>1, <3>2 DEF NothingOutlives
  <2> QED
    BY <2>1, <2>2
<1> QED
  BY <1>3, <1>4, <1>5, <1>9, <1>10, <1>11, <1>12 DEF IndInv

LEMMA CompileStep ==
  ASSUME IndInv, phase = "open", NEW s \in Stmts, NEW n \in Names, NEW open \in BOOLEAN,
         Compile(s, n, open)
  PROVE  IndInv'
<1>1. /\ n \in tables /\ pending' = {}
      /\ UNCHANGED <<phase, arrayVars, counter, txnVars, tables, reset>>
  BY DEF Compile
<1>2. /\ arrOf \in [VTables -> Arrays \union {NoArray}] /\ connectCount \in [Arrays -> Int]
      /\ conn \in [Names -> VTables \union {NoVTable}]
      /\ \A a \in Arrays : connectCount[a] <= Cardinality(ObjectsOf(arrOf, a))
  BY DEF IndInv, TypeOK, CountTells
<1>3. CASE /\ conn[n] # NoVTable
           /\ Holds(s, n, conn[n], open)
           /\ UNCHANGED conn
           /\ Settle(arrOf, connectCount, {})
  <2>1. conn[n] \in VTables /\ conn' = [conn EXCEPT ![n] = conn[n]] /\ Has(arrOf[conn[n]], n)
    BY <1>2, <1>3 DEF IndInv, Connected
  <2> QED
    <3>1. CompiledWith(s, n, open, conn[n], arrOf, connectCount)
      BY <1>1, <1>2, <1>3, <2>1 DEF CompiledWith
    <3> QED
      BY <1>2, <2>1, <3>1, CompileWith
<1>4. CASE /\ conn[n] = NoVTable /\ Find(n) # NoArray
           /\ \E v \in NewVTable :
                /\ Holds(s, n, v, open)
                /\ conn' = [conn EXCEPT ![n] = v]
                /\ Settle([arrOf EXCEPT ![v] = Find(n)],
                          [connectCount EXCEPT ![Find(n)] = @ + 1], {})
  <2>0. PICK v \in NewVTable :
          /\ Holds(s, n, v, open)
          /\ conn' = [conn EXCEPT ![n] = v]
          /\ Settle([arrOf EXCEPT ![v] = Find(n)],
                    [connectCount EXCEPT ![Find(n)] = @ + 1], {})
    BY <1>4
  <2>1. PICK a, ao, cc :
          /\ Holds(s, n, v, open)
          /\ conn' = [conn EXCEPT ![n] = v]
          /\ a = Find(n)
          /\ ao = [arrOf EXCEPT ![v] = a]
          /\ cc = [connectCount EXCEPT ![a] = connectCount[a] + 1]
          /\ Settle(ao, cc, {})
    BY <2>0
  <2>2. a \in Arrays /\ Has(a, n)
    BY <1>4, <2>1, FindTells DEF IndInv, Has
  <2>3. /\ v \in VTables /\ ~Referenced(v) /\ arrOf[v] = NoArray
        /\ ao \in [VTables -> Arrays \union {NoArray}]
        /\ ao[v] = a /\ \A w \in VTables \ {v} : ao[w] = arrOf[w]
    BY <2>1, <2>2, NewObject
  <2>4. cc \in [Arrays -> Int] /\ cc[a] = connectCount[a] + 1
        /\ \A b \in Arrays \ {a} : cc[b] = connectCount[b]
    BY <1>2, <2>1, <2>2
  <2>5. ASSUME NEW b \in Arrays PROVE cc[b] <= Cardinality(ObjectsOf(ao, b))
    <3>1. Cardinality(ObjectsOf(ao, a)) = Cardinality(ObjectsOf(arrOf, a)) + 1
      BY <2>2, <2>3, ObjectsGained
    <3>2. CASE b = a
      BY <1>2, <2>2, <2>4, <3>1, <3>2, ObjectsFinite
    <3>3. CASE b # a
      <4>1. ObjectsOf(ao, b) = ObjectsOf(arrOf, b)
        BY <2>3, <3>3, LongArraysAssumption DEF ObjectsOf
      <4> QED
        BY <1>2, <2>4, <3>3, <4>1
    <3> QED
      BY <3>2, <3>3
  <2> QED
    <3>1. CompiledWith(s, n, open, v, ao, cc)
      BY <1>1, <1>4, <2>1, <2>2, <2>3, <2>5 DEF CompiledWith
    <3> QED
      BY <2>3, <2>4, <3>1, CompileWith
<1> QED
  BY <1>3, <1>4 DEF Compile

(* The tables ns are dropped, if there are any, and the arrays as freed.   *)
(* No cursor is on one of them, and no table remains of these arrays.      *)
Gone(as, ns, ao, cc) ==
  /\ Settle(ao, cc, {})
  /\ \A a \in Arrays : cc[a] <= Cardinality(ObjectsOf(ao, a))
  /\ \A v \in VTables : ao[v] = arrOf[v] \/ (ao[v] = NoArray /\ \E n \in ns : conn[n] = v)
  /\ \A n \in ns : conn[n] # NoVTable => ao[conn[n]] = NoArray
  /\ conn' = [n \in Names |-> IF n \in ns THEN NoVTable ELSE conn[n]]
  /\ tables' = tables \ ns
  /\ stmt' = Expired \/ (stmt' = stmt /\ ns = {})
  /\ reset' = reset
  /\ \A a \in Arrays : IF a \in as THEN place'[a] = "free"
                       ELSE place'[a] = place[a] /\ zName'[a] = zName[a]
  /\ \A s \in Prepared : stmt[s].open =>
       arrOf[stmt[s].vtab] \notin as /\ \A n \in ns : conn[n] # stmt[s].vtab
  /\ \A n \in tables, a \in as : Has(a, n) => n \in ns

LEMMA GoneStep ==
  ASSUME IndInv, OtherTypeOK', SavedTells', StatementsEnd', phase # "closed", phase' # "closed",
         NEW as, NEW ns \in SUBSET Names, NEW ao \in [VTables -> Arrays \union {NoArray}],
         NEW cc \in [Arrays -> Int], Gone(as, ns, ao, cc)
  PROVE  IndInv'
<1> USE DEF Gone
<1>1. /\ arrOf' \in [VTables -> Arrays \union {NoArray}]
      /\ connectCount' \in [Arrays -> Int]
      /\ CountTells' /\ ObjectsReferenced'
      /\ \A w \in VTables : arrOf'[w] = ao[w] \/ arrOf'[w] = NoArray
      /\ \A w \in VTables : Referenced(w)' => arrOf'[w] = ao[w]
  <2>1. (\A a \in Arrays \ {} : cc[a] <= Cardinality(ObjectsOf(ao, a))) /\ {} \in SUBSET Arrays
    OBVIOUS
  <2>2. \A a \in {} : \E w \in VTables : ao[w] = a /\ Referenced(w)'
    OBVIOUS
  <2> QED
    BY <2>1, <2>2, SettleTells
<1>2. TypeOK'
  BY <1>1 DEF TypeOK, OtherTypeOK
<1>3. References /\ References'
  <2>1. OtherTypeOK
    BY DEF IndInv, TypeOK, OtherTypeOK
  <2> QED
    BY <2>1, AllRefer, PTL
<1>4. /\ Prepared' = Prepared
      /\ \A s \in Prepared :
           /\ stmt'[s].name = stmt[s].name /\ stmt'[s].vtab = stmt[s].vtab
           /\ stmt'[s].open = stmt[s].open
           /\ stmt'[s].expired \/ (stmt'[s].expired = stmt[s].expired /\ ns = {})
  <2>1. CASE stmt' = Expired
    BY <2>1, ExpiredTells DEF IndInv, TypeOK
  <2>2. CASE stmt' = stmt /\ ns = {}
    BY <2>2 DEF Prepared
  <2> QED
    BY <2>1, <2>2
<1>5. \A n \in Names : /\ n \in ns => conn'[n] = NoVTable
                       /\ n \notin ns => conn'[n] = conn[n]
  OBVIOUS
<1>6. ASSUME NEW a, NEW n, Has(a, n), a \notin as PROVE Has(a, n)'
  BY <1>6 DEF Has
<1>7. NamesApart'
  BY DEF IndInv, NamesApart
<1>8. ASSUME NEW n \in Names, conn'[n] # NoVTable
      PROVE  /\ n \in tables' /\ conn'[n] = conn[n] /\ conn[n] \in VTables
             /\ Has(arrOf[conn[n]], n)'
             /\ arrOf'[conn[n]] = arrOf[conn[n]]
  <2>1. n \notin ns /\ conn'[n] = conn[n] /\ n \in tables /\ Has(arrOf[conn[n]], n)
    BY <1>5, <1>8 DEF IndInv, Connected
  <2>2. \A m \in ns : conn[m] # conn[n]
    <3> SUFFICES ASSUME NEW m \in ns, conn[m] = conn[n] PROVE FALSE
      OBVIOUS
    <3>1. Has(arrOf[conn[n]], m)
      BY <1>5, <1>8, <2>1 DEF IndInv, Connected
    <3> QED
      BY <2>1, <3>1 DEF Has
  <2>3. conn[n] \in VTables /\ Referenced(conn[n])'
    BY <1>3, <1>8, <2>1 DEF References
  <2>4. arrOf'[conn[n]] = arrOf[conn[n]]
    BY <1>1, <2>2, <2>3
  <2>5. arrOf[conn[n]] \notin as
    BY <2>1 DEF Has
  <2>6. Has(arrOf[conn[n]], n)'
    BY <1>6, <2>1, <2>4, <2>5
  <2> QED
    BY <2>1, <2>3, <2>4, <2>6
<1>9. Connected'
  BY <1>8 DEF Connected
<1>10. Current'
  BY <1>3, <1>4, <1>5 DEF IndInv, Current, References
<1>11. CursorsHaveArrays'
  <2> SUFFICES ASSUME NEW s \in Prepared', stmt'[s].open
               PROVE  Has(arrOf[stmt[s].vtab], stmt[s].name)'
    BY DEF CursorsHaveArrays
  <2>1. /\ s \in Prepared /\ stmt[s].open
        /\ stmt'[s].vtab = stmt[s].vtab /\ stmt'[s].name = stmt[s].name
    BY <1>4
  <2>2. stmt[s].vtab \in VTables /\ Referenced(stmt[s].vtab)'
    BY <1>3, <2>1 DEF References
  <2>3. arrOf'[stmt[s].vtab] = arrOf[stmt[s].vtab]
    BY <1>1, <2>1, <2>2
  <2>4. Has(arrOf[stmt[s].vtab], stmt[s].name) /\ arrOf[stmt[s].vtab] \notin as
    BY <2>1 DEF IndInv, CursorsHaveArrays
  <2> QED
    BY <1>6, <2>1, <2>3, <2>4
<1>12. NothingOutlives'
  <2>1. CASE reset
    BY <2>1 DEF NothingOutlives
  <2>2. CASE ~reset
    <3>1. ASSUME NEW w \in VTables, arrOf'[w] # NoArray PROVE \E m \in Names : conn'[m] = w
      <4>1. arrOf[w] # NoArray /\ ao[w] # NoArray
        BY <1>1, <3>1
      <4>2. PICK m \in Names : conn[m] = w
        BY <2>2, <4>1 DEF IndInv, NothingOutlives
      <4>3. m \notin ns
        BY <4>1, <4>2, <3>1, LongArraysAssumption
      <4> QED
        BY <1>5, <4>2, <4>3
    <3>2. ASSUME NEW m \in tables' PROVE \E b \in Arrays : Has(b, m)'
      <4>1. PICK b \in Arrays : Has(b, m)
        BY <2>2, <3>2 DEF IndInv, NothingOutlives
      <4> QED
        BY <1>6, <3>2, <4>1
    <3> QED
      BY <3>1, <3>2 DEF NothingOutlives
  <2> QED
    BY <2>1, <2>2
<1> QED
  BY <1>1, <1>2, <1>7, <1>9, <1>10, <1>11, <1>12 DEF IndInv, AllDisconnected

(* The types of what DROP TABLE itself leaves alone.                       *)
UserTypes ==
  /\ phase \in {"open", "finalizing", "closing", "closed"}
  /\ place \in [Arrays -> Places]
  /\ zName \in [Arrays -> Names \union {NoName}]
  /\ bound \in [Arrays -> BOOLEAN]
  /\ commitState \in [Arrays -> {-1, 0, 1}]
  /\ counter \in 0 .. Len(AutoNames)

(* The conditions on the arrays and cursors.                               *)
Unused(as, ns) ==
  /\ \A a \in Arrays : IF a \in as THEN place'[a] = "free"
                       ELSE place'[a] = place[a] /\ zName'[a] = zName[a]
  /\ \A s \in Prepared : stmt[s].open =>
       arrOf[stmt[s].vtab] \notin as /\ \A n \in ns : conn[n] # stmt[s].vtab
  /\ \A n \in tables, a \in as : Has(a, n) => n \in ns

LEMMA DropTablesStep ==
  ASSUME IndInv, UserTypes', StatementsEnd', phase # "closed", phase' # "closed",
         NEW as, NEW ns, DropTables(ns), Unused(as, ns)
  PROVE  IndInv'
<1>1. ns \in SUBSET Names /\ ns \subseteq tables
  BY DEF DropTables, IndInv, TypeOK
<1>2. PICK gone, ao, cc :
        /\ gone = {conn[n] : n \in ns} \ {NoVTable}
        /\ ao = [v \in VTables |-> IF v \in gone THEN NoArray ELSE arrOf[v]]
        /\ cc = [a \in Arrays |->
                   connectCount[a] - Cardinality({v \in gone : arrOf[v] = a})]
  OBVIOUS
<1>3. /\ tables' = tables \ ns /\ pending' = {} /\ trans' = trans \ gone
      /\ conn' = [n \in Names |-> IF n \in ns THEN NoVTable ELSE conn[n]]
      /\ SchemaChanged
      /\ Settle(ao, cc, {})
  BY <1>2 DEF DropTables
<1>4. /\ gone \in SUBSET VTables
      /\ arrOf \in [VTables -> Arrays \union {NoArray}]
      /\ connectCount \in [Arrays -> Int]
      /\ stmt \in [Stmts -> Statement \union {NoStmt}]
  BY <1>1, <1>2 DEF IndInv, TypeOK
<1>5. ao \in [VTables -> Arrays \union {NoArray}]
  BY <1>2, <1>4
<1>6. ASSUME NEW a \in Arrays
      PROVE  cc[a] \in Int /\ cc[a] <= Cardinality(ObjectsOf(ao, a))
  <2> DEFINE lost == {v \in gone : arrOf[v] = a}
  <2>1. /\ lost \subseteq ObjectsOf(arrOf, a)
        /\ ObjectsOf(ao, a) = ObjectsOf(arrOf, a) \ lost
    BY <1>2, <1>4, LongArraysAssumption DEF ObjectsOf
  <2>2. cc[a] = connectCount[a] - Cardinality(lost)
    BY <1>2
  <2> HIDE DEF lost
  <2>4. /\ Cardinality(lost) \in Nat
        /\ Cardinality(ObjectsOf(ao, a)) = Cardinality(ObjectsOf(arrOf, a)) - Cardinality(lost)
    BY <2>1, ObjectsLost
  <2>3. connectCount[a] <= Cardinality(ObjectsOf(arrOf, a))
    BY DEF IndInv, CountTells
  <2> QED
    BY <1>4, <2>2, <2>3, <2>4, ObjectsFinite
<1>7. cc \in [Arrays -> Int]
  BY <1>2, <1>6
<1>8. OtherTypeOK'
  <2>1. stmt' \in [Stmts -> Statement \union {NoStmt}]
    BY <1>3, <1>4, ExpiredTells DEF SchemaChanged
  <2> QED
    BY <1>3, <2>1 DEF OtherTypeOK, UserTypes, IndInv, TypeOK, SchemaChanged
<1>9. SavedTells'
  BY <1>3 DEF IndInv, SavedTells, SchemaChanged
<1>10. Gone(as, ns, ao, cc)
  <2>1. \A v \in VTables : ao[v] = arrOf[v] \/ (ao[v] = NoArray /\ \E n \in ns : conn[n] = v)
    BY <1>2
  <2>2. \A n \in ns : conn[n] # NoVTable => ao[conn[n]] = NoArray
    BY <1>2, <1>4
  <2> QED
    BY <1>3, <1>6, <2>1, <2>2 DEF Gone, Unused, SchemaChanged
<1> QED
  BY <1>1, <1>5, <1>7, <1>8, <1>9, <1>10, GoneStep

(* sqlite3_intarray_destroy() of arrays no cursor reads.                   *)
LEMMA DestroyStep ==
  ASSUME IndInv, StatementsEnd', phase # "closed", phase' \in {"open", "closing"},
         counter' = counter, NEW as \in SUBSET Arrays, Destroy(as),
         \A a \in as : place[a] # "free" /\ ~InUse(a)
  PROVE  IndInv'
<1>1. UserTypes'
  BY DEF IndInv, TypeOK, UserTypes, Places, Destroy, Free
<1>2. PICK ns : ns = NamesOf(as) \intersect tables
  OBVIOUS
<1>3. Unused(as, ns)
  <2>1. ASSUME NEW a \in Arrays
        PROVE  IF a \in as THEN place'[a] = "free"
               ELSE place'[a] = place[a] /\ zName'[a] = zName[a]
    BY DEF Destroy, Free
  <2>2. ASSUME NEW s \in Prepared, stmt[s].open PROVE arrOf[stmt[s].vtab] \notin as
    <3>1. stmt[s].vtab \in VTables
      BY DEF IndInv, TypeOK, Prepared, Statement
    <3>2. s \in Cursors(stmt[s].vtab)
      BY <2>2 DEF Cursors
    <3> QED
      BY <3>1, <3>2 DEF InUse
  <2>3. ASSUME NEW s \in Prepared, stmt[s].open, NEW n \in ns PROVE conn[n] # stmt[s].vtab
    <3> SUFFICES ASSUME conn[n] = stmt[s].vtab PROVE FALSE
      OBVIOUS
    <3>1. stmt[s].vtab \in VTables
      BY DEF IndInv, TypeOK, Prepared, Statement
    <3>2. PICK a \in as : zName[a] = n /\ n \in Names
      BY <1>2 DEF NamesOf, IndInv, TypeOK
    <3>3. Has(arrOf[conn[n]], n)
      BY <3>1, <3>2, LongArraysAssumption DEF IndInv, Connected
    <3>4. arrOf[conn[n]] = a
      BY <3>2, <3>3 DEF IndInv, NamesApart, Has
    <3> QED
      BY <2>2, <2>3, <3>4
  <2>4. \A n \in tables, a \in as : Has(a, n) => n \in ns
    BY <1>2 DEF Has, NamesOf
  <2> QED
    BY <2>1, <2>2, <2>3, <2>4 DEF Unused
<1>4. CASE DropTables(ns)
  BY <1>1, <1>3, <1>4, DropTablesStep
<1>5. CASE ns = {} /\ PrepareFails
  <2>1. /\ arrOf \in [VTables -> Arrays \union {NoArray}]
        /\ connectCount \in [Arrays -> Int] /\ conn \in [Names -> VTables \union {NoVTable}]
        /\ \A a \in Arrays : connectCount[a] <= Cardinality(ObjectsOf(arrOf, a))
    BY DEF IndInv, TypeOK, CountTells
  <2>2. conn' = [n \in Names |-> IF n \in ns THEN NoVTable ELSE conn[n]]
    BY <1>5, <2>1 DEF PrepareFails
  <2>3. Gone(as, ns, arrOf, connectCount)
    BY <1>3, <1>5, <2>1, <2>2 DEF Gone, Unused, PrepareFails
  <2>4. OtherTypeOK' /\ SavedTells'
    BY <1>1, <1>5 DEF OtherTypeOK, UserTypes, IndInv, TypeOK, SavedTells, PrepareFails, txnVars
  <2> QED
    BY <1>5, <2>1, <2>3, <2>4, GoneStep
<1> QED
  BY <1>2, <1>4, <1>5 DEF Destroy

LEMMA CreateArrayStep ==
  ASSUME IndInv, NEW name \in Names \union {NoName}, NEW cached \in BOOLEAN,
         CreateArray(name, cached)
  PROVE  IndInv'
<1>1. PICK n : n = NextName(name)
  OBVIOUS
<1>2. n \in Names /\ counter' \in 0 .. Len(AutoNames)
  BY <1>1, LongArraysAssumption DEF CreateArray, NextName, IndInv, TypeOK
<1>3. phase = "open" /\ UNCHANGED phase
  BY DEF CreateArray
<1>4. CASE UNCHANGED <<arrayVars, connectCount, txnVars, tables, arrOf, conn, pending,
                       stmt, reset>>
  <2>1. OtherTypeOK'
    BY <1>2, <1>3, <1>4 DEF OtherTypeOK, IndInv, TypeOK, arrayVars, txnVars
  <2>2. SavedTells'
    BY <1>3, <1>4 DEF SavedTells, IndInv, txnVars
  <2> QED
    BY <1>3, <1>4, <2>1, <2>2, QuietStep DEF arrayVars, txnVars
<1>5. CASE PrepareFails /\ UNCHANGED arrayVars
  BY <1>2, <1>3, <1>5, PrepareFailsStep DEF arrayVars, IndInv, TypeOK
<1>6. ASSUME Find(n) = NoArray, NEW a \in NewArray,
             place' = [place EXCEPT ![a] = IF cached THEN "cached" ELSE "uncached"],
             zName' = [zName EXCEPT ![a] = n],
             bound' = [bound EXCEPT ![a] = FALSE],
             commitState' = [commitState EXCEPT ![a] = IF autoCommit THEN 1 ELSE 0],
             CreateTable(n, a)
      PROVE  IndInv'
  <2>1. a \in Arrays /\ place[a] = "free"
    BY DEF NewArray
  <2>2. /\ place' \in [Arrays -> Places] /\ zName' \in [Arrays -> Names \union {NoName}]
        /\ bound' \in [Arrays -> BOOLEAN] /\ commitState' \in [Arrays -> {-1, 0, 1}]
    BY <1>2, <1>6, <2>1 DEF IndInv, TypeOK, Places
  <2>3. Has(a, n)'
    BY <1>2, <1>6, <2>1 DEF Has, IndInv, TypeOK
  <2>4. \A m : ~Has(a, m)
    BY <2>1 DEF Has
  <2>5. \A b \in Arrays \ {a} : /\ place'[b] = place[b] /\ zName'[b] = zName[b]
                                /\ ~Has(b, n)
    BY <1>6, FindTells DEF IndInv, TypeOK
  <2> QED
    BY <1>2, <1>3, <1>6, <2>1, <2>2, <2>3, <2>4, <2>5, CreateTableStep
<1> QED
  BY <1>1, <1>4, <1>5, <1>6 DEF CreateArray

LEMMA BindRowsStep ==
  ASSUME IndInv, NEW a \in Arrays, BindRows(a)
  PROVE  IndInv'
<1>1. /\ phase = "open" /\ UNCHANGED <<phase, place, zName, counter>>
      /\ bound' \in [Arrays -> BOOLEAN] /\ place[a] # "free"
  BY DEF BindRows, IndInv, TypeOK, Users
<1>2. CASE UNCHANGED <<commitState, connectCount, txnVars, tables, arrOf, conn, pending,
                       stmt, reset>>
  <2>1. OtherTypeOK'
    BY <1>1, <1>2 DEF OtherTypeOK, IndInv, TypeOK, txnVars
  <2>2. SavedTells'
    BY <1>1, <1>2 DEF SavedTells, IndInv, txnVars
  <2> QED
    BY <1>1, <1>2, <2>1, <2>2, QuietStep DEF txnVars
<1>3. CASE PrepareFails /\ UNCHANGED commitState
  BY <1>1, <1>3, PrepareFailsStep DEF IndInv, TypeOK
<1>4. CASE /\ CreateTable(zName[a], a)
           /\ commitState' = [commitState EXCEPT ![a] = IF autoCommit THEN 1 ELSE 0]
  <2>1. PICK n \in Names : n = zName[a]
    BY <1>1 DEF IndInv, NamesApart
  <2>2. /\ place' \in [Arrays -> Places] /\ zName' \in [Arrays -> Names \union {NoName}]
        /\ commitState' \in [Arrays -> {-1, 0, 1}] /\ counter' \in 0 .. Len(AutoNames)
    BY <1>1, <1>4 DEF IndInv, TypeOK
  <2>3. Has(a, n)' /\ \A m : Has(a, m) => m = n
    BY <1>1, <2>1 DEF Has
  <2>4. \A b \in Arrays \ {a} : /\ place'[b] = place[b] /\ zName'[b] = zName[b]
                                /\ ~Has(b, n)
    BY <1>1, <2>1 DEF Has, IndInv, NamesApart
  <2>5. CreateTable(n, a)
    BY <1>4, <2>1
  <2> QED
    BY <1>1, <2>2, <2>3, <2>4, <2>5, CreateTableStep
<1> QED
  BY <1>2, <1>3, <1>4 DEF BindRows

(* What ends an array or a table, while the connection is open or is       *)
(* disposed of.                                                            *)
LEMMA DisposeStep ==
  ASSUME IndInv, \/ \E a \in Arrays : DisposeUncached(a) \/ DropFails(a)
                 \/ \E n \in Names : DropTable(n)
                 \/ FinalizeArrays
  PROVE  IndInv'
<1>1. ASSUME NEW a \in Arrays, DisposeUncached(a) PROVE IndInv'
  <2>1. /\ Destroy({a}) /\ place[a] = "uncached" /\ ~InUse(a)
        /\ phase = "open" /\ UNCHANGED <<phase, counter>>
    BY <1>1 DEF DisposeUncached
  <2>2. StatementsEnd'
    BY <2>1 DEF StatementsEnd
  <2>3. {a} \in SUBSET Arrays /\ \A b \in {a} : place[b] # "free" /\ ~InUse(b)
    BY <2>1
  <2> QED
    BY <2>1, <2>2, <2>3, DestroyStep
<1>2. ASSUME NEW a \in Arrays, DropFails(a) PROVE IndInv'
  <2>1. /\ PrepareFails /\ UNCHANGED <<phase, zName, commitState, counter>> /\ phase = "open"
        /\ place[a] = "uncached" /\ place' = [place EXCEPT ![a] = "leaked"]
        /\ bound' = [bound EXCEPT ![a] = FALSE]
    BY <1>2 DEF DropFails
  <2>2. /\ place' \in [Arrays -> Places] /\ bound' \in [Arrays -> BOOLEAN]
        /\ counter' \in 0 .. Len(AutoNames)
        /\ \A b \in Arrays : place'[b] = "free" <=> place[b] = "free"
    BY <2>1 DEF IndInv, TypeOK, Places
  <2> QED
    BY <2>1, <2>2, PrepareFailsStep
<1>3. ASSUME NEW n \in Names, DropTable(n) PROVE IndInv'
  <2>1. /\ DropTables({n}) /\ phase = "open" /\ UNCHANGED <<phase, arrayVars, counter>>
        /\ conn[n] # NoVTable => Cursors(conn[n]) = {}
    BY <1>3 DEF DropTable
  <2>2. UserTypes' /\ StatementsEnd'
    BY <2>1 DEF IndInv, TypeOK, UserTypes, StatementsEnd, arrayVars
  <2>3. Unused({}, {n})
    <3> SUFFICES ASSUME NEW s \in Prepared, stmt[s].open PROVE conn[n] # stmt[s].vtab
      BY <2>1 DEF Unused, arrayVars
    <3>1. s \in Cursors(stmt[s].vtab) /\ stmt[s].vtab \in VTables
      BY DEF Cursors, IndInv, TypeOK, Prepared, Statement
    <3> QED
      BY <2>1, <3>1, LongArraysAssumption
  <2> QED
    BY <2>1, <2>2, <2>3, DropTablesStep
<1>4. ASSUME FinalizeArrays PROVE IndInv'
  <2>1. PICK as \in SUBSET Arrays :
          /\ as = {a \in Arrays : place[a] = "cache"}
          /\ Destroy(as)
    BY <1>4 DEF FinalizeArrays
  <2>2. phase = "finalizing" /\ phase' = "closing" /\ UNCHANGED counter
    BY <1>4 DEF FinalizeArrays
  <2>3. Prepared = {}
    BY <2>2 DEF IndInv, StatementsEnd
  <2>4. StatementsEnd'
    <3>1. \A s \in Stmts : stmt[s] = NoStmt
      BY <2>3 DEF Prepared
    <3>2. CASE stmt' = Expired
      BY <2>3, <3>1, <3>2, ExpiredTells DEF StatementsEnd, IndInv, TypeOK
    <3>3. CASE stmt' = stmt
      BY <2>3, <3>3 DEF StatementsEnd, Prepared
    <3> QED
      BY <2>1, <3>2, <3>3 DEF Destroy, DropTables, SchemaChanged, PrepareFails
  <2>5. \A a \in as : place[a] # "free" /\ ~InUse(a)
    BY <2>1, <2>3 DEF InUse, Cursors
  <2> QED
    BY <2>1, <2>2, <2>4, <2>5, DestroyStep
<1> QED
  BY <1>1, <1>2, <1>3, <1>4

(* Clearing the schema, or leaving it.                                     *)
LEMMA ClearTells ==
  ASSUME IndInv, ClearSchema, UNCHANGED arrayVars
  PROVE  /\ Loosened /\ reset'
         /\ conn' \in [Names -> VTables \union {NoVTable}]
         /\ stmt' \in [Stmts -> Statement \union {NoStmt}]
         /\ Prepared' = Prepared
<1>1. stmt \in [Stmts -> Statement \union {NoStmt}] /\ stmt' = Expired
  BY DEF ClearSchema, IndInv, TypeOK
<1> QED
  BY <1>1, ExpiredTells DEF ClearSchema, Loosened, arrayVars

LEMMA FinalisedType ==
  ASSUME TypeOK, NEW state \in {-1, 1}
  PROVE  Finalised(state) \in [Arrays -> {-1, 0, 1}]
BY DEF TypeOK, Finalised

LEMMA TransactionStep ==
  ASSUME IndInv, \/ Commit \/ ForeignSchemaChange
                 \/ \E others \in BOOLEAN : Rollback(others) \/ RollbackTo(others)
  PROVE  IndInv'
<1>1. ASSUME Commit PROVE IndInv'
  <2>1. OtherTypeOK'
    BY <1>1, FinalisedType DEF Commit, IndInv, TypeOK, OtherTypeOK
  <2>2. SavedTells' /\ StatementsEnd'
    BY <1>1 DEF Commit, IndInv, SavedTells, StatementsEnd
  <2>3. Loosened
    BY <1>1 DEF Commit, Loosened, IndInv, Connected, Prepared
  <2> QED
    BY <1>1, <2>1, <2>2, <2>3, SettleStep DEF Commit
<1>2. ASSUME NEW others \in BOOLEAN, Rollback(others) PROVE IndInv'
  <2>1. /\ phase = "open" /\ ~autoCommit /\ autoCommit' /\ ~changed' /\ changed' = FALSE
        /\ tables' = saved /\ mark' = NoMark /\ commitState' = Finalised(-1) /\ trans' = {}
        /\ UNCHANGED <<phase, place, zName, bound, counter, saved>>
        /\ Settle(arrOf, connectCount, {})
    BY <1>2 DEF Rollback
  <2>2. SavedTells'
    BY <2>1 DEF SavedTells
  <2>3. CASE ClearSchema /\ pending' = {}
    <3>1. /\ reset' /\ conn' \in [Names -> VTables \union {NoVTable}]
          /\ stmt' \in [Stmts -> Statement \union {NoStmt}]
          /\ reset' = TRUE /\ \A n \in Names : conn'[n] = NoVTable
          /\ stmt' = Expired
      BY <2>3 DEF ClearSchema, IndInv, TypeOK, Expired, Prepared, Statement
    <3>2. Loosened
      BY <2>1, <3>1, ExpiredTells DEF Loosened, IndInv, TypeOK
    <3>3. OtherTypeOK'
      BY <2>1, <2>3, <3>1, FinalisedType DEF OtherTypeOK, IndInv, TypeOK
    <3>4. StatementsEnd'
      BY <2>1 DEF StatementsEnd
    <3> QED
      BY <2>1, <2>2, <3>1, <3>2, <3>3, <3>4, SettleStep
  <2>4. CASE ~changed /\ UNCHANGED <<conn, stmt, reset, pending>>
    <3>1. tables' = tables
      BY <2>1, <2>4 DEF IndInv, SavedTells
    <3>2. Loosened
      BY <2>1, <2>4, <3>1 DEF Loosened, IndInv, Connected, Prepared
    <3>3. OtherTypeOK'
      BY <2>1, <2>4, FinalisedType DEF OtherTypeOK, IndInv, TypeOK
    <3>4. StatementsEnd'
      BY <2>1 DEF StatementsEnd
    <3> QED
      BY <2>1, <2>2, <2>4, <3>1, <3>2, <3>3, <3>4, SettleStep
  <2> QED
    BY <1>2, <2>3, <2>4 DEF Rollback
<1>3. ASSUME NEW others \in BOOLEAN, RollbackTo(others) PROVE IndInv'
  <2>1. /\ phase = "open" /\ mark # NoMark /\ tables' = mark
        /\ changed' = (changed \/ others)
        /\ UNCHANGED <<phase, arrayVars, counter, autoCommit, saved, mark, trans>>
        /\ Settle(arrOf, connectCount, {})
    BY <1>3 DEF RollbackTo
  <2>2. changed' \in BOOLEAN
    BY <2>1
  <2>3. SavedTells' /\ StatementsEnd'
    BY <2>1 DEF IndInv, SavedTells, StatementsEnd
  <2>4. CASE ClearSchema /\ pending' = {}
    <3>1. /\ Loosened /\ reset' /\ conn' \in [Names -> VTables \union {NoVTable}]
          /\ stmt' \in [Stmts -> Statement \union {NoStmt}]
      BY <2>1, <2>4, ClearTells
    <3>2. OtherTypeOK'
      BY <2>1, <2>2, <2>4, <3>1 DEF OtherTypeOK, IndInv, TypeOK, arrayVars, ClearSchema
    <3> QED
      BY <2>1, <2>3, <3>1, <3>2, SettleStep
  <2>5. CASE ~changed /\ UNCHANGED <<conn, stmt, reset, pending>>
    <3>1. tables' = tables
      BY <2>1, <2>5 DEF IndInv, SavedTells
    <3>2. Loosened
      BY <2>1, <2>5, <3>1 DEF Loosened, IndInv, Connected, Prepared, arrayVars
    <3>3. OtherTypeOK'
      BY <2>1, <2>2, <2>5 DEF OtherTypeOK, IndInv, TypeOK, arrayVars
    <3> QED
      BY <2>1, <2>3, <2>5, <3>1, <3>2, <3>3, SettleStep
  <2> QED
    BY <1>3, <2>1, <2>4, <2>5 DEF RollbackTo
<1>4. ASSUME ForeignSchemaChange PROVE IndInv'
  <2>1. /\ phase = "open" /\ ClearSchema
        /\ pending' = pending \union (Range(conn) \ {NoVTable})
        /\ UNCHANGED <<phase, arrayVars, connectCount, counter, txnVars, tables, arrOf>>
    BY <1>4 DEF ForeignSchemaChange
  <2>2. /\ Loosened /\ reset' /\ conn' \in [Names -> VTables \union {NoVTable}]
        /\ stmt' \in [Stmts -> Statement \union {NoStmt}]
        /\ Prepared' = Prepared
    BY <2>1, ClearTells
  <2>3. TypeOK' /\ OtherTypeOK'
    BY <2>1, <2>2 DEF OtherTypeOK, IndInv, TypeOK, arrayVars, txnVars, ClearSchema, Range
  <2>4. NamesApart' /\ Connected' /\ Current' /\ CursorsHaveArrays'
    BY <2>1, <2>2, <2>3, LinksKept
  <2>5. ASSUME NEW v \in VTables, Referenced(v) PROVE Referenced(v)'
    <3>1. \A s \in Prepared : stmt'[s].vtab = stmt[s].vtab
      BY <2>2 DEF Loosened
    <3> QED
      BY <2>1, <2>2, <2>5, <3>1, LongArraysAssumption DEF Referenced, txnVars
  <2>6. ObjectsReferenced' /\ CountTells'
    BY <2>1, <2>5 DEF IndInv, ObjectsReferenced, CountTells
  <2>7. SavedTells' /\ StatementsEnd' /\ NothingOutlives' /\ AllDisconnected'
    BY <2>1, <2>2 DEF IndInv, SavedTells, StatementsEnd, NothingOutlives, AllDisconnected, txnVars
  <2> QED
    BY <2>3, <2>4, <2>6, <2>7 DEF IndInv
<1> QED
  BY <1>1, <1>2, <1>3, <1>4

(* A cursor is opened on the VTable the statement was compiled with.       *)
LEMMA OpenCursorStep ==
  ASSUME IndInv, NEW s \in Stmts, phase = "open", s \in Prepared, ~stmt[s].expired,
         stmt' = [stmt EXCEPT ![s].open = TRUE],
         UNCHANGED <<phase, arrayVars, connectCount, counter, txnVars, tables, arrOf,
                     conn, pending, reset>>
  PROVE  IndInv'
<1>1. /\ stmt[s] \in Statement /\ stmt[s].name \in Names /\ stmt[s].vtab \in VTables
      /\ stmt[s].open \in BOOLEAN /\ stmt[s].expired \in BOOLEAN
  BY DEF IndInv, TypeOK, Prepared, Statement
<1>2. /\ stmt'[s].name = stmt[s].name /\ stmt'[s].vtab = stmt[s].vtab
      /\ stmt'[s].expired = stmt[s].expired /\ stmt'[s] \in Statement
      /\ \A t \in Stmts \ {s} : stmt'[t] = stmt[t]
  <2>1. stmt'[s] = [stmt[s] EXCEPT !.open = TRUE]
    BY DEF IndInv, TypeOK
  <2> QED
    BY <1>1, <2>1 DEF Statement, IndInv, TypeOK
<1>3. stmt' \in [Stmts -> Statement \union {NoStmt}]
  BY <1>2 DEF IndInv, TypeOK
<1>4. Prepared' = Prepared
  BY <1>2, LongArraysAssumption DEF Prepared, Statement
<1>5. TypeOK'
  BY <1>3 DEF IndInv, TypeOK, arrayVars, txnVars
<1>6. \A v : Referenced(v)' <=> Referenced(v)
  BY <1>2, <1>4 DEF Referenced, txnVars, Prepared
<1>7. \A a, n : Has(a, n)' <=> Has(a, n)
  BY DEF Has, arrayVars
<1>8. /\ NamesApart' /\ StatementsEnd' /\ SavedTells' /\ Connected'
      /\ ObjectsReferenced' /\ CountTells' /\ NothingOutlives' /\ AllDisconnected'
  BY <1>6, <1>7 DEF IndInv, NamesApart, StatementsEnd, SavedTells, Connected, ObjectsReferenced,
                    CountTells, NothingOutlives, AllDisconnected, arrayVars, txnVars
<1>9. Current'
  BY <1>2, <1>4 DEF IndInv, Current, Prepared
<1>10. Has(arrOf[stmt[s].vtab], stmt[s].name)
  BY <1>1, LongArraysAssumption DEF IndInv, Current, Connected
<1>11. CursorsHaveArrays'
  BY <1>2, <1>4, <1>7, <1>10 DEF IndInv, CursorsHaveArrays, Prepared
<1> QED
  BY <1>5, <1>8, <1>9, <1>11 DEF IndInv

LEMMA StepStatementStep ==
  ASSUME IndInv, NEW s \in Stmts, StepStatement(s)
  PROVE  IndInv'
<1>1. phase = "open" /\ s \in Prepared /\ stmt[s].name \in Names
  BY DEF StepStatement, IndInv, TypeOK, Prepared, Statement
<1>2. CASE /\ ~stmt[s].expired
           /\ stmt' = [stmt EXCEPT ![s].open = TRUE]
           /\ UNCHANGED <<phase, arrayVars, connectCount, counter, txnVars, tables, arrOf,
                          conn, pending, reset>>
  BY <1>1, <1>2, OpenCursorStep
<1>3. CASE Compile(s, stmt[s].name, TRUE)
  BY <1>1, <1>3, CompileStep
<1>4. CASE PrepareFails /\ UNCHANGED <<phase, arrayVars, counter>>
  BY <1>1, <1>4, PrepareFailsStep DEF arrayVars, IndInv, TypeOK
<1> QED
  BY <1>2, <1>3, <1>4 DEF StepStatement

LEMMA ResetStatementStep ==
  ASSUME IndInv, NEW s \in Stmts, ResetStatement(s)
  PROVE  IndInv'
<1>1. /\ phase = "open" /\ s \in Prepared /\ stmt' = [stmt EXCEPT ![s].open = FALSE]
      /\ UNCHANGED <<phase, arrayVars, connectCount, counter, txnVars, tables, arrOf,
                     conn, pending, reset>>
  BY DEF ResetStatement
<1>2. stmt[s] \in Statement
  BY <1>1 DEF IndInv, TypeOK, Prepared
<1>3. /\ stmt'[s].name = stmt[s].name /\ stmt'[s].vtab = stmt[s].vtab /\ ~stmt'[s].open
      /\ stmt'[s].expired = stmt[s].expired /\ stmt'[s] \in Statement
      /\ \A t \in Stmts \ {s} : stmt'[t] = stmt[t]
  <2>1. stmt'[s] = [stmt[s] EXCEPT !.open = FALSE]
    BY <1>1 DEF IndInv, TypeOK
  <2> QED
    BY <1>1, <1>2, <2>1 DEF Statement, IndInv, TypeOK
<1>4. stmt' \in [Stmts -> Statement \union {NoStmt}]
  BY <1>1, <1>3 DEF IndInv, TypeOK
<1>5. Prepared' = Prepared
  BY <1>1, <1>3, LongArraysAssumption DEF Prepared, Statement
<1>6. TypeOK' /\ OtherTypeOK'
  BY <1>1, <1>4 DEF IndInv, TypeOK, OtherTypeOK, arrayVars, txnVars
<1>7. Loosened
  BY <1>1, <1>3, <1>5 DEF Loosened, IndInv, Connected, Prepared, arrayVars
<1>8. NamesApart' /\ Connected' /\ Current' /\ CursorsHaveArrays'
  BY <1>1, <1>6, <1>7, LinksKept
<1>9. \A v : Referenced(v)' <=> Referenced(v)
  BY <1>1, <1>3, <1>5 DEF Referenced, txnVars, Prepared
<1>10. \A a, n : Has(a, n)' <=> Has(a, n)
  BY <1>1 DEF Has, arrayVars
<1>11. /\ StatementsEnd' /\ SavedTells'
       /\ ObjectsReferenced' /\ CountTells' /\ NothingOutlives' /\ AllDisconnected'
  BY <1>1, <1>9, <1>10 DEF IndInv, StatementsEnd, SavedTells, ObjectsReferenced,
                    CountTells, NothingOutlives, AllDisconnected, arrayVars, txnVars
<1> QED
  BY <1>6, <1>8, <1>11 DEF IndInv

(* One statement is finalized, or all of them.                             *)
LEMMA FinalizeStep ==
  ASSUME IndInv, FinalizeStatements \/ \E s \in Stmts : FinalizeStatement(s)
  PROVE  IndInv'
<1>1. /\ phase = "open" /\ phase' \in {"open", "finalizing"}
      /\ UNCHANGED <<arrayVars, counter, txnVars, tables, conn, pending, reset>>
      /\ Settle(arrOf, connectCount, {})
  BY DEF FinalizeStatements, FinalizeStatement
<1>2. /\ stmt' \in [Stmts -> Statement \union {NoStmt}]
      /\ \A t \in Stmts : stmt'[t] = stmt[t] \/ stmt'[t] = NoStmt
      /\ phase' = "finalizing" => \A t \in Stmts : stmt'[t] = NoStmt
  BY DEF FinalizeStatements, FinalizeStatement, IndInv, TypeOK
<1>3. OtherTypeOK'
  BY <1>1, <1>2 DEF IndInv, TypeOK, OtherTypeOK, arrayVars, txnVars
<1>4. Loosened
  BY <1>1, <1>2 DEF Loosened, IndInv, Connected, Prepared, arrayVars
<1>5. SavedTells' /\ StatementsEnd'
  BY <1>1, <1>2 DEF IndInv, SavedTells, StatementsEnd, txnVars, Prepared
<1> QED
  BY <1>1, <1>3, <1>4, <1>5, SettleStep

LEMMA CloseStep ==
  ASSUME IndInv, Close
  PROVE  IndInv'
<1>1. /\ phase = "closing" /\ phase' = "closed" /\ conn' = [n \in Names |-> NoVTable]
      /\ pending' = {} /\ trans' = {} /\ tables' = {} /\ commitState' = Finalised(-1)
      /\ UNCHANGED <<place, zName, bound, counter, autoCommit, changed, saved, mark, stmt,
                     reset>>
      /\ Settle(arrOf, connectCount, {})
  BY DEF Close
<1>2. Prepared' = {} /\ Prepared = {}
  BY <1>1 DEF IndInv, StatementsEnd, Prepared
<1>3. /\ arrOf' \in [VTables -> Arrays \union {NoArray}]
      /\ connectCount' \in [Arrays -> Int]
      /\ CountTells' /\ ObjectsReferenced'
  <2>1. \A a \in Arrays \ {} : connectCount[a] <= Cardinality(ObjectsOf(arrOf, a))
    BY DEF IndInv, CountTells
  <2>2. /\ arrOf \in [VTables -> Arrays \union {NoArray}]
        /\ connectCount \in [Arrays -> Int] /\ {} \in SUBSET Arrays
    BY DEF IndInv, TypeOK
  <2> QED
    BY <1>1, <2>1, <2>2, SettleTells
<1>4. TypeOK'
  BY <1>1, <1>3, FinalisedType DEF IndInv, TypeOK
<1>5. \A v \in VTables : ~Referenced(v)'
  BY <1>1, <1>2, LongArraysAssumption DEF Referenced, Range
<1>6. \A v \in VTables : arrOf'[v] = NoArray
  BY <1>3, <1>5 DEF ObjectsReferenced
<1>7. /\ NamesApart' /\ StatementsEnd' /\ SavedTells' /\ Connected' /\ Current'
      /\ CursorsHaveArrays' /\ NothingOutlives' /\ AllDisconnected'
  BY <1>1, <1>2, <1>6 DEF IndInv, NamesApart, StatementsEnd, SavedTells, Connected, Current,
                          CursorsHaveArrays, NothingOutlives, AllDisconnected
<1> QED
  BY <1>3, <1>4, <1>7 DEF IndInv

LEMMA InitIndInv == Init => IndInv
<1> SUFFICES ASSUME Init PROVE IndInv
  OBVIOUS
<1>1. TypeOK
  <2>1. 0 \in 0 .. Len(AutoNames)
    BY LongArraysAssumption
  <2>2. /\ phase \in {"open", "finalizing", "closing", "closed"}
        /\ autoCommit \in BOOLEAN /\ changed \in BOOLEAN /\ reset \in BOOLEAN
        /\ tables \subseteq Names /\ saved \subseteq Names /\ mark = NoMark
        /\ trans \subseteq VTables /\ pending \subseteq VTables
    BY DEF Init
  <2>3. /\ place \in [Arrays -> Places]
        /\ zName \in [Arrays -> Names \union {NoName}]
        /\ arrOf \in [VTables -> Arrays \union {NoArray}]
        /\ conn \in [Names -> VTables \union {NoVTable}]
        /\ stmt \in [Stmts -> Statement \union {NoStmt}]
    BY DEF Init, Places
  <2>4. bound \in [Arrays -> BOOLEAN]
    BY DEF Init
  <2>5. connectCount \in [Arrays -> Int] /\ commitState \in [Arrays -> {-1, 0, 1}]
    BY DEF Init
  <2> QED
    BY <2>1, <2>2, <2>3, <2>4, <2>5 DEF Init, TypeOK
<1>2. CountTells
  BY ObjectsFinite DEF Init, CountTells
<1> QED
  BY <1>1, <1>2 DEF Init, IndInv, NamesApart, StatementsEnd, SavedTells, Connected, Current,
     CursorsHaveArrays, ObjectsReferenced, NothingOutlives, AllDisconnected, Prepared

LEMMA StutterStep == IndInv /\ UNCHANGED vars => IndInv'
<1> SUFFICES ASSUME IndInv, UNCHANGED vars PROVE IndInv'
  OBVIOUS
<1>1. OtherTypeOK' /\ SavedTells'
  BY DEF IndInv, TypeOK, OtherTypeOK, SavedTells, vars, arrayVars, txnVars
<1> QED
  BY <1>1, QuietStep DEF vars, arrayVars, txnVars

LEMMA IndInvNext == IndInv /\ [Next]_vars => IndInv'
<1> SUFFICES ASSUME IndInv, [Next]_vars PROVE IndInv'
  OBVIOUS
<1>1. ASSUME NEW name \in Names \union {NoName}, NEW cached \in BOOLEAN,
             ReuseArray(name, cached) \/ CreateArray(name, cached)
      PROVE  IndInv'
  BY <1>1, UserStep, CreateArrayStep
<1>2. ASSUME NEW a \in Arrays, OfArray(a) PROVE IndInv'
  BY <1>2, UserStep, BindRowsStep, DisposeStep DEF OfArray
<1>3. ASSUME NEW n \in Names, DropTable(n) PROVE IndInv'
  BY <1>3, DisposeStep
<1>4. CASE Begin \/ Savepoint
  BY <1>4, UserStep
<1>5. CASE Commit \/ ForeignSchemaChange \/ \E others \in BOOLEAN : Rollback(others) \/ RollbackTo(others)
  BY <1>5, TransactionStep
<1>6. ASSUME NEW s \in Stmts, OfStatement(s) PROVE IndInv'
  <2>1. ASSUME NEW n \in Names, Prepare(s, n) PROVE IndInv'
    BY <2>1, CompileStep DEF Prepare
  <2> QED
    BY <1>6, <2>1, StepStatementStep, ResetStatementStep, FinalizeStep DEF OfStatement
<1>7. CASE FinalizeStatements
  BY <1>7, FinalizeStep
<1>8. CASE FinalizeArrays
  BY <1>8, DisposeStep
<1>9. CASE Close
  BY <1>9, CloseStep
<1>10. CASE UNCHANGED vars
  BY <1>10, StutterStep
<1> QED
  BY <1>1, <1>2, <1>3, <1>4, <1>5, <1>6, <1>7, <1>8, <1>9, <1>10 DEF Next

-----------------------------------------------------------------------------
(***************************************************************************)
(* The theorems.                                                           *)
(***************************************************************************)

(* Names, table objects, statements and transactions fit together.         *)
THEOREM Invariance == Spec => []IndInv
<1> QED
  BY InitIndInv, IndInvNext, PTL DEF Spec

(* Every variable keeps its type, and connectCount is an integer for every *)
(* array at all times.                                                     *)
THEOREM TypeCorrect == Spec => []TypeOK
<1>1. IndInv => TypeOK
  BY DEF IndInv
<1> QED
  BY <1>1, Invariance, PTL

(* A connected table is connected to the array that has its name now.      *)
THEOREM ConnectedTables == Spec => []TableIsItsArrays
<1>1. IndInv => TableIsItsArrays
  BY FindTells DEF IndInv, Connected, TableIsItsArrays
<1> QED
  BY <1>1, Invariance, PTL

(* A statement that is reading rows reads them from an array that exists   *)
(* and has the name in its SQL.                                            *)
THEOREM SafeCursors == Spec => []CursorSafe
<1>1. IndInv => CursorSafe
  BY LongArraysAssumption DEF IndInv, CursorsHaveArrays, CursorSafe, Has
<1> QED
  BY <1>1, Invariance, PTL

(* As long as no schema was cleared, an array that is freed leaves neither *)
(* a table object nor a table.                                             *)
THEOREM NothingIsLeft == Spec => []FreedLeavesNothing
<1>1. IndInv => FreedLeavesNothing
  <2> SUFFICES ASSUME IndInv, ~reset PROVE FreedLeavesNothing
    BY DEF FreedLeavesNothing
  <2>1. ASSUME NEW v \in VTables, arrOf[v] # NoArray PROVE place[arrOf[v]] # "free"
    <3>1. PICK n \in Names : conn[n] = v
      BY <2>1 DEF IndInv, NothingOutlives
    <3> QED
      BY <3>1, LongArraysAssumption DEF IndInv, Connected, Has
  <2>2. ASSUME NEW n \in tables, phase # "closed" PROVE Find(n) # NoArray
    BY <2>2, FindTells DEF IndInv, NothingOutlives
  <2> QED
    BY <2>1, <2>2 DEF FreedLeavesNothing
<1> QED
  BY <1>1, Invariance, PTL

(* When the connection is closed, SQLite has given back every table object *)
(* whatever was left behind by arrays, statements and transactions.        *)
THEOREM AllGivenBack == Spec => []AllDisconnected
<1>1. IndInv => AllDisconnected
  BY DEF IndInv
<1> QED
  BY <1>1, Invariance, PTL

(* An array that is not in use before or after a step, or is not touched.  *)
LEMMA RowsStayStep ==
  ASSUME IndInv, [Next]_vars, NEW a \in Arrays, InUse(a), InUse(a)'
  PROVE  bound'[a] = bound[a]
<1>1. PICK v \in VTables : arrOf[v] = a /\ Cursors(v) # {}
  BY DEF InUse
<1>2. phase = "open"
  BY <1>1 DEF IndInv, StatementsEnd, Cursors
<1>3. CASE UNCHANGED bound
  BY <1>3
<1>4. ASSUME NEW name, NEW cached, CreateArray(name, cached) PROVE bound'[a] = bound[a]
  <2>1. \A b \in NewArray : b # a
    BY <1>1 DEF NewArray
  <2> QED
    BY <1>4, <2>1 DEF CreateArray, IndInv, TypeOK, arrayVars
<1>5. ASSUME NEW b \in Arrays, OfArray(b) PROVE bound'[a] = bound[a]
  <2>1. DisposeInUse(b) \/ b # a
    BY <1>5 DEF OfArray, BindRows, BindNothing, DisposeCached, DisposeUncached, DropFails
  <2> QED
    BY <1>5, <2>1 DEF OfArray, BindRows, BindNothing, DisposeInUse, DisposeCached,
                      DisposeUncached, DropFails, Destroy, Free, IndInv, TypeOK
<1>6. ASSUME NEW s, OfStatement(s) PROVE UNCHANGED bound
  BY <1>6 DEF OfStatement, Prepare, StepStatement, Compile, ResetStatement, FinalizeStatement,
              arrayVars
<1> QED
  BY <1>2, <1>3, <1>4, <1>5, <1>6
     DEF Next, vars, arrayVars, ReuseArray, DropTable, Begin, Commit, Savepoint,
         ForeignSchemaChange, Rollback, RollbackTo, FinalizeStatements, FinalizeArrays, Close

(* Rows are not replaced under a cursor.                                   *)
THEOREM RowsStay == Spec => RowsStayUnderCursor
<1>1. IndInv /\ [Next]_vars =>
        [\A a \in Arrays : InUse(a) /\ InUse(a)' => bound'[a] = bound[a]]_vars
  BY RowsStayStep
<1> QED
  BY <1>1, Invariance, PTL DEF Spec, RowsStayUnderCursor

LEMMA TableAfterBindStep ==
  ASSUME IndInv, NEW a \in Arrays, BindRows(a), ~Outlived(a)
  PROVE  zName[a] \in tables'
<1>1. CASE ~TableMissing(a) /\ UNCHANGED tables
  <2>1. connectCount[a] > 0 /\ connectCount[a] \in Int
    BY <1>1 DEF TableMissing, IndInv, TypeOK
  <2>2. Cardinality(ObjectsOf(arrOf, a)) # 0
    BY <2>1, ObjectsFinite DEF IndInv, CountTells
  <2>3. PICK v \in VTables : arrOf[v] = a
    BY <2>2, FS_EmptySet, ObjectsFinite DEF ObjectsOf
  <2>4. PICK n \in Names : conn[n] = v
    BY <2>3 DEF Outlived, Range, IndInv, TypeOK
  <2>5. n \in tables /\ Has(a, n)
    BY <2>3, <2>4, LongArraysAssumption DEF IndInv, Connected
  <2> QED
    BY <1>1, <2>5 DEF Has
<1>2. CASE zName[a] \in tables /\ PrepareFails
  BY <1>2 DEF PrepareFails
<1>3. CASE CreateTable(zName[a], a)
  BY <1>3 DEF CreateTable
<1> QED
  BY <1>1, <1>2, <1>3 DEF BindRows

(* After a bind there is a table, unless an older table object of the      *)
(* array has outlived it.                                                  *)
THEOREM TableAfterBind == Spec => TableAfterBindUnlessOutlived
<1>1. IndInv /\ [Next]_vars =>
        [\A a \in Arrays : BindRows(a) /\ ~Outlived(a) => zName[a] \in tables']_vars
  BY TableAfterBindStep
<1> QED
  BY <1>1, Invariance, PTL DEF Spec, TableAfterBindUnlessOutlived
==============================================================================
