----------------------------- MODULE LongArrays -----------------------------
(***************************************************************************)
(* The life of SQLiteLongArray: the registry of SQLiteConnection.java, the *)
(* arrays of native/intarray.c and the part of SQLite that creates, drops, *)
(* connects and disconnects their virtual tables in the temp database,     *)
(* inside transactions and out of them.                                    *)
(*                                                                         *)
(* SQLite refers to an array through VTable objects, counted references:   *)
(* one from the schema while the table is connected, one from the open     *)
(* transaction (db->aVTrans), one from a list of objects to disconnect     *)
(* (db->pDisconnect) and one from every compiled statement. intarray.c     *)
(* sees such an object as the intarray_vtab that it allocates in xCreate   *)
(* and xConnect and frees in xDestroy and xDisconnect.                     *)
(***************************************************************************)
EXTENDS Integers, FiniteSets, Sequences, Functions

CONSTANTS
  Names,          (* the names of tables                                   *)
  AutoNames,      (* the sequence of names nextArrayName() makes           *)
  Arrays,         (* addresses of sqlite3_intarray structures              *)
  VTables,        (* addresses of VTable objects                           *)
  Stmts,          (* prepared statements                                   *)
  NoName, NoArray, NoVTable, NoStmt, NoMark

ASSUME LongArraysAssumption ==
  /\ AutoNames \in Seq(Names)
  /\ IsFiniteSet(VTables)
  /\ NoName \notin Names /\ NoArray \notin Arrays /\ NoVTable \notin VTables
  /\ NoStmt \notin [name : Names, vtab : VTables, open : BOOLEAN, expired : BOOLEAN]

VARIABLES
  phase,          (* of the connection, from "open" to "closed"            *)
  place,          (* of an array: what holds its handle                    *)
  zName, bound, connectCount, commitState,      (* fields of an array      *)
  counter,        (* myLongArrayCounter                                    *)
  autoCommit, changed,    (* db->autoCommit, DBFLAG_SchemaChange           *)
  tables,         (* the array tables in the temp database                 *)
  saved, mark,    (* the same when the transaction, the savepoint began    *)
  arrOf,          (* the array of a VTable, NoArray if it has none (pVtab) *)
  conn,           (* the VTable of a table of the schema                   *)
  trans, pending, (* db->aVTrans, db->pDisconnect                          *)
  stmt,           (* a prepared statement over one of the tables           *)
  reset           (* history: a schema was cleared                         *)

arrayVars == <<place, zName, bound, commitState>>
txnVars == <<autoCommit, changed, saved, mark, trans>>
vars == <<phase, arrayVars, connectCount, counter, txnVars, tables, arrOf, conn,
          pending, stmt, reset>>

(* "cached", "uncached": the controller of the user's SQLiteLongArray;     *)
(* "cache": in myLongArrays; "leaked": no handle is left; "free": no       *)
(* array is at this address.                                               *)
Places == {"free", "cached", "uncached", "cache", "leaked"}
Statement == [name : Names, vtab : VTables, open : BOOLEAN, expired : BOOLEAN]

TypeOK ==
  /\ phase \in {"open", "finalizing", "closing", "closed"}
  /\ place \in [Arrays -> Places]
  /\ zName \in [Arrays -> Names \union {NoName}]
  /\ bound \in [Arrays -> BOOLEAN]
  /\ connectCount \in [Arrays -> Int]
  /\ commitState \in [Arrays -> {-1, 0, 1}]
  /\ counter \in 0 .. Len(AutoNames)
  /\ autoCommit \in BOOLEAN /\ changed \in BOOLEAN /\ reset \in BOOLEAN
  /\ tables \subseteq Names /\ saved \subseteq Names
  /\ mark = NoMark \/ mark \subseteq Names
  /\ arrOf \in [VTables -> Arrays \union {NoArray}]
  /\ conn \in [Names -> VTables \union {NoVTable}]
  /\ trans \subseteq VTables /\ pending \subseteq VTables
  /\ stmt \in [Stmts -> Statement \union {NoStmt}]

Init ==
  /\ phase = "open"
  /\ place = [a \in Arrays |-> "free"]
  /\ zName = [a \in Arrays |-> NoName]
  /\ bound = [a \in Arrays |-> FALSE]
  /\ connectCount = [a \in Arrays |-> 0]
  /\ commitState = [a \in Arrays |-> 1]
  /\ counter = 0
  /\ autoCommit = TRUE /\ changed = FALSE
  /\ tables = {} /\ saved = {} /\ mark = NoMark
  /\ arrOf = [v \in VTables |-> NoArray]
  /\ conn = [n \in Names |-> NoVTable]
  /\ trans = {} /\ pending = {}
  /\ stmt = [s \in Stmts |-> NoStmt]
  /\ reset = FALSE

-----------------------------------------------------------------------------
(* What holds for the state as it is.                                      *)

Prepared == {s \in Stmts : stmt[s] # NoStmt}
Referenced(v) ==
  \/ v \in Range(conn) \union trans \union pending
  \/ \E s \in Prepared : stmt[s].vtab = v

(* The array that intarrayMapFind() finds: the map holds every array that  *)
(* is allocated (IntArrayMap says when that is so).                        *)
Find(n) ==
  IF \E a \in Arrays : place[a] # "free" /\ zName[a] = n
  THEN CHOOSE a \in Arrays : place[a] # "free" /\ zName[a] = n ELSE NoArray

(* sqlite3_vtab.nRef, and its sum over the tables of an array: useCount,   *)
(* which xOpen and xClose count.                                           *)
Cursors(v) == {s \in Prepared : stmt[s].vtab = v /\ stmt[s].open}
InUse(a) == \E v \in VTables : arrOf[v] = a /\ Cursors(v) # {}

Users(a) == place[a] \in {"cached", "uncached"}

(* Where malloc() finds room for a new object: nothing points there.       *)
NewArray == {a \in Arrays : place[a] = "free" /\ \A v \in VTables : arrOf[v] # a}
NewVTable == {v \in VTables : ~Referenced(v)}

-----------------------------------------------------------------------------
(* The steps of SQLite.                                                    *)

(* sqlite3VtabUnlock() and xDisconnect, for the objects that a step leaves *)
(* without a reference; "set" are the arrays whose count it then sets to 1.*)
Settle(ao, cc, set) ==
  LET gone == {v \in VTables : ao[v] # NoArray /\ ~Referenced(v)'} IN
  /\ arrOf' = [v \in VTables |-> IF v \in gone THEN NoArray ELSE ao[v]]
  /\ connectCount' = [a \in Arrays |->
       IF a \in set THEN 1 ELSE cc[a] - Cardinality({v \in gone : ao[v] = a})]

(* sqlite3ExpirePreparedStatements().                                      *)
Expired ==
  [s \in Stmts |-> IF s \in Prepared THEN [stmt[s] EXCEPT !.expired = TRUE] ELSE NoStmt]

(* OP_SetCookie of the temp schema, and the commit that follows at once if *)
(* no transaction is open.                                                 *)
SchemaChanged ==
  /\ stmt' = Expired
  /\ changed' = ~autoCommit
  /\ saved' = IF autoCommit THEN tables' ELSE saved
  /\ UNCHANGED <<autoCommit, mark, reset>>

(* A prepare that fails has emptied db->pDisconnect all the same.          *)
PrepareFails ==
  /\ pending' = {}
  /\ UNCHANGED <<txnVars, tables, conn, stmt, reset>>
  /\ Settle(arrOf, connectCount, {})

(* CREATE VIRTUAL TABLE temp.n for array a: sqlite3VtabCallCreate() and    *)
(* intarrayCreate().                                                       *)
CreateTable(n, a) ==
  /\ n \notin tables
  /\ tables' = tables \union {n}
  /\ pending' = {}
  /\ \E v \in NewVTable :
       /\ conn' = [conn EXCEPT ![n] = v]
       /\ trans' = IF autoCommit THEN trans ELSE trans \union {v}
       /\ SchemaChanged
       /\ Settle([arrOf EXCEPT ![v] = a], connectCount, {a})

\* Mutation: xDestroy is called, but the object keeps its intarray_vtab.
DropTables_KeepsVtab(ns) ==
  /\ ns \subseteq tables /\ ns # {}
  /\ tables' = tables \ ns
  /\ pending' = {}
  /\ conn' = [n \in Names |-> IF n \in ns THEN NoVTable ELSE conn[n]]
  /\ UNCHANGED trans
  /\ SchemaChanged
  /\ Settle(arrOf, connectCount, {})

(* DROP TABLE of the tables ns: sqlite3VtabCallDestroy(). One that is not  *)
(* connected is connected before it is destroyed, which needs its array.   *)
(* The transaction has no callbacks for the VTable of a destroyed table.   *)
DropTables(ns) ==
  LET gone == {conn[n] : n \in ns} \ {NoVTable}
      kept == [v \in VTables |-> IF v \in gone THEN NoArray ELSE arrOf[v]]
      left == [a \in Arrays |->
                 connectCount[a] - Cardinality({v \in gone : arrOf[v] = a})]
  IN /\ ns \subseteq tables /\ ns # {}
     /\ tables' = tables \ ns
     /\ pending' = {}
     /\ conn' = [n \in Names |-> IF n \in ns THEN NoVTable ELSE conn[n]]
     /\ trans' = trans \ gone
     /\ SchemaChanged
     /\ Settle(kept, left, {})

-----------------------------------------------------------------------------
(* SQLiteConnection.createArray(name, cached).                             *)

Pool(name) == {a \in Arrays : place[a] = "cache" /\ (name = NoName \/ zName[a] = name)}

(* A cached array is handed out as it is.                                  *)
ReuseArray(name, cached) ==
  /\ phase = "open"
  /\ cached \/ name # NoName
  /\ \E a \in Pool(name) : place' = [place EXCEPT ![a] = "cached"]
  /\ UNCHANGED <<phase, zName, bound, connectCount, commitState, counter, txnVars,
                 tables, arrOf, conn, pending, stmt, reset>>

NextName(name) ==
  IF name # NoName THEN name
  ELSE IF counter < Len(AutoNames) THEN AutoNames[counter + 1] ELSE NoName

(* createArray0() and sqlite3_intarray_create(). A name that an array has, *)
(* or a table, is refused.                                                 *)
CreateArray(name, cached) ==
  LET n == NextName(name) IN
  /\ phase = "open"
  /\ (cached \/ name # NoName) => Pool(name) = {}
  /\ n # NoName
  /\ counter' = IF name = NoName THEN counter + 1 ELSE counter
  /\ UNCHANGED phase
  /\ \/ /\ Find(n) # NoArray
        /\ UNCHANGED <<arrayVars, connectCount, txnVars, tables, arrOf, conn, pending,
                       stmt, reset>>
     \/ /\ Find(n) = NoArray /\ n \in tables
        /\ PrepareFails
        /\ UNCHANGED arrayVars
     \/ /\ Find(n) = NoArray
        /\ \E a \in NewArray :
             /\ place' = [place EXCEPT ![a] = IF cached THEN "cached" ELSE "uncached"]
             /\ zName' = [zName EXCEPT ![a] = n]
             /\ bound' = [bound EXCEPT ![a] = FALSE]
             /\ commitState' = [commitState EXCEPT ![a] = IF autoCommit THEN 1 ELSE 0]
             /\ CreateTable(n, a)

\* Mutation: only a rollback is thought to lose the table.
TableMissing_Rollback(a) == commitState[a] < 0
(* What sqlite3_intarray_bind() knows of the table.                        *)
TableMissing(a) == commitState[a] < 0 \/ connectCount[a] <= 0

(* SQLiteLongArray.bind(): of some rows, which creates the table if it is  *)
(* missing, or of none. If that fails, the rows are bound nevertheless.    *)
BindRows(a) ==
  /\ phase = "open"
  /\ Users(a)
  /\ ~InUse(a)
  /\ bound' = [bound EXCEPT ![a] = TRUE]
  /\ UNCHANGED <<phase, place, zName, counter>>
  /\ \/ /\ ~TableMissing(a)
        /\ UNCHANGED <<commitState, connectCount, txnVars, tables, arrOf, conn, pending,
                       stmt, reset>>
     \/ /\ TableMissing(a) /\ zName[a] \in tables
        /\ PrepareFails
        /\ UNCHANGED commitState
     \/ /\ TableMissing(a)
        /\ CreateTable(zName[a], a)
        /\ commitState' = [commitState EXCEPT ![a] = IF autoCommit THEN 1 ELSE 0]

\* Mutation: cursors are not looked at.
BindNothing_InUse(a) ==
  /\ phase = "open"
  /\ Users(a)
  /\ bound' = [bound EXCEPT ![a] = FALSE]
  /\ UNCHANGED <<phase, place, zName, commitState, counter, connectCount, txnVars,
                 tables, arrOf, conn, pending, stmt, reset>>

BindNothing(a) ==
  /\ phase = "open"
  /\ Users(a)
  /\ ~InUse(a)
  /\ bound' = [bound EXCEPT ![a] = FALSE]
  /\ UNCHANGED <<phase, place, zName, commitState, counter, connectCount, txnVars,
                 tables, arrOf, conn, pending, stmt, reset>>

-----------------------------------------------------------------------------
(* SQLiteLongArray.dispose().                                              *)

(* intarrayMapRemove() and free() of the arrays as.                        *)
Free(as) ==
  /\ place' = [a \in Arrays |-> IF a \in as THEN "free" ELSE place[a]]
  /\ zName' = [a \in Arrays |-> IF a \in as THEN NoName ELSE zName[a]]
  /\ bound' = [a \in Arrays |-> IF a \in as THEN FALSE ELSE bound[a]]
  /\ commitState' = [a \in Arrays |-> IF a \in as THEN 1 ELSE commitState[a]]

NamesOf(as) == {zName[a] : a \in as}

(* sqlite3_intarray_destroy() of the arrays as, none of them in use.       *)
Destroy(as) ==
  /\ Free(as)
  /\ \/ DropTables(NamesOf(as) \intersect tables)
     \/ NamesOf(as) \intersect tables = {} /\ PrepareFails

(* While a cursor is open, neither unbinding nor destruction is possible,  *)
(* and the handle is forgotten.                                            *)
DisposeInUse(a) ==
  /\ phase = "open"
  /\ Users(a) /\ InUse(a)
  /\ place' = [place EXCEPT ![a] = "leaked"]
  /\ UNCHANGED <<phase, zName, bound, connectCount, commitState, counter, txnVars,
                 tables, arrOf, conn, pending, stmt, reset>>

(* cacheArrayHandle().                                                     *)
DisposeCached(a) ==
  /\ phase = "open"
  /\ place[a] = "cached" /\ ~InUse(a)
  /\ place' = [place EXCEPT ![a] = "cache"]
  /\ bound' = [bound EXCEPT ![a] = FALSE]
  /\ UNCHANGED <<phase, zName, connectCount, commitState, counter, txnVars, tables,
                 arrOf, conn, pending, stmt, reset>>

\* Mutation: the same for the destruction.
DisposeUncached_InUse(a) ==
  /\ phase = "open"
  /\ place[a] = "uncached"
  /\ Destroy({a})
  /\ UNCHANGED <<phase, counter>>

(* finalizeArray().                                                        *)
DisposeUncached(a) ==
  /\ phase = "open"
  /\ place[a] = "uncached" /\ ~InUse(a)
  /\ Destroy({a})
  /\ UNCHANGED <<phase, counter>>

(* The DROP TABLE of sqlite3_intarray_destroy() fails (an interrupt, no    *)
(* memory): the content is gone, and nobody has the handle any more.       *)
DropFails(a) ==
  /\ phase = "open"
  /\ place[a] = "uncached" /\ ~InUse(a)
  /\ place' = [place EXCEPT ![a] = "leaked"]
  /\ bound' = [bound EXCEPT ![a] = FALSE]
  /\ PrepareFails
  /\ UNCHANGED <<phase, zName, commitState, counter>>

-----------------------------------------------------------------------------
(* SQL of the user.                                                        *)

(* "It's possible to use DROP TABLE on the array virtual table"            *)
(* (SQLiteConnection.java:1007).                                           *)
DropTable(n) ==
  /\ phase = "open"
  /\ conn[n] = NoVTable => Find(n) # NoArray
  /\ conn[n] # NoVTable => Cursors(conn[n]) = {}
  /\ DropTables({n})
  /\ UNCHANGED <<phase, arrayVars, counter>>

(* No array has an object in the transaction when none is open.            *)
Begin ==
  /\ phase = "open"
  /\ autoCommit
  /\ autoCommit' = FALSE
  /\ UNCHANGED <<phase, arrayVars, connectCount, counter, changed, saved, mark, trans,
                 tables, arrOf, conn, pending, stmt, reset>>

(* callFinaliser(): xCommit or xRollback for the tables of the transaction *)
(* that still exist.                                                       *)
Finalised(state) ==
  [a \in Arrays |-> IF commitState[a] = 0 /\ \E v \in trans : arrOf[v] = a
                    THEN state ELSE commitState[a]]

Commit ==
  /\ phase = "open"
  /\ ~autoCommit
  /\ autoCommit' = TRUE /\ changed' = FALSE
  /\ saved' = tables /\ mark' = NoMark
  /\ commitState' = Finalised(1)
  /\ trans' = {}
  /\ UNCHANGED <<phase, place, zName, bound, counter, tables, conn, pending, stmt, reset>>
  /\ Settle(arrOf, connectCount, {})

\* Mutation: the tables stay connected.
ClearSchema_Connected == stmt' = Expired /\ reset' = TRUE /\ UNCHANGED conn

(* sqlite3SchemaClear(): every table loses its connection.                 *)
ClearSchema ==
  /\ conn' = [n \in Names |-> NoVTable]
  /\ stmt' = Expired
  /\ reset' = TRUE

(* sqlite3RollbackAll(). If the schema has changed, by these tables or by  *)
(* others (the parameter), it is read again.                               *)
Rollback(others) ==
  /\ phase = "open"
  /\ ~autoCommit
  /\ autoCommit' = TRUE /\ changed' = FALSE
  /\ tables' = saved /\ mark' = NoMark
  /\ commitState' = Finalised(-1)
  /\ trans' = {}
  /\ IF changed \/ others THEN ClearSchema /\ pending' = {}
                          ELSE UNCHANGED <<conn, stmt, reset, pending>>
  /\ UNCHANGED <<phase, place, zName, bound, counter, saved>>
  /\ Settle(arrOf, connectCount, {})

(* SAVEPOINT in a transaction, the only one of it.                         *)
Savepoint ==
  /\ phase = "open"
  /\ ~autoCommit /\ mark = NoMark
  /\ mark' = tables
  /\ UNCHANGED <<phase, arrayVars, connectCount, counter, autoCommit, changed, saved,
                 trans, tables, arrOf, conn, pending, stmt, reset>>

(* ROLLBACK TO: the module has no xRollbackTo to be called.                *)
RollbackTo(others) ==
  /\ phase = "open"
  /\ mark # NoMark
  /\ tables' = mark
  /\ changed' = (changed \/ others)
  /\ IF changed' THEN ClearSchema /\ pending' = {}
                 ELSE UNCHANGED <<conn, stmt, reset, pending>>
  /\ UNCHANGED <<phase, arrayVars, counter, autoCommit, saved, mark, trans>>
  /\ Settle(arrOf, connectCount, {})

(* Another connection has changed the schema of the database file:         *)
(* sqlite3ResetOneSchema() clears that of temp as well, and what was       *)
(* connected waits for the next prepare.                                   *)
ForeignSchemaChange ==
  /\ phase = "open"
  /\ ClearSchema
  /\ pending' = pending \union (Range(conn) \ {NoVTable})
  /\ UNCHANGED <<phase, arrayVars, connectCount, counter, txnVars, tables, arrOf>>

(* Statement s over table n is compiled, and holds the VTable of n from    *)
(* then on, be it the user's or in the statement cache.                    *)
Holds(s, n, v, open) ==
  stmt' = [stmt EXCEPT ![s] = [name |-> n, vtab |-> v, open |-> open, expired |-> FALSE]]

(* sqlite3VtabCallConnect() finds the array if n has no VTable.            *)
Compile(s, n, open) ==
  /\ n \in tables
  /\ UNCHANGED <<phase, arrayVars, counter, txnVars, tables, reset>>
  /\ pending' = {}
  /\ \/ /\ conn[n] # NoVTable
        /\ Holds(s, n, conn[n], open)
        /\ UNCHANGED conn
        /\ Settle(arrOf, connectCount, {})
     \/ /\ conn[n] = NoVTable /\ Find(n) # NoArray
        /\ \E v \in NewVTable :
             /\ Holds(s, n, v, open)
             /\ conn' = [conn EXCEPT ![n] = v]
             /\ Settle([arrOf EXCEPT ![v] = Find(n)],
                       [connectCount EXCEPT ![Find(n)] = @ + 1], {})

Prepare(s, n) ==
  /\ phase = "open"
  /\ stmt[s] = NoStmt
  /\ Compile(s, n, FALSE)

(* The first sqlite3_step(): the statement is compiled again if it has     *)
(* expired, keeping the old VTable if that fails, and opens a cursor.      *)
StepStatement(s) ==
  /\ phase = "open"
  /\ s \in Prepared /\ ~stmt[s].open
  /\ \/ /\ ~stmt[s].expired
        /\ arrOf[stmt[s].vtab] # NoArray
        /\ stmt' = [stmt EXCEPT ![s].open = TRUE]
        /\ UNCHANGED <<phase, arrayVars, connectCount, counter, txnVars, tables, arrOf,
                       conn, pending, reset>>
     \/ /\ stmt[s].expired
        /\ Compile(s, stmt[s].name, TRUE)
     \/ /\ stmt[s].expired
        /\ stmt[s].name \notin tables \/
           (conn[stmt[s].name] = NoVTable /\ Find(stmt[s].name) = NoArray)
        /\ PrepareFails
        /\ UNCHANGED <<phase, arrayVars, counter>>

(* The last row, an error or sqlite3_reset() closes the cursor.            *)
ResetStatement(s) ==
  /\ phase = "open"
  /\ s \in Prepared /\ stmt[s].open
  /\ stmt' = [stmt EXCEPT ![s].open = FALSE]
  /\ UNCHANGED <<phase, arrayVars, connectCount, counter, txnVars, tables, arrOf, conn,
                 pending, reset>>

FinalizeStatement(s) ==
  /\ phase = "open"
  /\ s \in Prepared
  /\ stmt' = [stmt EXCEPT ![s] = NoStmt]
  /\ UNCHANGED <<phase, arrayVars, counter, txnVars, tables, conn, pending, reset>>
  /\ Settle(arrOf, connectCount, {})

-----------------------------------------------------------------------------
(* SQLiteConnection.dispose(), in its three steps: finalizeStatements(),   *)
(* finalizeArrays(), sqlite3_close(). Arrays the user has not disposed of  *)
(* are in no registry, and stay.                                           *)

FinalizeStatements ==
  /\ phase = "open"
  /\ phase' = "finalizing"
  /\ stmt' = [s \in Stmts |-> NoStmt]
  /\ UNCHANGED <<arrayVars, counter, txnVars, tables, conn, pending, reset>>
  /\ Settle(arrOf, connectCount, {})

FinalizeArrays ==
  LET cached == {a \in Arrays : place[a] = "cache"} IN
  /\ phase = "finalizing"
  /\ phase' = "closing"
  /\ Destroy(cached)
  /\ UNCHANGED counter

(* disconnectAllVtab() and sqlite3VtabRollback().                          *)
Close ==
  /\ phase = "closing"
  /\ phase' = "closed"
  /\ conn' = [n \in Names |-> NoVTable]
  /\ pending' = {} /\ trans' = {}
  /\ tables' = {}
  /\ commitState' = Finalised(-1)
  /\ UNCHANGED <<place, zName, bound, counter, autoCommit, changed, saved, mark, stmt,
                 reset>>
  /\ Settle(arrOf, connectCount, {})

OfArray(a) ==
  \/ BindRows(a) \/ BindNothing(a)
  \/ DisposeInUse(a) \/ DisposeCached(a) \/ DisposeUncached(a) \/ DropFails(a)

OfStatement(s) ==
  \/ \E n \in Names : Prepare(s, n)
  \/ StepStatement(s) \/ ResetStatement(s) \/ FinalizeStatement(s)

Next ==
  \/ \E name \in Names \union {NoName}, cached \in BOOLEAN :
       ReuseArray(name, cached) \/ CreateArray(name, cached)
  \/ \E a \in Arrays : OfArray(a)
  \/ \E n \in Names : DropTable(n)
  \/ Begin \/ Commit \/ Savepoint \/ ForeignSchemaChange
  \/ \E others \in BOOLEAN : Rollback(others) \/ RollbackTo(others)
  \/ \E s \in Stmts : OfStatement(s)
  \/ FinalizeStatements \/ FinalizeArrays \/ Close

Spec == Init /\ [][Next]_vars

-----------------------------------------------------------------------------
(***************************************************************************)
(* Properties.                                                             *)
(***************************************************************************)

(* A table the schema knows is connected to the array that has its name    *)
(* now: not to a freed one, nor to an earlier one of that name.            *)
TableIsItsArrays ==
  phase # "closed" =>
    \A n \in Names : conn[n] # NoVTable => n \in tables /\ arrOf[conn[n]] = Find(n)
                                            /\ Find(n) # NoArray

(* INTARRAY_INUSE (intarray.c:284): a statement that is reading rows reads *)
(* them from an array that exists and has the name in its SQL, even if the *)
(* table was dropped, rolled back or connected anew under it.              *)
CursorSafe ==
  \A s \in Prepared : stmt[s].open =>
    LET a == arrOf[stmt[s].vtab] IN
    a # NoArray /\ place[a] # "free" /\ zName[a] = stmt[s].name

(* The other half of that: the rows are not replaced under the cursor, by  *)
(* whatever way the handle has come to whoever binds it.                   *)
RowsStayUnderCursor ==
  [][\A a \in Arrays : InUse(a) /\ InUse(a)' => bound'[a] = bound[a]]_vars

(* "if dropped afterwards, it will be recreated on the next call to        *)
(* sqlite3_intarray_bind" (intarray.h:46): after a bind there is a table,  *)
(* unless an older table object of the array has outlived it.              *)
Outlived(a) == \E v \in VTables : arrOf[v] = a /\ v \notin Range(conn)
TableAfterBindUnlessOutlived ==
  [][\A a \in Arrays : BindRows(a) /\ ~Outlived(a) => zName[a] \in tables']_vars

(* An array that is freed leaves no table object behind, with callbacks to *)
(* come, and no table that would keep its name from being used again:      *)
(* whatever the order in which statements, arrays, transactions and the    *)
(* connection end, unless the schema was once cleared (a rollback, a       *)
(* change by another connection).                                          *)
FreedLeavesNothing ==
  reset \/ /\ \A v \in VTables : arrOf[v] # NoArray => place[arrOf[v]] # "free"
           /\ \A n \in tables : phase # "closed" => Find(n) # NoArray
==============================================================================
