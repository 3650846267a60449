------------------------- MODULE StatementPool_proofs -------------------------
(***************************************************************************)
(* SQLiteConnection implements StatementPool as long as assertions are     *)
(* enabled: without them a statement can be cleared by a thread that may   *)
(* not give its handle back.                                               *)
(***************************************************************************)
EXTENDS SQLiteConnection_proofs

USE StatementAssumption, ConnectionAssumption DEF Statements, Handles, None, Idle

(* The refinement mapping, as in the instance Pool.                        *)
poolPlace == [h \in Handles |-> PlaceOf(h)]
poolClean == {h \in Handles : native[h].state = "ready" /\ ~native[h].bound}
poolOpen == CASE database = "none" -> "not yet"
              [] database = "open" -> "open"
              [] OTHER -> "closed"

(* Where a handle is, in terms of its state and of its owner.              *)
PlacesTell ==
  \A h \in Handles :
    /\ native[h].state = "none" => PlaceOf(h) = Pool!Nowhere
    /\ native[h].state = "finalized" => PlaceOf(h) = Pool!Gone
    /\ Live(h) /\ (\A s \in Statements : statement[s].handle # h) => PlaceOf(h) = Pool!Pool
    /\ \A s \in Statements : statement[s].handle = h => PlaceOf(h) = Pool!Lent(s)

LEMMA Told == IndInv => PlacesTell
<1> SUFFICES ASSUME IndInv, NEW h \in Handles
             PROVE  /\ native[h].state = "none" => PlaceOf(h) = Pool!Nowhere
                    /\ native[h].state = "finalized" => PlaceOf(h) = Pool!Gone
                    /\ Live(h) /\ (\A s \in Statements : statement[s].handle # h) => PlaceOf(h) = Pool!Pool
                    /\ \A s \in Statements : statement[s].handle = h => PlaceOf(h) = Pool!Lent(s)
  BY DEF PlacesTell
<1> USE DEF IndInv
<1>1. native[h].state = "none" => PlaceOf(h) = Pool!Nowhere
  BY DEF PlaceOf, Pool!Nowhere
<1>2. native[h].state = "finalized" => PlaceOf(h) = Pool!Gone
  BY DEF PlaceOf, Pool!Gone
<1>3. Live(h) /\ (\A s \in Statements : statement[s].handle # h) => PlaceOf(h) = Pool!Pool
  BY DEF PlaceOf, Pool!Pool, Live, StatementsOf
<1>4. ASSUME NEW s \in Statements, statement[s].handle = h
      PROVE  PlaceOf(h) = Pool!Lent(s)
  <2>1. Valid(s) /\ Live(h)
    BY <1>4 DEF StatementsOwn
  <2>2. (CHOOSE r \in Statements : statement[r].handle = h) = s
    BY <1>4, <2>1 DEF StatementsOwn
  <2>3. StatementsOf(h) # {}
    BY <1>4 DEF StatementsOf
  <2> QED
    BY <2>1, <2>2, <2>3 DEF PlaceOf, Live, Pool!Lent
<1> QED
  BY <1>1, <1>2, <1>3, <1>4

LEMMA ToldNext == IndInv' => PlacesTell'
BY Told, PTL

LEMMA PoolInit == Init => Pool!Init
<1> SUFFICES ASSUME Init PROVE Pool!Init
  OBVIOUS
<1>1. IndInv
  BY InitIndInv
<1>2. \A h \in Handles : native[h].state = "none"
  BY DEF Init, StatementInit
<1>3. \A h \in Handles : PlaceOf(h) = Pool!Nowhere
  BY <1>1, <1>2, Told DEF PlacesTell
<1>4. [h \in Handles |-> PlaceOf(h)] = [h \in Handles |-> Pool!Nowhere]
  BY <1>3
<1>5. 1 .. made = {} /\ database = "none"
  BY DEF Init, StatementInit
<1>6. {h \in Handles : native[h].state = "ready" /\ ~native[h].bound} = {}
  BY <1>2
<1> QED
  BY <1>4, <1>5, <1>6 DEF Pool!Init

(* Nothing changes that tells where handle h is, nor whether it is clean.  *)
Same(h) ==
  /\ \A s \in Statements : statement'[s].handle = h <=> statement[s].handle = h
  /\ Live(h)' <=> Live(h)
  /\ native'[h].state = "none" <=> native[h].state = "none"
  /\ (h \in poolClean)' <=> h \in poolClean

LEMMA SamePlace ==
  ASSUME IndInv, IndInv', NEW h \in Handles, Same(h)
  PROVE  PlaceOf(h)' = PlaceOf(h)
<1>1. PlacesTell /\ PlacesTell'
  BY Told, ToldNext
<1>2. CASE ~Live(h)
  BY <1>1, <1>2 DEF PlacesTell, Live, Pool!Nowhere, Pool!Gone, Same
<1>3. CASE Live(h) /\ \A s \in Statements : statement[s].handle # h
  BY <1>1, <1>3 DEF PlacesTell, Pool!Pool, Same
<1>4. ASSUME NEW s \in Statements, statement[s].handle = h PROVE PlaceOf(h)' = PlaceOf(h)
  BY <1>1, <1>4 DEF PlacesTell, Pool!Lent, Same
<1> QED
  BY <1>2, <1>3, <1>4

(* A step that concerns no handle, and one that concerns one of them.      *)
LEMMA NoneMoves ==
  ASSUME IndInv, IndInv', \A h \in Handles : Same(h)
  PROVE  poolPlace' = poolPlace /\ poolClean' = poolClean
<1>1. poolPlace' = poolPlace
  BY SamePlace DEF poolPlace
<1>2. \A h : h \in poolClean' <=> h \in poolClean
  BY DEF Same, poolClean
<1> QED
  BY <1>1, <1>2

LEMMA OneMoves ==
  ASSUME IndInv, IndInv', NEW h \in Handles, \A g \in Handles \ {h} : Same(g)
  PROVE  /\ poolPlace' = [poolPlace EXCEPT ![h] = PlaceOf(h)']
         /\ h \in poolClean' => poolClean' = poolClean \union {h}
         /\ h \notin poolClean' => poolClean' = poolClean \ {h}
<1>1. \A g \in Handles \ {h} : PlaceOf(g)' = PlaceOf(g)
  BY SamePlace
<1>2. poolPlace' = [poolPlace EXCEPT ![h] = PlaceOf(h)']
  BY <1>1 DEF poolPlace
<1>3. \A g \in Handles \ {h} : g \in poolClean' <=> g \in poolClean
  BY DEF Same, poolClean
<1>4. poolClean \subseteq Handles /\ poolClean' \subseteq Handles
  BY DEF poolClean
<1> QED
  BY <1>2, <1>3, <1>4

LEMMA PoolStutter ==
  ASSUME IndInv, IndInv', UNCHANGED <<made, native>>, poolOpen' = poolOpen,
         \A s \in Statements : statement'[s].handle = statement[s].handle
  PROVE  UNCHANGED Pool!vars
<1>1. \A h \in Handles : Same(h)
  BY DEF Same, Live, poolClean
<1> QED
  BY <1>1, NoneMoves DEF Pool!vars, poolPlace, poolClean, poolOpen

LEMMA Opens ==
  ASSUME IndInv, IndInv', NEW t \in Threads, OpenSucceeds(t)
  PROVE  Pool!Open
<1>1. UNCHANGED <<statement, made, native>> /\ database = "none" /\ database' = "open"
  BY DEF OpenSucceeds, statementVars, IndInv, Lifecycle
<1>2. \A h \in Handles : Same(h)
  BY <1>1 DEF Same, Live, poolClean
<1> QED
  BY <1>1, <1>2, NoneMoves DEF Pool!Open, poolPlace, poolClean

LEMMA Closes ==
  ASSUME Assertions, IndInv, IndInv', NEW t \in Threads, Close(t)
  PROVE  Pool!Close
<1>1. /\ UNCHANGED <<statement, made, native>>
      /\ database = "open"
      /\ database' = IF \E h \in Handles : Live(h) THEN "busy" ELSE "closed"
  BY DEF Close, statementVars, IndInv, Lifecycle
<1>2. database' = "closed" /\ \A h \in Handles : ~Live(h)
  BY <1>1 DEF IndInv, NothingForgotten, ClosesCleanly
<1>3. \A h \in Handles : PlaceOf(h) \in {Pool!Nowhere, Pool!Gone}
  BY <1>2, Told DEF PlacesTell, Live
<1>4. \A h \in Handles : Same(h)
  BY <1>1 DEF Same, Live, poolClean
<1> QED
  BY <1>1, <1>2, <1>3, <1>4, NoneMoves DEF Pool!Close, poolPlace, poolClean

(***************************************************************************)
(* Steps on one handle.                                                    *)
(***************************************************************************)
LEMMA Compiles ==
  ASSUME IndInv, IndInv', NEW t \in Threads, Compile(t)
  PROVE  \E h \in Handles : Pool!Compile(h)
<1> USE DEF IndInv
<1>0. PICK h \in Handles : h = made + 1
  BY DEF Compile, PrepareOwns, TypeOK, StatementTypeOK
<1>1. /\ call[t].at = "compiling" /\ database = "open" /\ h > made
      /\ UNCHANGED <<statement, made, database>>
      /\ native' = [native EXCEPT ![h] = Compiled(call[t].sql)]
  BY <1>0 DEF Compile, connectionVars, Lifecycle, InUse, TypeOK, StatementTypeOK
<1>2. native[h].state = "none"
  BY <1>1 DEF PrepareOwns, CallsAreConfined
<1>3. /\ native'[h] = Compiled(call[t].sql)
      /\ \A g \in Handles \ {h} : native'[g] = native[g]
  BY <1>1 DEF TypeOK, StatementTypeOK
<1>4. \A g \in Handles \ {h} : Same(g)
  BY <1>1, <1>3 DEF Same, Live, poolClean
<1>5. \A s \in Statements : statement[s].handle # h
  BY <1>1, <1>2 DEF StatementsOwn, Live
<1>6. PlaceOf(h) = Pool!Nowhere
  BY <1>1, <1>2, Told DEF PlacesTell
<1>7. PlaceOf(h)' = Pool!Pool
  <2>1. Live(h)' /\ (\A s \in Statements : statement'[s].handle # h)
    BY <1>1, <1>3, <1>5, CompiledFields DEF Live
  <2> QED
    BY <1>1, <2>1, ToldNext DEF PlacesTell
<1>8. h \in poolClean'
  BY <1>1, <1>3, CompiledFields DEF poolClean
<1>9. poolPlace' = [poolPlace EXCEPT ![h] = Pool!Pool] /\ poolClean' = poolClean \union {h}
  BY <1>1, <1>4, <1>7, <1>8, OneMoves
<1>10. Pool!Compile(h)
  BY <1>1, <1>6, <1>9 DEF Pool!Compile, poolPlace, poolClean
<1> QED
  BY <1>10

LEMMA Lends ==
  ASSUME IndInv, IndInv', NEW t \in Threads, Instantiate(t)
  PROVE  \E h \in Handles : \E s \in Statements : Pool!Lend(h, s)
<1> USE DEF IndInv
<1> DEFINE f == [Blank EXCEPT !.sql = call[t].sql, !.handle = call[t].handle,
                   !.controller = IF call[t].cached THEN "cached" ELSE "uncached"]
<1>0. PICK s \in Statements, h \in Handles : s = made + 1 /\ h = call[t].handle
  BY DEF Instantiate, PrepareOwns, TypeOK, StatementTypeOK
<1>1. /\ made \in Nat /\ s = made + 1
      /\ native[h] = Compiled(call[t].sql)
      /\ \A r \in Statements : statement[r].handle # h
      /\ made' = s
      /\ statement' = [statement EXCEPT ![s] = f]
      /\ UNCHANGED <<database, native>>
  BY <1>0 DEF Instantiate, PrepareOwns, connectionVars, TypeOK, StatementTypeOK
<1>2. f.handle = h
  BY <1>0 DEF Blank
<1> HIDE DEF f
<1>3. /\ statement'[s].handle = h
      /\ \A r \in Statements \ {s} : statement'[r] = statement[r]
  BY <1>1, <1>2 DEF TypeOK, StatementTypeOK
<1>4. statement[s].handle = None
  BY <1>1 DEF StatementsOwn, Blank
<1>5. \A g \in Handles \ {h} : Same(g)
  BY <1>1, <1>3, <1>4 DEF Same, Live, poolClean
<1>6. PlaceOf(h) = Pool!Pool
  BY <1>1, Told, CompiledFields DEF PlacesTell, Live
<1>7. PlaceOf(h)' = Pool!Lent(s)
  BY <1>1, <1>3, ToldNext DEF PlacesTell
<1>8. h \in poolClean /\ poolClean' = poolClean
  BY <1>1, CompiledFields DEF poolClean
<1>9. poolPlace' = [poolPlace EXCEPT ![h] = Pool!Lent(s)]
  BY <1>1, <1>5, <1>7, OneMoves
<1>10. s \notin 1 .. made /\ 1 .. made' = (1 .. made) \union {s}
  BY <1>1
<1>11. Pool!Lend(h, s)
  BY <1>1, <1>6, <1>8, <1>9, <1>10 DEF Pool!Lend, poolPlace, poolClean
<1> QED
  BY <1>11

(* A statement that keeps its handle may change what is behind it.         *)
LEMMA UsesHandle ==
  ASSUME IndInv, IndInv', NEW s \in Statements, NEW h \in Handles, statement[s].handle = h,
         \A r \in Statements : statement'[r].handle = statement[r].handle,
         \A g \in Handles \ {h} : native'[g] = native[g],
         UNCHANGED <<made, database>>
  PROVE  Pool!Use(h)
<1>1. PlaceOf(h) = Pool!Lent(s)
  BY Told DEF PlacesTell
<1>2. PlaceOf(h)' = Pool!Lent(s)
  BY ToldNext DEF PlacesTell
<1>3. \A g \in Handles \ {h} : Same(g)
  BY DEF Same, Live, poolClean
<1>4. poolPlace' = poolPlace
  BY <1>1, <1>2, <1>3, OneMoves DEF poolPlace
<1>5. poolClean' \in {poolClean \union {h}, poolClean \ {h}}
  BY <1>3, OneMoves
<1> QED
  BY <1>1, <1>4, <1>5 DEF Pool!Use, poolPlace, poolClean

LEMMA Configures ==
  ASSUME IndInv, IndInv', NEW t \in Threads, NEW s \in Statements, Configure(t, s)
  PROVE  \E h \in Handles : Pool!Use(h)
<1> USE DEF IndInv
<1>1. Valid(s) /\ StillOwner(s) /\ UNCHANGED <<made, database>>
  BY BindKeeps, ResetKeeps, ClearBindingsKeeps DEF Configure, Bind, Reset, ClearBindings, connectionVars
<1>2. PICK h \in Handles : statement[s].handle = h
  BY <1>1, ValidStatement
<1>3. Pool!Use(h)
  <2>1. /\ \A r \in Statements : statement'[r].handle = statement[r].handle
        /\ \A g \in Handles \ {h} : native'[g] = native[g]
    BY <1>1, <1>2 DEF StillOwner
  <2> QED
    BY <1>1, <1>2, <2>1, UsesHandle
<1> QED
  BY <1>3

LEMMA StepUses ==
  ASSUME Assertions, IndInv, IndInv', NEW t \in Threads,
         NEW rc \in {"row", "done", "error", "interrupt"}, StepReturns(t, rc)
  PROVE  \E h \in Handles : Pool!Use(h)
<1> USE DEF IndInv
<1>0. PICK s \in Statements, h \in Handles : s = call[t].st /\ h = call[t].handle
  BY DEF StepReturns, StepOwns, InStep, TypeOK, StatementTypeOK
<1> DEFINE f == [statement[s] EXCEPT !.running = FALSE]
           n == [native[h] EXCEPT !.state = IF rc = "interrupt" THEN "error" ELSE rc]
<1>1. /\ call[t].at = "running"
      /\ statement' = [statement EXCEPT ![s] = f]
      /\ native' = [native EXCEPT ![h] = n]
      /\ UNCHANGED <<made, database>>
  BY <1>0 DEF StepReturns, LeaveStep, connectionVars
<1>2. /\ Live(h)
      /\ statement[s] \in StatementFields
      /\ \A q \in DOMAIN cache : cache[q] # h
      /\ \A r \in Statements : statement[r].handle = h => r = s
  BY <1>0, <1>1 DEF StepOwns, InStep, TypeOK, StatementTypeOK
<1>3. CachedFor(h) = {} /\ PreparedBy(h) = {}
  BY <1>1, <1>2 DEF CachedFor, PreparedBy, CallsAreConfined
<1>4. statement[s].handle = h
  BY <1>2, <1>3 DEF NothingForgotten, HandleNotLost, StatementsOf
<1>5. f.handle = statement[s].handle
  BY <1>2 DEF StatementFields
<1> HIDE DEF f, n
<1>6. /\ \A r \in Statements : statement'[r].handle = statement[r].handle
      /\ \A g \in Handles \ {h} : native'[g] = native[g]
  BY <1>1, <1>2, <1>5 DEF TypeOK, StatementTypeOK
<1>7. Pool!Use(h)
  BY <1>1, <1>2, <1>4, <1>6, UsesHandle
<1> QED
  BY <1>7

(* Wherever a live handle was, it is dropped.                              *)
LEMMA DropsHandle ==
  ASSUME IndInv, IndInv', NEW h \in Handles, Live(h), FinalizeHandle(h),
         \A g \in Handles \ {h} : \A r \in Statements :
           statement'[r].handle = g <=> statement[r].handle = g,
         UNCHANGED <<made, database>>
  PROVE  Pool!Drop(h)
<1> USE DEF IndInv
<1>1. /\ native'[h].state = "finalized"
      /\ \A g \in Handles \ {h} : native'[g] = native[g]
  BY DEF FinalizeHandle, TypeOK, StatementTypeOK, NativeFields
<1>2. \A g \in Handles \ {h} : Same(g)
  BY <1>1 DEF Same, Live, poolClean
<1>3. PlaceOf(h) \notin {Pool!Nowhere, Pool!Gone}
  BY DEF PlaceOf, Live, Pool!Nowhere, Pool!Gone
<1>4. PlaceOf(h)' = Pool!Gone
  BY <1>1, ToldNext DEF PlacesTell
<1>5. h \notin poolClean'
  BY <1>1 DEF poolClean
<1>6. poolPlace' = [poolPlace EXCEPT ![h] = Pool!Gone] /\ poolClean' = poolClean \ {h}
  BY <1>2, <1>4, <1>5, OneMoves
<1> QED
  BY <1>3, <1>6 DEF Pool!Drop, poolPlace, poolClean

LEMMA StatementDrops ==
  ASSUME IndInv, IndInv', NEW s \in Statements, statement[s].handle # None,
         FinalizeStatement(s), UNCHANGED <<made, database>>
  PROVE  \E h \in Handles : Pool!Drop(h)
<1> USE DEF IndInv
<1>0. PICK h \in Handles : h = statement[s].handle
  BY DEF TypeOK, StatementTypeOK, StatementFields
<1>1. Live(h) /\ FinalizeHandle(h)
  BY <1>0 DEF FinalizeStatement, StatementsOwn
<1>2. /\ statement'[s].handle = None
      /\ \A r \in Statements \ {s} : statement'[r] = statement[r]
  BY ClearedStatement DEF FinalizeStatement
<1>3. \A g \in Handles \ {h} : \A r \in Statements :
        statement'[r].handle = g <=> statement[r].handle = g
  BY <1>0, <1>2
<1>4. Pool!Drop(h)
  BY <1>1, <1>3, DropsHandle
<1> QED
  BY <1>4

LEMMA Disposes ==
  ASSUME IndInv, IndInv', NEW t \in Threads, NEW s \in Statements, DisposeStatement(t, s)
  PROVE  \E h \in Handles : Pool!GiveBack(h) \/ Pool!Drop(h)
<1> USE DEF IndInv
<1>1. Valid(s) /\ UNCHANGED <<made, database>>
  BY DEF DisposeStatement, connectionVars
<1>2. PICK h \in Handles : statement[s].handle = h
  BY <1>1, ValidStatement
<1>3. CASE FinalizeStatement(s)
  BY <1>1, <1>2, <1>3, StatementDrops
<1>4. CASE ~FinalizeStatement(s)
  <2> DEFINE reset == IF statement[s].stepped THEN ResetHandle(native[h]) ELSE native[h]
             clean == IF statement[s].hasBindings THEN Unbound(reset) ELSE reset
  <2>1. /\ native' = [native EXCEPT ![h] = clean]
        /\ statement' = [statement EXCEPT ![s] = Cleared(@)]
        /\ cache' = Put(cache, statement[s].sql, h)
    BY <1>2, <1>4 DEF DisposeStatement, CacheStatementHandle
  <2> HIDE DEF reset, clean
  <2>2. \A g \in Handles \ {h} : native'[g] = native[g]
    BY <2>1 DEF TypeOK, StatementTypeOK
  <2>3. /\ statement'[s].handle = None
        /\ \A r \in Statements \ {s} : statement'[r] = statement[r]
    BY <2>1, ClearedStatement
  <2>4. \A g \in Handles \ {h} : Same(g)
    BY <1>2, <2>2, <2>3 DEF Same, Live, poolClean
  <2>5. native'[h].state = "ready" /\ ~native'[h].bound
    <3>1. statement[s].sql \in DOMAIN cache' /\ cache'[statement[s].sql] = h
      BY <2>1 DEF Put
    <3> QED
      BY <3>1, CompiledFields DEF CacheIsClean
  <2>6. PlaceOf(h) = Pool!Lent(s)
    BY <1>2, Told DEF PlacesTell
  <2>7. PlaceOf(h)' = Pool!Pool
    <3>1. \A r \in Statements : statement'[r].handle # h
      BY <1>1, <1>2, <2>3 DEF StatementsOwn
    <3> QED
      BY <2>5, <3>1, ToldNext DEF PlacesTell, Live
  <2>8. poolPlace' = [poolPlace EXCEPT ![h] = Pool!Pool] /\ poolClean' = poolClean \union {h}
    BY <2>4, <2>5, <2>7, OneMoves DEF poolClean
  <2>9. Pool!GiveBack(h)
    BY <1>1, <2>6, <2>8 DEF Pool!GiveBack, poolPlace, poolClean
  <2> QED
    BY <2>9
<1> QED
  BY <1>3, <1>4

LEMMA FinalizesStatement ==
  ASSUME Assertions, IndInv, IndInv', NEW t \in Threads, FinalizeNextStatement(t)
  PROVE  \E h \in Handles : Pool!Drop(h)
<1>1. PICK s \in registry : FinalizeStatement(s)
  BY DEF FinalizeNextStatement
<1>2. s \in Statements /\ statement[s].handle # None
  BY DEF IndInv, NothingForgotten, RegistryIsExact
<1>3. UNCHANGED <<made, database>>
  BY DEF FinalizeNextStatement, connectionVars
<1> QED
  BY <1>1, <1>2, <1>3, StatementDrops

LEMMA FinalizesCached ==
  ASSUME IndInv, IndInv', NEW t \in Threads, FinalizeNextCached(t)
  PROVE  (\E h \in Handles : Pool!Drop(h)) \/ UNCHANGED Pool!vars
<1> USE DEF IndInv
<1>1. PICK q \in DOMAIN cache : FinalizeHandle(cache[q])
  BY DEF FinalizeNextCached
<1>2. UNCHANGED <<statement, made, database>>
  BY DEF FinalizeNextCached, connectionVars
<1>3. CASE cache[q] = None
  BY <1>1, <1>2, <1>3, PoolStutter DEF FinalizeHandle, poolOpen
<1>4. ASSUME NEW h \in Handles, cache[q] = h PROVE Pool!Drop(h)
  <2>1. Live(h)
    BY <1>4, CompiledFields DEF CacheIsClean, Live
  <2> QED
    BY <1>1, <1>2, <1>4, <2>1, DropsHandle
<1> QED
  BY <1>3, <1>4 DEF TypeOK

(***************************************************************************)
(* The other steps.                                                        *)
(***************************************************************************)
(* A statement that is marked, or whose step ends, keeps its handle.       *)
LEMMA MarkedKeeps ==
  ASSUME IndInv, IndInv', NEW t \in Threads,
         RunStep(t) \/ EndStep(t) \/ \E s \in Statements : Cancel(t, s)
  PROVE  UNCHANGED Pool!vars
<1> USE DEF IndInv
<1>1. UNCHANGED <<made, native, database>>
  BY DEF RunStep, EndStep, Cancel, connectionVars
<1>2. \A r \in Statements : statement'[r].handle = statement[r].handle
  <2> SUFFICES ASSUME NEW s \in Statements, NEW f \in StatementFields,
                      f.handle = statement[s].handle,
                      statement' = [statement EXCEPT ![s] = f]
               PROVE  \A r \in Statements : statement'[r].handle = statement[r].handle
    <3>1. \A r \in Statements : statement[r] \in StatementFields
      BY DEF TypeOK, StatementTypeOK
    <3>2. CASE EndStep(t)
      <4> DEFINE s == call[t].st
                 row == CASE call[t].rc = "row" -> TRUE
                          [] call[t].rc = "done" -> FALSE
                          [] OTHER -> statement[s].hasRow
                 f == [statement[s] EXCEPT !.stepped = TRUE, !.hasRow = row]
      <4>1. s \in Statements /\ statement' = [statement EXCEPT ![s] = f]
        <5>1. s \in Statements
          BY <3>2 DEF EndStep, StepOwns, InStep, TypeOK, StatementTypeOK
        <5>2. statement[s] \in StatementFields
          BY <3>1, <5>1
        <5> QED
          BY <3>2, <5>1, <5>2 DEF EndStep, StepResult, StatementFields, TypeOK, StatementTypeOK
      <4>2. row \in BOOLEAN
        BY <3>1, <4>1 DEF StatementFields
      <4> HIDE DEF row
      <4>3. f \in StatementFields /\ f.handle = statement[s].handle
        BY <3>1, <4>1, <4>2 DEF StatementFields
      <4> QED
        BY <4>1, <4>3
    <3>3. CASE RunStep(t)
      BY <3>1, <3>3, SMTT(60) DEF RunStep, EnterStep, StepOwns, InStep, StatementFields, TypeOK, StatementTypeOK
    <3>4. ASSUME NEW s \in Statements, Cancel(t, s)
          PROVE  \A r \in Statements : statement'[r].handle = statement[r].handle
      BY <3>1, <3>4 DEF Cancel, MarkCancelled, StatementFields, TypeOK, StatementTypeOK
    <3> QED
      BY <3>2, <3>3, <3>4
  <2> QED
    BY DEF TypeOK, StatementTypeOK
<1> QED
  BY <1>1, <1>2, PoolStutter DEF poolOpen

LEMMA OthersStutter ==
  ASSUME IndInv, IndInv', NEW t \in Threads,
         UNCHANGED <<statementVars, database>>
  PROVE  UNCHANGED Pool!vars
BY PoolStutter DEF statementVars, poolOpen

LEMMA PoolStep ==
  ASSUME Assertions, IndInv, IndInv', Next
  PROVE  Pool!Next \/ UNCHANGED Pool!vars
<1>1. PICK t \in Threads : Begin(t) \/ Continue(t) \/ Finish(t)
  BY DEF Next
<1>2. CASE Begin(t)
  <2>1. CASE Open(t) \/ Dispose(t) \/ Exec(t)
    BY <2>1, OthersStutter DEF Open, Dispose, Exec, connectionVars
  <2>2. ASSUME NEW q \in SQLs, NEW cached \in BOOLEAN, Prepare(t, q, cached)
        PROVE  UNCHANGED Pool!vars
    BY <2>2, OthersStutter DEF Prepare, connectionVars
  <2>3. ASSUME NEW s \in Statements, Step(t, s) \/ Load(t, s) PROVE UNCHANGED Pool!vars
    BY <2>3, OthersStutter DEF Step, Load, StartStep, connectionVars
  <2>4. ASSUME NEW s \in Statements, Cancel(t, s) PROVE UNCHANGED Pool!vars
    BY <2>4, MarkedKeeps
  <2>5. ASSUME NEW s \in Statements, Configure(t, s) PROVE Pool!Next
    BY <2>5, Configures DEF Pool!Next
  <2>6. ASSUME NEW s \in Statements, DisposeStatement(t, s) PROVE Pool!Next
    BY <2>6, Disposes DEF Pool!Next
  <2>7. ASSUME NEW s \in Statements PROVE ~DisposeStatementElsewhere(t, s)
    BY DEF DisposeStatementElsewhere
  <2> QED
    BY <1>2, <2>1, <2>2, <2>3, <2>4, <2>5, <2>6, <2>7 DEF Begin
<1>3. CASE Continue(t)
  <2>1. CASE OpenSucceeds(t)
    BY <2>1, Opens DEF Pool!Next
  <2>2. CASE OpenFails(t) \/ Throw(t) \/ RefuseStep(t) \/ EndExec(t) \/ CancelHandler(t)
    BY <2>2, OthersStutter DEF OpenFails, Throw, RefuseStep, EndExec, CancelHandler, connectionVars
  <2>3. CASE \/ CompileFails(t, "error") \/ CompileFails(t, "interrupt")
             \/ ExecReturns(t, "interrupt") \/ DisposeHandler(t)
    BY <2>3, OthersStutter DEF CompileFails, ExecReturns, DisposeHandler, connectionVars
  <2>4. CASE Compile(t)
    BY <2>4, Compiles DEF Pool!Next
  <2>5. CASE Instantiate(t)
    BY <2>5, Lends DEF Pool!Next
  <2>6. CASE RunStep(t) \/ EndStep(t)
    BY <2>6, MarkedKeeps
  <2>7. CASE StepReturns(t, "interrupt")
    BY <2>7, StepUses DEF Pool!Next
  <2>8. CASE FinalizeNextStatement(t)
    BY <2>8, FinalizesStatement DEF Pool!Next
  <2>9. CASE FinalizeNextCached(t)
    BY <2>9, FinalizesCached DEF Pool!Next
  <2>10. CASE Close(t)
    BY <2>10, Closes DEF Pool!Next
  <2> QED
    BY <1>3, <2>1, <2>2, <2>3, <2>4, <2>5, <2>6, <2>7, <2>8, <2>9, <2>10 DEF Continue
<1>4. CASE Finish(t)
  <2>1. ASSUME NEW rc \in {"row", "done", "error"}, StepReturns(t, rc) PROVE Pool!Next
    BY <2>1, StepUses DEF Pool!Next
  <2>2. ASSUME NEW rc \in {"done", "error"}, ExecReturns(t, rc) PROVE UNCHANGED Pool!vars
    BY <2>2, OthersStutter DEF ExecReturns, connectionVars
  <2> QED
    BY <1>4, <2>1, <2>2 DEF Finish
<1> QED
  BY <1>1, <1>2, <1>3, <1>4

LEMMA PoolUnchanged == UNCHANGED vars => UNCHANGED Pool!vars
BY DEF vars, connectionVars, statementVars, Pool!vars, PlaceOf, StatementsOf

(* With assertions, a connection keeps the promise of StatementPool: every *)
(* handle is lent to one statement at a time, is given back clean before   *)
(* it is lent again, and is gone when the database is closed.              *)
THEOREM PoolImplemented == ASSUME Assertions PROVE Spec => ImplementsPool
<1>1. IndInv /\ IndInv' /\ [Next]_vars => [Pool!Next]_(Pool!vars)
  BY PoolStep, PoolUnchanged
<1>2. ImplementsPool <=> Pool!Init /\ [][Pool!Next]_(Pool!vars)
  BY DEF ImplementsPool, Pool!Spec
<1> QED
  BY <1>1, <1>2, PoolInit, Invariance, PTL DEF Spec
==============================================================================
