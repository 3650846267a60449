----------------------- MODULE SQLiteConnection_proofs -----------------------
(***************************************************************************)
(* Proofs about SQLiteConnection for all SQL texts and threads, any number *)
(* of statements, with and without assertions.                             *)
(*                                                                         *)
(* Most steps leave open who has each handle: OwnersKept carries the       *)
(* conjuncts of IndInv that say so over all of them. The others prepare a  *)
(* statement or release a handle, and nobody else is in a call then.       *)
(***************************************************************************)
EXTENDS SQLiteConnection, TLAPS

USE StatementAssumption, ConnectionAssumption DEF Statements, Handles, None, Idle

(***************************************************************************)
(* The helpers of the model.                                               *)
(***************************************************************************)
LEMMA CallTypes ==
  \A p \in Places : /\ At(p) \in Calls /\ At(p).at = p
BY DEF At, Calls, ResultCodes

LEMMA Moves ==
  ASSUME TypeOK, NEW t \in Threads, NEW p \in Places, Goto(t, p)
  PROVE  /\ call' \in [Threads -> Calls]
         /\ call'[t] = At(p)
         /\ \A u \in Threads \ {t} : call'[u] = call[u]
BY CallTypes DEF Goto, TypeOK

LEMMA Clears == ASSUME NEW f \in StatementFields
  PROVE  /\ Cleared(f) \in StatementFields
         /\ Cleared(f).handle = None /\ Cleared(f).controller = "disposed"
         /\ Cleared(f).sql = f.sql
BY DEF Cleared, StatementFields, Controllers

LEMMA ClearsStatement ==
  ASSUME StatementTypeOK, NEW s \in Statements,
         statement' = [statement EXCEPT ![s] = Cleared(@)]
  PROVE  /\ statement' \in [Statements -> StatementFields]
         /\ statement'[s] = Cleared(statement[s])
         /\ \A r \in Statements \ {s} : statement'[r] = statement[r]
<1>1. statement[s] \in StatementFields BY DEF StatementTypeOK
<1> QED BY <1>1, Clears DEF StatementTypeOK

(***************************************************************************)
(* Steps after which every handle is where it was.                         *)
(***************************************************************************)
(* Only the owner of a handle, or the step that runs on it, has used it.   *)
OwnersUnchanged(t) ==
  /\ UNCHANGED <<made, cache, registry>>
  /\ \A s \in Statements :
       /\ statement'[s].handle = statement[s].handle
       /\ statement'[s].sql = statement[s].sql
       /\ statement'[s].controller = statement[s].controller
       /\ s > made => statement'[s] = statement[s]
  /\ \A h \in Handles :
       /\ native'[h].sql = native[h].sql
       /\ Live(h)' <=> Live(h)
       /\ native'[h].state = "none" <=> native[h].state = "none"
       /\ native'[h] # native[h] =>
            \/ \E s \in Statements : statement[s].handle = h
            \/ call[t].at = "running" /\ call[t].handle = h

(* Thread t neither begins nor ends to prepare a statement, and begins a   *)
(* step() with the handle of a statement that has one.                     *)
CallUnchanged(t) ==
  /\ \A u \in Threads \ {t} : call'[u] = call[u]
  /\ \/ call'[t] = call[t]
     \/ /\ call[t].at # "prepared"
        /\ call'[t].at \notin {"compiling", "prepared"}
        /\ call'[t].at \in InStep =>
             \/ /\ call[t].at \in InStep
                /\ call'[t].st = call[t].st
                /\ call'[t].handle = call[t].handle
                /\ call'[t].at = "stepped" => call'[t].rc # "none"
             \/ /\ call'[t].at = "starting"
                /\ \E s \in Statements : /\ Valid(s)
                                         /\ call'[t].st = s
                                         /\ call'[t].handle = statement[s].handle

LEMMA ValidStatement ==
  ASSUME TypeOK, StatementsOwn, NEW s \in Statements, Valid(s)
  PROVE  /\ s <= made
         /\ statement[s] \in StatementFields
         /\ statement[s].handle \in Handles
         /\ native[statement[s].handle] \in NativeFields
         /\ native[statement[s].handle].state \notin {"none", "finalized"}
<1>1. statement[s] \in StatementFields
  BY DEF TypeOK, StatementTypeOK
<1>2. statement[s].handle \in Handles
  BY <1>1 DEF StatementsOwn, StatementFields
<1>3. s <= made
  BY DEF StatementsOwn, Valid, Blank, TypeOK, StatementTypeOK
<1> QED
  BY <1>1, <1>2, <1>3 DEF StatementsOwn, TypeOK, StatementTypeOK, Live

LEMMA OwnersKept ==
  ASSUME TypeOK, TypeOK', CallsAreConfined, StatementsOwn, CacheOwns, CacheIsClean, PrepareOwns,
         StepOwns, NEW t \in Threads, OwnersUnchanged(t), CallUnchanged(t)
  PROVE  /\ StatementsOwn' /\ CacheOwns' /\ CacheIsClean'
         /\ PrepareOwns' /\ StepOwns'
<1>1. StatementsOwn'
  <2> SUFFICES ASSUME NEW s \in Statements
               PROVE  /\ s > made => statement'[s] = Blank /\ s \notin registry
                      /\ s <= made => statement'[s].controller # "none"
                      /\ Valid(s)' <=> statement'[s].handle # None
                      /\ Valid(s)' =>
                           /\ Live(statement[s].handle)'
                           /\ statement'[s].sql = native'[statement'[s].handle].sql
                           /\ statement'[s].sql \in SQLs
                      /\ \A r \in Statements :
                           Valid(s)' /\ statement'[r].handle = statement'[s].handle => r = s
    BY DEF StatementsOwn, OwnersUnchanged
  <2>1. statement[s].handle \in Handles \union {None}
    BY DEF TypeOK, StatementTypeOK, StatementFields
  <2>2. Valid(s)' <=> Valid(s)
    BY DEF Valid, OwnersUnchanged
  <2>3. Valid(s) => Live(statement[s].handle)'
    BY <2>1 DEF StatementsOwn, OwnersUnchanged
  <2> QED
    BY <2>1, <2>2, <2>3 DEF StatementsOwn, OwnersUnchanged
<1>2. CacheOwns'
  BY DEF CacheOwns, OwnersUnchanged
<1>3. CacheIsClean'
  <2> SUFFICES ASSUME NEW q \in DOMAIN cache, cache[q] # None
               PROVE  native'[cache[q]] = Compiled(q)
    BY DEF CacheIsClean, OwnersUnchanged, Compiled
  <2>1. cache[q] \in Handles
    BY DEF TypeOK
  <2>2. native'[cache[q]] = native[cache[q]]
    BY <2>1 DEF OwnersUnchanged, CacheOwns, StepOwns, InStep
  <2> QED
    BY <2>2 DEF CacheIsClean
<1>4. PrepareOwns'
  <2>1. ASSUME NEW u \in Threads, call'[u].at \in {"compiling", "prepared"}
        PROVE  call'[u] = call[u]
    BY <2>1 DEF CallUnchanged
  <2>2. ASSUME NEW u \in Threads, call[u].at = "prepared"
        PROVE  call'[u] = call[u]
    BY <2>2 DEF CallUnchanged
  <2>3. ASSUME NEW u \in Threads, call'[u].at = "prepared"
        PROVE  native'[call[u].handle] = native[call[u].handle]
    <3>1. call[u].handle \in Handles /\ call[u].at = "prepared"
      BY <2>1, <2>3 DEF PrepareOwns, TypeOK, StatementTypeOK
    <3>2. ~(call[t].at = "running" /\ call[t].handle = call[u].handle)
      BY <3>1 DEF CallsAreConfined
    <3> QED
      BY <3>1, <3>2 DEF OwnersUnchanged, PrepareOwns
  <2> QED
    BY <2>1, <2>2, <2>3 DEF PrepareOwns, OwnersUnchanged, Compiled
<1>5. StepOwns'
  <2> SUFFICES ASSUME NEW u \in Threads, call'[u].at \in InStep
               PROVE  /\ call'[u].st \in 1 .. made'
                      /\ call'[u].handle \in Handles /\ Live(call[u].handle)'
                      /\ statement'[call'[u].st].handle \in {call'[u].handle, None}
                      /\ \A s \in Statements :
                           statement'[s].handle = call'[u].handle => s = call'[u].st
                      /\ \A q \in DOMAIN cache' : cache'[q] # call'[u].handle
                      /\ call'[u].at = "stepped" => call'[u].rc # "none"
    BY DEF StepOwns
  <2>1. CASE /\ call[u].at \in InStep
             /\ call'[u].st = call[u].st
             /\ call'[u].handle = call[u].handle
             /\ call'[u].at = "stepped" => call'[u].rc # "none"
    <3>1. call[u].st \in Statements
      BY <2>1 DEF StepOwns, TypeOK, StatementTypeOK
    <3> QED
      BY <2>1, <3>1 DEF StepOwns, OwnersUnchanged
  <2>2. ASSUME call'[u].at = "starting",
               NEW s \in Statements, Valid(s), call'[u].st = s,
               call'[u].handle = statement[s].handle
        PROVE  /\ s \in 1 .. made
               /\ statement[s].handle \in Handles /\ Live(statement[s].handle)
               /\ \A r \in Statements : statement[r].handle = statement[s].handle => r = s
               /\ \A q \in DOMAIN cache : cache[q] # statement[s].handle
    BY <2>2, ValidStatement DEF StatementsOwn, CacheOwns, Live
  <2>3. u = t \/ call'[u] = call[u]
    BY DEF CallUnchanged
  <2> QED
    BY <2>1, <2>2, <2>3 DEF CallUnchanged, OwnersUnchanged, StepOwns, InStep
<1> QED
  BY <1>1, <1>2, <1>3, <1>4, <1>5

LEMMA NothingForgottenKept ==
  ASSUME TypeOK, NothingForgotten, NEW t \in Threads, OwnersUnchanged(t),
         CallUnchanged(t), database' = "busy" => database = "busy"
  PROVE  NothingForgotten'
<1>1. HandleNotLost => HandleNotLost'
  <2> SUFFICES ASSUME HandleNotLost, NEW h \in Handles, Live(h)'
               PROVE  StatementsOf(h)' # {} \/ CachedFor(h)' # {} \/ PreparedBy(h)' # {}
    BY DEF HandleNotLost
  <2>1. StatementsOf(h)' = StatementsOf(h) /\ CachedFor(h)' = CachedFor(h)
    BY DEF StatementsOf, CachedFor, OwnersUnchanged
  <2>2. PreparedBy(h)' = PreparedBy(h)
    BY DEF PreparedBy, CallUnchanged
  <2> QED
    BY <2>1, <2>2 DEF HandleNotLost, OwnersUnchanged
<1>2. RegistryIsExact => RegistryIsExact'
  BY DEF RegistryIsExact, OwnersUnchanged
<1>3. ClosesCleanly => ClosesCleanly'
  BY DEF ClosesCleanly
<1> QED
  BY <1>1, <1>2, <1>3 DEF NothingForgotten

LEMMA FlagsKept ==
  ASSUME TypeOK, TypeOK', FlagsTellUse, NEW t \in Threads, OwnersUnchanged(t), CallUnchanged(t),
         call[t].at # "stepped" \/ call'[t] = call[t],
         UNCHANGED native,
         \A s \in Statements : /\ statement'[s].hasBindings = statement[s].hasBindings
                               /\ statement'[s].stepped = statement[s].stepped
  PROVE  FlagsTellUse'
<1>1. \A u \in Threads : call[u].at = "stepped" => call'[u] = call[u]
  BY DEF CallUnchanged
<1> QED
  BY <1>1 DEF FlagsTellUse, OwnersUnchanged, Valid

(***************************************************************************)
(* Steps that touch neither statements nor handles nor the cache.          *)
(***************************************************************************)
LEMMA QuietStep ==
  ASSUME IndInv, TypeOK', Lifecycle', CallsAreConfined', CancelWritesOwnedMemory',
         NEW t \in Threads, CallUnchanged(t),
         call[t].at # "stepped" \/ UNCHANGED call,
         UNCHANGED <<statement, made, native, registry, cache>>,
         database' = "busy" => database = "busy"
  PROVE  IndInv'
<1>1. OwnersUnchanged(t)
  BY DEF OwnersUnchanged, Live
<1>2. StatementsOwn' /\ CacheOwns' /\ CacheIsClean' /\ PrepareOwns' /\ StepOwns'
  BY <1>1, OwnersKept DEF IndInv
<1>3. FlagsTellUse'
  BY <1>1, FlagsKept DEF IndInv
<1>4. NothingForgotten'
  BY <1>1, NothingForgottenKept DEF IndInv
<1> QED
  BY <1>2, <1>3, <1>4 DEF IndInv

LEMMA OnlyMoves ==
  ASSUME IndInv, NEW t \in Threads,
         UNCHANGED <<connectionVars, statementVars, handler, progressMemory, registry, cache>>,
         cancelFlag' \in BOOLEAN,
         call' \in [Threads -> Calls],
         \A u \in Threads \ {t} : call'[u] = call[u],
         call[t].at \notin {"prepared", "stepped"},
         \/ call'[t].at = "idle"
         \/ call[t].at \in InUse /\ call'[t].at \in {"throwing", "executed"}
  PROVE  IndInv'
<1> USE DEF IndInv, connectionVars, statementVars
<1>1. TypeOK'
  BY DEF TypeOK, StatementTypeOK
<1>2. Lifecycle'
  BY DEF Lifecycle, InUse, Live
<1>3. CallsAreConfined' /\ CancelWritesOwnedMemory'
  BY DEF CallsAreConfined, CancelWritesOwnedMemory, InUse
<1>4. CallUnchanged(t)
  BY DEF CallUnchanged, InStep
<1> QED
  BY <1>1, <1>2, <1>3, <1>4, QuietStep

(* Returns and exceptions.                                                 *)
LEMMA ReturnStep ==
  ASSUME IndInv, NEW t \in Threads,
         OpenFails(t) \/ Throw(t) \/ RefuseStep(t) \/ EndExec(t) \/ CancelHandler(t)
  PROVE  IndInv'
<1>1. /\ Goto(t, "idle")
      /\ call[t].at \in {"opening", "throwing", "starting", "executed", "cancelling"}
      /\ UNCHANGED <<connectionVars, statementVars, handler, progressMemory, registry, cache>>
  BY DEF OpenFails, Throw, RefuseStep, EndExec, CancelHandler, Return, handlerVars
<1>2. cancelFlag' \in BOOLEAN
  BY DEF OpenFails, Throw, RefuseStep, EndExec, CancelHandler, LowerCancelFlag, RaiseCancelFlag,
         handlerVars, IndInv, TypeOK, StatementTypeOK
<1>3. /\ call' \in [Threads -> Calls]
      /\ call'[t].at = "idle"
      /\ \A u \in Threads \ {t} : call'[u] = call[u]
  BY <1>1, Moves DEF IndInv, Places, At
<1> QED
  BY <1>1, <1>2, <1>3, OnlyMoves

LEMMA CompileFailsStep ==
  ASSUME IndInv, NEW t \in Threads, NEW rc \in {"error", "interrupt"}, CompileFails(t, rc)
  PROVE  IndInv'
<1>1. /\ call' \in [Threads -> Calls]
      /\ call'[t].at = "throwing"
      /\ \A u \in Threads \ {t} : call'[u] = call[u]
  BY DEF CompileFails, At, Calls, Places, ResultCodes, IndInv, TypeOK
<1> QED
  BY <1>1, OnlyMoves DEF CompileFails, InUse, handlerVars, IndInv, TypeOK, StatementTypeOK

LEMMA ExecReturnsStep ==
  ASSUME IndInv, NEW t \in Threads, NEW rc \in {"done", "error", "interrupt"}, ExecReturns(t, rc)
  PROVE  IndInv'
<1>1. [call[t] EXCEPT !.at = "executed", !.rc = rc] \in Calls
  BY ZenonT(60) DEF Calls, Places, ResultCodes, IndInv, TypeOK
<1>2. /\ call' \in [Threads -> Calls]
      /\ call'[t].at = "executed"
      /\ \A u \in Threads \ {t} : call'[u] = call[u]
  BY <1>1 DEF ExecReturns, Calls, IndInv, TypeOK
<1> QED
  BY <1>2, OnlyMoves DEF ExecReturns, InUse, handlerVars, IndInv, TypeOK, StatementTypeOK

LEMMA OpenStep ==
  ASSUME IndInv, NEW t \in Threads, Open(t)
  PROVE  IndInv'
<1> USE DEF IndInv, Open, connectionVars
<1>1. /\ call' \in [Threads -> Calls]
      /\ call'[t].at = "opening"
      /\ \A u \in Threads \ {t} : call'[u] = call[u]
  BY Moves DEF Places, At
<1>2. TypeOK'
  BY <1>1 DEF TypeOK, StatementTypeOK, statementVars, handlerVars
<1>3. Lifecycle'
  BY <1>1 DEF Lifecycle, InUse, Live, TypeOK, statementVars, handlerVars
<1>4. CallsAreConfined' /\ CancelWritesOwnedMemory'
  BY <1>1 DEF CallsAreConfined, CancelWritesOwnedMemory, handlerVars
<1>5. CallUnchanged(t)
  BY <1>1 DEF CallUnchanged, InStep
<1> QED
  BY <1>2, <1>3, <1>4, <1>5, QuietStep DEF statementVars

LEMMA OpenSucceedsStep ==
  ASSUME IndInv, NEW t \in Threads, OpenSucceeds(t)
  PROVE  IndInv'
<1> USE DEF IndInv, OpenSucceeds
<1>1. /\ call' \in [Threads -> Calls]
      /\ call'[t].at = "idle"
      /\ \A u \in Threads \ {t} : call'[u] = call[u]
  BY Moves DEF Return, Places, At
<1>2. TypeOK'
  BY <1>1 DEF TypeOK, StatementTypeOK, statementVars, handlerVars
<1>3. \A u \in Threads \ {t} : call[u].at \in {"idle", "cancelling"}
  BY DEF CallsAreConfined
<1>4. Lifecycle'
  BY <1>1, <1>3 DEF Lifecycle, CallsAreConfined, InUse
<1>5. CallsAreConfined' /\ CancelWritesOwnedMemory'
  BY <1>1 DEF CallsAreConfined, CancelWritesOwnedMemory, handlerVars
<1>6. CallUnchanged(t)
  BY <1>1 DEF CallUnchanged, InStep
<1> QED
  BY <1>2, <1>4, <1>5, <1>6, QuietStep DEF statementVars

LEMMA ExecStep ==
  ASSUME IndInv, NEW t \in Threads, Exec(t)
  PROVE  IndInv'
<1> USE DEF IndInv, Exec, Usable, Confined, connectionVars
<1>1. /\ call' \in [Threads -> Calls]
      /\ call'[t].at = "executing"
      /\ \A u \in Threads \ {t} : call'[u] = call[u]
  BY Moves DEF Places, At
<1>2. TypeOK'
  BY <1>1 DEF TypeOK, StatementTypeOK, FreshProgressHandler, statementVars
<1>3. Lifecycle'
  BY <1>1 DEF Lifecycle, InUse, Live, statementVars
<1>4. CallsAreConfined' /\ CancelWritesOwnedMemory'
  BY <1>1 DEF CallsAreConfined, CancelWritesOwnedMemory, FreshProgressHandler
<1>5. CallUnchanged(t)
  BY <1>1 DEF CallUnchanged, InStep
<1> QED
  BY <1>2, <1>3, <1>4, <1>5, QuietStep DEF statementVars

LEMMA DisposeHandlerStep ==
  ASSUME IndInv, NEW t \in Threads, DisposeHandler(t)
  PROVE  IndInv'
<1> USE DEF IndInv, DisposeHandler, connectionVars
<1>1. /\ call' \in [Threads -> Calls]
      /\ call'[t].at = "closing"
      /\ \A u \in Threads \ {t} : call'[u] = call[u]
  BY Moves DEF Places, At
<1>2. TypeOK'
  BY <1>1 DEF TypeOK, StatementTypeOK, statementVars
<1>3. \A u \in Threads \ {t} : call[u].at \in {"idle", "cancelling"}
  BY DEF CallsAreConfined
<1>4. Lifecycle'
  BY <1>1, <1>3 DEF Lifecycle, InUse, Live, statementVars
<1>5. CallsAreConfined' /\ CancelWritesOwnedMemory'
  BY <1>1 DEF CallsAreConfined, CancelWritesOwnedMemory
<1>6. CallUnchanged(t)
  BY <1>1 DEF CallUnchanged, InStep
<1> QED
  BY <1>2, <1>4, <1>5, <1>6, QuietStep DEF statementVars

(***************************************************************************)
(* Methods of one statement: bind, reset, clearBindings.                   *)
(***************************************************************************)
(* A statement was changed and is still the owner of its handle.           *)
StillOwner(s) ==
  LET h == statement[s].handle IN
  /\ statement' \in [Statements -> StatementFields]
  /\ native' \in [Handles -> NativeFields]
  /\ \A r \in Statements \ {s} : statement'[r] = statement[r]
  /\ \A g \in Handles \ {h} : native'[g] = native[g]
  /\ statement'[s].handle = h
  /\ statement'[s].sql = statement[s].sql
  /\ statement'[s].controller = statement[s].controller
  /\ native'[h].sql = native[h].sql
  /\ native'[h].state \notin {"none", "finalized"}

(* Its flags miss nothing that they did not miss before.                   *)
FlagsStillTell(s) ==
  LET h == statement[s].handle IN
  /\ ~statement'[s].hasBindings /\ native'[h].bound =>
       ~statement[s].hasBindings /\ native[h].bound
  /\ ~statement'[s].stepped /\ native'[h].state # "ready" =>
       ~statement[s].stepped /\ native[h].state # "ready"

LEMMA BindKeeps ==
  ASSUME TypeOK, StatementsOwn, NEW s \in Statements, Valid(s), Bind(s)
  PROVE  StillOwner(s) /\ FlagsStillTell(s)
<1> DEFINE h == statement[s].handle
<1>1. /\ [statement[s] EXCEPT !.hasBindings = TRUE] \in StatementFields
      /\ [native[h] EXCEPT !.bound = TRUE] \in NativeFields
  BY ValidStatement DEF StatementFields, NativeFields
<1>2. /\ statement' = [statement EXCEPT ![s] = [statement[s] EXCEPT !.hasBindings = TRUE]]
      /\ native' = [native EXCEPT ![h] = [native[h] EXCEPT !.bound = TRUE]]
      /\ native[h].state = "ready"
  BY DEF Bind
<1> QED
  BY <1>1, <1>2, ValidStatement
     DEF TypeOK, StatementTypeOK, StatementFields, NativeFields, StillOwner, FlagsStillTell

LEMMA ResetKeeps ==
  ASSUME TypeOK, StatementsOwn, NEW s \in Statements, Valid(s),
         NEW clear \in BOOLEAN, Reset(s, clear)
  PROVE  StillOwner(s) /\ FlagsStillTell(s)
<1> DEFINE h == statement[s].handle
           reset == IF statement[s].stepped THEN ResetHandle(native[h]) ELSE native[h]
           n == IF clear /\ statement[s].hasBindings THEN Unbound(reset) ELSE reset
           f == [statement[s] EXCEPT !.hasRow = FALSE, !.stepped = FALSE,
                   !.hasBindings = @ /\ ~(clear /\ statement[s].hasBindings),
                   !.cancelled = FALSE]
<1>1. /\ reset \in NativeFields
      /\ reset.sql = native[h].sql /\ reset.bound = native[h].bound
      /\ reset.state = IF statement[s].stepped THEN "ready" ELSE native[h].state
  BY ValidStatement DEF NativeFields, NativeStates, ResetHandle
<1>2. /\ n \in NativeFields
      /\ n.sql = native[h].sql /\ n.state = reset.state
      /\ (n.bound => native[h].bound /\ ~(clear /\ statement[s].hasBindings))
  BY <1>1, ValidStatement DEF NativeFields, Unbound
<1>3. statement[s] \in StatementFields /\ h \in Handles /\ native[h] \in NativeFields
  BY ValidStatement
<1>4. /\ f \in StatementFields
      /\ f.handle = h /\ f.sql = statement[s].sql
      /\ f.controller = statement[s].controller /\ ~f.stepped
      /\ f.hasBindings = (statement[s].hasBindings /\ ~(clear /\ statement[s].hasBindings))
  BY <1>3 DEF StatementFields
<1>5. native' = [native EXCEPT ![h] = n]
  BY DEF Reset
<1>6. statement' = [statement EXCEPT ![s] = f]
  BY <1>3 DEF Reset, TypeOK, StatementTypeOK, StatementFields
<1> HIDE DEF n, f, reset
<1>7. statement'[s] = f /\ \A r \in Statements \ {s} : statement'[r] = statement[r]
  BY <1>6 DEF TypeOK, StatementTypeOK
<1>8. native'[h] = n /\ \A g \in Handles \ {h} : native'[g] = native[g]
  BY <1>3, <1>5 DEF TypeOK, StatementTypeOK
<1>9. statement' \in [Statements -> StatementFields] /\ native' \in [Handles -> NativeFields]
  BY <1>2, <1>3, <1>4, <1>5, <1>6 DEF TypeOK, StatementTypeOK
<1>10. native[h].state \notin {"none", "finalized"}
  BY ValidStatement
<1>11. StillOwner(s)
  BY <1>1, <1>2, <1>4, <1>7, <1>8, <1>9, <1>10 DEF StillOwner
<1>12. FlagsStillTell(s)
  BY <1>1, <1>2, <1>4, <1>7, <1>8 DEF FlagsStillTell
<1> QED
  BY <1>11, <1>12

LEMMA ClearBindingsKeeps ==
  ASSUME TypeOK, StatementsOwn, NEW s \in Statements, Valid(s), ClearBindings(s)
  PROVE  StillOwner(s) /\ FlagsStillTell(s)
<1> DEFINE h == statement[s].handle
           n == IF statement[s].hasBindings THEN Unbound(native[h]) ELSE native[h]
<1>1. /\ [statement[s] EXCEPT !.hasBindings = FALSE] \in StatementFields
      /\ n \in NativeFields
      /\ n.sql = native[h].sql /\ n.state = native[h].state
      /\ (n.bound => native[h].bound /\ ~statement[s].hasBindings)
  BY ValidStatement DEF StatementFields, NativeFields, Unbound
<1>2. statement[s] \in StatementFields /\ h \in Handles
  BY ValidStatement
<1>3. native' = [native EXCEPT ![h] = n]
  BY DEF ClearBindings
<1> HIDE DEF n
<1>4. native'[h] = n /\ \A g \in Handles \ {h} : native'[g] = native[g]
  BY <1>2, <1>3 DEF TypeOK, StatementTypeOK
<1>5. native' \in [Handles -> NativeFields]
  BY <1>1, <1>2, <1>3 DEF TypeOK, StatementTypeOK
<1>6. statement' = [statement EXCEPT ![s] = [statement[s] EXCEPT !.hasBindings = FALSE]]
  BY DEF ClearBindings
<1>7. /\ statement' \in [Statements -> StatementFields]
      /\ statement'[s] = [statement[s] EXCEPT !.hasBindings = FALSE]
      /\ \A r \in Statements \ {s} : statement'[r] = statement[r]
  BY <1>1, <1>6 DEF TypeOK, StatementTypeOK
<1>8. /\ statement'[s].handle = h /\ statement'[s].sql = statement[s].sql
      /\ statement'[s].controller = statement[s].controller
      /\ statement'[s].stepped = statement[s].stepped /\ ~statement'[s].hasBindings
  BY <1>2, <1>7 DEF StatementFields
<1>9. native[h].state \notin {"none", "finalized"}
  BY ValidStatement
<1>10. StillOwner(s)
  BY <1>1, <1>4, <1>5, <1>7, <1>8, <1>9 DEF StillOwner
<1>11. FlagsStillTell(s)
  BY <1>1, <1>4, <1>8 DEF FlagsStillTell
<1> QED
  BY <1>10, <1>11

LEMMA ConfigureStep ==
  ASSUME IndInv, NEW t \in Threads, NEW s \in Statements, Configure(t, s)
  PROVE  IndInv'
<1> USE DEF IndInv
<1> DEFINE h == statement[s].handle
<1>1. StillOwner(s) /\ FlagsStillTell(s)
  BY BindKeeps, ResetKeeps, ClearBindingsKeeps DEF Configure
<1>2. /\ UNCHANGED <<made, confinement, opened, disposed, database, handler,
                      progressMemory, cancelFlag, registry, cache, call>>
      /\ Valid(s)
  BY DEF Configure, Bind, Reset, ClearBindings, connectionVars, handlerVars
<1>3. TypeOK'
  BY <1>1, <1>2 DEF TypeOK, StatementTypeOK, StillOwner
<1>4. \A g \in Handles : Live(g)' <=> Live(g)
  BY <1>1, <1>2, ValidStatement DEF Live, StillOwner
<1>5. Lifecycle'
  BY <1>2, <1>4 DEF Lifecycle
<1>6. CallsAreConfined' /\ CancelWritesOwnedMemory'
  BY <1>2 DEF CallsAreConfined, CancelWritesOwnedMemory
<1>7. OwnersUnchanged(t)
  <2>1. s <= made /\ native[h].state \notin {"none", "finalized"}
    BY <1>2, ValidStatement
  <2>2. \A r \in Statements : /\ statement'[r].handle = statement[r].handle
                              /\ statement'[r].sql = statement[r].sql
                              /\ statement'[r].controller = statement[r].controller
                              /\ r > made => statement'[r] = statement[r]
    BY <1>1, <2>1 DEF StillOwner, TypeOK, StatementTypeOK
  <2>3. \A g \in Handles : /\ native'[g].sql = native[g].sql
                           /\ native'[g].state = "none" <=> native[g].state = "none"
                           /\ native'[g] # native[g] => g = h
    BY <1>1, <2>1 DEF StillOwner
  <2> QED
    BY <1>2, <1>4, <2>2, <2>3 DEF OwnersUnchanged
<1>8. CallUnchanged(t)
  BY <1>2 DEF CallUnchanged
<1>9. FlagsTellUse'
  <2> SUFFICES ASSUME NEW r \in Statements, Valid(r)'
               PROVE  /\ ~statement'[r].hasBindings => ~native'[statement[r].handle].bound
                      /\ ~statement'[r].stepped /\ native'[statement[r].handle].state # "ready" =>
                           \E u \in Threads : call[u].at = "stepped" /\ call[u].st = r
    BY <1>2, <1>7 DEF FlagsTellUse, OwnersUnchanged
  <2>1. Valid(r)
    BY <1>7 DEF OwnersUnchanged, Valid
  <2>2. CASE r = s
    BY <1>1, <2>1, <2>2 DEF StillOwner, FlagsStillTell, FlagsTellUse
  <2>3. CASE r # s
    <3>1. statement'[r] = statement[r]
      BY <1>1, <2>3 DEF StillOwner
    <3>2. statement[r].handle \in Handles \ {h}
      BY <1>2, <2>1, <2>3, ValidStatement DEF StatementsOwn
    <3> QED
      BY <1>1, <2>1, <3>1, <3>2 DEF StillOwner, FlagsTellUse
  <2> QED
    BY <2>2, <2>3
<1> QED
  BY <1>2, <1>3, <1>5, <1>6, <1>7, <1>8, <1>9, OwnersKept, NothingForgottenKept

(***************************************************************************)
(* Steps, and cancellation.                                                *)
(***************************************************************************)

(* The fields that EnterStep and MarkCancelled set belong to no invariant. *)
LEMMA MarksKeep ==
  ASSUME TypeOK, NEW s \in Statements, s <= made, EnterStep(s) \/ MarkCancelled(s),
         UNCHANGED <<made, native, registry, cache>>
  PROVE  /\ statement' \in [Statements -> StatementFields]
         /\ \A t \in Threads : OwnersUnchanged(t)
         /\ \A r \in Statements : /\ statement'[r].hasBindings = statement[r].hasBindings
                                  /\ statement'[r].stepped = statement[r].stepped
<1> DEFINE f == [statement[s] EXCEPT !.running = TRUE]
           g == [statement[s] EXCEPT !.cancelled = TRUE]
<1>1. statement[s] \in StatementFields
  BY DEF TypeOK, StatementTypeOK
<1>2. \A x \in {f, g} :
        /\ x \in StatementFields
        /\ x.handle = statement[s].handle /\ x.sql = statement[s].sql
        /\ x.controller = statement[s].controller
        /\ x.hasBindings = statement[s].hasBindings /\ x.stepped = statement[s].stepped
  BY <1>1 DEF StatementFields
<1>3. \E x \in {f, g} : statement' = [statement EXCEPT ![s] = x]
  BY DEF EnterStep, MarkCancelled
<1> HIDE DEF f, g
<1>4. PICK x \in {f, g} : statement' = [statement EXCEPT ![s] = x]
  BY <1>3
<1>5. /\ statement' \in [Statements -> StatementFields]
      /\ statement'[s] = x
      /\ \A r \in Statements \ {s} : statement'[r] = statement[r]
  BY <1>2, <1>4 DEF TypeOK, StatementTypeOK
<1>6. \A r \in Statements : /\ statement'[r].handle = statement[r].handle
                            /\ statement'[r].sql = statement[r].sql
                            /\ statement'[r].controller = statement[r].controller
                            /\ statement'[r].hasBindings = statement[r].hasBindings
                            /\ statement'[r].stepped = statement[r].stepped
                            /\ r > made => statement'[r] = statement[r]
  BY <1>2, <1>5 DEF TypeOK, StatementTypeOK
<1> QED
  BY <1>5, <1>6 DEF OwnersUnchanged, Live

LEMMA RunStepStep ==
  ASSUME IndInv, NEW t \in Threads, RunStep(t)
  PROVE  IndInv'
<1> USE DEF IndInv
<1>1. /\ call[t].at = "starting"
      /\ EnterStep(call[t].st)
      /\ UNCHANGED <<confinement, opened, disposed, database, made, native, handler,
                     progressMemory, cancelFlag, registry, cache>>
  BY DEF RunStep, connectionVars, handlerVars
<1>2. call[t].st \in Statements /\ call[t].st <= made
  BY <1>1 DEF StepOwns, InStep, TypeOK, StatementTypeOK
<1>3. /\ call' \in [Threads -> Calls]
      /\ call'[t].at = "running"
      /\ call'[t].st = call[t].st /\ call'[t].handle = call[t].handle
      /\ \A u \in Threads \ {t} : call'[u] = call[u]
  BY DEF RunStep, TypeOK, Calls, Places
<1>4. /\ statement' \in [Statements -> StatementFields]
      /\ OwnersUnchanged(t)
      /\ \A r \in Statements : /\ statement'[r].hasBindings = statement[r].hasBindings
                               /\ statement'[r].stepped = statement[r].stepped
  BY <1>1, <1>2, MarksKeep
<1>5. TypeOK'
  BY <1>1, <1>3, <1>4 DEF TypeOK, StatementTypeOK
<1>6. Lifecycle'
  BY <1>1, <1>3 DEF Lifecycle, InUse, Live
<1>7. CallsAreConfined' /\ CancelWritesOwnedMemory'
  BY <1>1, <1>3 DEF CallsAreConfined, CancelWritesOwnedMemory
<1>8. CallUnchanged(t)
  BY <1>1, <1>3 DEF CallUnchanged, InStep
<1> QED
  BY <1>1, <1>4, <1>5, <1>6, <1>7, <1>8, OwnersKept, FlagsKept, NothingForgottenKept

LEMMA CancelStep ==
  ASSUME IndInv, NEW t \in Threads, NEW s \in Statements, Cancel(t, s)
  PROVE  IndInv'
<1> USE DEF IndInv
<1>1. /\ call[t].at = "idle" /\ s <= made
      /\ MarkCancelled(s)
      /\ UNCHANGED <<confinement, opened, disposed, database, made, native, handler,
                     progressMemory, cancelFlag, registry, cache>>
  BY DEF Cancel, connectionVars, handlerVars
<1>2. /\ call' \in [Threads -> Calls]
      /\ call'[t].at \in {"idle", "cancelling"}
      /\ call'[t] = call[t] \/ call'[t].at = "cancelling"
      /\ \A u \in Threads \ {t} : call'[u] = call[u]
  <2>1. CASE Goto(t, "cancelling")
    BY <2>1, Moves DEF Places, At
  <2>2. CASE UNCHANGED call
    BY <1>1, <2>2 DEF TypeOK
  <2> QED
    BY <2>1, <2>2 DEF Cancel
<1>3. /\ statement' \in [Statements -> StatementFields]
      /\ OwnersUnchanged(t)
      /\ \A r \in Statements : /\ statement'[r].hasBindings = statement[r].hasBindings
                               /\ statement'[r].stepped = statement[r].stepped
  BY <1>1, MarksKeep
<1>4. TypeOK'
  BY <1>1, <1>2, <1>3 DEF TypeOK, StatementTypeOK
<1>5. Lifecycle'
  BY <1>1, <1>2 DEF Lifecycle, InUse, Live
<1>6. CallsAreConfined' /\ CancelWritesOwnedMemory'
  BY <1>1, <1>2 DEF CallsAreConfined, CancelWritesOwnedMemory
<1>7. CallUnchanged(t)
  BY <1>1, <1>2 DEF CallUnchanged, InStep
<1> QED
  BY <1>1, <1>3, <1>4, <1>5, <1>6, <1>7, OwnersKept, FlagsKept, NothingForgottenKept

LEMMA StepReturnsStep ==
  ASSUME IndInv, NEW t \in Threads, NEW rc \in {"row", "done", "error", "interrupt"},
         StepReturns(t, rc)
  PROVE  IndInv'
<1> USE DEF IndInv
<1> DEFINE s == call[t].st
           h == call[t].handle
           n == [native[h] EXCEPT !.state = IF rc = "interrupt" THEN "error" ELSE rc]
           f == [statement[s] EXCEPT !.running = FALSE]
           c == [call[t] EXCEPT !.at = "stepped", !.rc = rc]
<1>1. /\ call[t].at = "running"
      /\ statement' = [statement EXCEPT ![s] = f]
      /\ native' = [native EXCEPT ![h] = n]
      /\ call' = [call EXCEPT ![t] = c]
      /\ UNCHANGED <<confinement, opened, disposed, database, made, handler,
                     progressMemory, cancelFlag, registry, cache>>
  BY DEF StepReturns, LeaveStep, connectionVars, handlerVars, TypeOK, Calls
<1>2. /\ s \in Statements /\ s <= made /\ h \in Handles
      /\ Live(h)
      /\ statement[s] \in StatementFields /\ native[h] \in NativeFields
      /\ statement[s].handle \in {h, None}
      /\ \A q \in DOMAIN cache : cache[q] # h
      /\ \A r \in Statements : statement[r].handle = h => r = s
  BY <1>1 DEF StepOwns, InStep, TypeOK, StatementTypeOK
<1>3. /\ n \in NativeFields /\ n.sql = native[h].sql /\ n.bound = native[h].bound
      /\ n.state \notin {"none", "finalized"}
  BY <1>2 DEF NativeFields, NativeStates
<1>4. /\ f \in StatementFields
      /\ f.handle = statement[s].handle /\ f.sql = statement[s].sql
      /\ f.controller = statement[s].controller
      /\ f.hasBindings = statement[s].hasBindings /\ f.stepped = statement[s].stepped
  BY <1>2 DEF StatementFields
<1>5. /\ c \in Calls /\ c.at = "stepped" /\ c.rc = rc
      /\ c.st = s /\ c.handle = h
  BY ZenonT(60) DEF TypeOK, Calls, Places, ResultCodes
<1> HIDE DEF s, h, n, f, c
<1>6. /\ statement' \in [Statements -> StatementFields]
      /\ statement'[s] = f /\ \A r \in Statements \ {s} : statement'[r] = statement[r]
  BY <1>1, <1>2, <1>4 DEF TypeOK, StatementTypeOK
<1>7. /\ native' \in [Handles -> NativeFields]
      /\ native'[h] = n /\ \A g \in Handles \ {h} : native'[g] = native[g]
  BY <1>1, <1>2, <1>3 DEF TypeOK, StatementTypeOK
<1>8. /\ call' \in [Threads -> Calls]
      /\ call'[t] = c /\ \A u \in Threads \ {t} : call'[u] = call[u]
  BY <1>1, <1>5 DEF TypeOK
<1>9. TypeOK'
  BY <1>1, <1>6, <1>7, <1>8 DEF TypeOK, StatementTypeOK
<1>10. \A g \in Handles : Live(g)' <=> Live(g)
  BY <1>2, <1>3, <1>7 DEF Live
<1>11. Lifecycle'
  BY <1>1, <1>5, <1>8, <1>10 DEF Lifecycle, InUse
<1>12. CallsAreConfined' /\ CancelWritesOwnedMemory'
  BY <1>1, <1>5, <1>8 DEF CallsAreConfined, CancelWritesOwnedMemory
<1>13. \A r \in Statements : /\ statement'[r].handle = statement[r].handle
                             /\ statement'[r].sql = statement[r].sql
                             /\ statement'[r].controller = statement[r].controller
                             /\ statement'[r].hasBindings = statement[r].hasBindings
                             /\ statement'[r].stepped = statement[r].stepped
                             /\ r > made => statement'[r] = statement[r]
  BY <1>2, <1>4, <1>6 DEF TypeOK, StatementTypeOK
<1>14. OwnersUnchanged(t)
  <2>1. \A g \in Handles : /\ native'[g].sql = native[g].sql
                           /\ native'[g].state = "none" <=> native[g].state = "none"
                           /\ native'[g] # native[g] => call[t].at = "running" /\ call[t].handle = g
    BY <1>1, <1>2, <1>3, <1>7 DEF Live, h
  <2> QED
    BY <1>1, <1>10, <1>13, <2>1 DEF OwnersUnchanged
<1>15. CallUnchanged(t)
  BY <1>1, <1>5, <1>8 DEF CallUnchanged, InStep, s, h
<1>16. FlagsTellUse'
  <2> SUFFICES ASSUME NEW r \in Statements, Valid(r)
               PROVE  /\ ~statement[r].hasBindings => ~native'[statement[r].handle].bound
                      /\ ~statement[r].stepped /\ native'[statement[r].handle].state # "ready" =>
                           \E u \in Threads : call'[u].at = "stepped" /\ call'[u].st = r
    BY <1>13 DEF FlagsTellUse, Valid
  <2>1. statement[r].handle \in Handles
    BY ValidStatement
  <2>2. CASE statement[r].handle = h
    BY <1>2, <1>3, <1>5, <1>7, <1>8, <2>2 DEF FlagsTellUse
  <2>3. CASE statement[r].handle # h
    <3>1. native'[statement[r].handle] = native[statement[r].handle]
      BY <1>7, <2>1, <2>3
    <3>2. \A u \in Threads : call[u].at = "stepped" => call'[u] = call[u]
      BY <1>1, <1>8
    <3> QED
      BY <3>1, <3>2 DEF FlagsTellUse
  <2> QED
    BY <2>2, <2>3
<1> QED
  BY <1>1, <1>9, <1>11, <1>12, <1>14, <1>15, <1>16, OwnersKept, NothingForgottenKept

LEMMA EndStepStep ==
  ASSUME IndInv, NEW t \in Threads, EndStep(t)
  PROVE  IndInv'
<1> USE DEF IndInv
<1> DEFINE s == call[t].st
           row == CASE call[t].rc = "row" -> TRUE
                    [] call[t].rc = "done" -> FALSE
                    [] OTHER -> statement[s].hasRow
           f == [statement[s] EXCEPT !.stepped = TRUE, !.hasRow = row]
<1>1. /\ call[t].at = "stepped"
      /\ statement' = [statement EXCEPT ![s] = f]
      /\ Goto(t, "idle")
      /\ cancelFlag' = (cancelFlag /\ handler # "live")
      /\ UNCHANGED <<confinement, opened, disposed, database, made, native, handler,
                     progressMemory, registry, cache>>
  <2>1. statement[s] \in StatementFields
    BY DEF EndStep, StepOwns, InStep, TypeOK, StatementTypeOK
  <2> QED
    BY <2>1, ZenonT(60) DEF EndStep, StepResult, LowerCancelFlag, Return, connectionVars, TypeOK,
               StatementTypeOK, StatementFields
<1>2. s \in Statements /\ s <= made /\ statement[s] \in StatementFields
  BY <1>1 DEF StepOwns, InStep, TypeOK, StatementTypeOK
<1>3. /\ f \in StatementFields
      /\ f.handle = statement[s].handle /\ f.sql = statement[s].sql
      /\ f.controller = statement[s].controller
      /\ f.hasBindings = statement[s].hasBindings /\ f.stepped
  <2>1. row \in BOOLEAN
    BY <1>2 DEF StatementFields
  <2> HIDE DEF row
  <2> QED
    BY <1>2, <2>1 DEF StatementFields
<1> HIDE DEF s, f
<1>4. /\ statement' \in [Statements -> StatementFields]
      /\ statement'[s] = f /\ \A r \in Statements \ {s} : statement'[r] = statement[r]
  BY <1>1, <1>2, <1>3 DEF TypeOK, StatementTypeOK
<1>5. /\ call' \in [Threads -> Calls]
      /\ call'[t].at = "idle" /\ \A u \in Threads \ {t} : call'[u] = call[u]
  BY <1>1, Moves DEF Places, At
<1>6. TypeOK'
  BY <1>1, <1>4, <1>5 DEF TypeOK, StatementTypeOK
<1>7. Lifecycle'
  BY <1>1, <1>5 DEF Lifecycle, InUse, Live
<1>8. CallsAreConfined' /\ CancelWritesOwnedMemory'
  BY <1>1, <1>5 DEF CallsAreConfined, CancelWritesOwnedMemory
<1>9. \A r \in Statements : /\ statement'[r].handle = statement[r].handle
                            /\ statement'[r].sql = statement[r].sql
                            /\ statement'[r].controller = statement[r].controller
                            /\ statement'[r].hasBindings = statement[r].hasBindings
                            /\ r # s => statement'[r].stepped = statement[r].stepped
                            /\ r > made => statement'[r] = statement[r]
  BY <1>2, <1>3, <1>4 DEF TypeOK, StatementTypeOK
<1>10. OwnersUnchanged(t)
  BY <1>1, <1>9 DEF OwnersUnchanged, Live
<1>11. CallUnchanged(t)
  BY <1>1, <1>5 DEF CallUnchanged, InStep
<1>12. FlagsTellUse'
  <2> SUFFICES ASSUME NEW r \in Statements, Valid(r)
               PROVE  /\ ~statement[r].hasBindings => ~native[statement[r].handle].bound
                      /\ ~statement'[r].stepped /\ native[statement[r].handle].state # "ready" =>
                           \E u \in Threads : call'[u].at = "stepped" /\ call'[u].st = r
    BY <1>1, <1>9 DEF FlagsTellUse, Valid
  <2>1. CASE r = s
    BY <1>3, <1>4, <2>1 DEF FlagsTellUse
  <2>2. CASE r # s
    BY <1>5, <1>9, <2>2 DEF FlagsTellUse, s
  <2> QED
    BY <2>1, <2>2
<1> QED
  BY <1>1, <1>6, <1>7, <1>8, <1>10, <1>11, <1>12, OwnersKept, NothingForgottenKept

(***************************************************************************)
(* Calls of the confining thread.                                          *)
(***************************************************************************)
LEMMA OneCall ==
  ASSUME CallsAreConfined, NEW t \in Threads, confinement = t
  PROVE  \A u \in Threads \ {t} : call[u].at \in {"idle", "cancelling"}
BY DEF CallsAreConfined

LEMMA CompiledFields ==
  \A q : Compiled(q).state = "ready" /\ Compiled(q).sql = q /\ ~Compiled(q).bound
BY DEF Compiled

LEMMA StartStepStep ==
  ASSUME IndInv, NEW t \in Threads, NEW s \in Statements, StartStep(t, s)
  PROVE  IndInv'
<1> USE DEF IndInv
<1> DEFINE c == [At("starting") EXCEPT !.st = s, !.handle = statement[s].handle]
<1>1. /\ call[t].at = "idle" /\ confinement = t /\ opened /\ Valid(s)
      /\ call' = [call EXCEPT ![t] = c]
      /\ FreshProgressHandler
      /\ UNCHANGED <<confinement, opened, disposed, database, statement, made, native,
                     registry, cache>>
  BY DEF StartStep, Usable, Confined, connectionVars, statementVars
<1>2. /\ c \in Calls /\ c.at = "starting"
      /\ c.st = s /\ c.handle = statement[s].handle
  BY <1>1, ValidStatement DEF At, Calls, Places, ResultCodes
<1> HIDE DEF c
<1>3. call' \in [Threads -> Calls] /\ call'[t] = c /\ \A u \in Threads \ {t} : call'[u] = call[u]
  BY <1>1, <1>2 DEF TypeOK
<1>4. TypeOK'
  BY <1>1, <1>3 DEF TypeOK, StatementTypeOK, FreshProgressHandler
<1>5. Lifecycle'
  BY <1>1, <1>2, <1>3 DEF Lifecycle, InUse, Live
<1>6. CallsAreConfined' /\ CancelWritesOwnedMemory'
  BY <1>1, <1>3 DEF CallsAreConfined, CancelWritesOwnedMemory, FreshProgressHandler
<1>7. CallUnchanged(t)
  BY <1>1, <1>2, <1>3 DEF CallUnchanged
<1> QED
  BY <1>1, <1>4, <1>5, <1>6, <1>7, QuietStep

LEMMA DisposeStep ==
  ASSUME IndInv, NEW t \in Threads, Dispose(t)
  PROVE  IndInv'
<1> USE DEF IndInv
<1>1. /\ call[t].at = "idle" /\ confinement \in {NoThread, t}
      /\ ~disposed /\ disposed' /\ ~opened' /\ opened' \in BOOLEAN /\ disposed' \in BOOLEAN
      /\ UNCHANGED <<confinement, database, statement, made, native, handler,
                     progressMemory, cancelFlag, registry, cache>>
  BY DEF Dispose, MayDispose, statementVars, handlerVars
<1>2. /\ call' \in [Threads -> Calls]
      /\ \/ call'[t] = call[t] /\ ~opened
         \/ call'[t].at = "finalizing" /\ opened
      /\ \A u \in Threads \ {t} : call'[u] = call[u]
  <2>1. CASE opened
    BY <2>1, Moves DEF Dispose, Places, At
  <2>2. CASE ~opened
    BY <2>2 DEF Dispose, TypeOK
  <2> QED
    BY <2>1, <2>2
<1>3. TypeOK'
  BY <1>1, <1>2 DEF TypeOK, StatementTypeOK
<1>4. \A u \in Threads : call[u].at \in {"idle", "cancelling"}
  BY <1>1 DEF CallsAreConfined
<1>5. Lifecycle'
  BY <1>1, <1>2, <1>4 DEF Lifecycle, InUse, Live
<1>6. CallsAreConfined' /\ CancelWritesOwnedMemory'
  BY <1>1, <1>2 DEF CallsAreConfined, CancelWritesOwnedMemory, Lifecycle
<1>7. CallUnchanged(t)
  BY <1>1, <1>2 DEF CallUnchanged, InStep
<1> QED
  BY <1>1, <1>3, <1>5, <1>6, <1>7, QuietStep

LEMMA CloseStep ==
  ASSUME IndInv, NEW t \in Threads, Close(t)
  PROVE  IndInv'
<1> USE DEF IndInv
<1>1. /\ call[t].at = "closing" /\ confinement = t /\ confinement' = NoThread
      /\ disposed /\ database = "open" /\ ~opened
      /\ registry = {} /\ DOMAIN cache = {} /\ handler # "live"
      /\ ~progressMemory' /\ progressMemory' \in BOOLEAN
      /\ database' = IF \E h \in Handles : Live(h) THEN "busy" ELSE "closed"
      /\ UNCHANGED <<opened, disposed, statement, made, native, handler, cancelFlag,
                     registry, cache>>
  BY DEF Close, CallsAreConfined, Lifecycle, statementVars
<1>2. /\ call' \in [Threads -> Calls]
      /\ call'[t].at = "idle" /\ \A u \in Threads \ {t} : call'[u] = call[u]
  BY Moves DEF Close, Return, Places, At
<1>3. \A u \in Threads : call'[u].at \in {"idle", "cancelling"}
  BY <1>1, <1>2, OneCall
<1>4. TypeOK'
  BY <1>1, <1>2 DEF TypeOK, StatementTypeOK
<1>5. Lifecycle'
  BY <1>1, <1>3 DEF Lifecycle, InUse
<1>6. CallsAreConfined' /\ CancelWritesOwnedMemory'
  BY <1>1, <1>3 DEF CallsAreConfined, CancelWritesOwnedMemory
<1>7. OwnersUnchanged(t) /\ CallUnchanged(t)
  BY <1>1, <1>2 DEF OwnersUnchanged, CallUnchanged, InStep, Live
<1>8. NothingForgotten'
  <2> SUFFICES ASSUME Assertions PROVE NothingForgotten'
    BY DEF NothingForgotten
  <2>1. \A h \in Handles : StatementsOf(h) = {} /\ CachedFor(h) = {} /\ PreparedBy(h) = {}
    <3>1. \A h \in Handles : StatementsOf(h) = {}
      BY <1>1 DEF NothingForgotten, RegistryIsExact, StatementsOf
    <3>2. \A h \in Handles : CachedFor(h) = {}
      BY <1>1 DEF CachedFor
    <3>3. \A u \in Threads : call[u].at # "prepared"
      BY <1>1, OneCall
    <3> QED
      BY <3>1, <3>2, <3>3 DEF PreparedBy
  <2>2. \A h \in Handles : ~Live(h)
    BY <2>1 DEF NothingForgotten, HandleNotLost
  <2>3. HandleNotLost' /\ ClosesCleanly'
    BY <1>1, <2>2 DEF HandleNotLost, ClosesCleanly, Live
  <2>4. RegistryIsExact'
    BY <1>1 DEF NothingForgotten, RegistryIsExact
  <2> QED
    BY <2>3, <2>4 DEF NothingForgotten
<1> QED
  BY <1>1, <1>4, <1>5, <1>6, <1>7, <1>8, OwnersKept, FlagsKept

LEMMA PrepareStep ==
  ASSUME IndInv, NEW t \in Threads, NEW q \in SQLs, NEW cached \in BOOLEAN,
         Prepare(t, q, cached)
  PROVE  IndInv'
<1> USE DEF IndInv
<1> DEFINE h == IF cached THEN CachedHandle(q) ELSE None
           c == [At(IF h = None THEN "compiling" ELSE "prepared")
                   EXCEPT !.handle = h, !.sql = q, !.cached = cached]
<1>1. /\ call[t].at = "idle" /\ confinement = t /\ opened /\ made < MaxStatements
      /\ cache' = IF h = None THEN cache ELSE Put(cache, q, None)
      /\ call' = [call EXCEPT ![t] = c]
      /\ UNCHANGED <<confinement, opened, disposed, database, statement, made, native,
                     handler, progressMemory, cancelFlag, registry>>
  BY DEF Prepare, Usable, Confined, connectionVars, statementVars, handlerVars
<1>2. h \in Handles \union {None} /\ (h # None => q \in DOMAIN cache /\ cache[q] = h)
  BY DEF CachedHandle, TypeOK
<1>3. /\ c \in Calls /\ c.sql = q /\ c.handle = h
      /\ c.at = IF h = None THEN "compiling" ELSE "prepared"
  BY <1>2 DEF At, Calls, Places, ResultCodes
<1> HIDE DEF h, c
<1>4. call' \in [Threads -> Calls] /\ call'[t] = c /\ \A u \in Threads \ {t} : call'[u] = call[u]
  BY <1>1, <1>3 DEF TypeOK
<1>5. /\ DOMAIN cache' = DOMAIN cache
      /\ \A x \in DOMAIN cache : cache'[x] = IF x = q /\ h # None THEN None ELSE cache[x]
  BY <1>1, <1>2 DEF Put
<1>6. \A u \in Threads : call[u].at \in {"idle", "cancelling"}
  BY <1>1, OneCall
<1>7. \A u \in Threads \ {t} : call'[u].at \in {"idle", "cancelling"}
  BY <1>4, <1>6
<1>8. TypeOK'
  <2>1. DOMAIN cache' \subseteq SQLs /\ \A x \in DOMAIN cache' : cache'[x] \in Handles \union {None}
    BY <1>5 DEF TypeOK
  <2> QED
    BY <1>1, <1>4, <2>1 DEF TypeOK, StatementTypeOK
<1>9. Lifecycle'
  BY <1>1, <1>3, <1>4, <1>5 DEF Lifecycle, InUse, Live
<1>10. CallsAreConfined' /\ CancelWritesOwnedMemory'
  BY <1>1, <1>4 DEF CallsAreConfined, CancelWritesOwnedMemory
<1>11. StatementsOwn' /\ FlagsTellUse'
  BY <1>1, <1>4, <1>6 DEF StatementsOwn, FlagsTellUse, Valid, Live
<1>12. CacheOwns' /\ CacheIsClean'
  BY <1>1, <1>5 DEF CacheOwns, CacheIsClean, Compiled
<1>13. StepOwns'
  BY <1>3, <1>4, <1>7 DEF StepOwns, InStep
<1>14. h # None => /\ h \in 1 .. made + 1
                   /\ native[h] = Compiled(q)
                   /\ \A s \in Statements : statement[s].handle # h
                   /\ \A x \in DOMAIN cache \ {q} : cache[x] # h
  <2> SUFFICES ASSUME h # None PROVE /\ h \in 1 .. made + 1
                                     /\ native[h] = Compiled(q)
                                     /\ \A s \in Statements : statement[s].handle # h
                                     /\ \A x \in DOMAIN cache \ {q} : cache[x] # h
    OBVIOUS
  <2>1. native[h] = Compiled(q) /\ \A x \in DOMAIN cache \ {q} : cache[x] # h
    BY <1>2, CompiledFields DEF CacheIsClean
  <2>2. \A s \in Statements : statement[s].handle # h
    BY <1>2 DEF CacheOwns
  <2>3. h \in 1 .. made + 1
    BY <1>2, <1>6, <2>1 DEF PrepareOwns, Compiled, TypeOK, StatementTypeOK
  <2> QED
    BY <2>1, <2>2, <2>3
<1>15. PrepareOwns'
  <2>1. \A x \in DOMAIN cache' : h # None => cache'[x] # h
    BY <1>5, <1>14
  <2>2. \A g \in Handles : g > made => native[g].state = "none"
    BY <1>6 DEF PrepareOwns
  <2> QED
    BY <1>1, <1>3, <1>4, <1>7, <1>14, <2>1, <2>2 DEF PrepareOwns, Compiled
<1>16. NothingForgotten'
  <2> SUFFICES ASSUME Assertions, NEW g \in Handles, Live(g)
               PROVE  \/ StatementsOf(g) # {}
                      \/ \E x \in DOMAIN cache : cache'[x] = g
                      \/ \E u \in Threads : call'[u].at = "prepared" /\ call'[u].handle = g
    BY <1>1, <1>5 DEF NothingForgotten, HandleNotLost, RegistryIsExact, ClosesCleanly,
                      StatementsOf, CachedFor, PreparedBy, Live
  <2>1. \A u \in Threads : call[u].at # "prepared"
    BY <1>6
  <2>2. StatementsOf(g) # {} \/ \E x \in DOMAIN cache : cache[x] = g
    BY <2>1 DEF NothingForgotten, HandleNotLost, CachedFor, PreparedBy
  <2> QED
    BY <1>2, <1>3, <1>4, <1>5, <2>2
<1> QED
  BY <1>8, <1>9, <1>10, <1>11, <1>12, <1>13, <1>15, <1>16

LEMMA CompileStep ==
  ASSUME IndInv, NEW t \in Threads, Compile(t)
  PROVE  IndInv'
<1> USE DEF IndInv
<1> DEFINE h == made + 1
           c == [call[t] EXCEPT !.at = "prepared", !.handle = h]
<1>1. /\ call[t].at = "compiling" /\ confinement = t /\ opened /\ h <= MaxStatements
      /\ call[t].sql \in SQLs
      /\ native' = [native EXCEPT ![h] = Compiled(call[t].sql)]
      /\ call' = [call EXCEPT ![t] = c]
      /\ UNCHANGED <<confinement, opened, disposed, database, statement, made,
                     handler, progressMemory, cancelFlag, registry, cache>>
  <2>1. call[t].at = "compiling" /\ call[t] \in Calls
    BY DEF Compile, TypeOK
  <2>2. confinement = t /\ opened /\ h <= MaxStatements /\ call[t].sql \in SQLs
    BY <2>1 DEF CallsAreConfined, Lifecycle, InUse, PrepareOwns, TypeOK, StatementTypeOK
  <2>3. call' = [call EXCEPT ![t] = c]
    BY <2>1 DEF Compile, TypeOK, Calls
  <2> QED
    BY <2>1, <2>2, <2>3 DEF Compile, connectionVars, handlerVars
<1>2. h \in Handles /\ made \in Nat /\ Compiled(call[t].sql) \in NativeFields
  BY <1>1 DEF TypeOK, StatementTypeOK, Compiled, NativeFields, NativeStates
<1>3. c \in Calls /\ c.sql = call[t].sql /\ c.handle = h /\ c.at = "prepared"
  BY <1>2 DEF Calls, Places, TypeOK
<1> HIDE DEF h, c
<1>4. call' \in [Threads -> Calls] /\ call'[t] = c /\ \A u \in Threads \ {t} : call'[u] = call[u]
  BY <1>1, <1>3 DEF TypeOK
<1>5. /\ native' \in [Handles -> NativeFields]
      /\ native'[h] = Compiled(call[t].sql) /\ \A g \in Handles \ {h} : native'[g] = native[g]
  BY <1>1, <1>2 DEF TypeOK, StatementTypeOK
<1>6. \A u \in Threads \ {t} : call[u].at \in {"idle", "cancelling"}
  BY <1>1, OneCall
<1>7. native[h].state = "none"
  BY <1>1, <1>2, <1>6 DEF PrepareOwns, h
<1>8. \A s \in Statements : statement[s].handle # h
  BY <1>2, <1>7 DEF StatementsOwn, Live
<1>9. \A q \in DOMAIN cache : cache[q] # h
  BY <1>2, <1>7, CompiledFields DEF CacheIsClean
<1>10. TypeOK'
  BY <1>1, <1>4, <1>5 DEF TypeOK, StatementTypeOK
<1>11. Lifecycle'
  BY <1>1, <1>3, <1>4 DEF Lifecycle, InUse
<1>12. CallsAreConfined' /\ CancelWritesOwnedMemory'
  BY <1>1, <1>3, <1>4 DEF CallsAreConfined, CancelWritesOwnedMemory
<1>13. StatementsOwn'
  <2>1. \A s \in Statements : Valid(s) => statement[s].handle \in Handles \ {h}
    BY <1>8, ValidStatement
  <2> QED
    BY <1>1, <1>5, <2>1 DEF StatementsOwn, Valid, Live
<1>14. CacheOwns' /\ CacheIsClean'
  BY <1>1, <1>5, <1>9 DEF CacheOwns, CacheIsClean, Compiled, TypeOK
<1>15. StepOwns'
  BY <1>3, <1>4, <1>6 DEF StepOwns, InStep
<1>16. PrepareOwns'
  <2>1. \A g \in Handles : g > made /\ g # h => native'[g].state = "none"
    BY <1>1, <1>5, <1>6 DEF PrepareOwns
  <2> QED
    <3>1. ASSUME NEW u \in Threads, call'[u].at \in {"compiling", "prepared"}
          PROVE  u = t
      BY <1>4, <1>6, <3>1
    <3>2. h \in 1 .. made + 1 /\ made < MaxStatements
      BY <1>1, <1>2 DEF h
    <3>3. \A g \in Handles : g > made /\ native'[g].state # "none" =>
            call'[t].at = "prepared" /\ call'[t].handle = g
      BY <1>3, <1>4, <2>1
    <3> QED
      BY <1>1, <1>3, <1>4, <1>5, <1>8, <1>9, <3>1, <3>2, <3>3 DEF PrepareOwns
<1>17. FlagsTellUse'
  <2>1. \A s \in Statements : Valid(s) => native'[statement[s].handle] = native[statement[s].handle]
    BY <1>5, <1>8, ValidStatement
  <2> QED
    BY <1>1, <1>6, <2>1 DEF FlagsTellUse, Valid
<1>18. NothingForgotten'
  <2> SUFFICES ASSUME Assertions, NEW g \in Handles, native'[g].state \notin {"none", "finalized"}
               PROVE  \/ StatementsOf(g) # {} \/ CachedFor(g) # {}
                      \/ \E u \in Threads : call'[u].at = "prepared" /\ call'[u].handle = g
    BY <1>1 DEF NothingForgotten, HandleNotLost, RegistryIsExact, ClosesCleanly,
                StatementsOf, CachedFor, PreparedBy, Live
  <2>1. CASE g = h
    BY <1>3, <1>4, <2>1
  <2>2. CASE g # h
    BY <1>1, <1>5, <1>6, <2>2 DEF NothingForgotten, HandleNotLost, PreparedBy, Live
  <2> QED
    BY <2>1, <2>2
<1> QED
  BY <1>10, <1>11, <1>12, <1>13, <1>14, <1>15, <1>16, <1>17, <1>18

LEMMA InstantiateStep ==
  ASSUME IndInv, NEW t \in Threads, Instantiate(t)
  PROVE  IndInv'
<1> USE DEF IndInv
<1> DEFINE s == made + 1
           h == call[t].handle
           f == [Blank EXCEPT !.sql = call[t].sql, !.handle = call[t].handle,
                   !.controller = IF call[t].cached THEN "cached" ELSE "uncached"]
<1>1. /\ call[t].at = "prepared" /\ confinement = t /\ opened /\ s <= MaxStatements
      /\ call[t].sql \in SQLs
      /\ h \in 1 .. made + 1
      /\ native[h] = Compiled(call[t].sql)
      /\ \A r \in Statements : statement[r].handle # h
      /\ \A q \in DOMAIN cache : cache[q] # h
      /\ made' = s
      /\ statement' = [statement EXCEPT ![s] = f]
      /\ registry' = registry \union {s}
      /\ Goto(t, "idle")
      /\ UNCHANGED <<confinement, opened, disposed, database, native,
                     handler, progressMemory, cancelFlag, cache>>
  BY DEF Instantiate, Return, CallsAreConfined, Lifecycle, InUse, PrepareOwns, connectionVars,
         handlerVars, TypeOK, StatementTypeOK
<1>2. s \in Statements /\ h \in Handles /\ made \in Nat /\ s \in 0 .. MaxStatements
  BY <1>1 DEF TypeOK, StatementTypeOK
<1>3. /\ f \in StatementFields
      /\ f.handle = h /\ f.sql = call[t].sql /\ f.controller \in {"cached", "uncached"}
      /\ ~f.hasBindings /\ ~f.stepped
  BY <1>1, <1>2 DEF StatementFields, Controllers, Blank
<1> HIDE DEF s, h, f
<1>4. /\ statement' \in [Statements -> StatementFields]
      /\ statement'[s] = f /\ \A r \in Statements \ {s} : statement'[r] = statement[r]
  BY <1>1, <1>2, <1>3 DEF TypeOK, StatementTypeOK
<1>5. /\ call' \in [Threads -> Calls]
      /\ call'[t].at = "idle" /\ \A u \in Threads \ {t} : call'[u] = call[u]
  BY <1>1, Moves DEF Places, At
<1>6. \A u \in Threads : call'[u].at \in {"idle", "cancelling"}
  BY <1>1, <1>5, OneCall
<1>7. TypeOK'
  BY <1>1, <1>2, <1>4, <1>5 DEF TypeOK, StatementTypeOK
<1>8. Lifecycle'
  BY <1>1, <1>6 DEF Lifecycle, InUse
<1>9. CallsAreConfined' /\ CancelWritesOwnedMemory'
  BY <1>1, <1>6 DEF CallsAreConfined, CancelWritesOwnedMemory
<1>10. StatementsOwn'
  <2> SUFFICES ASSUME NEW r \in Statements
               PROVE  /\ r > made' => statement'[r] = Blank /\ r \notin registry'
                      /\ r <= made' => statement'[r].controller # "none"
                      /\ Valid(r)' <=> statement'[r].handle # None
                      /\ Valid(r)' => /\ native[statement'[r].handle].state \notin {"none", "finalized"}
                                      /\ statement'[r].sql = native[statement'[r].handle].sql
                                      /\ statement'[r].sql \in SQLs
                      /\ \A x \in Statements :
                           Valid(r)' /\ statement'[x].handle = statement'[r].handle => x = r
    BY <1>1 DEF StatementsOwn, Live
  <2>1. Valid(r)' <=> r = s \/ Valid(r)
    BY <1>3, <1>4 DEF Valid
  <2>2. CASE r = s
    BY <1>1, <1>2, <1>3, <1>4, <2>1, <2>2 DEF Compiled
  <2>3. CASE r # s
    <3>1. (r > made' => r > made) /\ (r <= made' => r <= made)
      BY <1>1, <1>2, <2>3 DEF s
    <3> QED
      BY <1>1, <1>3, <1>4, <2>1, <2>3, <3>1 DEF StatementsOwn, Live
  <2> QED
    BY <2>2, <2>3
<1>11. CacheOwns' /\ CacheIsClean'
  BY <1>1, <1>3, <1>4 DEF CacheOwns, CacheIsClean, Compiled
<1>12. StepOwns'
  BY <1>6 DEF StepOwns, InStep
<1>13. PrepareOwns'
  <2>1. \A g \in Handles : g > made' => native[g].state = "none"
    <3> SUFFICES ASSUME NEW g \in Handles, g > made', native[g].state # "none" PROVE FALSE
      OBVIOUS
    <3>1. PICK u \in Threads : call[u].at = "prepared" /\ call[u].handle = g
      BY <1>1, <1>2 DEF PrepareOwns, s
    <3>2. u = t
      BY <1>1, <3>1, OneCall
    <3> QED
      BY <1>1, <1>2, <3>1, <3>2 DEF s, h
  <2> QED
    BY <1>1, <1>6, <2>1 DEF PrepareOwns
<1>14. FlagsTellUse'
  <2> SUFFICES ASSUME NEW r \in Statements, Valid(r)'
               PROVE  /\ ~statement'[r].hasBindings => ~native[statement'[r].handle].bound
                      /\ ~statement'[r].stepped => native[statement'[r].handle].state = "ready"
    BY <1>1 DEF FlagsTellUse
  <2>1. CASE r = s
    BY <1>1, <1>3, <1>4, <2>1 DEF Compiled
  <2>2. CASE r # s
    <3>1. \A u \in Threads : call[u].at # "stepped"
      BY <1>1, OneCall
    <3> QED
      BY <1>4, <2>2, <3>1 DEF FlagsTellUse, Valid
  <2> QED
    BY <2>1, <2>2
<1>15. NothingForgotten'
  <2> SUFFICES ASSUME Assertions PROVE HandleNotLost' /\ RegistryIsExact' /\ ClosesCleanly'
    BY DEF NothingForgotten
  <2>1. RegistryIsExact'
    BY <1>1, <1>2, <1>3, <1>4 DEF NothingForgotten, RegistryIsExact
  <2>2. HandleNotLost'
    <3> SUFFICES ASSUME NEW g \in Handles, Live(g)
                 PROVE  (\E r \in Statements : statement'[r].handle = g) \/ CachedFor(g) # {}
      BY <1>1 DEF HandleNotLost, StatementsOf, CachedFor, Live
    <3>1. CASE StatementsOf(g) # {}
      <4>1. PICK r \in Statements : statement[r].handle = g
        BY <3>1 DEF StatementsOf
      <4>2. r # s
        BY <1>1, <1>2, <4>1 DEF StatementsOwn, Blank, s
      <4> QED
        BY <1>4, <4>1, <4>2
    <3>2. CASE PreparedBy(g) # {}
      <4>1. PICK u \in Threads : call[u].at = "prepared" /\ call[u].handle = g
        BY <3>2 DEF PreparedBy
      <4>2. u = t
        BY <1>1, <4>1, OneCall
      <4> QED
        BY <1>2, <1>3, <1>4, <4>1, <4>2 DEF h
    <3> QED
      BY <3>1, <3>2 DEF NothingForgotten, HandleNotLost
  <2> QED
    BY <1>1, <2>1, <2>2 DEF NothingForgotten, ClosesCleanly
<1> QED
  BY <1>7, <1>8, <1>9, <1>10, <1>11, <1>12, <1>13, <1>14, <1>15

(***************************************************************************)
(* Disposing of statements.                                                *)
(***************************************************************************)
LEMMA ClearedStatement ==
  ASSUME TypeOK, NEW s \in Statements, statement' = [statement EXCEPT ![s] = Cleared(@)]
  PROVE  /\ statement' \in [Statements -> StatementFields]
         /\ \A r \in Statements \ {s} : statement'[r] = statement[r]
         /\ statement'[s].handle = None
         /\ statement'[s].controller = "disposed"
BY ClearsStatement, Clears DEF TypeOK, StatementTypeOK

LEMMA ForgetsOnlyThat ==
  ASSUME TypeOK, NEW h \in Handles \union {None}, NEW q \in SQLs \union {NoSQL},
         cache' = ForgetCachedHandle(cache, h, q)
  PROVE  /\ DOMAIN cache' \subseteq DOMAIN cache
         /\ \A x \in DOMAIN cache' : cache'[x] = cache[x]
         /\ \A x \in DOMAIN cache \ DOMAIN cache' : cache[x] \in {None, h}
BY DEF ForgetCachedHandle, Remove, Restrict

LEMMA DisposeElsewhereStep ==
  ASSUME IndInv, NEW t \in Threads, NEW s \in Statements, DisposeStatementElsewhere(t, s)
  PROVE  IndInv'
<1> USE DEF IndInv
<1>1. /\ ~Assertions /\ Valid(s)
      /\ statement' = [statement EXCEPT ![s] = Cleared(@)]
      /\ UNCHANGED <<confinement, opened, disposed, database, made, native,
                     handler, progressMemory, cancelFlag, registry, cache, call>>
  BY DEF DisposeStatementElsewhere, connectionVars, handlerVars
<1>2. /\ statement' \in [Statements -> StatementFields]
      /\ \A r \in Statements \ {s} : statement'[r] = statement[r]
      /\ statement'[s].handle = None /\ statement'[s].controller = "disposed"
  BY <1>1, ClearedStatement
<1>3. TypeOK'
  BY <1>1, <1>2 DEF TypeOK, StatementTypeOK
<1>4. Lifecycle' /\ CallsAreConfined' /\ CancelWritesOwnedMemory' /\ CacheIsClean' /\ NothingForgotten'
  BY <1>1 DEF Lifecycle, CallsAreConfined, CancelWritesOwnedMemory, CacheIsClean,
              NothingForgotten, Live
<1>5. \A r \in Statements : Valid(r)' <=> Valid(r) /\ r # s
  BY <1>2 DEF Valid
<1>6. StatementsOwn'
  <2>1. s <= made
    BY <1>1, ValidStatement
  <2> SUFFICES ASSUME NEW r \in Statements
               PROVE  /\ r > made => statement'[r] = Blank /\ r \notin registry
                      /\ r <= made => statement'[r].controller # "none"
                      /\ Valid(r)' <=> statement'[r].handle # None
                      /\ Valid(r)' => /\ native[statement'[r].handle].state \notin {"none", "finalized"}
                                      /\ statement'[r].sql = native[statement'[r].handle].sql
                                      /\ statement'[r].sql \in SQLs
                      /\ \A x \in Statements :
                           Valid(r)' /\ statement'[x].handle = statement'[r].handle => x = r
    BY <1>1 DEF StatementsOwn, Live
  <2>2. CASE r = s
    BY <1>2, <1>5, <2>1, <2>2 DEF TypeOK, StatementTypeOK
  <2>3. CASE r # s
    BY <1>2, <1>5, <2>3 DEF StatementsOwn, Live
  <2> QED
    BY <2>2, <2>3
<1>7. CacheOwns' /\ PrepareOwns'
  BY <1>1, <1>2 DEF CacheOwns, PrepareOwns, Compiled, TypeOK, StatementTypeOK
<1>8. StepOwns'
  <2>1. \A u \in Threads : call[u].at \in InStep => call[u].st \in Statements /\ call[u].handle # None
    BY DEF StepOwns, TypeOK, StatementTypeOK
  <2> QED
    BY <1>1, <1>2, <2>1 DEF StepOwns, Live
<1>9. FlagsTellUse'
  BY <1>1, <1>2, <1>5 DEF FlagsTellUse
<1> QED
  BY <1>3, <1>4, <1>6, <1>7, <1>8, <1>9

(* Nobody is in the middle of a call when the connection releases a handle. *)
Releasing(t) == confinement = t /\ call[t].at \in {"idle", "finalizing"}

LEMMA NobodyElse ==
  ASSUME CallsAreConfined, NEW t \in Threads, Releasing(t)
  PROVE  /\ \A u \in Threads : call[u].at \in {"idle", "cancelling", "finalizing"}
         /\ \A h \in Handles : PreparedBy(h) = {}
BY DEF CallsAreConfined, Releasing, PreparedBy

(* What every release of a handle leaves as it was, but for the handle.    *)
LEMMA ReleaseKeeps ==
  ASSUME IndInv, NEW t \in Threads, Releasing(t), made # 0 \/ database # "none",
         DOMAIN cache' \subseteq SQLs,
         \A x \in DOMAIN cache' : cache'[x] \in Handles \union {None},
         statement' \in [Statements -> StatementFields],
         native' \in [Handles -> NativeFields],
         \A h \in Handles : native[h].state = "none" => native'[h].state = "none",
         registry' \subseteq registry,
         UNCHANGED <<confinement, opened, disposed, database, made,
                     handler, progressMemory, cancelFlag, call>>
  PROVE  /\ TypeOK' /\ Lifecycle' /\ CallsAreConfined' /\ CancelWritesOwnedMemory'
         /\ PrepareOwns' /\ StepOwns'
<1> USE DEF IndInv
<1>1. \A u \in Threads : call[u].at \in {"idle", "cancelling", "finalizing"}
  BY NobodyElse
<1>2. TypeOK'
  BY DEF TypeOK, StatementTypeOK
<1>3. Lifecycle'
  BY <1>1 DEF Lifecycle, InUse
<1>4. CallsAreConfined' /\ CancelWritesOwnedMemory'
  BY DEF CallsAreConfined, CancelWritesOwnedMemory
<1>5. PrepareOwns' /\ StepOwns'
  BY <1>1 DEF PrepareOwns, StepOwns, InStep
<1> QED
  BY <1>2, <1>3, <1>4, <1>5

LEMMA FinalizeStatementStep ==
  ASSUME IndInv, NEW t \in Threads, Releasing(t), NEW s \in Statements, s <= made,
         FinalizeStatement(s),
         UNCHANGED <<connectionVars, made, handlerVars, call>>
  PROVE  IndInv'
<1> USE DEF IndInv
<1> DEFINE h == statement[s].handle
<1>1. /\ UNCHANGED <<confinement, opened, disposed, database, made,
                     handler, progressMemory, cancelFlag, call>>
      /\ statement' = [statement EXCEPT ![s] = Cleared(@)]
      /\ registry' = registry \ {s}
      /\ cache' = ForgetCachedHandle(cache, h, statement[s].sql)
      /\ native' = IF h = None THEN native ELSE [native EXCEPT ![h].state = "finalized"]
  BY DEF FinalizeStatement, FinalizeHandle, connectionVars, handlerVars
<1>2. /\ h \in Handles \union {None}
      /\ statement[s].sql \in SQLs \union {NoSQL}
  BY DEF TypeOK, StatementTypeOK, StatementFields
<1>3. /\ statement' \in [Statements -> StatementFields]
      /\ \A r \in Statements \ {s} : statement'[r] = statement[r]
      /\ statement'[s].handle = None /\ statement'[s].controller = "disposed"
  BY <1>1, ClearedStatement
<1>4. /\ native' \in [Handles -> NativeFields]
      /\ \A g \in Handles \ {h} : native'[g] = native[g]
      /\ h # None => native'[h].state = "finalized"
  <2>1. CASE h = None
    BY <1>1, <2>1 DEF TypeOK, StatementTypeOK
  <2>2. CASE h # None
    <3>1. h \in Handles /\ native[h] \in NativeFields
      BY <1>2, <2>2 DEF TypeOK, StatementTypeOK
    <3>2. [native[h] EXCEPT !.state = "finalized"] \in NativeFields
      BY <3>1 DEF NativeFields, NativeStates
    <3> QED
      BY <1>1, <2>2, <3>1, <3>2 DEF TypeOK, StatementTypeOK, NativeFields
  <2> QED
    BY <2>1, <2>2
<1>5. /\ DOMAIN cache' \subseteq DOMAIN cache
      /\ \A x \in DOMAIN cache' : cache'[x] = cache[x]
      /\ \A x \in DOMAIN cache : cache[x] # None => x \in DOMAIN cache' /\ cache[x] # h
  BY <1>1, <1>2, ForgetsOnlyThat DEF CacheOwns
<1>6. h # None => Valid(s) /\ native[h].state \notin {"none", "finalized"}
  BY DEF StatementsOwn, Live
<1> HIDE DEF h
<1>7. /\ TypeOK' /\ Lifecycle' /\ CallsAreConfined' /\ CancelWritesOwnedMemory'
      /\ PrepareOwns' /\ StepOwns'
  <2>1. made # 0
    BY DEF TypeOK, StatementTypeOK
  <2>2. \A g \in Handles : native[g].state = "none" => native'[g].state = "none"
    BY <1>4, <1>6
  <2>3. DOMAIN cache' \subseteq SQLs /\ \A x \in DOMAIN cache' : cache'[x] \in Handles \union {None}
    BY <1>5 DEF TypeOK
  <2> QED
    BY <1>1, <1>3, <1>4, <2>1, <2>2, <2>3, ReleaseKeeps
<1>8. \A r \in Statements : Valid(r)' <=> Valid(r) /\ r # s
  BY <1>3 DEF Valid
<1>9. \A r \in Statements : Valid(r) /\ r # s =>
        /\ statement'[r] = statement[r]
        /\ statement[r].handle \in Handles
        /\ native'[statement[r].handle] = native[statement[r].handle]
  <2> SUFFICES ASSUME NEW r \in Statements, Valid(r), r # s
               PROVE  statement[r].handle \in Handles \ {h}
    BY <1>3, <1>4
  <2> QED
    BY ValidStatement DEF StatementsOwn, h
<1>10. StatementsOwn'
  <2> SUFFICES ASSUME NEW r \in Statements
               PROVE  /\ r > made => statement'[r] = Blank /\ r \notin registry'
                      /\ r <= made => statement'[r].controller # "none"
                      /\ Valid(r)' <=> statement'[r].handle # None
                      /\ Valid(r)' => /\ native'[statement'[r].handle].state \notin {"none", "finalized"}
                                      /\ statement'[r].sql = native'[statement'[r].handle].sql
                                      /\ statement'[r].sql \in SQLs
                      /\ \A x \in Statements :
                           Valid(r)' /\ statement'[x].handle = statement'[r].handle => x = r
    BY <1>1 DEF StatementsOwn, Live
  <2>1. CASE r = s
    BY <1>3, <1>8, <2>1 DEF TypeOK, StatementTypeOK
  <2>2. CASE r # s
    <3>1. statement'[r] = statement[r]
      BY <1>3, <2>2
    <3>2. \A x \in Statements :
            Valid(r) /\ statement'[x].handle = statement[r].handle => x = r
      BY <1>3, <1>9, <2>2 DEF StatementsOwn
    <3>3. Valid(r) => native'[statement[r].handle] = native[statement[r].handle]
      BY <1>9, <2>2
    <3> QED
      BY <1>1, <1>8, <2>2, <3>1, <3>2, <3>3 DEF StatementsOwn, Live
  <2> QED
    BY <2>1, <2>2
<1>11. CacheOwns' /\ CacheIsClean'
  <2>1. \A x \in DOMAIN cache' : cache'[x] # None => cache'[x] \in Handles \ {h}
    BY <1>5 DEF TypeOK
  <2> QED
    BY <1>3, <1>4, <1>5, <2>1 DEF CacheOwns, CacheIsClean, Compiled
<1>12. FlagsTellUse'
  <2> SUFFICES ASSUME NEW r \in Statements, Valid(r)'
               PROVE  /\ ~statement'[r].hasBindings => ~native'[statement'[r].handle].bound
                      /\ ~statement'[r].stepped /\ native'[statement'[r].handle].state # "ready" =>
                           \E u \in Threads : call[u].at = "stepped" /\ call[u].st = r
    BY <1>1 DEF FlagsTellUse
  <2>1. /\ Valid(r) /\ statement'[r] = statement[r]
        /\ native'[statement[r].handle] = native[statement[r].handle]
    BY <1>8, <1>9
  <2> QED
    BY <2>1 DEF FlagsTellUse
<1>13. NothingForgotten'
  <2> SUFFICES ASSUME Assertions PROVE HandleNotLost' /\ RegistryIsExact' /\ ClosesCleanly'
    BY DEF NothingForgotten
  <2>1. RegistryIsExact'
    BY <1>1, <1>3 DEF NothingForgotten, RegistryIsExact
  <2>2. HandleNotLost'
    <3> SUFFICES ASSUME NEW g \in Handles, native'[g].state \notin {"none", "finalized"}
                 PROVE  \/ \E r \in Statements : statement'[r].handle = g
                        \/ \E x \in DOMAIN cache' : cache'[x] = g
      BY <1>1 DEF HandleNotLost, StatementsOf, CachedFor, Live
    <3>1. g # h /\ Live(g)
      BY <1>2, <1>4 DEF Live
    <3>2. \/ \E r \in Statements : statement[r].handle = g
          \/ \E x \in DOMAIN cache : cache[x] = g
      BY <3>1, NobodyElse DEF NothingForgotten, HandleNotLost, StatementsOf, CachedFor
    <3> QED
      BY <1>3, <1>5, <3>1, <3>2 DEF h
  <2> QED
    BY <1>1, <2>1, <2>2 DEF NothingForgotten, ClosesCleanly
<1> QED
  BY <1>7, <1>10, <1>11, <1>12, <1>13

LEMMA CacheHandleStep ==
  ASSUME IndInv, NEW t \in Threads, NEW s \in Statements,
         Usable(t), Valid(s), CacheStatementHandle(s),
         UNCHANGED <<connectionVars, made, handlerVars, call>>
  PROVE  IndInv'
<1> USE DEF IndInv
<1> DEFINE st == statement[s]
           h == st.handle
           reset == IF st.stepped THEN ResetHandle(native[h]) ELSE native[h]
           clean == IF st.hasBindings THEN Unbound(reset) ELSE reset
<1>1. Releasing(t)
  BY DEF Releasing, Usable, Confined
<1>2. /\ s <= made /\ st \in StatementFields /\ h \in Handles /\ native[h] \in NativeFields
      /\ native[h].state \notin {"none", "finalized"}
      /\ st.sql = native[h].sql /\ st.sql \in SQLs
  BY ValidStatement DEF StatementsOwn
<1>3. CASE FinalizeStatement(s)
  BY <1>1, <1>2, <1>3, FinalizeStatementStep
<1>4. CASE /\ CachedHandle(st.sql) = None
           /\ native' = [native EXCEPT ![h] = clean]
           /\ statement' = [statement EXCEPT ![s] = Cleared(@)]
           /\ registry' = registry \ {s}
           /\ cache' = Put(cache, st.sql, h)
  <2>1. clean = Compiled(st.sql)
    <3>1. \A u \in Threads : call[u].at # "stepped"
      BY <1>1, NobodyElse
    <3>2. /\ ~st.hasBindings => ~native[h].bound
          /\ ~st.stepped => native[h].state = "ready"
      BY <3>1 DEF FlagsTellUse
    <3>3. /\ reset \in NativeFields /\ reset.sql = st.sql /\ reset.state = "ready"
          /\ reset.bound = native[h].bound
      BY <1>2, <3>2 DEF ResetHandle, NativeFields, NativeStates
    <3> HIDE DEF reset
    <3>4. /\ clean \in NativeFields /\ clean.sql = st.sql /\ clean.state = "ready"
          /\ ~clean.bound
      BY <3>2, <3>3 DEF Unbound, NativeFields
    <3> QED
      BY <3>4 DEF NativeFields, Compiled
  <2> HIDE DEF clean, reset
  <2>2. /\ UNCHANGED <<confinement, opened, disposed, database, made,
                       handler, progressMemory, cancelFlag, call>>
    BY DEF connectionVars, handlerVars
  <2>3. /\ native' \in [Handles -> NativeFields]
        /\ \A g \in Handles \ {h} : native'[g] = native[g]
        /\ native'[h] = Compiled(st.sql)
    BY <1>2, <1>4, <2>1 DEF TypeOK, StatementTypeOK, Compiled, NativeFields, NativeStates
  <2>4. /\ statement' \in [Statements -> StatementFields]
        /\ \A r \in Statements \ {s} : statement'[r] = statement[r]
        /\ statement'[s].handle = None /\ statement'[s].controller = "disposed"
    BY <1>4, ClearedStatement
  <2>5. /\ DOMAIN cache' = DOMAIN cache \union {st.sql}
        /\ cache'[st.sql] = h
        /\ \A x \in DOMAIN cache \ {st.sql} : cache'[x] = cache[x]
        /\ st.sql \in DOMAIN cache => cache[st.sql] = None
    BY <1>4 DEF Put, CachedHandle
  <2>6. \A x \in DOMAIN cache : cache[x] # None => cache[x] \in Handles \ {h}
    BY <1>2 DEF CacheOwns, TypeOK
  <2>7. /\ TypeOK' /\ Lifecycle' /\ CallsAreConfined' /\ CancelWritesOwnedMemory'
        /\ PrepareOwns' /\ StepOwns'
    <3>1. made # 0
      BY <1>2 DEF TypeOK, StatementTypeOK
    <3>2. \A g \in Handles : native[g].state = "none" => native'[g].state = "none"
      BY <1>2, <2>3
    <3>3. DOMAIN cache' \subseteq SQLs /\ \A x \in DOMAIN cache' : cache'[x] \in Handles \union {None}
      BY <1>2, <2>5 DEF TypeOK
    <3> QED
      BY <1>1, <1>4, <2>2, <2>3, <2>4, <3>1, <3>2, <3>3, ReleaseKeeps
  <2>8. \A r \in Statements : Valid(r)' <=> Valid(r) /\ r # s
    BY <2>4 DEF Valid
  <2>9. \A r \in Statements : Valid(r) /\ r # s =>
          /\ statement'[r] = statement[r]
          /\ statement[r].handle \in Handles \ {h}
          /\ native'[statement[r].handle] = native[statement[r].handle]
    <3> SUFFICES ASSUME NEW r \in Statements, Valid(r), r # s
                 PROVE  statement[r].handle \in Handles \ {h}
      BY <2>3, <2>4
    <3> QED
      BY ValidStatement DEF StatementsOwn
  <2>10. StatementsOwn'
    <3> SUFFICES ASSUME NEW r \in Statements
                 PROVE  /\ r > made => statement'[r] = Blank /\ r \notin registry'
                        /\ r <= made => statement'[r].controller # "none"
                        /\ Valid(r)' <=> statement'[r].handle # None
                        /\ Valid(r)' => /\ native'[statement'[r].handle].state \notin {"none", "finalized"}
                                        /\ statement'[r].sql = native'[statement'[r].handle].sql
                                        /\ statement'[r].sql \in SQLs
                        /\ \A x \in Statements :
                             Valid(r)' /\ statement'[x].handle = statement'[r].handle => x = r
      BY <2>2 DEF StatementsOwn, Live
    <3>1. CASE r = s
      BY <1>2, <2>4, <2>8, <3>1 DEF TypeOK, StatementTypeOK
    <3>2. CASE r # s
      <4>1. statement'[r] = statement[r]
        BY <2>4, <3>2
      <4>2. \A x \in Statements :
              Valid(r) /\ statement'[x].handle = statement[r].handle => x = r
        BY <2>4, <2>9, <3>2 DEF StatementsOwn
      <4>3. Valid(r) => native'[statement[r].handle] = native[statement[r].handle]
        BY <2>9, <3>2
      <4> QED
        BY <1>4, <2>8, <3>2, <4>1, <4>2, <4>3 DEF StatementsOwn, Live
    <3> QED
      BY <3>1, <3>2
  <2>11. CacheOwns'
    BY <1>2, <2>4, <2>5, <2>9 DEF CacheOwns, StatementsOwn
  <2>12. CacheIsClean'
    <3> SUFFICES ASSUME NEW x \in DOMAIN cache', cache'[x] # None
                 PROVE  native'[cache'[x]] = Compiled(x)
      BY DEF CacheIsClean, Compiled
    <3>1. CASE x = st.sql
      BY <2>3, <2>5, <3>1
    <3>2. CASE x # st.sql
      BY <2>3, <2>5, <2>6, <3>2 DEF CacheIsClean
    <3> QED
      BY <3>1, <3>2
  <2>13. FlagsTellUse'
    <3> SUFFICES ASSUME NEW r \in Statements, Valid(r)'
                 PROVE  /\ ~statement'[r].hasBindings => ~native'[statement'[r].handle].bound
                        /\ ~statement'[r].stepped /\ native'[statement'[r].handle].state # "ready" =>
                             \E u \in Threads : call[u].at = "stepped" /\ call[u].st = r
      BY <2>2 DEF FlagsTellUse
    <3>1. /\ Valid(r) /\ statement'[r] = statement[r]
          /\ native'[statement[r].handle] = native[statement[r].handle]
      BY <2>8, <2>9
    <3> QED
      BY <3>1 DEF FlagsTellUse
  <2>14. NothingForgotten'
    <3> SUFFICES ASSUME Assertions PROVE HandleNotLost' /\ RegistryIsExact' /\ ClosesCleanly'
      BY DEF NothingForgotten
    <3>1. RegistryIsExact'
      BY <1>4, <2>4 DEF NothingForgotten, RegistryIsExact
    <3>2. HandleNotLost'
      <4> SUFFICES ASSUME NEW g \in Handles, native'[g].state \notin {"none", "finalized"}
                   PROVE  \/ \E r \in Statements : statement'[r].handle = g
                          \/ \E x \in DOMAIN cache' : cache'[x] = g
        BY <2>2 DEF HandleNotLost, StatementsOf, CachedFor, Live
      <4>1. CASE g = h
        BY <2>5, <4>1
      <4>2. CASE g # h
        <5>1. \/ \E r \in Statements : statement[r].handle = g
              \/ \E x \in DOMAIN cache : cache[x] = g
          BY <1>1, <2>3, <4>2, NobodyElse
             DEF NothingForgotten, HandleNotLost, StatementsOf, CachedFor, Live
        <5> QED
          BY <2>4, <2>5, <4>2, <5>1
      <4> QED
        BY <4>1, <4>2
    <3> QED
      BY <2>2, <3>1, <3>2 DEF NothingForgotten, ClosesCleanly
  <2> QED
    BY <2>7, <2>10, <2>11, <2>12, <2>13, <2>14
<1> QED
  BY <1>3, <1>4 DEF CacheStatementHandle

LEMMA FinalizeNextCachedStep ==
  ASSUME IndInv, NEW t \in Threads, FinalizeNextCached(t)
  PROVE  IndInv'
<1> USE DEF IndInv
<1>1. PICK q \in DOMAIN cache :
        /\ FinalizeHandle(cache[q])
        /\ cache' = ForgetCachedHandle(cache, cache[q], q)
  BY DEF FinalizeNextCached
<1> DEFINE h == cache[q]
<1>2. /\ call[t].at = "finalizing" /\ registry = {} /\ Releasing(t)
      /\ database = "open"
      /\ UNCHANGED <<confinement, opened, disposed, database, statement, made,
                     handler, progressMemory, cancelFlag, registry, call>>
      /\ native' = IF h = None THEN native ELSE [native EXCEPT ![h].state = "finalized"]
  BY <1>1 DEF FinalizeNextCached, FinalizeHandle, CallsAreConfined, Lifecycle, Releasing,
              connectionVars, handlerVars
<1>3. q \in SQLs /\ h \in Handles \union {None}
  BY DEF TypeOK
<1>4. /\ native' \in [Handles -> NativeFields]
      /\ \A g \in Handles \ {h} : native'[g] = native[g]
      /\ h # None => native'[h].state = "finalized"
  <2>1. CASE h = None
    BY <1>2, <2>1 DEF TypeOK, StatementTypeOK
  <2>2. CASE h # None
    <3>1. h \in Handles /\ native[h] \in NativeFields
      BY <1>3, <2>2 DEF TypeOK, StatementTypeOK
    <3>2. [native[h] EXCEPT !.state = "finalized"] \in NativeFields
      BY <3>1 DEF NativeFields, NativeStates
    <3> QED
      BY <1>2, <2>2, <3>1, <3>2 DEF TypeOK, StatementTypeOK, NativeFields
  <2> QED
    BY <2>1, <2>2
<1>5. /\ DOMAIN cache' = DOMAIN cache \ {q}
      /\ \A x \in DOMAIN cache' : cache'[x] = cache[x]
  BY <1>1 DEF ForgetCachedHandle, Remove, Restrict
<1>6. h # None => /\ native[h].state = "ready"
                  /\ \A x \in DOMAIN cache' : cache[x] # h
                  /\ \A s \in Statements : statement[s].handle # h
  BY <1>5, CompiledFields DEF CacheIsClean, CacheOwns
<1> HIDE DEF h
<1>7. /\ TypeOK' /\ Lifecycle' /\ CallsAreConfined' /\ CancelWritesOwnedMemory'
      /\ PrepareOwns' /\ StepOwns'
  <2>1. \A g \in Handles : native[g].state = "none" => native'[g].state = "none"
    BY <1>4, <1>6
  <2>2. DOMAIN cache' \subseteq SQLs /\ \A x \in DOMAIN cache' : cache'[x] \in Handles \union {None}
    BY <1>5 DEF TypeOK
  <2>3. statement' \in [Statements -> StatementFields] /\ registry' \subseteq registry
    BY <1>2 DEF TypeOK, StatementTypeOK
  <2> QED
    BY <1>2, <1>4, <2>1, <2>2, <2>3, ReleaseKeeps
<1>8. \A s \in Statements : Valid(s) =>
        /\ statement[s].handle \in Handles
        /\ native'[statement[s].handle] = native[statement[s].handle]
  BY <1>4, <1>6, ValidStatement
<1>9. StatementsOwn'
  <2>1. \A s \in Statements : Valid(s)' <=> Valid(s)
    BY <1>2 DEF Valid
  <2>2. \A s \in Statements : Valid(s) =>
          /\ native'[statement[s].handle].state \notin {"none", "finalized"}
          /\ statement[s].sql = native'[statement[s].handle].sql
    BY <1>8 DEF StatementsOwn, Live
  <2> QED
    BY <1>2, <2>1, <2>2 DEF StatementsOwn, Live
<1>10. CacheOwns'
  BY <1>2, <1>5 DEF CacheOwns
<1>11. CacheIsClean'
  <2>1. \A x \in DOMAIN cache' : cache'[x] # None => cache'[x] \in Handles \ {h}
    BY <1>5, <1>6 DEF TypeOK
  <2> QED
    BY <1>4, <1>5, <2>1 DEF CacheIsClean, Compiled
<1>12. FlagsTellUse'
  <2> SUFFICES ASSUME NEW s \in Statements, Valid(s)
               PROVE  /\ ~statement[s].hasBindings => ~native'[statement[s].handle].bound
                      /\ ~statement[s].stepped /\ native'[statement[s].handle].state # "ready" =>
                           \E u \in Threads : call[u].at = "stepped" /\ call[u].st = s
    BY <1>2 DEF FlagsTellUse, Valid
  <2> QED
    BY <1>8 DEF FlagsTellUse
<1>13. NothingForgotten'
  <2> SUFFICES ASSUME Assertions, NEW g \in Handles, native'[g].state \notin {"none", "finalized"}
               PROVE  \/ \E r \in Statements : statement[r].handle = g
                      \/ \E x \in DOMAIN cache' : cache'[x] = g
    BY <1>2 DEF NothingForgotten, HandleNotLost, RegistryIsExact, ClosesCleanly,
                StatementsOf, CachedFor, Live
  <2>1. g # h /\ Live(g)
    BY <1>3, <1>4 DEF Live
  <2>2. \/ \E r \in Statements : statement[r].handle = g
        \/ \E x \in DOMAIN cache : cache[x] = g
    BY <1>2, <2>1, NobodyElse DEF NothingForgotten, HandleNotLost, StatementsOf, CachedFor
  <2> QED
    BY <1>5, <2>1, <2>2 DEF h
<1> QED
  BY <1>7, <1>9, <1>10, <1>11, <1>12, <1>13

(***************************************************************************)
(* The invariant.                                                          *)
(***************************************************************************)
LEMMA InitIndInv == Init => IndInv
<1> SUFFICES ASSUME Init PROVE IndInv
  OBVIOUS
<1> USE DEF Init, StatementInit
<1>1. Blank \in StatementFields /\ Idle \in Calls /\ Idle.at = "idle"
  BY CallTypes DEF Blank, StatementFields, Controllers, Places
<1>2. /\ \A h \in Handles : native[h].state = "none"
      /\ native \in [Handles -> NativeFields]
  BY DEF NativeFields, NativeStates
<1>3. \A s \in Statements : statement[s] = Blank /\ statement[s].handle = None /\ ~Valid(s)
  BY DEF Blank, Valid
<1>4. TypeOK
  <2>1. StatementTypeOK
    <3>1. statement \in [Statements -> StatementFields]
      BY <1>1
    <3>2. made \in 0 .. MaxStatements
      OBVIOUS
    <3> QED
      BY <1>2, <3>1, <3>2 DEF StatementTypeOK
  <2>2. call \in [Threads -> Calls]
    BY <1>1
  <2>3. DOMAIN cache = {}
    OBVIOUS
  <2> QED
    BY <2>1, <2>2, <2>3 DEF TypeOK
<1>5. \A t \in Threads : call[t].at = "idle"
  BY <1>1
<1>6. Lifecycle /\ CallsAreConfined /\ CancelWritesOwnedMemory
  BY <1>2, <1>5 DEF Lifecycle, CallsAreConfined, CancelWritesOwnedMemory, InUse, Live
<1>7. StatementsOwn /\ FlagsTellUse
  BY <1>3 DEF StatementsOwn, FlagsTellUse
<1>8. CacheOwns /\ CacheIsClean
  BY DEF CacheOwns, CacheIsClean
<1>9. PrepareOwns /\ StepOwns
  BY <1>2, <1>5 DEF PrepareOwns, StepOwns, InStep
<1>10. NothingForgotten
  BY <1>2, <1>3 DEF NothingForgotten, HandleNotLost, RegistryIsExact, ClosesCleanly, Live
<1> QED
  BY <1>4, <1>6, <1>7, <1>8, <1>9, <1>10 DEF IndInv

LEMMA StutterStep == IndInv /\ UNCHANGED vars => IndInv'
<1> SUFFICES ASSUME IndInv, UNCHANGED vars PROVE IndInv'
  OBVIOUS
<1> USE DEF IndInv, vars, connectionVars, statementVars, handlerVars
<1>1. TypeOK' /\ Lifecycle' /\ CallsAreConfined' /\ CancelWritesOwnedMemory'
  BY DEF TypeOK, StatementTypeOK, Lifecycle, CallsAreConfined, CancelWritesOwnedMemory, Live
<1>2. StatementsOwn' /\ CacheOwns' /\ CacheIsClean' /\ FlagsTellUse'
  BY DEF StatementsOwn, CacheOwns, CacheIsClean, FlagsTellUse, Valid, Live
<1>3. PrepareOwns' /\ StepOwns'
  BY DEF PrepareOwns, StepOwns, Live
<1>4. NothingForgotten'
  BY DEF NothingForgotten, HandleNotLost, RegistryIsExact, ClosesCleanly, StatementsOf,
         CachedFor, PreparedBy, Live
<1> QED
  BY <1>1, <1>2, <1>3, <1>4

LEMMA DisposeStatementStep ==
  ASSUME IndInv, NEW t \in Threads, NEW s \in Statements, DisposeStatement(t, s)
  PROVE  IndInv'
<1>1. s <= made /\ Releasing(t)
  BY ValidStatement DEF IndInv, DisposeStatement, Usable, Confined, Releasing
<1>2. CASE CacheStatementHandle(s)
  BY <1>2, CacheHandleStep DEF DisposeStatement
<1>3. CASE FinalizeStatement(s)
  BY <1>1, <1>3, FinalizeStatementStep DEF DisposeStatement
<1> QED
  BY <1>2, <1>3 DEF DisposeStatement

LEMMA FinalizeNextStatementStep ==
  ASSUME IndInv, NEW t \in Threads, FinalizeNextStatement(t)
  PROVE  IndInv'
<1>1. PICK s \in registry : FinalizeStatement(s)
  BY DEF FinalizeNextStatement
<1>2. s \in Statements /\ s <= made
  BY DEF IndInv, TypeOK, StatementTypeOK, StatementsOwn
<1>3. Releasing(t)
  BY DEF IndInv, CallsAreConfined, FinalizeNextStatement, Releasing
<1> QED
  BY <1>1, <1>2, <1>3, FinalizeStatementStep DEF FinalizeNextStatement

LEMMA NextIndInv == IndInv /\ [Next]_vars => IndInv'
<1> SUFFICES ASSUME IndInv, Next PROVE IndInv'
  BY StutterStep
<1>1. PICK t \in Threads : Begin(t) \/ Continue(t) \/ Finish(t)
  BY DEF Next
<1>2. CASE Begin(t)
  <2>1. CASE Open(t) \/ Dispose(t) \/ Exec(t)
    BY <2>1, OpenStep, DisposeStep, ExecStep
  <2>2. ASSUME NEW q \in SQLs, NEW cached \in BOOLEAN, Prepare(t, q, cached) PROVE IndInv'
    BY <2>2, PrepareStep
  <2>3. ASSUME NEW s \in Statements, Configure(t, s) \/ Step(t, s) \/ Load(t, s) \/ Cancel(t, s)
        PROVE  IndInv'
    BY <2>3, ConfigureStep, StartStepStep, CancelStep DEF Step, Load
  <2>4. ASSUME NEW s \in Statements, DisposeStatement(t, s) \/ DisposeStatementElsewhere(t, s)
        PROVE  IndInv'
    BY <2>4, DisposeStatementStep, DisposeElsewhereStep
  <2> QED
    BY <1>2, <2>1, <2>2, <2>3, <2>4 DEF Begin
<1>3. CASE Continue(t)
  <2>1. CASE OpenSucceeds(t) \/ OpenFails(t) \/ Compile(t) \/ Throw(t) \/ Instantiate(t)
    BY <2>1, OpenSucceedsStep, CompileStep, InstantiateStep, ReturnStep
  <2>2. CASE CompileFails(t, "error") \/ CompileFails(t, "interrupt")
    BY <2>2, CompileFailsStep
  <2>3. CASE RefuseStep(t) \/ RunStep(t) \/ StepReturns(t, "interrupt") \/ EndStep(t)
    BY <2>3, ReturnStep, RunStepStep, StepReturnsStep, EndStepStep
  <2>4. CASE ExecReturns(t, "interrupt") \/ EndExec(t) \/ CancelHandler(t)
    BY <2>4, ExecReturnsStep, ReturnStep
  <2>5. CASE FinalizeNextStatement(t) \/ FinalizeNextCached(t) \/ DisposeHandler(t) \/ Close(t)
    BY <2>5, FinalizeNextStatementStep, FinalizeNextCachedStep, DisposeHandlerStep, CloseStep
  <2> QED
    BY <1>3, <2>1, <2>2, <2>3, <2>4, <2>5 DEF Continue
<1>4. CASE Finish(t)
  BY <1>4, StepReturnsStep, ExecReturnsStep DEF Finish
<1> QED
  BY <1>1, <1>2, <1>3, <1>4

(* The inductive invariant holds for any SQL texts, threads and number of  *)
(* statements, with and without assertions.                                *)
THEOREM Invariance == Spec => []IndInv
<1> QED
  BY InitIndInv, NextIndInv, PTL DEF Spec

(* Every variable keeps its type.                                          *)
THEOREM TypeCorrect == Spec => []TypeOK
<1>1. IndInv => TypeOK
  BY DEF IndInv
<1> QED
  BY <1>1, Invariance, PTL

LEMMA OneOwner == IndInv => HandleNotShared
<1> SUFFICES ASSUME IndInv, NEW h \in Handles
             PROVE  /\ AtMostOne(StatementsOf(h)) /\ AtMostOne(CachedFor(h)) /\ AtMostOne(PreparedBy(h))
                    /\ Apart(StatementsOf(h), CachedFor(h))
                    /\ Apart(StatementsOf(h), PreparedBy(h))
                    /\ Apart(CachedFor(h), PreparedBy(h))
                    /\ ~Live(h) => StatementsOf(h) \union CachedFor(h) = {} /\ PreparedBy(h) = {}
  BY DEF HandleNotShared
<1> USE DEF IndInv
<1>1. AtMostOne(StatementsOf(h))
  BY DEF AtMostOne, StatementsOf, StatementsOwn
<1>2. AtMostOne(CachedFor(h))
  BY CompiledFields DEF AtMostOne, CachedFor, CacheIsClean
<1>3. AtMostOne(PreparedBy(h))
  BY DEF AtMostOne, PreparedBy, CallsAreConfined
<1>4. Apart(StatementsOf(h), CachedFor(h))
  BY DEF Apart, StatementsOf, CachedFor, CacheOwns
<1>5. Apart(StatementsOf(h), PreparedBy(h)) /\ Apart(CachedFor(h), PreparedBy(h))
  BY DEF Apart, StatementsOf, CachedFor, PreparedBy, PrepareOwns
<1>6. ASSUME ~Live(h) PROVE StatementsOf(h) = {} /\ CachedFor(h) = {} /\ PreparedBy(h) = {}
  <2>1. StatementsOf(h) = {}
    BY <1>6 DEF StatementsOf, StatementsOwn
  <2>2. CachedFor(h) = {}
    BY <1>6, CompiledFields DEF CachedFor, CacheIsClean, Live
  <2>3. PreparedBy(h) = {}
    BY <1>6, CompiledFields DEF PreparedBy, PrepareOwns, Live
  <2> QED
    BY <2>1, <2>2, <2>3
<1> QED
  BY <1>1, <1>2, <1>3, <1>4, <1>5, <1>6

(* A compiled handle never has two users, and nobody keeps one that was    *)
(* finalized: prepare(), cacheStatementHandle(), forgetCachedHandle().     *)
THEOREM HandlesHaveOneUser == Spec => []HandleNotShared
<1> QED
  BY OneOwner, Invariance, PTL

(* What the cache hands out is as good as a new handle, whatever happened  *)
(* to its last user: cacheStatementHandle(), stepResult().                 *)
THEOREM CachedHandlesAreClean == Spec => []CacheIsClean
<1>1. IndInv => CacheIsClean
  BY DEF IndInv
<1> QED
  BY <1>1, Invariance, PTL

(* A call on the connection stays with its thread from the first block to  *)
(* the last, although others call open0() and dispose().                   *)
THEOREM CallsStayConfined == Spec => []CallsAreConfined
<1>1. IndInv => CallsAreConfined
  BY DEF IndInv
<1> QED
  BY <1>1, Invariance, PTL

(* A late ProgressHandler.cancel() does not write into freed memory.       *)
THEOREM FlagIsOwned == Spec => []CancelWritesOwnedMemory
<1>1. IndInv => CancelWritesOwnedMemory
  BY DEF IndInv
<1> QED
  BY <1>1, Invariance, PTL

(* With assertions, no compiled handle is forgotten by all who could       *)
(* release it: dispose() of statements and of the connection.              *)
THEOREM HandlesAreNeverLost == ASSUME Assertions PROVE Spec => []HandleNotLost
<1>1. IndInv => HandleNotLost
  BY DEF IndInv, NothingForgotten
<1> QED
  BY <1>1, Invariance, PTL

(* With assertions, myStatements lists exactly the statements that have    *)
(* not been disposed of.                                                   *)
THEOREM RegistryCorrect == ASSUME Assertions PROVE Spec => []RegistryIsExact
<1>1. IndInv => RegistryIsExact
  BY DEF IndInv, NothingForgotten
<1> QED
  BY <1>1, Invariance, PTL

(* With assertions, dispose() finalizes every handle before sqlite3_close. *)
THEOREM CloseSucceeds == ASSUME Assertions PROVE Spec => []ClosesCleanly
<1>1. IndInv => ClosesCleanly
  BY DEF IndInv, NothingForgotten
<1> QED
  BY <1>1, Invariance, PTL

LEMMA AfterDispose ==
  ASSUME IndInv, IndInv', Next, disposed
  PROVE  /\ disposed' /\ ~opened'
         /\ made' = made
         /\ database' = "open" => database = "open"
         /\ \A h \in Handles : Live(h)' => Live(h)
<1> USE DEF IndInv
<1>1. PICK t \in Threads : Begin(t) \/ Continue(t) \/ Finish(t)
  BY DEF Next
<1>2. ~opened /\ call[t].at \notin InUse /\ call[t].at # "opening"
  BY DEF Lifecycle
<1>3. disposed'
  BY <1>1, <1>2 DEF Begin, Continue, Finish, Open, Dispose, Exec, Prepare, Configure, Step, Load,
     StartStep, Cancel, DisposeStatement, DisposeStatementElsewhere, OpenSucceeds, OpenFails,
     Compile, CompileFails, Throw, Instantiate, RefuseStep, RunStep, StepReturns, EndStep,
     ExecReturns, EndExec, CancelHandler, FinalizeNextStatement, FinalizeNextCached,
     DisposeHandler, Close, connectionVars
<1>4. ~opened'
  BY <1>3 DEF Lifecycle
<1>5. \/ Open(t) \/ Dispose(t) \/ CancelHandler(t) \/ DisposeHandler(t) \/ Close(t)
      \/ FinalizeNextCached(t) \/ FinalizeNextStatement(t)
      \/ \E s \in Statements : Cancel(t, s) \/ DisposeStatementElsewhere(t, s)
  BY <1>1, <1>2 DEF Begin, Continue, Finish, Exec, Prepare, Configure, Step, Load,
     StartStep, DisposeStatement, Usable, Confined, OpenSucceeds, OpenFails,
     Compile, CompileFails, Throw, Instantiate, RefuseStep, RunStep, StepReturns, EndStep,
     ExecReturns, EndExec, InUse
<1>6. made' = made /\ (database' = "open" => database = "open")
  BY <1>5 DEF Open, Dispose, CancelHandler, DisposeHandler, Close, FinalizeNextCached,
     FinalizeNextStatement, Cancel, DisposeStatementElsewhere, connectionVars, statementVars
<1>7. \/ UNCHANGED native
      \/ \E h \in Handles \union {None} : FinalizeHandle(h)
  <2>1. CASE FinalizeNextStatement(t)
    BY <2>1 DEF FinalizeNextStatement, FinalizeStatement, TypeOK, StatementTypeOK, StatementFields
  <2>2. CASE FinalizeNextCached(t)
    BY <2>2 DEF FinalizeNextCached, TypeOK
  <2> QED
    BY <1>5, <2>1, <2>2 DEF Open, Dispose, CancelHandler, DisposeHandler, Close, Cancel,
       DisposeStatementElsewhere, statementVars
<1>8. \A h \in Handles : Live(h)' => Live(h)
  <2>1. CASE UNCHANGED native
    BY <2>1 DEF Live
  <2>2. ASSUME NEW g \in Handles, native' = [native EXCEPT ![g].state = "finalized"]
        PROVE  \A h \in Handles : Live(h)' => Live(h)
    <3>1. native[g] \in NativeFields /\ native \in [Handles -> NativeFields]
      BY DEF TypeOK, StatementTypeOK
    <3>2. native'[g].state = "finalized"
      BY <2>2, <3>1 DEF NativeFields
    <3>3. \A h \in Handles \ {g} : native'[h] = native[h]
      BY <2>2, <3>1
    <3> QED
      BY <3>2, <3>3 DEF Live
  <2> QED
    BY <1>7, <2>1, <2>2 DEF FinalizeHandle
<1> QED
  BY <1>3, <1>4, <1>6, <1>8

(* Once dispose() has begun, nothing is opened, compiled or handed out.    *)
THEOREM NothingComesBack == Spec => NothingAfterDispose
<1>1. IndInv /\ IndInv' /\ [Next]_vars =>
        [disposed =>
           /\ disposed' /\ ~opened'
           /\ made' = made
           /\ database' = "open" => database = "open"
           /\ \A h \in Handles : Live(h)' => Live(h)]_vars
  BY AfterDispose
<1> QED
  BY <1>1, Invariance, PTL DEF Spec, NothingAfterDispose
==============================================================================
