--------------------------- MODULE SQLiteConnection ---------------------------
(***************************************************************************)
(* SQLiteConnection.java with the two controllers through which statements *)
(* reach it: opening and closing a connection that is confined to one      *)
(* thread, the registry of its statements, the cache of compiled handles,  *)
(* and the calls of threads that do not own it.                            *)
(*                                                                         *)
(* A step is one synchronized block of the connection, of a statement or   *)
(* of the progress handler, together with what its thread does before the  *)
(* next one that another thread could notice, or one call into SQLite.     *)
(***************************************************************************)
EXTENDS SQLiteStatement, Functions

CONSTANTS
  Threads,     (* the threads that have a reference to the connection      *)
  Cancellers,  (* those of them that call cancel()                         *)
  NoThread,    (* a null reference to a thread                             *)
  Assertions   (* whether the virtual machine runs with -enableassertions  *)

ASSUME ConnectionAssumption ==
  /\ Cancellers \subseteq Threads
  /\ NoThread \notin Threads
  /\ Assertions \in BOOLEAN

VARIABLES
  confinement, (* myConfinement                                            *)
  opened,      (* myHandle # null                                          *)
  disposed,    (* myDisposed                                               *)
  registry,    (* myStatements                                             *)
  cache,       (* myStatementCache: the handle, or null, of each SQL in it *)
  database,    (* what sqlite3_open_v2 and sqlite3_close left              *)
  call         (* where each thread is, and its local variables            *)

connectionVars == <<confinement, opened, disposed, database>>
statementVars == <<statement, made, native>>
vars == <<connectionVars, statementVars, handlerVars, registry, cache, call>>

Places == {"idle", "opening", "compiling", "prepared", "starting", "running",
           "stepped", "executing", "executed", "throwing", "cancelling",
           "finalizing", "closing"}

ResultCodes == {"none", "row", "done", "error", "interrupt"}

(* The local variables: statement, handle, sql, cached and rc.             *)
At(place) == [at |-> place, st |-> None, handle |-> None, sql |-> NoSQL,
              cached |-> FALSE, rc |-> "none"]
Idle == At("idle")

Calls == [at : Places, st : Statements \union {None}, handle : Handles \union {None},
          sql : SQLs \union {NoSQL}, cached : BOOLEAN, rc : ResultCodes]

TypeOK ==
  /\ StatementTypeOK
  /\ confinement \in Threads \union {NoThread}
  /\ opened \in BOOLEAN
  /\ disposed \in BOOLEAN
  /\ registry \subseteq Statements
  /\ DOMAIN cache \subseteq SQLs
  /\ \A q \in DOMAIN cache : cache[q] \in Handles \union {None}
  /\ database \in {"none", "open", "closed", "busy"}
  /\ call \in [Threads -> Calls]

Init ==
  /\ StatementInit
  /\ confinement = NoThread
  /\ opened = FALSE
  /\ disposed = FALSE
  /\ registry = {}
  /\ cache = [q \in {} |-> None]
  /\ database = "none"
  /\ call = [t \in Threads |-> Idle]

Goto(t, place) == call' = [call EXCEPT ![t] = At(place)]
Return(t) == Goto(t, "idle")

-----------------------------------------------------------------------------
(* The statement cache, a FastMap.                                         *)

CachedHandle(q) == IF q \in DOMAIN cache THEN cache[q] ELSE None
Put(map, q, h) == [x \in DOMAIN map \union {q} |-> IF x = q THEN h ELSE map[x]]
Remove(map, q) == Restrict(map, DOMAIN map \ {q})

ForgetCachedHandle_KeepsNull(map, h, q) ==    \* mutation: a null entry stays
  IF q \in DOMAIN map /\ (map[q] = None \/ map[q] # h) THEN map ELSE Remove(map, q)

(* forgetCachedHandle(): the entry of another handle is put back, one with *)
(* a null handle is not.                                                   *)
ForgetCachedHandle(map, h, q) ==
  IF q \in DOMAIN map /\ map[q] # None /\ map[q] # h THEN map ELSE Remove(map, q)

(* checkThread() and handle(); for a statement they are made by validate(), *)
(* which is an assertion. Without assertions only its disposed controller  *)
(* stops a call.                                                           *)
Confined(t) == call[t].at = "idle" /\ confinement = t
Usable(t) == Confined(t) /\ opened

-----------------------------------------------------------------------------
(* Opening.                                                                *)

Open_Reopens(t) ==    \* mutation: myDisposed is not tested
  /\ call[t].at = "idle"
  /\ ~opened
  /\ confinement \in {NoThread, t}
  /\ confinement' = t
  /\ Goto(t, "opening")
  /\ UNCHANGED <<opened, disposed, database, statementVars, handlerVars,
                 registry, cache>>

(* The first synchronized block of open0(). A connection that failed to    *)
(* open stays confined and may be opened again.                            *)
Open(t) ==
  /\ call[t].at = "idle"
  /\ ~disposed /\ ~opened
  /\ confinement \in {NoThread, t}
  /\ confinement' = t
  /\ Goto(t, "opening")
  /\ UNCHANGED <<opened, disposed, database, statementVars, handlerVars,
                 registry, cache>>

(* sqlite3_open_v2 succeeds, and the second synchronized block of open0(). *)
OpenSucceeds(t) ==
  /\ call[t].at = "opening"
  /\ database' = "open"
  /\ opened' = TRUE
  /\ Return(t)
  /\ UNCHANGED <<confinement, disposed, statementVars, handlerVars, registry,
                 cache>>

OpenFails(t) ==
  /\ call[t].at = "opening"
  /\ Return(t)
  /\ UNCHANGED <<connectionVars, statementVars, handlerVars, registry, cache>>

-----------------------------------------------------------------------------
(* prepare().                                                              *)

Prepare_LeavesHandle(t, q, cached) ==    \* mutation: the entry keeps the handle
  LET h == IF cached THEN CachedHandle(q) ELSE None IN
  /\ Usable(t)
  /\ made < MaxStatements
  /\ call' = [call EXCEPT ![t] =
       [At(IF h = None THEN "compiling" ELSE "prepared")
          EXCEPT !.handle = h, !.sql = q, !.cached = cached]]
  /\ UNCHANGED <<connectionVars, statementVars, handlerVars, registry, cache>>

(* The first synchronized block: a cached handle is taken out of the cache, *)
(* its entry stays with a null handle.                                     *)
Prepare(t, q, cached) ==
  LET h == IF cached THEN CachedHandle(q) ELSE None IN
  /\ Usable(t)
  /\ made < MaxStatements
  /\ cache' = IF h = None THEN cache ELSE Put(cache, q, None)
  /\ call' = [call EXCEPT ![t] =
       [At(IF h = None THEN "compiling" ELSE "prepared")
          EXCEPT !.handle = h, !.sql = q, !.cached = cached]]
  /\ UNCHANGED <<connectionVars, statementVars, handlerVars, registry>>

Compile(t) ==
  LET h == made + 1 IN
  /\ call[t].at = "compiling"
  /\ native' = [native EXCEPT ![h] = Compiled(call[t].sql)]
  /\ call' = [call EXCEPT ![t].at = "prepared", ![t].handle = h]
  /\ UNCHANGED <<connectionVars, statement, made, handlerVars, registry, cache>>

(* throwResult(): the compiler, too, calls the progress handler.           *)
CompileFails(t, rc) ==
  /\ call[t].at = "compiling"
  /\ rc = "interrupt" => MayBeInterrupted
  /\ call' = [call EXCEPT ![t] = [At("throwing") EXCEPT !.rc = rc]]
  /\ UNCHANGED <<connectionVars, statementVars, handlerVars, registry, cache>>

Throw(t) ==
  /\ call[t].at = "throwing"
  /\ Return(t)
  /\ UNCHANGED <<connectionVars, statementVars, handlerVars, registry, cache>>

(* The second synchronized block. The connection cannot be disposed in     *)
(* between, so the branch that finalizes the new handle is never taken.    *)
Instantiate(t) ==
  LET s == made + 1 IN
  /\ call[t].at = "prepared"
  /\ made' = s
  /\ statement' = [statement EXCEPT ![s] =
       [Blank EXCEPT !.sql = call[t].sql, !.handle = call[t].handle,
          !.controller = IF call[t].cached THEN "cached" ELSE "uncached"]]
  /\ registry' = registry \union {s}
  /\ Return(t)
  /\ UNCHANGED <<connectionVars, native, handlerVars, cache>>

-----------------------------------------------------------------------------
(* Methods of a statement that change it in one go.                        *)

Configure(t, s) ==
  /\ Usable(t) /\ Valid(s)
  /\ \/ Bind(s)
     \/ \E clear \in BOOLEAN : Reset(s, clear)
     \/ ClearBindings(s)
  /\ UNCHANGED <<connectionVars, registry, cache, call>>

-----------------------------------------------------------------------------
(* step(), loadInts() and loadLongs().                                     *)

(* Up to the synchronized block of prepareStep(): the handler is reset     *)
(* before the statement is asked whether it was cancelled.                 *)
StartStep(t, s) ==
  /\ Usable(t) /\ Valid(s)
  /\ FreshProgressHandler
  /\ call' = [call EXCEPT ![t] =
       [At("starting") EXCEPT !.st = s, !.handle = statement[s].handle]]
  /\ UNCHANGED <<connectionVars, statementVars, registry, cache>>

Step(t, s) == StartStep(t, s)
Load(t, s) == MayLoad(s) /\ StartStep(t, s)

RefuseStep(t) ==
  /\ call[t].at = "starting"
  /\ statement[call[t].st].cancelled
  /\ Return(t)
  /\ UNCHANGED <<connectionVars, statementVars, handlerVars, registry, cache>>

RunStep_Unasked(t) ==    \* mutation: myCancelled is not tested under the lock
  /\ call[t].at = "starting"
  /\ EnterStep(call[t].st)
  /\ call' = [call EXCEPT ![t].at = "running"]
  /\ UNCHANGED <<connectionVars, made, native, handlerVars, registry, cache>>

RunStep(t) ==
  /\ call[t].at = "starting"
  /\ ~statement[call[t].st].cancelled
  /\ EnterStep(call[t].st)
  /\ call' = [call EXCEPT ![t].at = "running"]
  /\ UNCHANGED <<connectionVars, made, native, handlerVars, registry, cache>>

StepReturns(t, rc) ==
  /\ call[t].at = "running"
  /\ rc = "interrupt" => MayBeInterrupted
  /\ LeaveStep(call[t].st, call[t].handle, rc)
  /\ call' = [call EXCEPT ![t].at = "stepped", ![t].rc = rc]
  /\ UNCHANGED <<connectionVars, made, handlerVars, registry, cache>>

EndStep(t) ==
  /\ call[t].at = "stepped"
  /\ LowerCancelFlag
  /\ StepResult(call[t].st, call[t].rc)
  /\ Return(t)
  /\ UNCHANGED <<connectionVars, made, native, handler, progressMemory,
                 registry, cache>>

-----------------------------------------------------------------------------
(* exec().                                                                 *)

Exec(t) ==
  /\ Usable(t)
  /\ FreshProgressHandler
  /\ Goto(t, "executing")
  /\ UNCHANGED <<connectionVars, statementVars, registry, cache>>

ExecReturns(t, rc) ==
  /\ call[t].at = "executing"
  /\ rc = "interrupt" => MayBeInterrupted
  /\ call' = [call EXCEPT ![t].at = "executed", ![t].rc = rc]
  /\ UNCHANGED <<connectionVars, statementVars, handlerVars, registry, cache>>

EndExec(t) ==
  /\ call[t].at = "executed"
  /\ LowerCancelFlag
  /\ Return(t)
  /\ UNCHANGED <<connectionVars, statementVars, handler, progressMemory,
                 registry, cache>>

-----------------------------------------------------------------------------
(* cancel(), by any thread: the handler is taken under the lock of the     *)
(* statement and used after it.                                            *)

Cancel(t, s) ==
  /\ t \in Cancellers
  /\ call[t].at = "idle"
  /\ s <= made
  /\ MarkCancelled(s)
  /\ IF statement[s].running THEN Goto(t, "cancelling") ELSE UNCHANGED call
  /\ UNCHANGED <<connectionVars, made, native, handlerVars, registry, cache>>

CancelHandler(t) ==
  /\ call[t].at = "cancelling"
  /\ RaiseCancelFlag
  /\ Return(t)
  /\ UNCHANGED <<connectionVars, statementVars, handler, progressMemory,
                 registry, cache>>

-----------------------------------------------------------------------------
(* Disposing of a statement.                                               *)

FinalizeStatement_Registered(s) ==    \* mutation: forgetStatement() is not called
  LET st == statement[s] IN
  /\ FinalizeHandle(st.handle)
  /\ statement' = [statement EXCEPT ![s] = Cleared(@)]
  /\ cache' = ForgetCachedHandle(cache, st.handle, st.sql)
  /\ UNCHANGED registry

(* finalizeStatement(statement).                                           *)
FinalizeStatement(s) ==
  LET st == statement[s] IN
  /\ FinalizeHandle(st.handle)
  /\ statement' = [statement EXCEPT ![s] = Cleared(@)]
  /\ registry' = registry \ {s}
  /\ cache' = ForgetCachedHandle(cache, st.handle, st.sql)

\* Mutations: a handle that was cached for the same SQL is overwritten; the
\* handle is cached without a reset.
CacheStatementHandle_Overwrites(s) ==
  /\ native' = [native EXCEPT ![statement[s].handle] = Unbound(ResetHandle(@))]
  /\ statement' = [statement EXCEPT ![s] = Cleared(@)]
  /\ registry' = registry \ {s}
  /\ cache' = Put(cache, statement[s].sql, statement[s].handle)
CacheStatementHandle_NoReset(s) ==
  IF CachedHandle(statement[s].sql) # None
  THEN FinalizeStatement(s)
  ELSE /\ native' = [native EXCEPT ![statement[s].handle] = Unbound(@)]
       /\ statement' = [statement EXCEPT ![s] = Cleared(@)]
       /\ registry' = registry \ {s}
       /\ cache' = Put(cache, statement[s].sql, statement[s].handle)

(* cacheStatementHandle(): the handle is made ready for its next user; it  *)
(* is finalized if that fails or another handle was cached for its SQL.    *)
CacheStatementHandle(s) ==
  LET st == statement[s]
      h == st.handle
      reset == IF st.stepped THEN ResetHandle(native[h]) ELSE native[h]
      clean == IF st.hasBindings THEN Unbound(reset) ELSE reset
      fails == st.stepped /\ ResetFails(native[h])
  IN IF fails \/ CachedHandle(st.sql) # None
     THEN FinalizeStatement(s)
     ELSE /\ native' = [native EXCEPT ![h] = clean]
          /\ statement' = [statement EXCEPT ![s] = Cleared(@)]
          /\ registry' = registry \ {s}
          /\ cache' = Put(cache, st.sql, h)

(* SQLiteStatement.dispose() and the dispose() of its controller.          *)
DisposeStatement(t, s) ==
  /\ Usable(t) /\ Valid(s)
  /\ IF statement[s].controller = "cached" THEN CacheStatementHandle(s)
                                           ELSE FinalizeStatement(s)
  /\ UNCHANGED <<connectionVars, made, handlerVars, call>>

(* The same by another thread. validate() throws, unless assertions are    *)
(* off: then checkDispose() refuses to dispose of the handle, and dispose() *)
(* clears the statement all the same.                                      *)
DisposeStatementElsewhere(t, s) ==
  /\ ~Assertions
  /\ call[t].at = "idle"
  /\ confinement # t
  /\ Valid(s)
  /\ statement' = [statement EXCEPT ![s] = Cleared(@)]
  /\ UNCHANGED <<connectionVars, made, native, handlerVars, registry, cache,
                 call>>

-----------------------------------------------------------------------------
(* Disposing of the connection.                                            *)

MayDispose_Anyone(t) == ~disposed    \* mutation: the thread is not checked

(* The synchronized block of dispose(). Another thread than the confining  *)
(* one is turned away.                                                     *)
MayDispose(t) == ~disposed /\ confinement \in {NoThread, t}

Dispose(t) ==
  /\ call[t].at = "idle"
  /\ MayDispose(t)
  /\ disposed' = TRUE
  /\ opened' = FALSE
  /\ IF opened THEN Goto(t, "finalizing") ELSE UNCHANGED call
  /\ UNCHANGED <<confinement, database, statementVars, handlerVars, registry,
                 cache>>

(* finalizeStatements(): the registered statements, oldest first, ...      *)
FinalizeNextStatement(t) ==
  /\ call[t].at = "finalizing"
  /\ \E s \in registry :
       /\ \A r \in registry : s <= r
       /\ FinalizeStatement(s)
  /\ UNCHANGED <<connectionVars, made, handlerVars, call>>

(* ... then the entries of the cache, finalizeStatement(stmt, sql).        *)
FinalizeNextCached(t) ==
  /\ call[t].at = "finalizing"
  /\ registry = {}
  /\ \E q \in DOMAIN cache :
       /\ FinalizeHandle(cache[q])
       /\ cache' = ForgetCachedHandle(cache, cache[q], q)
  /\ UNCHANGED <<connectionVars, statement, made, handlerVars, registry, call>>

\* Mutations: cached handles are not finalized; the handler is not disposed.
DisposeHandler_KeepsCache(t) ==
  /\ call[t].at = "finalizing"
  /\ registry = {}
  /\ handler' = IF handler = "live" THEN "disposed" ELSE handler
  /\ Goto(t, "closing")
  /\ UNCHANGED <<connectionVars, statementVars, progressMemory, cancelFlag,
                 registry, cache>>
DisposeHandler_StaysLive(t) ==
  /\ call[t].at = "finalizing"
  /\ registry = {} /\ DOMAIN cache = {}
  /\ Goto(t, "closing")
  /\ UNCHANGED <<connectionVars, statementVars, handlerVars, registry, cache>>

(* finalizeProgressHandler(), first ProgressHandler.dispose() ...          *)
DisposeHandler(t) ==
  /\ call[t].at = "finalizing"
  /\ registry = {} /\ DOMAIN cache = {}
  /\ handler' = IF handler = "live" THEN "disposed" ELSE handler
  /\ Goto(t, "closing")
  /\ UNCHANGED <<connectionVars, statementVars, progressMemory, cancelFlag,
                 registry, cache>>

(* ... then its memory is freed. sqlite3_close refuses to close while a    *)
(* handle has not been finalized; dispose() only logs that.                *)
Close(t) ==
  /\ call[t].at = "closing"
  /\ progressMemory' = FALSE
  /\ database' = IF \E h \in Handles : Live(h) THEN "busy" ELSE "closed"
  /\ confinement' = NoThread
  /\ Return(t)
  /\ UNCHANGED <<opened, disposed, statementVars, handler, cancelFlag,
                 registry, cache>>

-----------------------------------------------------------------------------
(* A call goes on. A statement may run for ever, but not when the progress *)
(* handler tells it to stop.                                               *)
Continue(t) ==
  \/ OpenSucceeds(t) \/ OpenFails(t)
  \/ Compile(t) \/ CompileFails(t, "error") \/ CompileFails(t, "interrupt")
  \/ Throw(t) \/ Instantiate(t)
  \/ RefuseStep(t) \/ RunStep(t) \/ StepReturns(t, "interrupt") \/ EndStep(t)
  \/ ExecReturns(t, "interrupt") \/ EndExec(t)
  \/ CancelHandler(t)
  \/ FinalizeNextStatement(t) \/ FinalizeNextCached(t)
  \/ DisposeHandler(t) \/ Close(t)

(* The virtual machine of SQLite returns by itself.                        *)
Finish(t) ==
  \/ \E rc \in {"row", "done", "error"} : StepReturns(t, rc)
  \/ \E rc \in {"done", "error"} : ExecReturns(t, rc)

Begin(t) ==
  \/ Open(t) \/ Dispose(t) \/ Exec(t)
  \/ \E q \in SQLs, cached \in BOOLEAN : Prepare(t, q, cached)
  \/ \E s \in Statements :
       \/ Configure(t, s) \/ Step(t, s) \/ Load(t, s) \/ Cancel(t, s)
       \/ DisposeStatement(t, s) \/ DisposeStatementElsewhere(t, s)

Next == \E t \in Threads : Begin(t) \/ Continue(t) \/ Finish(t)

Spec == Init /\ [][Next]_vars
FairSpec == Spec /\ \A t \in Threads : WF_vars(Continue(t))

-----------------------------------------------------------------------------
(***************************************************************************)
(* Properties.                                                             *)
(***************************************************************************)

(* Everybody who will use or finalize handle h: statements, entries of the *)
(* cache, and the local variable of a prepare() that has not ended.        *)
StatementsOf(h) == {s \in Statements : statement[s].handle = h}
CachedFor(h) == {q \in DOMAIN cache : cache[q] = h}
PreparedBy(h) == {t \in Threads : call[t].at = "prepared" /\ call[t].handle = h}

Apart(A, B) == A = {} \/ B = {}
AtMostOne(A) == \A x, y \in A : x = y

(* A compiled handle never has two users, whatever the order in which      *)
(* statements of the same SQL, cached or not, are prepared and disposed of; *)
(* and nobody keeps a handle that was finalized (cacheStatementHandle(),   *)
(* forgetCachedHandle() and prepare() move handles through the cache).     *)
HandleNotShared ==
  \A h \in Handles :
    /\ AtMostOne(StatementsOf(h)) /\ AtMostOne(CachedFor(h)) /\ AtMostOne(PreparedBy(h))
    /\ Apart(StatementsOf(h), CachedFor(h))
    /\ Apart(StatementsOf(h), PreparedBy(h))
    /\ Apart(CachedFor(h), PreparedBy(h))
    /\ ~Live(h) => StatementsOf(h) \union CachedFor(h) = {} /\ PreparedBy(h) = {}

(* SQLiteStatement.dispose(), lines 169-170: "Disposes this statement and  *)
(* frees allocated resources. If the statement's handle is cached, it is   *)
(* returned to the connection's cache": no compiled handle is forgotten by *)
(* everybody who could finalize it. It holds while assertions are enabled. *)
HandleNotLost ==
  \A h \in Handles :
    Live(h) => StatementsOf(h) # {} \/ CachedFor(h) # {} \/ PreparedBy(h) # {}

(* A cached handle is as good as a new one for its key: compiled from that *)
(* SQL, reset, and without bindings of its last user, even if that user    *)
(* was interrupted, failed or had not finished (cacheStatementHandle()).   *)
CacheIsClean ==
  \A q \in DOMAIN cache : cache[q] # None => native[cache[q]] = Compiled(q)

(* "All statements that are not disposed are listed here"                  *)
(* (SQLiteConnection.java:94): dispose() of the connection finalizes       *)
(* exactly what has not been disposed of.                                  *)
RegistryIsExact == registry = {s \in Statements : statement[s].handle # None}

(* sqlite3_close never answers SQLITE_BUSY because of a statement.         *)
ClosesCleanly == database # "busy"

(* ProgressHandler: whoever still has a handler after the connection was   *)
(* closed does not write into memory that was freed.                       *)
CancelWritesOwnedMemory == handler = "live" => progressMemory

(* A call that uses the connection is made by the thread it is confined to, *)
(* from its first step to its last, while others open, dispose and cancel. *)
CallsAreConfined ==
  \A t \in Threads :
    call[t].at \notin {"idle", "cancelling"} => confinement = t

(* "Once closed with {@link #dispose()}, the connection cannot be reused"  *)
(* (SQLiteConnection.java:38): nothing is opened, compiled or handed out   *)
(* once dispose() has begun, by any thread.                                *)
NothingAfterDispose ==
  [][disposed =>
       /\ disposed' /\ ~opened'
       /\ made' = made
       /\ database' = "open" => database = "open"
       /\ \A h \in Handles : Live(h)' => Live(h)]_vars

(***************************************************************************)
(* The inductive invariant.                                                *)
(***************************************************************************)

(* The places of a thread that uses the open connection, and of those the  *)
(* ones in a step.                                                         *)
InUse == {"compiling", "prepared", "starting", "running", "stepped",
          "executing", "executed", "throwing"}
InStep == {"starting", "running", "stepped"}

(* Where the fields of the connection, the database and the place of a     *)
(* thread agree.                                                           *)
Lifecycle ==
  /\ opened => ~disposed /\ confinement # NoThread /\ database = "open"
  /\ database = "none" => made = 0 /\ \A h \in Handles : ~Live(h)
  /\ database = "open" => opened \/ disposed
  /\ database \in {"closed", "busy"} => disposed
  /\ \A t \in Threads :
       /\ call[t].at \in InUse => opened
       /\ call[t].at = "opening" => ~opened /\ ~disposed /\ database = "none"
       /\ call[t].at \in {"finalizing", "closing"} => disposed /\ database = "open"
       /\ call[t].at = "closing" =>
            registry = {} /\ DOMAIN cache = {} /\ handler # "live"

(* A statement has a handle from its creation until it is cleared.         *)
StatementsOwn ==
  \A s \in Statements :
    /\ s > made => statement[s] = Blank /\ s \notin registry
    /\ s <= made => statement[s].controller # "none"
    /\ Valid(s) <=> statement[s].handle # None
    /\ Valid(s) => /\ Live(statement[s].handle)
                   /\ statement[s].sql = native[statement[s].handle].sql
                   /\ statement[s].sql \in SQLs
    /\ \A r \in Statements :
         Valid(s) /\ statement[r].handle = statement[s].handle => r = s

(* No statement has a handle that is in the cache.                         *)
CacheOwns ==
  \A q \in DOMAIN cache : \A s \in Statements :
    cache[q] # None => statement[s].handle # cache[q]

(* prepare() has a handle that nobody else has; a handle is new until then. *)
PrepareOwns ==
  /\ \A t \in Threads :
       /\ call[t].at \in {"compiling", "prepared"} =>
            made < MaxStatements /\ call[t].sql \in SQLs
       /\ call[t].at = "prepared" =>
            /\ call[t].handle \in 1 .. made + 1
            /\ native[call[t].handle] = Compiled(call[t].sql)
            /\ \A s \in Statements : statement[s].handle # call[t].handle
            /\ \A q \in DOMAIN cache : cache[q] # call[t].handle
  /\ \A h \in Handles :
       h > made /\ native[h].state # "none" =>
         \E t \in Threads : call[t].at = "prepared" /\ call[t].handle = h

(* The handle a step runs on is in nobody else's hands.                    *)
StepOwns ==
  \A t \in Threads :
    call[t].at \in InStep =>
      /\ call[t].st \in 1 .. made
      /\ call[t].handle \in Handles /\ Live(call[t].handle)
      /\ statement[call[t].st].handle \in {call[t].handle, None}
      /\ \A s \in Statements :
           statement[s].handle = call[t].handle => s = call[t].st
      /\ \A q \in DOMAIN cache : cache[q] # call[t].handle
      /\ call[t].at = "stepped" => call[t].rc # "none"

(* The flags of a statement tell what has to be undone before its handle   *)
(* goes to another one.                                                    *)
FlagsTellUse ==
  \A s \in Statements :
    Valid(s) =>
      /\ ~statement[s].hasBindings => ~native[statement[s].handle].bound
      /\ ~statement[s].stepped /\ native[statement[s].handle].state # "ready" =>
           \E t \in Threads : call[t].at = "stepped" /\ call[t].st = s

(* What holds as long as no statement is cleared behind the connection.    *)
NothingForgotten ==
  Assertions => HandleNotLost /\ RegistryIsExact /\ ClosesCleanly

IndInv ==
  /\ TypeOK /\ Lifecycle /\ CallsAreConfined /\ CancelWritesOwnedMemory
  /\ StatementsOwn /\ CacheOwns /\ CacheIsClean /\ PrepareOwns /\ StepOwns
  /\ FlagsTellUse /\ NothingForgotten

-----------------------------------------------------------------------------
(* A statement that is cancelled while it is in step() leaves it, however  *)
(* long it would run: the flag is not lost between prepareStep(), which    *)
(* resets it, and the thread that raises it.                               *)
CancelStopsStep ==
  \A s \in Statements :
    statement[s].running /\ statement[s].cancelled ~> ~statement[s].running

(* dispose() ends: the two loops of finalizeStatements() run out of        *)
(* statements and of cached handles, and sqlite3_close is called.          *)
DisposeEnds ==
  \A t \in Threads :
    call[t].at = "finalizing" ~> database \in {"closed", "busy"}

(* The promise of StatementPool: a handle in the hands of prepare() counts *)
(* as pooled.                                                              *)
PlaceOf(h) ==
  IF native[h].state = "none" THEN [in |-> "nowhere"]
  ELSE IF native[h].state = "finalized" THEN [in |-> "gone"]
  ELSE IF StatementsOf(h) = {} THEN [in |-> "pool"]
  ELSE [in |-> "use",
        by |-> CHOOSE s \in Statements : statement[s].handle = h]

Pool == INSTANCE StatementPool WITH
  Handle <- Handles, Borrower <- Statements,
  place <- [h \in Handles |-> PlaceOf(h)],
  served <- 1 .. made,
  clean <- {h \in Handles : native[h].state = "ready" /\ ~native[h].bound},
  open <- CASE database = "none" -> "not yet"
            [] database = "open" -> "open"
            [] OTHER -> "closed"

ImplementsPool == Pool!Spec

(* "Cancels the currently running statement. This method has effect only   *)
(* during execution of the step() method" (SQLiteStatement.java:320): a    *)
(* call that is interrupted is the step() of a statement that was          *)
(* cancelled.                                                              *)
InterruptHitsItsTarget ==
  [][\A t \in Threads :
       call'[t].rc = "interrupt" /\ call[t].rc # "interrupt" =>
         call[t].at = "running" /\ statement[call[t].st].cancelled]_vars
==============================================================================
