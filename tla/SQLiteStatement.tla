--------------------------- MODULE SQLiteStatement ---------------------------
(***************************************************************************)
(* The statements of one connection: the fields of every SQLiteStatement,  *)
(* what SQLite keeps behind a statement handle (sqlite3_stmt), and the     *)
(* progress handler through which a running statement is cancelled. The    *)
(* parts of their methods are operators on those fields; SQLiteConnection  *)
(* EXTENDS this module and says which thread calls them and when.          *)
(*                                                                         *)
(* Statement objects are numbered in the order of their creation. A handle *)
(* has the number of the statement it was compiled for, so the one a       *)
(* statement got from the cache has a smaller number. 0 stands for null.   *)
(***************************************************************************)
EXTENDS Naturals

CONSTANTS
  SQLs,           (* the texts that are prepared                           *)
  NoSQL,          (* no text                                               *)
  MaxStatements   (* bound: statement objects created                      *)

ASSUME StatementAssumption == NoSQL \notin SQLs /\ MaxStatements \in Nat

Statements == 1 .. MaxStatements
Handles == Statements
None == 0

VARIABLES
  statement,      (* the fields of each SQLiteStatement                    *)
  made,           (* how many of them have been created                    *)
  native,         (* what SQLite keeps behind each handle                  *)
  handler,        (* myProgressHandler: null, with a buffer, or disposed   *)
  progressMemory, (* SQLite holds the 16 bytes of that buffer              *)
  cancelFlag      (* the first of the two longs in them is set             *)

handlerVars == <<handler, progressMemory, cancelFlag>>

(* The states of a handle: "none" until sqlite3_prepare_v3 returned it;    *)
(* "row", "done" and "error" tell how the last sqlite3_step ended.         *)
NativeStates == {"none", "ready", "row", "done", "error", "finalized"}

Controllers == {"none", "cached", "uncached", "disposed"}

StatementFields ==
  [sql : SQLs \union {NoSQL}, handle : Handles \union {None},
   controller : Controllers, hasRow : BOOLEAN, hasBindings : BOOLEAN,
   stepped : BOOLEAN, cancelled : BOOLEAN, running : BOOLEAN]

NativeFields == [state : NativeStates, bound : BOOLEAN, sql : SQLs \union {NoSQL}]

StatementTypeOK ==
  /\ made \in 0 .. MaxStatements
  /\ statement \in [Statements -> StatementFields]
  /\ native \in [Handles -> NativeFields]
  /\ handler \in {"null", "live", "disposed"}
  /\ progressMemory \in BOOLEAN
  /\ cancelFlag \in BOOLEAN

(* A statement with every field as its declaration sets it.                *)
Blank == [sql |-> NoSQL, handle |-> None, controller |-> "none",
          hasRow |-> FALSE, hasBindings |-> FALSE, stepped |-> FALSE,
          cancelled |-> FALSE, running |-> FALSE]

StatementInit ==
  /\ statement = [s \in Statements |-> Blank]
  /\ made = 0
  /\ native = [h \in Handles |-> [state |-> "none", bound |-> FALSE, sql |-> NoSQL]]
  /\ handler = "null"
  /\ progressMemory = FALSE
  /\ cancelFlag = FALSE

-----------------------------------------------------------------------------
(* The SQLite functions that act on a handle.                              *)

Live(h) == native[h].state \notin {"none", "finalized"}

(* sqlite3_prepare_v3: the compiled handle, ready to run.                  *)
Compiled(sql) == [state |-> "ready", bound |-> FALSE, sql |-> sql]

(* sqlite3_reset: returns the error of the last sqlite3_step, if it failed. *)
ResetHandle(n) == [n EXCEPT !.state = "ready"]
ResetFails(n) == n.state = "error"

(* sqlite3_clear_bindings.                                                 *)
Unbound(n) == [n EXCEPT !.bound = FALSE]

(* sqlite3_finalize; NULL is accepted and ignored.                         *)
FinalizeHandle(h) ==
  native' = IF h = None THEN native
            ELSE [native EXCEPT ![h].state = "finalized"]

-----------------------------------------------------------------------------
(* SQLiteStatement.                                                        *)

(* What validate() asks of the statement itself: it has not been disposed. *)
Valid(s) == statement[s].controller \in {"cached", "uncached"}

(* clear(): the fields myCancelled and myProgressHandler stay.             *)
Cleared(st) == [st EXCEPT !.handle = None, !.controller = "disposed",
                          !.hasRow = FALSE, !.hasBindings = FALSE,
                          !.stepped = FALSE]

(* bind(): SQLite refuses to bind parameters of a handle that was stepped  *)
(* and not reset; the method then throws and nothing changes.              *)
Bind(s) ==
  LET h == statement[s].handle IN
  /\ native[h].state = "ready"
  /\ native' = [native EXCEPT ![h].bound = TRUE]
  /\ statement' = [statement EXCEPT ![s].hasBindings = TRUE]
  /\ UNCHANGED <<made, handlerVars>>

(* reset(clearBindings): the result of sqlite3_reset is ignored.           *)
Reset(s, clearBindings) ==
  LET st == statement[s]
      clears == clearBindings /\ st.hasBindings
      reset == IF st.stepped THEN ResetHandle(native[st.handle])
                             ELSE native[st.handle]
  IN /\ native' = [native EXCEPT ![st.handle] =
                     IF clears THEN Unbound(reset) ELSE reset]
     /\ statement' = [statement EXCEPT ![s].hasRow = FALSE,
                        ![s].stepped = FALSE,
                        ![s].hasBindings = @ /\ ~clears,
                        ![s].cancelled = FALSE]
     /\ UNCHANGED <<made, handlerVars>>

(* clearBindings().                                                        *)
ClearBindings(s) ==
  LET st == statement[s] IN
  /\ native' = [native EXCEPT ![st.handle] =
                  IF st.hasBindings THEN Unbound(@) ELSE @]
  /\ statement' = [statement EXCEPT ![s].hasBindings = FALSE]
  /\ UNCHANGED <<made, handlerVars>>

(* The guard of loadInts() and loadLongs(); step() has none.               *)
MayLoad(s) == ~(statement[s].stepped /\ ~statement[s].hasRow)

(* getProgressHandler() and ProgressHandler.reset(): the flag is cleared   *)
(* unless the handler is disposed.                                         *)
FreshProgressHandler ==
  /\ handler' = IF handler = "null" THEN "live" ELSE handler
  /\ progressMemory' = (progressMemory \/ handler = "null")
  /\ cancelFlag' = (cancelFlag /\ handler = "disposed")

(* The synchronized block of prepareStep(), when it does not throw.        *)
EnterStep(s) == statement' = [statement EXCEPT ![s].running = TRUE]

(* sqlite3_step returns, and the synchronized block of finalizeStep().     *)
LeaveStep(s, h, rc) ==
  /\ native' = [native EXCEPT ![h].state =
                  IF rc = "interrupt" THEN "error" ELSE rc]
  /\ statement' = [statement EXCEPT ![s].running = FALSE]

StepResult_ThrowsFirst(s, rc) ==    \* mutation: throws before it sets myStepped
  statement' = [statement EXCEPT ![s].stepped = @ \/ rc \in {"row", "done"},
                  ![s].hasRow = rc = "row"]

(* stepResult(): an error leaves myHasRow as it is.                        *)
StepResult(s, rc) ==
  statement' = [statement EXCEPT ![s].stepped = TRUE,
                  ![s].hasRow = CASE rc = "row" -> TRUE
                                  [] rc = "done" -> FALSE
                                  [] OTHER -> @]

(* The synchronized block of cancel().                                     *)
MarkCancelled(s) == statement' = [statement EXCEPT ![s].cancelled = TRUE]

(* ProgressHandler.cancel() and its reset() at the end of a step.          *)
RaiseCancelFlag == cancelFlag' = (cancelFlag \/ handler = "live")
LowerCancelFlag == cancelFlag' = (cancelFlag /\ handler # "live")

(* SQLite calls progress_handler() back while it runs: a flag that is set  *)
(* makes the call return SQLITE_INTERRUPT.                                 *)
MayBeInterrupted == progressMemory /\ cancelFlag
==============================================================================
