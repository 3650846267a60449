------------------------------ MODULE SQLiteJob ------------------------------
(***************************************************************************)
(* The jobs of an SQLiteQueue (SQLiteJob.java): the fields of every job    *)
(* and the critical sections of its methods, as operators on those fields. *)
(* SQLiteQueue EXTENDS this module and says which thread is where between  *)
(* two critical sections.                                                  *)
(*                                                                         *)
(* A connection is named by the number of the queue thread that opened it; *)
(* 0 stands for null.                                                      *)
(***************************************************************************)
EXTENDS Naturals

CONSTANTS
  Jobs,    (* the job objects                                              *)
  NoJob    (* a null reference to a job                                    *)

ASSUME JobsAssumption == NoJob \notin Jobs

VARIABLES
  jState,        (* myState                                                *)
  jConnection,   (* myConnection: set while the job runs, 0 when null      *)
  jQueue,        (* myQueue # null                                         *)
  jResult,       (* myResult # null                                        *)
  \* History variables: what the callbacks and the callers have seen.
  ran,           (* how often job() was entered                            *)
  finished,      (* how often jobFinished() was called                     *)
  finishedWith,  (* the argument of the last jobFinished()                 *)
  cancelled      (* the jobs of which some cancel() returns true           *)

jobVars == <<jState, jConnection, jQueue, jResult,
             ran, finished, finishedWith, cancelled>>

States == {"PENDING", "RUNNING", "SUCCEEDED", "ERROR", "CANCELLED"}

(* What job() may end with: a value or an exception.                       *)
Outcomes == {"value", "interrupted", "error", "death"}

JobTypeOK ==
  /\ jState \in [Jobs -> States]
  /\ jConnection \in [Jobs -> Nat]
  /\ jQueue \in [Jobs -> BOOLEAN]
  /\ jResult \in [Jobs -> BOOLEAN]
  /\ ran \in [Jobs -> Nat]
  /\ finished \in [Jobs -> Nat]
  /\ finishedWith \in [Jobs -> {"none", "null", "value"}]
  /\ cancelled \subseteq Jobs

JobInit ==
  /\ jState = [j \in Jobs |-> "PENDING"]
  /\ jConnection = [j \in Jobs |-> 0]
  /\ jQueue = [j \in Jobs |-> FALSE]
  /\ jResult = [j \in Jobs |-> FALSE]
  /\ ran = [j \in Jobs |-> 0]
  /\ finished = [j \in Jobs |-> 0]
  /\ finishedWith = [j \in Jobs |-> "none"]
  /\ cancelled = {}

-----------------------------------------------------------------------------
IsDone(j) == jState[j] \in {"SUCCEEDED", "CANCELLED", "ERROR"}

IsCancelled(j) == jState[j] = "CANCELLED"

-----------------------------------------------------------------------------
(* cancel(mayInterruptIfRunning), up to the unlock. Whoever calls it goes  *)
(* on to interrupt the connection it read here or, when that is null, to   *)
(* finish the job that never ran.                                          *)
CancelRefused_Running(j, mayInterrupt) ==    \* mutation: done jobs are cancelled
  jState[j] = "RUNNING" /\ ~mayInterrupt

CancelRefused(j, mayInterrupt) ==
  IsDone(j) \/ (jState[j] = "RUNNING" /\ ~mayInterrupt)

MarkCancelled(j) ==
  /\ jState' = [jState EXCEPT ![j] = "CANCELLED"]
  /\ cancelled' = cancelled \cup {j}
  /\ UNCHANGED <<jConnection, jQueue, jResult, ran, finished, finishedWith>>

(* startJob(connection, queue): the queue enters job() only when this      *)
(* found the job pending.                                                  *)
MayStart_Cancelled(j) ==    \* mutation: only an executed job is refused
  jState[j] \in {"PENDING", "CANCELLED"}

MayStart(j) == jState[j] = "PENDING"

StartJob(j, c) ==
  /\ jState' = [jState EXCEPT ![j] = "RUNNING"]
  /\ jConnection' = [jConnection EXCEPT ![j] = c]
  /\ jQueue' = [jQueue EXCEPT ![j] = TRUE]
  /\ ran' = [ran EXCEPT ![j] = @ + 1]
  /\ UNCHANGED <<jResult, finished, finishedWith, cancelled>>

(* processJobError(e): an exception becomes the state of the job, whatever *)
(* the state was. A normal return leaves it for finishJob.                 *)
ProcessOutcome_AllCancel(j, outcome) ==    \* mutation: any exception cancels
  /\ jState' = IF outcome = "value" THEN jState
               ELSE [jState EXCEPT ![j] = "CANCELLED"]
  /\ UNCHANGED <<jConnection, jQueue, jResult,
                 ran, finished, finishedWith, cancelled>>

ProcessOutcome(j, outcome) ==
  /\ jState' =
       CASE outcome = "value" -> jState
         [] outcome = "interrupted" -> [jState EXCEPT ![j] = "CANCELLED"]
         [] OTHER -> [jState EXCEPT ![j] = "ERROR"]
  /\ UNCHANGED <<jConnection, jQueue, jResult,
                 ran, finished, finishedWith, cancelled>>

(* finishJob(result), first critical section.                              *)
\* Mutations: the state, or the connection, is not updated.
SetResult_StillRunning(j, result) ==
  /\ jConnection' = [jConnection EXCEPT ![j] = 0]
  /\ UNCHANGED <<jState, jResult, jQueue, ran, finished, finishedWith, cancelled>>

SetResult_KeepsConnection(j, result) ==
  /\ IF jState[j] = "RUNNING"
     THEN /\ jState' = [jState EXCEPT ![j] = "SUCCEEDED"]
          /\ jResult' = [jResult EXCEPT ![j] = (result = "value")]
     ELSE UNCHANGED <<jState, jResult>>
  /\ UNCHANGED <<jConnection, jQueue, ran, finished, finishedWith, cancelled>>

SetResult(j, result) ==
  /\ jConnection' = [jConnection EXCEPT ![j] = 0]
  /\ IF jState[j] = "RUNNING"
     THEN /\ jState' = [jState EXCEPT ![j] = "SUCCEEDED"]
          /\ jResult' = [jResult EXCEPT ![j] = (result = "value")]
     ELSE UNCHANGED <<jState, jResult>>
  /\ UNCHANGED <<jQueue, ran, finished, finishedWith, cancelled>>

(* finishJob(result), the callbacks and the last critical section.         *)
CallJobFinished(j, result) ==
  /\ finished' = [finished EXCEPT ![j] = @ + 1]
  /\ finishedWith' = [finishedWith EXCEPT ![j] = result]
  /\ jQueue' = [jQueue EXCEPT ![j] = FALSE]
  /\ UNCHANGED <<jState, jConnection, jResult, ran, cancelled>>
=============================================================================
