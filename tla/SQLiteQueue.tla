----------------------------- MODULE SQLiteQueue -----------------------------
(***************************************************************************)
(* SQLiteQueue.java with SQLiteJob.java: user threads submit and cancel    *)
(* jobs, start, stop, flush and join the queue while its thread opens a    *)
(* connection and runs the jobs, dies, and is reincarnated.                *)
(*                                                                         *)
(* A step is one synchronized block (with what the thread does before the  *)
(* next one) or one call into SQLite. Every wait of the code is a timed    *)
(* wait in a loop that tests its condition again, so a waiting thread is   *)
(* one whose next step is enabled when the condition lets it out.          *)
(***************************************************************************)
EXTENDS SQLiteJob, Sequences, Functions

CONSTANTS
  Users,        (* threads other than the queue's own                      *)
  Waiters,      (* the users that call the blocking flush() and join()     *)
  CancelModes,  (* values they pass to cancel(mayInterruptIfRunning)       *)
  StopModes,    (* values they pass to stop(gracefully)                    *)
  Reincarnates, (* isReincarnationPossible(): the database is a file       *)
  JobsWait,     (* whether job() may call get() of other jobs              *)
  MaxDeaths     (* bound: abnormal ends of the queue thread                *)

ASSUME QueueAssumption ==
  /\ Waiters \subseteq Users
  /\ CancelModes \subseteq BOOLEAN
  /\ StopModes \subseteq BOOLEAN
  /\ Reincarnates \in BOOLEAN
  /\ JobsWait \in BOOLEAN
  /\ MaxDeaths \in Nat

VARIABLES
  \* Fields under myLock, and the volatile myThread.
  thread,         (* myThread: number of the thread, 0 when null           *)
  jobs,           (* myJobs                                                *)
  stopRequested,  (* myStopRequested                                       *)
  stopRequired,   (* myStopRequired                                        *)
  currentJob,     (* myCurrentJob                                          *)
  \* The queue thread.
  qpc,            (* where it is; "none" when there is no such thread      *)
  qjob,           (* local variable job of queueFunction                   *)
  qget,           (* the job whose get() the running job is in, or NoJob   *)
  outcome,        (* how job() ended, while that is still being handled    *)
  dropped,        (* local variable droppedJobs of threadStopped           *)
  \* The connection of the current thread and what SQLite keeps for it.
  threads,        (* how many queue threads have been created              *)
  connectionOpen, (* the connection of the last of them is open            *)
  isInterrupted,  (* the statement it runs has been interrupted            *)
  transaction,    (* the job whose transaction is open, or NoJob           *)
  \* The other threads.
  call,           (* the call each user is in                              *)
  reincarnators,  (* how many reincarnator threads are waiting             *)
  \* History variables.
  order,          (* the accepted jobs, in the order of execute()          *)
  rejected,       (* the jobs execute() refused                            *)
  deaths          (* how often the queue thread ended abnormally           *)

fieldVars == <<thread, jobs, stopRequested, stopRequired, currentJob>>
threadVars == <<qpc, qjob, qget, outcome, dropped>>
sqlVars == <<threads, connectionOpen, isInterrupted, transaction>>
otherVars == <<call, reincarnators, order, rejected, deaths>>
vars == <<jobVars, fieldVars, threadVars, sqlVars, otherVars>>

QueuePCs == {"none", "open", "loop", "wait", "start", "body", "sql", "getWait",
             "finish", "callbacks", "after", "rollback",
             "rollbackSql", "dispose", "stopped", "drop", "dropFinish"}

\* The places where job() executes, where it executes or has just ended, where
\* the thread has a job, where it has a connection, and where myThread is null.
Executing == {"body", "sql", "getWait"}
InBody == Executing \cup {"finish"}
HasJob == InBody \cup {"start", "callbacks", "after"}
Connected == HasJob \cup {"loop", "wait", "rollback", "rollbackSql"}
NoThread == {"none", "drop", "dropFinish"}

CallPCs == {"idle", "cancel", "interrupt", "native", "finish", "flush", "join"}

Calls == [pc : CallPCs, job : Jobs \cup {NoJob}, conn : Nat]
Call(pc, j, c) == [pc |-> pc, job |-> j, conn |-> c]
Idle == Call("idle", NoJob, 0)

Submitted == Range(order) \cup rejected

FieldTypeOK ==
  /\ thread \in Nat
  /\ jobs \in Seq(Jobs)
  /\ stopRequested \in BOOLEAN /\ stopRequired \in BOOLEAN
  /\ currentJob \in Jobs \cup {NoJob}

ThreadTypeOK ==
  /\ qpc \in QueuePCs
  /\ qjob \in Jobs \cup {NoJob} /\ qget \in Jobs \cup {NoJob}
  /\ outcome \in Outcomes \cup {"none"}
  /\ dropped \in Seq(Jobs)

SqlTypeOK ==
  /\ threads \in Nat
  /\ connectionOpen \in BOOLEAN /\ isInterrupted \in BOOLEAN
  /\ transaction \in Jobs \cup {NoJob}

OtherTypeOK ==
  /\ call \in [Users -> Calls]
  /\ reincarnators \in Nat
  /\ order \in Seq(Jobs)
  /\ rejected \subseteq Jobs
  /\ deaths \in Nat

TypeOK == JobTypeOK /\ FieldTypeOK /\ ThreadTypeOK /\ SqlTypeOK /\ OtherTypeOK

Init ==
  /\ JobInit
  /\ thread = 0 /\ jobs = <<>> /\ currentJob = NoJob
  /\ stopRequested = FALSE /\ stopRequired = FALSE
  /\ qpc = "none" /\ qjob = NoJob /\ qget = NoJob
  /\ outcome = "none" /\ dropped = <<>>
  /\ threads = 0 /\ connectionOpen = FALSE
  /\ isInterrupted = FALSE /\ transaction = NoJob
  /\ call = [u \in Users |-> Idle]
  /\ reincarnators = 0
  /\ order = <<>> /\ rejected = {} /\ deaths = 0

-----------------------------------------------------------------------------
(***************************************************************************)
(* The user threads.                                                       *)
(***************************************************************************)

(* thread = newThread(...); myThread = thread; thread.start()              *)
NewThread ==
  /\ thread' = threads + 1
  /\ threads' = threads + 1
  /\ qpc' = "open"

MayCreateThread_Stopped == thread = 0    \* mutation: does not look at the stop flag

MayCreateThread == thread = 0 /\ ~stopRequested

Start(u) ==
  /\ call[u] = Idle
  /\ MayCreateThread
  /\ NewThread
  /\ UNCHANGED <<jobVars, jobs, stopRequested, stopRequired, currentJob, qjob,
                 qget, outcome, dropped, connectionOpen, isInterrupted,
                 transaction, otherVars>>

(* execute(job). The caller of a refused job cancels it after the unlock.  *)
Execute(u, j) ==
  /\ call[u] = Idle
  /\ j \notin Submitted
  /\ IF stopRequested
     THEN /\ rejected' = rejected \cup {j}
          /\ call' = [call EXCEPT ![u] = Call("cancel", j, 0)]
          /\ UNCHANGED <<jobs, order>>
     ELSE /\ jobs' = Append(jobs, j)
          /\ order' = Append(order, j)
          /\ UNCHANGED <<rejected, call>>
  /\ UNCHANGED <<jobVars, thread, stopRequested, stopRequired, currentJob,
                 threadVars, sqlVars, reincarnators, deaths>>

(* The job that stop() goes on to cancel, if any.                          *)
JobToCancel(forced) == IF forced THEN currentJob ELSE NoJob

Stop(u, gracefully) ==
  /\ call[u] = Idle
  /\ stopRequired' = (stopRequired \/ ~gracefully)
  /\ stopRequested' = TRUE
  /\ IF ~stopRequested /\ JobToCancel(stopRequired') # NoJob
     THEN call' = [call EXCEPT ![u] = Call("cancel", currentJob, 0)]
     ELSE UNCHANGED call
  /\ UNCHANGED <<jobVars, thread, jobs, currentJob, threadVars, sqlVars,
                 reincarnators, order, rejected, deaths>>

(* cancel(mayInterruptIfRunning): the synchronized block, and which of the *)
(* two branches after it the caller takes.                                 *)
CancelJob(u, j, mayInterrupt) ==
  /\ IF CancelRefused(j, mayInterrupt)
     THEN /\ call' = [call EXCEPT ![u] = Idle]
          /\ UNCHANGED jobVars
     ELSE /\ MarkCancelled(j)
          /\ call' = [call EXCEPT ![u] =
                        IF jConnection[j] # 0
                        THEN Call("interrupt", j, jConnection[j])
                        ELSE Call("finish", j, 0)]
  /\ UNCHANGED <<fieldVars, threadVars, sqlVars,
                 reincarnators, order, rejected, deaths>>

Cancel(u, j, mayInterrupt) ==
  /\ call[u] = Idle
  /\ CancelJob(u, j, mayInterrupt)

(* stop() or execute(), with the lock released, calls cancel(true).        *)
CancelFromQueue(u) ==
  /\ call[u].pc = "cancel"
  /\ CancelJob(u, call[u].job, TRUE)

(* finishJob(null) of a job that was cancelled while pending. Its first    *)
(* critical section finds CANCELLED and a null connection, and changes     *)
(* nothing.                                                                *)
FinishCancelled(u) ==
  /\ call[u].pc = "finish"
  /\ CallJobFinished(call[u].job, "null")
  /\ call' = [call EXCEPT ![u] = Idle]
  /\ UNCHANGED <<fieldVars, threadVars, sqlVars,
                 reincarnators, order, rejected, deaths>>

-----------------------------------------------------------------------------
(***************************************************************************)
(* SQLiteConnection.interrupt(), the only call of another thread into the  *)
(* connection: handle() under the connection's lock, which refuses a       *)
(* disposed connection, then sqlite3_interrupt() without the lock.         *)
(***************************************************************************)
IsOpen(c) == c = threads /\ connectionOpen

RunningSql == qpc \in {"sql", "rollbackSql"}

InterruptHandle(u) ==
  /\ call[u].pc = "interrupt"
  /\ call' = [call EXCEPT ![u] =
                IF IsOpen(call[u].conn)
                THEN Call("native", call[u].job, call[u].conn)
                ELSE Idle]
  /\ UNCHANGED <<jobVars, fieldVars, threadVars, sqlVars,
                 reincarnators, order, rejected, deaths>>

(* sqlite3_interrupt() stops the statement that is running, and has no     *)
(* effect when none is.                                                    *)
InterruptNative(u) ==
  /\ call[u].pc = "native"
  /\ isInterrupted' = (isInterrupted \/ (IsOpen(call[u].conn) /\ RunningSql))
  /\ call' = [call EXCEPT ![u] = Idle]
  /\ UNCHANGED <<jobVars, fieldVars, threadVars, threads, connectionOpen,
                 transaction, reincarnators, order, rejected, deaths>>

-----------------------------------------------------------------------------
(* flush() leaves its loop when nothing is queued and no job is current.   *)
NothingToFlush_Queue == jobs = <<>>    \* mutation: the running job is forgotten

NothingToFlush == jobs = <<>> /\ currentJob = NoJob

(* Whether the queue thread c has ended.                                   *)
Ended(c) == c # threads \/ qpc = "none"

Flush(u) ==
  /\ u \in Waiters /\ call[u] = Idle
  /\ call' = [call EXCEPT ![u] = Call("flush", NoJob, 0)]
  /\ UNCHANGED <<jobVars, fieldVars, threadVars, sqlVars,
                 reincarnators, order, rejected, deaths>>

(* join() of a queue that has a thread; without one it returns at once.    *)
Join(u) ==
  /\ u \in Waiters /\ call[u] = Idle
  /\ thread # 0
  /\ call' = [call EXCEPT ![u] = Call("join", NoJob, thread)]
  /\ UNCHANGED <<jobVars, fieldVars, threadVars, sqlVars,
                 reincarnators, order, rejected, deaths>>

WaitEnds(u) ==
  /\ \/ call[u].pc = "flush" /\ NothingToFlush
     \/ call[u].pc = "join" /\ Ended(call[u].conn)
  /\ call' = [call EXCEPT ![u] = Idle]
  /\ UNCHANGED <<jobVars, fieldVars, threadVars, sqlVars,
                 reincarnators, order, rejected, deaths>>

-----------------------------------------------------------------------------
(***************************************************************************)
(* The queue thread: queueFunction().                                      *)
(***************************************************************************)
MayDie == deaths < MaxDeaths

(* openConnection(), initConnection().                                     *)
Open ==
  /\ qpc = "open"
  /\ connectionOpen' = TRUE
  /\ qpc' = "loop"
  /\ UNCHANGED <<jobVars, fieldVars, qjob, qget, outcome, dropped,
                 threads, isInterrupted, transaction, otherVars>>

(* Either of them throws; after openConnection() the connection is open.   *)
OpenFails ==
  /\ qpc = "open" /\ MayDie
  /\ connectionOpen' \in BOOLEAN
  /\ qpc' = "dispose"
  /\ deaths' = deaths + 1
  /\ UNCHANGED <<jobVars, fieldVars, qjob, qget, outcome, dropped, threads,
                 isInterrupted, transaction, call, reincarnators, order, rejected>>

(* Thread.interrupted() at the top of the loop, or wait() interrupted.     *)
Interrupted ==
  /\ qpc \in {"loop", "wait"} /\ MayDie
  /\ qpc' = "dispose"
  /\ deaths' = deaths + 1
  /\ UNCHANGED <<jobVars, fieldVars, qjob, qget, outcome, dropped, sqlVars,
                 call, reincarnators, order, rejected>>

(* The loop under myLock: it clears the current job when it is entered,    *)
(* and ends with the thread leaving or with a job taken; otherwise the     *)
(* thread waits in it.                                                     *)
TimeToLeave_Forced == stopRequired    \* mutation: a graceful stop never leaves

TimeToLeave == stopRequested /\ (stopRequired \/ jobs = <<>>)

Leave ==
  /\ qpc \in {"loop", "wait"}
  /\ TimeToLeave
  /\ currentJob' = NoJob
  /\ qpc' = "dispose"
  /\ UNCHANGED <<jobVars, thread, jobs, stopRequested, stopRequired, qjob, qget,
                 outcome, dropped, sqlVars, otherVars>>

SelectJob_Newest ==    \* mutation: a stack
  /\ qjob' = jobs[Len(jobs)]
  /\ jobs' = SubSeq(jobs, 1, Len(jobs) - 1)

SelectJob ==
  /\ qjob' = Head(jobs)
  /\ jobs' = Tail(jobs)

TakeJob ==
  /\ qpc \in {"loop", "wait"}
  /\ ~TimeToLeave /\ jobs # <<>>
  /\ SelectJob
  /\ currentJob' = qjob'
  /\ qpc' = "start"
  /\ UNCHANGED <<jobVars, thread, stopRequested, stopRequired, qget, outcome,
                 dropped, sqlVars, otherVars>>

WaitForJob ==
  /\ qpc = "loop"
  /\ ~TimeToLeave /\ jobs = <<>>
  /\ currentJob' = NoJob
  /\ qpc' = "wait"
  /\ UNCHANGED <<jobVars, thread, jobs, stopRequested, stopRequired, qjob, qget,
                 outcome, dropped, sqlVars, otherVars>>

-----------------------------------------------------------------------------
(***************************************************************************)
(* executeJob(job): SQLiteJob.execute(), then afterExecute() or            *)
(* handleJobException().                                                   *)
(***************************************************************************)
BeginJob ==
  /\ qpc = "start"
  /\ IF MayStart(qjob)
     THEN StartJob(qjob, threads) /\ qpc' = "body"
     ELSE UNCHANGED jobVars /\ qpc' = "after"
  /\ UNCHANGED <<fieldVars, qjob, qget, outcome, dropped, sqlVars, otherVars>>

(* job() runs any number of statements. Each may begin or end a            *)
(* transaction, also one that an earlier job has left open; the exception  *)
(* of one that fails is caught by job(), or ends it in EndBody.            *)
BeginSql ==
  /\ qpc = "body"
  /\ isInterrupted' = FALSE
  /\ qpc' = "sql"
  /\ UNCHANGED <<jobVars, fieldVars, qjob, qget, outcome, dropped, threads,
                 connectionOpen, transaction, otherVars>>

EndSql ==
  /\ qpc = "sql"
  /\ transaction' \in {transaction, NoJob,
                       IF transaction = NoJob THEN qjob ELSE transaction}
  /\ isInterrupted' = FALSE
  /\ qpc' = "body"
  /\ UNCHANGED <<jobVars, fieldVars, qjob, qget, outcome, dropped, threads,
                 connectionOpen, otherVars>>

(* SQLITE_INTERRUPT, and job() does not catch the                          *)
(* SQLiteInterruptedException. SQLite rolls the transaction back if the    *)
(* statement was writing.                                                  *)
SqlInterrupted ==
  /\ qpc = "sql" /\ isInterrupted
  /\ transaction' \in {transaction, NoJob}
  /\ isInterrupted' = FALSE
  /\ ProcessOutcome(qjob, "interrupted")
  /\ outcome' = "interrupted"
  /\ qpc' = "finish"
  /\ UNCHANGED <<fieldVars, qjob, qget, dropped, threads, connectionOpen, otherVars>>

(* job() calls get() of another job. Only the running job's own get() is   *)
(* recognised as a call from the database thread, and throws.              *)
GetOther(j) ==
  /\ JobsWait
  /\ qpc = "body"
  /\ j \in Submitted /\ ~IsDone(j) /\ ~jQueue[j]
  /\ qget' = j
  /\ qpc' = "getWait"
  /\ UNCHANGED <<jobVars, fieldVars, qjob, outcome, dropped, sqlVars, otherVars>>

GetReturns ==
  /\ qpc = "getWait"
  /\ IsDone(qget)
  /\ qget' = NoJob
  /\ qpc' = "body"
  /\ UNCHANGED <<jobVars, fieldVars, qjob, outcome, dropped, sqlVars, otherVars>>

(* job() returns a value or throws an exception other than the above;      *)
(* ThreadDeath is the one that will end the thread.                        *)
EndBody(o) ==
  /\ qpc = "body"
  /\ IF o = "death" THEN MayDie /\ deaths' = deaths + 1 ELSE UNCHANGED deaths
  /\ ProcessOutcome(qjob, o)
  /\ outcome' = o
  /\ qpc' = "finish"
  /\ UNCHANGED <<fieldVars, qjob, qget, dropped, sqlVars,
                 call, reincarnators, order, rejected>>

Result == IF outcome = "value" THEN "value" ELSE "null"

FinishJob ==
  /\ qpc = "finish"
  /\ SetResult(qjob, Result)
  /\ qpc' = "callbacks"
  /\ UNCHANGED <<fieldVars, qjob, qget, outcome, dropped, sqlVars, otherVars>>

(* The exception that job() threw goes on to executeJob(), except for      *)
(* SQLiteInterruptedException.                                             *)
Rethrown_Death == outcome = "death"    \* mutation: errors are swallowed

Rethrown == outcome \in {"error", "death"}

Callbacks ==
  /\ qpc = "callbacks"
  /\ CallJobFinished(qjob, Result)
  /\ qpc' = IF Rethrown THEN "rollback" ELSE "after"
  /\ UNCHANGED <<fieldVars, qjob, qget, outcome, dropped, sqlVars, otherVars>>

AfterExecute ==
  /\ qpc = "after"
  /\ qpc' = IF IsCancelled(qjob) THEN "rollback" ELSE "loop"
  /\ qjob' = IF IsCancelled(qjob) THEN qjob ELSE NoJob
  /\ outcome' = "none"
  /\ UNCHANGED <<jobVars, fieldVars, qget, dropped, sqlVars, otherVars>>

(* rollback(): its SQL can be interrupted like any other, and the          *)
(* exception is only logged.                                               *)
Rollback ==
  /\ qpc = "rollback"
  /\ isInterrupted' = FALSE
  /\ qpc' = "rollbackSql"
  /\ UNCHANGED <<jobVars, fieldVars, qjob, qget, outcome, dropped, threads,
                 connectionOpen, transaction, otherVars>>

AfterRollback == IF outcome = "death" THEN "dispose" ELSE "loop"

RollbackEnds ==
  /\ qpc = "rollbackSql"
  /\ \/ transaction' = NoJob
     \/ isInterrupted /\ UNCHANGED transaction
  /\ isInterrupted' = FALSE
  /\ qpc' = AfterRollback
  /\ qjob' = NoJob
  /\ outcome' = "none"
  /\ UNCHANGED <<jobVars, fieldVars, qget, dropped, threads, connectionOpen,
                 otherVars>>

-----------------------------------------------------------------------------
(***************************************************************************)
(* threadStopped(), and the reincarnator thread it may create.             *)
(***************************************************************************)
Dispose ==
  /\ qpc = "dispose"
  /\ connectionOpen' = FALSE
  /\ transaction' = NoJob
  /\ qpc' = "stopped"
  /\ UNCHANGED <<jobVars, fieldVars, qjob, qget, outcome, dropped, threads,
                 isInterrupted, otherVars>>

WillReincarnate == ~stopRequested /\ Reincarnates

RemoveJobsClearQueue_Lost ==    \* mutation: the list is taken after clear()
  /\ dropped' = <<>>
  /\ jobs' = <<>>

RemoveJobsClearQueue_Kept ==    \* mutation: the list is not cleared
  /\ dropped' = jobs
  /\ UNCHANGED jobs

RemoveJobsClearQueue ==
  /\ dropped' = jobs
  /\ jobs' = <<>>

ThreadStopped ==
  /\ qpc = "stopped"
  /\ thread' = 0
  /\ IF WillReincarnate
     THEN /\ reincarnators' = reincarnators + 1
          /\ qpc' = "none"
          /\ UNCHANGED <<jobs, stopRequested, dropped>>
     ELSE /\ stopRequested' = TRUE
          /\ RemoveJobsClearQueue
          /\ qpc' = "drop"
          /\ UNCHANGED reincarnators
  /\ UNCHANGED <<jobVars, stopRequired, currentJob, qjob, qget, outcome, sqlVars,
                 call, order, rejected, deaths>>

(* cancelJobs(droppedJobs): the next one, which has never run.             *)
DropJob ==
  /\ qpc = "drop" /\ dropped # <<>>
  /\ IF CancelRefused(Head(dropped), TRUE)
     THEN /\ dropped' = Tail(dropped)
          /\ UNCHANGED <<jobVars, qpc>>
     ELSE /\ MarkCancelled(Head(dropped))
          /\ qpc' = "dropFinish"
          /\ UNCHANGED dropped
  /\ UNCHANGED <<fieldVars, qjob, qget, outcome, sqlVars, otherVars>>

FinishDropped ==
  /\ qpc = "dropFinish"
  /\ CallJobFinished(Head(dropped), "null")
  /\ dropped' = Tail(dropped)
  /\ qpc' = "drop"
  /\ UNCHANGED <<fieldVars, qjob, qget, outcome, sqlVars, otherVars>>

ThreadEnds ==
  /\ qpc = "drop" /\ dropped = <<>>
  /\ qpc' = "none"
  /\ UNCHANGED <<jobVars, fieldVars, qjob, qget, outcome, dropped, sqlVars, otherVars>>

Reincarnate_Gone ==    \* mutation: the reincarnator ends when it is notified
  /\ reincarnators > 0
  /\ reincarnators' = reincarnators - 1
  /\ UNCHANGED <<jobVars, fieldVars, threadVars, sqlVars,
                 call, order, rejected, deaths>>

(* The reincarnator wakes up: it ends if the queue has been stopped, and   *)
(* calls start() otherwise, which may find that a user has called it.      *)
Reincarnate ==
  /\ reincarnators > 0
  /\ reincarnators' = reincarnators - 1
  /\ IF MayCreateThread
     THEN NewThread
     ELSE UNCHANGED <<thread, threads, qpc>>
  /\ UNCHANGED <<jobVars, jobs, stopRequested, stopRequired, currentJob, qjob,
                 qget, outcome, dropped, connectionOpen, isInterrupted,
                 transaction, call, order, rejected, deaths>>

-----------------------------------------------------------------------------
BodyEnds == \E o \in {"value", "error", "death"} : EndBody(o)

JobBody ==
  \/ BeginSql \/ EndSql \/ SqlInterrupted
  \/ \E j \in Jobs : GetOther(j)
  \/ GetReturns
  \/ BodyEnds

QueueThread ==
  \/ Open \/ Leave \/ TakeJob \/ WaitForJob
  \/ BeginJob \/ JobBody
  \/ FinishJob \/ Callbacks \/ AfterExecute \/ Rollback \/ RollbackEnds
  \/ Dispose \/ ThreadStopped \/ DropJob \/ FinishDropped \/ ThreadEnds

ThreadFails == OpenFails \/ Interrupted

(* What a user does next of its own will, and how it gets on with a call.  *)
NewCall(u) ==
  \/ Start(u)
  \/ \E j \in Jobs : Execute(u, j)
  \/ \E g \in StopModes : Stop(u, g)
  \/ \E j \in Jobs, m \in CancelModes : Cancel(u, j, m)
  \/ Flush(u)
  \/ Join(u)

InCall(u) ==
  \/ CancelFromQueue(u)
  \/ FinishCancelled(u)
  \/ InterruptHandle(u)
  \/ InterruptNative(u)
  \/ WaitEnds(u)

Next ==
  \/ \E u \in Users : NewCall(u) \/ InCall(u)
  \/ QueueThread
  \/ ThreadFails
  \/ Reincarnate

Spec == Init /\ [][Next]_vars

(***************************************************************************)
(* Threads are scheduled: the queue thread, the reincarnators and a user   *)
(* in a call go on. Nobody is obliged to make a call or to interrupt the   *)
(* queue thread. Of the users' code it is assumed that each statement ends *)
(* and that job() runs finitely many: a body that is again and again       *)
(* between two statements ends.                                            *)
(***************************************************************************)
Fairness ==
  /\ WF_vars(QueueThread)
  /\ SF_vars(BodyEnds)
  /\ WF_vars(Reincarnate)
  /\ \A u \in Users : WF_vars(InCall(u))

FairSpec == Spec /\ Fairness

-----------------------------------------------------------------------------
(***************************************************************************)
(* Safety.                                                                 *)
(***************************************************************************)
Accepted == Range(order)

(* The assert statements of the code hold where it evaluates them: a job   *)
(* being cancelled has a connection only if it runs (SQLiteJob.cancel), a  *)
(* job is done after execute() (afterExecute), and the thread that stops   *)
(* is myThread (threadStopped).                                            *)
SourceAssertions ==
  /\ \A j \in Jobs : ~IsDone(j) /\ jConnection[j] # 0 => jState[j] = "RUNNING"
  /\ qpc = "after" => IsDone(qjob)
  /\ qpc \in {"dispose", "stopped"} => thread = threads

(* jobFinished() is called at most once, whoever finishes the job: the     *)
(* queue thread after job(), a user that cancelled it while pending, or    *)
(* the stopping thread that drops it; and job() is not entered twice.      *)
FinishedOnce ==
  \A j \in Jobs :
    /\ finished[j] <= 1 /\ ran[j] <= 1
    /\ finished[j] = 1 => IsDone(j) /\ ~(j = qjob /\ qpc \in Executing)

(* The connection a canceller would interrupt on behalf of a job is the    *)
(* open connection of the live thread, and no two jobs hold it.            *)
OneJobOnConnection ==
  \A j \in Jobs : jConnection[j] # 0 =>
    /\ j = qjob /\ j = currentJob
    /\ IsOpen(jConnection[j]) /\ thread = threads

(* "Tasks are served on first-come, first-serve basis": when a job runs,   *)
(* all jobs accepted before it are done.                                   *)
FirstComeFirstServed ==
  \A i \in 1 .. Len(order) :
    order[i] = qjob /\ qpc \in Executing =>
      \A k \in 1 .. i - 1 : IsDone(order[k])

(* What flush() relies on: nothing queued and no current job means that    *)
(* every accepted job is done, but for those a stopping thread drops.      *)
FlushMeansDone ==
  NothingToFlush => \A j \in Accepted \ Range(dropped) : IsDone(j)

(* What join() relies on after stop(): once a thread of the stopped queue  *)
(* has ended, every job that the queue accepted is done.                   *)
StoppedMeansDone ==
  stopRequested /\ threads > 0 /\ qpc = "none" => \A j \in Accepted : IsDone(j)

(* The queue with its threads implements the service it promises.          *)
RunningJob == IF qpc \in InBody THEN qjob ELSE NoJob

Service == INSTANCE JobService
  WITH status <- jState, running <- RunningJob, reported <- finished

ImplementsService == Service!Spec

(***************************************************************************)
(* What a step may never do.                                               *)
(***************************************************************************)

(* A job that is done, in particular one cancelled before it started, is   *)
(* not started later; and done is for ever, the only change still possible *)
(* being that a cancelled job which goes on running throws.                *)
DoneIsFinal ==
  [][\A j \in Jobs : IsDone(j) =>
       /\ ran'[j] = ran[j]
       /\ jState'[j] = jState[j] \/ (jState[j] = "CANCELLED" /\ jState'[j] = "ERROR"
                                     /\ j = qjob /\ finished[j] = 0)]_vars

(* "A queue cannot be started after it has stopped", neither by a user nor *)
(* by a reincarnator, and a running thread is never replaced.              *)
NoRestart ==
  [][threads' # threads => ~stopRequested /\ qpc = "none" /\ ~connectionOpen]_vars

(***************************************************************************)
(* Liveness, under FairSpec.                                               *)
(***************************************************************************)

(* A job refused by a stopped queue, or accepted by a queue that has a     *)
(* thread, is finished, also when the thread dies and is reincarnated. The *)
(* one exception: the queue is stopped between the two, and keeps the job  *)
(* for ever (see StopSettlesJobs).                                         *)
StoppedWithoutThread == stopRequested /\ qpc = "none"

EveryJobFinishes ==
  \A j \in Jobs :
    (j \in Accepted /\ thread # 0) \/ j \in rejected
      ~> finished[j] = 1 \/ (StoppedWithoutThread /\ j \in Range(jobs))

(* flush() "waits until all jobs in the queue are executed": called while  *)
(* the queue of an in-memory database has a thread, it returns whatever is *)
(* cancelled and however the queue ends, with one exception: the thread    *)
(* dies, and leaves a myCurrentJob that nobody clears any more.            *)
FlushReturns ==
  \A u \in Users :
    (call[u].pc = "flush" /\ thread # 0)
      ~> (call[u].pc # "flush" \/ [](thread = 0 /\ currentJob # NoJob))

(* "All queued tasks (except for the one that caused the problem) should   *)
(* survive the reincarnation and execute in the new thread": every job     *)
(* accepted by a queue that has a thread is run, unless somebody cancels   *)
(* it or stops the queue.                                                  *)
SurvivesReincarnation ==
  \A j \in Jobs :
    (j \in Accepted /\ thread # 0) ~> (ran[j] = 1 \/ j \in cancelled \/ stopRequested)

(* After stop() a started queue ends, and its connection is closed.        *)
StopEndsThread ==
  (stopRequested /\ thread # 0) ~> (qpc = "none" /\ ~connectionOpen)

-----------------------------------------------------------------------------
(***************************************************************************)
(* Statements that the code makes of itself and does not keep: one is      *)
(* refuted by a run, the others hold only for users that call nothing but  *)
(* cancel(false) and stop(true).                                           *)
(***************************************************************************)

(* isCancelled() is "true if this job was cancelled before it completed",  *)
(* by a cancel() that returned true, and false otherwise, whatever becomes *)
(* of its body later; jobFinished() gets "the result of the job, or null   *)
(* if the job was cancelled".                                              *)
CancelledAsReported ==
  \A j \in Jobs :
    /\ IsCancelled(j) <=> j \in cancelled
    /\ finishedWith[j] = "value" => jState[j] = "SUCCEEDED"

(* rollback() "is called after exception is caught from a job, or after    *)
(* job is cancelled": while the queue waits or any other job has the       *)
(* thread, the transaction that is open is that of a job that succeeded.   *)
NoLeakedTransaction ==
  transaction \notin {NoJob, qjob} => jState[transaction] = "SUCCEEDED"

(* "any pending jobs are cancelled" or executed: once stop() was called,   *)
(* every accepted job gets done.                                           *)
StopSettlesJobs ==
  \A j \in Jobs : (j \in Accepted /\ stopRequested) ~> IsDone(j)

-----------------------------------------------------------------------------
(***************************************************************************)
(* The inductive invariant behind the proofs of SQLiteQueue_proofs.        *)
(***************************************************************************)

(* Where the code dereferences a job, it has one.                          *)
JobReferences ==
  /\ \A u \in Users : call[u].pc \in {"cancel", "interrupt", "native", "finish"}
                        => call[u].job \in Jobs
  /\ qpc \in HasJob => qjob \in Jobs
  /\ qpc = "getWait" => qget \in Jobs
  /\ qpc = "dropFinish" => dropped # <<>>

(* myThread is null exactly when no thread runs the queue.                 *)
ThreadIdentity ==
  /\ qpc \in NoThread => thread = 0
  /\ qpc \notin NoThread => thread = threads /\ threads > 0
  /\ qpc \in {"drop", "dropFinish"} => stopRequested

ConnectionOwned ==
  /\ qpc \in Connected => connectionOpen
  /\ qpc \in NoThread \cup {"open", "stopped"} => ~connectionOpen

(* A job that never ran has no trace of having run.                        *)
PendingUntouched ==
  \A j \in Jobs : jState[j] = "PENDING" => ran[j] = 0 /\ finished[j] = 0

(* The job in the hands of the queue thread.                               *)
RunningOwned ==
  /\ qpc \in InBody => /\ jState[qjob] \in {"RUNNING", "ERROR", "CANCELLED"}
                       /\ jState[qjob] = "ERROR" => qpc = "finish"
                       /\ jConnection[qjob] = threads
                       /\ currentJob = qjob
                       /\ ran[qjob] = 1 /\ finished[qjob] = 0
  /\ qpc = "callbacks" => IsDone(qjob) /\ ran[qjob] = 1 /\ finished[qjob] = 0
  /\ qpc = "start" => currentJob = qjob
  /\ qpc = "after" => IsDone(qjob)
  /\ \A j \in Jobs : jState[j] = "RUNNING" \/ jConnection[j] # 0
                       => j = qjob /\ qpc \in InBody

(* A job cancelled while pending is finished by exactly one thread.        *)
CancelledOwned ==
  /\ \A u \in Users : call[u].pc = "finish" =>
       /\ IsDone(call[u].job)
       /\ ran[call[u].job] = 0 /\ finished[call[u].job] = 0
       /\ \A v \in Users \ {u} : ~(call[v].pc = "finish" /\ call[v].job = call[u].job)
  /\ qpc = "dropFinish" =>
       /\ IsDone(Head(dropped))
       /\ ran[Head(dropped)] = 0 /\ finished[Head(dropped)] = 0
       /\ \A u \in Users : ~(call[u].pc = "finish" /\ call[u].job = Head(dropped))

Bounded ==
  \A j \in Jobs : /\ ran[j] <= 1 /\ finished[j] <= 1
                  /\ finished[j] = 1 => IsDone(j)

IndInv ==
  /\ TypeOK /\ JobReferences /\ ThreadIdentity /\ ConnectionOwned
  /\ PendingUntouched /\ RunningOwned /\ CancelledOwned /\ Bounded
=============================================================================
