--------------------------- MODULE JobService_proofs ---------------------------
(***************************************************************************)
(* Where every accepted job is: the order in which a queue runs its jobs,  *)
(* what flush() and join() may rely on, and that the queue keeps the       *)
(* promise of JobService, for every set of jobs and users; then what more  *)
(* holds for users that interrupt no job.                                  *)
(***************************************************************************)
EXTENDS SQLiteQueue_proofs

USE DEF States, Outcomes, QueuePCs, CallPCs, Executing, InBody, BodyEnds, HasJob,
        Connected, NoThread

(***************************************************************************)
(* The inductive invariant. The accepted jobs come in three stretches:     *)
(* those that the queue thread has taken, and then either those still      *)
(* queued or those that a stopping thread is dropping.                     *)
(***************************************************************************)
Taken == Len(order) - Len(jobs)

IsSuffix(s) ==
  /\ Len(s) <= Len(order)
  /\ \A i \in 1 .. Len(s) : s[i] = order[Len(order) - Len(s) + i]

SubmittedOnce ==
  \A i, k \in 1 .. Len(order) : order[i] = order[k] => i = k

StretchesOfOrder ==
  /\ IsSuffix(jobs) /\ IsSuffix(dropped)
  /\ dropped # <<>> => qpc \in {"drop", "dropFinish"}
  /\ qpc \in {"drop", "dropFinish"} => jobs = <<>>

(* The job in the hands of the queue thread is the one taken last.         *)
LatestTaken ==
  qpc \in HasJob => Len(jobs) < Len(order) /\ qjob = order[Taken]

(* All others that were taken, or dropped, are done.                       *)
TakenAreDone ==
  \A k \in 1 .. Taken - Len(dropped) :
    IsDone(order[k]) \/ (k = Taken /\ qpc \in InBody \cup {"start"})

(* Without reincarnation, a thread that has ended leaves a stopped queue.  *)
EndedIsStopped ==
  ~Reincarnates /\ threads > 0 /\ qpc = "none" => stopRequested /\ jobs = <<>>

OrderInv ==
  /\ SubmittedOnce /\ StretchesOfOrder /\ LatestTaken /\ TakenAreDone
  /\ EndedIsStopped

-----------------------------------------------------------------------------
(***************************************************************************)
(* The steps that matter to the order of the jobs.                         *)
(***************************************************************************)
LEMMA QueueTypes ==
  ASSUME TypeOK
  PROVE  /\ jobs \in Seq(Jobs) /\ order \in Seq(Jobs) /\ dropped \in Seq(Jobs)
         /\ Len(jobs) \in Nat /\ Len(order) \in Nat /\ Len(dropped) \in Nat
         /\ qpc \in QueuePCs /\ threads \in Nat
BY DEF TypeOK, FieldTypeOK, ThreadTypeOK, SqlTypeOK, OtherTypeOK

(* A user leaves the queue alone, or adds a job that is in no queue yet.   *)
LEMMA UserQueueStep ==
  ASSUME NEW u \in Users, NewCall(u) \/ InCall(u)
  PROVE  \/ UNCHANGED <<jobs, order>>
         \/ \E j \in Jobs : /\ j \notin Range(order) /\ ~stopRequested
                            /\ jobs' = Append(jobs, j) /\ order' = Append(order, j)
                            /\ UNCHANGED <<jobVars, threadVars, sqlVars>>
<1>1. CASE \E j \in Jobs : Execute(u, j)
  BY <1>1 DEF Execute, Submitted
<1>2. CASE \/ Start(u) \/ (\E g \in StopModes : Stop(u, g))
           \/ (\E j \in Jobs, m \in CancelModes : Cancel(u, j, m)) \/ CancelFromQueue(u)
  BY <1>2 DEF Start, Stop, Cancel, CancelFromQueue, CancelJob, fieldVars, otherVars
<1>3. CASE Flush(u) \/ Join(u) \/ WaitEnds(u) \/ FinishCancelled(u)
           \/ InterruptHandle(u) \/ InterruptNative(u)
  BY <1>3 DEF Flush, Join, WaitEnds, FinishCancelled, InterruptHandle, InterruptNative,
              fieldVars
<1> QED
  BY <1>1, <1>2, <1>3 DEF NewCall, InCall

(* A step that only moves the queue thread keeps the invariant if the      *)
(* thread leaves a job when it is done, and takes none.                    *)
LEMMA OrderKept ==
  ASSUME TypeOK, SubmittedOnce, StretchesOfOrder, LatestTaken, TakenAreDone,
         UNCHANGED <<jobs, order, dropped>>,
         \A j \in Jobs : IsDone(j) => IsDone(j)',
         qpc' \in HasJob => qpc \in HasJob /\ qjob' = qjob,
         qpc \in InBody \cup {"start"} => qpc' \in InBody \cup {"start"}
                                             \/ (qjob' = qjob /\ IsDone(qjob)'),
         qpc' \in {"drop", "dropFinish"} => qpc \in {"drop", "dropFinish"},
         dropped # <<>> => qpc' \in {"drop", "dropFinish"}
  PROVE  (SubmittedOnce /\ StretchesOfOrder /\ LatestTaken /\ TakenAreDone)'
<1> USE QueueTypes
<1>1. SubmittedOnce'
  BY DEF SubmittedOnce
<1>2. StretchesOfOrder'
  BY DEF StretchesOfOrder, IsSuffix
<1>3. LatestTaken'
  BY DEF LatestTaken, Taken
<1>4. TakenAreDone'
  <2> SUFFICES ASSUME NEW k \in 1 .. Taken - Len(dropped)
               PROVE  IsDone(order[k])' \/ (k = Taken /\ qpc' \in InBody \cup {"start"})
    BY DEF TakenAreDone, Taken
  <2>1. order[k] \in Jobs
    BY DEF Taken
  <2>2. CASE IsDone(order[k])
    BY <2>1, <2>2 DEF IsDone
  <2>3. CASE k = Taken /\ qpc \in InBody \cup {"start"}
    <3>1. qjob = order[k]
      BY <2>3 DEF LatestTaken
    <3> QED
      BY <2>3, <3>1 DEF IsDone
  <2>4. IsDone(order[k]) \/ (k = Taken /\ qpc \in InBody \cup {"start"})
    BY DEF TakenAreDone
  <2> QED
    BY <2>2, <2>3, <2>4
<1> QED
  BY <1>1, <1>2, <1>3, <1>4

LEMMA OrderExecute ==
  ASSUME TypeOK, ThreadIdentity, NEW j \in Jobs,
         SubmittedOnce, StretchesOfOrder, LatestTaken, TakenAreDone,
         j \notin Range(order), ~stopRequested,
         jobs' = Append(jobs, j), order' = Append(order, j),
         UNCHANGED <<jobVars, threadVars, sqlVars>>
  PROVE  (SubmittedOnce /\ StretchesOfOrder /\ LatestTaken /\ TakenAreDone)'
<1> USE QueueTypes
<1>1. /\ Len(order') = Len(order) + 1 /\ Len(jobs') = Len(jobs) + 1
      /\ order'[Len(order) + 1] = j /\ jobs'[Len(jobs) + 1] = j
      /\ \A i \in 1 .. Len(order) : order'[i] = order[i] /\ order[i] # j
      /\ \A i \in 1 .. Len(jobs) : jobs'[i] = jobs[i]
  BY DEF Range
<1>2. dropped = <<>> /\ Len(dropped) = 0 /\ qpc \notin {"drop", "dropFinish"}
  BY DEF StretchesOfOrder, ThreadIdentity
<1>3. /\ dropped' = <<>> /\ qpc' = qpc /\ qjob' = qjob /\ jState' = jState
      /\ Len(dropped') = 0
  BY <1>2 DEF threadVars, jobVars
<1>4. SubmittedOnce'
  BY <1>1 DEF SubmittedOnce
<1>5. /\ Len(jobs') <= Len(order')
      /\ \A i \in 1 .. Len(jobs') : jobs'[i] = order'[Len(order') - Len(jobs') + i]
  <2>1. Len(jobs) <= Len(order)
    BY DEF IsSuffix, StretchesOfOrder
  <2>2. ASSUME NEW i \in 1 .. Len(jobs')
        PROVE  jobs'[i] = order'[Len(order') - Len(jobs') + i]
    <3>0. Len(order') - Len(jobs') + i = Len(order) - Len(jobs) + i
      BY <1>1, <2>2
    <3>1. CASE i \in 1 .. Len(jobs)
      <4>1. Len(order) - Len(jobs) + i \in 1 .. Len(order)
        BY <2>1, <3>1
      <4>2. jobs[i] = order[Len(order) - Len(jobs) + i]
        BY <3>1 DEF IsSuffix, StretchesOfOrder
      <4> QED
        BY <1>1, <3>0, <3>1, <4>1, <4>2
    <3>2. CASE i = Len(jobs) + 1
      BY <1>1, <3>0, <3>2
    <3>3. i \in 1 .. Len(jobs) \/ i = Len(jobs) + 1
      BY <1>1, <2>2
    <3> QED
      BY <3>1, <3>2, <3>3, Zenon
  <2>3. Len(jobs') <= Len(order')
    BY <1>1, <2>1
  <2> QED
    BY <2>2, <2>3, Zenon
<1>6. StretchesOfOrder'
  <2>1. IsSuffix(jobs)'
    BY <1>5 DEF IsSuffix
  <2>2. IsSuffix(dropped)'
    BY <1>1, <1>3 DEF IsSuffix
  <2> QED
    BY <1>2, <1>3, <2>1, <2>2 DEF StretchesOfOrder
<1>7. Taken' = Taken /\ Taken \in Int /\ Taken <= Len(order)
  BY <1>1 DEF Taken
<1>8. LatestTaken'
  BY <1>1, <1>3, <1>7 DEF LatestTaken, Taken
<1>9. TakenAreDone'
  BY <1>1, <1>2, <1>3, <1>7 DEF TakenAreDone, IsDone
<1> QED
  BY <1>4, <1>6, <1>8, <1>9

LEMMA OrderTake ==
  ASSUME TypeOK, JobReferences, ThreadIdentity, TakeJob,
         SubmittedOnce, StretchesOfOrder, LatestTaken, TakenAreDone
  PROVE  (SubmittedOnce /\ StretchesOfOrder /\ LatestTaken /\ TakenAreDone)'
<1> USE QueueTypes
<1>1. /\ jobs # <<>> /\ jobs' = Tail(jobs) /\ qjob' = Head(jobs)
      /\ UNCHANGED <<order, dropped, jState>>
      /\ qpc \in {"loop", "wait"} /\ qpc' = "start"
  BY DEF TakeJob, SelectJob, jobVars, otherVars
<1>2. /\ Len(jobs) > 0 /\ Len(jobs') = Len(jobs) - 1 /\ qjob' = jobs[1]
      /\ \A i \in 1 .. Len(jobs') : jobs'[i] = jobs[i + 1]
  BY <1>1
<1>3. dropped = <<>> /\ Len(dropped) = 0
  BY <1>1 DEF StretchesOfOrder
<1>4. Taken' = Taken + 1 /\ Taken \in Nat /\ Len(jobs) <= Len(order)
  BY <1>1, <1>2 DEF Taken, StretchesOfOrder, IsSuffix
<1>5. SubmittedOnce'
  BY <1>1 DEF SubmittedOnce
<1>6. StretchesOfOrder'
  BY <1>1, <1>2, <1>3 DEF StretchesOfOrder, IsSuffix
<1>7. LatestTaken'
  BY <1>1, <1>2, <1>4 DEF LatestTaken, StretchesOfOrder, IsSuffix, Taken
<1>8. TakenAreDone'
  BY <1>1, <1>3, <1>4 DEF TakenAreDone, IsDone
<1> QED
  BY <1>5, <1>6, <1>7, <1>8

LEMMA OrderStopped ==
  ASSUME TypeOK, ThreadStopped,
         SubmittedOnce, StretchesOfOrder, LatestTaken, TakenAreDone
  PROVE  (SubmittedOnce /\ StretchesOfOrder /\ LatestTaken /\ TakenAreDone)'
<1> USE QueueTypes
<1>1. qpc = "stopped" /\ UNCHANGED <<order, jState, qjob>> /\ dropped = <<>>
  BY DEF ThreadStopped, jobVars, StretchesOfOrder
<1>2. CASE WillReincarnate
  <2>1. UNCHANGED <<jobs, dropped>> /\ qpc' = "none"
    BY <1>2 DEF ThreadStopped
  <2> QED
    BY <1>1, <2>1, OrderKept DEF IsDone
<1>3. CASE ~WillReincarnate
  <2>1. dropped' = jobs /\ jobs' = <<>> /\ qpc' = "drop"
    BY <1>3 DEF ThreadStopped, RemoveJobsClearQueue
  <2>2. Len(jobs') = 0 /\ Len(dropped) = 0 /\ Taken' = Len(order)
    BY <1>1, <2>1 DEF Taken
  <2>3. SubmittedOnce' /\ LatestTaken'
    BY <1>1, <2>1 DEF SubmittedOnce, LatestTaken
  <2>4. StretchesOfOrder'
    BY <1>1, <2>1, <2>2 DEF StretchesOfOrder, IsSuffix
  <2>5. TakenAreDone'
    BY <1>1, <2>1, <2>2 DEF TakenAreDone, IsDone, Taken
  <2> QED
    BY <2>3, <2>4, <2>5
<1> QED
  BY <1>2, <1>3

(* A job leaves the dropped ones when it is done.                          *)
LEMMA OrderDropped ==
  ASSUME TypeOK, SubmittedOnce, StretchesOfOrder, LatestTaken, TakenAreDone,
         dropped # <<>>, qpc \in {"drop", "dropFinish"}, IsDone(Head(dropped)),
         UNCHANGED <<jState, jobs, order>>, dropped' = Tail(dropped), qpc' = "drop"
  PROVE  (SubmittedOnce /\ StretchesOfOrder /\ LatestTaken /\ TakenAreDone)'
<1> USE QueueTypes
<1>1. /\ Len(dropped) > 0 /\ Len(dropped') = Len(dropped) - 1 /\ Head(dropped) = dropped[1]
      /\ \A i \in 1 .. Len(dropped') : dropped'[i] = dropped[i + 1]
  OBVIOUS
<1>2. jobs = <<>> /\ Len(jobs) = 0 /\ Taken = Len(order) /\ Taken' = Taken
  BY DEF StretchesOfOrder, Taken
<1>3. SubmittedOnce' /\ LatestTaken'
  BY DEF SubmittedOnce, LatestTaken
<1>4. StretchesOfOrder'
  BY <1>1, <1>2 DEF StretchesOfOrder, IsSuffix
<1>5. TakenAreDone'
  <2> SUFFICES ASSUME NEW k \in 1 .. Taken - Len(dropped')
               PROVE  IsDone(order[k])
    BY <1>2 DEF TakenAreDone, IsDone
  <2>1. CASE k \in 1 .. Taken - Len(dropped)
    BY <2>1 DEF TakenAreDone
  <2>2. CASE k = Taken - Len(dropped) + 1
    BY <1>1, <1>2, <2>2 DEF StretchesOfOrder, IsSuffix
  <2> QED
    BY <1>1, <1>2, <2>1, <2>2
<1> QED
  BY <1>3, <1>4, <1>5

LEMMA OrderDrop ==
  ASSUME TypeOK, JobReferences, CancelledOwned, DropJob \/ FinishDropped,
         \A j \in Jobs : IsDone(j) => IsDone(j)',
         SubmittedOnce, StretchesOfOrder, LatestTaken, TakenAreDone
  PROVE  (SubmittedOnce /\ StretchesOfOrder /\ LatestTaken /\ TakenAreDone)'
<1> USE QueueTypes
<1>0. UNCHANGED <<jobs, order, qjob>> /\ dropped # <<>>
  BY DEF DropJob, FinishDropped, fieldVars, otherVars, JobReferences
<1>1. CASE FinishDropped
  BY <1>0, <1>1, OrderDropped DEF FinishDropped, CallJobFinished, CancelledOwned
<1>2. CASE DropJob /\ CancelRefused(Head(dropped), TRUE)
  BY <1>0, <1>2, OrderDropped DEF DropJob, CancelRefused, jobVars
<1>3. CASE DropJob /\ ~CancelRefused(Head(dropped), TRUE)
  BY <1>0, <1>3, OrderKept DEF DropJob
<1> QED
  BY <1>1, <1>2, <1>3

LEMMA EndedIsStoppedStep ==
  ASSUME TypeOK, JobReferences, ThreadIdentity, StretchesOfOrder, EndedIsStopped, Next
  PROVE  EndedIsStopped'
<1> USE DEF EndedIsStopped
<1>1. ASSUME NEW u \in Users, NewCall(u) \/ InCall(u)
      PROVE  EndedIsStopped'
  BY <1>1, UserStep, UserQueueStep DEF NewThread
<1>2. CASE Reincarnate
  BY <1>2 DEF Reincarnate, NewThread
<1>3. CASE ThreadStopped
  BY <1>3 DEF ThreadStopped, WillReincarnate
<1>4. CASE ThreadEnds
  BY <1>4 DEF ThreadEnds, ThreadIdentity, StretchesOfOrder, fieldVars
<1>5. CASE (QueueThread \/ ThreadFails) /\ ~ThreadStopped /\ ~ThreadEnds
  <2>1. qpc' # "none"
    BY <1>5 DEF QueueThread, JobBody, ThreadFails, Open, OpenFails, Interrupted,
      Leave, TakeJob, WaitForJob, BeginJob, BeginSql, EndSql, SqlInterrupted, GetOther,
      GetReturns, EndBody, FinishJob, Callbacks, AfterExecute, Rollback, RollbackEnds,
      AfterRollback, Dispose, DropJob, FinishDropped
  <2> QED
    BY <2>1
<1> QED
  BY <1>1, <1>2, <1>3, <1>4, <1>5 DEF Next, QueueThread

(* Where the queue thread goes with the job it has, in a step that neither *)
(* takes nor drops one.                                                    *)
LEMMA ThreadKeepsJob ==
  ASSUME TypeOK, JobReferences, ThreadIdentity, RunningOwned, StretchesOfOrder,
         QueueThread \/ ThreadFails \/ Reincarnate,
         ~TakeJob, ~ThreadStopped, ~DropJob, ~FinishDropped
  PROVE  /\ UNCHANGED <<jobs, order, dropped>>
         /\ qpc' \in HasJob => qpc \in HasJob /\ qjob' = qjob
         /\ qpc \in InBody \cup {"start"} => qpc' \in InBody \cup {"start"}
                                             \/ (qjob' = qjob /\ IsDone(qjob)')
         /\ qpc' \in {"drop", "dropFinish"} => qpc \in {"drop", "dropFinish"}
         /\ dropped # <<>> => qpc' \in {"drop", "dropFinish"}
<1> USE DEF fieldVars, otherVars
<1>0. dropped # <<>> => qpc \in {"drop", "dropFinish"}
  BY DEF StretchesOfOrder
<1>1. CASE Open \/ OpenFails \/ Interrupted \/ Leave \/ WaitForJob
  BY <1>0, <1>1 DEF Open, OpenFails, Interrupted, Leave, WaitForJob
<1>2. CASE BeginJob
  <2>1. CASE MayStart(qjob)
    BY <1>0, <1>2, <2>1 DEF BeginJob
  <2>2. CASE ~MayStart(qjob)
    <3>1. IsDone(qjob) \/ jState[qjob] = "RUNNING"
      BY <1>2, <2>2 DEF BeginJob, MayStart, JobReferences, IsDone, TypeOK, JobTypeOK
    <3>2. jState[qjob] # "RUNNING"
      BY <1>2 DEF BeginJob, RunningOwned, JobReferences
    <3> QED
      BY <1>0, <1>2, <2>2, <3>1, <3>2 DEF BeginJob, IsDone, jobVars
  <2> QED
    BY <2>1, <2>2
<1>3. CASE JobBody
  BY <1>0, <1>3 DEF JobBody, BeginSql, EndSql, SqlInterrupted, GetOther, GetReturns, EndBody
<1>4. CASE FinishJob
  <2>1. qjob \in Jobs /\ jState[qjob] \in {"RUNNING", "ERROR", "CANCELLED"}
    BY <1>4 DEF FinishJob, JobReferences, RunningOwned
  <2>2. jState'[qjob] = IF jState[qjob] = "RUNNING" THEN "SUCCEEDED" ELSE jState[qjob]
    BY <1>4, <2>1, SetResultFacts DEF FinishJob, TypeOK
  <2> QED
    BY <1>0, <1>4, <2>1, <2>2 DEF FinishJob, IsDone
<1>5. CASE Callbacks \/ AfterExecute \/ Rollback \/ RollbackEnds
  BY <1>0, <1>5 DEF Callbacks, AfterExecute, Rollback, RollbackEnds, AfterRollback
<1>6. CASE Dispose \/ ThreadEnds
  BY <1>0, <1>6 DEF Dispose, ThreadEnds
<1>7. CASE Reincarnate
  BY <1>0, <1>7, ReincarnateStep DEF Reincarnate, TypeOK
<1> QED
  BY <1>1, <1>2, <1>3, <1>4, <1>5, <1>6, <1>7 DEF QueueThread, ThreadFails

LEMMA OrderInvStep ==
  ASSUME IndInv, OrderInv, Next
  PROVE  OrderInv'
<1> USE DEF OrderInv
<1>0. TypeOK /\ JobReferences /\ ThreadIdentity /\ RunningOwned /\ CancelledOwned
  BY DEF IndInv
<1>1. \A j \in Jobs : IsDone(j) => IsDone(j)'
  BY DoneStep DEF IsDone
<1>2. EndedIsStopped'
  BY <1>0, EndedIsStoppedStep
<1>3. ASSUME NEW u \in Users, NewCall(u) \/ InCall(u)
      PROVE  (SubmittedOnce /\ StretchesOfOrder /\ LatestTaken /\ TakenAreDone)'
  <2>1. CASE UNCHANGED <<jobs, order>>
    <3>1. /\ UNCHANGED <<qjob, dropped>>
          /\ UNCHANGED qpc \/ (qpc = "none" /\ qpc' = "open")
      BY <1>0, <1>3, UserStep, NewThreadStep DEF TypeOK
    <3>2. dropped # <<>> => qpc \in {"drop", "dropFinish"}
      BY DEF StretchesOfOrder
    <3> QED
      BY <1>0, <1>1, <2>1, <3>1, <3>2, OrderKept
  <2>2. ASSUME NEW j \in Jobs, j \notin Range(order), ~stopRequested,
               jobs' = Append(jobs, j), order' = Append(order, j),
               UNCHANGED <<jobVars, threadVars, sqlVars>>
        PROVE  (SubmittedOnce /\ StretchesOfOrder /\ LatestTaken /\ TakenAreDone)'
    BY <1>0, <2>2, OrderExecute
  <2> QED
    BY <1>3, <2>1, <2>2, UserQueueStep
<1>4. CASE TakeJob
  BY <1>0, <1>2, <1>4, OrderTake
<1>5. CASE ThreadStopped
  BY <1>0, <1>2, <1>5, OrderStopped
<1>6. CASE DropJob \/ FinishDropped
  BY <1>0, <1>1, <1>2, <1>6, OrderDrop
<1>7. CASE /\ QueueThread \/ ThreadFails \/ Reincarnate
           /\ ~TakeJob /\ ~ThreadStopped /\ ~DropJob /\ ~FinishDropped
  BY <1>0, <1>1, <1>2, <1>7, ThreadKeepsJob, OrderKept
<1> QED
  BY <1>2, <1>3, <1>4, <1>5, <1>6, <1>7 DEF Next

LEMMA InitOrderInv == Init => OrderInv
<1> SUFFICES ASSUME Init PROVE OrderInv
  OBVIOUS
<1>1. order = <<>> /\ jobs = <<>> /\ dropped = <<>> /\ qpc = "none" /\ threads = 0
  BY DEF Init
<1>2. Len(order) = 0 /\ Len(jobs) = 0 /\ Len(dropped) = 0
  BY <1>1
<1> QED
  BY <1>1, <1>2 DEF OrderInv, SubmittedOnce, StretchesOfOrder, IsSuffix, LatestTaken,
                    TakenAreDone, Taken, EndedIsStopped

LEMMA OrderInvNext ==
  ASSUME IndInv, OrderInv, [Next]_vars
  PROVE  OrderInv'
<1>1. CASE Next
  BY <1>1, OrderInvStep
<1>2. CASE UNCHANGED vars
  BY <1>2 DEF vars, jobVars, fieldVars, threadVars, sqlVars, otherVars, OrderInv,
              SubmittedOnce, StretchesOfOrder, IsSuffix, LatestTaken, TakenAreDone,
              Taken, EndedIsStopped, IsDone
<1> QED
  BY <1>1, <1>2

(* Every accepted job is queued, in the hands of the queue thread, being   *)
(* dropped, or done: the queue thread, the users and the reincarnators     *)
(* forget none.                                                            *)
THEOREM OrderInvariance == Spec => []OrderInv
BY InitOrderInv, OrderInvNext, Invariance, PTL DEF Spec

(* A job is entered when all jobs accepted before it are done.             *)
THEOREM JobsRunInOrder == Spec => []FirstComeFirstServed
<1>1. IndInv /\ OrderInv => FirstComeFirstServed
  <2> SUFFICES ASSUME IndInv, OrderInv, NEW i \in 1 .. Len(order),
                      order[i] = qjob, qpc \in Executing, NEW k \in 1 .. i - 1
               PROVE  IsDone(order[k])
    BY DEF FirstComeFirstServed
  <2> USE QueueTypes DEF IndInv, OrderInv
  <2>1. Len(jobs) < Len(order) /\ qjob = order[Taken] /\ Len(dropped) = 0
    BY DEF LatestTaken, StretchesOfOrder
  <2>2. i = Taken
    BY <2>1 DEF SubmittedOnce, Taken
  <2> QED
    BY <2>1, <2>2 DEF TakenAreDone, Taken
<1> QED
  BY <1>1, Invariance, OrderInvariance, PTL

(* When flush() returns, every accepted job is done, unless it is one that *)
(* a stopping thread is dropping.                                          *)
THEOREM FlushIsComplete == Spec => []FlushMeansDone
<1>1. IndInv /\ OrderInv => FlushMeansDone
  <2> SUFFICES ASSUME IndInv, OrderInv, jobs = <<>>, currentJob = NoJob,
                      NEW k \in 1 .. Len(order), order[k] \notin Range(dropped)
               PROVE  IsDone(order[k])
    BY QueueTypes DEF FlushMeansDone, NothingToFlush, Accepted, Range, IndInv
  <2> USE QueueTypes DEF IndInv, OrderInv
  <2>1. qpc \notin InBody \cup {"start"}
    BY JobsAssumption DEF RunningOwned, JobReferences
  <2>2. k <= Len(order) - Len(dropped)
    <3>1. SUFFICES ASSUME k > Len(order) - Len(dropped)
                   PROVE  order[k] \in Range(dropped)
      OBVIOUS
    <3>2. Len(dropped) <= Len(order)
      BY DEF StretchesOfOrder, IsSuffix
    <3>3. k - (Len(order) - Len(dropped)) \in 1 .. Len(dropped)
      BY <3>1, <3>2
    <3>4. dropped[k - (Len(order) - Len(dropped))] = order[k]
      BY <3>2, <3>3 DEF StretchesOfOrder, IsSuffix
    <3> QED
      BY <3>3, <3>4 DEF Range
  <2> QED
    BY <2>1, <2>2 DEF TakenAreDone, Taken
<1> QED
  BY <1>1, Invariance, OrderInvariance, PTL

(* When the thread of a stopped queue over an in-memory database has       *)
(* ended, so that join() returns, every accepted job is done.              *)
THEOREM StoppedIsComplete ==
  ASSUME ~Reincarnates
  PROVE  Spec => []StoppedMeansDone
<1>1. IndInv /\ OrderInv => StoppedMeansDone
  <2> SUFFICES ASSUME IndInv, OrderInv, stopRequested, threads > 0, qpc = "none",
                      NEW k \in 1 .. Len(order)
               PROVE  IsDone(order[k])
    BY QueueTypes DEF StoppedMeansDone, Accepted, Range, IndInv
  <2> USE QueueTypes DEF IndInv, OrderInv
  <2>1. Len(jobs) = 0 /\ Len(dropped) = 0
    BY DEF EndedIsStopped, StretchesOfOrder
  <2> QED
    BY <2>1 DEF TakenAreDone, Taken
<1> QED
  BY <1>1, Invariance, OrderInvariance, PTL

-----------------------------------------------------------------------------
(***************************************************************************)
(* The queue implements JobService: the jobs have the states they have,    *)
(* and the job that runs is that of the thread while it is in job().       *)
(***************************************************************************)

(* MarkCancelled, CallJobFinished and a step that touches no job, as seen  *)
(* by the users of the queue.                                              *)
LEMMA MarkIsCancel ==
  ASSUME TypeOK, NEW j \in Jobs, ~IsDone(j), MarkCancelled(j),
         UNCHANGED <<order, RunningJob>>
  PROVE  Service!Next
<1>1. jState[j] \in {"PENDING", "RUNNING"}
  BY DEF TypeOK, JobTypeOK, IsDone
<1>2. Service!Cancel(j)
  BY <1>1 DEF MarkCancelled, Service!Cancel
<1> QED
  BY <1>2 DEF Service!Next

LEMMA FinishedIsReport ==
  ASSUME TypeOK, NEW j \in Jobs, NEW r, IsDone(j), finished[j] = 0, RunningJob # j,
         CallJobFinished(j, r), UNCHANGED <<order, RunningJob>>
  PROVE  Service!Next
<1>1. jState[j] \in Service!Done
  BY DEF IsDone, Service!Done
<1>2. finished' = [finished EXCEPT ![j] = 1]
  BY DEF CallJobFinished, TypeOK, JobTypeOK
<1>3. Service!Report(j)
  BY <1>1, <1>2 DEF CallJobFinished, Service!Report
<1> QED
  BY <1>3 DEF Service!Next

LEMMA SameJobRuns ==
  ASSUME qpc \in InBody <=> qpc' \in InBody, qpc \in InBody => qjob' = qjob
  PROVE  RunningJob' = RunningJob
BY DEF RunningJob

(* What the users do.                                                      *)
LEMMA UserServiceStep ==
  ASSUME IndInv, NEW u \in Users, NewCall(u) \/ InCall(u)
  PROVE  Service!Next \/ UNCHANGED Service!vars
<1>t. TypeOK /\ JobReferences /\ ThreadIdentity /\ CancelledOwned /\ RunningOwned
  BY DEF IndInv
<1>1. RunningJob' = RunningJob
  BY <1>t, UserJobStep, SameJobRuns
<1>2. ASSUME NEW j \in Jobs, j \notin Range(order), order' = Append(order, j),
             UNCHANGED jobVars
      PROVE  Service!Next
  <2>1. \A i \in 1 .. Len(order) : order[i] # j
    BY <1>t, <1>2, QueueTypes DEF Range
  <2>2. Service!Submit(j)
    BY <1>1, <1>2, <2>1 DEF Service!Submit, jobVars
  <2> QED
    BY <2>2 DEF Service!Next
<1>3. CASE UNCHANGED order /\ UNCHANGED <<jState, jConnection, ran, finished>>
  BY <1>1, <1>3 DEF Service!vars
<1>4. ASSUME UNCHANGED order, NEW j \in Jobs, MarkCancelled(j), ~IsDone(j)
      PROVE  Service!Next
  BY <1>1, <1>4, <1>t, MarkIsCancel
<1>5. ASSUME UNCHANGED order, NEW j \in Jobs, CallJobFinished(j, "null"), IsDone(j),
             ran[j] = 0, finished[j] = 0
      PROVE  Service!Next
  <2>1. RunningJob # j
    BY <1>5, <1>t, JobsAssumption DEF RunningJob, RunningOwned
  <2> QED
    BY <1>1, <1>5, <1>t, <2>1, FinishedIsReport
<1>6. CASE UNCHANGED order
  BY <1>t, <1>3, <1>4, <1>5, <1>6, UserJobStep
<1> QED
  BY <1>2, <1>6, UserQueueStep

(* The job that the queue thread begins is the first that is not done.     *)
LEMMA BeginIsRun ==
  ASSUME IndInv, OrderInv, BeginJob
  PROVE  Service!Next \/ UNCHANGED Service!vars
<1> USE QueueTypes DEF IndInv, OrderInv
<1>0. qjob \in Jobs /\ qpc = "start" /\ UNCHANGED <<order, qjob>> /\ RunningJob = NoJob
  BY DEF BeginJob, JobReferences, otherVars, RunningJob
<1>1. CASE MayStart(qjob)
  <2>1. StartJob(qjob, threads) /\ qpc' = "body" /\ RunningJob' = qjob
    BY <1>0, <1>1 DEF BeginJob, RunningJob
  <2>2. /\ Taken \in 1 .. Len(order) /\ order[Taken] = qjob /\ Len(dropped) = 0
    BY <1>0 DEF LatestTaken, StretchesOfOrder, Taken
  <2>3. \A k \in 1 .. Taken - 1 : jState[order[k]] \in Service!Done
    BY <2>2 DEF TakenAreDone, IsDone, Service!Done
  <2>4. Service!Run(qjob)
    BY <1>0, <1>1, <2>1, <2>2, <2>3 DEF MayStart, StartJob, Service!Run
  <2> QED
    BY <1>0, <2>4 DEF Service!Next
<1>2. CASE ~MayStart(qjob)
  BY <1>0, <1>2 DEF BeginJob, RunningJob, Service!vars, jobVars
<1> QED
  BY <1>1, <1>2

(* job() throws, or returns.                                               *)
LEMMA EndIsThrow ==
  ASSUME IndInv, SqlInterrupted \/ \E o \in {"value", "error", "death"} : EndBody(o)
  PROVE  Service!Next \/ UNCHANGED Service!vars
<1>t. jState \in [Jobs -> States]
  BY DEF IndInv, TypeOK, JobTypeOK
<1>1. /\ qjob \in Jobs /\ UNCHANGED <<order, qjob>>
      /\ RunningJob = qjob /\ RunningJob' = qjob
      /\ jState[qjob] \in {"RUNNING", "CANCELLED"}
  BY DEF SqlInterrupted, EndBody, IndInv, JobReferences, RunningOwned, RunningJob, otherVars
<1>2. PICK o \in Outcomes : ProcessOutcome(qjob, o)
  BY DEF SqlInterrupted, EndBody
<1>3. UNCHANGED finished
  BY <1>2 DEF ProcessOutcome
<1>4. CASE o = "value"
  BY <1>1, <1>2, <1>3, <1>4 DEF ProcessOutcome, Service!vars
<1>5. CASE o # "value"
  <2>1. \E x \in {"ERROR", "CANCELLED"} : jState' = [jState EXCEPT ![qjob] = x]
    BY <1>2, <1>5 DEF ProcessOutcome
  <2>2. Service!Throw(qjob)
    BY <1>1, <1>3, <2>1 DEF Service!Throw
  <2> QED
    BY <1>1, <2>2 DEF Service!Next
<1> QED
  BY <1>4, <1>5

LEMMA FinishIsFinish ==
  ASSUME IndInv, FinishJob
  PROVE  Service!Next
<1>1. /\ qjob \in Jobs /\ UNCHANGED <<order, qjob>>
      /\ RunningJob = qjob /\ RunningJob' = NoJob
  BY DEF FinishJob, IndInv, JobReferences, RunningJob, otherVars
<1>2. Service!Finish(qjob)
  BY <1>1 DEF FinishJob, SetResult, Service!Finish
<1> QED
  BY <1>1, <1>2 DEF Service!Next

LEMMA ServiceStep ==
  ASSUME IndInv, OrderInv, Next
  PROVE  Service!Next \/ UNCHANGED Service!vars
<1>t. TypeOK /\ JobReferences /\ ThreadIdentity /\ CancelledOwned /\ RunningOwned
  BY DEF IndInv
<1>1. CASE \E u \in Users : NewCall(u) \/ InCall(u)
  BY <1>1, UserServiceStep
<1>2. CASE Reincarnate
  <2>1. UNCHANGED <<jState, finished, order, RunningJob>>
    BY <1>2, <1>t, ReincarnateStep, SameJobRuns DEF Reincarnate, jobVars, TypeOK
  <2> QED
    BY <2>1 DEF Service!vars
<1>3. CASE QuietSteps
  <2>1. UNCHANGED order
    BY <1>3 DEF QuietSteps, Open, OpenFails, Interrupted, Leave, TakeJob, WaitForJob,
      BeginSql, EndSql, GetOther, GetReturns, AfterExecute, Rollback, RollbackEnds,
      Dispose, ThreadStopped, ThreadEnds, otherVars
  <2>2. UNCHANGED <<jState, finished, RunningJob>>
    BY <1>3, QuietStep, SameJobRuns DEF jobVars
  <2> QED
    BY <2>1, <2>2 DEF Service!vars
<1>4. CASE BeginJob
  BY <1>4, BeginIsRun
<1>5. CASE SqlInterrupted \/ \E o \in {"value", "error", "death"} : EndBody(o)
  BY <1>5, EndIsThrow
<1>6. CASE FinishJob
  BY <1>6, FinishIsFinish
<1>7. CASE Callbacks
  <2>1. /\ qjob \in Jobs /\ IsDone(qjob) /\ finished[qjob] = 0 /\ RunningJob # qjob
        /\ UNCHANGED <<order, RunningJob>> /\ CallJobFinished(qjob, Result)
    BY <1>7, <1>t, JobsAssumption
       DEF Callbacks, JobReferences, RunningOwned, RunningJob, otherVars
  <2> QED
    BY <2>1, <1>t, FinishedIsReport
<1>8. CASE DropJob
  <2>1. Head(dropped) \in Jobs
    BY <1>8, <1>t, QueueTypes DEF DropJob
  <2>2. UNCHANGED <<order, RunningJob>>
    BY <1>8, SameJobRuns DEF DropJob, otherVars
  <2>3. CASE CancelRefused(Head(dropped), TRUE)
    BY <1>8, <2>2, <2>3 DEF DropJob, jobVars, Service!vars
  <2>4. CASE ~CancelRefused(Head(dropped), TRUE)
    BY <1>8, <1>t, <2>1, <2>2, <2>4, MarkIsCancel DEF DropJob, CancelRefused
  <2> QED
    BY <2>3, <2>4
<1>9. CASE FinishDropped
  <2>1. /\ Head(dropped) \in Jobs /\ UNCHANGED <<order, RunningJob>> /\ RunningJob = NoJob
        /\ IsDone(Head(dropped)) /\ finished[Head(dropped)] = 0
        /\ CallJobFinished(Head(dropped), "null")
    BY <1>9, <1>t, QueueTypes
       DEF FinishDropped, RunningJob, otherVars, JobReferences, CancelledOwned
  <2> QED
    BY <2>1, <1>t, JobsAssumption, FinishedIsReport
<1> QED
  BY <1>1, <1>2, <1>3, <1>4, <1>5, <1>6, <1>7, <1>8, <1>9, StepCases

LEMMA ServiceInit == Init => Service!Init
BY DEF Init, JobInit, RunningJob, Service!Init

(* Seen by its users a queue is a JobService, whatever its threads do:     *)
(* jobs run one at a time and in order, a done job stays done, each is     *)
(* reported at most once and when it no longer runs.                       *)
THEOREM ServiceImplemented == Spec => ImplementsService
<1>1. IndInv /\ OrderInv /\ [Next]_vars => [Service!Next]_(Service!vars)
  <2> SUFFICES ASSUME IndInv, OrderInv, [Next]_vars
               PROVE  Service!Next \/ UNCHANGED Service!vars
    OBVIOUS
  <2>1. CASE Next
    BY <2>1, ServiceStep
  <2>2. CASE UNCHANGED vars
    BY <2>2 DEF vars, jobVars, threadVars, otherVars, RunningJob, Service!vars
  <2> QED
    BY <2>1, <2>2
<1>2. ImplementsService <=> Service!Init /\ [][Service!Next]_(Service!vars)
  BY DEF ImplementsService, Service!Spec
<1> QED
  BY <1>1, <1>2, ServiceInit, Invariance, OrderInvariance, PTL DEF Spec

-----------------------------------------------------------------------------
(***************************************************************************)
(* What the comments of SQLiteQueue and SQLiteJob say of cancelled jobs,   *)
(* of their results and of transactions holds for users that never         *)
(* interrupt a running job: they call cancel(false) and stop(true) only.   *)
(* The inductive invariant.                                                *)
(***************************************************************************)
GentleUsers == CancelModes \subseteq {FALSE} /\ StopModes \subseteq {TRUE}

(* Nobody is about to interrupt; what execute() cancels was refused.       *)
GentleCalls ==
  \A u \in Users : /\ call[u].pc \notin {"interrupt", "native"}
                   /\ call[u].pc = "cancel" => call[u].job \in rejected

NotForced == ~stopRequired /\ ~isInterrupted

RefusedApart == rejected \cap Range(order) = {}

(* The state of a job tells how it ended.                                  *)
StateTells ==
  /\ \A j \in Jobs : /\ IsCancelled(j) <=> j \in cancelled
                     /\ finishedWith[j] = "value" => jState[j] = "SUCCEEDED"
  /\ qpc \in InBody \ {"finish"} => jState[qjob] = "RUNNING"
  /\ qpc = "finish" => \/ outcome = "value" /\ jState[qjob] = "RUNNING"
                       \/ outcome \in {"error", "death"} /\ jState[qjob] = "ERROR"
  /\ qpc = "callbacks" => \/ outcome = "value" /\ jState[qjob] = "SUCCEEDED"
                          \/ outcome \in {"error", "death"} /\ jState[qjob] = "ERROR"

(* An open transaction is that of a job that succeeded, or of the job that *)
(* the thread will finish, or roll back.                                   *)
TransactionOwned ==
  transaction # NoJob =>
    \/ jState[transaction] = "SUCCEEDED"
    \/ /\ transaction = qjob
       /\ qpc \in InBody \cup {"callbacks", "rollback", "rollbackSql"}

GentleInv ==
  GentleCalls /\ NotForced /\ RefusedApart /\ StateTells /\ TransactionOwned

-----------------------------------------------------------------------------
(***************************************************************************)
(* The steps of gentle users.                                              *)
(***************************************************************************)

(* They cancel jobs that never ran.                                        *)
LEMMA GentleCancel ==
  ASSUME IndInv, OrderInv, RefusedApart, NEW u \in Users, NEW j \in Jobs, NEW m,
         m = FALSE \/ j \in rejected, CancelJob(u, j, m)
  PROVE  /\ \A v \in Users \ {u} : call'[v] = call[v]
         /\ call'[u].pc \in {"idle", "finish"}
         /\ UNCHANGED jobVars \/ (jState[j] = "PENDING" /\ MarkCancelled(j))
         /\ UNCHANGED <<fieldVars, threadVars, sqlVars, order, rejected>>
<1> USE DEF IndInv, OrderInv
<1>1. jState[j] = "RUNNING" \/ jConnection[j] # 0 => j \notin rejected /\ jState[j] # "PENDING"
  <2> SUFFICES ASSUME jState[j] = "RUNNING" \/ jConnection[j] # 0
               PROVE  j \notin rejected /\ jState[j] # "PENDING"
    OBVIOUS
  <2>1. j = qjob /\ qpc \in InBody
    BY DEF RunningOwned
  <2>2. j \in Range(order)
    BY <2>1, QueueTypes DEF LatestTaken, Range, Taken
  <2> QED
    BY <2>1, <2>2 DEF RefusedApart, RunningOwned
<1>2. ~CancelRefused(j, m) => jState[j] \in {"PENDING", "RUNNING"}
  BY DEF CancelRefused, IsDone, TypeOK, JobTypeOK
<1>3. jState[j] = "RUNNING" => CancelRefused(j, m)
  BY <1>1 DEF CancelRefused
<1>4. \/ call'[u].pc = "idle" /\ UNCHANGED jobVars
      \/ /\ jState[j] = "PENDING" /\ MarkCancelled(j)
         /\ call' = [call EXCEPT ![u] = IF jConnection[j] # 0
                                        THEN Call("interrupt", j, jConnection[j])
                                        ELSE Call("finish", j, 0)]
  BY <1>2, <1>3, CallFields DEF CancelJob, TypeOK, OtherTypeOK
<1>5. call'[u].pc \in {"idle", "finish"}
  BY <1>1, <1>4, CallFields DEF TypeOK, OtherTypeOK
<1> QED
  BY <1>4, <1>5, CancelJobCall

LEMMA GentleUserStep ==
  ASSUME GentleUsers, IndInv, OrderInv, GentleInv, NEW u \in Users, NewCall(u) \/ InCall(u)
  PROVE  /\ \A v \in Users \ {u} : call'[v] = call[v]
         /\ call'[u].pc \notin {"interrupt", "native"}
         /\ call'[u].pc = "cancel" => call'[u].job \in rejected'
         /\ rejected \subseteq rejected' /\ RefusedApart'
         /\ UNCHANGED <<stopRequired, isInterrupted, transaction, outcome, qjob>>
         /\ UNCHANGED qpc \/ (qpc = "none" /\ qpc' = "open")
         /\ \/ UNCHANGED jobVars
            \/ \E j \in Jobs : jState[j] = "PENDING" /\ MarkCancelled(j)
            \/ \E j \in Jobs : CallJobFinished(j, "null")
<1> USE CallFields DEF IndInv, GentleInv
<1>0. /\ call \in [Users -> Calls] /\ order \in Seq(Jobs) /\ stopRequired = FALSE
      /\ isInterrupted = FALSE
  BY DEF TypeOK, FieldTypeOK, SqlTypeOK, OtherTypeOK, NotForced
<1>1. CASE Start(u)
  BY <1>0, <1>1, NewThreadStep
     DEF Start, GentleCalls, RefusedApart, otherVars, TypeOK
<1>2. CASE \E j \in Jobs : Execute(u, j)
  <2> PICK j \in Jobs : Execute(u, j)
    BY <1>2
  <2>1. CASE stopRequested
    BY <1>0, <2>1 DEF Execute, RefusedApart, Submitted, threadVars, sqlVars
  <2>2. CASE ~stopRequested
    <3>1. order' = Append(order, j) /\ j \notin rejected /\ UNCHANGED <<rejected, call>>
      BY <2>2 DEF Execute, Submitted
    <3>2. Range(order') = Range(order) \cup {j}
      BY <1>0, <3>1 DEF Range
    <3> QED
      BY <1>0, <3>1, <3>2 DEF Execute, RefusedApart, GentleCalls, threadVars, sqlVars
  <2> QED
    BY <2>1, <2>2
<1>3. CASE \E g \in StopModes : Stop(u, g)
  <2> PICK g \in StopModes : Stop(u, g)
    BY <1>3
  <2>1. g = TRUE
    BY DEF GentleUsers
  <2>2. stopRequired' = FALSE
    BY <1>0, <2>1, Zenon DEF Stop
  <2>3. UNCHANGED call
    BY <2>2, Zenon DEF Stop, JobToCancel
  <2> QED
    BY <1>0, <2>2, <2>3 DEF Stop, RefusedApart, GentleCalls, threadVars, sqlVars
<1>4. CASE \E j \in Jobs, m \in CancelModes : Cancel(u, j, m)
  BY <1>0, <1>4, GentleCancel
     DEF GentleUsers, Cancel, GentleCalls, RefusedApart, fieldVars, threadVars, sqlVars
<1>5. CASE CancelFromQueue(u)
  <2>1. call[u].job \in rejected /\ call[u].job \in Jobs
    BY <1>5 DEF CancelFromQueue, GentleCalls, JobReferences
  <2> QED
    BY <1>0, <1>5, <2>1, GentleCancel
       DEF CancelFromQueue, RefusedApart, fieldVars, threadVars, sqlVars
<1>6. CASE Flush(u) \/ Join(u) \/ WaitEnds(u)
  BY <1>0, <1>6 DEF Flush, Join, WaitEnds, RefusedApart, fieldVars, threadVars, sqlVars
<1>7. CASE FinishCancelled(u)
  BY <1>0, <1>7 DEF FinishCancelled, RefusedApart, JobReferences, CancelledOwned,
                    fieldVars, threadVars, sqlVars, otherVars
<1>8. CASE InterruptHandle(u) \/ InterruptNative(u)
  BY <1>8 DEF InterruptHandle, InterruptNative, GentleCalls
<1> QED
  BY <1>1, <1>2, <1>3, <1>4, <1>5, <1>6, <1>7, <1>8 DEF NewCall, InCall

-----------------------------------------------------------------------------
(***************************************************************************)
(* The invariant is kept.                                                  *)
(***************************************************************************)

(* Steps that touch no job leave what the states tell, if the thread stays *)
(* in the body of its job.                                                 *)
LEMMA StateTellsKept ==
  ASSUME StateTells, UNCHANGED <<jState, finishedWith, cancelled>>,
         \/ UNCHANGED <<qpc, qjob, outcome>>
         \/ /\ qpc' \notin {"finish", "callbacks"}
            /\ qpc' \in InBody => qpc \in InBody \ {"finish"} /\ qjob' = qjob
  PROVE  StateTells'
BY DEF StateTells, IsCancelled

LEMMA MarkTells ==
  ASSUME TypeOK, JobReferences, StateTells, TransactionOwned,
         NEW j \in Jobs, jState[j] = "PENDING", MarkCancelled(j),
         UNCHANGED <<qjob, outcome, transaction>>,
         qpc' = qpc \/ (qpc = "drop" /\ qpc' = "dropFinish") \/ (qpc = "none" /\ qpc' = "open")
  PROVE  StateTells' /\ TransactionOwned'
<1>1. /\ jState \in [Jobs -> States] /\ transaction \in Jobs \cup {NoJob}
      /\ cancelled' = cancelled \cup {j} /\ UNCHANGED finishedWith
      /\ jState'[j] = "CANCELLED" /\ \A i \in Jobs \ {j} : jState'[i] = jState[i]
  BY DEF TypeOK, JobTypeOK, SqlTypeOK, MarkCancelled
<1>2. qpc \in InBody \cup {"callbacks"} => qjob \in Jobs /\ qjob # j
  BY DEF JobReferences, StateTells
<1>3. StateTells'
  BY <1>1, <1>2 DEF StateTells, IsCancelled
<1>4. TransactionOwned'
  BY <1>1 DEF TransactionOwned
<1> QED
  BY <1>3, <1>4

(* jobFinished(null) of a job that has not been finished.                  *)
LEMMA ReportTells ==
  ASSUME TypeOK, StateTells, TransactionOwned,
         NEW j \in Jobs, CallJobFinished(j, "null"),
         UNCHANGED <<qjob, outcome, transaction>>,
         qpc' = qpc \/ (qpc = "dropFinish" /\ qpc' = "drop") \/ (qpc = "none" /\ qpc' = "open")
  PROVE  StateTells' /\ TransactionOwned'
<1>1. /\ UNCHANGED <<jState, cancelled>> /\ finishedWith'[j] = "null"
      /\ \A i \in Jobs \ {j} : finishedWith'[i] = finishedWith[i]
  BY DEF TypeOK, JobTypeOK, CallJobFinished
<1>2. StateTells'
  BY <1>1 DEF StateTells, IsCancelled
<1>3. TransactionOwned'
  BY <1>1 DEF TransactionOwned
<1> QED
  BY <1>2, <1>3

(* The queue thread does not interrupt and does not cancel what runs.      *)
LEMMA GentleThread ==
  ASSUME GentleInv, QueueThread \/ ThreadFails \/ Reincarnate
  PROVE  GentleCalls' /\ NotForced' /\ RefusedApart'
<1> USE DEF GentleInv
<1>1. /\ UNCHANGED <<call, rejected, order, stopRequired>>
      /\ isInterrupted' = FALSE \/ UNCHANGED isInterrupted
  <2> USE DEF fieldVars, sqlVars, otherVars
  <2>1. CASE Open \/ OpenFails \/ Interrupted \/ Leave \/ TakeJob \/ WaitForJob \/ BeginJob
    BY <2>1 DEF Open, OpenFails, Interrupted, Leave, TakeJob, WaitForJob, BeginJob
  <2>2. CASE JobBody \/ FinishJob \/ Callbacks \/ AfterExecute
    BY <2>2 DEF JobBody, BeginSql, EndSql, SqlInterrupted, GetOther, GetReturns, EndBody,
                FinishJob, Callbacks, AfterExecute
  <2>3. CASE Rollback \/ RollbackEnds \/ Dispose \/ ThreadStopped \/ DropJob
             \/ FinishDropped \/ ThreadEnds \/ Reincarnate
    BY <2>3 DEF Rollback, RollbackEnds, Dispose, ThreadStopped, DropJob, FinishDropped,
                ThreadEnds, Reincarnate
  <2> QED
    BY <2>1, <2>2, <2>3 DEF QueueThread, ThreadFails
<1> QED
  BY <1>1 DEF GentleCalls, NotForced, RefusedApart

LEMMA GentleStart ==
  ASSUME TypeOK, JobReferences, StateTells, TransactionOwned, BeginJob
  PROVE  StateTells' /\ TransactionOwned'
<1>0. qjob \in Jobs /\ qpc = "start" /\ UNCHANGED <<qjob, outcome, transaction>>
  BY DEF BeginJob, JobReferences, sqlVars
<1>1. CASE MayStart(qjob)
  <2>1. /\ jState \in [Jobs -> States] /\ transaction \in Jobs \cup {NoJob}
        /\ jState[qjob] = "PENDING" /\ qpc' = "body" /\ UNCHANGED <<finishedWith, cancelled>>
        /\ jState'[qjob] = "RUNNING" /\ \A i \in Jobs \ {qjob} : jState'[i] = jState[i]
    BY <1>0, <1>1 DEF BeginJob, MayStart, StartJob, TypeOK, JobTypeOK, SqlTypeOK
  <2>2. StateTells'
    BY <1>0, <2>1 DEF StateTells, IsCancelled
  <2>3. TransactionOwned'
    BY <1>0, <2>1 DEF TransactionOwned
  <2> QED
    BY <2>2, <2>3
<1>2. CASE ~MayStart(qjob)
  <2>1. UNCHANGED jobVars /\ qpc' = "after"
    BY <1>2 DEF BeginJob
  <2>2. StateTells'
    BY <1>0, <2>1, StateTellsKept DEF jobVars
  <2>3. TransactionOwned'
    BY <1>0, <2>1 DEF TransactionOwned, jobVars
  <2> QED
    BY <2>2, <2>3
<1> QED
  BY <1>1, <1>2

LEMMA GentleEnd ==
  ASSUME TypeOK, JobReferences, NotForced, StateTells, TransactionOwned,
         SqlInterrupted \/ \E o \in {"value", "error", "death"} : EndBody(o)
  PROVE  StateTells' /\ TransactionOwned'
<1>0. PICK o \in {"value", "error", "death"} : EndBody(o)
  BY DEF SqlInterrupted, NotForced
<1>1. /\ qjob \in Jobs /\ qpc = "body" /\ jState[qjob] = "RUNNING"
      /\ qpc' = "finish" /\ outcome' = o
      /\ UNCHANGED <<qjob, transaction, finishedWith, cancelled>>
  BY <1>0 DEF EndBody, JobReferences, StateTells, ProcessOutcome, sqlVars
<1>2. /\ jState'[qjob] = IF o = "value" THEN "RUNNING" ELSE "ERROR"
      /\ \A i \in Jobs \ {qjob} : jState'[i] = jState[i]
      /\ transaction \in Jobs \cup {NoJob}
  BY <1>0, <1>1 DEF EndBody, ProcessOutcome, TypeOK, JobTypeOK, SqlTypeOK
<1>3. StateTells'
  BY <1>1, <1>2 DEF StateTells, IsCancelled
<1>4. TransactionOwned'
  BY <1>1, <1>2 DEF TransactionOwned
<1> QED
  BY <1>3, <1>4

LEMMA GentleFinish ==
  ASSUME TypeOK, JobReferences, StateTells, TransactionOwned, FinishJob
  PROVE  StateTells' /\ TransactionOwned'
<1>1. /\ qjob \in Jobs /\ qpc = "finish" /\ qpc' = "callbacks"
      /\ UNCHANGED <<qjob, outcome, transaction, finishedWith, cancelled>>
  BY DEF FinishJob, JobReferences, SetResult, sqlVars
<1>2. /\ jState'[qjob] = IF jState[qjob] = "RUNNING" THEN "SUCCEEDED" ELSE jState[qjob]
      /\ \A i \in Jobs \ {qjob} : jState'[i] = jState[i]
      /\ transaction \in Jobs \cup {NoJob}
  BY <1>1, SetResultFacts DEF FinishJob, TypeOK, SqlTypeOK
<1>3. StateTells'
  BY <1>1, <1>2 DEF StateTells, IsCancelled
<1>4. TransactionOwned'
  BY <1>1, <1>2 DEF TransactionOwned
<1> QED
  BY <1>3, <1>4

LEMMA GentleCallbacks ==
  ASSUME TypeOK, JobReferences, StateTells, TransactionOwned, Callbacks
  PROVE  StateTells' /\ TransactionOwned'
<1>1. /\ qjob \in Jobs /\ qpc = "callbacks"
      /\ qpc' = IF outcome \in {"error", "death"} THEN "rollback" ELSE "after"
      /\ UNCHANGED <<jState, qjob, outcome, transaction, cancelled>>
      /\ finishedWith'[qjob] = Result
      /\ \A i \in Jobs \ {qjob} : finishedWith'[i] = finishedWith[i]
  BY DEF Callbacks, Rethrown, JobReferences, CallJobFinished, TypeOK, JobTypeOK, sqlVars
<1>2. StateTells'
  BY <1>1 DEF StateTells, IsCancelled, Result
<1>3. TransactionOwned'
  BY <1>1 DEF TransactionOwned, StateTells
<1> QED
  BY <1>2, <1>3

LEMMA GentleQuiet ==
  ASSUME NotForced, StateTells, TransactionOwned, QuietSteps
  PROVE  StateTells' /\ TransactionOwned'
<1> USE DEF TransactionOwned, StateTells, IsCancelled, jobVars, sqlVars
<1>1. CASE Open \/ OpenFails \/ Interrupted \/ Leave \/ WaitForJob \/ TakeJob
  BY <1>1 DEF Open, OpenFails, Interrupted, Leave, WaitForJob, TakeJob
<1>2. CASE BeginSql \/ (\E j \in Jobs : GetOther(j)) \/ GetReturns
  BY <1>2 DEF BeginSql, GetOther, GetReturns
<1>3. CASE EndSql
  BY <1>3 DEF EndSql
<1>4. CASE AfterExecute \/ Rollback
  BY <1>4 DEF AfterExecute, Rollback
<1>5. CASE RollbackEnds \/ Dispose
  BY <1>5 DEF RollbackEnds, AfterRollback, Dispose, NotForced
<1>6. CASE ThreadStopped \/ ThreadEnds
  BY <1>6 DEF ThreadStopped, ThreadEnds
<1> QED
  BY <1>1, <1>2, <1>3, <1>4, <1>5, <1>6 DEF QuietSteps

LEMMA GentleInvStep ==
  ASSUME GentleUsers, IndInv, OrderInv, GentleInv, Next
  PROVE  GentleInv'
<1> USE DEF IndInv, GentleInv
<1>1. ASSUME NEW u \in Users, NewCall(u) \/ InCall(u)
      PROVE  GentleInv'
  <2>1. GentleCalls' /\ NotForced' /\ RefusedApart'
    BY <1>1, GentleUserStep DEF GentleCalls, NotForced
  <2>2. CASE UNCHANGED jobVars
    <3>1. StateTells'
      BY <1>1, <2>2, GentleUserStep, StateTellsKept DEF jobVars
    <3>2. TransactionOwned'
      BY <1>1, <2>2, GentleUserStep DEF jobVars, TransactionOwned
    <3> QED
      BY <2>1, <3>1, <3>2
  <2>3. CASE \E j \in Jobs : jState[j] = "PENDING" /\ MarkCancelled(j)
    BY <1>1, <2>1, <2>3, GentleUserStep, MarkTells
  <2>4. CASE \E j \in Jobs : CallJobFinished(j, "null")
    BY <1>1, <2>1, <2>4, GentleUserStep, ReportTells
  <2> QED
    BY <1>1, <2>2, <2>3, <2>4, GentleUserStep
<1>2. CASE QueueThread \/ ThreadFails \/ Reincarnate
  <2>1. GentleCalls' /\ NotForced' /\ RefusedApart'
    BY <1>2, GentleThread
  <2>2. CASE Reincarnate
    <3>1. /\ UNCHANGED <<jobVars, qjob, outcome, transaction>>
          /\ UNCHANGED qpc \/ (qpc = "none" /\ qpc' = "open")
      BY <2>2, ReincarnateStep DEF Reincarnate, TypeOK
    <3>2. StateTells'
      BY <3>1, StateTellsKept DEF jobVars
    <3>3. TransactionOwned'
      BY <3>1 DEF jobVars, TransactionOwned
    <3> QED
      BY <2>1, <3>2, <3>3
  <2>3. CASE DropJob
    <3>1. Head(dropped) \in Jobs /\ UNCHANGED <<qjob, outcome, transaction>> /\ qpc = "drop"
      BY <2>3, QueueTypes DEF DropJob, sqlVars
    <3>2. CASE CancelRefused(Head(dropped), TRUE)
      <4>1. UNCHANGED <<jobVars, qpc>>
        BY <2>3, <3>2 DEF DropJob
      <4>2. StateTells'
        BY <3>1, <4>1, StateTellsKept DEF jobVars
      <4>3. TransactionOwned'
        BY <3>1, <4>1 DEF jobVars, TransactionOwned
      <4> QED
        BY <2>1, <4>2, <4>3
    <3>3. CASE ~CancelRefused(Head(dropped), TRUE)
      <4>1. jState[Head(dropped)] = "PENDING"
        BY <3>1, <3>3 DEF CancelRefused, IsDone, RunningOwned, JobTypeOK, TypeOK
      <4> QED
        BY <2>1, <2>3, <3>1, <3>3, <4>1, MarkTells DEF DropJob
    <3> QED
      BY <3>2, <3>3
  <2>4. CASE FinishDropped
    <3>1. Head(dropped) \in Jobs /\ UNCHANGED <<qjob, outcome, transaction>>
      BY <2>4, QueueTypes DEF FinishDropped, JobReferences, sqlVars
    <3> QED
      BY <2>1, <2>4, <3>1, ReportTells DEF FinishDropped
  <2>5. CASE QuietSteps
    BY <2>1, <2>5, GentleQuiet
  <2>6. CASE \/ BeginJob \/ FinishJob \/ Callbacks \/ SqlInterrupted
             \/ \E o \in {"value", "error", "death"} : EndBody(o)
    BY <2>1, <2>6, GentleStart, GentleEnd, GentleFinish, GentleCallbacks
  <2> QED
    BY <1>2, <2>2, <2>3, <2>4, <2>5, <2>6 DEF QueueThread, JobBody, ThreadFails, QuietSteps
<1> QED
  BY <1>1, <1>2 DEF Next

LEMMA GentleInvNext ==
  ASSUME GentleUsers, IndInv, OrderInv, GentleInv, [Next]_vars
  PROVE  GentleInv'
<1>1. CASE Next
  BY <1>1, GentleInvStep
<1>2. CASE UNCHANGED vars
  BY <1>2 DEF vars, jobVars, fieldVars, threadVars, sqlVars, otherVars, GentleInv,
              GentleCalls, NotForced, RefusedApart, StateTells, IsCancelled, TransactionOwned
<1> QED
  BY <1>1, <1>2

LEMMA InitGentleInv == Init => GentleInv
<1> SUFFICES ASSUME Init PROVE GentleInv
  OBVIOUS
<1>1. GentleCalls
  BY CallFields DEF Init, GentleCalls
<1>2. NotForced /\ RefusedApart /\ TransactionOwned
  BY DEF Init, NotForced, RefusedApart, TransactionOwned
<1>3. StateTells
  BY DEF Init, JobInit, StateTells, IsCancelled
<1> QED
  BY <1>1, <1>2, <1>3 DEF GentleInv

(* Users that never interrupt keep the invariant above.                    *)
THEOREM GentleInvariance == ASSUME GentleUsers PROVE Spec => []GentleInv
<1>1. IndInv /\ OrderInv /\ GentleInv /\ [Next]_vars => GentleInv'
  BY GentleInvNext
<1> QED
  BY <1>1, InitGentleInv, Invariance, OrderInvariance, PTL DEF Spec

(* For them, isCancelled() is true of the jobs that a cancel() cancelled   *)
(* and of no others, and a job whose owner got a value has succeeded.      *)
THEOREM CancelledIsAsReported == ASSUME GentleUsers PROVE Spec => []CancelledAsReported
<1>1. GentleInv => CancelledAsReported
  BY DEF GentleInv, StateTells, CancelledAsReported
<1> QED
  BY <1>1, GentleInvariance, PTL

(* For them, no job runs inside the transaction of another job that was    *)
(* cancelled or threw an exception, however many statements and            *)
(* transactions a job has: rollback() is never itself interrupted.         *)
THEOREM TransactionsAreClosed == ASSUME GentleUsers PROVE Spec => []NoLeakedTransaction
<1>1. GentleInv => NoLeakedTransaction
  BY DEF GentleInv, TransactionOwned, NoLeakedTransaction
<1> QED
  BY <1>1, GentleInvariance, PTL

=============================================================================
