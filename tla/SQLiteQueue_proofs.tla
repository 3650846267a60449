-------------------------- MODULE SQLiteQueue_proofs --------------------------
(***************************************************************************)
(* Proofs about SQLiteQueue for every set of jobs and users, every bound   *)
(* on the deaths of the thread, and both kinds of database.                *)
(***************************************************************************)
EXTENDS SQLiteQueue, TLAPS

USE DEF States, Outcomes, QueuePCs, CallPCs, Executing, InBody, BodyEnds, HasJob,
        Connected, NoThread

(***************************************************************************)
(* The type invariant.                                                     *)
(***************************************************************************)
LEMMA CallTypes ==
  /\ \A pc \in CallPCs, j \in Jobs \cup {NoJob}, c \in Nat : Call(pc, j, c) \in Calls
  /\ Idle \in Calls
BY DEF Call, Idle, Calls

LEMMA InitTypeOK == Init => TypeOK
<1> SUFFICES ASSUME Init PROVE TypeOK
  OBVIOUS
<1>1. JobTypeOK
  BY DEF Init, JobInit, JobTypeOK
<1>2. FieldTypeOK
  <2>1. jobs \in Seq(Jobs)
    BY DEF Init
  <2> QED
    BY <2>1 DEF Init, FieldTypeOK
<1>3. ThreadTypeOK
  BY DEF Init, ThreadTypeOK
<1>4. SqlTypeOK
  BY DEF Init, SqlTypeOK
<1>5. OtherTypeOK
  BY CallTypes DEF Init, OtherTypeOK
<1> QED
  BY <1>1, <1>2, <1>3, <1>4, <1>5 DEF TypeOK

(* What a step leaves alone keeps its type.                                *)
LEMMA UnchangedTypes ==
  ASSUME TypeOK
  PROVE  /\ UNCHANGED jobVars => JobTypeOK'
         /\ UNCHANGED fieldVars => FieldTypeOK'
         /\ UNCHANGED threadVars => ThreadTypeOK'
         /\ UNCHANGED sqlVars => SqlTypeOK'
         /\ UNCHANGED otherVars => OtherTypeOK'
<1>1. UNCHANGED jobVars => JobTypeOK'
  BY DEF TypeOK, JobTypeOK, jobVars
<1>2. UNCHANGED fieldVars => FieldTypeOK'
  BY DEF TypeOK, FieldTypeOK, fieldVars
<1>3. UNCHANGED threadVars => ThreadTypeOK'
  BY DEF TypeOK, ThreadTypeOK, threadVars
<1>4. UNCHANGED sqlVars => SqlTypeOK'
  BY DEF TypeOK, SqlTypeOK, sqlVars
<1>5. UNCHANGED otherVars => OtherTypeOK'
  BY DEF TypeOK, OtherTypeOK, otherVars
<1> QED
  BY <1>1, <1>2, <1>3, <1>4, <1>5

(* The critical sections of SQLiteJob keep the types of the job's fields.  *)
LEMMA JobTypes ==
  ASSUME JobTypeOK, NEW j \in Jobs
  PROVE  /\ MarkCancelled(j) => JobTypeOK'
         /\ \A c \in Nat : StartJob(j, c) => JobTypeOK'
         /\ \A o \in Outcomes : ProcessOutcome(j, o) => JobTypeOK'
         /\ \A r \in {"null", "value"} : SetResult(j, r) => JobTypeOK'
         /\ \A r \in {"null", "value"} : CallJobFinished(j, r) => JobTypeOK'
<1>1. MarkCancelled(j) => JobTypeOK'
  BY DEF JobTypeOK, MarkCancelled
<1>2. \A c \in Nat : StartJob(j, c) => JobTypeOK'
  BY DEF JobTypeOK, StartJob
<1>3. \A o \in Outcomes : ProcessOutcome(j, o) => JobTypeOK'
  BY DEF JobTypeOK, ProcessOutcome
<1>4. \A r \in {"null", "value"} : SetResult(j, r) => JobTypeOK'
  <2> SUFFICES ASSUME NEW r \in {"null", "value"}, SetResult(j, r)
               PROVE  JobTypeOK'
    OBVIOUS
  <2>1. CASE jState[j] = "RUNNING"
    <3>1. /\ jState' = [jState EXCEPT ![j] = "SUCCEEDED"]
          /\ jResult' = [jResult EXCEPT ![j] = (r = "value")]
          /\ jConnection' = [jConnection EXCEPT ![j] = 0]
          /\ UNCHANGED <<jQueue, ran, finished, finishedWith, cancelled>>
      BY <2>1 DEF SetResult
    <3>2. jResult' \in [Jobs -> BOOLEAN]
      BY <3>1, Zenon DEF JobTypeOK
    <3> QED
      BY <3>1, <3>2 DEF JobTypeOK
  <2>2. CASE jState[j] # "RUNNING"
    BY <2>2 DEF SetResult, JobTypeOK
  <2> QED
    BY <2>1, <2>2
<1>5. \A r \in {"null", "value"} : CallJobFinished(j, r) => JobTypeOK'
  BY DEF JobTypeOK, CallJobFinished
<1> QED BY <1>1, <1>2, <1>3, <1>4, <1>5

(* What a user does keeps the types.                                       *)
LEMMA CancelJobTypeOK ==
  ASSUME TypeOK, NEW u \in Users, NEW j \in Jobs, NEW m, CancelJob(u, j, m)
  PROVE  TypeOK'
<1>1. JobTypeOK'
  BY JobTypes, UnchangedTypes DEF CancelJob, TypeOK
<1>2. OtherTypeOK'
  <2>1. jConnection[j] \in Nat
    BY DEF TypeOK, JobTypeOK
  <2>2. \E k \in Calls : call' = [call EXCEPT ![u] = k]
    <3>1. CASE CancelRefused(j, m)
      BY <3>1, CallTypes DEF CancelJob
    <3>2. CASE ~CancelRefused(j, m)
      BY <3>2, <2>1, CallTypes DEF CancelJob
    <3> QED
      BY <3>1, <3>2
  <2> QED
    BY <2>2 DEF CancelJob, TypeOK, OtherTypeOK
<1> QED
  BY <1>1, <1>2, UnchangedTypes DEF CancelJob, TypeOK

LEMMA NewCallTypeOK ==
  ASSUME TypeOK, NEW u \in Users, NewCall(u)
  PROVE  TypeOK'
<1> USE UnchangedTypes
<1>1. CASE Start(u)
  <2> USE <1>1 DEF Start, NewThread
  <2>1. JobTypeOK' /\ OtherTypeOK'
    OBVIOUS
  <2>2. FieldTypeOK'
    BY DEF TypeOK, FieldTypeOK, SqlTypeOK
  <2>3. ThreadTypeOK'
    BY DEF TypeOK, ThreadTypeOK
  <2>4. SqlTypeOK'
    BY DEF TypeOK, SqlTypeOK
  <2> QED
    BY <2>1, <2>2, <2>3, <2>4 DEF TypeOK
<1>2. CASE \E j \in Jobs : Execute(u, j)
  <2> PICK j \in Jobs : Execute(u, j)
    BY <1>2
  <2>1. FieldTypeOK'
    BY DEF Execute, TypeOK, FieldTypeOK
  <2>2. OtherTypeOK'
    <3>1. CASE stopRequested
      BY <3>1, CallTypes DEF Execute, TypeOK, OtherTypeOK
    <3>2. CASE ~stopRequested
      BY <3>2, SMTT(60) DEF Execute, TypeOK, OtherTypeOK
    <3> QED
      BY <3>1, <3>2
  <2> QED
    BY <2>1, <2>2 DEF Execute, TypeOK
<1>3. CASE \E g \in StopModes : Stop(u, g)
  <2> PICK g \in StopModes : Stop(u, g)
    BY <1>3
  <2>1. stopRequired' \in BOOLEAN
    BY Zenon DEF Stop
  <2>2. FieldTypeOK'
    BY <2>1 DEF Stop, TypeOK, FieldTypeOK
  <2>3. OtherTypeOK'
    BY CallTypes DEF Stop, TypeOK, OtherTypeOK, FieldTypeOK
  <2> QED
    BY <2>2, <2>3 DEF Stop, TypeOK
<1>4. CASE \E j \in Jobs, m \in CancelModes : Cancel(u, j, m)
  BY <1>4, CancelJobTypeOK DEF Cancel
<1>5. CASE Flush(u) \/ Join(u)
  <2>1. \E k \in Calls : call' = [call EXCEPT ![u] = k]
    BY <1>5, CallTypes DEF Flush, Join, TypeOK, FieldTypeOK
  <2>2. UNCHANGED <<reincarnators, order, rejected, deaths>>
    BY <1>5 DEF Flush, Join
  <2>3. OtherTypeOK'
    BY <2>1, <2>2 DEF TypeOK, OtherTypeOK
  <2> QED
    BY <1>5, <2>3 DEF Flush, Join, TypeOK
<1> QED
  BY <1>1, <1>2, <1>3, <1>4, <1>5 DEF NewCall

(* How a user gets on with a call keeps them: the job of the call is not   *)
(* null.                                                                   *)
LEMMA InCallTypeOK ==
  ASSUME TypeOK, JobReferences, NEW u \in Users, InCall(u)
  PROVE  TypeOK'
<1> USE UnchangedTypes
<1>0. call[u] \in Calls
  BY DEF TypeOK, OtherTypeOK
<1>1. CASE CancelFromQueue(u)
  BY <1>1, CancelJobTypeOK DEF CancelFromQueue, JobReferences
<1>2. CASE FinishCancelled(u)
  <2>1. JobTypeOK'
    BY <1>2, JobTypes DEF FinishCancelled, JobReferences, TypeOK
  <2>2. OtherTypeOK'
    BY <1>2, CallTypes DEF FinishCancelled, TypeOK, OtherTypeOK
  <2> QED
    BY <1>2, <2>1, <2>2 DEF FinishCancelled, TypeOK
<1>3. CASE InterruptHandle(u)
  <2>1. \E k \in Calls : call' = [call EXCEPT ![u] = k]
    BY <1>0, <1>3, CallTypes DEF InterruptHandle, Calls
  <2>2. OtherTypeOK'
    BY <1>3, <2>1 DEF InterruptHandle, TypeOK, OtherTypeOK
  <2> QED
    BY <1>3, <2>2 DEF InterruptHandle, TypeOK
<1>4. CASE InterruptNative(u)
  <2>1. isInterrupted' \in BOOLEAN
    BY <1>4, Zenon DEF InterruptNative
  <2>2. SqlTypeOK'
    BY <1>4, <2>1 DEF InterruptNative, TypeOK, SqlTypeOK
  <2>3. OtherTypeOK'
    BY <1>4, CallTypes DEF InterruptNative, TypeOK, OtherTypeOK
  <2> QED
    BY <1>4, <2>2, <2>3 DEF InterruptNative, TypeOK
<1>5. CASE WaitEnds(u)
  <2>1. OtherTypeOK'
    BY <1>5, CallTypes DEF WaitEnds, TypeOK, OtherTypeOK
  <2> QED
    BY <1>5, <2>1 DEF WaitEnds, TypeOK
<1> QED
  BY <1>1, <1>2, <1>3, <1>4, <1>5 DEF InCall

(* Each step of the queue thread keeps the types.                          *)
LEMMA LoopTypeOK ==
  ASSUME TypeOK,
         Open \/ OpenFails \/ Interrupted \/ Leave \/ TakeJob \/ WaitForJob
  PROVE  TypeOK'
<1> USE UnchangedTypes
<1>1. CASE Open
  <2>1. ThreadTypeOK' /\ SqlTypeOK'
    BY <1>1 DEF Open, TypeOK, ThreadTypeOK, SqlTypeOK
  <2> QED
    BY <1>1, <2>1 DEF Open, TypeOK
<1>2. CASE OpenFails
  <2>1. ThreadTypeOK'
    BY <1>2 DEF OpenFails, TypeOK, ThreadTypeOK
  <2>2. SqlTypeOK'
    BY <1>2 DEF OpenFails, TypeOK, SqlTypeOK
  <2>3. OtherTypeOK'
    BY <1>2 DEF OpenFails, TypeOK, OtherTypeOK
  <2> QED
    BY <1>2, <2>1, <2>2, <2>3 DEF OpenFails, TypeOK
<1>3. CASE Interrupted
  <2>1. ThreadTypeOK' /\ OtherTypeOK'
    BY <1>3 DEF Interrupted, TypeOK, ThreadTypeOK, OtherTypeOK
  <2> QED
    BY <1>3, <2>1 DEF Interrupted, TypeOK
<1>4. CASE Leave \/ WaitForJob
  <2>1. FieldTypeOK' /\ ThreadTypeOK'
    BY <1>4 DEF Leave, WaitForJob, TypeOK, FieldTypeOK, ThreadTypeOK
  <2> QED
    BY <1>4, <2>1 DEF Leave, WaitForJob, TypeOK
<1>5. CASE TakeJob
  <2>1. Head(jobs) \in Jobs /\ Tail(jobs) \in Seq(Jobs)
    BY <1>5 DEF TakeJob, TypeOK, FieldTypeOK
  <2>2. FieldTypeOK' /\ ThreadTypeOK'
    BY <1>5, <2>1 DEF TakeJob, SelectJob, TypeOK, FieldTypeOK, ThreadTypeOK
  <2> QED
    BY <1>5, <2>2 DEF TakeJob, TypeOK
<1> QED
  BY <1>1, <1>2, <1>3, <1>4, <1>5

LEMMA ExecuteTypeOK ==
  ASSUME TypeOK, JobReferences, BeginJob \/ JobBody
  PROVE  TypeOK'
<1> USE UnchangedTypes
<1>1. CASE BeginJob
  <2>1. qjob \in Jobs /\ threads \in Nat
    BY <1>1 DEF BeginJob, JobReferences, TypeOK, SqlTypeOK
  <2>2. JobTypeOK'
    <3>1. CASE MayStart(qjob)
      BY <1>1, <2>1, <3>1, JobTypes DEF BeginJob, TypeOK
    <3>2. CASE ~MayStart(qjob)
      BY <1>1, <3>2 DEF BeginJob
    <3> QED
      BY <3>1, <3>2
  <2>3. ThreadTypeOK'
    BY <1>1 DEF BeginJob, TypeOK, ThreadTypeOK
  <2> QED
    BY <1>1, <2>2, <2>3 DEF BeginJob, TypeOK
<1>2. CASE BeginSql
  <2>1. ThreadTypeOK' /\ SqlTypeOK'
    BY <1>2 DEF BeginSql, TypeOK, ThreadTypeOK, SqlTypeOK
  <2> QED
    BY <1>2, <2>1 DEF BeginSql, TypeOK
<1>3. CASE EndSql
  <2>1. ThreadTypeOK'
    BY <1>3 DEF EndSql, TypeOK, ThreadTypeOK
  <2>2. SqlTypeOK'
    BY <1>3 DEF EndSql, TypeOK, SqlTypeOK, ThreadTypeOK
  <2> QED
    BY <1>3, <2>1, <2>2 DEF EndSql, TypeOK
<1>4. CASE SqlInterrupted
  <2>1. JobTypeOK'
    BY <1>4, JobTypes DEF SqlInterrupted, JobReferences, TypeOK
  <2>2. ThreadTypeOK'
    BY <1>4 DEF SqlInterrupted, TypeOK, ThreadTypeOK
  <2>3. SqlTypeOK'
    BY <1>4 DEF SqlInterrupted, TypeOK, SqlTypeOK
  <2> QED
    BY <1>4, <2>1, <2>2, <2>3 DEF SqlInterrupted, TypeOK
<1>5. CASE (\E j \in Jobs : GetOther(j)) \/ GetReturns
  <2>1. ThreadTypeOK'
    BY <1>5 DEF GetOther, GetReturns, TypeOK, ThreadTypeOK
  <2> QED
    BY <1>5, <2>1 DEF GetOther, GetReturns, TypeOK
<1>6. CASE \E o \in {"value", "error", "death"} : EndBody(o)
  <2> PICK o \in {"value", "error", "death"} : EndBody(o)
    BY <1>6
  <2>1. JobTypeOK'
    BY JobTypes DEF EndBody, JobReferences, TypeOK
  <2>2. ThreadTypeOK'
    BY DEF EndBody, TypeOK, ThreadTypeOK
  <2>3. OtherTypeOK'
    BY DEF EndBody, TypeOK, OtherTypeOK
  <2> QED
    BY <2>1, <2>2, <2>3 DEF EndBody, TypeOK
<1> QED
  BY <1>1, <1>2, <1>3, <1>4, <1>5, <1>6 DEF JobBody

LEMMA FinishTypeOK ==
  ASSUME TypeOK, JobReferences,
         FinishJob \/ Callbacks \/ AfterExecute \/ Rollback \/ RollbackEnds
  PROVE  TypeOK'
<1> USE UnchangedTypes
<1>1. CASE FinishJob \/ Callbacks
  <2>1. JobTypeOK'
    BY <1>1, JobTypes DEF FinishJob, Callbacks, Result, JobReferences, TypeOK
  <2>2. ThreadTypeOK'
    BY <1>1 DEF FinishJob, Callbacks, TypeOK, ThreadTypeOK
  <2> QED
    BY <1>1, <2>1, <2>2 DEF FinishJob, Callbacks, TypeOK
<1>2. CASE AfterExecute
  <2>1. ThreadTypeOK'
    BY <1>2 DEF AfterExecute, TypeOK, ThreadTypeOK
  <2> QED
    BY <1>2, <2>1 DEF AfterExecute, TypeOK
<1>3. CASE Rollback
  <2>1. ThreadTypeOK' /\ SqlTypeOK'
    BY <1>3 DEF Rollback, TypeOK, ThreadTypeOK, SqlTypeOK
  <2> QED
    BY <1>3, <2>1 DEF Rollback, TypeOK
<1>4. CASE RollbackEnds
  <2>1. ThreadTypeOK'
    BY <1>4 DEF RollbackEnds, AfterRollback, TypeOK, ThreadTypeOK
  <2>2. SqlTypeOK'
    BY <1>4 DEF RollbackEnds, TypeOK, SqlTypeOK
  <2> QED
    BY <1>4, <2>1, <2>2 DEF RollbackEnds, TypeOK
<1> QED
  BY <1>1, <1>2, <1>3, <1>4

LEMMA StoppedTypeOK ==
  ASSUME TypeOK, JobReferences,
         Dispose \/ ThreadStopped \/ DropJob \/ FinishDropped \/ ThreadEnds \/ Reincarnate
  PROVE  TypeOK'
<1> USE UnchangedTypes
<1>1. CASE Dispose
  <2>1. ThreadTypeOK' /\ SqlTypeOK'
    BY <1>1 DEF Dispose, TypeOK, ThreadTypeOK, SqlTypeOK
  <2> QED
    BY <1>1, <2>1 DEF Dispose, TypeOK
<1>2. CASE ThreadStopped
  <2>1. FieldTypeOK'
    <3>1. jobs \in Seq(Jobs) /\ <<>> \in Seq(Jobs)
      BY DEF TypeOK, FieldTypeOK
    <3>2. jobs' \in Seq(Jobs)
      BY <1>2, <3>1 DEF ThreadStopped, RemoveJobsClearQueue
    <3> QED
      BY <1>2, <3>2 DEF ThreadStopped, TypeOK, FieldTypeOK
  <2>2. ThreadTypeOK'
    BY <1>2 DEF ThreadStopped, RemoveJobsClearQueue, TypeOK, FieldTypeOK, ThreadTypeOK
  <2>3. OtherTypeOK'
    BY <1>2 DEF ThreadStopped, TypeOK, OtherTypeOK
  <2> QED
    BY <1>2, <2>1, <2>2, <2>3 DEF ThreadStopped, TypeOK
<1>3. CASE DropJob \/ FinishDropped
  <2>1. dropped # <<>>
    BY <1>3 DEF DropJob, FinishDropped, JobReferences
  <2>2. Head(dropped) \in Jobs /\ Tail(dropped) \in Seq(Jobs)
    BY <2>1 DEF TypeOK, ThreadTypeOK
  <2>3. JobTypeOK'
    BY <1>3, <2>2, JobTypes DEF DropJob, FinishDropped, TypeOK
  <2>4. ThreadTypeOK'
    BY <1>3, <2>2 DEF DropJob, FinishDropped, TypeOK, ThreadTypeOK
  <2> QED
    BY <1>3, <2>3, <2>4 DEF DropJob, FinishDropped, TypeOK
<1>4. CASE ThreadEnds
  <2>1. ThreadTypeOK'
    BY <1>4 DEF ThreadEnds, TypeOK, ThreadTypeOK
  <2> QED
    BY <1>4, <2>1 DEF ThreadEnds, TypeOK
<1>5. CASE Reincarnate
  <2>1. thread' \in Nat /\ threads' \in Nat /\ qpc' \in QueuePCs
    BY <1>5 DEF Reincarnate, NewThread, TypeOK, FieldTypeOK, SqlTypeOK, ThreadTypeOK
  <2>2. JobTypeOK'
    BY <1>5 DEF Reincarnate
  <2>3. FieldTypeOK' /\ ThreadTypeOK' /\ SqlTypeOK'
    BY <1>5, <2>1 DEF Reincarnate, TypeOK, FieldTypeOK, ThreadTypeOK, SqlTypeOK
  <2>4. OtherTypeOK'
    BY <1>5 DEF Reincarnate, TypeOK, OtherTypeOK
  <2> QED
    BY <2>2, <2>3, <2>4 DEF TypeOK
<1> QED
  BY <1>1, <1>2, <1>3, <1>4, <1>5

-----------------------------------------------------------------------------
(***************************************************************************)
(* The other parts of the inductive invariant.                             *)
(***************************************************************************)
LEMMA CallFields ==
  /\ \A pc, j, c : /\ Call(pc, j, c).pc = pc
                   /\ Call(pc, j, c).job = j
                   /\ Call(pc, j, c).conn = c
  /\ Idle.pc = "idle"
BY DEF Call, Idle

(* What CancelJob does to the call of its user: it is over, or holds a job *)
(* that it has marked.                                                     *)
LEMMA CancelJobCall ==
  ASSUME TypeOK, NEW u \in Users, NEW j \in Jobs, NEW m, CancelJob(u, j, m)
  PROVE  /\ \A v \in Users \ {u} : call'[v] = call[v]
         /\ \/ call'[u].pc = "idle" /\ UNCHANGED jobVars
            \/ /\ call'[u].pc \in {"interrupt", "finish"} /\ call'[u].job = j
               /\ ~CancelRefused(j, m) /\ MarkCancelled(j)
               /\ call'[u].pc = "finish" => jConnection[j] = 0
         /\ UNCHANGED <<fieldVars, threadVars, sqlVars>>
         /\ UNCHANGED <<reincarnators, order, rejected, deaths>>
<1>1. call \in [Users -> Calls]
  BY DEF TypeOK, OtherTypeOK
<1>2. CASE CancelRefused(j, m)
  BY <1>1, <1>2, CallFields DEF CancelJob
<1>3. CASE ~CancelRefused(j, m)
  BY <1>1, <1>3, CallFields DEF CancelJob
<1> QED
  BY <1>2, <1>3

(* All that a step of a user can do to the jobs and to the queue thread.   *)
LEMMA UserStep ==
  ASSUME TypeOK, JobReferences, NEW u \in Users, NewCall(u) \/ InCall(u)
  PROVE  /\ \A v \in Users \ {u} : call'[v] = call[v]
         /\ call'[u].pc \in {"cancel", "interrupt", "native", "finish"}
              => call'[u].job \in Jobs
         /\ UNCHANGED <<qjob, qget, dropped, currentJob, connectionOpen>>
         /\ \/ UNCHANGED <<qpc, thread, threads>>
            \/ /\ MayCreateThread /\ NewThread
               /\ UNCHANGED <<jobVars, call, stopRequested>>
         /\ stopRequested => stopRequested'
         /\ \/ UNCHANGED jobVars /\ (call'[u].pc = "finish" => UNCHANGED call)
            \/ \E j \in Jobs : /\ MarkCancelled(j) /\ ~IsDone(j)
                               /\ call'[u].pc \in {"interrupt", "finish"}
                               /\ call'[u].job = j
                               /\ call'[u].pc = "finish" => jConnection[j] = 0
            \/ /\ call[u].pc = "finish" /\ CallJobFinished(call[u].job, "null")
               /\ call'[u].pc = "idle"
<1> USE CallFields
<1>0. call \in [Users -> Calls]
  BY DEF TypeOK, OtherTypeOK
<1>1. CASE Start(u)
  BY <1>1 DEF Start, JobReferences, otherVars
<1>2. CASE \E j \in Jobs : Execute(u, j)
  BY <1>0, <1>2 DEF Execute, JobReferences, threadVars, sqlVars
<1>3. CASE \E g \in StopModes : Stop(u, g)
  <2>1. UNCHANGED <<jobVars, qpc, thread, threads, qjob, qget, dropped, currentJob,
                    connectionOpen>>
    BY <1>3 DEF Stop, threadVars, sqlVars
  <2>2. stopRequested'
    BY <1>3 DEF Stop
  <2>3. \/ UNCHANGED call
        \/ currentJob \in Jobs /\ call' = [call EXCEPT ![u] = Call("cancel", currentJob, 0)]
    <3> PICK g \in StopModes : Stop(u, g)
      BY <1>3
    <3>1. currentJob \in Jobs \cup {NoJob}
      BY DEF TypeOK, FieldTypeOK
    <3> QED
      BY <3>1 DEF Stop, JobToCancel
  <2> QED
    BY <1>0, <2>1, <2>2, <2>3 DEF JobReferences
<1>4. CASE \E j \in Jobs, m \in CancelModes : Cancel(u, j, m)
  BY <1>4, CancelJobCall DEF Cancel, CancelRefused, fieldVars, threadVars, sqlVars
<1>5. CASE Flush(u) \/ Join(u) \/ WaitEnds(u)
  BY <1>0, <1>5 DEF Flush, Join, WaitEnds, fieldVars, threadVars, sqlVars
<1>6. CASE CancelFromQueue(u)
  BY <1>6, CancelJobCall, ZenonT(60)
     DEF CancelFromQueue, CancelRefused, JobReferences, fieldVars, threadVars, sqlVars
<1>7. CASE FinishCancelled(u)
  BY <1>0, <1>7 DEF FinishCancelled, fieldVars, threadVars, sqlVars
<1>8. CASE InterruptNative(u)
  BY <1>0, <1>8 DEF InterruptNative, fieldVars, threadVars
<1>9. CASE InterruptHandle(u)
  BY <1>0, <1>9 DEF InterruptHandle, JobReferences, fieldVars, threadVars, sqlVars
<1> QED
  BY <1>1, <1>2, <1>3, <1>4, <1>5, <1>6, <1>7, <1>8, <1>9 DEF NewCall, InCall

LEMMA JobReferencesStep ==
  ASSUME TypeOK, JobReferences, Next
  PROVE  JobReferences'
<1>1. CASE \E u \in Users : NewCall(u) \/ InCall(u)
  BY <1>1, UserStep DEF JobReferences, NewThread
<1>2. CASE QueueThread \/ ThreadFails \/ Reincarnate
  <2> USE <1>2 DEF QueueThread, JobBody, ThreadFails, Open, OpenFails, Interrupted,
        Leave, TakeJob, SelectJob, WaitForJob, BeginJob, BeginSql, EndSql,
        SqlInterrupted, GetOther, GetReturns, EndBody, FinishJob, Callbacks,
        AfterExecute, Rollback, RollbackEnds, AfterRollback, Dispose, ThreadStopped,
        DropJob, FinishDropped, ThreadEnds, Reincarnate, NewThread
  <2>1. UNCHANGED call
    BY DEF otherVars
  <2>2. (qpc \in HasJob => qjob \in Jobs)'
    <3>1. CASE TakeJob
      BY <3>1 DEF TypeOK, FieldTypeOK
    <3>2. CASE ~TakeJob
      BY <3>2 DEF JobReferences
    <3> QED
      BY <3>1, <3>2
  <2>3. (qpc = "getWait" => qget \in Jobs)'
    BY DEF JobReferences
  <2>4. (qpc = "dropFinish" => dropped # <<>>)'
    BY DEF JobReferences
  <2> QED
    BY <2>1, <2>2, <2>3, <2>4 DEF JobReferences
<1> QED
  BY <1>1, <1>2 DEF Next

LEMMA ThreadIdentityStep ==
  ASSUME TypeOK, JobReferences, ThreadIdentity, Next
  PROVE  ThreadIdentity'
<1> USE DEF ThreadIdentity
<1>1. CASE \E u \in Users : NewCall(u) \/ InCall(u)
  BY <1>1, UserStep DEF NewThread, TypeOK, SqlTypeOK
<1>2. CASE QueueThread \/ ThreadFails \/ Reincarnate
  <2>1. CASE ThreadStopped
    BY <2>1 DEF ThreadStopped, sqlVars
  <2>2. CASE Reincarnate
    BY <2>2 DEF Reincarnate, NewThread, TypeOK, SqlTypeOK
  <2>3. CASE ~ThreadStopped /\ ~Reincarnate
    <3>1. UNCHANGED <<thread, threads, stopRequested>>
      BY <1>2, <2>3 DEF QueueThread, JobBody, ThreadFails, Open, OpenFails, Interrupted,
        Leave, TakeJob, SelectJob, WaitForJob, BeginJob, BeginSql, EndSql,
        SqlInterrupted, GetOther, GetReturns, EndBody, FinishJob, Callbacks,
        AfterExecute, Rollback, RollbackEnds, AfterRollback, Dispose, ThreadStopped,
        DropJob, FinishDropped, ThreadEnds, Reincarnate, NewThread, fieldVars, sqlVars
    <3>2. (qpc \in NoThread <=> qpc' \in NoThread) /\ (qpc' \in {"drop", "dropFinish"} => qpc \in NoThread \ {"none"})
      BY <1>2, <2>3 DEF QueueThread, JobBody, ThreadFails, Open, OpenFails, Interrupted,
        Leave, TakeJob, SelectJob, WaitForJob, BeginJob, BeginSql, EndSql,
        SqlInterrupted, GetOther, GetReturns, EndBody, FinishJob, Callbacks,
        AfterExecute, Rollback, RollbackEnds, AfterRollback, Dispose, ThreadStopped,
        DropJob, FinishDropped, ThreadEnds, Reincarnate, NewThread
    <3> QED
      BY <3>1, <3>2
  <2> QED
    BY <2>1, <2>2, <2>3
<1> QED
  BY <1>1, <1>2 DEF Next

LEMMA ConnectionOwnedStep ==
  ASSUME TypeOK, JobReferences, ThreadIdentity, ConnectionOwned, Next
  PROVE  ConnectionOwned'
<1> USE DEF ConnectionOwned
<1>1. CASE \E u \in Users : NewCall(u) \/ InCall(u)
  BY <1>1, UserStep DEF NewThread, MayCreateThread, ThreadIdentity, TypeOK, ThreadTypeOK
<1>2. CASE QueueThread \/ ThreadFails \/ Reincarnate
  <2>1. CASE Reincarnate
    BY <2>1 DEF Reincarnate, NewThread, MayCreateThread, ThreadIdentity
  <2>2. CASE Open \/ OpenFails \/ Dispose
    BY <2>2 DEF Open, OpenFails, Dispose
  <2>3. CASE ~Reincarnate /\ ~Open /\ ~OpenFails /\ ~Dispose
    <3>1. UNCHANGED connectionOpen
      BY <1>2, <2>3 DEF QueueThread, JobBody, ThreadFails, Open, OpenFails, Interrupted,
        Leave, TakeJob, SelectJob, WaitForJob, BeginJob, BeginSql, EndSql,
        SqlInterrupted, GetOther, GetReturns, EndBody, FinishJob, Callbacks,
        AfterExecute, Rollback, RollbackEnds, AfterRollback, Dispose, ThreadStopped,
        DropJob, FinishDropped, ThreadEnds, Reincarnate, NewThread, sqlVars
    <3>2. /\ qpc' \in Connected => qpc \in Connected
          /\ qpc' \in NoThread \cup {"open", "stopped"}
               => qpc \in NoThread \cup {"open", "stopped"}
      BY <1>2, <2>3 DEF QueueThread, JobBody, ThreadFails, Open, OpenFails, Interrupted,
        Leave, TakeJob, SelectJob, WaitForJob, BeginJob, BeginSql, EndSql,
        SqlInterrupted, GetOther, GetReturns, EndBody, FinishJob, Callbacks,
        AfterExecute, Rollback, RollbackEnds, AfterRollback, Dispose, ThreadStopped,
        DropJob, FinishDropped, ThreadEnds, Reincarnate, NewThread
    <3> QED
      BY <3>1, <3>2
  <2> QED
    BY <2>1, <2>2, <2>3
<1> QED
  BY <1>1, <1>2 DEF Next

(* A thread is created only where there is none.                           *)
LEMMA NewThreadStep ==
  ASSUME ThreadIdentity, ThreadTypeOK, MayCreateThread, NewThread
  PROVE  qpc = "none" /\ qpc' = "open"
BY DEF ThreadIdentity, ThreadTypeOK, MayCreateThread, NewThread

LEMMA ReincarnateStep ==
  ASSUME ThreadIdentity, ThreadTypeOK, Reincarnate
  PROVE  /\ UNCHANGED <<jobVars, call, qjob, currentJob, dropped>>
         /\ UNCHANGED <<qpc, threads>> \/ (qpc = "none" /\ qpc' = "open")
<1>1. CASE MayCreateThread
  BY <1>1, NewThreadStep DEF Reincarnate
<1>2. CASE ~MayCreateThread
  BY <1>2 DEF Reincarnate
<1> QED
  BY <1>1, <1>2

(* The steps of the queue thread that leave every job alone.               *)
QuietSteps ==
  \/ Open \/ OpenFails \/ Interrupted \/ Leave \/ TakeJob \/ WaitForJob
  \/ BeginSql \/ EndSql \/ (\E j \in Jobs : GetOther(j)) \/ GetReturns
  \/ AfterExecute \/ Rollback \/ RollbackEnds
  \/ Dispose \/ ThreadStopped \/ ThreadEnds

(* They leave the thread in its job, or bring it to a new one.             *)
LEMMA QuietStep ==
  ASSUME QuietSteps
  PROVE  /\ UNCHANGED <<jobVars, call>>
         /\ qpc' \notin {"callbacks", "after", "dropFinish", "finish"} /\ qpc # "finish"
         /\ qpc' \in InBody <=> qpc \in InBody
         /\ qpc \in InBody => UNCHANGED <<qjob, currentJob, threads>>
         /\ qpc' = "start" => currentJob' = qjob'
<1> USE DEF fieldVars, sqlVars, otherVars
<1>1. CASE Open \/ OpenFails \/ Interrupted \/ Leave \/ WaitForJob
  BY <1>1 DEF Open, OpenFails, Interrupted, Leave, WaitForJob
<1>2. CASE TakeJob
  BY <1>2 DEF TakeJob
<1>3. CASE BeginSql \/ EndSql \/ (\E j \in Jobs : GetOther(j)) \/ GetReturns
  BY <1>3 DEF BeginSql, EndSql, GetOther, GetReturns
<1>4. CASE AfterExecute \/ Rollback \/ RollbackEnds
  BY <1>4 DEF AfterExecute, Rollback, RollbackEnds, AfterRollback
<1>5. CASE Dispose \/ ThreadStopped \/ ThreadEnds
  BY <1>5 DEF Dispose, ThreadStopped, ThreadEnds
<1> QED
  BY <1>1, <1>2, <1>3, <1>4, <1>5 DEF QuietSteps

(* All steps: a user's, one that touches no job, one of the five that do.  *)
LEMMA StepCases ==
  ASSUME Next
  PROVE  \/ \E u \in Users : NewCall(u) \/ InCall(u)
         \/ Reincarnate
         \/ QuietSteps
         \/ BeginJob
         \/ SqlInterrupted \/ (\E o \in {"value", "error", "death"} : EndBody(o))
         \/ FinishJob
         \/ Callbacks
         \/ DropJob
         \/ FinishDropped
BY DEF Next, QueueThread, JobBody, ThreadFails, QuietSteps

(* The critical sections, job by job.                                      *)
LEMMA MarkCancelledFacts ==
  ASSUME JobTypeOK, NEW j \in Jobs, MarkCancelled(j)
  PROVE  /\ jState'[j] = "CANCELLED"
         /\ \A i \in Jobs \ {j} : jState'[i] = jState[i]
         /\ UNCHANGED <<jConnection, ran, finished>>
BY DEF JobTypeOK, MarkCancelled

LEMMA CallJobFinishedFacts ==
  ASSUME JobTypeOK, NEW j \in Jobs, NEW r, CallJobFinished(j, r)
  PROVE  /\ finished'[j] = finished[j] + 1
         /\ \A i \in Jobs \ {j} : finished'[i] = finished[i]
         /\ UNCHANGED <<jState, jConnection, ran>>
BY DEF JobTypeOK, CallJobFinished

LEMMA StartJobFacts ==
  ASSUME JobTypeOK, NEW j \in Jobs, NEW c, StartJob(j, c)
  PROVE  /\ jState'[j] = "RUNNING" /\ jConnection'[j] = c /\ ran'[j] = ran[j] + 1
         /\ \A i \in Jobs \ {j} : /\ jState'[i] = jState[i] /\ ran'[i] = ran[i]
                                 /\ jConnection'[i] = jConnection[i]
         /\ UNCHANGED finished
BY DEF JobTypeOK, StartJob

LEMMA ProcessOutcomeFacts ==
  ASSUME JobTypeOK, NEW j \in Jobs, NEW o, ProcessOutcome(j, o)
  PROVE  /\ jState'[j] \in {jState[j], "CANCELLED", "ERROR"}
         /\ \A i \in Jobs \ {j} : jState'[i] = jState[i]
         /\ UNCHANGED <<jConnection, ran, finished>>
BY DEF JobTypeOK, ProcessOutcome

LEMMA SetResultFacts ==
  ASSUME JobTypeOK, NEW j \in Jobs, NEW r, SetResult(j, r)
  PROVE  /\ jState'[j] = IF jState[j] = "RUNNING" THEN "SUCCEEDED" ELSE jState[j]
         /\ jConnection'[j] = 0
         /\ \A i \in Jobs \ {j} : /\ jState'[i] = jState[i]
                                 /\ jConnection'[i] = jConnection[i]
         /\ UNCHANGED <<ran, finished>>
BY DEF JobTypeOK, SetResult

(* A user does one of three things to the jobs.                            *)
LEMMA UserJobStep ==
  ASSUME TypeOK, JobReferences, ThreadIdentity, CancelledOwned,
         NEW u \in Users, NewCall(u) \/ InCall(u)
  PROVE  /\ \A v \in Users \ {u} : call'[v] = call[v]
         /\ UNCHANGED <<qjob, dropped, currentJob>>
         /\ UNCHANGED <<qpc, threads>> \/ (qpc = "none" /\ qpc' = "open")
         /\ \/ /\ UNCHANGED <<jState, jConnection, ran, finished>>
               /\ call'[u].pc = "finish" => UNCHANGED call
            \/ \E j \in Jobs : /\ MarkCancelled(j) /\ ~IsDone(j)
                               /\ call'[u].pc = "finish" => /\ call'[u].job = j
                                                            /\ jConnection[j] = 0
            \/ \E j \in Jobs : /\ CallJobFinished(j, "null") /\ IsDone(j)
                               /\ ran[j] = 0 /\ finished[j] = 0
                               /\ call[u].pc = "finish" /\ call[u].job = j
                               /\ call'[u].pc # "finish"
<1>1. CASE UNCHANGED jobVars /\ (call'[u].pc = "finish" => UNCHANGED call)
  BY <1>1, UserStep, NewThreadStep DEF jobVars, TypeOK
<1>2. CASE \E j \in Jobs : /\ MarkCancelled(j) /\ ~IsDone(j)
                           /\ call'[u].pc \in {"interrupt", "finish"}
                           /\ call'[u].job = j
                           /\ call'[u].pc = "finish" => jConnection[j] = 0
  <2>1. /\ \A v \in Users \ {u} : call'[v] = call[v]
        /\ UNCHANGED <<qjob, dropped, currentJob>>
        /\ UNCHANGED <<qpc, threads>> \/ (qpc = "none" /\ qpc' = "open")
    BY UserStep, NewThreadStep DEF TypeOK
  <2>2. PICK j \in Jobs : /\ MarkCancelled(j) /\ ~IsDone(j)
                          /\ call'[u].job = j
                          /\ call'[u].pc = "finish" => jConnection[j] = 0
    BY <1>2
  <2> QED
    BY <2>1, <2>2
<1>3. CASE /\ call[u].pc = "finish" /\ CallJobFinished(call[u].job, "null")
           /\ call'[u].pc = "idle"
  BY <1>3, UserStep, NewThreadStep DEF TypeOK, CancelledOwned, JobReferences
<1> QED
  BY <1>1, <1>2, <1>3, UserStep

(* A job that ran, or was finished, is no longer pending.                  *)
LEMMA PendingUntouchedStep ==
  ASSUME TypeOK, JobReferences, ThreadIdentity, RunningOwned, CancelledOwned,
         PendingUntouched, Next
  PROVE  PendingUntouched'
<1> USE DEF PendingUntouched, IsDone
<1>t. /\ JobTypeOK /\ ThreadTypeOK /\ jState \in [Jobs -> States]
      /\ ran \in [Jobs -> Nat] /\ finished \in [Jobs -> Nat] /\ threads \in Nat
  BY DEF TypeOK, JobTypeOK, SqlTypeOK
<1>1. ASSUME NEW u \in Users, NewCall(u) \/ InCall(u)
      PROVE  PendingUntouched'
  <2>0. /\ \A v \in Users \ {u} : call'[v] = call[v]
        /\ UNCHANGED <<qjob, dropped, currentJob>>
        /\ UNCHANGED <<qpc, threads>> \/ (qpc = "none" /\ qpc' = "open")
    BY <1>1, UserJobStep
  <2>1. CASE /\ UNCHANGED <<jState, jConnection, ran, finished>>
             /\ call'[u].pc = "finish" => UNCHANGED call
    BY <2>0, <2>1 DEF RunningOwned, CancelledOwned
  <2>2. ASSUME NEW j \in Jobs, MarkCancelled(j), ~IsDone(j),
               call'[u].pc = "finish" => call'[u].job = j /\ jConnection[j] = 0
        PROVE  PendingUntouched'
    <3>1. /\ jState'[j] = "CANCELLED"
          /\ \A i \in Jobs \ {j} : jState'[i] = jState[i]
          /\ UNCHANGED <<jConnection, ran, finished>>
      BY <1>t, <2>2, MarkCancelledFacts
    <3> QED
      BY <1>t, <2>0, <2>2, <3>1 DEF RunningOwned, CancelledOwned
  <2>3. ASSUME NEW j \in Jobs, CallJobFinished(j, "null"), IsDone(j),
               ran[j] = 0, finished[j] = 0,
               call[u].pc = "finish", call[u].job = j, call'[u].pc # "finish"
        PROVE  PendingUntouched'
    <3>1. /\ finished'[j] = finished[j] + 1
          /\ \A i \in Jobs \ {j} : finished'[i] = finished[i]
          /\ UNCHANGED <<jState, jConnection, ran>>
      BY <1>t, <2>3, CallJobFinishedFacts
    <3> QED
      BY <1>t, <2>0, <2>3, <3>1 DEF RunningOwned, CancelledOwned
  <2> QED
    BY <1>1, <2>1, <2>2, <2>3, UserJobStep
<1>2. CASE Reincarnate
  BY <1>2, <1>t, ReincarnateStep DEF jobVars, RunningOwned, CancelledOwned
<1>3. CASE QuietSteps
  BY <1>3, QuietStep DEF jobVars, RunningOwned, CancelledOwned
<1>4. CASE BeginJob
  <2>1. CASE MayStart(qjob)
    BY <1>t, <1>4, <2>1, StartJobFacts
       DEF BeginJob, MayStart, JobReferences, fieldVars, sqlVars, otherVars, RunningOwned, CancelledOwned
  <2>2. CASE ~MayStart(qjob)
    BY <1>t, <1>4, <2>2
       DEF BeginJob, MayStart, JobReferences, jobVars, fieldVars, sqlVars, otherVars, RunningOwned, CancelledOwned
  <2> QED
    BY <2>1, <2>2
<1>5. CASE SqlInterrupted \/ \E o \in {"value", "error", "death"} : EndBody(o)
  <2>1. /\ qjob \in Jobs /\ qpc \in InBody /\ qpc' = "finish"
        /\ UNCHANGED <<qjob, threads, call, dropped, currentJob>>
    BY <1>5 DEF SqlInterrupted, EndBody, JobReferences, fieldVars, sqlVars, otherVars
  <2>2. \E o : ProcessOutcome(qjob, o)
    BY <1>5 DEF SqlInterrupted, EndBody
  <2>3. /\ jState'[qjob] \in {jState[qjob], "CANCELLED", "ERROR"}
        /\ \A i \in Jobs \ {qjob} : jState'[i] = jState[i]
        /\ UNCHANGED <<jConnection, ran, finished>>
    BY <1>t, <2>1, <2>2, ProcessOutcomeFacts
  <2> QED
    BY <1>t, <2>1, <2>3 DEF RunningOwned, CancelledOwned
<1>6. CASE FinishJob
  BY <1>t, <1>6, SetResultFacts DEF FinishJob, JobReferences, fieldVars, sqlVars, otherVars, RunningOwned, CancelledOwned
<1>7. CASE Callbacks
  BY <1>t, <1>7, CallJobFinishedFacts DEF Callbacks, JobReferences, fieldVars, sqlVars, otherVars, RunningOwned, CancelledOwned
<1>8. CASE DropJob
  <2>0. /\ Head(dropped) \in Jobs
        /\ UNCHANGED <<call, qjob, threads, currentJob>>
        /\ qpc = "drop" /\ dropped # <<>>
    BY <1>t, <1>8 DEF DropJob, ThreadTypeOK, fieldVars, sqlVars, otherVars
  <2>1. CASE CancelRefused(Head(dropped), TRUE)
    BY <1>8, <2>0, <2>1 DEF DropJob, jobVars, RunningOwned, CancelledOwned
  <2>2. CASE ~CancelRefused(Head(dropped), TRUE)
    <3>1. /\ jState'[Head(dropped)] = "CANCELLED"
          /\ \A i \in Jobs \ {Head(dropped)} : jState'[i] = jState[i]
          /\ UNCHANGED <<jConnection, ran, finished>>
      BY <1>t, <1>8, <2>0, <2>2, MarkCancelledFacts DEF DropJob
    <3>2. qpc' = "dropFinish" /\ UNCHANGED dropped /\ ~IsDone(Head(dropped))
      BY <1>8, <2>2 DEF DropJob, CancelRefused
    <3> QED
      BY <1>t, <2>0, <3>1, <3>2 DEF RunningOwned, CancelledOwned
  <2> QED
    BY <2>1, <2>2
<1>9. CASE FinishDropped
  <2>0. Head(dropped) \in Jobs
    BY <1>t, <1>9 DEF FinishDropped, ThreadTypeOK, JobReferences
  <2> QED
    BY <1>t, <1>9, <2>0, CallJobFinishedFacts
       DEF FinishDropped, JobReferences, fieldVars, sqlVars, otherVars, RunningOwned, CancelledOwned
<1> QED
  BY <1>1, <1>2, <1>3, <1>4, <1>5, <1>6, <1>7, <1>8, <1>9, StepCases

(* Only the job of the queue thread runs or has a connection: a canceller  *)
(* leaves both to the thread.                                              *)
LEMMA RunningOwnedStep ==
  ASSUME TypeOK, JobReferences, ThreadIdentity, RunningOwned, CancelledOwned,
         PendingUntouched, Next
  PROVE  RunningOwned'
<1> USE DEF RunningOwned, IsDone
<1>t. /\ JobTypeOK /\ ThreadTypeOK /\ jState \in [Jobs -> States]
      /\ ran \in [Jobs -> Nat] /\ finished \in [Jobs -> Nat] /\ threads \in Nat
  BY DEF TypeOK, JobTypeOK, SqlTypeOK
<1>1. ASSUME NEW u \in Users, NewCall(u) \/ InCall(u)
      PROVE  RunningOwned'
  <2>0. /\ \A v \in Users \ {u} : call'[v] = call[v]
        /\ UNCHANGED <<qjob, dropped, currentJob>>
        /\ UNCHANGED <<qpc, threads>> \/ (qpc = "none" /\ qpc' = "open")
    BY <1>1, UserJobStep
  <2>1. CASE /\ UNCHANGED <<jState, jConnection, ran, finished>>
             /\ call'[u].pc = "finish" => UNCHANGED call
    BY <2>0, <2>1 DEF ThreadIdentity, PendingUntouched, CancelledOwned, JobReferences
  <2>2. ASSUME NEW j \in Jobs, MarkCancelled(j), ~IsDone(j),
               call'[u].pc = "finish" => call'[u].job = j /\ jConnection[j] = 0
        PROVE  RunningOwned'
    <3>1. /\ jState'[j] = "CANCELLED"
          /\ \A i \in Jobs \ {j} : jState'[i] = jState[i]
          /\ UNCHANGED <<jConnection, ran, finished>>
      BY <1>t, <2>2, MarkCancelledFacts
    <3> QED
      BY <1>t, <2>0, <2>2, <3>1 DEF ThreadIdentity, PendingUntouched, CancelledOwned, JobReferences
  <2>3. ASSUME NEW j \in Jobs, CallJobFinished(j, "null"), IsDone(j),
               ran[j] = 0, finished[j] = 0,
               call[u].pc = "finish", call[u].job = j, call'[u].pc # "finish"
        PROVE  RunningOwned'
    <3>1. /\ finished'[j] = finished[j] + 1
          /\ \A i \in Jobs \ {j} : finished'[i] = finished[i]
          /\ UNCHANGED <<jState, jConnection, ran>>
      BY <1>t, <2>3, CallJobFinishedFacts
    <3> QED
      BY <1>t, <2>0, <2>3, <3>1 DEF ThreadIdentity, PendingUntouched, CancelledOwned, JobReferences
  <2> QED
    BY <1>1, <2>1, <2>2, <2>3, UserJobStep
<1>2. CASE Reincarnate
  BY <1>2, <1>t, ReincarnateStep DEF jobVars, ThreadIdentity, PendingUntouched, CancelledOwned, JobReferences
<1>3. CASE QuietSteps
  BY <1>3, QuietStep DEF jobVars, ThreadIdentity, PendingUntouched, CancelledOwned, JobReferences
<1>4. CASE BeginJob
  <2>1. CASE MayStart(qjob)
    BY <1>t, <1>4, <2>1, StartJobFacts
       DEF BeginJob, MayStart, JobReferences, fieldVars, sqlVars, otherVars, ThreadIdentity, PendingUntouched, CancelledOwned, JobReferences
  <2>2. CASE ~MayStart(qjob)
    BY <1>t, <1>4, <2>2
       DEF BeginJob, MayStart, JobReferences, jobVars, fieldVars, sqlVars, otherVars, ThreadIdentity, PendingUntouched, CancelledOwned, JobReferences
  <2> QED
    BY <2>1, <2>2
<1>5. CASE SqlInterrupted \/ \E o \in {"value", "error", "death"} : EndBody(o)
  <2>1. /\ qjob \in Jobs /\ qpc \in InBody /\ qpc' = "finish"
        /\ UNCHANGED <<qjob, threads, call, dropped, currentJob>>
    BY <1>5 DEF SqlInterrupted, EndBody, JobReferences, fieldVars, sqlVars, otherVars
  <2>2. \E o : ProcessOutcome(qjob, o)
    BY <1>5 DEF SqlInterrupted, EndBody
  <2>3. /\ jState'[qjob] \in {jState[qjob], "CANCELLED", "ERROR"}
        /\ \A i \in Jobs \ {qjob} : jState'[i] = jState[i]
        /\ UNCHANGED <<jConnection, ran, finished>>
    BY <1>t, <2>1, <2>2, ProcessOutcomeFacts
  <2> QED
    BY <1>t, <2>1, <2>3 DEF ThreadIdentity, PendingUntouched, CancelledOwned, JobReferences
<1>6. CASE FinishJob
  BY <1>t, <1>6, SetResultFacts DEF FinishJob, JobReferences, fieldVars, sqlVars, otherVars, ThreadIdentity, PendingUntouched, CancelledOwned, JobReferences
<1>7. CASE Callbacks
  BY <1>t, <1>7, CallJobFinishedFacts DEF Callbacks, JobReferences, fieldVars, sqlVars, otherVars, ThreadIdentity, PendingUntouched, CancelledOwned, JobReferences
<1>8. CASE DropJob
  <2>0. /\ Head(dropped) \in Jobs
        /\ UNCHANGED <<call, qjob, threads, currentJob>>
        /\ qpc = "drop" /\ dropped # <<>>
    BY <1>t, <1>8 DEF DropJob, ThreadTypeOK, fieldVars, sqlVars, otherVars
  <2>1. CASE CancelRefused(Head(dropped), TRUE)
    BY <1>8, <2>0, <2>1 DEF DropJob, jobVars, ThreadIdentity, PendingUntouched, CancelledOwned, JobReferences
  <2>2. CASE ~CancelRefused(Head(dropped), TRUE)
    <3>1. /\ jState'[Head(dropped)] = "CANCELLED"
          /\ \A i \in Jobs \ {Head(dropped)} : jState'[i] = jState[i]
          /\ UNCHANGED <<jConnection, ran, finished>>
      BY <1>t, <1>8, <2>0, <2>2, MarkCancelledFacts DEF DropJob
    <3>2. qpc' = "dropFinish" /\ UNCHANGED dropped /\ ~IsDone(Head(dropped))
      BY <1>8, <2>2 DEF DropJob, CancelRefused
    <3> QED
      BY <1>t, <2>0, <3>1, <3>2 DEF ThreadIdentity, PendingUntouched, CancelledOwned, JobReferences
  <2> QED
    BY <2>1, <2>2
<1>9. CASE FinishDropped
  <2>0. Head(dropped) \in Jobs
    BY <1>t, <1>9 DEF FinishDropped, ThreadTypeOK, JobReferences
  <2> QED
    BY <1>t, <1>9, <2>0, CallJobFinishedFacts
       DEF FinishDropped, JobReferences, fieldVars, sqlVars, otherVars, ThreadIdentity, PendingUntouched, CancelledOwned, JobReferences
<1> QED
  BY <1>1, <1>2, <1>3, <1>4, <1>5, <1>6, <1>7, <1>8, <1>9, StepCases

(* Whoever marks a pending job as cancelled is the only one to finish it.  *)
LEMMA CancelledOwnedStep ==
  ASSUME TypeOK, JobReferences, ThreadIdentity, RunningOwned, CancelledOwned,
         PendingUntouched, Next
  PROVE  CancelledOwned'
<1> USE DEF CancelledOwned, IsDone
<1>t. /\ JobTypeOK /\ ThreadTypeOK /\ jState \in [Jobs -> States]
      /\ ran \in [Jobs -> Nat] /\ finished \in [Jobs -> Nat] /\ threads \in Nat
  BY DEF TypeOK, JobTypeOK, SqlTypeOK
<1>h. qpc = "dropFinish" => Head(dropped) \in Jobs
  BY <1>t DEF ThreadTypeOK, JobReferences
<1>1. ASSUME NEW u \in Users, NewCall(u) \/ InCall(u)
      PROVE  CancelledOwned'
  <2>0. /\ \A v \in Users \ {u} : call'[v] = call[v]
        /\ UNCHANGED <<qjob, dropped, currentJob>>
        /\ UNCHANGED <<qpc, threads>> \/ (qpc = "none" /\ qpc' = "open")
    BY <1>1, UserJobStep
  <2>1. CASE /\ UNCHANGED <<jState, jConnection, ran, finished>>
             /\ call'[u].pc = "finish" => UNCHANGED call
    BY <2>0, <2>1 DEF ThreadIdentity, PendingUntouched, RunningOwned, JobReferences
  <2>2. ASSUME NEW j \in Jobs, MarkCancelled(j), ~IsDone(j),
               call'[u].pc = "finish" => call'[u].job = j /\ jConnection[j] = 0
        PROVE  CancelledOwned'
    <3>1. /\ jState'[j] = "CANCELLED"
          /\ \A i \in Jobs \ {j} : jState'[i] = jState[i]
          /\ UNCHANGED <<jConnection, ran, finished>>
      BY <1>t, <2>2, MarkCancelledFacts
    <3>2. jConnection[j] = 0 => jState[j] = "PENDING"
      BY <1>t, <2>2 DEF RunningOwned, ThreadIdentity
    <3>3. /\ \A v \in Users : call[v].pc = "finish" => call[v].job \in Jobs \ {j}
          /\ qpc = "dropFinish" => Head(dropped) # j
      BY <2>2 DEF JobReferences
    <3>4. \A v \in Users : call'[v].pc = "finish" =>
            IsDone(call[v].job)' /\ ran'[call'[v].job] = 0 /\ finished'[call'[v].job] = 0
      BY <2>0, <2>2, <3>1, <3>2, <3>3 DEF PendingUntouched
    <3>5. \A v, w \in Users : v # w =>
            ~(call'[v].pc = "finish" /\ call'[w].pc = "finish" /\ call'[v].job = call'[w].job)
      BY <2>0, <2>2, <3>3
    <3>6. (qpc = "dropFinish")' =>
            /\ IsDone(Head(dropped))'
            /\ ran'[Head(dropped)] = 0 /\ finished'[Head(dropped)] = 0
            /\ \A v \in Users : ~(call'[v].pc = "finish" /\ call'[v].job = Head(dropped))
      BY <1>h, <2>0, <2>2, <3>1, <3>3
    <3> QED
      BY <2>0, <3>4, <3>5, <3>6
  <2>3. ASSUME NEW j \in Jobs, CallJobFinished(j, "null"), IsDone(j),
               ran[j] = 0, finished[j] = 0,
               call[u].pc = "finish", call[u].job = j, call'[u].pc # "finish"
        PROVE  CancelledOwned'
    <3>1. /\ finished'[j] = finished[j] + 1
          /\ \A i \in Jobs \ {j} : finished'[i] = finished[i]
          /\ UNCHANGED <<jState, jConnection, ran>>
      BY <1>t, <2>3, CallJobFinishedFacts
    <3>2. /\ \A v \in Users \ {u} : call[v].pc = "finish" => call[v].job \in Jobs \ {j}
          /\ qpc = "dropFinish" => Head(dropped) # j
      BY <2>3 DEF JobReferences
    <3>3. \A v \in Users : call'[v].pc = "finish" =>
            /\ v # u /\ call'[v] = call[v]
            /\ IsDone(call[v].job)' /\ ran'[call'[v].job] = 0 /\ finished'[call'[v].job] = 0
      BY <2>0, <2>3, <3>1, <3>2
    <3>4. (qpc = "dropFinish")' =>
            /\ IsDone(Head(dropped))'
            /\ ran'[Head(dropped)] = 0 /\ finished'[Head(dropped)] = 0
            /\ \A v \in Users : ~(call'[v].pc = "finish" /\ call'[v].job = Head(dropped))
      BY <1>h, <2>0, <2>3, <3>1, <3>2, <3>3
    <3> QED
      BY <2>0, <3>3, <3>4
  <2> QED
    BY <1>1, <2>1, <2>2, <2>3, UserJobStep
<1>2. CASE Reincarnate
  BY <1>2, <1>t, ReincarnateStep DEF jobVars, ThreadIdentity, PendingUntouched, RunningOwned, JobReferences
<1>3. CASE QuietSteps
  BY <1>3, QuietStep DEF jobVars, ThreadIdentity, PendingUntouched, RunningOwned, JobReferences
<1>4. CASE BeginJob
  <2>1. CASE MayStart(qjob)
    BY <1>t, <1>4, <2>1, StartJobFacts
       DEF BeginJob, MayStart, JobReferences, fieldVars, sqlVars, otherVars, ThreadIdentity, PendingUntouched, RunningOwned, JobReferences
  <2>2. CASE ~MayStart(qjob)
    BY <1>t, <1>4, <2>2
       DEF BeginJob, MayStart, JobReferences, jobVars, fieldVars, sqlVars, otherVars, ThreadIdentity, PendingUntouched, RunningOwned, JobReferences
  <2> QED
    BY <2>1, <2>2
<1>5. CASE SqlInterrupted \/ \E o \in {"value", "error", "death"} : EndBody(o)
  <2>1. /\ qjob \in Jobs /\ qpc \in InBody /\ qpc' = "finish"
        /\ UNCHANGED <<qjob, threads, call, dropped, currentJob>>
    BY <1>5 DEF SqlInterrupted, EndBody, JobReferences, fieldVars, sqlVars, otherVars
  <2>2. \E o : ProcessOutcome(qjob, o)
    BY <1>5 DEF SqlInterrupted, EndBody
  <2>3. /\ jState'[qjob] \in {jState[qjob], "CANCELLED", "ERROR"}
        /\ \A i \in Jobs \ {qjob} : jState'[i] = jState[i]
        /\ UNCHANGED <<jConnection, ran, finished>>
    BY <1>t, <2>1, <2>2, ProcessOutcomeFacts
  <2> QED
    BY <1>t, <2>1, <2>3 DEF ThreadIdentity, PendingUntouched, RunningOwned, JobReferences
<1>6. CASE FinishJob
  BY <1>t, <1>6, SetResultFacts DEF FinishJob, JobReferences, fieldVars, sqlVars, otherVars, ThreadIdentity, PendingUntouched, RunningOwned, JobReferences
<1>7. CASE Callbacks
  BY <1>t, <1>7, CallJobFinishedFacts DEF Callbacks, JobReferences, fieldVars, sqlVars, otherVars, ThreadIdentity, PendingUntouched, RunningOwned, JobReferences
<1>8. CASE DropJob
  <2>0. /\ Head(dropped) \in Jobs
        /\ UNCHANGED <<call, qjob, threads, currentJob>>
        /\ qpc = "drop" /\ dropped # <<>>
    BY <1>t, <1>8 DEF DropJob, ThreadTypeOK, fieldVars, sqlVars, otherVars
  <2>1. CASE CancelRefused(Head(dropped), TRUE)
    BY <1>8, <2>0, <2>1 DEF DropJob, jobVars, ThreadIdentity, PendingUntouched, RunningOwned, JobReferences
  <2>2. CASE ~CancelRefused(Head(dropped), TRUE)
    <3>1. /\ jState'[Head(dropped)] = "CANCELLED"
          /\ \A i \in Jobs \ {Head(dropped)} : jState'[i] = jState[i]
          /\ UNCHANGED <<jConnection, ran, finished>>
      BY <1>t, <1>8, <2>0, <2>2, MarkCancelledFacts DEF DropJob
    <3>2. qpc' = "dropFinish" /\ UNCHANGED dropped /\ ~IsDone(Head(dropped))
      BY <1>8, <2>2 DEF DropJob, CancelRefused
    <3> QED
      BY <1>t, <2>0, <3>1, <3>2 DEF ThreadIdentity, PendingUntouched, RunningOwned, JobReferences
  <2> QED
    BY <2>1, <2>2
<1>9. CASE FinishDropped
  <2>0. Head(dropped) \in Jobs
    BY <1>t, <1>9 DEF FinishDropped, ThreadTypeOK, JobReferences
  <2> QED
    BY <1>t, <1>9, <2>0, CallJobFinishedFacts
       DEF FinishDropped, JobReferences, fieldVars, sqlVars, otherVars, ThreadIdentity, PendingUntouched, RunningOwned, JobReferences
<1> QED
  BY <1>1, <1>2, <1>3, <1>4, <1>5, <1>6, <1>7, <1>8, <1>9, StepCases

LEMMA BoundedStep ==
  ASSUME TypeOK, JobReferences, ThreadIdentity, RunningOwned, CancelledOwned,
         PendingUntouched, Bounded, Next
  PROVE  Bounded'
<1> USE DEF Bounded, IsDone
<1>t. /\ JobTypeOK /\ ThreadTypeOK /\ jState \in [Jobs -> States]
      /\ ran \in [Jobs -> Nat] /\ finished \in [Jobs -> Nat] /\ threads \in Nat
  BY DEF TypeOK, JobTypeOK, SqlTypeOK
<1>1. ASSUME NEW u \in Users, NewCall(u) \/ InCall(u)
      PROVE  Bounded'
  <2>0. /\ \A v \in Users \ {u} : call'[v] = call[v]
        /\ UNCHANGED <<qjob, dropped, currentJob>>
        /\ UNCHANGED <<qpc, threads>> \/ (qpc = "none" /\ qpc' = "open")
    BY <1>1, UserJobStep
  <2>1. CASE /\ UNCHANGED <<jState, jConnection, ran, finished>>
             /\ call'[u].pc = "finish" => UNCHANGED call
    BY <2>0, <2>1 DEF PendingUntouched, RunningOwned, CancelledOwned
  <2>2. ASSUME NEW j \in Jobs, MarkCancelled(j), ~IsDone(j),
               call'[u].pc = "finish" => call'[u].job = j /\ jConnection[j] = 0
        PROVE  Bounded'
    <3>1. /\ jState'[j] = "CANCELLED"
          /\ \A i \in Jobs \ {j} : jState'[i] = jState[i]
          /\ UNCHANGED <<jConnection, ran, finished>>
      BY <1>t, <2>2, MarkCancelledFacts
    <3> QED
      BY <1>t, <2>0, <2>2, <3>1 DEF PendingUntouched, RunningOwned, CancelledOwned
  <2>3. ASSUME NEW j \in Jobs, CallJobFinished(j, "null"), IsDone(j),
               ran[j] = 0, finished[j] = 0,
               call[u].pc = "finish", call[u].job = j, call'[u].pc # "finish"
        PROVE  Bounded'
    <3>1. /\ finished'[j] = finished[j] + 1
          /\ \A i \in Jobs \ {j} : finished'[i] = finished[i]
          /\ UNCHANGED <<jState, jConnection, ran>>
      BY <1>t, <2>3, CallJobFinishedFacts
    <3> QED
      BY <1>t, <2>0, <2>3, <3>1 DEF PendingUntouched, RunningOwned, CancelledOwned
  <2> QED
    BY <1>1, <2>1, <2>2, <2>3, UserJobStep
<1>2. CASE Reincarnate
  BY <1>2, <1>t, ReincarnateStep DEF jobVars, PendingUntouched, RunningOwned, CancelledOwned
<1>3. CASE QuietSteps
  BY <1>3, QuietStep DEF jobVars, PendingUntouched, RunningOwned, CancelledOwned
<1>4. CASE BeginJob
  <2>1. CASE MayStart(qjob)
    BY <1>t, <1>4, <2>1, StartJobFacts
       DEF BeginJob, MayStart, JobReferences, fieldVars, sqlVars, otherVars, PendingUntouched, RunningOwned, CancelledOwned
  <2>2. CASE ~MayStart(qjob)
    BY <1>t, <1>4, <2>2
       DEF BeginJob, MayStart, JobReferences, jobVars, fieldVars, sqlVars, otherVars, PendingUntouched, RunningOwned, CancelledOwned
  <2> QED
    BY <2>1, <2>2
<1>5. CASE SqlInterrupted \/ \E o \in {"value", "error", "death"} : EndBody(o)
  <2>1. /\ qjob \in Jobs /\ qpc \in InBody /\ qpc' = "finish"
        /\ UNCHANGED <<qjob, threads, call, dropped, currentJob>>
    BY <1>5 DEF SqlInterrupted, EndBody, JobReferences, fieldVars, sqlVars, otherVars
  <2>2. \E o : ProcessOutcome(qjob, o)
    BY <1>5 DEF SqlInterrupted, EndBody
  <2>3. /\ jState'[qjob] \in {jState[qjob], "CANCELLED", "ERROR"}
        /\ \A i \in Jobs \ {qjob} : jState'[i] = jState[i]
        /\ UNCHANGED <<jConnection, ran, finished>>
    BY <1>t, <2>1, <2>2, ProcessOutcomeFacts
  <2> QED
    BY <1>t, <2>1, <2>3 DEF PendingUntouched, RunningOwned, CancelledOwned
<1>6. CASE FinishJob
  BY <1>t, <1>6, SetResultFacts DEF FinishJob, JobReferences, fieldVars, sqlVars, otherVars, PendingUntouched, RunningOwned, CancelledOwned
<1>7. CASE Callbacks
  BY <1>t, <1>7, CallJobFinishedFacts DEF Callbacks, JobReferences, fieldVars, sqlVars, otherVars, PendingUntouched, RunningOwned, CancelledOwned
<1>8. CASE DropJob
  <2>0. /\ Head(dropped) \in Jobs
        /\ UNCHANGED <<call, qjob, threads, currentJob>>
        /\ qpc = "drop" /\ dropped # <<>>
    BY <1>t, <1>8 DEF DropJob, ThreadTypeOK, fieldVars, sqlVars, otherVars
  <2>1. CASE CancelRefused(Head(dropped), TRUE)
    BY <1>8, <2>0, <2>1 DEF DropJob, jobVars, PendingUntouched, RunningOwned, CancelledOwned
  <2>2. CASE ~CancelRefused(Head(dropped), TRUE)
    <3>1. /\ jState'[Head(dropped)] = "CANCELLED"
          /\ \A i \in Jobs \ {Head(dropped)} : jState'[i] = jState[i]
          /\ UNCHANGED <<jConnection, ran, finished>>
      BY <1>t, <1>8, <2>0, <2>2, MarkCancelledFacts DEF DropJob
    <3>2. qpc' = "dropFinish" /\ UNCHANGED dropped /\ ~IsDone(Head(dropped))
      BY <1>8, <2>2 DEF DropJob, CancelRefused
    <3> QED
      BY <1>t, <2>0, <3>1, <3>2 DEF PendingUntouched, RunningOwned, CancelledOwned
  <2> QED
    BY <2>1, <2>2
<1>9. CASE FinishDropped
  <2>0. Head(dropped) \in Jobs
    BY <1>t, <1>9 DEF FinishDropped, ThreadTypeOK, JobReferences
  <2> QED
    BY <1>t, <1>9, <2>0, CallJobFinishedFacts
       DEF FinishDropped, JobReferences, fieldVars, sqlVars, otherVars, PendingUntouched, RunningOwned, CancelledOwned
<1> QED
  BY <1>1, <1>2, <1>3, <1>4, <1>5, <1>6, <1>7, <1>8, <1>9, StepCases

-----------------------------------------------------------------------------
(***************************************************************************)
(* The inductive invariant, and what follows from it.                      *)
(***************************************************************************)
LEMMA InitIndInv == Init => IndInv
<1> SUFFICES ASSUME Init PROVE IndInv
  OBVIOUS
<1>1. TypeOK
  BY InitTypeOK
<1>2. \A u \in Users : call[u].pc = "idle"
  BY CallFields DEF Init
<1>3. JobReferences /\ ThreadIdentity /\ ConnectionOwned
  BY <1>2 DEF Init, JobReferences, ThreadIdentity, ConnectionOwned
<1>4. PendingUntouched /\ RunningOwned /\ CancelledOwned /\ Bounded
  BY <1>2 DEF Init, JobInit, PendingUntouched, RunningOwned, CancelledOwned, Bounded
<1> QED
  BY <1>1, <1>3, <1>4 DEF IndInv

LEMMA TypeOKStep ==
  ASSUME TypeOK, JobReferences, Next
  PROVE  TypeOK'
BY NewCallTypeOK, InCallTypeOK, LoopTypeOK, ExecuteTypeOK, FinishTypeOK, StoppedTypeOK
   DEF Next, QueueThread, ThreadFails

LEMMA IndInvStep ==
  ASSUME IndInv, [Next]_vars
  PROVE  IndInv'
<1> USE DEF IndInv
<1>1. CASE Next
  BY <1>1, TypeOKStep, JobReferencesStep, ThreadIdentityStep, ConnectionOwnedStep,
     PendingUntouchedStep, RunningOwnedStep, CancelledOwnedStep, BoundedStep
<1>2. CASE UNCHANGED vars
  <2> USE <1>2 DEF vars
  <2>1. TypeOK'
    BY UnchangedTypes DEF TypeOK
  <2>2. JobReferences' /\ ThreadIdentity' /\ ConnectionOwned'
    BY DEF JobReferences, ThreadIdentity, ConnectionOwned,
           fieldVars, threadVars, sqlVars, otherVars
  <2>3. PendingUntouched' /\ RunningOwned' /\ CancelledOwned' /\ Bounded'
    BY DEF PendingUntouched, RunningOwned, CancelledOwned, Bounded, IsDone,
           jobVars, fieldVars, threadVars, sqlVars, otherVars
  <2> QED
    BY <2>1, <2>2, <2>3
<1> QED
  BY <1>1, <1>2

(* The invariant holds of every queue: whoever has a job in his hands is   *)
(* the only one, and the fields of the job say so.                         *)
THEOREM Invariance == Spec => []IndInv
BY InitIndInv, IndInvStep, PTL DEF Spec

(* Every field of the queue, its jobs, its threads and its users always    *)
(* holds a value of its type; in particular the code never dereferences a  *)
(* job that is not there.                                                  *)
THEOREM TypeCorrect == Spec => []TypeOK
<1>1. IndInv => TypeOK
  BY DEF IndInv
<1> QED
  BY <1>1, Invariance, PTL

(* The assert statements of cancel(), afterExecute() and threadStopped()   *)
(* hold whenever they are evaluated.                                       *)
THEOREM AssertionsHold == Spec => []SourceAssertions
<1>1. IndInv => SourceAssertions
  BY DEF IndInv, SourceAssertions, RunningOwned, ThreadIdentity, IsDone
<1> QED
  BY <1>1, Invariance, PTL

(* No job is entered twice, and none is reported twice to jobFinished(),   *)
(* however canceller, queue thread and stopping thread race for it.        *)
THEOREM JobsFinishOnce == Spec => []FinishedOnce
<1>1. IndInv => FinishedOnce
  <2> SUFFICES ASSUME IndInv, NEW j \in Jobs
               PROVE  /\ finished[j] <= 1 /\ ran[j] <= 1
                      /\ finished[j] = 1 => IsDone(j) /\ ~(j = qjob /\ qpc \in Executing)
    BY DEF FinishedOnce
  <2>1. /\ finished[j] <= 1 /\ ran[j] <= 1
        /\ finished[j] = 1 => IsDone(j)
    BY DEF IndInv, Bounded
  <2>2. qpc \in Executing => finished[qjob] = 0
    BY DEF IndInv, RunningOwned
  <2> QED
    BY <2>1, <2>2
<1> QED
  BY <1>1, Invariance, PTL

(* A connection that a canceller reads from a job is the open connection   *)
(* of the live thread, and belongs to no other job at that moment.         *)
THEOREM ConnectionHasOneJob == Spec => []OneJobOnConnection
<1>1. IndInv => OneJobOnConnection
  BY DEF IndInv, OneJobOnConnection, RunningOwned, ConnectionOwned, ThreadIdentity, IsOpen
<1> QED
  BY <1>1, Invariance, PTL

(* A queue thread is created only by a queue that has not been stopped,    *)
(* when the thread before it has ended and its connection is closed.       *)
THEOREM NeverRestarted == Spec => NoRestart
<1>1. ASSUME IndInv, [Next]_vars, threads' # threads
      PROVE  ~stopRequested /\ qpc = "none" /\ ~connectionOpen
  <2>1. MayCreateThread /\ NewThread
    <3>1. CASE \E u \in Users : NewCall(u) \/ InCall(u)
      BY <1>1, <3>1, UserStep DEF IndInv
    <3>2. CASE Reincarnate
      BY <1>1, <3>2 DEF Reincarnate
    <3>3. CASE QuietSteps
      BY <1>1, <3>3 DEF QuietSteps, Open, OpenFails, Interrupted, Leave, TakeJob,
        WaitForJob, BeginSql, EndSql, GetOther, GetReturns, AfterExecute, Rollback,
        RollbackEnds, Dispose, ThreadStopped, ThreadEnds, sqlVars
    <3>4. CASE BeginJob \/ SqlInterrupted \/ FinishJob \/ Callbacks \/ DropJob \/ FinishDropped
               \/ \E o \in {"value", "error", "death"} : EndBody(o)
      BY <1>1, <3>4 DEF BeginJob, SqlInterrupted, FinishJob, Callbacks, DropJob,
        FinishDropped, EndBody, sqlVars
    <3>5. CASE UNCHANGED vars
      BY <1>1, <3>5 DEF vars, sqlVars
    <3> QED
      BY <1>1, <3>1, <3>2, <3>3, <3>4, <3>5, StepCases
  <2> QED
    BY <1>1, <2>1, NewThreadStep DEF IndInv, TypeOK, ConnectionOwned, MayCreateThread
<1> QED
  BY <1>1, Invariance, PTL DEF Spec, NoRestart

(* What a step may do to a job that is done.                               *)
LEMMA DoneStep ==
  ASSUME IndInv, [Next]_vars, NEW i \in Jobs, IsDone(i)
  PROVE  /\ ran'[i] = ran[i]
         /\ jState'[i] = jState[i] \/ (jState[i] = "CANCELLED" /\ jState'[i] = "ERROR"
                                      /\ i = qjob /\ finished[i] = 0)
<1> USE DEF IsDone
<1>t. TypeOK /\ JobReferences /\ ThreadIdentity /\ CancelledOwned /\ JobTypeOK /\ ThreadTypeOK
  BY DEF IndInv, TypeOK
<1>1. CASE \E u \in Users : NewCall(u) \/ InCall(u)
  <2>1. \/ UNCHANGED <<jState, ran>>
        \/ \E j \in Jobs : MarkCancelled(j) /\ ~IsDone(j)
    BY <1>1, <1>t, UserJobStep, CallJobFinishedFacts
  <2> QED
    BY <1>t, <2>1, MarkCancelledFacts
<1>2. CASE Reincarnate
  BY <1>2 DEF Reincarnate, jobVars
<1>3. CASE QuietSteps
  BY <1>3, QuietStep DEF jobVars
<1>4. CASE BeginJob
  BY <1>4, <1>t, StartJobFacts DEF BeginJob, MayStart, JobReferences, jobVars
<1>5. CASE SqlInterrupted \/ \E o \in {"value", "error", "death"} : EndBody(o)
  <2>1. PICK o : ProcessOutcome(qjob, o)
    BY <1>5 DEF SqlInterrupted, EndBody
  <2>2. /\ qjob \in Jobs /\ finished[qjob] = 0
        /\ jState[qjob] \in {"RUNNING", "CANCELLED"}
    BY <1>5 DEF SqlInterrupted, EndBody, IndInv, JobReferences, RunningOwned
  <2> QED
    BY <1>t, <2>1, <2>2, ProcessOutcomeFacts
<1>6. CASE FinishJob
  BY <1>6, <1>t, SetResultFacts DEF FinishJob, JobReferences
<1>7. CASE Callbacks
  BY <1>7, <1>t, CallJobFinishedFacts DEF Callbacks, JobReferences
<1>8. CASE DropJob
  <2>1. Head(dropped) \in Jobs
    BY <1>8, <1>t DEF DropJob, ThreadTypeOK
  <2> QED
    BY <1>8, <1>t, <2>1, MarkCancelledFacts DEF DropJob, CancelRefused, jobVars
<1>9. CASE FinishDropped
  <2>1. Head(dropped) \in Jobs
    BY <1>9, <1>t DEF FinishDropped, JobReferences, ThreadTypeOK
  <2> QED
    BY <1>9, <1>t, <2>1, CallJobFinishedFacts DEF FinishDropped
<1>10. CASE UNCHANGED vars
  BY <1>10 DEF vars, jobVars
<1> QED
  BY <1>1, <1>2, <1>3, <1>4, <1>5, <1>6, <1>7, <1>8, <1>9, <1>10, StepCases

(* A job that is done is never entered again and stays done; a canceller   *)
(* can only be overruled by the exception of a job that still runs.        *)
THEOREM DoneStaysDone == Spec => DoneIsFinal
<1>1. ASSUME IndInv, [Next]_vars
      PROVE  \A j \in Jobs : IsDone(j) =>
               /\ ran'[j] = ran[j]
               /\ jState'[j] = jState[j] \/ (jState[j] = "CANCELLED" /\ jState'[j] = "ERROR"
                                            /\ j = qjob /\ finished[j] = 0)
  BY <1>1, DoneStep
<1> QED
  BY <1>1, Invariance, PTL DEF Spec, DoneIsFinal
=============================================================================
