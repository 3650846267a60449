----------------------------- MODULE JobService -----------------------------
(***************************************************************************)
(* What SQLiteQueue and SQLiteJob promise the users of a queue, without    *)
(* threads, locks or connections: jobs run one at a time in the order they *)
(* were submitted, each at most once; a job that has been cancelled before *)
(* it started never starts; each job that is done stays done, and is       *)
(* reported to its owner once, when it no longer runs.                     *)
(***************************************************************************)
EXTENDS Naturals, Sequences

CONSTANTS Jobs, NoJob

VARIABLES
  order,     (* the submitted jobs                                         *)
  status,    (* the state of each job                                      *)
  running,   (* the job whose body is being executed, or NoJob             *)
  reported   (* how often jobFinished() has been called                    *)

vars == <<order, status, running, reported>>

Done == {"SUCCEEDED", "ERROR", "CANCELLED"}

Init ==
  /\ order = <<>>
  /\ status = [j \in Jobs |-> "PENDING"]
  /\ running = NoJob
  /\ reported = [j \in Jobs |-> 0]

Submit(j) ==
  /\ \A i \in 1 .. Len(order) : order[i] # j
  /\ order' = Append(order, j)
  /\ UNCHANGED <<status, running, reported>>

(* A job starts after everything that was submitted before it is done.     *)
Run(j) ==
  /\ running = NoJob
  /\ status[j] = "PENDING"
  /\ \E i \in 1 .. Len(order) :
       order[i] = j /\ \A k \in 1 .. i - 1 : status[order[k]] \in Done
  /\ status' = [status EXCEPT ![j] = "RUNNING"]
  /\ running' = j
  /\ UNCHANGED <<order, reported>>

Cancel(j) ==
  /\ status[j] \in {"PENDING", "RUNNING"}
  /\ status' = [status EXCEPT ![j] = "CANCELLED"]
  /\ UNCHANGED <<order, running, reported>>

(* The body throws: the job fails, also when it had been cancelled, or it  *)
(* is interrupted.                                                         *)
Throw(j) ==
  /\ running = j
  /\ status[j] \in {"RUNNING", "CANCELLED"}
  /\ \E s \in {"ERROR", "CANCELLED"} : status' = [status EXCEPT ![j] = s]
  /\ UNCHANGED <<order, running, reported>>

(* The body is over.                                                       *)
Finish(j) ==
  /\ running = j
  /\ running' = NoJob
  /\ status' = IF status[j] = "RUNNING"
               THEN [status EXCEPT ![j] = "SUCCEEDED"] ELSE status
  /\ UNCHANGED <<order, reported>>

Report(j) ==
  /\ status[j] \in Done /\ running # j
  /\ reported[j] = 0
  /\ reported' = [reported EXCEPT ![j] = 1]
  /\ UNCHANGED <<order, status, running>>

Next ==
  \E j \in Jobs :
    Submit(j) \/ Run(j) \/ Cancel(j) \/ Throw(j) \/ Finish(j) \/ Report(j)

Spec == Init /\ [][Next]_vars
=============================================================================
