---------------------------- MODULE StatementPool ----------------------------
(***************************************************************************)
(* What a connection promises about compiled statement handles: each is    *)
(* lent to one statement at a time, goes to another statement only after   *)
(* it was given back as clean as it was compiled, and none is left when    *)
(* the database is closed, for good.                                       *)
(***************************************************************************)
CONSTANTS
  Handle,      (* the handles that may be compiled                         *)
  Borrower     (* the statements they are lent to, each only once          *)

VARIABLES
  place,       (* where each handle is: nowhere, in the pool, lent or gone *)
  served,      (* the borrowers that were lent a handle                    *)
  clean,       (* the handles that are as they were compiled               *)
  open         (* the database is open, which it is not before nor after   *)

vars == <<place, served, clean, open>>

Lent(b) == [in |-> "use", by |-> b]
Pool == [in |-> "pool"]
Nowhere == [in |-> "nowhere"]
Gone == [in |-> "gone"]

Init ==
  /\ place = [h \in Handle |-> Nowhere]
  /\ served = {}
  /\ clean = {}
  /\ open = "not yet"

Open ==
  /\ open = "not yet"
  /\ open' = "open"
  /\ UNCHANGED <<place, served, clean>>

(* A new handle, on its way to the one it is compiled for.                 *)
Compile(h) ==
  /\ open = "open"
  /\ place[h] = Nowhere
  /\ place' = [place EXCEPT ![h] = Pool]
  /\ clean' = clean \union {h}
  /\ UNCHANGED <<served, open>>

Lend(h, b) ==
  /\ place[h] = Pool /\ h \in clean
  /\ b \notin served
  /\ place' = [place EXCEPT ![h] = Lent(b)]
  /\ served' = served \union {b}
  /\ UNCHANGED <<clean, open>>

Use(h) ==
  /\ \E b \in Borrower : place[h] = Lent(b)
  /\ clean' \in {clean \union {h}, clean \ {h}}
  /\ UNCHANGED <<place, served, open>>

GiveBack(h) ==
  /\ \E b \in Borrower : place[h] = Lent(b)
  /\ place' = [place EXCEPT ![h] = Pool]
  /\ clean' = clean \union {h}
  /\ UNCHANGED <<served, open>>

Drop(h) ==
  /\ place[h] \notin {Nowhere, Gone}
  /\ place' = [place EXCEPT ![h] = Gone]
  /\ clean' = clean \ {h}
  /\ UNCHANGED <<served, open>>

Close ==
  /\ open = "open"
  /\ \A h \in Handle : place[h] \in {Nowhere, Gone}
  /\ open' = "closed"
  /\ UNCHANGED <<place, served, clean>>

Next ==
  \/ Open \/ Close
  \/ \E h \in Handle :
       \/ Compile(h) \/ Use(h) \/ GiveBack(h) \/ Drop(h)
       \/ \E b \in Borrower : Lend(h, b)

Spec == Init /\ [][Next]_vars
==============================================================================
