----------------------------- MODULE IntArrayScan ----------------------------
(***************************************************************************)
(* A scan of the virtual table of a long array (native/intarray.c): which  *)
(* constraints of the WHERE clause intarrayBestIndex takes over, how       *)
(* intarrayFilter turns their arguments into bounds, the binary search for *)
(* the first row, and the rows intarrayNext goes through.                  *)
(*                                                                         *)
(* SQLite does not check a constraint again that was taken over ("omit"),  *)
(* so the rows of a scan must be exactly those that satisfy it. A plan is  *)
(* kept with a compiled statement: the array may be bound to other values  *)
(* between the scans.                                                      *)
(***************************************************************************)
EXTENDS Integers, Sequences, FiniteSets

CONSTANTS
  Contents,              (* what the array may be bound to                 *)
  Constraints,           (* the WHERE clauses, sequences of constraints    *)
  Arguments,             (* the values constraints compare with            *)
  SMALLEST, LARGEST,     (* the smallest and the largest sqlite3_int64     *)
  INT_MIN, INT_MAX,      (* those of int                                   *)
  BSEARCH_THRESHOLD      (* INTARRAY_BSEARCH_THRESHOLD                     *)

Int64 == SMALLEST .. LARGEST

(* A constraint has a column, an operator and is usable or not; "other" is *)
(* any operator not among INTARRAY_ACCEPTED_OPS.                           *)
AcceptedOps == {"EQ", "GE", "GT", "LE", "LT"}
Constraint == [column : {"rowid", "value"}, op : AcceptedOps \union {"other"},
               usable : BOOLEAN]

(* An argument is a number, given by twice its value so that there are     *)
(* fractions, or something else. (double) LARGEST is LARGEST + 1, and no   *)
(* double lies between them.                                               *)
Argument == [type : {"INTEGER", "FLOAT"}, twice : Int]
              \union [type : {"TEXT", "BLOB", "NULL"}, twice : {0}]

(* "If ordered is true, then the caller guarantees that the values come in *)
(* ascending order. If unique is true, then the values are guaranteed to   *)
(* be unique" (SQLiteLongArray.java:122).                                  *)
IsContent(c) ==
  /\ c.n \in 0 .. INT_MAX
  /\ c.a \in [0 .. c.n - 1 -> Int64]
  /\ c.ordered \in BOOLEAN /\ c.unique \in BOOLEAN
  /\ c.ordered => \A i, j \in 0 .. c.n - 1 : i <= j => c.a[i] <= c.a[j]
  /\ c.unique => \A i, j \in 0 .. c.n - 1 : c.a[i] = c.a[j] => i = j

ASSUME ScanAssumption ==
  /\ SMALLEST \in Int /\ LARGEST \in Int /\ SMALLEST < 0 /\ LARGEST > 0
  /\ INT_MIN \in SMALLEST .. -1 /\ INT_MAX \in 1 .. LARGEST
  /\ BSEARCH_THRESHOLD \in Nat
  /\ \A c \in Contents : IsContent(c)
  /\ Constraints \subseteq Seq(Constraint)
  /\ Arguments \subseteq Argument
  /\ \A v \in Arguments :
       /\ v.type = "INTEGER" => \E x \in Int64 : v.twice = 2 * x
       /\ v.type = "FLOAT" => v.twice \notin 2 * LARGEST .. 2 * LARGEST + 1

VARIABLES
  arr,          (* what the array is bound to                              *)
  plan,         (* mode and operators, as idxNum encodes them              *)
  cursor,       (* the intarray_cursor                                     *)
  at,           (* no cursor, in intarray_bsearch, or at a row (or eof)    *)
  from, to,     (* local variables of intarray_bsearch                     *)
  wanted,       (* history: the rows that satisfy what was taken over      *)
  returned,     (* history: the rows that were returned                    *)
  deviates      (* history: why the scan may differ from that              *)

searchVars == <<from, to>>
historyVars == <<wanted, returned, deviates>>
vars == <<arr, plan, cursor, at, searchVars, historyVars>>

ZEROSET == -1
SCAN == 0
ROWID == 1
VALUE == 2

NewCursor == [mode |-> SCAN, min |-> 0, max |-> 0, hasMin |-> FALSE,
              hasMax |-> FALSE, i |-> 0, uniqueLeft |-> -1]

TypeOK ==
  /\ arr \in Contents
  /\ plan.mode \in {SCAN, ROWID, VALUE}
  /\ plan.ops \in {<<>>} \union {<<o>> : o \in AcceptedOps}
                         \union (AcceptedOps \X AcceptedOps)
  /\ cursor.mode \in {ZEROSET, SCAN, ROWID, VALUE}
  /\ cursor.min \in Int64 /\ cursor.max \in Int64
  /\ cursor.hasMin \in BOOLEAN /\ cursor.hasMax \in BOOLEAN
  /\ cursor.i \in 0 .. arr.n /\ cursor.uniqueLeft \in -1 .. INT_MAX
  /\ at \in {"closed", "search", "row"}
  /\ from \in 0 .. arr.n /\ to \in -1 .. arr.n - 1
  /\ wanted \subseteq 0 .. arr.n - 1 /\ returned \subseteq 0 .. arr.n - 1
  /\ deviates \subseteq {"short", "extreme", "rowid", "rounded", "blob"}

Init ==
  /\ arr \in Contents
  /\ plan = [mode |-> SCAN, ops |-> <<>>]
  /\ cursor = NewCursor
  /\ at = "closed"
  /\ from = 0 /\ to = -1
  /\ wanted = {} /\ returned = {} /\ deviates = {}

-----------------------------------------------------------------------------
(* intarrayBestIndex().                                                    *)

(* intarrayOpbit().                                                        *)
Opbits(op) == CASE op = "EQ" -> {"EQ"}
                [] op = "GE" -> {"EQ", "LOWER"}
                [] op = "GT" -> {"LOWER"}
                [] op = "LE" -> {"EQ", "UPPER"}
                [] op = "LT" -> {"UPPER"}
                [] OTHER -> {}

Least(S) == CHOOSE k \in S : \A j \in S : k <= j

(* intarrayC2opbits(): the first two constraints on the column, but not    *)
(* two bounds of the same side.                                            *)
C2opbits(where, ix) ==
  LET first == where[Least(ix)].op
      rest == ix \ {Least(ix)}
      second == where[Least(rest)].op
  IN IF rest = {} \/ Opbits(first) \intersect Opbits(second) \intersect {"UPPER", "LOWER"} # {}
     THEN <<first>> ELSE <<first, second>>

BestIndex(where) ==
  LET usable == {k \in DOMAIN where : where[k].usable}
      on(column) == {k \in usable : where[k].column = column}
  IN IF \E k \in usable : where[k].op \notin AcceptedOps THEN [mode |-> SCAN, ops |-> <<>>]
     ELSE IF on("rowid") # {} THEN [mode |-> ROWID, ops |-> C2opbits(where, on("rowid"))]
     ELSE IF on("value") # {} THEN [mode |-> VALUE, ops |-> C2opbits(where, on("value"))]
     ELSE [mode |-> SCAN, ops |-> <<>>]

-----------------------------------------------------------------------------
(* intarrayFilter().                                                       *)

LowerMax(cur, v, exclusive) ==
  LET bound == IF exclusive /\ v > SMALLEST THEN v - 1 ELSE v IN
  IF ~cur.hasMax \/ cur.max > bound
  THEN [cur EXCEPT !.max = bound, !.hasMax = TRUE] ELSE cur

RaiseMin(cur, v, exclusive) ==
  LET bound == IF exclusive /\ v < LARGEST THEN v + 1 ELSE v IN
  IF ~cur.hasMin \/ cur.min < bound
  THEN [cur EXCEPT !.min = bound, !.hasMin = TRUE] ELSE cur

Boundary_Inexact(op, cur, v, exact) ==    \* mutation: EQ does not ask exactInt
  LET exclusive == exact /\ "EQ" \notin Opbits(op) IN
  CASE "LOWER" \in Opbits(op) -> RaiseMin(cur, v, exclusive)
    [] "UPPER" \in Opbits(op) -> LowerMax(cur, v, exclusive)
    [] OTHER -> LowerMax(RaiseMin(cur, v, FALSE), v, FALSE)

(* intarrayBoundary(): a bound is exclusive for a strict operator, if it   *)
(* is the value itself and not the next integer.                           *)
Boundary(op, cur, v, exact) ==
  LET exclusive == exact /\ "EQ" \notin Opbits(op) IN
  CASE "LOWER" \in Opbits(op) -> RaiseMin(cur, v, exclusive)
    [] "UPPER" \in Opbits(op) -> LowerMax(cur, v, exclusive)
    [] op = "EQ" /\ exact -> LowerMax(RaiseMin(cur, v, FALSE), v, FALSE)
    [] OTHER -> [cur EXCEPT !.mode = ZEROSET]

Double(v) == IF v = LARGEST THEN LARGEST + 1 ELSE v
Ceil(twice) == -((-twice) \div 2)
Floor(twice) == twice \div 2

(* (sqlite3_int64) of a double; what it does with 2^63 depends on the      *)
(* processor. EQ truncates, but then the result counts only if it is exact. *)
Cast(op, twice) ==
  LET v == IF "LOWER" \in Opbits(op) THEN Ceil(twice) ELSE Floor(twice) IN
  IF v > LARGEST THEN {SMALLEST, LARGEST} ELSE {v}

(* intarrayConstrainCursor(): the cursors it may result in.                *)
ConstrainCursor(op, value, cur) ==
  LET zero == [cur EXCEPT !.mode = ZEROSET]
      upper == "UPPER" \in Opbits(op)
      lower == "LOWER" \in Opbits(op)
  IN CASE value.type = "TEXT" -> {IF upper THEN cur ELSE zero}
       [] value.type = "FLOAT" /\ value.twice > 2 * (LARGEST + 1) ->
            {IF upper THEN cur ELSE zero}
       [] value.type = "FLOAT" /\ value.twice < 2 * SMALLEST ->
            {IF lower THEN cur ELSE zero}
       [] value.type = "FLOAT" /\ value.twice \in 2 * SMALLEST .. 2 * (LARGEST + 1) ->
            {Boundary(op, cur, v, 2 * Double(v) = value.twice) : v \in Cast(op, value.twice)}
       [] value.type = "INTEGER" -> {Boundary(op, cur, value.twice \div 2, TRUE)}
       [] OTHER -> {zero}

(* The arguments one after the other; an empty result stays empty.         *)
Constrained(ops, values) ==
  LET start == [NewCursor EXCEPT !.mode = plan.mode]
      first == IF ops = <<>> THEN {start} ELSE ConstrainCursor(ops[1], values[1], start)
  IN IF Len(ops) < 2 THEN first
     ELSE UNION {IF cur.mode = ZEROSET THEN {cur}
                 ELSE ConstrainCursor(ops[2], values[2], cur) : cur \in first}

(* v = max - min + 1 overflows; uniqueLeft is an int.                      *)
Wrap64(v) == IF v > LARGEST THEN v - (LARGEST - SMALLEST + 1) ELSE v
UniqueLeft_OffByOne(cur) ==    \* mutation: max - min
  LET v == Wrap64(cur.max - cur.min) IN
  IF arr.unique /\ cur.mode = VALUE /\ cur.hasMin /\ cur.hasMax /\ v > 0 /\ v < INT_MAX
  THEN v ELSE -1
UniqueLeft(cur) ==
  LET v == Wrap64(cur.max - cur.min + 1) IN
  IF arr.unique /\ cur.mode = VALUE /\ cur.hasMin /\ cur.hasMax /\ v > 0 /\ v < INT_MAX
  THEN v ELSE -1

(* (int) min                                                               *)
ToInt(v) == ((v - INT_MIN) % (INT_MAX - INT_MIN + 1)) + INT_MIN

(* intarrayNextMatch(): the cursor at the first row from startIndex on.    *)
InBounds(cur, v) == (cur.hasMin => cur.min <= v) /\ (cur.hasMax => v <= cur.max)
NextMatch(cur, startIndex) ==
  LET matches == {k \in startIndex .. arr.n - 1 : InBounds(cur, arr.a[k])}
      eof == [cur EXCEPT !.i = arr.n]
      row(k) == [cur EXCEPT !.i = k]
  IN IF startIndex >= arr.n \/ cur.mode = ZEROSET THEN eof
     ELSE CASE cur.mode = SCAN -> row(startIndex)
            [] cur.mode = ROWID ->
                 IF cur.hasMax /\ startIndex > cur.max THEN eof ELSE row(startIndex)
            [] cur.mode = VALUE /\ arr.ordered ->
                 IF cur.hasMax /\ arr.a[startIndex] > cur.max THEN eof ELSE row(startIndex)
            [] cur.mode = VALUE /\ ~arr.ordered ->
                 IF matches = {} \/ (arr.unique /\ cur.uniqueLeft = 0) THEN eof
                 ELSE [row(Least(matches)) EXCEPT !.uniqueLeft =
                         IF arr.unique /\ @ > 0 THEN @ - 1 ELSE @]

-----------------------------------------------------------------------------
(* The meaning of a constraint: numbers compare by value, and are less     *)
(* than any text and any blob; nothing compares with null.                 *)
Holds(op, x, value) ==
  CASE value.type = "NULL" -> FALSE
    [] value.type \in {"TEXT", "BLOB"} -> op \in {"LT", "LE"}
    [] OTHER -> CASE op = "EQ" -> 2 * x = value.twice
                  [] op = "GE" -> 2 * x >= value.twice
                  [] op = "GT" -> 2 * x > value.twice
                  [] op = "LE" -> 2 * x <= value.twice
                  [] op = "LT" -> 2 * x < value.twice

Wanted(values) ==
  {k \in 0 .. arr.n - 1 : \A p \in DOMAIN plan.ops :
     Holds(plan.ops[p], IF plan.mode = ROWID THEN k ELSE arr.a[k], values[p])}

(* What is known to go wrong: a lower bound on a short ordered array; a    *)
(* strict bound beyond which there is no integer; a row number that is     *)
(* cut to an int; the float 2^63, and blobs.                               *)
Deviations(values, cur) ==
  {d \in {"short", "extreme", "rowid", "rounded", "blob"} :
     \/ d = "short" /\ cur.mode = VALUE /\ cur.hasMin
          /\ arr.ordered /\ arr.n <= BSEARCH_THRESHOLD
     \/ d = "rowid" /\ cur.mode = ROWID /\ cur.hasMin /\ cur.min \notin INT_MIN .. INT_MAX
     \/ \E p \in DOMAIN plan.ops :
          LET op == plan.ops[p] value == values[p] IN
          \/ d = "extreme" /\ \/ op = "GT" /\ value.twice = 2 * LARGEST
                              \/ op = "LT" /\ value.twice = 2 * SMALLEST
          \/ d = "rounded" /\ value.twice = 2 * (LARGEST + 1)
          \/ d = "blob" /\ op \in {"LT", "LE"} /\ value.type = "BLOB"}

-----------------------------------------------------------------------------
(* sqlite3_intarray_bind(): refused while a cursor is open.                *)
Bind(c) ==
  /\ at = "closed"
  /\ arr' = c
  /\ UNCHANGED <<plan, cursor, at, searchVars, historyVars>>

(* A statement is compiled.                                                *)
Prepare(where) ==
  /\ at = "closed"
  /\ plan' = BestIndex(where)
  /\ UNCHANGED <<arr, cursor, at, searchVars, historyVars>>

(* intarrayOpen() and intarrayFilter(), up to the binary search if there   *)
(* is one.                                                                 *)
NeedsSearch(cur) ==
  cur.mode = VALUE /\ cur.hasMin /\ arr.ordered /\ arr.n > BSEARCH_THRESHOLD
NeverTrue(cur) ==
  cur.mode = ZEROSET \/ (cur.hasMin /\ cur.hasMax /\ cur.min > cur.max)
StartIndex(cur) ==
  IF cur.mode = ROWID /\ cur.hasMin /\ ToInt(cur.min) > 0 THEN ToInt(cur.min) ELSE 0

Filter(values) ==
  /\ at = "closed"
  /\ \E cur \in Constrained(plan.ops, values) :
       LET filtered == [cur EXCEPT !.uniqueLeft = UniqueLeft(cur)] IN
       /\ wanted' = Wanted(values)
       /\ deviates' = Deviations(values, cur)
       /\ IF ~NeverTrue(cur) /\ NeedsSearch(cur)
          THEN at' = "search" /\ cursor' = filtered
          ELSE /\ at' = "row"
               /\ cursor' = IF NeverTrue(cur) THEN [cur EXCEPT !.i = arr.n]
                            ELSE NextMatch(filtered, StartIndex(cur))
  /\ from' = 0 /\ to' = arr.n - 1
  /\ returned' = {}
  /\ UNCHANGED <<arr, plan>>

(* One turn of the loop of intarray_bsearch(); in a unique array it stops  *)
(* when it meets the value.                                                *)
Search ==
  LET mid == (from + to) \div 2 IN
  /\ at = "search"
  /\ from <= to
  /\ arr.a[mid] # cursor.min \/ ~arr.unique
  /\ IF arr.a[mid] < cursor.min THEN from' = mid + 1 /\ to' = to
                                ELSE to' = mid - 1 /\ from' = from
  /\ UNCHANGED <<arr, plan, cursor, at, historyVars>>

(* It returns, and the rest of intarrayFilter().                           *)
SearchEnds ==
  LET mid == (from + to) \div 2
      found == from <= to /\ arr.unique /\ arr.a[mid] = cursor.min
  IN /\ at = "search"
     /\ from > to \/ found
     /\ cursor' = NextMatch(cursor, IF found THEN mid ELSE from)
     /\ at' = "row"
     /\ UNCHANGED <<arr, plan, searchVars, historyVars>>

(* intarrayEof(), intarrayColumn() or intarrayRowid(), and intarrayNext(). *)
NextRow ==
  /\ at = "row"
  /\ cursor.i < arr.n
  /\ returned' = returned \union {cursor.i}
  /\ cursor' = NextMatch(cursor, cursor.i + 1)
  /\ UNCHANGED <<arr, plan, at, searchVars, wanted, deviates>>

(* intarrayClose(), after the last row or before.                          *)
Close ==
  /\ at = "row"
  /\ at' = "closed"
  /\ cursor' = NewCursor
  /\ from' = 0 /\ to' = -1
  /\ wanted' = {} /\ returned' = {} /\ deviates' = {}
  /\ UNCHANGED <<arr, plan>>

Next ==
  \/ \E c \in Contents : Bind(c)
  \/ \E where \in Constraints : Prepare(where)
  \/ \E values \in [1 .. Len(plan.ops) -> Arguments] : Filter(values)
  \/ Search \/ SearchEnds \/ NextRow \/ Close

Spec == Init /\ [][Next]_vars

-----------------------------------------------------------------------------
(***************************************************************************)
(* Properties.                                                             *)
(***************************************************************************)

(* A scan ends only after every row that satisfies the constraints it took *)
(* over, whether it searched, filtered, or counted unique values, and      *)
(* although the array was rebound since the statement was compiled.        *)
NothingMissed ==
  at = "row" /\ cursor.i >= arr.n /\ deviates \intersect {"rowid", "rounded", "blob"} = {} =>
    wanted \subseteq returned

(* A row that is returned satisfies the constraints that SQLite was told   *)
(* to omit.                                                                *)
OnlyMatchingRows ==
  at = "row" /\ cursor.i < arr.n /\ deviates = {} => cursor.i \in wanted

(* "Failing those guarantees would result in incorrect search results"     *)
(* (SQLiteLongArray.java:123), and values that are bound as ordered and    *)
(* are ordered in correct ones: also when there are only a few of them.    *)
ShortArraysAreSearched ==
  at = "row" /\ cursor.i < arr.n /\ deviates \subseteq {"short"} => cursor.i \in wanted
==============================================================================
