-------------------------- MODULE IntArrayScan_proofs -------------------------
(***************************************************************************)
(* Proofs about IntArrayScan for all contents of an array, all clauses,    *)
(* all arguments, and integers of any width: the rows of a scan are those  *)
(* that satisfy the constraints it took over, whether it searched for      *)
(* them, filtered them, or counted unique values.                          *)
(***************************************************************************)
EXTENDS IntArrayScan, TLAPS, WellFoundedInduction, FiniteSetTheorems

(* The cursors, and the integers they work on.                             *)
Cursor == [mode : {ZEROSET, SCAN, ROWID, VALUE}, min : Int64, max : Int64,
           hasMin : BOOLEAN, hasMax : BOOLEAN, i : Int, uniqueLeft : Int]

(* The values of the constrained column that a cursor lets through.        *)
Admits(cur, x) == cur.mode # ZEROSET /\ InBounds(cur, x)

(* What is known to go wrong with one constraint.                          *)
Rounded(value) == value.twice = 2 * (LARGEST + 1)
BlobBelow(op, value) == op \in {"LT", "LE"} /\ value.type = "BLOB"
Extreme(op, value) == \/ op = "GT" /\ value.twice = 2 * LARGEST
                      \/ op = "LT" /\ value.twice = 2 * SMALLEST

LEMMA Integers64 ==
  /\ SMALLEST \in Int /\ LARGEST \in Int /\ SMALLEST < 0 /\ LARGEST > 0
  /\ INT_MIN \in Int /\ INT_MIN < 0 /\ SMALLEST <= INT_MIN
  /\ INT_MAX \in Int /\ INT_MAX > 0 /\ INT_MAX <= LARGEST
  /\ BSEARCH_THRESHOLD \in Nat
BY ScanAssumption

LEMMA ArgumentTypes ==
  ASSUME NEW value \in Arguments
  PROVE  /\ value.type \in {"INTEGER", "FLOAT", "TEXT", "BLOB", "NULL"}
         /\ value.twice \in Int
         /\ value.type = "INTEGER" => \E x \in Int64 : value.twice = 2 * x
         /\ value.type = "FLOAT" => value.twice \notin 2 * LARGEST .. 2 * LARGEST + 1
         /\ value.type \in {"TEXT", "BLOB", "NULL"} => value.twice = 0
<1>1. value \in Argument
  BY ScanAssumption
<1> QED
  BY <1>1, ScanAssumption DEF Argument

-----------------------------------------------------------------------------
(***************************************************************************)
(* intarrayFilter(): the bounds admit what satisfies the constraints.      *)
(***************************************************************************)
LEMMA RaiseMinAdmits ==
  ASSUME NEW cur \in Cursor, NEW v \in Int64, NEW exclusive \in BOOLEAN
  PROVE  /\ RaiseMin(cur, v, exclusive) \in Cursor
         /\ RaiseMin(cur, v, exclusive).mode = cur.mode
         /\ RaiseMin(cur, v, exclusive).i = cur.i
         /\ RaiseMin(cur, v, exclusive).uniqueLeft = cur.uniqueLeft
         /\ \A x \in Int64 : InBounds(RaiseMin(cur, v, exclusive), x) <=>
              InBounds(cur, x) /\ (IF exclusive /\ v < LARGEST THEN v < x ELSE v <= x)
<1> USE Integers64 DEF Int64
<1> DEFINE bound == IF exclusive /\ v < LARGEST THEN v + 1 ELSE v
<1>1. bound \in Int64
  OBVIOUS
<1>2. \A x \in Int64 : bound <= x <=> IF exclusive /\ v < LARGEST THEN v < x ELSE v <= x
  OBVIOUS
<1>3. RaiseMin(cur, v, exclusive) = IF ~cur.hasMin \/ cur.min < bound
        THEN [cur EXCEPT !.min = bound, !.hasMin = TRUE] ELSE cur
  BY DEF RaiseMin
<1> HIDE DEF bound
<1>4. CASE ~cur.hasMin \/ cur.min < bound
  <2> DEFINE r == [cur EXCEPT !.min = bound, !.hasMin = TRUE]
  <2>1. /\ r \in Cursor /\ r.mode = cur.mode /\ r.i = cur.i /\ r.uniqueLeft = cur.uniqueLeft
        /\ r.min = bound /\ r.hasMin = TRUE /\ r.max = cur.max /\ r.hasMax = cur.hasMax
    BY <1>1 DEF Cursor
  <2>2. \A x \in Int64 : InBounds(r, x) <=> InBounds(cur, x) /\ bound <= x
    BY <1>1, <1>4, <2>1 DEF InBounds, Cursor
  <2> QED
    BY <1>2, <1>3, <1>4, <2>1, <2>2
<1>5. CASE ~(~cur.hasMin \/ cur.min < bound)
  <2>1. \A x \in Int64 : InBounds(cur, x) => bound <= x
    BY <1>1, <1>5 DEF InBounds, Cursor
  <2> QED
    BY <1>2, <1>3, <1>5, <2>1
<1> QED
  BY <1>4, <1>5

LEMMA LowerMaxAdmits ==
  ASSUME NEW cur \in Cursor, NEW v \in Int64, NEW exclusive \in BOOLEAN
  PROVE  /\ LowerMax(cur, v, exclusive) \in Cursor
         /\ LowerMax(cur, v, exclusive).mode = cur.mode
         /\ LowerMax(cur, v, exclusive).i = cur.i
         /\ LowerMax(cur, v, exclusive).uniqueLeft = cur.uniqueLeft
         /\ \A x \in Int64 : InBounds(LowerMax(cur, v, exclusive), x) <=>
              InBounds(cur, x) /\ (IF exclusive /\ v > SMALLEST THEN x < v ELSE x <= v)
<1> USE Integers64 DEF Int64
<1> DEFINE bound == IF exclusive /\ v > SMALLEST THEN v - 1 ELSE v
<1>1. bound \in Int64
  OBVIOUS
<1>2. \A x \in Int64 : x <= bound <=> IF exclusive /\ v > SMALLEST THEN x < v ELSE x <= v
  OBVIOUS
<1>3. LowerMax(cur, v, exclusive) = IF ~cur.hasMax \/ cur.max > bound
        THEN [cur EXCEPT !.max = bound, !.hasMax = TRUE] ELSE cur
  BY DEF LowerMax
<1> HIDE DEF bound
<1>4. CASE ~cur.hasMax \/ cur.max > bound
  <2> DEFINE r == [cur EXCEPT !.max = bound, !.hasMax = TRUE]
  <2>1. /\ r \in Cursor /\ r.mode = cur.mode /\ r.i = cur.i /\ r.uniqueLeft = cur.uniqueLeft
        /\ r.max = bound /\ r.hasMax = TRUE /\ r.min = cur.min /\ r.hasMin = cur.hasMin
    BY <1>1 DEF Cursor
  <2>2. \A x \in Int64 : InBounds(r, x) <=> InBounds(cur, x) /\ x <= bound
    BY <1>1, <1>4, <2>1 DEF InBounds, Cursor
  <2> QED
    BY <1>2, <1>3, <1>4, <2>1, <2>2
<1>5. CASE ~(~cur.hasMax \/ cur.max > bound)
  <2>1. \A x \in Int64 : InBounds(cur, x) => x <= bound
    BY <1>1, <1>5 DEF InBounds, Cursor
  <2> QED
    BY <1>2, <1>3, <1>5, <2>1
<1> QED
  BY <1>4, <1>5

(* What intarrayBoundary makes of a bound: the comparison it stands for.   *)
Above(op, v, exact) == op = "GE" \/ (op = "GT" /\ ~(exact /\ v < LARGEST))
Below(op, v, exact) == op = "LE" \/ (op = "LT" /\ ~(exact /\ v > SMALLEST))

Compares(op, v, exact, x) ==
  CASE op \in {"GE", "GT"} -> IF Above(op, v, exact) THEN v <= x ELSE v < x
    [] op \in {"LE", "LT"} -> IF Below(op, v, exact) THEN x <= v ELSE x < v
    [] op = "EQ" -> exact /\ x = v

LEMMA BoundaryRaises ==
  ASSUME NEW op, op # "EQ", "LOWER" \in Opbits(op), "UPPER" \notin Opbits(op),
         NEW cur, NEW v, NEW exact
  PROVE  Boundary(op, cur, v, exact) = RaiseMin(cur, v, exact /\ "EQ" \notin Opbits(op))
BY Zenon DEF Boundary

LEMMA BoundaryLowers ==
  ASSUME NEW op, op # "EQ", "LOWER" \notin Opbits(op), "UPPER" \in Opbits(op),
         NEW cur, NEW v, NEW exact
  PROVE  Boundary(op, cur, v, exact) = LowerMax(cur, v, exact /\ "EQ" \notin Opbits(op))
BY Zenon DEF Boundary

LEMMA BoundaryAdmits ==
  ASSUME NEW op \in AcceptedOps, NEW cur \in Cursor, cur.mode # ZEROSET,
         NEW v \in Int64, NEW exact \in BOOLEAN
  PROVE  /\ Boundary(op, cur, v, exact) \in Cursor
         /\ Boundary(op, cur, v, exact).mode \in {ZEROSET, cur.mode}
         /\ Boundary(op, cur, v, exact).i = cur.i
         /\ Boundary(op, cur, v, exact).uniqueLeft = cur.uniqueLeft
         /\ \A x \in Int64 : Admits(Boundary(op, cur, v, exact), x) <=>
              Admits(cur, x) /\ Compares(op, v, exact, x)
<1> DEFINE exclusive == exact /\ "EQ" \notin Opbits(op)
<1>0. exclusive \in BOOLEAN
  OBVIOUS
<1>1. CASE op \in {"GE", "GT"}
  <2>1. "LOWER" \in Opbits(op) /\ "UPPER" \notin Opbits(op) /\ ("EQ" \in Opbits(op) <=> op = "GE")
    BY <1>1 DEF Opbits
  <2>2. Boundary(op, cur, v, exact) = RaiseMin(cur, v, exclusive)
    BY <1>1, <2>1, BoundaryRaises, Zenon
  <2>3. \A x \in Int64 : Compares(op, v, exact, x) <=>
          IF exclusive /\ v < LARGEST THEN v < x ELSE v <= x
    BY <1>1, <2>1 DEF Compares, Above
  <2> HIDE DEF exclusive
  <2> QED
    BY <1>0, <2>2, <2>3, RaiseMinAdmits, SMTT(60) DEF Admits
<1>2. CASE op \in {"LE", "LT"}
  <2>1. "UPPER" \in Opbits(op) /\ "LOWER" \notin Opbits(op) /\ ("EQ" \in Opbits(op) <=> op = "LE")
    BY <1>2 DEF Opbits
  <2>2. Boundary(op, cur, v, exact) = LowerMax(cur, v, exclusive)
    BY <1>2, <2>1, BoundaryLowers, Zenon
  <2>3. \A x \in Int64 : Compares(op, v, exact, x) <=>
          IF exclusive /\ v > SMALLEST THEN x < v ELSE x <= v
    BY <1>2, <2>1 DEF Compares, Below
  <2> HIDE DEF exclusive
  <2> QED
    BY <1>0, <2>2, <2>3, LowerMaxAdmits, SMTT(60) DEF Admits
<1>3. CASE op = "EQ"
  <2>1. "UPPER" \notin Opbits(op) /\ "LOWER" \notin Opbits(op)
    BY <1>3 DEF Opbits
  <2>2. CASE exact
    <3> DEFINE up == RaiseMin(cur, v, FALSE)
    <3>1. Boundary(op, cur, v, exact) = LowerMax(up, v, FALSE)
      BY <1>3, <2>1, <2>2 DEF Boundary
    <3>2. /\ up \in Cursor /\ up.mode = cur.mode /\ up.i = cur.i
          /\ up.uniqueLeft = cur.uniqueLeft
          /\ \A x \in Int64 : InBounds(up, x) <=> InBounds(cur, x) /\ v <= x
      BY RaiseMinAdmits
    <3> HIDE DEF up
    <3>3. /\ LowerMax(up, v, FALSE) \in Cursor /\ LowerMax(up, v, FALSE).mode = up.mode
          /\ LowerMax(up, v, FALSE).i = up.i
          /\ LowerMax(up, v, FALSE).uniqueLeft = up.uniqueLeft
          /\ \A x \in Int64 : InBounds(LowerMax(up, v, FALSE), x) <=> InBounds(up, x) /\ x <= v
      BY <3>2, LowerMaxAdmits
    <3>4. \A x \in Int64 : Compares(op, v, exact, x) <=> v <= x /\ x <= v
      BY <1>3, <2>2, Integers64 DEF Compares, Int64
    <3> QED
      BY <3>1, <3>2, <3>3, <3>4 DEF Admits
  <2>3. CASE ~exact
    <3>1. Boundary(op, cur, v, exact) = [cur EXCEPT !.mode = ZEROSET]
      BY <1>3, <2>1, <2>3 DEF Boundary
    <3>2. \A x \in Int64 : ~Compares(op, v, exact, x)
      BY <1>3, <2>3 DEF Compares
    <3> QED
      BY <3>1, <3>2 DEF Admits, Cursor
  <2> QED
    BY <2>2, <2>3
<1> QED
  BY <1>1, <1>2, <1>3 DEF AcceptedOps

-----------------------------------------------------------------------------
(* Half of a number.                                                       *)
LEMMA Halves ==
  ASSUME NEW t \in Int
  PROVE  /\ Floor(t) \in Int /\ 2 * Floor(t) <= t /\ t < 2 * Floor(t) + 2
         /\ Ceil(t) \in Int /\ t <= 2 * Ceil(t) /\ 2 * Ceil(t) < t + 2
<1>1. \A n \in Int : n \div 2 \in Int /\ 2 * (n \div 2) <= n /\ n < 2 * (n \div 2) + 2
  OBVIOUS
<1>2. -t \in Int
  OBVIOUS
<1> QED
  BY <1>1, <1>2 DEF Floor, Ceil

(* What comparing with a number means for integers.                        *)
LEMMA ComparesHolds ==
  ASSUME NEW op \in AcceptedOps, NEW value \in Arguments,
         value.type \in {"INTEGER", "FLOAT"}, ~Rounded(value),
         NEW v \in Int64, NEW exact \in BOOLEAN, exact <=> 2 * v = value.twice,
         op \in {"GE", "GT"} => value.twice <= 2 * v /\ 2 * v < value.twice + 2,
         op \in {"LE", "LT", "EQ"} => 2 * v <= value.twice /\ value.twice < 2 * v + 2
  PROVE  \A x \in Int64 :
           /\ Holds(op, x, value) => Compares(op, v, exact, x)
           /\ ~Extreme(op, value) /\ Compares(op, v, exact, x) => Holds(op, x, value)
<1> USE Integers64, ArgumentTypes DEF Int64
<1> SUFFICES ASSUME NEW x \in Int64
             PROVE  /\ Holds(op, x, value) => Compares(op, v, exact, x)
                    /\ ~Extreme(op, value) /\ Compares(op, v, exact, x) => Holds(op, x, value)
  OBVIOUS
<1>0. value.twice \in Int
  OBVIOUS
<1>1. CASE op = "EQ"
  <2>1. Holds(op, x, value) <=> 2 * x = value.twice
    BY <1>1 DEF Holds
  <2>2. Compares(op, v, exact, x) <=> exact /\ x = v
    BY <1>1 DEF Compares
  <2> QED
    BY <1>0, <1>1, <2>1, <2>2
<1>2. CASE op = "GE"
  <2>1. Holds(op, x, value) <=> 2 * x >= value.twice
    BY <1>2 DEF Holds
  <2>2. Compares(op, v, exact, x) <=> v <= x
    BY <1>2 DEF Compares, Above
  <2> QED
    BY <1>0, <1>2, <2>1, <2>2
<1>3. CASE op = "GT"
  <2>1. Holds(op, x, value) <=> 2 * x > value.twice
    BY <1>3 DEF Holds
  <2>2. Compares(op, v, exact, x) <=> IF exact /\ v < LARGEST THEN v < x ELSE v <= x
    BY <1>3 DEF Compares, Above
  <2> QED
    BY <1>0, <1>3, <2>1, <2>2 DEF Extreme
<1>4. CASE op = "LE"
  <2>1. Holds(op, x, value) <=> 2 * x <= value.twice
    BY <1>4 DEF Holds
  <2>2. Compares(op, v, exact, x) <=> x <= v
    BY <1>4 DEF Compares, Below
  <2> QED
    BY <1>0, <1>4, <2>1, <2>2
<1>5. CASE op = "LT"
  <2>1. Holds(op, x, value) <=> 2 * x < value.twice
    BY <1>5 DEF Holds
  <2>2. Compares(op, v, exact, x) <=> IF exact /\ v > SMALLEST THEN x < v ELSE x <= v
    BY <1>5 DEF Compares, Below
  <2> QED
    BY <1>0, <1>5, <2>1, <2>2 DEF Extreme
<1> QED
  BY <1>1, <1>2, <1>3, <1>4, <1>5 DEF AcceptedOps

(* The cases of intarrayConstrainCursor().                                 *)
Zero(cur) == [cur EXCEPT !.mode = ZEROSET]
Small(value) == value.twice < 2 * SMALLEST
Large(value) == value.twice > 2 * (LARGEST + 1)

LEMMA ConstrainCases ==
  ASSUME NEW op, NEW value, NEW cur
  PROVE  /\ value.type = "TEXT" =>
              ConstrainCursor(op, value, cur) = {IF "UPPER" \in Opbits(op) THEN cur ELSE Zero(cur)}
         /\ value.type = "FLOAT" /\ Large(value) /\ ~Small(value)
              /\ value.twice \notin 2 * SMALLEST .. 2 * (LARGEST + 1) =>
              ConstrainCursor(op, value, cur) = {IF "UPPER" \in Opbits(op) THEN cur ELSE Zero(cur)}
         /\ value.type = "FLOAT" /\ Small(value) /\ ~Large(value)
              /\ value.twice \notin 2 * SMALLEST .. 2 * (LARGEST + 1) =>
              ConstrainCursor(op, value, cur) = {IF "LOWER" \in Opbits(op) THEN cur ELSE Zero(cur)}
         /\ value.type = "INTEGER" =>
              ConstrainCursor(op, value, cur) = {Boundary(op, cur, value.twice \div 2, TRUE)}
         /\ value.type \in {"BLOB", "NULL"} => ConstrainCursor(op, value, cur) = {Zero(cur)}
<1>1. CASE value.type = "TEXT"
  BY <1>1, Zenon DEF ConstrainCursor, Zero
<1>2. CASE value.type = "FLOAT"
  BY <1>2, Zenon DEF ConstrainCursor, Zero, Small, Large
<1>3. CASE value.type = "INTEGER"
  BY <1>3, Zenon DEF ConstrainCursor
<1>4. CASE value.type \in {"BLOB", "NULL"}
  BY <1>4, Zenon DEF ConstrainCursor, Zero
<1> QED
  BY <1>1, <1>2, <1>3, <1>4, Zenon

LEMMA ConstrainFloat ==
  ASSUME NEW op, NEW value, NEW cur, value.type = "FLOAT", ~Small(value), ~Large(value),
         value.twice \in 2 * SMALLEST .. 2 * (LARGEST + 1),
         NEW c \in ConstrainCursor(op, value, cur)
  PROVE  \E v \in Cast(op, value.twice) : c = Boundary(op, cur, v, 2 * Double(v) = value.twice)
BY Zenon DEF ConstrainCursor, Small, Large

LEMMA OpbitsOf ==
  ASSUME NEW op \in AcceptedOps
  PROVE  /\ "UPPER" \in Opbits(op) <=> op \in {"LE", "LT"}
         /\ "LOWER" \in Opbits(op) <=> op \in {"GE", "GT"}
BY DEF Opbits, AcceptedOps

LEMMA ZeroCursor ==
  ASSUME NEW cur \in Cursor
  PROVE  Zero(cur) \in Cursor /\ Zero(cur).mode = ZEROSET
         /\ Zero(cur).i = cur.i /\ Zero(cur).uniqueLeft = cur.uniqueLeft
BY DEF Zero, Cursor

(* The integers to which a double is cast, if it has no fraction.          *)
LEMMA CastOf ==
  ASSUME NEW op \in AcceptedOps, NEW value \in Arguments, value.type = "FLOAT",
         ~Small(value), ~Large(value), NEW v \in Cast(op, value.twice)
  PROVE  /\ v \in Int64
         /\ ~Rounded(value) =>
              /\ 2 * Double(v) = value.twice <=> 2 * v = value.twice
              /\ op \in {"GE", "GT"} => value.twice <= 2 * v /\ 2 * v < value.twice + 2
              /\ op \in {"LE", "LT", "EQ"} => 2 * v <= value.twice /\ value.twice < 2 * v + 2
<1> USE Integers64, ArgumentTypes
<1> DEFINE t == value.twice
           w == IF "LOWER" \in Opbits(op) THEN Ceil(t) ELSE Floor(t)
<1>1. t \in Int /\ 2 * SMALLEST <= t /\ t <= 2 * (LARGEST + 1)
      /\ (~Rounded(value) => t < 2 * LARGEST)
  BY DEF Small, Large, Rounded
<1>2. w \in Int
      /\ (op \in {"GE", "GT"} => t <= 2 * w /\ 2 * w < t + 2)
      /\ (op \in {"LE", "LT", "EQ"} => 2 * w <= t /\ t < 2 * w + 2)
  BY <1>1, Halves, OpbitsOf DEF AcceptedOps
<1>3. v \in IF w > LARGEST THEN {SMALLEST, LARGEST} ELSE {w}
  BY DEF Cast
<1> HIDE DEF t, w
<1>4. SMALLEST <= w
  BY <1>1, <1>2 DEF AcceptedOps
<1>5. v \in Int64
  BY <1>2, <1>3, <1>4 DEF Int64
<1>6. ASSUME ~Rounded(value) PROVE v = w
  BY <1>1, <1>2, <1>3, <1>6 DEF AcceptedOps
<1>7. ASSUME ~Rounded(value) PROVE 2 * Double(v) = t <=> 2 * v = t
  BY <1>1, <1>5, <1>7 DEF Double, Int64
<1> QED
  BY <1>2, <1>5, <1>6, <1>7 DEF t

(* One constraint: the cursor lets through what let pass before, and       *)
(* satisfies the constraint.                                               *)
Narrows(cur, c, op, value) ==
  /\ c \in Cursor /\ c.mode \in {ZEROSET, cur.mode}
  /\ c.i = cur.i /\ c.uniqueLeft = cur.uniqueLeft
  /\ ~Rounded(value) /\ ~BlobBelow(op, value) =>
       \A x \in Int64 :
         /\ Admits(cur, x) /\ Holds(op, x, value) => Admits(c, x)
         /\ ~Extreme(op, value) /\ Admits(c, x) => Admits(cur, x) /\ Holds(op, x, value)

LEMMA UnchangedNarrows ==
  ASSUME NEW op, NEW value, NEW cur \in Cursor,
         ~BlobBelow(op, value) => \A x \in Int64 : Holds(op, x, value)
  PROVE  Narrows(cur, cur, op, value)
BY DEF Narrows

LEMMA ZeroNarrows ==
  ASSUME NEW op, NEW value, NEW cur \in Cursor,
         ~BlobBelow(op, value) => \A x \in Int64 : ~Holds(op, x, value)
  PROVE  Narrows(cur, Zero(cur), op, value)
BY ZeroCursor DEF Narrows, Admits

LEMMA BoundaryNarrows ==
  ASSUME NEW op \in AcceptedOps, NEW value \in Arguments, NEW cur \in Cursor,
         cur.mode # ZEROSET, value.type \in {"INTEGER", "FLOAT"}, NEW v \in Int64,
         NEW exact \in BOOLEAN,
         ~Rounded(value) =>
           /\ exact <=> 2 * v = value.twice
           /\ op \in {"GE", "GT"} => value.twice <= 2 * v /\ 2 * v < value.twice + 2
           /\ op \in {"LE", "LT", "EQ"} => 2 * v <= value.twice /\ value.twice < 2 * v + 2
  PROVE  Narrows(cur, Boundary(op, cur, v, exact), op, value)
BY BoundaryAdmits, ComparesHolds DEF Narrows

LEMMA ConstrainNarrows ==
  ASSUME NEW op \in AcceptedOps, NEW value \in Arguments, NEW cur \in Cursor,
         cur.mode # ZEROSET, NEW c \in ConstrainCursor(op, value, cur)
  PROVE  Narrows(cur, c, op, value)
<1> USE Integers64, ArgumentTypes
<1>1. CASE value.type = "TEXT"
  <2>1. \A x \in Int64 : Holds(op, x, value) <=> op \in {"LT", "LE"}
    BY <1>1, Zenon DEF Holds
  <2>2. c = IF "UPPER" \in Opbits(op) THEN cur ELSE Zero(cur)
    <3>1. ConstrainCursor(op, value, cur) = {IF "UPPER" \in Opbits(op) THEN cur ELSE Zero(cur)}
      BY <1>1, ConstrainCases, Zenon
    <3> QED
      BY <3>1
  <2> QED
    BY <2>1, <2>2, OpbitsOf, UnchangedNarrows, ZeroNarrows
<1>2. CASE value.type \in {"BLOB", "NULL"}
  <2>1. ~BlobBelow(op, value) => \A x \in Int64 : ~Holds(op, x, value)
    <3>1. CASE value.type = "NULL"
      BY <3>1, Zenon DEF Holds
    <3>2. CASE value.type = "BLOB"
      <4>1. \A x \in Int64 : Holds(op, x, value) <=> op \in {"LT", "LE"}
        BY <3>2, Zenon DEF Holds
      <4> QED
        BY <3>2, <4>1 DEF BlobBelow
    <3> QED
      BY <1>2, <3>1, <3>2
  <2>2. c = Zero(cur)
    <3>1. ConstrainCursor(op, value, cur) = {Zero(cur)}
      BY <1>2, ConstrainCases, Zenon
    <3> QED
      BY <3>1
  <2> QED
    BY <2>1, <2>2, ZeroNarrows
<1>3. CASE value.type = "INTEGER"
  <2>1. PICK v \in Int64 : value.twice = 2 * v
    BY <1>3
  <2>2. value.twice \div 2 = v
    BY <2>1, Halves DEF Int64, Floor
  <2>3. c = Boundary(op, cur, v, TRUE)
    <3>1. ConstrainCursor(op, value, cur) = {Boundary(op, cur, value.twice \div 2, TRUE)}
      BY <1>3, ConstrainCases, Zenon
    <3> QED
      BY <2>2, <3>1
  <2>4. TRUE <=> 2 * v = value.twice
    BY <2>1
  <2>5. /\ op \in {"GE", "GT"} => value.twice <= 2 * v /\ 2 * v < value.twice + 2
        /\ op \in {"LE", "LT", "EQ"} => 2 * v <= value.twice /\ value.twice < 2 * v + 2
    BY <2>1 DEF Int64
  <2>6. Narrows(cur, Boundary(op, cur, v, TRUE), op, value)
    BY <1>3, <2>4, <2>5, BoundaryNarrows
  <2> QED
    BY <2>3, <2>6
<1>4. CASE value.type = "FLOAT"
  <2>0. value.twice \in Int
    OBVIOUS
  <2>1. \A x \in Int64 :
          Holds(op, x, value) <=> \/ op = "EQ" /\ 2 * x = value.twice
                                  \/ op = "GE" /\ 2 * x >= value.twice
                                  \/ op = "GT" /\ 2 * x > value.twice
                                  \/ op = "LE" /\ 2 * x <= value.twice
                                  \/ op = "LT" /\ 2 * x < value.twice
    BY <1>4 DEF Holds, AcceptedOps
  <2>2. CASE Large(value)
    <3>1. c = IF "UPPER" \in Opbits(op) THEN cur ELSE Zero(cur)
      <4>1. ConstrainCursor(op, value, cur) = {IF "UPPER" \in Opbits(op) THEN cur ELSE Zero(cur)}
        <5>1. ~Small(value) /\ value.twice \notin 2 * SMALLEST .. 2 * (LARGEST + 1)
          BY <2>0, <2>2 DEF Large, Small
        <5> QED
          BY <1>4, <2>2, <5>1, ConstrainCases, Zenon
      <4> QED
        BY <4>1
    <3>2. \A x \in Int64 : Holds(op, x, value) <=> op \in {"LT", "LE"}
      BY <2>0, <2>1, <2>2 DEF Large, Int64, AcceptedOps
    <3> QED
      BY <3>1, <3>2, OpbitsOf, UnchangedNarrows, ZeroNarrows
  <2>3. CASE Small(value)
    <3>1. c = IF "LOWER" \in Opbits(op) THEN cur ELSE Zero(cur)
      <4>1. ConstrainCursor(op, value, cur) = {IF "LOWER" \in Opbits(op) THEN cur ELSE Zero(cur)}
        <5>1. ~Large(value) /\ value.twice \notin 2 * SMALLEST .. 2 * (LARGEST + 1)
          BY <2>0, <2>3 DEF Large, Small
        <5> QED
          BY <1>4, <2>3, <5>1, ConstrainCases, Zenon
      <4> QED
        BY <4>1
    <3>2. \A x \in Int64 : Holds(op, x, value) <=> op \in {"GT", "GE"}
      BY <2>0, <2>1, <2>3 DEF Small, Int64, AcceptedOps
    <3> QED
      BY <3>1, <3>2, OpbitsOf, UnchangedNarrows, ZeroNarrows
  <2>4. CASE ~Large(value) /\ ~Small(value)
    <3>1. PICK v \in Cast(op, value.twice) : c = Boundary(op, cur, v, 2 * Double(v) = value.twice)
      <4>1. value.twice \in 2 * SMALLEST .. 2 * (LARGEST + 1)
        BY <2>0, <2>4 DEF Large, Small
      <4> QED
        BY <1>4, <2>4, <4>1, ConstrainFloat
    <3> DEFINE exact == 2 * Double(v) = value.twice
    <3>2. exact \in BOOLEAN
      OBVIOUS
    <3>3. /\ v \in Int64
          /\ ~Rounded(value) =>
               /\ exact <=> 2 * v = value.twice
               /\ op \in {"GE", "GT"} => value.twice <= 2 * v /\ 2 * v < value.twice + 2
               /\ op \in {"LE", "LT", "EQ"} => 2 * v <= value.twice /\ value.twice < 2 * v + 2
      BY <1>4, <2>4, CastOf
    <3>4. c = Boundary(op, cur, v, exact)
      BY <3>1
    <3> HIDE DEF exact
    <3> QED
      BY <1>4, <3>2, <3>3, <3>4, BoundaryNarrows
  <2> QED
    BY <2>2, <2>3, <2>4
<1> QED
  BY <1>1, <1>2, <1>3, <1>4

(* All constraints of a scan.                                              *)
PlanTypeOK ==
  /\ plan.mode \in {SCAN, ROWID, VALUE}
  /\ plan.ops \in {<<>>} \union {<<o>> : o \in AcceptedOps}
                         \union (AcceptedOps \X AcceptedOps)
  /\ plan.mode = SCAN => plan.ops = <<>>

Meets(values, x) == \A p \in DOMAIN plan.ops : Holds(plan.ops[p], x, values[p])
Reliable(values) ==
  \A p \in DOMAIN plan.ops : ~Rounded(values[p]) /\ ~BlobBelow(plan.ops[p], values[p])
Moderate(values) == \A p \in DOMAIN plan.ops : ~Extreme(plan.ops[p], values[p])

(* The cursor lets through what satisfies all of them.                     *)
Selects(c, values) ==
  Reliable(values) =>
    \A x \in Int64 : /\ Meets(values, x) => Admits(c, x)
                     /\ Moderate(values) /\ Admits(c, x) => Meets(values, x)

LEMMA StartCursor ==
  ASSUME PlanTypeOK
  PROVE  LET start == [NewCursor EXCEPT !.mode = plan.mode] IN
         /\ start \in Cursor /\ start.mode = plan.mode /\ start.i = 0
         /\ start.uniqueLeft = -1 /\ ~start.hasMin /\ ~start.hasMax
         /\ \A x \in Int64 : Admits(start, x)
<1> DEFINE start == [NewCursor EXCEPT !.mode = plan.mode]
<1>0. 0 \in Int64 /\ SCAN = 0 /\ 0 \in Int /\ -1 \in Int
  BY Integers64 DEF Int64, SCAN
<1>1. NewCursor \in Cursor
  BY <1>0, Zenon DEF NewCursor, Cursor
<1>2. /\ NewCursor.i = 0 /\ NewCursor.uniqueLeft = -1
      /\ ~NewCursor.hasMin /\ ~NewCursor.hasMax
  BY Zenon DEF NewCursor
<1>3. /\ start \in Cursor /\ start.mode = plan.mode /\ start.i = 0 /\ start.uniqueLeft = -1
      /\ ~start.hasMin /\ ~start.hasMax
  BY <1>1, <1>2 DEF Cursor, PlanTypeOK
<1>4. start.mode # ZEROSET
  BY <1>3 DEF PlanTypeOK, ZEROSET, SCAN, ROWID, VALUE
<1> QED
  BY <1>3, <1>4 DEF Admits, InBounds

LEMMA ConstrainedSelects ==
  ASSUME PlanTypeOK, NEW values \in [1 .. Len(plan.ops) -> Arguments],
         NEW c \in Constrained(plan.ops, values)
  PROVE  /\ c \in Cursor /\ c.mode \in {ZEROSET, plan.mode} /\ c.i = 0 /\ c.uniqueLeft = -1
         /\ plan.ops = <<>> => ~c.hasMin /\ ~c.hasMax /\ c.mode = plan.mode
         /\ Selects(c, values)
<1> DEFINE start == [NewCursor EXCEPT !.mode = plan.mode]
<1>1. /\ start \in Cursor /\ start.mode = plan.mode /\ start.i = 0
      /\ start.uniqueLeft = -1 /\ ~start.hasMin /\ ~start.hasMax
      /\ \A x \in Int64 : Admits(start, x)
  BY StartCursor
<1>2. start.mode # ZEROSET
  BY <1>1 DEF PlanTypeOK, ZEROSET, SCAN, ROWID, VALUE
<1> HIDE DEF start
<1>3. CASE plan.ops = <<>>
  <2>1. c = start
    BY <1>3 DEF Constrained, start
  <2>2. DOMAIN plan.ops = {}
    BY <1>3
  <2> QED
    BY <1>1, <2>1, <2>2 DEF Selects, Meets
<1>4. ASSUME NEW o \in AcceptedOps, plan.ops = <<o>>
      PROVE  /\ c \in Cursor /\ c.mode \in {ZEROSET, plan.mode}
             /\ c.i = 0 /\ c.uniqueLeft = -1 /\ Selects(c, values)
  <2>1. DOMAIN plan.ops = {1} /\ plan.ops[1] = o /\ Len(plan.ops) = 1 /\ plan.ops # <<>>
    BY <1>4
  <2>2. values[1] \in Arguments
    BY <2>1
  <2>3. c \in ConstrainCursor(o, values[1], start)
    BY <2>1 DEF Constrained, start
  <2>4. Narrows(start, c, o, values[1])
    BY <1>1, <1>2, <2>2, <2>3, ConstrainNarrows
  <2> QED
    BY <1>1, <2>1, <2>4 DEF Narrows, Selects, Meets, Reliable, Moderate
<1>5. ASSUME NEW o1 \in AcceptedOps, NEW o2 \in AcceptedOps, plan.ops = <<o1, o2>>
      PROVE  /\ c \in Cursor /\ c.mode \in {ZEROSET, plan.mode}
             /\ c.i = 0 /\ c.uniqueLeft = -1 /\ Selects(c, values)
  <2>1. /\ DOMAIN plan.ops = {1, 2} /\ plan.ops[1] = o1 /\ plan.ops[2] = o2
        /\ Len(plan.ops) = 2 /\ plan.ops # <<>>
    BY <1>5
  <2>2. values[1] \in Arguments /\ values[2] \in Arguments
    BY <2>1
  <2>3. PICK cur \in ConstrainCursor(o1, values[1], start) :
          c \in IF cur.mode = ZEROSET THEN {cur} ELSE ConstrainCursor(o2, values[2], cur)
    BY <2>1 DEF Constrained, start
  <2>4. Narrows(start, cur, o1, values[1])
    BY <1>1, <1>2, <2>2, ConstrainNarrows
  <2>5. CASE cur.mode = ZEROSET
    <3>1. c = cur
      BY <2>3, <2>5
    <3>2. \A x \in Int64 : ~Admits(c, x)
      BY <2>5, <3>1 DEF Admits
    <3> QED
      BY <1>1, <2>1, <2>4, <3>1, <3>2 DEF Narrows, Selects, Meets, Reliable, Moderate
  <2>6. CASE cur.mode # ZEROSET
    <3>1. cur \in Cursor
      BY <2>4 DEF Narrows
    <3>2. Narrows(cur, c, o2, values[2])
      BY <2>2, <2>3, <2>6, <3>1, ConstrainNarrows
    <3> QED
      BY <1>1, <2>1, <2>4, <3>2 DEF Narrows, Selects, Meets, Reliable, Moderate
  <2> QED
    BY <2>5, <2>6
<1>6. \/ plan.ops = <<>>
      \/ \E o \in AcceptedOps : plan.ops = <<o>>
      \/ \E o1, o2 \in AcceptedOps : plan.ops = <<o1, o2>>
  BY DEF PlanTypeOK
<1>7. (\E o \in AcceptedOps : plan.ops = <<o>>) => plan.ops # <<>>
  OBVIOUS
<1>8. (\E o1, o2 \in AcceptedOps : plan.ops = <<o1, o2>>) => plan.ops # <<>>
  OBVIOUS
<1> QED
  BY <1>3, <1>4, <1>5, <1>6, <1>7, <1>8

-----------------------------------------------------------------------------
(***************************************************************************)
(* intarrayNextMatch().                                                    *)
(***************************************************************************)
LEMMA LeastIsLeast ==
  ASSUME NEW S, S \subseteq Nat, S # {}
  PROVE  Least(S) \in S /\ \A j \in S : Least(S) <= j
<1>1. PICK x \in S : \A y \in S : ~(<<y, x>> \in OpToRel(<, Nat))
  BY WFMin, NatLessThanWellFounded
<1>2. ASSUME NEW y \in S PROVE x <= y
  <2>1. y \in Nat /\ x \in Nat
    OBVIOUS
  <2>2. ~(y < x)
    BY <1>1, <2>1 DEF OpToRel
  <2> QED
    BY <2>1, <2>2
<1> QED
  BY <1>2 DEF Least

LEMMA ContentTells ==
  ASSUME arr \in Contents
  PROVE  /\ arr.n \in Nat /\ arr.n <= INT_MAX
         /\ \A k \in 0 .. arr.n - 1 : arr.a[k] \in Int64
         /\ arr.ordered \in BOOLEAN /\ arr.unique \in BOOLEAN
         /\ arr.ordered => \A i, j \in 0 .. arr.n - 1 : i <= j => arr.a[i] <= arr.a[j]
         /\ arr.unique => \A i, j \in 0 .. arr.n - 1 : arr.a[i] = arr.a[j] => i = j
<1>1. IsContent(arr)
  BY ScanAssumption
<1> QED
  BY <1>1, Integers64 DEF IsContent

(* What the constraints are about.                                         *)
Rows == 0 .. arr.n - 1
Value(k) == IF plan.mode = ROWID THEN k ELSE arr.a[k]

Filters(cur) ==
  /\ cur \in Cursor /\ cur.mode \in {ZEROSET, plan.mode}
  /\ cur.uniqueLeft \in -1 .. INT_MAX
  /\ plan.mode = SCAN => ~cur.hasMin /\ ~cur.hasMax

SameBounds(c, cur) ==
  /\ c.mode = cur.mode
  /\ c.min = cur.min /\ c.hasMin = cur.hasMin
  /\ c.max = cur.max /\ c.hasMax = cur.hasMax

Counts(cur) == arr.unique /\ ~arr.ordered /\ cur.mode = VALUE /\ cur.uniqueLeft >= 0
Exhausted(cur, start) ==
  Counts(cur) /\ cur.uniqueLeft = 0 => \A k \in start .. arr.n - 1 : ~InBounds(cur, arr.a[k])

(* The lower bound, which the code takes for granted.                      *)
AboveMin(cur, start) ==
  /\ cur.mode = ROWID /\ cur.hasMin => cur.min <= start
  /\ cur.mode = VALUE /\ arr.ordered /\ cur.hasMin => cur.min <= arr.a[start]

LEMMA SameAdmits ==
  ASSUME NEW c, NEW cur, SameBounds(c, cur)
  PROVE  \A x : (Admits(c, x) <=> Admits(cur, x)) /\ (InBounds(c, x) <=> InBounds(cur, x))
BY DEF SameBounds, Admits, InBounds

NextTells(c, cur, start) ==
  /\ Filters(c) /\ SameBounds(c, cur)
  /\ c.i \in 0 .. arr.n
  /\ c.i < arr.n => start <= c.i /\ cur.mode # ZEROSET
  /\ \A k \in start .. c.i - 1 : ~Admits(cur, Value(k))
  /\ c.i < arr.n /\ AboveMin(cur, start) => Admits(cur, Value(c.i))
  /\ c.i < arr.n /\ Counts(cur) =>
       cur.uniqueLeft > 0 /\ c.uniqueLeft = cur.uniqueLeft - 1 /\ InBounds(cur, arr.a[c.i])
  /\ c.uniqueLeft >= 0 => cur.uniqueLeft >= 0

LEMMA NextMatchTells ==
  ASSUME arr \in Contents, PlanTypeOK, NEW cur, Filters(cur), NEW start \in Nat,
         Exhausted(cur, start)
  PROVE  NextTells(NextMatch(cur, start), cur, start)
<1> USE ContentTells, Integers64
<1> DEFINE row(k) == [cur EXCEPT !.i = k]
<1>0. /\ cur \in Cursor /\ cur.uniqueLeft \in -1 .. INT_MAX
      /\ cur.hasMin \in BOOLEAN /\ cur.hasMax \in BOOLEAN
      /\ cur.min \in Int64 /\ cur.max \in Int64
  BY DEF Filters, Cursor
<1>1. ASSUME NEW k \in 0 .. arr.n
      PROVE  /\ Filters(row(k)) /\ SameBounds(row(k), cur) /\ row(k).i = k
             /\ row(k).uniqueLeft = cur.uniqueLeft
  BY <1>0 DEF Filters, SameBounds, Cursor
<1>2. \A k \in Rows : Value(k) \in Int64
  BY DEF Rows, Value, Int64
<1> HIDE DEF row
<1>3. ASSUME start >= arr.n \/ cur.mode = ZEROSET
      PROVE  NextTells(NextMatch(cur, start), cur, start)
  <2>1. NextMatch(cur, start) = row(arr.n)
    BY <1>3 DEF NextMatch, row
  <2>2. \A k \in start .. arr.n - 1 : ~Admits(cur, Value(k))
    BY <1>3 DEF Admits
  <2> QED
    BY <1>1, <2>1, <2>2 DEF NextTells
<1>4. ASSUME start < arr.n, cur.mode = SCAN
      PROVE  NextTells(NextMatch(cur, start), cur, start)
  <2>1. NextMatch(cur, start) = row(start)
    BY <1>4 DEF NextMatch, row, ZEROSET, SCAN, ROWID, VALUE
  <2>2. cur.mode # ZEROSET /\ cur.mode # VALUE /\ \A x : Admits(cur, x)
    BY <1>4 DEF Filters, Admits, InBounds, ZEROSET, SCAN, VALUE
  <2> QED
    BY <1>1, <1>4, <2>1, <2>2 DEF NextTells, Counts
<1>5. ASSUME start < arr.n, cur.mode = ROWID
      PROVE  NextTells(NextMatch(cur, start), cur, start)
  <2>1. cur.mode # ZEROSET /\ cur.mode # VALUE /\ \A k : Value(k) = k
    BY <1>5 DEF Filters, ZEROSET, VALUE, ROWID, Value
  <2>2. NextMatch(cur, start) =
          row(IF cur.hasMax /\ start > cur.max THEN arr.n ELSE start)
    BY <1>5 DEF NextMatch, row, ZEROSET, SCAN, ROWID, VALUE
  <2>3. CASE cur.hasMax /\ start > cur.max
    <3>1. \A k \in start .. arr.n - 1 : ~Admits(cur, Value(k))
      BY <1>0, <2>1, <2>3 DEF Admits, InBounds, Int64
    <3> QED
      BY <1>1, <2>1, <2>2, <2>3, <3>1 DEF NextTells
  <2>4. CASE ~(cur.hasMax /\ start > cur.max)
    <3>1. AboveMin(cur, start) => Admits(cur, Value(start))
      BY <1>0, <1>5, <2>1, <2>4 DEF Admits, InBounds, Int64, AboveMin
    <3> QED
      BY <1>1, <1>5, <2>1, <2>2, <2>4, <3>1 DEF NextTells, Counts
  <2> QED
    BY <2>3, <2>4
<1>6. ASSUME start < arr.n, cur.mode = VALUE, arr.ordered
      PROVE  NextTells(NextMatch(cur, start), cur, start)
  <2>1. cur.mode # ZEROSET /\ \A k : Value(k) = arr.a[k]
    BY <1>6 DEF Filters, ZEROSET, VALUE, ROWID, Value
  <2>2. NextMatch(cur, start) =
          row(IF cur.hasMax /\ arr.a[start] > cur.max THEN arr.n ELSE start)
    BY <1>6 DEF NextMatch, row, ZEROSET, SCAN, ROWID, VALUE
  <2>3. CASE cur.hasMax /\ arr.a[start] > cur.max
    <3>1. \A k \in start .. arr.n - 1 : ~Admits(cur, Value(k))
      BY <1>0, <1>6, <2>1, <2>3 DEF Admits, InBounds, Int64
    <3> QED
      BY <1>1, <2>1, <2>2, <2>3, <3>1 DEF NextTells
  <2>4. CASE ~(cur.hasMax /\ arr.a[start] > cur.max)
    <3>1. AboveMin(cur, start) => Admits(cur, Value(start))
      BY <1>0, <1>6, <2>1, <2>4 DEF Admits, InBounds, Int64, AboveMin
    <3> QED
      BY <1>1, <1>6, <2>1, <2>2, <2>4, <3>1 DEF NextTells, Counts
  <2> QED
    BY <2>3, <2>4
<1>7. ASSUME start < arr.n, cur.mode = VALUE, ~arr.ordered
      PROVE  NextTells(NextMatch(cur, start), cur, start)
  <2> DEFINE matches == {k \in start .. arr.n - 1 : InBounds(cur, arr.a[k])}
             done == matches = {} \/ (arr.unique /\ cur.uniqueLeft = 0)
             left == IF arr.unique /\ cur.uniqueLeft > 0 THEN cur.uniqueLeft - 1
                                                         ELSE cur.uniqueLeft
  <2>1. cur.mode # ZEROSET /\ \A k : Value(k) = arr.a[k]
    BY <1>7 DEF Filters, ZEROSET, VALUE, ROWID, Value
  <2>2. NextMatch(cur, start) =
          IF done THEN row(arr.n)
          ELSE [row(Least(matches)) EXCEPT !.uniqueLeft =
                  IF arr.unique /\ @ > 0 THEN @ - 1 ELSE @]
    BY <1>7 DEF NextMatch, row, ZEROSET, SCAN, ROWID, VALUE
  <2>3. CASE done
    <3>1. \A k \in start .. arr.n - 1 : ~Admits(cur, Value(k))
      BY <1>7, <2>1, <2>3 DEF Admits, Exhausted, Counts
    <3> QED
      BY <1>1, <2>2, <2>3, <3>1 DEF NextTells
  <2>4. CASE ~done
    <3> DEFINE k == Least(matches)
               r == [row(k) EXCEPT !.uniqueLeft = left]
    <3>1. k \in matches /\ \A j \in matches : k <= j
      <4>1. matches \subseteq Nat /\ matches # {}
        BY <2>4
      <4> HIDE DEF matches
      <4> QED
        BY <4>1, LeastIsLeast
    <3>2. k \in start .. arr.n - 1 /\ InBounds(cur, arr.a[k])
          /\ \A j \in start .. k - 1 : ~InBounds(cur, arr.a[j])
      BY <3>1
    <3> HIDE DEF k
    <3>3. Filters(row(k)) /\ SameBounds(row(k), cur) /\ row(k).i = k
          /\ row(k).uniqueLeft = cur.uniqueLeft
      BY <1>1, <3>2
    <3>4. NextMatch(cur, start) = r
      BY <2>2, <2>4, <3>3 DEF k
    <3>5. left \in -1 .. INT_MAX
      BY <1>0
    <3>6. Filters(r) /\ SameBounds(r, cur) /\ r.i = k /\ r.uniqueLeft = left
      BY <3>3, <3>5 DEF Filters, SameBounds, Cursor
    <3>8. left >= 0 => cur.uniqueLeft >= 0
      BY <1>0
    <3>7. Counts(cur) => cur.uniqueLeft > 0 /\ left = cur.uniqueLeft - 1
      BY <1>0, <2>4 DEF Counts
    <3> HIDE DEF r, left
    <3> QED
      BY <2>1, <3>2, <3>4, <3>6, <3>7, <3>8 DEF NextTells, Admits
  <2> QED
    BY <2>3, <2>4
<1>8. cur.mode \in {ZEROSET, SCAN, ROWID, VALUE}
  BY <1>0 DEF Cursor
<1> QED
  BY <1>3, <1>4, <1>5, <1>6, <1>7, <1>8

-----------------------------------------------------------------------------
(***************************************************************************)
(* Counting unique values: those met so far, and those that are left.      *)
(***************************************************************************)
Seen(cur, start) == {arr.a[k] : k \in {j \in 0 .. start - 1 : InBounds(cur, arr.a[j])}}

Counted(cur, start) ==
  Counts(cur) =>
    /\ cur.hasMin /\ cur.hasMax
    /\ IsFiniteSet(Seen(cur, start))
    /\ Cardinality(Seen(cur, start)) + cur.uniqueLeft = cur.max - cur.min + 1

LEMMA SeenValues ==
  ASSUME arr \in Contents, NEW cur \in Cursor, cur.hasMin, cur.hasMax,
         NEW start \in Nat, start <= arr.n
  PROVE  Seen(cur, start) \subseteq cur.min .. cur.max
<1> USE ContentTells
<1>1. cur.min \in Int /\ cur.max \in Int
  BY Integers64 DEF Cursor, Int64
<1>2. ASSUME NEW k \in 0 .. start - 1, InBounds(cur, arr.a[k])
      PROVE  arr.a[k] \in cur.min .. cur.max
  BY <1>1, <1>2, Integers64 DEF InBounds, Int64
<1> QED
  BY <1>2 DEF Seen

LEMMA CountedExhausts ==
  ASSUME arr \in Contents, NEW cur, Filters(cur), NEW start \in Nat, start <= arr.n,
         Counted(cur, start)
  PROVE  Exhausted(cur, start)
<1> USE ContentTells
<1> SUFFICES ASSUME Counts(cur), cur.uniqueLeft = 0,
                    NEW k \in start .. arr.n - 1, InBounds(cur, arr.a[k])
             PROVE  FALSE
  BY DEF Exhausted
<1>1. cur \in Cursor /\ cur.hasMin /\ cur.hasMax
  BY DEF Filters, Counted
<1>2. cur.min \in Int /\ cur.max \in Int
  BY <1>1, Integers64 DEF Cursor, Int64
<1>3. IsFiniteSet(Seen(cur, start)) /\ Cardinality(Seen(cur, start)) = cur.max - cur.min + 1
  <2>1. /\ IsFiniteSet(Seen(cur, start))
        /\ Cardinality(Seen(cur, start)) + cur.uniqueLeft = cur.max - cur.min + 1
    BY DEF Counted
  <2>2. Cardinality(Seen(cur, start)) \in Nat
    BY <2>1, FS_CardinalityType
  <2> QED
    BY <1>2, <2>1, <2>2
<1>4. arr.a[k] \in cur.min .. cur.max
  BY <1>1, <1>2, Integers64 DEF InBounds, Int64
<1>5. IsFiniteSet(cur.min .. cur.max) /\ Cardinality(cur.min .. cur.max) = cur.max - cur.min + 1
  <2>1. cur.min <= cur.max
    BY <1>2, <1>4
  <2>2. /\ IsFiniteSet(cur.min .. cur.max)
        /\ Cardinality(cur.min .. cur.max) =
             IF cur.min > cur.max THEN 0 ELSE cur.max - cur.min + 1
    BY <1>2, FS_Interval, Zenon
  <2> QED
    BY <1>2, <2>1, <2>2
<1>6. Seen(cur, start) \in SUBSET (cur.min .. cur.max)
  BY <1>1, SeenValues
<1>7. Seen(cur, start) = cur.min .. cur.max
  BY <1>3, <1>5, <1>6, FS_Subset
<1>8. PICK j \in 0 .. start - 1 : arr.a[j] = arr.a[k]
  BY <1>4, <1>7 DEF Seen
<1> QED
  BY <1>8 DEF Counts

LEMMA CountedNext ==
  ASSUME arr \in Contents, NEW cur, Filters(cur), NEW start \in Nat, start <= arr.n,
         Counted(cur, start), NEW c, NextTells(c, cur, start), c.i < arr.n
  PROVE  Counted(c, c.i + 1)
<1> USE ContentTells
<1> SUFFICES ASSUME Counts(c)
             PROVE  /\ c.hasMin /\ c.hasMax
                    /\ IsFiniteSet(Seen(c, c.i + 1))
                    /\ Cardinality(Seen(c, c.i + 1)) + c.uniqueLeft = c.max - c.min + 1
  BY DEF Counted
<1>1. cur \in Cursor /\ c \in Cursor /\ c.uniqueLeft \in Int /\ cur.uniqueLeft \in Int
  BY Integers64 DEF Filters, NextTells
<1>2. SameBounds(c, cur) /\ c.i \in start .. arr.n - 1
  BY <1>1 DEF NextTells, Cursor
<1>3. Counts(cur)
  BY <1>2 DEF Counts, SameBounds, NextTells
<1>4. /\ c.uniqueLeft = cur.uniqueLeft - 1 /\ InBounds(cur, arr.a[c.i])
      /\ \A k \in start .. c.i - 1 : ~InBounds(cur, arr.a[k])
  <2>1. cur.mode # ZEROSET /\ \A k : Value(k) = arr.a[k]
    BY <1>3 DEF Counts, Filters, Value, ZEROSET, VALUE, ROWID
  <2> QED
    BY <1>3, <2>1 DEF NextTells, Admits
<1>5. c.hasMin = cur.hasMin /\ c.hasMax = cur.hasMax /\ c.min = cur.min /\ c.max = cur.max
      /\ \A x : InBounds(c, x) <=> InBounds(cur, x)
  BY <1>2, SameAdmits DEF SameBounds
<1>6. Seen(c, c.i + 1) = Seen(cur, start) \cup {arr.a[c.i]}
  <2>1. {j \in 0 .. (c.i + 1) - 1 : InBounds(c, arr.a[j])} =
          {j \in 0 .. start - 1 : InBounds(cur, arr.a[j])} \cup {c.i}
    BY <1>2, <1>4, <1>5
  <2> QED
    BY <2>1, Zenon DEF Seen
<1>7. arr.a[c.i] \notin Seen(cur, start)
  BY <1>2, <1>3 DEF Seen, Counts
<1>8. /\ IsFiniteSet(Seen(cur, start)) /\ cur.hasMin /\ cur.hasMax
      /\ Cardinality(Seen(cur, start)) + cur.uniqueLeft = cur.max - cur.min + 1
  BY <1>3 DEF Counted
<1>9. /\ IsFiniteSet(Seen(c, c.i + 1))
      /\ Cardinality(Seen(c, c.i + 1)) = Cardinality(Seen(cur, start)) + 1
  BY <1>6, <1>7, <1>8, FS_AddElement
<1>10. Cardinality(Seen(cur, start)) \in Nat
  BY <1>8, FS_CardinalityType
<1>11. Cardinality(Seen(c, c.i + 1)) + c.uniqueLeft = Cardinality(Seen(cur, start)) + cur.uniqueLeft
  BY <1>1, <1>4, <1>9, <1>10
<1> QED
  BY <1>5, <1>8, <1>9, <1>11

(* Before the first value all are left.                                    *)
LEMMA ModSmall ==
  ASSUME NEW a \in Int, NEW b \in Int, 0 <= a, a < b
  PROVE  a % b = a
OBVIOUS

LEMMA UniqueLeftTells ==
  ASSUME arr \in Contents, NEW cur \in Cursor
  PROVE  /\ UniqueLeft(cur) \in -1 .. INT_MAX
         /\ UniqueLeft(cur) >= 0 /\ ~NeverTrue(cur) =>
              cur.hasMin /\ cur.hasMax /\ UniqueLeft(cur) = cur.max - cur.min + 1
<1> USE Integers64
<1> DEFINE v == cur.max - cur.min + 1
           w == Wrap64(v)
           counts == arr.unique /\ cur.mode = VALUE /\ cur.hasMin /\ cur.hasMax
                       /\ w > 0 /\ w < INT_MAX
<1>1. /\ cur.min \in Int /\ SMALLEST <= cur.min /\ cur.min <= LARGEST
      /\ cur.max \in Int /\ SMALLEST <= cur.max /\ cur.max <= LARGEST
  BY DEF Cursor, Int64
<1>2. v \in Int /\ v <= LARGEST - SMALLEST + 1
  BY <1>1
<1>3. UniqueLeft(cur) = IF counts THEN w ELSE -1
  BY DEF UniqueLeft
<1>4. w = IF v > LARGEST THEN v - (LARGEST - SMALLEST + 1) ELSE v
  BY DEF Wrap64
<1> HIDE DEF v, w
<1>5. w \in Int /\ (w > 0 => w = v)
  BY <1>2, <1>4
<1> QED
  BY <1>3, <1>5 DEF v

LEMMA CountedFirst ==
  ASSUME arr \in Contents, NEW cur \in Cursor, ~NeverTrue(cur),
         cur.uniqueLeft = UniqueLeft(cur)
  PROVE  Counted(cur, 0)
<1>1. Seen(cur, 0) = {}
  BY DEF Seen
<1>2. Cardinality(Seen(cur, 0)) = 0 /\ IsFiniteSet(Seen(cur, 0))
  BY <1>1, FS_EmptySet
<1>3. cur.min \in Int /\ cur.max \in Int
  BY Integers64 DEF Cursor, Int64
<1> QED
  BY <1>2, <1>3, UniqueLeftTells DEF Counted, Counts

-----------------------------------------------------------------------------
(***************************************************************************)
(* The inductive invariant.                                                *)
(***************************************************************************)

(* The bounds of a cursor stand for the constraints, and so for the rows w *)
(* that satisfy them, but for the deviations d.                            *)
Bounded(cur, w, d) ==
  /\ d \intersect {"rounded", "blob"} = {} => \A k \in w : Admits(cur, Value(k))
  /\ d = {} => \A k \in Rows : Admits(cur, Value(k)) => k \in w

(* Of the rows before the cursor those it lets through are in r; it is at  *)
(* one that it lets through, and has counted it.                           *)
Advanced(cur, d, r) ==
  /\ "rowid" \notin d => \A k \in 0 .. cur.i - 1 : Admits(cur, Value(k)) => k \in r
  /\ cur.i < arr.n => Counted(cur, cur.i + 1) /\ (d = {} => Admits(cur, Value(cur.i)))

(* The binary search: the first row that is not below the bound is in      *)
(* from .. to + 1.                                                         *)
Halved ==
  /\ cursor.mode = VALUE /\ cursor.hasMin /\ arr.ordered
  /\ from <= to + 1
  /\ \A k \in Rows : /\ k < from => arr.a[k] < cursor.min
                     /\ k > to => cursor.min <= arr.a[k]

ScanInv ==
  /\ TypeOK /\ PlanTypeOK
  /\ at = "closed" => /\ cursor = NewCursor /\ from = 0 /\ to = -1
                      /\ wanted = {} /\ returned = {} /\ deviates = {}
  /\ at # "closed" => Filters(cursor) /\ Bounded(cursor, wanted, deviates)
  /\ at = "search" => Halved
  /\ at = "row" => Advanced(cursor, deviates, returned)

LEMMA NextMatchAdvances ==
  ASSUME arr \in Contents, PlanTypeOK, NEW cur, Filters(cur), NEW start \in Nat,
         Counts(cur) => start <= arr.n, Counted(cur, start),
         NEW w, NEW d, NEW r, Bounded(cur, w, d),
         "rowid" \notin d => \A k \in Rows : k < start /\ Admits(cur, Value(k)) => k \in r,
         d = {} /\ start < arr.n => AboveMin(cur, start),
         NEW c, c = NextMatch(cur, start)
  PROVE  Filters(c) /\ c.i \in 0 .. arr.n /\ Bounded(c, w, d) /\ Advanced(c, d, r)
<1> USE ContentTells
<1>1. Exhausted(cur, start)
  BY CountedExhausts DEF Exhausted
<1>2. NextTells(c, cur, start)
  BY <1>1, NextMatchTells
<1>3. \A x : Admits(c, x) <=> Admits(cur, x)
  BY <1>2, SameAdmits DEF NextTells
<1>4. Bounded(c, w, d)
  BY <1>3 DEF Bounded
<1>5. Filters(c) /\ c.i \in 0 .. arr.n /\ c.i \in Int
  BY <1>2 DEF NextTells
<1>6. ASSUME "rowid" \notin d, NEW k \in 0 .. c.i - 1, Admits(c, Value(k)) PROVE k \in r
  <2>1. k \in Rows
    BY <1>5 DEF Rows
  <2>2. CASE k < start
    BY <1>3, <1>6, <2>1, <2>2
  <2>3. CASE ~(k < start)
    BY <1>2, <1>3, <1>6, <2>3 DEF NextTells
  <2> QED
    BY <2>2, <2>3
<1>7. ASSUME c.i < arr.n PROVE Counted(c, c.i + 1) /\ (d = {} => Admits(c, Value(c.i)))
  <2>1. start <= c.i /\ start < arr.n
    BY <1>2, <1>5, <1>7 DEF NextTells
  <2>2. Counted(c, c.i + 1)
    BY <1>2, <1>7, <2>1, CountedNext
  <2>3. d = {} => Admits(c, Value(c.i))
    BY <1>2, <1>3, <1>7, <2>1 DEF NextTells
  <2> QED
    BY <2>2, <2>3
<1> QED
  BY <1>4, <1>5, <1>6, <1>7 DEF Advanced

(* A step within a scan.                                                   *)
LEMMA RowStep ==
  ASSUME ScanInv, arr' = arr, plan' = plan, at' = "row",
         NEW c, cursor' = c, Filters(c), c.i \in 0 .. arr.n,
         Bounded(c, wanted', deviates'), Advanced(c, deviates', returned'),
         wanted' \subseteq Rows, returned' \subseteq Rows,
         deviates' \subseteq {"short", "extreme", "rowid", "rounded", "blob"},
         from' \in 0 .. arr.n, to' \in -1 .. arr.n - 1
  PROVE  ScanInv'
<1>1. TypeOK'
  BY DEF ScanInv, TypeOK, Filters, Cursor, Rows
<1>2. PlanTypeOK'
  BY DEF ScanInv, PlanTypeOK
<1>3. Filters(cursor)'
  BY DEF Filters
<1>4. Bounded(cursor, wanted, deviates)'
  BY DEF Bounded, Rows, Value
<1>5. Counted(c, c.i + 1) => Counted(cursor, cursor.i + 1)'
  BY Zenon DEF Counted, Counts, Seen
<1>6. Advanced(cursor, deviates, returned)'
  BY <1>5 DEF Advanced, Value
<1> QED
  BY <1>1, <1>2, <1>3, <1>4, <1>6 DEF ScanInv

-----------------------------------------------------------------------------
(***************************************************************************)
(* The steps.                                                              *)
(***************************************************************************)
LEMMA ConstrainedBounds ==
  ASSUME arr \in Contents, PlanTypeOK, NEW values \in [1 .. Len(plan.ops) -> Arguments],
         NEW cur \in Constrained(plan.ops, values)
  PROVE  Bounded(cur, Wanted(values), Deviations(values, cur))
<1> USE ContentTells
<1>1. Selects(cur, values)
  BY ConstrainedSelects
<1>2. \A k \in Rows : Value(k) \in Int64
  BY Integers64 DEF Rows, Value, Int64
<1>3. Wanted(values) = {k \in Rows : Meets(values, Value(k))}
  BY Zenon DEF Wanted, Rows, Meets, Value
<1>4. Deviations(values, cur) \intersect {"rounded", "blob"} = {} => Reliable(values)
  BY DEF Deviations, Reliable, Rounded, BlobBelow
<1>5. Deviations(values, cur) = {} => Moderate(values)
  BY DEF Deviations, Moderate, Extreme
<1> HIDE DEF Deviations
<1> QED
  BY <1>1, <1>2, <1>3, <1>4, <1>5 DEF Selects, Bounded

(* The first row, or the one at which a lower bound of row numbers is.     *)
LEMMA StartTells ==
  ASSUME arr \in Contents, PlanTypeOK, NEW values, NEW cur, Filters(cur), ~NeedsSearch(cur),
         NEW d, d = Deviations(values, cur)
  PROVE  /\ StartIndex(cur) \in Nat
         /\ cur.mode # ROWID => StartIndex(cur) = 0
         /\ "rowid" \notin d =>
              \A k \in Rows : k < StartIndex(cur) => ~Admits(cur, Value(k))
         /\ d = {} => AboveMin(cur, StartIndex(cur))
<1> USE ContentTells, Integers64
<1>1. cur.min \in Int
  BY DEF Filters, Cursor, Int64
<1>2. ToInt(cur.min) \in Int
      /\ (cur.min \in INT_MIN .. INT_MAX => ToInt(cur.min) = cur.min)
  <2> DEFINE m == INT_MAX - INT_MIN + 1
             a == cur.min - INT_MIN
  <2>1. m \in Int /\ m > 0 /\ a \in Int
    BY <1>1
  <2>2. a % m \in Int
    BY <2>1
  <2>3. cur.min \in INT_MIN .. INT_MAX => a % m = a
    <3>1. cur.min \in INT_MIN .. INT_MAX => 0 <= a /\ a < m
      BY <1>1
    <3> HIDE DEF a, m
    <3> QED
      BY <2>1, <3>1, ModSmall
  <2>4. ToInt(cur.min) = (a % m) + INT_MIN
    BY DEF ToInt
  <2> QED
    BY <1>1, <2>2, <2>3, <2>4
<1>3. StartIndex(cur) = IF cur.mode = ROWID /\ cur.hasMin /\ ToInt(cur.min) > 0
                        THEN ToInt(cur.min) ELSE 0
  BY DEF StartIndex
<1>4. StartIndex(cur) \in Nat
  BY <1>2, <1>3
<1>5. "rowid" \notin d => (cur.mode = ROWID /\ cur.hasMin => cur.min \in INT_MIN .. INT_MAX)
  BY DEF Deviations
<1>6. "short" \notin d =>
        ~(cur.mode = VALUE /\ cur.hasMin /\ arr.ordered /\ arr.n <= BSEARCH_THRESHOLD)
  BY DEF Deviations
<1>7. ASSUME "rowid" \notin d, NEW k \in Rows, k < StartIndex(cur)
      PROVE  ~Admits(cur, Value(k))
  <2>1. cur.mode = ROWID /\ cur.hasMin /\ StartIndex(cur) = cur.min
    BY <1>2, <1>3, <1>5, <1>7 DEF Rows
  <2>2. Value(k) = k
    BY <2>1 DEF Value, Filters, ROWID, ZEROSET
  <2> QED
    BY <1>1, <1>7, <2>1, <2>2 DEF Admits, InBounds, Rows
<1>8. ASSUME d = {} PROVE AboveMin(cur, StartIndex(cur))
  <2>1. cur.mode = ROWID /\ cur.hasMin => cur.min <= StartIndex(cur)
    BY <1>1, <1>2, <1>3, <1>5, <1>8
  <2>2. ~(cur.mode = VALUE /\ cur.hasMin /\ arr.ordered)
    BY <1>6, <1>8 DEF NeedsSearch
  <2> QED
    BY <2>1, <2>2 DEF AboveMin
<1>9. cur.mode # ROWID => StartIndex(cur) = 0
  BY <1>3
<1> QED
  BY <1>4, <1>7, <1>8, <1>9

LEMMA FilterInv ==
  ASSUME ScanInv, NEW values \in [1 .. Len(plan.ops) -> Arguments], Filter(values)
  PROVE  ScanInv'
<1> USE ContentTells, Integers64
<1>1. arr \in Contents /\ PlanTypeOK
  BY DEF ScanInv, TypeOK
<1>2. PICK cur \in Constrained(plan.ops, values) :
        /\ deviates' = Deviations(values, cur)
        /\ IF ~NeverTrue(cur) /\ NeedsSearch(cur)
           THEN /\ at' = "search"
                /\ cursor' = [cur EXCEPT !.uniqueLeft = UniqueLeft(cur)]
           ELSE /\ at' = "row"
                /\ cursor' = IF NeverTrue(cur) THEN [cur EXCEPT !.i = arr.n]
                             ELSE NextMatch([cur EXCEPT !.uniqueLeft = UniqueLeft(cur)],
                                            StartIndex(cur))
  BY DEF Filter
<1>3. /\ wanted' = Wanted(values) /\ returned' = {} /\ from' = 0 /\ to' = arr.n - 1
      /\ arr' = arr /\ plan' = plan
  BY DEF Filter
<1>4. Bounded(cur, wanted', deviates')
  BY <1>1, <1>2, <1>3, ConstrainedBounds
<1>5. Filters(cur) /\ cur.i = 0 /\ cur \in Cursor
  <2>1. cur \in Cursor /\ cur.mode \in {ZEROSET, plan.mode} /\ cur.i = 0 /\ cur.uniqueLeft = -1
        /\ (plan.ops = <<>> => ~cur.hasMin /\ ~cur.hasMax)
    BY <1>1, ConstrainedSelects
  <2> QED
    BY <1>1, <2>1 DEF Filters, PlanTypeOK
<1>6. /\ wanted' \subseteq Rows /\ returned' \subseteq Rows
      /\ deviates' \subseteq {"short", "extreme", "rowid", "rounded", "blob"}
      /\ from' \in 0 .. arr.n /\ to' \in -1 .. arr.n - 1
  <2>1. wanted' \subseteq Rows
    BY <1>3 DEF Wanted, Rows
  <2>2. deviates' \subseteq {"short", "extreme", "rowid", "rounded", "blob"}
    BY <1>2 DEF Deviations
  <2> QED
    BY <1>1, <1>3, <2>1, <2>2
<1> DEFINE filtered == [cur EXCEPT !.uniqueLeft = UniqueLeft(cur)]
<1>7. /\ Filters(filtered) /\ SameBounds(filtered, cur) /\ filtered.i = 0
      /\ filtered.uniqueLeft = UniqueLeft(cur)
  <2>1. UniqueLeft(cur) \in -1 .. INT_MAX
    BY <1>1, <1>5, UniqueLeftTells
  <2> QED
    BY <1>5, <2>1 DEF Filters, SameBounds, Cursor
<1> HIDE DEF filtered
<1>8. Bounded(filtered, wanted', deviates')
  BY <1>4, <1>7, SameAdmits DEF Bounded
<1>9. CASE NeverTrue(cur)
  <2> DEFINE c == [cur EXCEPT !.i = arr.n]
  <2>1. at' = "row" /\ cursor' = c
    BY <1>2, <1>9
  <2>2. Filters(c) /\ SameBounds(c, cur) /\ c.i = arr.n
    BY <1>1, <1>5 DEF Filters, SameBounds, Cursor
  <2> HIDE DEF c
  <2>3. \A k \in Rows : ~Admits(c, Value(k))
    <3>1. \A k \in Rows : Value(k) \in Int
      BY <1>1 DEF Rows, Value, Int64
    <3>2. cur.min \in Int /\ cur.max \in Int
      BY <1>5 DEF Cursor, Int64
    <3> QED
      BY <1>9, <2>2, <3>1, <3>2 DEF NeverTrue, Admits, InBounds, SameBounds
  <2>4. Bounded(c, wanted', deviates')
    BY <1>4, <2>2, SameAdmits DEF Bounded
  <2>5. Advanced(c, deviates', returned')
    BY <1>1, <2>2, <2>3 DEF Advanced, Rows
  <2> QED
    BY <1>1, <1>3, <1>6, <2>1, <2>2, <2>4, <2>5, RowStep
<1>10. CASE ~NeverTrue(cur) /\ NeedsSearch(cur)
  <2>1. at' = "search" /\ cursor' = filtered
    BY <1>2, <1>10 DEF filtered
  <2>2. TypeOK'
    BY <1>1, <1>3, <1>6, <1>7, <2>1 DEF ScanInv, TypeOK, Filters, Cursor, Rows
  <2>3. PlanTypeOK' /\ Filters(cursor)'
    BY <1>1, <1>3, <1>7, <2>1 DEF PlanTypeOK, Filters
  <2>4. Bounded(cursor, wanted, deviates)'
    BY <1>3, <1>8, <2>1 DEF Bounded, Rows, Value
  <2>5. Halved'
    <3>1. filtered.mode = VALUE /\ filtered.hasMin /\ arr.ordered
      BY <1>7, <1>10 DEF NeedsSearch, SameBounds
    <3>2. from' <= to' + 1 /\ \A k \in Rows : ~(k < from') /\ ~(k > to')
      BY <1>1, <1>3 DEF Rows
    <3> QED
      BY <1>3, <2>1, <3>1, <3>2 DEF Halved, Rows
  <2> QED
    BY <2>1, <2>2, <2>3, <2>4, <2>5 DEF ScanInv
<1>11. CASE ~NeverTrue(cur) /\ ~NeedsSearch(cur)
  <2>1. at' = "row" /\ cursor' = NextMatch(filtered, StartIndex(cur))
    BY <1>2, <1>11 DEF filtered
  <2>2. /\ StartIndex(cur) \in Nat
        /\ cur.mode # ROWID => StartIndex(cur) = 0
        /\ "rowid" \notin deviates' =>
             \A k \in Rows : k < StartIndex(cur) => ~Admits(cur, Value(k))
        /\ deviates' = {} => AboveMin(cur, StartIndex(cur))
    BY <1>1, <1>2, <1>5, <1>11, StartTells
  <2>3. Counts(filtered) => StartIndex(cur) = 0
    BY <1>7, <2>2 DEF Counts, SameBounds, ROWID, VALUE
  <2>4. Counted(filtered, StartIndex(cur))
    <3>1. ~NeverTrue(filtered)
      BY <1>7, <1>11 DEF NeverTrue, SameBounds
    <3>2. filtered.uniqueLeft = UniqueLeft(filtered)
      BY <1>7 DEF UniqueLeft, SameBounds
    <3>3. Counted(filtered, 0)
      BY <1>1, <1>7, <3>1, <3>2, CountedFirst DEF Filters
    <3> QED
      BY <2>3, <3>3 DEF Counted
  <2>5. deviates' = {} => AboveMin(filtered, StartIndex(cur))
    BY <1>7, <2>2 DEF AboveMin, SameBounds
  <2>6. "rowid" \notin deviates' =>
          \A k \in Rows : k < StartIndex(cur) /\ Admits(filtered, Value(k)) => k \in returned'
    BY <1>7, <2>2, SameAdmits
  <2>7. /\ Filters(cursor') /\ cursor'.i \in 0 .. arr.n
        /\ Bounded(cursor', wanted', deviates') /\ Advanced(cursor', deviates', returned')
    BY <1>1, <1>7, <1>8, <2>1, <2>2, <2>3, <2>4, <2>5, <2>6, NextMatchAdvances
  <2> QED
    BY <1>1, <1>3, <1>6, <2>1, <2>7, RowStep
<1> QED
  BY <1>9, <1>10, <1>11

LEMMA SearchInv == ScanInv /\ Search => ScanInv'
<1> USE ContentTells, Integers64
<1> SUFFICES ASSUME ScanInv, Search PROVE ScanInv'
  OBVIOUS
<1>1. /\ arr \in Contents /\ PlanTypeOK /\ TypeOK /\ Halved
      /\ Filters(cursor) /\ Bounded(cursor, wanted, deviates)
  BY DEF ScanInv, TypeOK, Search
<1> DEFINE mid == (from + to) \div 2
<1>2. /\ at = "search" /\ from <= to
      /\ IF arr.a[mid] < cursor.min THEN from' = mid + 1 /\ to' = to
                                    ELSE to' = mid - 1 /\ from' = from
      /\ UNCHANGED <<arr, plan, cursor, at, wanted, returned, deviates>>
  BY DEF Search, historyVars
<1>3. from \in 0 .. arr.n /\ to \in -1 .. arr.n - 1 /\ cursor.min \in Int
  BY <1>1 DEF TypeOK, Int64
<1>4. mid \in from .. to
  BY <1>1, <1>2, <1>3
<1> HIDE DEF mid
<1>5. \A i, j \in Rows : arr.a[i] \in Int /\ (i <= j => arr.a[i] <= arr.a[j])
  BY <1>1 DEF Halved, Rows, Int64
<1>6. mid \in Rows
  BY <1>1, <1>3, <1>4 DEF Rows
<1>7. TypeOK'
  <2>1. from' \in 0 .. arr.n /\ to' \in -1 .. arr.n - 1
    BY <1>1, <1>2, <1>3, <1>4
  <2> QED
    BY <1>1, <1>2, <2>1 DEF TypeOK
<1>8. PlanTypeOK' /\ Filters(cursor)' /\ Bounded(cursor, wanted, deviates)'
  BY <1>1, <1>2 DEF PlanTypeOK, Filters, Bounded, Rows, Value
<1>9. Halved'
  <2>1. \A k \in Rows : /\ k < from' => arr.a[k] < cursor.min
                        /\ k > to' => cursor.min <= arr.a[k]
    <3> SUFFICES ASSUME NEW k \in Rows
                 PROVE  /\ k < from' => arr.a[k] < cursor.min
                        /\ k > to' => cursor.min <= arr.a[k]
      OBVIOUS
    <3>1. /\ k < from => arr.a[k] < cursor.min
          /\ k > to => cursor.min <= arr.a[k]
      BY <1>1 DEF Halved
    <3>2. /\ arr.a[k] \in Int /\ arr.a[mid] \in Int /\ k \in Int
          /\ (k <= mid => arr.a[k] <= arr.a[mid])
          /\ (mid <= k => arr.a[mid] <= arr.a[k])
      BY <1>1, <1>5, <1>6 DEF Rows
    <3> QED
      BY <1>2, <1>3, <1>4, <3>1, <3>2
  <2>2. from' <= to' + 1
    BY <1>2, <1>3, <1>4
  <2> QED
    BY <1>1, <1>2, <2>1, <2>2 DEF Halved, Rows
<1> QED
  BY <1>2, <1>7, <1>8, <1>9 DEF ScanInv

LEMMA SearchEndsInv == ScanInv /\ SearchEnds => ScanInv'
<1> USE ContentTells, Integers64
<1> SUFFICES ASSUME ScanInv, SearchEnds PROVE ScanInv'
  OBVIOUS
<1>1. /\ arr \in Contents /\ PlanTypeOK /\ TypeOK /\ Halved
      /\ Filters(cursor) /\ Bounded(cursor, wanted, deviates)
  BY DEF ScanInv, TypeOK, SearchEnds
<1> DEFINE mid == (from + to) \div 2
           found == from <= to /\ arr.unique /\ arr.a[mid] = cursor.min
           start == IF found THEN mid ELSE from
<1>2. /\ at' = "row" /\ cursor' = NextMatch(cursor, start) /\ (from > to \/ found)
      /\ UNCHANGED <<arr, plan, from, to, wanted, returned, deviates>>
  BY DEF SearchEnds, historyVars, searchVars
<1>3. from \in 0 .. arr.n /\ to \in -1 .. arr.n - 1 /\ cursor.min \in Int
      /\ wanted \subseteq Rows /\ returned \subseteq Rows
      /\ deviates \subseteq {"short", "extreme", "rowid", "rounded", "blob"}
  BY <1>1 DEF TypeOK, Int64, Rows
<1>4. found => mid \in from .. to
  BY <1>1, <1>3
<1>5. \A i, j \in Rows : arr.a[i] \in Int /\ (i <= j => arr.a[i] <= arr.a[j])
  BY <1>1 DEF Halved, Rows, Int64
<1>6. start \in Nat /\ start <= arr.n
  BY <1>1, <1>3, <1>4
<1>7. \A k \in Rows : /\ k < start => arr.a[k] < cursor.min
                      /\ k >= start => cursor.min <= arr.a[k]
  <2> SUFFICES ASSUME NEW k \in Rows
               PROVE  /\ k < start => arr.a[k] < cursor.min
                      /\ k >= start => cursor.min <= arr.a[k]
    OBVIOUS
  <2>1. k \in Int /\ arr.a[k] \in Int
    BY <1>1, <1>5 DEF Rows
  <2>2. CASE found
    <3>1. mid \in Rows /\ arr.unique /\ arr.a[mid] = cursor.min /\ start = mid
      BY <1>1, <1>3, <1>4, <2>2 DEF Rows
    <3>2. (k <= mid => arr.a[k] <= arr.a[mid]) /\ (mid <= k => arr.a[mid] <= arr.a[k])
      BY <1>5, <3>1
    <3>3. arr.a[k] = arr.a[mid] => k = mid
      BY <1>1, <3>1 DEF Rows
    <3> HIDE DEF mid, found, start
    <3>4. mid \in Int
      BY <1>1, <3>1 DEF Rows
    <3> QED
      BY <1>3, <2>1, <3>1, <3>2, <3>3, <3>4
  <2>3. CASE ~found
    <3>1. start = from /\ from > to
      BY <1>2, <2>3
    <3>2. /\ k < from => arr.a[k] < cursor.min
          /\ k > to => cursor.min <= arr.a[k]
      BY <1>1 DEF Halved
    <3> HIDE DEF start, found
    <3> QED
      BY <1>3, <2>1, <3>1, <3>2
  <2> QED
    BY <2>2, <2>3
<1> HIDE DEF mid, found, start
<1>8. cursor.mode = VALUE /\ cursor.hasMin /\ arr.ordered
  BY <1>1 DEF Halved
<1>9. \A k \in Rows : k < start => ~Admits(cursor, Value(k))
  <2>1. \A k : Value(k) = arr.a[k]
    BY <1>1, <1>8 DEF Filters, Value, ZEROSET, VALUE, ROWID
  <2> QED
    BY <1>3, <1>5, <1>7, <1>8, <2>1 DEF Admits, InBounds
<1>10. start < arr.n => AboveMin(cursor, start)
  BY <1>1, <1>6, <1>7, <1>8 DEF AboveMin, Rows, VALUE, ROWID
<1>11. Counted(cursor, start)
  BY <1>8 DEF Counted, Counts
<1>12. /\ Filters(cursor') /\ cursor'.i \in 0 .. arr.n
       /\ Bounded(cursor', wanted, deviates) /\ Advanced(cursor', deviates, returned)
  BY <1>1, <1>2, <1>6, <1>9, <1>10, <1>11, NextMatchAdvances
<1> QED
  BY <1>1, <1>2, <1>3, <1>12, RowStep

LEMMA NextRowInv == ScanInv /\ NextRow => ScanInv'
<1> USE ContentTells, Integers64
<1> SUFFICES ASSUME ScanInv, NextRow PROVE ScanInv'
  OBVIOUS
<1>1. /\ arr \in Contents /\ PlanTypeOK /\ TypeOK /\ Advanced(cursor, deviates, returned)
      /\ Filters(cursor) /\ Bounded(cursor, wanted, deviates)
  BY DEF ScanInv, TypeOK, NextRow
<1>2. /\ at' = "row" /\ cursor.i < arr.n
      /\ returned' = returned \union {cursor.i} /\ cursor' = NextMatch(cursor, cursor.i + 1)
      /\ UNCHANGED <<arr, plan, from, to, wanted, deviates>>
  BY DEF NextRow, searchVars
<1>3. /\ cursor.i \in 0 .. arr.n /\ wanted \subseteq Rows /\ returned \subseteq Rows
      /\ deviates \subseteq {"short", "extreme", "rowid", "rounded", "blob"}
      /\ from \in 0 .. arr.n /\ to \in -1 .. arr.n - 1
  BY <1>1 DEF TypeOK, Rows
<1>4. cursor.i \in Rows /\ cursor.i + 1 \in Nat /\ cursor.i + 1 <= arr.n /\ cursor.i \in Int
  BY <1>1, <1>2, <1>3 DEF Rows
<1>5. Counted(cursor, cursor.i + 1) /\ (deviates = {} => Admits(cursor, Value(cursor.i)))
  BY <1>1, <1>2 DEF Advanced
<1>6. "rowid" \notin deviates =>
        \A k \in Rows : k < cursor.i + 1 /\ Admits(cursor, Value(k)) => k \in returned'
  BY <1>1, <1>2, <1>4 DEF Advanced, Rows
<1>7. deviates = {} /\ cursor.i + 1 < arr.n => AboveMin(cursor, cursor.i + 1)
  <2> SUFFICES ASSUME deviates = {}, cursor.i + 1 < arr.n
               PROVE  AboveMin(cursor, cursor.i + 1)
    OBVIOUS
  <2>1. Admits(cursor, Value(cursor.i)) /\ cursor.min \in Int
    BY <1>1, <1>5 DEF TypeOK, Int64
  <2>2. ASSUME cursor.mode = ROWID, cursor.hasMin PROVE cursor.min <= cursor.i + 1
    <3>1. Value(cursor.i) = cursor.i
      BY <1>1, <2>2 DEF Filters, Value, ZEROSET, ROWID
    <3> QED
      BY <1>4, <2>1, <2>2, <3>1 DEF Admits, InBounds
  <2>3. ASSUME cursor.mode = VALUE, arr.ordered, cursor.hasMin
        PROVE  cursor.min <= arr.a[cursor.i + 1]
    <3>1. Value(cursor.i) = arr.a[cursor.i]
      BY <1>1, <2>3 DEF Filters, Value, ZEROSET, VALUE, ROWID
    <3>2. cursor.i + 1 \in Rows
      BY <1>1, <1>4 DEF Rows
    <3>3. arr.a[cursor.i] <= arr.a[cursor.i + 1]
          /\ arr.a[cursor.i] \in Int /\ arr.a[cursor.i + 1] \in Int
      BY <1>1, <1>4, <2>3, <3>2 DEF Rows, Int64
    <3> QED
      BY <2>1, <2>3, <3>1, <3>3 DEF Admits, InBounds
  <2> QED
    BY <2>2, <2>3 DEF AboveMin
<1>8. /\ Filters(cursor') /\ cursor'.i \in 0 .. arr.n
      /\ Bounded(cursor', wanted, deviates) /\ Advanced(cursor', deviates, returned')
  BY <1>1, <1>2, <1>4, <1>5, <1>6, <1>7, NextMatchAdvances
<1>9. returned' \subseteq Rows
  BY <1>2, <1>3, <1>4
<1> QED
  BY <1>1, <1>2, <1>3, <1>8, <1>9, RowStep

LEMMA OpsTyped ==
  ASSUME NEW where \in Constraints, NEW ix \in SUBSET DOMAIN where, ix # {},
         \A k \in ix : where[k].op \in AcceptedOps
  PROVE  C2opbits(where, ix) \in {<<o>> : o \in AcceptedOps} \union (AcceptedOps \X AcceptedOps)
<1>1. ix \subseteq Nat
  <2>1. where \in Seq(Constraint)
    BY ScanAssumption
  <2> QED
    BY <2>1
<1>2. Least(ix) \in ix
  BY <1>1, LeastIsLeast
<1>3. CASE ix \ {Least(ix)} = {}
  BY <1>2, <1>3 DEF C2opbits
<1>4. CASE ix \ {Least(ix)} # {}
  <2>1. Least(ix \ {Least(ix)}) \in ix
    <3>1. ix \ {Least(ix)} \subseteq Nat
      BY <1>1
    <3> QED
      BY <1>4, <3>1, LeastIsLeast
  <2> QED
    BY <1>2, <2>1 DEF C2opbits
<1> QED
  BY <1>3, <1>4

LEMMA PrepareInv ==
  ASSUME ScanInv, NEW where \in Constraints, Prepare(where)
  PROVE  ScanInv'
<1>1. /\ at = "closed" /\ plan' = BestIndex(where)
      /\ UNCHANGED <<arr, cursor, at, from, to, wanted, returned, deviates>>
  BY DEF Prepare, searchVars, historyVars
<1>2. PlanTypeOK'
  <2> DEFINE usable == {k \in DOMAIN where : where[k].usable}
             on(column) == {k \in usable : where[k].column = column}
  <2>1. CASE \E k \in usable : where[k].op \notin AcceptedOps
    <3>1. plan' = [mode |-> SCAN, ops |-> <<>>]
      BY <1>1, <2>1 DEF BestIndex
    <3> QED
      BY <3>1 DEF PlanTypeOK
  <2>2. CASE (\A k \in usable : where[k].op \in AcceptedOps) /\ on("rowid") # {}
    <3>1. plan' = [mode |-> ROWID, ops |-> C2opbits(where, on("rowid"))]
      BY <1>1, <2>2 DEF BestIndex
    <3>2. C2opbits(where, on("rowid")) \in
            {<<o>> : o \in AcceptedOps} \union (AcceptedOps \X AcceptedOps)
      BY <2>2, OpsTyped
    <3> QED
      BY <3>1, <3>2 DEF PlanTypeOK, SCAN, ROWID
  <2>3. CASE (\A k \in usable : where[k].op \in AcceptedOps) /\ on("rowid") = {} /\ on("value") # {}
    <3>1. plan' = [mode |-> VALUE, ops |-> C2opbits(where, on("value"))]
      BY <1>1, <2>3 DEF BestIndex
    <3>2. C2opbits(where, on("value")) \in
            {<<o>> : o \in AcceptedOps} \union (AcceptedOps \X AcceptedOps)
      BY <2>3, OpsTyped
    <3> QED
      BY <3>1, <3>2 DEF PlanTypeOK, SCAN, VALUE
  <2>4. CASE (\A k \in usable : where[k].op \in AcceptedOps) /\ on("rowid") = {} /\ on("value") = {}
    <3>1. plan' = [mode |-> SCAN, ops |-> <<>>]
      BY <1>1, <2>4 DEF BestIndex
    <3> QED
      BY <3>1 DEF PlanTypeOK
  <2> QED
    BY <2>1, <2>2, <2>3, <2>4
<1>3. TypeOK'
  BY <1>1, <1>2 DEF ScanInv, TypeOK, PlanTypeOK
<1> QED
  BY <1>1, <1>2, <1>3 DEF ScanInv

LEMMA NewCursorType ==
  /\ NewCursor.mode = SCAN /\ NewCursor.min = 0 /\ NewCursor.max = 0
  /\ NewCursor.hasMin \in BOOLEAN /\ NewCursor.hasMax \in BOOLEAN
  /\ NewCursor.i = 0 /\ NewCursor.uniqueLeft = -1
BY Zenon DEF NewCursor

ClosedState ==
  /\ arr \in Contents /\ PlanTypeOK /\ at = "closed" /\ cursor = NewCursor
  /\ from = 0 /\ to = -1 /\ wanted = {} /\ returned = {} /\ deviates = {}

LEMMA ClosedInv == ClosedState => ScanInv
<1> SUFFICES ASSUME ClosedState PROVE ScanInv
  OBVIOUS
<1>1. TypeOK
  BY NewCursorType, ContentTells, Integers64 DEF ClosedState, TypeOK, PlanTypeOK, Int64
<1> QED
  BY <1>1 DEF ScanInv, ClosedState

LEMMA InitScanInv == Init => ScanInv
<1> SUFFICES ASSUME Init PROVE ScanInv
  OBVIOUS
<1>1. PlanTypeOK
  BY DEF Init, PlanTypeOK
<1> QED
  BY <1>1, ClosedInv DEF Init, ClosedState

LEMMA BindInv ==
  ASSUME ScanInv, NEW c \in Contents, Bind(c)
  PROVE  ScanInv'
<1>1. PlanTypeOK'
  BY DEF ScanInv, Bind, PlanTypeOK
<1>2. ClosedState'
  BY <1>1 DEF ScanInv, Bind, ClosedState, searchVars, historyVars
<1> QED
  BY <1>2, ClosedInv, PTL

LEMMA CloseInv == ScanInv /\ Close => ScanInv'
<1> SUFFICES ASSUME ScanInv, Close PROVE ScanInv'
  OBVIOUS
<1>1. PlanTypeOK'
  BY DEF ScanInv, Close, PlanTypeOK
<1>2. ClosedState'
  BY <1>1 DEF ScanInv, Close, ClosedState, TypeOK
<1> QED
  BY <1>2, ClosedInv, PTL

LEMMA ScanInvNext == ScanInv /\ [Next]_vars => ScanInv'
<1> SUFFICES ASSUME ScanInv, [Next]_vars PROVE ScanInv'
  OBVIOUS
<1>1. ASSUME NEW c \in Contents, Bind(c) PROVE ScanInv'
  BY <1>1, BindInv
<1>2. ASSUME NEW where \in Constraints, Prepare(where) PROVE ScanInv'
  BY <1>2, PrepareInv
<1>3. ASSUME NEW values \in [1 .. Len(plan.ops) -> Arguments], Filter(values) PROVE ScanInv'
  BY <1>3, FilterInv
<1>4. CASE Search
  BY <1>4, SearchInv
<1>5. CASE SearchEnds
  BY <1>5, SearchEndsInv
<1>6. CASE NextRow
  BY <1>6, NextRowInv
<1>7. CASE Close
  BY <1>7, CloseInv
<1>8. CASE UNCHANGED vars
  <2>1. UNCHANGED <<arr, plan, cursor, at, from, to, wanted, returned, deviates>>
    BY <1>8 DEF vars, searchVars, historyVars
  <2> QED
    BY <2>1 DEF ScanInv, TypeOK, PlanTypeOK, Filters, Bounded, Halved, Advanced, Value, Rows,
                Counted, Counts, Seen
<1> QED
  BY <1>1, <1>2, <1>3, <1>4, <1>5, <1>6, <1>7, <1>8 DEF Next

-----------------------------------------------------------------------------
(***************************************************************************)
(* The theorems.                                                           *)
(***************************************************************************)

(* The bounds of a cursor always stand for the constraints, and the cursor *)
(* has passed no row that they let through.                                *)
THEOREM Invariance == Spec => []ScanInv
<1> QED
  BY InitScanInv, ScanInvNext, PTL DEF Spec

(* Bounds, position and counter of a cursor, and what the scan is told,    *)
(* keep their types: no bound leaves 64 bits and no position the array.    *)
THEOREM TypeCorrect == Spec => []TypeOK
<1>1. ScanInv => TypeOK
  BY DEF ScanInv
<1> QED
  BY <1>1, Invariance, PTL

(* A scan of any array, with any constraints, ends after every row that    *)
(* satisfies them.                                                         *)
THEOREM AllRowsReturned == Spec => []NothingMissed
<1>1. ScanInv => NothingMissed
  <2> SUFFICES ASSUME ScanInv, at = "row", cursor.i >= arr.n,
                      deviates \intersect {"rowid", "rounded", "blob"} = {},
                      NEW k \in wanted
               PROVE  k \in returned
    BY DEF NothingMissed
  <2>1. Admits(cursor, Value(k))
    BY DEF ScanInv, Bounded
  <2>2. k \in 0 .. cursor.i - 1
    BY ContentTells DEF ScanInv, TypeOK
  <2> QED
    BY <2>1, <2>2 DEF ScanInv, Advanced
<1> QED
  BY <1>1, Invariance, PTL

(* ... and returns no other.                                               *)
THEOREM OnlySuchRows == Spec => []OnlyMatchingRows
<1>1. ScanInv => OnlyMatchingRows
  <2> SUFFICES ASSUME ScanInv, at = "row", cursor.i < arr.n, deviates = {}
               PROVE  cursor.i \in wanted
    BY DEF OnlyMatchingRows
  <2>1. Admits(cursor, Value(cursor.i))
    BY DEF ScanInv, Advanced
  <2>2. cursor.i \in Rows
    BY ContentTells DEF ScanInv, TypeOK, Rows
  <2> QED
    BY <2>1, <2>2 DEF ScanInv, Bounded
<1> QED
  BY <1>1, Invariance, PTL
=============================================================================
