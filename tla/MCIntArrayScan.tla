---------------------------- MODULE MCIntArrayScan ---------------------------
(* IntArrayScan for TLC, with a 5-bit sqlite3_int64 and a 4-bit int, and   *)
(* binary search in arrays of more than one element.                       *)
EXTENDS IntArrayScan

MCSmallest == -16
MCIntMin == -8

Values == {-16, 0, 1, 15}

Arrays(n, values) ==
  {[a |-> f, n |-> n, ordered |-> o, unique |-> u] :
     f \in [0 .. n - 1 -> values], o \in BOOLEAN, u \in BOOLEAN}
Short == UNION {Arrays(n, Values) : n \in 0 .. 2} \union Arrays(3, {-16, 0, 1})
Long == {c \in Arrays(4, Values) : c.ordered} \union {c \in Arrays(5, {-16, 0, 1}) : c.ordered}
MCContents == {c \in {d : d \in Short \union Long} : IsContent(c)}

Wheres(column) == [column : {column}, op : AcceptedOps, usable : {TRUE}]
MCConstraints ==
  {<<>>} \union {<<c>> : c \in Wheres("rowid") \union Wheres("value")}
  \union (Wheres("value") \X Wheres("value"))
  \union {<<[column |-> "rowid", op |-> "GT", usable |-> TRUE],
            [column |-> "rowid", op |-> "LE", usable |-> TRUE]>>,
          <<[column |-> "value", op |-> "LT", usable |-> TRUE],
            [column |-> "rowid", op |-> "GE", usable |-> TRUE]>>,
          <<[column |-> "value", op |-> "other", usable |-> TRUE],
            [column |-> "value", op |-> "EQ", usable |-> TRUE]>>,
          <<[column |-> "value", op |-> "EQ", usable |-> FALSE],
            [column |-> "value", op |-> "GT", usable |-> TRUE]>>}

MCArguments ==
  {[type |-> "INTEGER", twice |-> 2 * x] : x \in {-16, 0, 1, 8, 15}}
    \union {[type |-> "FLOAT", twice |-> x] : x \in {-33, -1, 1, 32, 33}}
    \union [type : {"TEXT", "BLOB", "NULL"}, twice : {0}]
==============================================================================
