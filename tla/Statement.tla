----------------------------- MODULE Statement -----------------------------
(***************************************************************************)
(* A statement of MiniDB as the parser leaves it (statement_t), and what   *)
(* the planner, the lock decision of db.c and the executor read from it:   *)
(* the kind of its WHERE, the access path, the lock it needs before it     *)
(* enters the engine, and whether a row satisfies its WHERE.               *)
(*                                                                         *)
(* The table has the column id and one column of the user's, age, a BIGINT *)
(* too.  A value in a WHERE is a signed number of 64 bits (atoll); as an   *)
(* id it is converted to uint64_t, and compared with or without its sign.  *)
(***************************************************************************)
EXTENDS Integers

CONSTANT LongMax  \* INT64_MAX

UINT64_MAX == 2 * LongMax + 1
Long == (-LongMax - 1)..LongMax

\* (uint64_t)n
Unsigned(n) == IF n < 0 THEN n + UINT64_MAX + 1 ELSE n

\* where: the column the WHERE is about, "none" without a WHERE.  op and val
\* compare it (upto: the second bound of BETWEEN).  set: the column an UPDATE
\* sets.  age: the value it or an INSERT brings.  limit: NoLimit or the LIMIT.
NoLimit == -1
StatementType ==
  [type : {"none", "create", "drop", "insert", "select", "delete", "update", "explain"},
   where : {"none", "id", "age"},
   op : {"eq", "ne", "lt", "le", "gt", "ge", "between"}, val : Long, upto : Long,
   count : BOOLEAN, order : BOOLEAN, limit : {NoLimit} \cup Nat,
   set : {"id", "age"}, age : Long]

NoStatement ==
  [type |-> "none", where |-> "none", op |-> "eq", val |-> 0, upto |-> 0,
   count |-> FALSE, order |-> FALSE, limit |-> NoLimit, set |-> "age", age |-> 0]

is_ddl(s) == s.type \in {"create", "drop"}

\* What parse_where makes of the WHERE.  BETWEEN is parsed for the id only.
predicate_kind(s) ==
  CASE s.where = "none" -> "none"
    [] s.where = "id" /\ s.op = "eq" -> "id_eq"
    [] s.where = "id" /\ s.op \in {"lt", "le", "gt", "ge", "between"} -> "id_range"
    [] s.where = "age" /\ s.op = "eq" -> "field_eq"
    [] OTHER -> "field_cmp"

planner_create_plan(s) ==
  LET kind == predicate_kind(s) IN
  CASE s.type = "select" ->
         IF kind = "id_eq" /\ ~s.count /\ ~s.order /\ s.limit = NoLimit
         THEN "index_lookup"
         ELSE IF kind = "id_range" /\ ~s.count /\ ~s.order THEN "index_range"
         ELSE "table_scan"
    [] s.type = "delete" -> IF kind = "id_eq" THEN "index_delete" ELSE "table_scan"
    [] s.type = "update" -> IF kind = "id_eq" THEN "index_update" ELSE "table_scan"
    [] OTHER -> s.type

Compare(op, v, val, upto) ==
  CASE op = "eq" -> v = val
    [] op = "ne" -> v # val
    [] op = "lt" -> v < val
    [] op = "le" -> v <= val
    [] op = "gt" -> v > val
    [] op = "ge" -> v >= val
    [] op = "between" -> val <= v /\ v <= upto

\* The value v of a row, with its sign, against the bounds of the WHERE.
CompareSigned(s, v) == Compare(s.op, v, s.val, s.upto)

\* A key of the index, which has no sign, against the bounds of a range.
CompareKey(s, k) == Compare(s.op, k, Unsigned(s.val), Unsigned(s.upto))

\* The row satisfies the WHERE of s, whichever kind it is of.
match_predicate(row, s) ==
  \/ s.where = "none"
  \/ s.where = "id" /\ CompareSigned(s, row.id)
  \/ s.where = "age" /\ CompareSigned(s, row.age)

-----------------------------------------------------------------------------
\* The ids low..high to lock in a mode before the engine is entered; none if
\* high is less than low.
NoLock == [low |-> 1, high |-> 0, mode |-> "S"]

\* The parser classifies the comparisons of the id as id_range, so that the
\* second case is left with != alone, which locks nothing: no statement locks a
\* range.
determine_lock(s) ==
  LET mode == IF s.type = "select" THEN "S" ELSE "X"
      val == Unsigned(s.val)
      Lock(low, high) == [low |-> low, high |-> high, mode |-> mode]
      Range(low, high) == IF low > 0 /\ high >= low THEN Lock(low, high) ELSE NoLock
  IN
  IF s.type \notin {"select", "delete", "update"} THEN NoLock
  ELSE IF predicate_kind(s) = "id_eq" THEN Lock(val, val)
  ELSE IF predicate_kind(s) = "field_cmp" /\ s.where = "id" THEN
    CASE s.op = "gt" -> Range((val + 1) % (UINT64_MAX + 1), UINT64_MAX)
      [] s.op = "ge" -> Range(val, UINT64_MAX)
      [] s.op = "lt" -> Range(1, IF val > 1 THEN val - 1 ELSE 0)
      [] s.op = "le" -> Range(1, val)
      [] OTHER -> NoLock
  ELSE NoLock
=============================================================================
