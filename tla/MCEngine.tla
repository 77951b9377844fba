------------------------------ MODULE MCEngine ------------------------------
(* The workloads of the runs of Engine. *)
EXTENDS Engine

CONSTANTS t1, t2, t3

S(type) == [NoStatement EXCEPT !.type = type]
Where(type, field, op, val) ==
  [S(type) EXCEPT !.where = field, !.op = op, !.val = val]

InsertOne == [S("insert") EXCEPT !.age = 1]
Aged(s, a) == [s EXCEPT !.age = a]

\* t1 changes rows by scan and reads a range of ids; t2 inserts, and works on
\* the first row by its id; t3 drops and creates the table.
Mixed ==
  [t \in Threads |->
     CASE t = t1 -> {Where("delete", "age", "eq", 1),
                     Aged(Where("update", "age", "eq", 2), 1),
                     [Where("select", "id", "ge", 1) EXCEPT !.limit = 2]}
       [] t = t2 -> {InsertOne, Aged(Where("update", "id", "eq", 1), 2),
                     Where("select", "id", "eq", 1), Where("delete", "id", "eq", 1)}
       [] t = t3 -> {S("drop"), S("create")}]

\* A SELECT on a range of ids beside insertions and deletions.
RangeAndUpdates ==
  [t \in Threads |->
     CASE t = t1 -> {Where("select", "id", "le", 2)}
       [] t = t2 -> {Where("delete", "id", "eq", 1)}
       [] t = t3 -> {InsertOne}]

OneRow == <<1>>
TwoRows == <<1, 2>>
=============================================================================
