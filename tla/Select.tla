------------------------------- MODULE Select -------------------------------
(***************************************************************************)
(* A statement from its text to its answer: Database._exec_sql_select of   *)
(* src/tinydb/database.py over sql/parser.py, sql/planner.py and           *)
(* sql/executor.py.  One action for each operator of the plan, in the      *)
(* order the planner stacks them.                                          *)
(***************************************************************************)
EXTENDS Executor

CONSTANTS
    Asked,          \* the pairs of a database and a statement that are run
    Parsing(_)      \* what the parser makes of a statement that was written

VARIABLES
    tables,         \* the catalog: columns and rows of each table
    asked,          \* the statement that was written
    stmt,           \* the statement the parser made of it
    stage,          \* how far the rows have come
    left,           \* the left side of the next join
    rows,           \* the rows after the last operator
    read            \* the rows it read

\* Rows, tables and clauses are lists, and LIMIT and OFFSET are numbers.
IsList(s) == LET n == Len(s) IN n \in Nat /\ s = [i \in 1..n |-> s[i]]
IsQuery(s) ==
    /\ {"columns", "from", "joins", "where", "group", "order", "limit", "offset"} \subseteq DOMAIN s
    /\ IsList(s.columns) /\ IsList(s.joins)
    /\ s.group # None => IsList(s.group)
    /\ s.order # None => IsList(s.order)
    /\ \A number \in {s.limit, s.offset} \ {None} : ValueOf[number] \in Nat
ASSUME AskedAssumption ==
    \A case \in Asked :
        /\ \A t \in DOMAIN case.tables : IsList(case.tables[t].rows)
        /\ Parsing(case.query) # None /\ Parsing(case.query).kind = "select" => IsQuery(Parsing(case.query))
ASSUME NoneAssumption == None \notin Int /\ Null \notin Int \cup (Int \X Int)

vars == <<tables, asked, stmt, stage, left, rows, read>>

-----------------------------------------------------------------------------

Init ==
    /\ \E case \in Asked : tables = case.tables /\ asked = case.query
    /\ stmt = None /\ left = None
    /\ stage = "written"
    /\ rows = <<>> /\ read = <<>>

ParseText ==
    /\ stage = "written"
    /\ stmt' = Parsing(asked)
    /\ stage' = IF stmt' = None THEN "failed" ELSE "parsed"
    /\ UNCHANGED <<tables, asked, left, rows, read>>

\* Planning fails for a table that is not in the catalog.
TablesOf(query) == {query.from.name} \cup {join.table.name : join \in ToSet(query.joins)}

Plan ==
    /\ stage = "parsed" /\ stmt.kind = "select"
    /\ IF TablesOf(stmt) \subseteq DOMAIN tables
       THEN /\ left' = ScanOf(tables, stmt.from)
            /\ rows' = left'.rows
            /\ stage' = "joining"
       ELSE stage' = "failed" /\ UNCHANGED <<left, rows>>
    /\ UNCHANGED <<tables, asked, stmt, read>>

Pass(to, out) ==
    /\ rows' = out /\ read' = rows
    /\ stage' = to
    /\ UNCHANGED <<tables, asked, left>>

\* The left side keeps the name, the columns and the size of the first table.
JoinNext ==
    /\ stage = "joining" /\ stmt.joins # <<>>
    /\ \E right \in {ScanOf(tables, Head(stmt.joins).table)} :
        \E out \in {JoinSides(Resolved(Head(stmt.joins), left, right), left, right)} :
            /\ rows' = out /\ read' = rows
            /\ left' = [left EXCEPT !.rows = out]
    /\ stmt' = [stmt EXCEPT !.joins = Tail(@)]
    /\ UNCHANGED <<tables, asked, stage>>

FilterRows ==
    /\ stage = "joining" /\ stmt.joins = <<>>
    /\ Pass("filtered", IF stmt.where = None THEN rows ELSE Filter(rows, stmt.where))
    /\ UNCHANGED stmt

Grouping == stmt.group # None \/ \E column \in ToSet(stmt.columns) : "func" \in DOMAIN column
GroupKeys == IF stmt.group = None THEN <<>> ELSE stmt.group

GroupRows ==
    /\ stage = "filtered" /\ Grouping
    /\ Pass("shaped", Aggregated(rows, GroupKeys, stmt.columns))
    /\ UNCHANGED stmt

ProjectRows ==
    /\ stage = "filtered" /\ ~ Grouping
    /\ Pass("shaped", Project(rows, stmt.columns))
    /\ UNCHANGED stmt

\* Sort, then skip and cut: the rows that are passed on are the answer.
OrderRows ==
    /\ stage = "shaped"
    /\ LET sorted == IF stmt.order = None THEN rows ELSE SortedBy(rows, stmt.order)
           limit == IF stmt.limit = None THEN None ELSE ValueOf[stmt.limit]
           offset == IF stmt.offset = None THEN 0 ELSE ValueOf[stmt.offset]
       IN  Pass("answered", Limited(sorted, limit, offset))
    /\ UNCHANGED stmt

Next == ParseText \/ Plan \/ JoinNext \/ FilterRows \/ GroupRows \/ ProjectRows \/ OrderRows

Spec == Init /\ [][Next]_vars

-----------------------------------------------------------------------------
(* What SQL says.                                                          *)

\* The tables of the query that are joined so far, in order.
Joined == Len(asked.joins) - Len(stmt.joins)
Ref(i) == IF i = 1 THEN asked.from ELSE asked.joins[i - 1].table
RowsOf(i) == tables[Ref(i).name].rows
ColumnsOf(i) == tables[Ref(i).name].columns

\* A combination of rows is a sequence of positions, 0 for a row of NULLs.
Cell(combination, i, c) == IF combination[i] = 0 THEN Null ELSE RowsOf(i)[combination[i]][<<c>>]

Qualified(combination) ==
    LET n == Len(combination)
        owners(c) == {i \in 1..n : c \in ColumnsOf(i)}
        clear == {c \in UNION {ColumnsOf(i) : i \in 1..n} : Cardinality(owners(c)) = 1}
        full == UNION {{<<i, c>> : c \in ColumnsOf(i)} : i \in 1..n}
    IN  [name \in {<<Prefix(Ref(x[1])), x[2]>> : x \in full} |->
            Cell(combination, CHOOSE i \in 1..n : Prefix(Ref(i)) = name[1], name[2])]
        @@ [name \in {<<c>> : c \in clear} |->
            Cell(combination, CHOOSE i \in owners(name[1]) : TRUE, name[1])]

EqualOn(names, combination, n) ==
    \A c \in names : \E i \in 1..n - 1 :
        c \in ColumnsOf(i) /\ CompareEq(Cell(combination, i, c), Cell(combination, n, c))

Meets(join, combination) ==
    LET n == Len(combination)
        shared == ColumnsOf(n) \cap UNION {ColumnsOf(i) : i \in 1..n - 1}
    IN  CASE join.on # None -> Truth(Eval(join.on, Qualified(combination)))
          [] join.using # None -> EqualOn(ToSet(join.using), combination, n)
          [] join.type = "NATURAL" -> EqualOn(shared, combination, n)
          [] OTHER -> TRUE

Combinations(n) ==
    LET Met(join, before, m) == {pair \in {Append(l, p) : l \in before, p \in DOMAIN RowsOf(m)} : Meets(join, pair)}
        Outer(join, before, m, met) ==
            {Append(l, 0) : l \in {l \in before : join.type \in {"LEFT", "FULL"}
                    /\ \A p \in DOMAIN RowsOf(m) : Append(l, p) \notin met}}
            \cup {Append([i \in 1..m - 1 |-> 0], p) : p \in {p \in DOMAIN RowsOf(m) :
                    join.type \in {"RIGHT", "FULL"} /\ \A l \in before : Append(l, p) \notin met}}
        With(join, before, m) ==
            LET met == Met(join, before, m) IN met \cup Outer(join, before, m, met)
        all[m \in 1..n] ==
            IF m = 1 THEN {<<p>> : p \in DOMAIN RowsOf(1)} ELSE With(asked.joins[m - 1], all[m - 1], m)
    IN  all[n]

\* The columns a query can name; behind a RIGHT or FULL join not those whose
\* name the right table has too (a row of its own hides them).
Behind(i, c, n) == \E j \in i + 1..n : asked.joins[j - 1].type \in {"RIGHT", "FULL"} /\ c \in ColumnsOf(j)
Nameable(n) ==
    {<<Prefix(Ref(x[1])), x[2]>> : x \in
        {x \in UNION {{i} \X ColumnsOf(i) : i \in 1..n} : ~ Behind(x[1], x[2], n)}}

SameBag(s, t) ==
    /\ Len(s) = Len(t)
    /\ \A x \in ToSet(s) \cup ToSet(t) :
        Cardinality({i \in DOMAIN s : s[i] = x}) = Cardinality({i \in DOMAIN t : t[i] = x})

\* SQL's three truth values 1, 0 and NULL: NULL is neither, nor is a comparison
\* with it.
Comparison == {"=", "<", ">", "<=", ">="}
Holds(op, a, b) ==
    CASE op = "=" -> a = b
      [] op = "<" -> a < b
      [] op = ">" -> b < a
      [] op = "<=" -> a <= b
      [] op = ">=" -> b <= a
Truth3(expr, row) ==
    LET truth[e \in Expression] ==
            LET both == {truth[e.args[i]] : i \in DOMAIN e.args}
                value(i) == Eval(e.args[i], row)
            IN  IF "op" \notin DOMAIN e THEN IF Eval(e, row) = Null THEN Null ELSE Bit(Eval(e, row) # 0)
                ELSE IF e.op = "AND" THEN IF 0 \in both THEN 0 ELSE IF Null \in both THEN Null ELSE 1
                ELSE IF e.op = "OR" THEN IF 1 \in both THEN 1 ELSE IF Null \in both THEN Null ELSE 0
                ELSE IF e.op = "IS NULL" THEN Bit(value(1) = Null)
                ELSE IF e.op = "IS NOT NULL" THEN Bit(value(1) # Null)
                ELSE IF \E i \in DOMAIN e.args : value(i) = Null THEN Null
                ELSE Bit(Holds(e.op, value(1), value(2)))
    IN  truth[expr]

\* No NOT and no unequal: these take an unknown comparison for a false one.  Nor
\* a comparison of conditions, which would take it for a number.
Positive(expr) ==
    LET form[e \in Expression] ==
            LET All(forms) == \A i \in DOMAIN e.args : form[e.args[i]] \in forms
            IN  IF "op" \notin DOMAIN e THEN "operand"
                ELSE IF e.op \in {"+", "-", "*", "minus"} /\ All({"operand", "sum"}) THEN "sum"
                ELSE IF e.op \in Comparison \cup {"IS NULL", "IS NOT NULL"} /\ All({"operand", "sum"})
                THEN "condition"
                ELSE IF e.op \in {"AND", "OR"} /\ All({"operand", "condition"}) THEN "condition"
                ELSE "other"
    IN  expr \in Expression /\ form[expr] \in {"operand", "condition"}

-----------------------------------------------------------------------------
(* Properties.                                                             *)

\* Whatever is written with the parentheses it needs is read as it was meant:
\* precedence, associativity and the end of every clause.
ParsesWhatWasWritten == stage \in {"parsed", "failed"} => stmt = asked

\* After each join, by whatever algorithm, every qualified column of every row
\* has the value SQL gives it, and each combination of rows comes as often.
JoinIsReference ==
    stage = "joining" /\ Joined > 0 =>
        LET n == Joined + 1
            names == Nameable(n)
            combinations == SetToSeq(Combinations(n))
        IN  SameBag([i \in DOMAIN rows |-> [x \in names |-> ColumnValue(Column(x[1], x[2]), rows[i])]],
                    [i \in DOMAIN combinations |-> [x \in names |-> Qualified(combinations[i])[x]]])

\* WHERE keeps the rows for which the condition is true in SQL's logic of
\* three values, though the code's has two.
WhereKeepsTrueRows ==
    stage = "filtered" /\ stmt.where # None /\ Positive(stmt.where) =>
        rows = At(read, {p \in DOMAIN read : Truth3(stmt.where, read[p]) = 1})

\* The rows of the group that a row of the answer stands for, and what SQL says of
\* a column of it: COUNT(*) counts rows, every other aggregate values.
Members(answer) ==
    {p \in DOMAIN read : \A k \in DOMAIN GroupKeys : Eval(GroupKeys[k], read[p]) = answer[<<GroupKeys[k].name>>]}
Known3(members, expr) == {p \in members : Eval(expr, read[p]) # Null}
Total(members, expr) ==
    LET sum[n \in 0..Len(read)] ==
            IF n = 0 THEN 0
            ELSE IF n \in Known3(members, expr) THEN sum[n - 1] + Eval(expr, read[n]) ELSE sum[n - 1]
    IN  sum[Len(read)]
Expected(column, members) ==
    LET known == Known3(members, column.arg)
    IN  IF column.func = "COUNT" THEN Cardinality(IF column.arg = Star THEN members ELSE known)
        ELSE IF known = {} THEN Null
        ELSE IF column.func = "SUM" THEN Total(members, column.arg)
        ELSE <<Total(members, column.arg), Cardinality(known)>>

\* The keys are plain columns, what is summed up are numbers, and no name is
\* given twice.
IsAggregate(column) ==
    /\ column = Aggregate(column.func, column.arg)
    /\ \/ column.func = "COUNT"
       \/ column.func \in {"SUM", "AVG"} /\ column.arg # Star
          /\ \A p \in DOMAIN read : Eval(column.arg, read[p]) \in Int \cup {Null}
ClearGrouping ==
    /\ \A k \in DOMAIN GroupKeys :
        GroupKeys[k] \in Expression /\ GroupKeys[k] = Column(None, GroupKeys[k].name)
    /\ \A i \in DOMAIN stmt.columns : IsColumn(stmt.columns[i]) \/
        /\ IsAggregate(stmt.columns[i])
        /\ \A j \in DOMAIN stmt.columns \ {i} : Alias(stmt.columns[j]) # Alias(stmt.columns[i])
        /\ \A k \in DOMAIN GroupKeys : <<GroupKeys[k].name>> # Alias(stmt.columns[i])

\* One row for each combination of the keys' values, without keys exactly one, with
\* the count, the sum and the average over the rows that have it.
GroupsAreSql ==
    stage = "shaped" /\ Grouping /\ ClearGrouping =>
        /\ \A p \in DOMAIN read : \E i \in DOMAIN rows : p \in Members(rows[i])
        /\ \A i, j \in DOMAIN rows : i # j => Members(rows[i]) \cap Members(rows[j]) = {}
        /\ IF GroupKeys = <<>> THEN Len(rows) = 1 ELSE \A i \in DOMAIN rows : Members(rows[i]) # {}
        /\ \A i \in DOMAIN rows, c \in DOMAIN stmt.columns :
            LET column == stmt.columns[c]
            IN  ~ IsColumn(column) => rows[i][Alias(column)] = Expected(column, Members(rows[i]))

\* The code counts otherwise in two cases.  It makes a group for the first row it
\* reads, so that nothing has no row, where openspec/specs/executor/spec.md:30-32
\* has one; and COUNT(column) counts NULLs, where line 383 of the manual in docs says
\* that it counts values.
SomethingIsCounted == GroupKeys = <<>> => read # <<>>
NoNullIsCounted ==
    \A c \in DOMAIN stmt.columns :
        LET column == stmt.columns[c]
        IN  ~ IsColumn(column) /\ column.func = "COUNT" /\ column.arg # Star =>
                \A p \in DOMAIN read : Eval(column.arg, read[p]) # Null

\* Elsewhere grouping, by hash and row by row, gives what SQL says.
GroupsAreReference ==
    stage = "shaped" /\ Grouping /\ SomethingIsCounted /\ NoNullIsCounted => GroupsAreSql

\* Sorting by one key after the other, the last first, gives the order in
\* which the first key counts most; equal rows keep their order.  The answer
\* is the part of it that LIMIT and OFFSET name.
KeyAt(k, p) == Eval(stmt.order[k].expr, read[p])
Precedes(p, q) ==
    LET Smaller(k) == IF stmt.order[k].desc THEN Below(KeyAt(k, q), KeyAt(k, p)) ELSE Below(KeyAt(k, p), KeyAt(k, q))
        first == {k \in DOMAIN stmt.order : KeyAt(k, p) # KeyAt(k, q)}
    IN  IF first = {} THEN p < q ELSE Smaller(Min(first))

Sortable == \A k \in DOMAIN stmt.order, p \in DOMAIN read : KeyAt(k, p) \in Int \cup {Null}

AnswerIsOrdered ==
    stage = "answered" /\ stmt.order # None /\ Sortable =>
        LET rank(p) == Cardinality({q \in DOMAIN read : q # p /\ Precedes(q, p)})
            offset == IF stmt.offset = None THEN 0 ELSE ValueOf[stmt.offset]
            last == IF stmt.limit = None THEN Len(read) ELSE offset + ValueOf[stmt.limit]
        IN  /\ Len(rows) = Cardinality({p \in DOMAIN read : rank(p) \in offset..last - 1})
            /\ \A p \in DOMAIN read : rank(p) \in offset..last - 1 => rows[rank(p) - offset + 1] = read[p]
=============================================================================
