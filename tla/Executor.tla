------------------------------ MODULE Executor ------------------------------
(***************************************************************************)
(* The operators of a query: src/tinydb/sql/executor.py, and the choice of *)
(* the join algorithm by sql/planner.py.  An operator is a function from   *)
(* the rows it reads to the rows it yields.                                *)
(***************************************************************************)
EXTENDS Expressions, FiniteSets, SequencesExt

CONSTANTS
    Alphabet,       \* the column names in alphabetical order
    Few             \* from this number of rows on a table is not small (50)

-----------------------------------------------------------------------------
(* Joins.  A side has rows, the names of its columns, and a prefix.        *)

NoRow == <<>>
Nulls(columns) == [name \in {<<c>> : c \in columns} |-> Null]

Prefixed(row, names, prefix) ==
    [name \in {<<prefix>> \o n : n \in names} |-> row[Tail(name)]]
Without(row, names) == [name \in DOMAIN row \ names |-> row[name]]

\* Mutant: the right row's columns hide the left row's of the same name.
CombinedPlain(l, r, left, right) == r @@ l
\* Names that both sides have get the prefix of their side.
Combined(l, r, left, right) ==
    LET both == DOMAIN l \cap DOMAIN r
    IN  Prefixed(r, both, right.prefix) @@ Without(r, both)
            @@ Prefixed(l, both, left.prefix) @@ Without(l, both)

\* What ON is evaluated over: plain names of the left side first.
Compared(l, r, left, right) ==
    Prefixed(r, DOMAIN r, right.prefix) @@ Prefixed(l, DOMAIN l, left.prefix) @@ l @@ r

IsColumn(expr) == expr # None /\ "name" \in DOMAIN expr
IsEquation(expr) ==
    /\ expr # None /\ "op" \in DOMAIN expr /\ expr.op = "="
    /\ IsColumn(expr.args[1]) /\ IsColumn(expr.args[2])
Left(on) == on.args[1]
Right(on) == on.args[2]

\* The same name on both sides: ON is not evaluated, the keys are compared.
SameName(on) == IsEquation(on) /\ Left(on).name = Right(on).name

\* _extract_join_keys, _extract_right_key.
JoinKeys(join) ==
    IF join.using # None /\ join.using # <<>> THEN join.using
    ELSE IF IsEquation(join.on) THEN <<Left(join.on).name>> ELSE <<>>
RightKey(join) == IF IsEquation(join.on) THEN Right(join.on).name ELSE JoinKeys(join)[1]

KeyOf(row, keys) == [i \in DOMAIN keys |-> Value(row, <<keys[i]>>)]

NestedLoopMatch(join, l, r, left, right) ==
    IF SameName(join.on)
    THEN \A k \in ToSet(JoinKeys(join)) : CompareEq(Value(l, <<k>>), Value(r, <<k>>))
    ELSE join.on # None => Truth(Eval(join.on, Compared(l, r, left, right)))

HashMatch(join, l, r, left, right) == KeyOf(l, JoinKeys(join)) = KeyOf(r, <<RightKey(join)>>)

\* The rows at some positions, in their order.
At(rows, positions) ==
    [i \in 1..Cardinality(positions) |->
        rows[CHOOSE p \in positions : Cardinality({q \in positions : q < p}) = i - 1]]

\* Each left row with its matches, or with NULLs; then the right rows nobody matched.
JoinRows(join, left, right, Match(_, _, _, _, _)) ==
    LET Matches(l) == At(right.rows, {p \in DOMAIN right.rows : Match(join, l, right.rows[p], left, right)})
        With(l) == [i \in DOMAIN Matches(l) |-> Combined(l, Matches(l)[i], left, right)]
        Alone(l) == IF join.type \in {"LEFT", "FULL"}
                    THEN <<Combined(l, Nulls(right.columns), left, right)>> ELSE <<>>
        Joined(l) == IF Matches(l) = <<>> THEN Alone(l) ELSE With(l)
        Unmatched == {p \in DOMAIN right.rows :
                        \A l \in ToSet(left.rows) : ~ Match(join, l, right.rows[p], left, right)}
    IN  FlattenSeq([i \in DOMAIN left.rows |-> Joined(left.rows[i])])
        \o (IF join.type \in {"RIGHT", "FULL"} THEN At(right.rows, Unmatched) ELSE <<>>)

NestedLoopJoin(join, left, right) == JoinRows(join, left, right, NestedLoopMatch)
HashJoin(join, left, right) == JoinRows(join, left, right, HashMatch)

-----------------------------------------------------------------------------
(* The planner.                                                            *)

\* NATURAL JOIN: the first name the two tables share.
Resolved(join, left, right) ==
    LET common == left.columns \cap right.columns
        key == SelectInSeq(Alphabet, LAMBDA name : name \in common)
        column == Column(None, Alphabet[key])
    IN  IF join.type # "NATURAL" THEN join
        ELSE IF common = {} THEN [join EXCEPT !.type = "CROSS"]
        ELSE [join EXCEPT !.type = "INNER", !.on = Apply("=", <<column, column>>),
                          !.using = <<Alphabet[key]>>]

\* The sizes are those of the first table of the query and of the joined one.
ChooseAlgorithm(join, left, right) ==
    IF join.type = "CROSS" \/ JoinKeys(join) = <<>> \/ (left.size < Few /\ right.size < Few)
    THEN "nested_loop" ELSE "hash"

JoinSides(join, left, right) ==
    IF ChooseAlgorithm(join, left, right) = "hash" THEN HashJoin(join, left, right)
    ELSE NestedLoopJoin(join, left, right)

Prefix(ref) == IF ref.alias # None THEN ref.alias ELSE ref.name
ScanOf(tables, ref) ==
    [rows |-> tables[ref.name].rows, columns |-> tables[ref.name].columns,
     size |-> Len(tables[ref.name].rows), prefix |-> Prefix(ref)]

-----------------------------------------------------------------------------
(* Filter, projection, aggregation.                                        *)

Filter(rows, where) == At(rows, {p \in DOMAIN rows : Truth(Eval(where, rows[p]))})

Project(rows, columns) ==
    IF columns = <<Star>> THEN rows
    ELSE LET Named(c) == {i \in DOMAIN columns : columns[i].name = c}
         IN  [p \in DOMAIN rows |->
                [name \in {<<columns[i].name>> : i \in DOMAIN columns} |->
                    ColumnValue(columns[Max(Named(name[1]))], rows[p])]]

Accumulate(func, state, value) ==
    CASE func = "COUNT" -> (IF state = Null THEN 0 ELSE state) + 1
      [] func = "SUM" -> IF value = Null THEN state ELSE (IF state = Null THEN 0 ELSE state) + value
      [] func = "AVG" ->
            LET sum == IF state = Null THEN <<0, 0>> ELSE state
            IN  IF value = Null THEN sum ELSE <<sum[1] + value, sum[2] + 1>>
Finalize(func, state) ==
    IF func # "AVG" \/ state = Null THEN state
    ELSE IF state[2] = 0 THEN Null ELSE state       \* the quotient of the two

\* A column is the last one seen, under its plain name.
Step(column, state, row) ==
    IF IsColumn(column) THEN Value(row, <<column.name>>)
    ELSE Accumulate(column.func, state, IF column.arg = Star THEN Star ELSE Eval(column.arg, row))

Alias(column) ==
    IF IsColumn(column) THEN <<column.name>>
    ELSE IF column.arg = Star THEN <<column.func, "*">> ELSE <<column.func>>

\* Mutant: only the last group is looked at.
LastGroup(groups, key) == IF groups # <<>> /\ groups[Len(groups)].key = key THEN Len(groups) ELSE 0
GroupOf(groups, key) == SelectInSeq(groups, LAMBDA group : group.key = key)

\* A group is made for the first row with its key; groups keep that order.
Absorb(groups, row, keys, columns) ==
    LET key == [i \in DOMAIN keys |-> Eval(keys[i], row)]
        found == GroupOf(groups, key)
        states == IF found = 0 THEN [i \in DOMAIN columns |-> Null] ELSE groups[found].states
        after == [key |-> key, states |-> [i \in DOMAIN columns |-> Step(columns[i], states[i], row)]]
    IN  IF found = 0 THEN Append(groups, after) ELSE [groups EXCEPT ![found] = after]

\* A name given twice is the later column's, and a column's before a key's.
GroupRow(group, keys, columns) ==
    LET Final(i) == IF IsColumn(columns[i]) THEN group.states[i]
                    ELSE Finalize(columns[i].func, group.states[i])
        aliases == {Alias(columns[i]) : i \in DOMAIN columns}
        ColumnNamed(name) == Max({i \in DOMAIN columns : Alias(columns[i]) = name})
        KeyNamed(name) == Max({k \in DOMAIN keys : <<keys[k].name>> = name})
    IN  [name \in aliases \cup {<<keys[k].name>> : k \in DOMAIN keys} |->
            IF name \in aliases THEN Final(ColumnNamed(name)) ELSE group.key[KeyNamed(name)]]

Aggregated(rows, keys, columns) ==
    LET groups[n \in 0..Len(rows)] ==
            IF n = 0 THEN <<>> ELSE Absorb(groups[n - 1], rows[n], keys, columns)
    IN  [g \in DOMAIN groups[Len(rows)] |-> GroupRow(groups[Len(rows)][g], keys, columns)]

-----------------------------------------------------------------------------
(* Sorting and limits.                                                     *)

\* Mutant: equal rows come in reverse order.
Later(p, q) == p > q
Earlier(p, q) == p < q

\* NULL is below every value.
Below(a, b) == b # Null /\ (a = Null \/ a < b)

\* The stable sort of Python's list.sort, by one key.
Sorted(rows, key) ==
    LET Key(p) == Eval(key.expr, rows[p])
        Less(p, q) == IF key.desc THEN Below(Key(q), Key(p)) ELSE Below(Key(p), Key(q))
        Before(p, q) == Less(p, q) \/ (Earlier(p, q) /\ ~ Less(q, p))
    IN  [i \in DOMAIN rows |->
            rows[CHOOSE p \in DOMAIN rows : Cardinality({q \in DOMAIN rows : Before(q, p)}) = i - 1]]

\* One pass for each key, from the last to the first.
SortedBy(rows, order) ==
    LET pass[n \in 0..Len(order)] ==
            IF n = 0 THEN rows ELSE Sorted(pass[n - 1], order[Len(order) - n + 1])
    IN  pass[Len(order)]

\* The first rows are skipped, then at most limit are passed on.
Limited(rows, limit, offset) ==
    LET rest == SubSeq(rows, offset + 1, Len(rows))
    IN  IF limit = None \/ limit > Len(rest) THEN rest ELSE SubSeq(rest, 1, limit)
=============================================================================
