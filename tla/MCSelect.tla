------------------------------ MODULE MCSelect ------------------------------
EXTENDS Select, Written

MCName == {"k", "v", "w", "m", "l", "r", "c", "x", "y"}
MCNumber == {"0", "1", "2"}
MCValueOf == ("0" :> 0) @@ ("1" :> 1) @@ ("2" :> 2) @@ ("NULL" :> Null)
MCAlphabet == <<"k", "m", "v", "w">>

K == Column(None, "k")
V == Column(None, "v")
Of(table, name) == Column(table, name)
Equal(a, b) == Apply("=", <<a, b>>)

-----------------------------------------------------------------------------
(* Statements that are only parsed.                                        *)

Deeper(exprs) == exprs \cup {Apply(op, <<a, b>>) : op \in {"OR", "AND", "<=", "-", "*"}, a, b \in exprs}
                       \cup {Apply(op, <<a>>) : op \in {"NOT", "IS NULL", "IS NOT NULL", "minus"}, a \in exprs}
Conditions == Deeper(Deeper({Of("x", "k")}))

Select1(columns, from) == [NoClauses EXCEPT !.columns = columns, !.from = from]
Table(name, alias) == [name |-> name, alias |-> alias]
JoinOf(type, table, on, using) == [type |-> type, table |-> table, on |-> on, using |-> using]
Keyed(expr, desc) == [expr |-> expr, desc |-> desc]

Clauses ==
    LET sum == Apply("-", <<K, Apply("-", <<V, Lit("1")>>)>>)
        joins == {<<>>, <<JoinOf("NATURAL", Table("y", None), None, None)>>,
                  <<JoinOf("LEFT", Table("y", "c"), Equal(Of("x", "k"), Of("c", "k")), None),
                    JoinOf("FULL", Table("w", None), None, <<"k", "v">>)>>}
        orders == {None, <<Keyed(K, TRUE), Keyed(sum, FALSE)>>}
    IN  {[Select1(columns, Table("x", "l")) EXCEPT !.joins = js, !.where = where, !.group = group,
                                                   !.order = order, !.limit = limit, !.offset = offset] :
            columns \in {<<Star>>, <<K, Aggregate("COUNT", Star), Aggregate("SUM", sum)>>},
            js \in joins, where \in {None, Apply("IS NULL", <<Lit("NULL")>>)}, group \in {None, <<K, V>>},
            order \in orders, limit \in {None, "2"}, offset \in {None, "1"}}

Changes ==
    {[kind |-> "insert", table |-> "x", columns |-> columns, values |-> values] :
        columns \in {None, <<"k", "v">>}, values \in {<<<<Lit("1"), Lit("NULL")>>>>,
                                                      <<<<Apply("minus", <<Lit("1")>>)>>, <<Lit("2")>>>>}}
    \cup {[kind |-> "update", table |-> "x", set |-> set, where |-> where] :
        set \in {<<[column |-> "k", expr |-> Equal(K, V)]>>,
                 <<[column |-> "k", expr |-> V], [column |-> "v", expr |-> Apply("*", <<K, V>>)]>>},
        where \in {None, Equal(K, Lit("1"))}}
    \cup {[kind |-> "delete", table |-> "x", where |-> where] : where \in {None, Equal(K, V)}}

Unknown == [t \in {} |-> {}]
Parsed == {[tables |-> Unknown, query |-> [Select1(<<Star>>, Table("x", None)) EXCEPT !.where = where]] :
              where \in Conditions}
          \cup {[tables |-> Unknown, query |-> q] : q \in Clauses \cup Changes}

-----------------------------------------------------------------------------
(* Joins: l(k, v), r(k, w) and c(m, v).                                    *)

TableOf(columns, rs) == [columns |-> columns, rows |-> rs]
RowOf(a, x, b, y) == (<<a>> :> x) @@ (<<b>> :> y)
Lists(set, n) == UNION {[1..i -> set] : i \in 0..n}

LRows(keys) == {RowOf("k", k, "v", 1) : k \in keys} \cup {RowOf("k", 1, "v", 2)}
RRows(keys) == {RowOf("k", k, "w", k) : k \in keys} \cup {RowOf("k", 1, "w", Null)}
C == TableOf({"m", "v"}, <<RowOf("m", 1, "v", 2), RowOf("m", 1, "v", 1)>>)

\* Below three rows on each side rows are compared in nested loops.
Small == {[l |-> TableOf({"k", "v"}, ls), r |-> TableOf({"k", "w"}, rs), c |-> C] :
            ls \in Lists(LRows({Null, 2}), 2), rs \in Lists(RRows({Null, 2}), 2)}
\* Here a hash table is built, without NULL among its keys.
Large == {[l |-> TableOf({"k", "v"}, ls), r |-> TableOf({"k", "w"}, rs), c |-> C] :
            ls \in Lists(LRows({1, 2}), 2), rs \in [1..3 -> RRows({2})]}

TableL == Table("l", None)
TableR == Table("r", None)
OnKeys == Equal(Of("l", "k"), Of("r", "k"))
Backwards == Equal(Of("r", "k"), Of("l", "k"))
Differently == Equal(Of("l", "v"), Of("r", "k"))

Joining(js) == [Select1(<<Star>>, TableL) EXCEPT !.joins = js]
Two(type, on, using) == Joining(<<JoinOf(type, TableR, on, using)>>)
TypesOn(ons) == {Two(type, on, None) : type \in {"INNER", "LEFT", "RIGHT", "FULL"}, on \in ons}

Chain == Joining(<<JoinOf("INNER", Table("r", "y"), Equal(Of("l", "k"), Of("y", "k")), None),
                   JoinOf("LEFT", Table("c", None), Equal(Of("y", "w"), Of("c", "m")), None)>>)
Itself == [Select1(<<Star>>, Table("l", "x")) EXCEPT
            !.joins = <<JoinOf("INNER", Table("l", "y"), Equal(Of("x", "k"), Of("y", "v")), None)>>]
Cross == Two("CROSS", None, None)
Natural == Two("NATURAL", None, None)

SmallJoins == TypesOn({OnKeys, Backwards, Differently, Equal(Of("r", "w"), Of("l", "v"))})
              \cup {Cross, Natural, Chain, Itself, Two("INNER", Apply("<", <<Of("l", "k"), Of("r", "w")>>), None)}
LargeJoins == TypesOn({OnKeys, Differently}) \cup {Two("LEFT", None, <<"k">>), Natural, Cross}

Joins == {[tables |-> db, query |-> q] : db \in Small, q \in SmallJoins}
         \cup {[tables |-> db, query |-> q] : db \in Large, q \in LargeJoins}

-----------------------------------------------------------------------------
(* Filters, groups, order and limits, of one table.                        *)

Cells == {RowOf("k", k, "v", v) : k \in {Null, 1}, v \in {0, 2}} \cup {RowOf("k", 2, "v", Null)}
Alone == {[l |-> TableOf({"k", "v"}, rs)] : rs \in Lists(Cells, 3)}

Wheres == LET less == Apply("<", <<K, V>>)
              one == Equal(K, Lit("1"))
          IN  {Apply("OR", <<less, Apply("IS NULL", <<V>>)>>), Apply("AND", <<one, Apply(">=", <<K, V>>)>>),
               Apply("NOT", <<less>>), Equal(Apply("+", <<V, Lit("1")>>), Lit("1")),
               Apply("OR", <<Apply("<=", <<V, Lit("NULL")>>), Apply(">", <<V, K>>)>>),
               V, Apply("AND", <<V, one>>), Apply("OR", <<one, V>>)}
Groups == {[Select1(columns, TableL) EXCEPT !.group = group] :
              columns \in {<<K, Aggregate("COUNT", Star), Aggregate("SUM", V)>>, <<Aggregate("AVG", V), Aggregate("COUNT", V)>>},
              group \in {None, <<K>>, <<K, V>>}}
Orders == {[Select1(<<Star>>, TableL) EXCEPT !.order = order, !.limit = limit, !.offset = offset] :
              order \in {<<Keyed(K, FALSE)>>, <<Keyed(V, TRUE)>>, <<Keyed(K, TRUE), Keyed(V, FALSE)>>},
              limit \in {None, "0", "2"}, offset \in {None, "1"}}

NoNull(db) == \A row \in ToSet(db.l.rows) : row[<<"v">>] # Null
Filters == {[tables |-> db, query |-> [Select1(<<V>>, TableL) EXCEPT !.where = where]] :
              db \in Alone, where \in Wheres}
Shapes == {[tables |-> db, query |-> q] : db \in Alone, q \in Groups \cup Orders}

-----------------------------------------------------------------------------

MCAsked == Parsed \cup Joins \cup {case \in Filters : NoNull(case.tables)
                                     \/ case.query.where # Equal(Apply("+", <<V, Lit("1")>>), Lit("1"))}
           \cup Shapes

\* Two joins on a name that the three tables share.
MCChained == {[tables |-> [l |-> TableOf({"k", "v"}, ls), r |-> TableOf({"k", "w"}, rs),
                           c |-> TableOf({"k", "m"}, <<RowOf("k", 1, "m", 2)>>)],
               query |-> Joining(<<JoinOf("INNER", TableR, OnKeys, None),
                                   JoinOf("INNER", Table("c", None), Equal(Of("r", "k"), Of("c", "k")), None)>>)] :
                ls \in Lists(LRows({2}), 2), rs \in Lists(RRows({2}), 2)}

-----------------------------------------------------------------------------
(* What is evaluated, and what the parser makes of a text.                 *)

JoinConditions ==
    LET ons == UNION {{q.joins[i].on : i \in DOMAIN q.joins} : q \in SmallJoins \cup LargeJoins}
    IN  {Equal(Of("r", "k"), Of("c", "k"))} \cup {on \in ons : on # None}

RECURSIVE PartsOf(_)
PartsOf(e) == {e} \cup IF "op" \in DOMAIN e THEN UNION {PartsOf(e.args[i]) : i \in DOMAIN e.args} ELSE {}

MCExpression == UNION {PartsOf(e) : e \in {K, V} \cup Wheres \cup JoinConditions}
MCSize == [e \in MCExpression |-> Cardinality(PartsOf(e))]
MCParsing(query) == Parse(Text(query))
=============================================================================
