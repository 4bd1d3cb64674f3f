------------------------------ MODULE Written -------------------------------
(***************************************************************************)
(* How a statement is written in SQL, as src/docs and the parser's tests   *)
(* write it: the converse of Parser, and what its answers are compared     *)
(* with.  An operand is put in parentheses only where it has to be.        *)
(***************************************************************************)
EXTENDS Parser

LOCAL INSTANCE SequencesExt

\* The precedence that the manual and the design state, whatever the parser does:
\* NOT > AND > OR (src/docs and openspec/specs/parser), below them the operands of
\* conditions, and * and / before + and -.
Level(expr) ==
    IF "op" \notin DOMAIN expr THEN 9
    ELSE CASE expr.op = "OR" -> 1
           [] expr.op = "AND" -> 2
           [] expr.op = "NOT" -> 3
           [] expr.op \in {"IS NULL", "IS NOT NULL"} -> 4
           [] expr.op \in {"=", "!=", "<>", "<", ">", "<=", ">="} -> 5
           [] expr.op \in {"+", "-"} -> 6
           [] expr.op \in {"*", "/"} -> 7
           [] expr.op = "minus" -> 8

RECURSIVE Expr(_)
Operand(expr, level) == IF Level(expr) >= level THEN Expr(expr) ELSE <<"(">> \o Expr(expr) \o <<")">>
Expr(expr) ==
    CASE expr = Star -> <<"*">>
      [] "lit" \in DOMAIN expr -> <<expr.lit>>
      [] "func" \in DOMAIN expr -> <<expr.func, "(">> \o Expr(expr.arg) \o <<")">>
      [] "name" \in DOMAIN expr ->
            (IF expr.table = None THEN <<>> ELSE <<expr.table, ".">>) \o <<expr.name>>
      [] "op" \in DOMAIN expr ->
            CASE expr.op = "NOT" -> <<"NOT">> \o Operand(expr.args[1], 3)
              [] expr.op = "IS NULL" -> Operand(expr.args[1], 5) \o <<"IS", "NULL">>
              [] expr.op = "IS NOT NULL" -> Operand(expr.args[1], 5) \o <<"IS", "NOT", "NULL">>
              [] expr.op = "minus" -> <<"-">> \o Operand(expr.args[1], 9)
              [] OTHER -> Operand(expr.args[1], Level(expr)) \o <<expr.op>>
                            \o Operand(expr.args[2], Level(expr) + 1)

\* Parts with commas between them.
Separated(parts) == FoldLeft(LAMBDA text, part : IF text = <<>> THEN part ELSE text \o <<",">> \o part,
                             <<>>, parts)
Each(list, Text(_)) == Separated([i \in DOMAIN list |-> Text(list[i])])
Names(names) == <<"(">> \o Each(names, LAMBDA name : <<name>>) \o <<")">>
Exprs(list) == Each(list, Expr)
RowText(row) == <<"(">> \o Exprs(row) \o <<")">>

Clause(words, part, Text(_)) == IF part = None THEN <<>> ELSE words \o Text(part)
Token(word) == <<word>>

TableRef(ref) == <<ref.name>> \o Clause(<<"AS">>, ref.alias, Token)
Join(join) ==
    (IF join.type = "LEFT" THEN <<"LEFT", "OUTER">> ELSE <<join.type>>) \o <<"JOIN">>
        \o TableRef(join.table) \o Clause(<<"ON">>, join.on, Expr) \o Clause(<<"USING">>, join.using, Names)
Key(key) == Expr(key.expr) \o (IF key.desc THEN <<"DESC">> ELSE <<>>)

StatementText(s) ==
    CASE s.kind = "select" ->
            <<"SELECT">> \o Exprs(s.columns) \o <<"FROM">> \o TableRef(s.from)
                \o FlattenSeq([i \in DOMAIN s.joins |-> Join(s.joins[i])])
                \o Clause(<<"WHERE">>, s.where, Expr) \o Clause(<<"GROUP", "BY">>, s.group, Exprs)
                \o Clause(<<"ORDER", "BY">>, s.order, LAMBDA keys : Each(keys, Key))
                \o Clause(<<"LIMIT">>, s.limit, Token) \o Clause(<<"OFFSET">>, s.offset, Token)
      [] s.kind = "insert" ->
            <<"INSERT", "INTO", s.table>> \o Clause(<<>>, s.columns, Names)
                \o <<"VALUES">> \o Each(s.values, RowText)
      [] s.kind = "update" ->
            <<"UPDATE", s.table, "SET">>
                \o Each(s.set, LAMBDA a : <<a.column, "=">> \o Expr(a.expr))
                \o Clause(<<"WHERE">>, s.where, Expr)
      [] s.kind = "delete" -> <<"DELETE", "FROM", s.table>> \o Clause(<<"WHERE">>, s.where, Expr)

Text(statement) == StatementText(statement) \o <<"EOF">>
=============================================================================
