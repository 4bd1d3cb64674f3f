------------------------------- MODULE Parser -------------------------------
(***************************************************************************)
(* The recursive descent parser of src/tinydb/sql/parser.py, from tokens   *)
(* to the trees of sql/ast.py and sql/expressions.py.                      *)
(*                                                                         *)
(* A token is the text it was lexed from.  A parsing operator takes what   *)
(* is left of the tokens, or a result to go on from, and returns what it   *)
(* parsed and what is left then.  A token that was not expected leaves the *)
(* token "error", which nothing accepts.                                   *)
(***************************************************************************)
EXTENDS Ast, Integers, Sequences, TLC

CONSTANTS
    Name,           \* identifiers
    Number          \* literals

Function == {"COUNT", "SUM", "AVG"}
Ident == Name \cup Function \cup {"IS"}
JoinWord == {"JOIN", "INNER", "LEFT", "RIGHT", "FULL", "CROSS", "NATURAL"}

-----------------------------------------------------------------------------
(* Tokens.                                                                 *)

Is(p, token) == Head(p.rest) = token
Skip(p) == [p EXCEPT !.rest = Tail(@)]
Expect(p, token) == IF Is(p, token) THEN Skip(p) ELSE [p EXCEPT !.rest = <<"error">>]

Found(tree, rest) == [tree |-> tree, rest |-> rest]
Wrong == Found(None, <<"error">>)
ParseIdent(ts) == IF Head(ts) \in Ident THEN Found(Head(ts), Tail(ts)) ELSE Wrong

\* A field of the statement, or one more element of a list.
Set(p, field, q) == Found([p.tree EXCEPT ![field] = q.tree], q.rest)
Push(p, q) == Found(Append(p.tree, q.tree), q.rest)
EmptyList(ts) == Found(<<>>, ts)

-----------------------------------------------------------------------------
(* Expressions, from the lowest precedence to the highest: 1 OR, 2 AND,    *)
(* 3 NOT, 4 IS NULL, 5 comparison, 6 sum, 7 product, 8 minus, 9 primary.   *)

\* Mutant: OR binds before AND.
BinaryOpsSwapped ==
    (1 :> {"AND"}) @@ (2 :> {"OR"}) @@ (5 :> {"=", "!=", "<>", "<", ">", "<=", ">="})
    @@ (6 :> {"+", "-"}) @@ (7 :> {"*", "/"})

BinaryOps == (1 :> {"OR"}) @@ (2 :> {"AND"}) @@ (5 :> {"=", "!=", "<>", "<", ">", "<=", ">="})
             @@ (6 :> {"+", "-"}) @@ (7 :> {"*", "/"})

Operation(op, p, q) == Found(Apply(op, <<p.tree, q.tree>>), q.rest)
Wrapped(op, p) == Found(Apply(op, <<p.tree>>), p.rest)

RECURSIVE ParseAt(_, _), More(_, _), ListFrom(_)

\* Operators of one level associate to the left.
More(level, p) ==
    IF Head(p.rest) \in BinaryOps[level]
    THEN More(level, Operation(Head(p.rest), p, ParseAt(level + 1, Tail(p.rest))))
    ELSE p

ParseIsNull(p) ==
    IF ~ Is(p, "IS") THEN p
    ELSE IF Is(Skip(p), "NOT") THEN Expect(Wrapped("IS NOT NULL", Skip(Skip(p))), "NULL")
    ELSE Expect(Wrapped("IS NULL", Skip(p)), "NULL")

ParseAggregate(func, p) ==
    LET arg == IF Is(p, "*") THEN Found(Star, Tail(p.rest)) ELSE ParseAt(1, p.rest)
    IN  Expect(Found(Aggregate(func, arg.tree), arg.rest), ")")

ParsePrimary(ts) ==
    IF Head(ts) \in Number \cup {"NULL"} THEN Found(Lit(Head(ts)), Tail(ts))
    ELSE IF Head(ts) \in Function THEN ParseAggregate(Head(ts), Expect(Found(None, Tail(ts)), "("))
    ELSE IF Head(ts) = "(" THEN Expect(ParseAt(1, Tail(ts)), ")")
    ELSE IF Head(ts) \notin Ident THEN Wrong
    ELSE IF ts[2] # "." THEN Found(Column(None, ts[1]), Tail(ts))
    ELSE IF ts[3] \in Ident THEN Found(Column(ts[1], ts[3]), SubSeq(ts, 4, Len(ts)))
    ELSE Wrong

ParseAt(level, ts) ==
    CASE level \in DOMAIN BinaryOps -> More(level, ParseAt(level + 1, ts))
      [] level = 3 -> IF Head(ts) = "NOT" THEN Wrapped("NOT", ParseAt(3, Tail(ts))) ELSE ParseAt(4, ts)
      [] level = 4 -> ParseIsNull(ParseAt(5, ts))
      [] level = 8 -> IF Head(ts) = "-" THEN Wrapped("minus", ParsePrimary(Tail(ts))) ELSE ParsePrimary(ts)

ParseExpression(ts) == ParseAt(1, ts)

\* One expression or more, with commas between them.
ListFrom(p) == IF Is(p, ",") THEN ListFrom(Push(p, ParseExpression(Tail(p.rest)))) ELSE p
ParseList(ts) == ListFrom(Push(EmptyList(ts), ParseExpression(ts)))

-----------------------------------------------------------------------------
(* SELECT.                                                                 *)

ParseColumns(p) ==
    Set(p, "columns", IF Is(p, "*") THEN Found(<<Star>>, Tail(p.rest)) ELSE ParseList(p.rest))

Aliased(name, p) ==
    LET alias == ParseIdent(IF Is(p, "AS") THEN Tail(p.rest) ELSE p.rest)
    IN  IF Is(p, "AS") \/ Head(p.rest) \in Ident
        THEN Found([name |-> name, alias |-> alias.tree], alias.rest)
        ELSE Found([name |-> name, alias |-> None], p.rest)
ParseTableRef(ts) == Aliased(Head(ts), ParseIdent(ts))

ParseFrom(p) == Set(p, "from", ParseTableRef(Expect(p, "FROM").rest))

\* INNER, LEFT [OUTER] and so on up to JOIN.
ParseJoinType(ts) ==
    CASE Head(ts) = "JOIN" -> Found("INNER", Tail(ts))
      [] Head(ts) \in {"LEFT", "RIGHT", "FULL"} /\ ts[2] = "OUTER" ->
            Expect(Found(Head(ts), SubSeq(ts, 3, Len(ts))), "JOIN")
      [] OTHER -> Expect(Found(Head(ts), Tail(ts)), "JOIN")

RECURSIVE NamesFrom(_), JoinsFrom(_), OrderFrom(_), RowsFrom(_), AssignmentsFrom(_)

\* USING ( names ): the list may be empty and may end with a comma.
NamesFrom(p) ==
    IF Head(p.rest) \notin Ident THEN p
    ELSE LET q == Push(p, ParseIdent(p.rest)) IN IF Is(q, ",") THEN NamesFrom(Skip(q)) ELSE q
ParseNames(p) == Expect(NamesFrom(EmptyList(Expect(p, "(").rest)), ")")

Condition(p) ==
    CASE Is(p, "ON") -> Set(p, "on", ParseExpression(Tail(p.rest)))
      [] Is(p, "USING") -> Set(p, "using", ParseNames(Skip(p)))
      [] p.tree.type \in {"CROSS", "NATURAL"} -> p
      [] OTHER -> Wrong

JoinTo(type, table) ==
    Condition(Found([type |-> type, table |-> table.tree, on |-> None, using |-> None], table.rest))
ParseJoin(p) == JoinTo(p.tree, ParseTableRef(p.rest))

JoinsFrom(p) ==
    IF Head(p.rest) \in JoinWord THEN JoinsFrom(Push(p, ParseJoin(ParseJoinType(p.rest)))) ELSE p
ParseJoins(p) == Set(p, "joins", JoinsFrom(EmptyList(p.rest)))

ParseWhere(p) == IF Is(p, "WHERE") THEN Set(p, "where", ParseExpression(Tail(p.rest))) ELSE p

ParseGroupBy(p) ==
    IF Is(p, "GROUP") THEN Set(p, "group", ParseList(Expect(Skip(p), "BY").rest)) ELSE p

Directed(p) ==
    Found([expr |-> p.tree, desc |-> Is(p, "DESC")],
          IF Head(p.rest) \in {"ASC", "DESC"} THEN Tail(p.rest) ELSE p.rest)
OrderFrom(p) ==
    IF Is(p, ",") THEN OrderFrom(Push(p, Directed(ParseExpression(Tail(p.rest))))) ELSE p
ParseOrderBy(p) ==
    LET start == Expect(Skip(p), "BY").rest
    IN  IF Is(p, "ORDER")
        THEN Set(p, "order", OrderFrom(Push(EmptyList(start), Directed(ParseExpression(start)))))
        ELSE p

ParseNumber(ts) == IF Head(ts) \in Number THEN Found(Head(ts), Tail(ts)) ELSE Wrong
ParseLimit(p) == IF Is(p, "LIMIT") THEN Set(p, "limit", ParseNumber(Tail(p.rest))) ELSE p
ParseOffset(p) == IF Is(p, "OFFSET") THEN Set(p, "offset", ParseNumber(Tail(p.rest))) ELSE p

NoClauses == [kind |-> "select", columns |-> <<>>, from |-> None, joins |-> <<>>, where |-> None,
              group |-> None, order |-> None, limit |-> None, offset |-> None]

ParseSelect(ts) ==
    ParseOffset(ParseLimit(ParseOrderBy(ParseGroupBy(ParseWhere(ParseJoins(ParseFrom(
        ParseColumns(Found(NoClauses, ts)))))))))

-----------------------------------------------------------------------------
(* INSERT, UPDATE and DELETE.                                              *)

ParseRow(p) == Expect(ParseList(Expect(p, "(").rest), ")")
RowsFrom(p) == IF Is(p, ",") THEN RowsFrom(Push(p, ParseRow(Skip(p)))) ELSE p
ParseRows(p) == Set(p, "values", RowsFrom(Push(EmptyList(p.rest), ParseRow(p))))

ParseInsert(ts) ==
    LET start == Found([kind |-> "insert", table |-> None, columns |-> None, values |-> <<>>], ts)
        table == Set(start, "table", ParseIdent(Expect(start, "INTO").rest))
        columns == IF Is(table, "(") THEN Set(table, "columns", ParseNames(table)) ELSE table
    IN  ParseRows(Expect(columns, "VALUES"))

AssignmentTo(p) == Set(Found([column |-> p.tree, expr |-> None], p.rest), "expr",
                       ParseExpression(Expect(p, "=").rest))
ParseAssignment(ts) == AssignmentTo(ParseIdent(ts))
AssignmentsFrom(p) ==
    IF Is(p, ",") THEN AssignmentsFrom(Push(p, ParseAssignment(Tail(p.rest)))) ELSE p
ParseAssignments(ts) == AssignmentsFrom(Push(EmptyList(ts), ParseAssignment(ts)))

ParseUpdate(ts) ==
    LET start == Found([kind |-> "update", table |-> None, set |-> <<>>, where |-> None], ts)
        table == Set(start, "table", ParseIdent(ts))
    IN  ParseWhere(Set(table, "set", ParseAssignments(Expect(table, "SET").rest)))

ParseDelete(ts) ==
    LET start == Found([kind |-> "delete", table |-> None, where |-> None], ts)
    IN  ParseWhere(Set(start, "table", ParseIdent(Expect(start, "FROM").rest)))

-----------------------------------------------------------------------------

ParseStatement(ts) ==
    CASE Head(ts) = "SELECT" -> ParseSelect(Tail(ts))
      [] Head(ts) = "INSERT" -> ParseInsert(Tail(ts))
      [] Head(ts) = "UPDATE" -> ParseUpdate(Tail(ts))
      [] Head(ts) = "DELETE" -> ParseDelete(Tail(ts))
      [] OTHER -> Wrong

\* The statement, or None for a ParserError.
Parse(tokens) ==
    LET p == ParseStatement(tokens) IN IF p.rest = <<"EOF">> THEN p.tree ELSE None
=============================================================================
