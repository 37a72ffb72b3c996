----------------------------- MODULE HelloGrammar -----------------------------
(***************************************************************************)
(* The grammar of spec section 4.2, as a reference parser over the spec's *)
(* tokens (TokenStream!Lex): strict LL(1), every terminal matched by its   *)
(* text, "and"/"or" chains and the arithmetic operators left-associative,  *)
(* extern names as factors, void calls of the special functions as        *)
(* statements.  The result is the statements before the first mismatch and*)
(* whether there was one.  It builds HelloLang nodes, so it can be         *)
(* compared with what eat_statement returns.                               *)
(***************************************************************************)
EXTENDS HelloParser

LOCAL TS == INSTANCE TokenStream WITH Inputs <- {}, text <- <<>>, i <- 0,
                                      answer <- NoToken, atEnd <- FALSE

Extern(n) == [t |-> "extern", n |-> n]     \* an extern name as a factor

G(k, node) == [k |-> k, node |-> node, err |-> FALSE]
Fail       == [k |-> 0, node |-> NoNode, err |-> TRUE]

Is(ts, k, v) == ts[k].type = "std" /\ ts[k].value = v
IsSpecial(v) == \E r \in SpecialTable : r[1] = v
Arity(table, f) == (CHOOSE r \in table : r[1] = f)[2]

(* r, then the terminal v.                                                  *)
Closing(ts, r, v) == IF r.err \/ ~Is(ts, r.k, v) THEN Fail ELSE G(r.k + 1, r.node)

(* The node of a matched r under a constructor; a failure stays one.       *)
UnaryG(op, r)        == IF r.err THEN Fail ELSE G(r.k, Unary(op, r.node))
BinG(op, a, r)       == IF r.err THEN Fail ELSE G(r.k, Bin(op, a, r.node))
CallG(f, r)          == IF r.err THEN Fail ELSE G(r.k, Call(f, r.node))
AssertG(r)           == IF r.err THEN Fail ELSE G(r.k, AssertStmt(r.node))
AssignG(x, r)        == IF r.err THEN Fail ELSE G(r.k, Assign(x, r.node))
IfG(c, a, r)         == IF r.err THEN Fail ELSE G(r.k, If(c, a, r.node))
ForG(v, lo, hi, r)   == IF r.err THEN Fail ELSE G(r.k, For(v, lo, hi, r.node))

RECURSIVE GFactor(_, _), GCall(_, _, _), GArgs(_, _, _, _, _), GArgAppended(_, _, _, _, _),
          GTerm(_, _), GTermFrom(_, _), GTermRest(_, _, _), GExpression(_, _),
          GExpressionFrom(_, _), GExpressionRest(_, _, _), GLogicalExpr(_, _),
          GLogicalFrom(_, _), GLogicalRest(_, _, _), GLogicalValue(_, _),
          GComparison(_, _), GComparisonFrom(_, _), GBlock(_, _), GStatements(_, _, _),
          GStatementAppended(_, _, _), GStatement(_, _), GIfCond(_, _), GIfThen(_, _, _)

(* factor := '(' expression ')' | '-' factor | nativeCall | name           *)
(*           | externName | literal                                        *)
GFactor(ts, k) ==
    LET t == ts[k]
    IN  CASE Is(ts, k, "(") -> Closing(ts, GExpression(ts, k + 1), ")")
          [] Is(ts, k, "-") -> UnaryG("-", GFactor(ts, k + 1))
          [] t.type = "name" /\ IsNative(t.value) -> GCall(ts, k, NativeTable)
          [] t.type = "name"    -> G(k + 1, Var(t.value))
          [] t.type = "extern"  -> G(k + 1, Extern(t.value))
          [] t.type = "integer" -> G(k + 1, Const(t.num))
          [] t.type = "hex"     -> G(k + 1, HexConst(t.num))
          [] OTHER              -> Fail

(* A call: the name, '(', as many comma-separated arguments as the table  *)
(* says (any number for -1), ')'.                                          *)
GCall(ts, k, table) ==
    IF ~Is(ts, k + 1, "(") THEN Fail
    ELSE CallG(ts[k].value, Closing(ts, GArgs(ts, k + 2, Arity(table, ts[k].value), 0, <<>>), ")"))

GArgs(ts, k, n, i, args) ==
    IF (n # -1 /\ i = n) \/ (n = -1 /\ Is(ts, k, ")")) THEN G(k, args)
    ELSE IF i > 0 /\ ~Is(ts, k, ",") THEN Fail
    ELSE GArgAppended(ts, GExpression(ts, IF i = 0 THEN k ELSE k + 1), n, i, args)

GArgAppended(ts, e, n, i, args) ==
    IF e.err THEN Fail ELSE GArgs(ts, e.k, n, i + 1, Append(args, e.node))

(* term := factor (('*'|'/'|'%'|'||') factor)*                             *)
GTermFrom(ts, f) == IF f.err THEN Fail ELSE GTermRest(ts, f.k, f.node)

GTerm(ts, k) == GTermFrom(ts, GFactor(ts, k))

GTermRest(ts, k, a) ==
    IF ts[k].type = "std" /\ ts[k].value \in {"*", "/", "%", "||"}
    THEN GTermFrom(ts, BinG(ts[k].value, a, GFactor(ts, k + 1)))
    ELSE G(k, a)

(* expression := term (('+'|'-') term)*                                    *)
GExpressionFrom(ts, a) == IF a.err THEN Fail ELSE GExpressionRest(ts, a.k, a.node)

GExpression(ts, k) == GExpressionFrom(ts, GTerm(ts, k))

GExpressionRest(ts, k, a) ==
    IF ts[k].type = "std" /\ ts[k].value \in {"+", "-"}
    THEN GExpressionFrom(ts, BinG(ts[k].value, a, GTerm(ts, k + 1)))
    ELSE G(k, a)

(* logicalExpr := logicalValue (('and'|'or') logicalValue)*                *)
GLogicalFrom(ts, a) == IF a.err THEN Fail ELSE GLogicalRest(ts, a.k, a.node)

GLogicalExpr(ts, k) == GLogicalFrom(ts, GLogicalValue(ts, k))

GLogicalRest(ts, k, a) ==
    IF Is(ts, k, "and") \/ Is(ts, k, "or")
    THEN GLogicalFrom(ts, BinG(ts[k].value, a, GLogicalValue(ts, k + 1)))
    ELSE G(k, a)

(* logicalValue := '(' logicalExpr ')' | '!' logicalValue | comparison     *)
GLogicalValue(ts, k) ==
    CASE Is(ts, k, "(") -> Closing(ts, GLogicalExpr(ts, k + 1), ")")
      [] Is(ts, k, "!") -> UnaryG("!", GLogicalValue(ts, k + 1))
      [] OTHER          -> GComparison(ts, k)

(* comparison := expression relOp expression                               *)
GComparisonFrom(ts, v) ==
    IF v.err \/ ts[v.k].type # "std" \/ ts[v.k].value \notin Comps THEN Fail
    ELSE BinG(ts[v.k].value, v.node, GExpression(ts, v.k + 1))

GComparison(ts, k) == GComparisonFrom(ts, GExpression(ts, k))

(* block := '{' statement* '}'                                             *)
GBlock(ts, k) == IF ~Is(ts, k, "{") THEN Fail ELSE Closing(ts, GStatements(ts, k + 1, <<>>), "}")

GStatements(ts, k, stmts) ==
    IF Is(ts, k, "}") THEN G(k, stmts) ELSE GStatementAppended(ts, GStatement(ts, k), stmts)

GStatementAppended(ts, s, stmts) ==
    IF s.err THEN Fail ELSE GStatements(ts, s.k, Append(stmts, s.node))

(* conditional := 'if' '(' logicalExpr ')' block ('else' block)?: c the    *)
(* condition matched with its ")", a the first block.                      *)
GIfThen(ts, c, a) ==
    CASE a.err                -> Fail
      [] ~Is(ts, a.k, "else") -> G(a.k, If(c, a.node, <<>>))
      [] OTHER                -> IfG(c, a.node, GBlock(ts, a.k + 1))

GIfCond(ts, c) == IF c.err THEN Fail ELSE GIfThen(ts, c.node, GBlock(ts, c.k))

(* statement := assertStmt | nativeVoidCall | conditional | loop          *)
(*              | assignment                                               *)
GStatement(ts, k) ==
    LET t == ts[k]
    IN  CASE Is(ts, k, "Assert") ->
               IF ~Is(ts, k + 1, "(") THEN Fail
               ELSE AssertG(Closing(ts, Closing(ts, GLogicalExpr(ts, k + 2), ")"), ";"))
          [] t.type = "name" /\ IsSpecial(t.value) -> Closing(ts, GCall(ts, k, SpecialTable), ";")
          [] Is(ts, k, "if") ->
               IF ~Is(ts, k + 1, "(") THEN Fail
               ELSE GIfCond(ts, Closing(ts, GLogicalExpr(ts, k + 2), ")"))
          [] Is(ts, k, "for") ->
               IF /\ ts[k + 1].type = "name" /\ Is(ts, k + 2, "in") /\ Is(ts, k + 3, "[")
                  /\ ts[k + 4].type = "integer" /\ Is(ts, k + 5, "..")
                  /\ ts[k + 6].type = "integer" /\ Is(ts, k + 7, "]")
               THEN ForG(ts[k + 1].value, ts[k + 4].num, ts[k + 6].num, GBlock(ts, k + 8))
               ELSE Fail
          [] t.type = "name" ->
               IF ~Is(ts, k + 1, "=") THEN Fail
               ELSE AssignG(t.value, Closing(ts, GExpression(ts, k + 2), ";"))
          [] OTHER -> Fail

(* program := statement*: the statements before the first mismatch, and   *)
(* whether the text has one.                                               *)
RECURSIVE GProgram(_, _, _)
GProgramNext(ts, s, stmts) ==
    IF s.err THEN [stmts |-> stmts, err |-> TRUE] ELSE GProgram(ts, s.k, Append(stmts, s.node))

GProgram(ts, k, stmts) ==
    IF ts[k].value = "UnexpectedEndOfInput" THEN [stmts |-> stmts, err |-> FALSE]
    ELSE GProgramNext(ts, GStatement(ts, k), stmts)

SpecParse(text) == GProgram(TS!Lex(text), 1, <<>>)
=============================================================================
