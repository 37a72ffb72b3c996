----------------------------- MODULE HelloParser -----------------------------
(***************************************************************************)
(* The recursive-descent parser Hello_parser (src/HelloDll/parser.h), a    *)
(* subclass of tokeniser, and its function tables (parser.cpp).  Each      *)
(* eat_* method is an operator from a tokeniser state to a result          *)
(* [tk, node]: the state after the call and the AST node it returned, as a *)
(* HelloLang node (blocks are sequences).  A parse_error, abort or crash   *)
(* in tk makes every later call return at once, as the exception unwinds. *)
(* The stream points a statement's constructor gets (declare_streampoint) *)
(* are kept in its node as the span sp = [start, end] of stream offsets,  *)
(* which generate() declares for the annotated writer.                     *)
(***************************************************************************)
EXTENDS HelloTokeniser, HelloLang

(* special_functions and native_functions: name, arity (-1: any number),  *)
(* opcode.                                                                 *)
SpecialTable ==
    { <<"Verify", 1, "OP_VERIFY">>, <<"CheckSequenceVerify", 1, "OP_CHECKSEQUENCEVERIFY">>,
      <<"CheckLocktimeVerify", 1, "OP_CHECKLOCKTIMEVERIFY">>,
      <<"CheckSigVerify", 2, "OP_CHECKSIGVERIFY">>,
      <<"CheckMultiSigVerify", -1, "OP_CHECKMULTISIGVERIFY">>, <<"Return", 1, "OP_RETURN">> }

NativeTable ==
    { <<"RIPEMD160", 1, "OP_RIPEMD160">>, <<"SHA1", 1, "OP_SHA1">>,
      <<"SHA256", 1, "OP_SHA256">>, <<"HASH160", 1, "OP_HASH160">>,
      <<"HASH256", 1, "OP_HASH256">>, <<"CheckSig", 2, "OP_CHECKSIG">>,
      <<"CheckMultiSig", -1, "OP_CHECKMULTISIG">>, <<"split", 2, "OP_SPLIT">>,
      <<"cat", 2, "OP_CAT">>, <<"xor", 2, "OP_XOR">>, <<"Bin2Num", 1, "OP_BIN2NUM">>,
      <<"Num2Bin", 1, "OP_NUM2BIN">>, <<"abs", 1, "OP_ABS">>, <<"max", 2, "OP_MAX">>,
      <<"min", 2, "OP_MIN">>, <<"within", 3, "OP_WITHIN">>, <<"depth", 0, "OP_DEPTH">>,
      <<"size", 1, "OP_SIZE">> }

(* is_native_function: the text is a name of the native table, whatever   *)
(* the token's type.                                                       *)
IsNative(v) == \E r \in NativeTable : r[1] = v

NoNode == [t |-> "none"]
R(tk, node) == [tk |-> tk, node |-> node]

(* token == "x": a std token with that text.                               *)
IsStd(t, v) == t.type = "std" /\ t.value = v

Comps == {"<", "<=", "==", "!=", ">=", ">"}

(* A statement node with the streampoints p1 and p2 its constructor gets.  *)
Spanned(node, p1, p2) == node @@ [sp |-> [start |-> p1.pos, end |-> p2.pos]]

(* declare_streampoint() before the statement's first token and after its *)
(* last, the call that made result r.                                      *)
StatementSpanned(r, p1) == [r EXCEPT !.node = Spanned(@, p1, Tellg(r.tk))]

(* A result followed by the token s: R(eat(s), node).                       *)
Closed(r, s) == R(Eat(r.tk, s), r.node)

(* The node of result r under a unary or binary operator.                  *)
UnaryOf(op, r) == R(r.tk, Unary(op, r.node))
BinOf(op, a, r) == R(r.tk, Bin(op, a, r.node))

(* eat_value: an integer or hex token is eaten and becomes a constant; any *)
(* other token is left in the stream and becomes a const_node of its type. *)
ValueOf(p) ==
    LET t == p.tok
    IN  CASE Halted(p.tk)        -> R(p.tk, NoNode)
          [] t.type = "integer"  -> R(GetToken(p.tk).tk, Const(t.num))
          [] t.type = "hex"      -> R(GetToken(p.tk).tk, HexConst(t.num))
          [] OTHER               -> R(p.tk, Literal(t.type))

EatValue(tk) == ValueOf(Peek(tk))

RECURSIVE EatNativeFunction(_, _), NativeFunctionNamed(_, _), EatArgsOffByOne(_, _, _, _),
          EatArgs(_, _, _, _), ArgsAfterPeek(_, _, _, _), ArgAppended(_, _, _, _),
          EatFactor(_), FactorOf(_), EatTerm(_), TermRest(_), TermOperator(_, _),
          EatExpression(_), ExpressionRest(_), ExpressionOperator(_, _),
          EatLogicalExpression(_), LogicalRest(_), LogicalOperator(_, _), EatLogicalValue(_),
          LogicalValueOf(_), EatComparison(_), ComparisonRest(_), ComparisonOperator(_, _),
          EatBlock(_), BlockRest(_, _), BlockStatement(_, _), StatementAppended(_, _),
          EatConditional(_), ConditionalThen(_, _), ConditionalBlock(_, _, _),
          ConditionalElse(_, _, _), ElseBranch(_), ElseOf(_), EatLoop(_), LoopFrom(_, _),
          LoopTo(_, _, _), LoopBody(_, _, _, _), LoopSpanned(_, _, _, _, _),
          EatAssignment(_), AssignmentValue(_), EatAssert(_), EatStatement(_), StatementOf(_)

(* eat_native_function: the name, looked up in the table given (assert,    *)
(* and in a release build a dereference of end()), "(", the arguments and *)
(* ")".                                                                    *)
NativeFunctionNamed(n, table) ==
    LET f     == n.tok.value
        entry == {r \in table : r[1] = f}
    IN  CASE Halted(n.tk) -> R(n.tk, NoNode)
          [] entry = {}   -> R(IF n.tk.debug THEN [n.tk EXCEPT !.abort = TRUE]
                               ELSE [n.tk EXCEPT !.ub = TRUE], NoNode)
          [] OTHER ->
               LET a == EatArgs(Eat(n.tk, "("), (CHOOSE r \in entry : TRUE)[2], 0, <<>>)
               IN  [Closed(a, ")") EXCEPT !.node = Call(f, @)]

EatNativeFunction(tk, table) == NativeFunctionNamed(EatTokenType(tk, "name"), table)

(* The argument loop: i < no_of_args, no_of_args = -1 being (size_t)-1;    *)
(* peek() is called before every argument, and a variable list stops at   *)
(* ")"; every argument after the first follows a ",".                      *)
ArgsAfterPeek(p, n, i, args) ==
    IF Halted(p.tk) \/ (IsStd(p.tok, ")") /\ n = -1) THEN R(p.tk, args)
    ELSE ArgAppended(EatExpression(IF i # 0 THEN Eat(p.tk, ",") ELSE p.tk), n, i, args)

ArgAppended(e, n, i, args) == EatArgs(e.tk, n, i + 1, SequenceAppend(args, e.node))

(* Bug variant: the argument loop run while i <= no_of_args.             *)
EatArgsOffByOne(tk, n, i, args) ==
    IF Halted(tk) \/ (n # -1 /\ i > n) THEN R(tk, args) ELSE ArgsAfterPeek(Peek(tk), n, i, args)

EatArgs(tk, n, i, args) ==
    IF Halted(tk) \/ (n # -1 /\ i >= n) THEN R(tk, args) ELSE ArgsAfterPeek(Peek(tk), n, i, args)

(* eat_factor                                                              *)
FactorOf(p) ==
    LET t == p.tok
    IN  CASE Halted(p.tk)   -> R(p.tk, NoNode)
          [] IsStd(t, "(")  -> Closed(EatExpression(Eat(p.tk, "(")), ")")
          [] IsStd(t, "-")  -> UnaryOf("-", EatFactor(Eat(p.tk, "-")))
          [] IsNative(t.value) -> EatNativeFunction(p.tk, NativeTable)
          [] t.type \in {"name", "extern"} -> R(EatTokenType(p.tk, "name").tk, Var(t.value))
          [] OTHER          -> EatValue(p.tk)

EatFactor(tk) == FactorOf(Peek(tk))

(* eat_term: factors joined by "*", "/", "%" or "||", left to right; a is  *)
(* the node so far and p the peeked token.                                 *)
TermOperator(a, p) ==
    LET op == p.tok.value
    IN  IF Halted(p.tk) \/ op \notin {"*", "/", "%", "||"} THEN R(p.tk, a)
        ELSE TermRest(BinOf(op, a, EatFactor(Eat(p.tk, op))))

TermRest(r) == TermOperator(r.node, Peek(r.tk))

EatTerm(tk) == TermRest(EatFactor(tk))

(* eat_expression: terms joined by "+" or "-", left to right.              *)
ExpressionOperator(a, p) ==
    LET op == p.tok.value
    IN  IF Halted(p.tk) \/ op \notin {"+", "-"} THEN R(p.tk, a)
        ELSE ExpressionRest(BinOf(op, a, EatTerm(Eat(p.tk, op))))

ExpressionRest(r) == ExpressionOperator(r.node, Peek(r.tk))

EatExpression(tk) == ExpressionRest(EatTerm(tk))

(* eat_logical_expression: the loop body returns, so one "and" or "or" at  *)
(* most is joined.                                                         *)
LogicalOperator(a, p) ==
    LET op == p.tok.value
    IN  IF Halted(p.tk) \/ op \notin {"or", "and"} THEN R(p.tk, a)
        ELSE BinOf(op, a, EatLogicalValue(Eat(p.tk, op)))

LogicalRest(r) == LogicalOperator(r.node, Peek(r.tk))

EatLogicalExpression(tk) == LogicalRest(EatLogicalValue(tk))

(* eat_logical_value                                                       *)
LogicalValueOf(p) ==
    LET t == p.tok
    IN  CASE Halted(p.tk)  -> R(p.tk, NoNode)
          [] IsStd(t, "(") -> Closed(EatLogicalExpression(Eat(p.tk, "(")), ")")
          [] IsStd(t, "!") -> UnaryOf("!", EatLogicalValue(Eat(p.tk, "!")))
          [] OTHER         -> EatComparison(p.tk)

EatLogicalValue(tk) == LogicalValueOf(Peek(tk))

(* eat_comparison: an expression, a relational operator, an expression;   *)
(* with no operator it throws while the offending token is stored.         *)
ComparisonOperator(a, p) ==
    LET op == p.tok.value
    IN  CASE Halted(p.tk)    -> R(p.tk, NoNode)
          [] op \notin Comps -> R(Throw(p.tk, "UnexpectedToken"), NoNode)
          [] OTHER           -> BinOf(op, a, EatExpression(Eat(p.tk, op)))

ComparisonRest(r) == ComparisonOperator(r.node, Peek(r.tk))

EatComparison(tk) == ComparisonRest(EatExpression(tk))

(* eat_block: "{", statements until a peeked "}", "}".                     *)
BlockStatement(p, stmts) ==
    IF Halted(p.tk) \/ IsStd(p.tok, "}") THEN R(p.tk, stmts)
    ELSE StatementAppended(EatStatement(p.tk), stmts)

StatementAppended(s, stmts) == BlockRest(s.tk, SequenceAppend(stmts, s.node))

BlockRest(tk, stmts) == BlockStatement(Peek(tk), stmts)

EatBlock(tk) == Closed(BlockRest(Eat(tk, "{"), <<>>), "}")

(* eat_conditional: p1, the condition c, ")", p2, the block a, then ws()  *)
(* and an "else" block unless the text is over.                            *)
ElseOf(p) ==
    IF ~Halted(p.tk) /\ p.tok.value = "else" THEN EatBlock(Eat(p.tk, "else")) ELSE R(p.tk, <<>>)

ElseBranch(e) == IF e.eof THEN R(e.tk, <<>>) ELSE ElseOf(Peek(e.tk))

ConditionalElse(c, p, a) ==
    [ElseBranch(Eof(Ws(a.tk))) EXCEPT !.node = Spanned(If(c, a.node, @), p[1], p[2])]

ConditionalBlock(c, p1, t) == ConditionalElse(c, <<p1, Tellg(t)>>, EatBlock(t))

ConditionalThen(p1, c) == ConditionalBlock(c.node, p1, Eat(c.tk, ")"))

EatConditional(tk) == ConditionalThen(Tellg(tk), EatLogicalExpression(Eat(Eat(tk, "if"), "(")))

(* eat_loop: p1, the variable v, the bounds (integer tokens read with      *)
(* atoi), "]", p2 and the block.                                           *)
LoopSpanned(v, a, hi, p1, t) ==
    [EatBlock(t) EXCEPT !.node = Spanned(For(v, a, hi, @), p1, Tellg(t))]

LoopBody(v, a, b, p1) == LoopSpanned(v, a, b.tok.num, p1, Eat(b.tk, "]"))

LoopTo(v, a, p1) == LoopBody(v, a.tok.num, EatTokenType(Eat(a.tk, ".."), "integer"), p1)

LoopFrom(v, p1) == LoopTo(v.tok.value, EatTokenType(Eat(Eat(v.tk, "in"), "["), "integer"), p1)

EatLoop(tk) == LoopFrom(EatTokenType(Eat(tk, "for"), "name"), Tellg(tk))

(* eat_assignment: p1, the name, "=", the expression, ";", p2.             *)
AssignmentValue(n) == [Closed(EatExpression(Eat(n.tk, "=")), ";") EXCEPT !.node = Assign(n.tok.value, @)]

EatAssignment(tk) == StatementSpanned(AssignmentValue(EatTokenType(tk, "name")), Tellg(tk))

(* eat_assert: p1, Assert ( condition ) ;, p2.                             *)
EatAssert(tk) ==
    StatementSpanned([Closed(Closed(EatLogicalExpression(Eat(Eat(tk, "Assert"), "(")), ")"), ";")
                        EXCEPT !.node = AssertStmt(@)], Tellg(tk))

(* eat_statement: a statement that starts with a native function's name   *)
(* is looked up in the special table, and its node is discarded.  ws()    *)
(* follows every statement.                                                *)
StatementOf(p) ==
    LET t == p.tok
    IN  CASE Halted(p.tk)       -> R(p.tk, NoNode)
          [] IsStd(t, "Assert") -> EatAssert(p.tk)
          [] IsNative(t.value)  -> R(EatNativeFunction(p.tk, SpecialTable).tk, NoNode)
          [] IsStd(t, "if")     -> EatConditional(p.tk)
          [] IsStd(t, "for")    -> EatLoop(p.tk)
          [] OTHER              -> EatAssignment(p.tk)

EatStatement(tk) == [StatementOf(Peek(tk)) EXCEPT !.tk = Ws(@)]
=============================================================================
