------------------------------ MODULE HelloLang ------------------------------
(***************************************************************************)
(* The Hello language: its abstract syntax (the AST node kinds of AST.h)   *)
(* and the meaning the spec gives a compilation unit (sections 4.2, 4.3,   *)
(* 4.5, 7 and 8).  The meaning is the abstract specification the code      *)
(* generator is checked against: what the primary stack and the variables *)
(* hold after the unit runs, and which static and run-time faults it has. *)
(*                                                                         *)
(* A block is a sequence of statements: eat_block returns no node for an   *)
(* empty block, the node itself for one statement and a right-leaning     *)
(* sequence node for more, all of which generate their statements in      *)
(* order.                                                                  *)
(***************************************************************************)
EXTENDS Integers, Sequences, SequencesExt, TLC

CONSTANT AssertsOn   \* the ASSERTS_ON option bit

(***************************************************************************)
(* AST nodes                                                               *)
(***************************************************************************)
Const(c)             == [t |-> "const", c |-> c]      \* an integer constant
HexConst(c)          == [t |-> "hex", c |-> c]        \* a hex constant, c its script number
Literal(ty)          == [t |-> "literal", ty |-> ty]  \* const_node of a token of type ty that is no value
Var(n)               == [t |-> "var", n |-> n]          \* n = "tos": tos
Unary(op, a)         == [t |-> "unary", op |-> op, a |-> a]
Bin(op, a, b)        == [t |-> "bin", op |-> op, a |-> a, b |-> b]
Call(f, args)        == [t |-> "call", f |-> f, args |-> args]
Assign(lhs, rhs)     == [t |-> "assign", lhs |-> lhs, rhs |-> rhs]
If(c, a, b)          == [t |-> "if", cond |-> c, then |-> a, else |-> b]
For(v, lo, hi, body) == [t |-> "for", var |-> v, lo |-> lo, hi |-> hi, body |-> body]
AssertStmt(c)        == [t |-> "assert", cond |-> c]

(* sequence::append nests each further node as sequence(b, s), and         *)
(* sequence::generate visits a before b, so a block or an argument list    *)
(* generates its nodes in the order they were appended.                    *)
SequenceAppend(blk, node) == Append(blk, node)

(* The statements of a statement's blocks, and of theirs.                  *)
RECURSIVE SubStatements(_)
SubStatements(s) ==
    LET blocks == CASE s.t = "if"  -> s.then \o s.else
                    [] s.t = "for" -> s.body
                    [] OTHER       -> <<>>
    IN  ToSet(blocks) \cup UNION {SubStatements(blocks[k]) : k \in DOMAIN blocks}

(* A statement without the span sp the parser records in it, and a block  *)
(* of such statements: the nodes as the grammar builds them.              *)
RECURSIVE Unspanned(_), UnspannedBlock(_)
Unspanned(s) ==
    CASE s.t = "if"     -> If(s.cond, UnspannedBlock(s.then), UnspannedBlock(s.else))
      [] s.t = "for"    -> For(s.var, s.lo, s.hi, UnspannedBlock(s.body))
      [] s.t = "assign" -> Assign(s.lhs, s.rhs)
      [] s.t = "assert" -> AssertStmt(s.cond)
      [] OTHER          -> s

UnspannedBlock(b) == [k \in DOMAIN b |-> Unspanned(b[k])]

(***************************************************************************)
(* Meaning of a unit                                                       *)
(*   declared      names assigned earlier in the text (generation order)   *)
(*   vars          the value of each variable assigned on the path run     *)
(*   main          the primary stack                                       *)
(*   undefinedRead a read of a name never assigned before it in the text   *)
(*   unbound       a read, on the path run, of a variable not yet assigned *)
(*   underflow     a read of tos with an empty primary stack               *)
(*   assertFailed  an enabled Assert whose condition was false; the script *)
(*                 stops there                                             *)
(*   illFormed     a node the grammar does not have (a Literal)            *)
(* Truth values are 1 and 0; a condition holds when it is not 0.          *)
(***************************************************************************)
SemInit == [declared |-> {}, vars |-> <<>>, main |-> <<>>, undefinedRead |-> FALSE,
            unbound |-> FALSE, underflow |-> FALSE, assertFailed |-> FALSE,
            illFormed |-> FALSE]

Push(m, v) == [m EXCEPT !.main = Append(@, v)]
Pop(m)     == [m EXCEPT !.main = Front(@)]
Bool(b)    == IF b THEN 1 ELSE 0

Apply1(op, a) == CASE op = "-"   -> -a
                   [] op = "!"   -> Bool(a = 0)
                   [] op = "abs" -> IF a < 0 THEN -a ELSE a

Apply2(op, a, b) ==
    CASE op = "+"   -> a + b            [] op = "-"   -> a - b
      [] op = "<"   -> Bool(a < b)      [] op = "<="  -> Bool(a <= b)
      [] op = "=="  -> Bool(a = b)      [] op = "!="  -> Bool(a # b)
      [] op = ">="  -> Bool(a >= b)     [] op = ">"   -> Bool(a > b)
      [] op = "and" -> Bool(a # 0 /\ b # 0)
      [] op = "or"  -> Bool(a # 0 \/ b # 0)
      [] op = "max" -> IF a >= b THEN a ELSE b
      [] op = "min" -> IF a <= b THEN a ELSE b

(* An expression leaves its value on the primary stack.                    *)
RECURSIVE SemExpr(_, _)
SemExpr(m, e) ==
    CASE e.t \in {"const", "hex"} -> Push(m, e.c)
      [] e.t = "literal" -> Push([m EXCEPT !.illFormed = TRUE], 0)
      [] e.t = "var" /\ e.n = "tos" ->
            IF m.main = <<>> THEN Push([m EXCEPT !.underflow = TRUE], 0)
            ELSE Push(m, Last(m.main))
      [] e.t = "var" ->
            LET m1 == [m EXCEPT !.undefinedRead = @ \/ e.n \notin m.declared,
                                !.unbound = @ \/ e.n \notin DOMAIN m.vars]
            IN  Push(m1, IF e.n \in DOMAIN m.vars THEN m.vars[e.n] ELSE 0)
      [] e.t = "unary" \/ (e.t = "call" /\ Len(e.args) = 1) ->
            LET m1 == SemExpr(m, IF e.t = "unary" THEN e.a ELSE e.args[1])
                op == IF e.t = "unary" THEN e.op ELSE e.f
            IN  Push(Pop(m1), Apply1(op, Last(m1.main)))
      [] e.t = "bin" \/ e.t = "call" ->
            LET a  == IF e.t = "bin" THEN e.a ELSE e.args[1]
                b  == IF e.t = "bin" THEN e.b ELSE e.args[2]
                op == IF e.t = "bin" THEN e.op ELSE e.f
                m1 == SemExpr(SemExpr(m, a), b)
                s  == m1.main
            IN  Push([m1 EXCEPT !.main = SubSeq(s, 1, Len(s) - 2)],
                     Apply2(op, s[Len(s) - 1], Last(s)))

(* The loop variable runs from first to last, ascending or descending.     *)
SpecRange(first, last) ==
    IF first <= last THEN [k \in 1..(last - first + 1) |-> first + k - 1]
                     ELSE [k \in 1..(first - last + 1) |-> first - k + 1]

Bind(m, n, v) == [m EXCEPT !.vars = (n :> v) @@ @, !.declared = @ \cup {n}]

(* The names a block assigns, which count as assigned for every statement *)
(* generated after it, whichever path runs.                                *)
RECURSIVE Declares(_)
Declares(s) ==
    CASE s.t = "assign" -> IF s.lhs = "tos" THEN {} ELSE {s.lhs}
      [] s.t = "if"     -> UNION {Declares(b) : b \in ToSet(s.then \o s.else)}
      [] s.t = "for"    -> {s.var} \cup UNION {Declares(b) : b \in ToSet(s.body)}
      [] OTHER          -> {}

(* The reads of a block that is not run still count for undefinedRead.    *)
RECURSIVE Reads(_)
Reads(x) ==
    CASE x.t = "var"    -> IF x.n = "tos" THEN {} ELSE {x.n}
      [] x.t = "unary"  -> Reads(x.a)
      [] x.t = "bin"    -> Reads(x.a) \cup Reads(x.b)
      [] x.t = "call"   -> UNION {Reads(x.args[k]) : k \in DOMAIN x.args}
      [] OTHER          -> {}

RECURSIVE SemStmt(_, _), SemBlock(_, _), SemSkip(_, _), SemLoop(_, _, _)

(* A block that is generated but not run: its reads are checked against   *)
(* what was assigned before them in the text, and its assignments count.  *)
SemSkip(m, blk) ==
    IF blk = <<>> THEN m
    ELSE LET s  == Head(blk)
             rd == CASE s.t = "assign" -> Reads(s.rhs)
                     [] s.t = "if"     -> Reads(s.cond)
                     [] s.t = "assert" -> IF AssertsOn THEN Reads(s.cond) ELSE {}
                     [] OTHER          -> {}
             m1 == [m EXCEPT !.undefinedRead = @ \/ ~(rd \subseteq m.declared)]
             m2 == CASE s.t = "if"  -> SemSkip(SemSkip(m1, s.then), s.else)
                     [] s.t = "for" -> SemSkip([m1 EXCEPT !.declared = @ \cup {s.var}], s.body)
                     [] OTHER       -> m1
         IN  SemSkip([m2 EXCEPT !.declared = @ \cup Declares(s)], Tail(blk))

(* Once an Assert has failed nothing more runs; the rest is only checked. *)
SemBlock(m, blk) ==
    IF blk = <<>> THEN m
    ELSE IF m.assertFailed THEN SemSkip(m, blk)
    ELSE SemBlock(SemStmt(m, Head(blk)), Tail(blk))

SemLoop(m, s, values) ==
    IF values = <<>> THEN m
    ELSE SemLoop(SemBlock(Bind(m, s.var, Head(values)), s.body), s, Tail(values))

SemStmt(m, s) ==
    CASE s.t = "assign" ->
            LET m1 == SemExpr(m, s.rhs)
            IN  IF s.lhs = "tos" THEN m1 ELSE Bind(Pop(m1), s.lhs, Last(m1.main))
      [] s.t = "if" ->
            LET m1 == SemExpr(m, s.cond)
                m2 == Pop(m1)
                c  == Last(m1.main) # 0
                ran == SemBlock(IF c THEN m2 ELSE SemSkip(m2, s.then),
                                IF c THEN s.then ELSE s.else)
            IN  [IF c THEN SemSkip(ran, s.else) ELSE ran
                    EXCEPT !.declared = @ \cup Declares(s)]
      [] s.t = "for" -> SemLoop(m, s, SpecRange(s.lo, s.hi))
      [] s.t = "assert" ->
            IF ~AssertsOn THEN m
            ELSE LET m1 == SemExpr(m, s.cond)
                 IN  [Pop(m1) EXCEPT !.assertFailed = Last(m1.main) = 0]

(* A unit the spec gives a meaning without faults.                         *)
Sound(m) == ~m.undefinedRead /\ ~m.unbound /\ ~m.underflow /\ ~m.illFormed

=============================================================================
