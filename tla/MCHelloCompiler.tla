-------------------------- MODULE MCHelloCompiler --------------------------
(***************************************************************************)
(* Model-checking instances of HelloCompiler: the statements the abstract  *)
(* parser may hand the generator.  Conditions are comparisons, as          *)
(* eat_logical_value/eat_comparison build them.                            *)
(***************************************************************************)
EXTENDS HelloCompiler

MCNames == {"x", "y", "i", "j"}

(* Right-hand sides: both integer encodings (0 is OP_0, 1 a data push),    *)
(* reads of a deep and a shallow slot, tos, operators mixing them, and a   *)
(* builtin call as the whole right-hand side.                              *)
MCExprs ==
    { Const(0), Const(1), Var("x"), Var("y"), Var("tos"),
      Bin("+", Var("x"), Const(1)), Bin("-", Var("y"), Var("x")),
      Call("max", <<Var("x"), Var("y")>>) }

MCAssigns == { Assign(l, e) : l \in {"x", "y", "tos"}, e \in MCExprs }

(* Loops the unroller handles as the spec says: variable i, first <= last. *)
MCLoopBodies == { <<>>, <<Assign("x", Var("i"))>>, <<Assign("y", Bin("+", Var("x"), Var("i")))>> }

MCLoops == { For("i", lo, hi, b) : <<lo, hi>> \in {<<0, 1>>, <<1, 1>>}, b \in MCLoopBodies }

(* Conditionals whose branches assign only variables their condition      *)
(* reads, so every name is allocated before the branch.                    *)
MCIfs ==
    { If(Bin("<", Var("x"), Const(1)), <<Assign("x", Bin("+", Var("x"), Const(1)))>>,
                                       <<Assign("x", Const(0))>>),
      If(Bin(">=", Var("y"), Var("x")), <<Assign("y", Var("x")), Assign("tos", Var("y"))>>, <<>>) }

MCAsserts == { AssertStmt(Bin("==", Var("x"), Const(1))) }

MCStatements == MCAssigns \cup MCLoops \cup MCIfs \cup MCAsserts

(* Straight-line assignments only, for the peephole rule.                  *)
MCStraightLine == MCAssigns

(* A descending loop, [1..0].                                              *)
MCDescending == MCAssigns \cup { For("i", 1, 0, <<Assign("x", Var("i"))>>) }

(* A loop over a variable other than i whose body reads it.                *)
MCLoopVarJ == { Assign("x", Const(1)), For("j", 0, 1, <<Assign("x", Var("j"))>>) }

(* The example of spec section 8: a variable first assigned in a branch.  *)
MCBranchDecl ==
    { Assign("x", Const(0)), Assign("x", Const(1)),
      If(Bin("<", Var("x"), Const(1)), <<Assign("y", Const(1))>>, <<>>) }

(* A builtin call as the left operand of an operator.                      *)
MCCallOperand ==
    { Assign("x", Const(1)), Assign("y", Bin("+", Call("abs", <<Var("x")>>), Const(1))) }

(* The comparison "!=".                                                    *)
MCNotEqual ==
    { Assign("x", Const(1)), Assign("y", Const(0)),
      If(Bin("!=", Var("x"), Var("y")), <<Assign("x", Const(0))>>, <<>>) }

(* Negation: -y, and -1 as the first statement of a unit.                  *)
MCNegation ==
    { Assign("y", Const(1)), Assign("x", Unary("-", Var("y"))) }

MCNegatedFirst == { Assign("x", Unary("-", Const(1))) }

(* A condition joined with "and".                                          *)
MCAnd ==
    { Assign("x", Const(0)),
      If(Bin("and", Bin("<", Var("x"), Const(1)), Bin(">", Var("x"), Const(1))),
         <<Assign("x", Const(1))>>, <<>>) }
=============================================================================
