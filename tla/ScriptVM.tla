------------------------------ MODULE ScriptVM ------------------------------
(***************************************************************************)
(* The external script evaluator (Bitcoin's EvalScript) that consumes the  *)
(* instruction sequence the compiler emits.  Only the part of it the       *)
(* compiler relies on is modelled: a primary stack and an alt stack of     *)
(* numbers, the execution-flag stack vfExec of IF/ELSE/ENDIF, and the      *)
(* opcodes the code generator emits.  An instruction is a record           *)
(*     [kind |-> "op",   op  |-> <opcode name>, stmt |-> <span index>]     *)
(*     [kind |-> "data", val |-> <number>,      stmt |-> <span index>]     *)
(* A data push carries the number its minimal encoding stands for; the     *)
(* encoding is injective, so nothing is lost by keeping the number.  The   *)
(* top of a stack is the last element of its sequence.  The evaluator runs *)
(* with SCRIPT_VERIFY_DISCOURAGE_UPGRADABLE_NOPS (executable::flags), so   *)
(* an executed OP_NOP4 is an error.                                        *)
(***************************************************************************)
EXTENDS Integers, Sequences, SequencesExt

FlowOps   == {"OP_IF", "OP_NOTIF", "OP_ELSE", "OP_ENDIF"}
StackOps  == {"OP_0", "OP_TOALTSTACK", "OP_FROMALTSTACK", "OP_DUP",
              "OP_DROP", "OP_SWAP", "OP_ROLL"}
UnaryOps  == {"OP_0NOTEQUAL", "OP_ABS"}
BinaryOps == {"OP_ADD", "OP_SUB", "OP_LESSTHAN", "OP_LESSTHANOREQUAL",
              "OP_EQUAL", "OP_GREATERTHANOREQUAL", "OP_GREATERTHAN",
              "OP_MAX", "OP_MIN"}
(* Opcodes this model evaluates; any other one is treated as an error.    *)
Opcodes   == FlowOps \cup StackOps \cup UnaryOps \cup BinaryOps \cup {"OP_NOP4"}

Machine   == [main : Seq(Int), alt : Seq(Int), exec : Seq(BOOLEAN), err : BOOLEAN]

EmptyMachine == [main |-> <<>>, alt |-> <<>>, exec |-> <<>>, err |-> FALSE]

Fail(m) == [m EXCEPT !.err = TRUE]

Push(m, v) == [m EXCEPT !.main = Append(@, v)]

Bool(b) == IF b THEN 1 ELSE 0

(* The element at depth d of a stack (depth 0 is the top).                 *)
AtDepth(s, d) == s[Len(s) - d]

(* OP_ROLL with argument n: the item n below the top is moved to the top.  *)
RollBy(s, n) ==
    LET k == Len(s) - n
    IN  SubSeq(s, 1, k - 1) \o SubSeq(s, k + 1, Len(s)) \o <<s[k]>>

Unary(o, a) == IF o = "OP_ABS" THEN (IF a < 0 THEN -a ELSE a) ELSE Bool(a # 0)

Binary(o, a, b) ==
    CASE o = "OP_ADD"                -> a + b
      [] o = "OP_SUB"                -> a - b
      [] o = "OP_LESSTHAN"           -> Bool(a < b)
      [] o = "OP_LESSTHANOREQUAL"    -> Bool(a <= b)
      [] o = "OP_EQUAL"              -> Bool(a = b)
      [] o = "OP_GREATERTHANOREQUAL" -> Bool(a >= b)
      [] o = "OP_GREATERTHAN"        -> Bool(a > b)
      [] o = "OP_MAX"                -> IF a >= b THEN a ELSE b
      [] o = "OP_MIN"                -> IF a <= b THEN a ELSE b

(* A branch is executing when every enclosing IF chose it.                *)
Executing(m) == \A k \in DOMAIN m.exec : m.exec[k]

(* IF, NOTIF, ELSE and ENDIF, which run whether or not the branch does.   *)
Flow(m, o) ==
  LET s == m.main
  IN
  CASE o \in {"OP_IF", "OP_NOTIF"} ->
         IF ~Executing(m) THEN [m EXCEPT !.exec = Append(@, FALSE)]
         ELSE IF s = <<>> THEN Fail(m)
         ELSE LET c == (Last(s) # 0) = (o = "OP_IF")
              IN  [m EXCEPT !.main = Front(s), !.exec = Append(@, c)]
    [] o = "OP_ELSE" ->
         IF m.exec = <<>> THEN Fail(m)
         ELSE [m EXCEPT !.exec = Append(Front(@), ~Last(@))]
    [] o = "OP_ENDIF" ->
         IF m.exec = <<>> THEN Fail(m) ELSE [m EXCEPT !.exec = Front(@)]

(* Any other instruction, in an executing branch.  Popping an empty stack *)
(* or an OP_ROLL argument out of range is an error and stops evaluation.  *)
Exec(m, ins) ==
  LET s == m.main
  IN
  IF ins.kind = "data" THEN Push(m, ins.val)
  ELSE CASE ins.op = "OP_0"            -> Push(m, 0)
         [] ins.op = "OP_TOALTSTACK"   ->
              IF s = <<>> THEN Fail(m)
              ELSE [m EXCEPT !.main = Front(s), !.alt = Append(@, Last(s))]
         [] ins.op = "OP_FROMALTSTACK" ->
              IF m.alt = <<>> THEN Fail(m)
              ELSE [m EXCEPT !.main = Append(s, Last(m.alt)), !.alt = Front(@)]
         [] ins.op = "OP_DUP"  ->
              IF s = <<>> THEN Fail(m) ELSE Push(m, Last(s))
         [] ins.op = "OP_DROP" ->
              IF s = <<>> THEN Fail(m) ELSE [m EXCEPT !.main = Front(s)]
         [] ins.op = "OP_SWAP" ->
              IF Len(s) < 2 THEN Fail(m)
              ELSE [m EXCEPT !.main = Front(Front(s)) \o <<Last(s), AtDepth(s, 1)>>]
         [] ins.op = "OP_ROLL" ->
              IF s = <<>> THEN Fail(m)
              ELSE LET n == Last(s)  r == Front(s)
                   IN  IF n < 0 \/ n >= Len(r) THEN Fail(m)
                       ELSE [m EXCEPT !.main = RollBy(r, n)]
         [] ins.op \in UnaryOps ->
              IF s = <<>> THEN Fail(m)
              ELSE [m EXCEPT !.main = Append(Front(s), Unary(ins.op, Last(s)))]
         [] ins.op \in BinaryOps ->
              IF Len(s) < 2 THEN Fail(m)
              ELSE [m EXCEPT !.main = Append(Front(Front(s)),
                                             Binary(ins.op, AtDepth(s, 1), Last(s)))]
         [] OTHER -> Fail(m)

Step(m, ins) ==
  IF m.err THEN m
  ELSE IF ins.kind = "op" /\ ins.op \in FlowOps THEN Flow(m, ins.op)
  ELSE IF Executing(m) THEN Exec(m, ins)
  ELSE m

(* Evaluating prog[k..] from machine m; the machine is forced at each step *)
(* and evaluation stops at the first error, as EvalScript does.           *)
RECURSIVE RunFrom(_, _, _)
RunFrom(m, prog, k) ==
  IF k > Len(prog) THEN m
  ELSE LET m1 == Step(m, prog[k])
       IN  IF m1.err THEN m1 ELSE RunFrom(m1, prog, k + 1)

(* Evaluating a whole instruction sequence from empty stacks; an IF left  *)
(* open at the end is an error.                                           *)
Run(prog) ==
  LET m == RunFrom(EmptyMachine, prog, 1)
  IN  IF m.exec # <<>> THEN Fail(m) ELSE m

=============================================================================
