---------------------------- MODULE HelloCompiler ----------------------------
(***************************************************************************)
(* The code generator of the Hello compiler (src/HelloDll): the statement  *)
(* loop of Hello_compiler::compile_internal, the generate() methods of     *)
(* AST.cpp, the variable allocator (index_of, assign_from_top_of_stack,    *)
(* copy_to_top_of_stack) and the instruction pipeline with its peephole    *)
(* rule (instruction_pipeline::operator<<).                                *)
(*                                                                         *)
(* The parser is abstracted: each step hands the generator one top-level   *)
(* statement, as eat_statement() returns it, drawn from the constant set   *)
(* Statements, or fails with a parse error.  A compilation unit holds at   *)
(* most MaxStmts statements and one compiler object compiles at most       *)
(* MaxCompiles units (compile() calls reset() first).                      *)
(*                                                                         *)
(* Generation is a chain of operators threading a compiler-state record    *)
(*   cs = [sym, names, stmts, pipe, emitted, ok, thrown, crashed, ub,     *)
(*         binds]                                                          *)
(* through the calls in the order the C++ makes them.  ok is the bool the *)
(* last generate() returned; thrown is a runtime_error in flight and       *)
(* crashed an assert() that aborted the process, after either of which     *)
(* nothing more runs; ub records a back() of the empty pipeline.  emitted  *)
(* is a history of every instruction handed to operator<<, before the      *)
(* peephole rule touched the pipeline, and binds of the bindings the loop  *)
(* unroller made.                                                          *)
(***************************************************************************)
EXTENDS HelloParser, Functions

VM == INSTANCE ScriptVM

CONSTANTS
    Names,        \* variable names that statements mention ("i" among them)
    Statements,   \* top-level statements the parser can produce
    MaxStmts,     \* statements per compilation unit
    MaxCompiles   \* compilation units compiled by one compiler object

ASSUME MaxStmts \in Nat /\ MaxCompiles \in Nat \ {0} /\ AssertsOn \in BOOLEAN
ASSUME "tos" \notin Names /\ "i" \in Names

(* Opcode of each binary operator symbol, as binary_op::generate maps it;  *)
(* "and" and "or", which the parser also builds, are missing.              *)
BinOpcode ==
    [ s \in {"+", "-", "*", "/", "%", "<", "<=", "==", "!=", ">=", ">", "||"} |->
        CASE s = "+"  -> "OP_ADD"             [] s = "-"  -> "OP_SUB"
          [] s = "*"  -> "OP_MUL"             [] s = "/"  -> "OP_DIV"
          [] s = "%"  -> "OP_MOD"             [] s = "<"  -> "OP_LESSTHAN"
          [] s = "<=" -> "OP_LESSTHANOREQUAL" [] s = "==" -> "OP_EQUAL"
          [] s = "!=" -> "OP_0NOTEQUAL"       [] s = ">=" -> "OP_GREATERTHANOREQUAL"
          [] s = ">"  -> "OP_GREATERTHAN"     [] s = "||" -> "OP_CAT" ]

NativeOpcode(f) == (CHOOSE r \in NativeTable : r[1] = f)[3]

VARIABLES
    symtab,    \* symbol_table's map, in slot order: slot k-1 holds symtab[k]
    names,     \* symbol_table.variable_names, which reset() leaves alone
    stmts,     \* the stmt table: the AST node that declared each span
    pipe,      \* the instruction pipeline
    emitted,   \* history: every instruction handed to operator<<
    status,    \* "idle", "compiling", "succeeded", "failed" or "crashed"
    diag,      \* kinds of message in compile_internal's err_msg
    compiles,  \* compile() calls so far
    parsed,    \* statements of the current unit consumed so far
    build,     \* "debug" (assert() aborts) or "release" (NDEBUG)
    sem,       \* history: the unit's meaning (HelloLang)
    lastLoop   \* history: the last top-level for loop and its bindings

vars == <<symtab, names, stmts, pipe, emitted, status, diag, compiles, parsed, build, sem, lastLoop>>

(***************************************************************************)
(* instruction_pipeline                                                    *)
(***************************************************************************)

Stopped(cs) == cs.thrown \/ cs.crashed

(* generating_stmt = stmts.size()-1; -1 stands for the size_t wrap-around  *)
(* when no span has been declared yet.                                     *)
Tag(cs) == Len(cs.stmts) - 1

DeclareStmt(cs, node) ==
    IF Stopped(cs) THEN cs ELSE [cs EXCEPT !.stmts = Append(@, node)]

(* instruction::operator==(opcodetype) compares its parameter with itself, *)
(* so any opcode instruction equals any opcode.                            *)
OpEquals(ins, o) == ins.kind = "op" /\ o = o

(* The opcode whose presence at back() the peephole rule tests for.       *)
Cancelled == [o \in {"OP_TOALTSTACK", "OP_FROMALTSTACK"} |->
                IF o = "OP_TOALTSTACK" THEN "OP_FROMALTSTACK" ELSE "OP_TOALTSTACK"]

(* operator<<(opcodetype): the optimiser is forced on (options is a local *)
(* set to OPTIMISER_ON); a matching back() is popped and the new opcode is *)
(* pushed all the same.  back() of an empty pipeline is undefined; the     *)
(* model records it and goes on as if nothing matched.                     *)
EmitOp(cs, o) ==
    IF Stopped(cs) THEN cs ELSE
    LET ins   == [kind |-> "op", op |-> o, stmt |-> Tag(cs)]
        tests == o \in DOMAIN Cancelled
        kept  == IF tests /\ cs.pipe # <<>> /\ OpEquals(Last(cs.pipe), Cancelled[o])
                 THEN Front(cs.pipe) ELSE cs.pipe
    IN  [cs EXCEPT !.pipe = Append(kept, ins), !.emitted = Append(@, ins),
                   !.ub = @ \/ (tests /\ cs.pipe = <<>>)]

(* operator<<(valtype) and operator<<(CScriptNum): a data push.            *)
EmitData(cs, v) ==
    IF Stopped(cs) THEN cs ELSE
    LET ins == [kind |-> "data", val |-> v, stmt |-> Tag(cs)]
    IN  [cs EXCEPT !.pipe = Append(@, ins), !.emitted = Append(@, ins)]

(* operator<<(int): zero is pushed as OP_0 with push_back, bypassing the   *)
(* peephole rule; any other number as its minimal encoding.                *)
EmitInt(cs, n) ==
    IF Stopped(cs) THEN cs ELSE
    LET ins == IF n = 0 THEN [kind |-> "op", op |-> "OP_0", stmt |-> Tag(cs)]
                        ELSE [kind |-> "data", val |-> n, stmt |-> Tag(cs)]
    IN  [cs EXCEPT !.pipe = Append(@, ins), !.emitted = Append(@, ins)]

RECURSIVE EmitOps(_, _)
EmitOps(cs, ops) == IF ops = <<>> THEN cs ELSE EmitOps(EmitOp(cs, Head(ops)), Tail(ops))

(***************************************************************************)
(* Variable allocator                                                      *)
(***************************************************************************)

(* symbol_table::insert: the map gives the name the slot map::size(),     *)
(* variable_names gets it pushed back, and the index returned is          *)
(* variable_names.size() - 1.  The assert that both have the same size    *)
(* aborts a debug build when variable_names outlived a reset().           *)
SymInsert(cs, name) ==
    [cs |-> [cs EXCEPT !.sym = Append(@, name), !.names = Append(@, name),
                       !.crashed = @ \/ (build = "debug" /\ Len(cs.names) # Len(cs.sym))],
     idx |-> Len(cs.names), found |-> FALSE]

(* index_of: the map's slot of a name, inserting it if absent.            *)
IndexOf(cs, name) ==
    LET k == SelectInSeq(cs.sym, LAMBDA x : x = name)
    IN  IF k # 0 THEN [cs |-> cs, idx |-> k - 1, found |-> TRUE]
        ELSE SymInsert(cs, name)

Times(o, n) == [j \in 1..n |-> o]

(* OP_ROLL by k when k > 0.                                                *)
RollBy(cs, k) == IF k > 0 THEN EmitOp(EmitData(cs, k), "OP_ROLL") ELSE cs

(* Bug variant: OP_ROLL by table_size - idx instead of table_size-1-idx. *)
AssignToSlotRollOffByOne(r) ==
    LET n  == Len(r.cs.sym)
        up == n - r.idx
    IN  IF r.found
        THEN EmitOps(RollBy(EmitOp(EmitOps(r.cs, Times("OP_FROMALTSTACK", up)), "OP_DROP"),
                            n - r.idx),
                     Times("OP_TOALTSTACK", up))
        ELSE EmitOp(r.cs, "OP_TOALTSTACK")

(* assign_from_top_of_stack: move the primary-stack top into the slot r   *)
(* that index_of returned.  The relocate_variable_* and                    *)
(* declare_new_variable hooks it calls are empty.                          *)
AssignToSlot(r) ==
    LET n  == Len(r.cs.sym)          \* table_size
        up == n - r.idx              \* slots at or above the target
    IN  IF r.found
        THEN EmitOps(RollBy(EmitOp(EmitOps(r.cs, Times("OP_FROMALTSTACK", up)), "OP_DROP"),
                            n - 1 - r.idx),
                     Times("OP_TOALTSTACK", up))
        ELSE EmitOp(r.cs, "OP_TOALTSTACK")

AssignFromTop(cs, name) == IF Stopped(cs) THEN cs ELSE AssignToSlot(IndexOf(cs, name))

(* The copy itself: FROMALTSTACK down to the slot, DUP TOALTSTACK, then   *)
(* SWAP TOALTSTACK for each slot above it.                                 *)
CopySlot(cs, up) ==
    EmitOps(EmitOps(cs, Times("OP_FROMALTSTACK", up)),
            <<"OP_DUP", "OP_TOALTSTACK">>
              \o [j \in 1..2 * (up - 1) |->
                    IF j % 2 = 1 THEN "OP_SWAP" ELSE "OP_TOALTSTACK"])

(* Bug variant: copy_to_top_of_stack without the !found check.           *)
CopyFromSlotUnchecked(r) == CopySlot(r.cs, Len(r.cs.sym) - r.idx)

(* copy_to_top_of_stack: copy a slot onto the primary stack; an unknown    *)
(* name (inserted by index_of all the same) throws runtime_error.          *)
CopyFromSlot(r) ==
    IF ~r.found THEN [r.cs EXCEPT !.thrown = TRUE]
    ELSE CopySlot(r.cs, Len(r.cs.sym) - r.idx)

CopyToTop(cs, name) == IF Stopped(cs) THEN cs ELSE CopyFromSlot(IndexOf(cs, name))

(* assign_value_to_variable(name, int), used only by the loop unroller.    *)
Binding(c, stopped, b) == IF stopped THEN c ELSE [c EXCEPT !.binds = Append(@, b)]

AssignValue(cs, name, i) == Binding(AssignFromTop(EmitInt(cs, i), name), Stopped(cs), <<name, i>>)

(***************************************************************************)
(* generate() of the AST nodes                                             *)
(***************************************************************************)

Returning(cs, b) == [cs EXCEPT !.ok = b]

(* The values for_loop::generate unrolls: ascending when first < last,     *)
(* otherwise from last down to first.                                      *)
CodeRange(first, last) ==
    IF first < last THEN [k \in 1..(last - first + 1) |-> first + k - 1]
                    ELSE [k \in 1..(last - first + 1) |-> last - k + 1]

RECURSIVE GenExpr(_, _), GenArgs(_, _), ArgsAfter(_, _), GenCall(_, _), GenBin(_, _)

(* The argument sequence node: each argument after the first only while   *)
(* the ones before it returned true.                                       *)
GenArgs(cs, args) ==
    IF args = <<>> THEN Returning(cs, TRUE)
    ELSE ArgsAfter(GenExpr(cs, Head(args)), Tail(args))

ArgsAfter(c, rest) == IF c.ok THEN GenArgs(c, rest) ELSE c

(* native_function::generate: OP_RETURN before its arguments, any other   *)
(* opcode after them; it returns false.                                    *)
GenCall(cs, e) ==
    LET o == NativeOpcode(e.f)
    IN  Returning(IF o = "OP_RETURN" THEN GenArgs(EmitOp(cs, o), e.args)
                  ELSE EmitOp(GenArgs(cs, e.args), o), FALSE)

(* const_node (an integer as a number, a hex constant as the bytes        *)
(* ParseHex makes, a token of any other type assert(false), then true),    *)
(* rvalue_node, unary_op (whose constructor drops its operand and whose    *)
(* generate() emits nothing), binary_op (the second operand only if the    *)
(* first returned true; an operator outside the table is assert(false),    *)
(* then return false) and native_function.                                 *)
GenExpr(cs, e) ==
    CASE e.t = "const" -> Returning(EmitInt(cs, e.c), TRUE)
      [] e.t = "hex"   -> Returning(EmitData(cs, e.c), TRUE)
      [] e.t = "literal" ->
            Returning(IF build = "debug" /\ ~Stopped(cs) THEN [cs EXCEPT !.crashed = TRUE] ELSE cs,
                      TRUE)
      [] e.t = "var"   -> Returning(IF e.n = "tos" THEN EmitOp(cs, "OP_DUP")
                                    ELSE CopyToTop(cs, e.n), TRUE)
      [] e.t = "unary" -> Returning(cs, TRUE)
      [] e.t = "bin"   -> GenBin(GenExpr(cs, e.a), e)
      [] e.t = "call"  -> GenCall(cs, e)

(* binary_op after its first operand: ca.                                  *)
SecondOperand(ca, e) == IF ca.ok THEN GenExpr(ca, e.b) ELSE ca

BinOperator(cb, e) ==
    IF e.op \in DOMAIN BinOpcode
    THEN Returning(EmitOp(cb, BinOpcode[e.op]), TRUE)
    ELSE IF build = "debug" /\ ~Stopped(cb) THEN [cb EXCEPT !.crashed = TRUE]
    ELSE Returning(cb, FALSE)

GenBin(ca, e) == BinOperator(SecondOperand(ca, e), e)

RECURSIVE GenStmt(_, _), GenBlock(_, _), GenBlockRest(_, _), Unroll(_, _, _)

(* A block: its statements in order while each returns true.               *)
GenBlockRest(c, rest) == IF rest = <<>> \/ ~c.ok THEN c ELSE GenBlock(c, rest)

GenBlock(cs, blk) == GenBlockRest(GenStmt(cs, Head(blk)), Tail(blk))

(* ok = ok && block->generate(): a block only while ok holds.              *)
AndBlock(cs, blk) == IF blk = <<>> \/ ~cs.ok THEN cs ELSE GenBlock(cs, blk)

(* for_loop::generate: each iteration binds the name "i", then the body.   *)
Unroll(cs, s, values) ==
    IF values = <<>> THEN cs
    ELSE Unroll(AndBlock(AssignValue(cs, "i", Head(values)), s.body), s, Tail(values))

(* The store of assign_op::generate: none for "tos"; then true.            *)
StoreTo(c, s) == Returning(IF s.lhs = "tos" THEN c ELSE AssignFromTop(c, s.lhs), TRUE)

(* Bug variant: the span declared after the right-hand side is generated. *)
GenAssignDeclareLate(cs, s) == StoreTo(DeclareStmt(GenExpr(cs, s.rhs), s), s)

(* assign_op::generate: the span, the right-hand side, the store; true.    *)
GenAssign(cs, s) == StoreTo(GenExpr(DeclareStmt(cs, s), s.rhs), s)

(* if_then_else::generate                                                  *)
ElseBlock(c2, els) == IF els = <<>> THEN c2 ELSE AndBlock(EmitOp(c2, "OP_ELSE"), els)

GenIf(cs, s) ==
    EmitOp(ElseBlock(AndBlock(EmitOp(GenExpr(DeclareStmt(cs, s), s.cond), "OP_IF"), s.then),
                     s.else),
           "OP_ENDIF")

(* assertion::generate: code only when ASSERTS_ON is set.                  *)
GenAssert(cs, s) ==
    IF ~AssertsOn THEN Returning(cs, TRUE)
    ELSE EmitOps(GenExpr(DeclareStmt(cs, s), s.cond), <<"OP_NOTIF", "OP_NOP4", "OP_ENDIF">>)

GenStmt(cs, s) ==
    CASE s.t = "assign" -> GenAssign(cs, s)
      [] s.t = "if"     -> GenIf(cs, s)
      [] s.t = "for"    -> Unroll(Returning(DeclareStmt(cs, s), TRUE), s,
                                  CodeRange(s.lo, s.hi))
      [] s.t = "assert" -> GenAssert(cs, s)

(***************************************************************************)
(* The state machine                                                       *)
(***************************************************************************)

CS == [sym |-> symtab, names |-> names, stmts |-> stmts, pipe |-> pipe, emitted |-> emitted,
       ok |-> TRUE, thrown |-> FALSE, crashed |-> FALSE, ub |-> FALSE, binds |-> <<>>]

NoLoop == [loop |-> AssertStmt(Const(1)), binds |-> <<>>]

(* The constructor: every container of executable starts empty.  Whether  *)
(* assert() is compiled in is fixed by the build.                          *)
Init ==
    /\ symtab = <<>>  /\ names = <<>>  /\ stmts = <<>>  /\ pipe = <<>>  /\ emitted = <<>>
    /\ status = "idle"  /\ diag = {}  /\ compiles = 0  /\ parsed = 0
    /\ build \in {"debug", "release"}
    /\ sem = SemInit  /\ lastLoop = NoLoop

(* executable::reset(): the symbol table's map (symbol_table.clear() is   *)
(* std::map::clear, brought in by a using declaration), the span table and *)
(* the pipeline cleared; variable_names is not (the evaluator's stacks it  *)
(* also clears belong to ScriptVM).                                        *)
Reset ==
    /\ symtab' = <<>>
    /\ UNCHANGED names
    /\ stmts'  = <<>>
    /\ pipe'   = <<>>

(* compile(): reset, then compile_internal's loop over statements begins.  *)
Compile ==
    /\ status # "compiling" /\ status # "crashed"
    /\ compiles < MaxCompiles
    /\ Reset
    /\ emitted' = <<>>
    /\ status' = "compiling"
    /\ diag' = {}
    /\ compiles' = compiles + 1
    /\ parsed' = 0
    /\ sem' = SemInit
    /\ lastLoop' = NoLoop
    /\ UNCHANGED build

(* One iteration of compile_internal: eat_statement(), fill_pipeline().    *)
(* A runtime_error appends "Compile error." and ends the loop; a false     *)
(* return ends it with nothing appended; an assert() aborts the process.  *)
(* After back() of an empty pipeline the process may crash or go on.       *)
(* The state after generate() left the compiler state cs.                 *)
Generated(cs, s) ==
    /\ symtab'  = cs.sym
    /\ names'   = cs.names
    /\ stmts'   = cs.stmts
    /\ pipe'    = cs.pipe
    /\ emitted' = cs.emitted
    /\ \/ /\ cs.crashed \/ cs.ub
          /\ status' = "crashed"
          /\ diag' = diag
       \/ /\ ~cs.crashed
          /\ status' = IF cs.thrown \/ ~cs.ok THEN "failed" ELSE "compiling"
          /\ diag'   = IF cs.thrown THEN diag \cup {"CompileError"} ELSE diag
    /\ lastLoop' = IF s.t = "for" THEN [loop |-> s, binds |-> cs.binds] ELSE lastLoop

Statement(s) ==
    /\ status = "compiling"
    /\ parsed < MaxStmts
    /\ Generated(GenStmt(CS, s), s)
    /\ parsed' = parsed + 1
    /\ sem' = SemBlock(sem, <<s>>)
    /\ UNCHANGED <<compiles, build>>

(* Bug variant: the parse_error handler that appends no message.         *)
ParseErrorUnreported ==
    /\ status = "compiling"
    /\ status' = "failed"
    /\ UNCHANGED <<symtab, names, stmts, pipe, emitted, diag, compiles, parsed, build, sem, lastLoop>>

(* eat_statement() throws parse_error: a "Parsing error." message is       *)
(* appended and the loop ends; nothing of the statement was generated.     *)
ParseError ==
    /\ status = "compiling"
    /\ status' = "failed"
    /\ diag' = diag \cup {"ParseError"}
    /\ UNCHANGED <<symtab, names, stmts, pipe, emitted, compiles, parsed, build, sem, lastLoop>>

(* parser.eof(): the loop ends with ok = true and compile() succeeds.      *)
EndOfInput ==
    /\ status = "compiling"
    /\ status' = "succeeded"
    /\ UNCHANGED <<symtab, names, stmts, pipe, emitted, diag, compiles, parsed, build, sem, lastLoop>>

Next ==
    \/ Compile
    \/ \E s \in Statements : Statement(s)
    \/ ParseError
    \/ EndOfInput

Spec == Init /\ [][Next]_vars

(***************************************************************************)
(* Properties                                                              *)
(***************************************************************************)

AllStatements == Statements \cup UNION {SubStatements(s) : s \in Statements}

Instr == [kind : {"op"}, stmt : Int,
          op : VM!Opcodes \cup Range(BinOpcode) \cup {r[3] : r \in NativeTable}]
         \cup [kind : {"data"}, val : Int, stmt : Int]

(* Types; the map holds each name once, in slot order.                    *)
StateTypeOK ==
    /\ symtab \in Seq(Names) /\ IsInjective(symtab) /\ names \in Seq(Names)
    /\ pipe \in Seq(Instr) /\ emitted \in Seq(Instr)
    /\ status \in {"idle", "compiling", "succeeded", "failed", "crashed"}
    /\ diag \subseteq {"ParseError", "CompileError"}
    /\ compiles \in 0..MaxCompiles /\ parsed \in 0..MaxStmts
    /\ build \in {"debug", "release"}

TypeOK == StateTypeOK /\ stmts \in Seq(AllStatements)

Healthy == status \in {"compiling", "succeeded"} /\ Sound(sem)

(* The alt stack the spec prescribes: one value per variable, slot 0       *)
(* deepest.                                                                *)
AltImage == [k \in 1..Len(symtab) |-> sem.vars[symtab[k]]]

(* Round-trip allocation: after every statement of a unit without faults, *)
(* the instructions generated so far (as handed to the pipeline) leave the *)
(* alt stack holding exactly the variables, in slot order, each with the   *)
(* value last assigned to it on the path run, and the primary stack what   *)
(* the spec's semantics leaves there; or they fail where an enabled Assert *)
(* fails.  These are the pre/post-conditions stated on                     *)
(* assign_from_top_of_stack and copy_to_top_of_stack, composed over whole  *)
(* programs with branches, loops and expressions.                          *)
RoundTrip ==
    Healthy =>
        LET r == VM!Run(emitted)
        IN  IF sem.assertFailed THEN r.err
            ELSE /\ ToSet(symtab) = DOMAIN sem.vars
                 /\ r = [main |-> sem.main, alt |-> AltImage, exec |-> <<>>, err |-> FALSE]

(* The peephole rule never changes what the program leaves on the stacks: *)
(* the pipeline evaluates exactly as the instructions handed to it.        *)
OptimiserPreservesStacks ==
    Healthy => VM!Run(pipe) = VM!Run(emitted)

(* Every instruction names a span of the stmt table, which                *)
(* write_annotated_script indexes with stmts[instr.generating_stmt].      *)
AnnotationIndexValid ==
    \A k \in DOMAIN pipe : pipe[k].stmt \in 0..(Len(stmts) - 1)

(* A unit is rejected with "Compile error." exactly when it reads a       *)
(* variable that no earlier text assigns (spec section 7): no unit that    *)
(* should compile is refused, and no such read is compiled into a read of  *)
(* a stale or foreign alt-stack slot.                                      *)
CompileErrorIffUndefinedRead ==
    status # "crashed" => (("CompileError" \in diag) <=> sem.undefinedRead)

(* The symbol table's two halves stay in step: variable_names holds the   *)
(* map's names in slot order, which symbol_table::at and ::insert assert   *)
(* (map::size() == variable_names.size()) on every lookup and insertion.  *)
(* It must survive compile() calling reset() on a used compiler object.   *)
NamesMatchMap == names = symtab

(* A compile that fails says why: compile() never returns false with an   *)
(* empty message (the front end prints it as the reason).                 *)
FailureIsReported ==
    status = "failed" => diag # {}

(* The generator never hits its internal-defect paths (an operator it has *)
(* no opcode for, or undefined behaviour) on a unit the parser accepts.   *)
NoInternalError ==
    status # "crashed"

(* for v in [first..last] unrolls v through first..last, ascending when   *)
(* first <= last and descending otherwise (spec 4.2, 8).                  *)
LoopUnrollOrder ==
    lastLoop.loop.t = "for" =>
        lastLoop.binds = [k \in DOMAIN SpecRange(lastLoop.loop.lo, lastLoop.loop.hi) |->
                            <<lastLoop.loop.var, SpecRange(lastLoop.loop.lo, lastLoop.loop.hi)[k]>>]

=============================================================================
