# TLA+ models of the Hello compiler

The Hello compiler (`src/HelloDll`) translates a small C-like language
into Bitcoin script. It parses assignments, `if`/`else`, bounded `for` loops,
`Assert` and builtin calls. It emits opcodes and data pushes that simulate named
variables on the evaluator's alt stack. This directory holds TLA+ modules of the
compiler, the TLC configurations that check them, and `PROJECT.json`. That file
lists the components, runs, mutants, the source lines of every definition, the
findings and the hazards.

## The system

| Part | Source | State | Operations |
|---|---|---|---|
| Tokeniser | `tokeniser.h` | stream position, stored token, line/column | `ws`, `peek`, `eat`, `tellg` |
| Parser | `parser.h`, `parser.cpp` | function tables | `eat_statement` and the recursive `eat_*` |
| AST | `AST.h`, `AST.cpp` | the nodes | one `generate()` per node kind |
| Variable allocator | `Hello_compiler.cpp` 220-292 | `symbol_table` | `index_of`, `assign_from_top_of_stack`, `copy_to_top_of_stack` |
| Instruction pipeline | `Hello_compiler.cpp` 57-117 | `pipe`, `stmts` | `operator<<` ×4, `declare_stmt`, peephole rule |
| Compile driver | `Hello_compiler.cpp` 310-362, `Internals.h` 89-92 | all of the above | `reset`, `compile`, `compile_internal` |
| Annotated output | `Hello_compiler.cpp` 364-414 | — | writes each span's source text and its instructions |
| `execute`, debugger stubs | `Hello_compiler.cpp` 162-212 | evaluator stacks | compile and evaluate (unfinished) |
| Command line | `Hello/Hello.cpp` | options | getopt, open files, `compile` once |
| Evaluator | `EvalScript` (declared in `Internals.h`, not in this repository) | stack, alt stack, `vfExec` | runs the script |
| Script assembler | `bitcoin/src/core_read.cpp` | the script being built, the push tracking | `ParseScript`: script text to script bytes |

How the parts interact: `compile` calls `reset()` and then loops. Each
iteration parses one statement and calls `generate()` on it. `generate()` pushes
instructions through the pipeline and calls the allocator. The allocator turns
each named variable into a fixed slot of the alt stack (slot 0 is deepest) and
emits the FROMALT/DROP/ROLL/TOALT moves that reach the slot. A `runtime_error`
from the allocator, or a `parse_error` from the parser, ends the loop and adds a
message. A `false` result from `generate()` also ends the loop, but adds no
message.

The command-line program (`Hello/Hello.cpp`) reads its options with its own
`args::getopt`. It opens the input file (or takes std input) and the output
file (or std output). It creates the compiler, sets `OUTPUT_ANNOTATED_SCRIPT`
and calls `compile()` once. `compile()` copies the input into a
`stringstream`, runs the loop above, and then writes the annotated script:
for each instruction, the source text of the statement that generated it
(once per statement), then the instruction. The text is read back from the
copy between the offsets the parser recorded with `tellg()` at the
statement's start and end (`declare_streampoint`).

The script assembler `ParseScript` comes from the Bitcoin sources kept
beside the compiler. It is not on the compile path; it turns script text
such as `PUSHDATA1 0x02 0xaabb ADD` into bytes. It splits the text into
words, and each word appends an opcode, a number, raw hex or a quoted push.
After a word that is a push opcode, the next word must add exactly the bytes
it announces. After `OP_PUSHDATA1/2/4`, the next word is the push's length.

## Modules

* **`HelloLang`** holds the AST node constructors (`Const`, `Var`, `Unary`,
  `Bin`, `Call`, `Assign`, `If`, `For`, `AssertStmt`; blocks are sequences).
  It also holds the *meaning* the spec gives a unit (sections 4, 7, 8), in
  `SemBlock`/`SemStmt`/`SemExpr`. The meaning is what the primary stack and the
  variables hold after the unit runs. It also records whether the unit reads a
  name never assigned earlier in the text (`undefinedRead`), reads an unbound
  variable on the path taken, or fails an enabled `Assert`. This module is the
  abstract specification the generator is checked against.
* **`ScriptVM`** is the evaluator, modelled from the spec and Bitcoin's
  semantics because `EvalScript` is not in this repository. It has the two
  stacks of numbers, `vfExec` for IF/NOTIF/ELSE/ENDIF, and the opcodes the
  generator emits. Any other opcode, and an executed `OP_NOP4`, is an error.
  `Run(prog)` evaluates a whole instruction sequence.
* **`HelloCompiler`** is the generator and the compile driver. Its variables
  are the executable's containers (`symtab`, the symbol table's `std::map`
  in slot order; `names`, its `variable_names` vector; `stmts`, `pipe`) and the driver's
  state (`status`, `diag`, `compiles`, `parsed`). `build` says whether
  `assert()` aborts. It also has the history variables `emitted` (every
  instruction handed to `operator<<`, before the peephole rule),
  `sem` (the HelloLang meaning of the statements so far) and `lastLoop`.
  Each `generate()` and allocator function is an operator over a
  compiler-state record. The operators are called in the C++'s order, and a
  thrown exception or an abort stops all later emission. The actions are:
  - `Compile`: `compile()` with its `reset()`, which clears the map but,
    being `std::map::clear`, not `variable_names`;
  - `Statement(s)`: one iteration of `compile_internal`, i.e. the whole
    `generate()` of one parsed statement, plus its error handling;
  - `ParseError`: `eat_statement` throws;
  - `EndOfInput`: the input is exhausted.
* **`MCHelloCompiler`** holds the statement sets the `generator` run uses.
  There, `Statement(s)` draws `s` from a set of statements that
  `eat_statement` can return, and `ParseError` stands for every input it
  rejects.
* **`HelloTokeniser`** is `class tokeniser` as operators over a record `tk`.
  The record holds the text (one-character strings), the position, the
  istream's `eofbit`/`failbit`, `lineno`, the stored token and its recorded
  line, and the line a token started on. It also records a `parse_error` in
  flight (`err`, with the line `tellg()` gave it), an `assert()` abort and
  undefined behaviour (`ub`). `GetFToken` is `get_ftoken`; `Peek`, `Eat`,
  `EatTokenType`, `Eof`, `Ws` and `Tellg` are the public methods. Once `tk`
  is halted every operator passes it through, as the exception unwinds.
  The stream follows C++11: `putback()` clears `eofbit` before it fails on a
  set `failbit`, so a token that ends the text leaves the stream with
  `failbit` and without `eofbit`, and `eof()` then answers false. The next
  `get_token()` throws "Unexpected EOF." as it would otherwise have.
* **`TokenStream`** is the lexer of spec section 4.1 as a cursor over the
  token sequence the lexical rules give the whole text. It is the abstract
  specification of the tokeniser.
* **`TokeniserMachine`** makes each public tokeniser method one action
  (`CallPeek`, `CallGetToken`, `CallEof`, `CallWs`), called in any order. It
  is shown to implement `TokenStream` through a refinement mapping
  (`ImplementsTokenStream`, an `INSTANCE ... WITH` property).
* **`HelloParser`** is `Hello_parser`: each `eat_*` method is an operator from
  a tokeniser state to `[tk, node]`, built from the `HelloLang` constructors.
  The two function tables of `parser.cpp` are sets of triples. A value bound
  in the C++ and used twice (the peeked token, a sub-result) is passed to a
  helper operator, such as `FactorOf(p)` for `eat_factor` after its `peek()`.
* **`HelloGrammar`** is the grammar of spec section 4.2 as a reference
  parser (`SpecParse`) over `TokenStream`'s tokens. It builds the same nodes,
  so its result can be compared with the parser's.
* **`HelloSystem`** composes the real parser with the generator:
  `compile_internal` with `ws()` before the loop (`SysCompile`), one
  `eat_statement` plus `fill_pipeline` per turn (`SysStatement`), and the end
  of input (`SysEndOfInput`). A `parse_error` is reported; an abort or
  undefined behaviour crashes. A `parse_error` built with undefined behaviour
  may do either.
  Every statement node the parser builds carries its span `sp` (the
  `tellg()` offsets `declare_streampoint` recorded). `Unspanned` strips the
  spans before a node is compared with the grammar's.
* **`MCHelloSystem`** holds the program texts of the reproductions below.
* **`HelloMain`** is `main()` around `compile()`. Its variables are the
  command line, `getopt`'s index, `main`'s locals (`inName`, `outName`,
  `optimiserOn`, `execute`), a file system `fs` (name to text), the
  compiler's option word, a program counter `pc`, the exit code, and the
  writer's state (`wk` is the loop's `k`, `processed` is
  `processed_stmts`, `ann` is the `write_annotation` in progress, and `out`
  holds the annotations written). The actions are:
  - `MainGetopt`: one `getopt()` call and the `switch` on `arg[0]`;
  - `MainOpenInput` and `MainOpenOutput`: opening a file for writing
    truncates it;
  - `MainConfigure`: `create_Hello_compiler` and the `set_options` calls;
  - `MainCompile`, `MainParse` and `MainCompiled`: `compile()`, with
    `HelloSystem`'s loop;
  - `WriteStep`, `AnnotateChar`, `AnnotateEnd` and `WriteDone`: the writer,
    one character per `AnnotateChar` step.

  Getopt is a pure operator (`Getopt(argv, i)`). A word is a sequence of
  one-character strings. The instruction lines and the header of the output
  are left out. An annotation keeps its statement index, the characters read,
  and whether a read hit the end of the stream.
* **`MCHelloMain`** holds the file system, std input and command lines of
  the `program` run and of its reproductions.
* **`CoreRead`** is `ParseScript` and `populate_opcode_names_map`. Its
  variables are the function's locals: `words` (what `boost::split` gave),
  the word index `wi`, `result`, `push_size`, `next_push_size`,
  `push_data_size`, and a `status` (`"error"` for a `runtime_error`,
  `"abort"` for a failed `assert()`). `build` says whether `assert()` is
  compiled in. `untracked` is a history variable; it records that raw hex
  of several bytes was inserted where an opcode belongs. The actions are:
  - `ParseWord`: one turn of the loop, i.e. the word's bytes (`EncodeWord`,
    in the order of the `if`-`else` chain), the push-size check, and the
    tracking update (`Tracked`);
  - `ParseReturn`: the loop ends and the script is returned.

  The CScript and CScriptNum calls (`PushData`, `PushInt64`, `EncodeOPN`,
  `PushOpcode`), `IsHex`, `ParseHex`, `atoi64` and the ASCII codes belong to
  the Bitcoin library, which is not in this repository. They are written
  from that library and are not mapped. `GetOpName` is the constant
  `OpName`. `AwaitedFrom` is a reference reading of how a script frames
  into operations, the reading `GetScriptOp` implements.
* **`MCCoreRead`** holds the opcode names and the texts of the two
  assembler runs.

## Runs

`generator` (pass, about 370,000 states, about 20 s). It covers units of up
to three statements, compiled twice on one compiler object, in debug and in
release builds, with asserts on. The statements are assignments to `x`, `y`
and `tos`, loops over `i` with bodies, conditionals whose branches assign
variables their condition reads, and an `Assert`. The run checks:
- `RoundTrip`: after every statement of a fault-free unit, evaluating the
  emitted code leaves the alt stack with exactly one value per variable, in
  slot order and equal to the value the language gives it. The primary stack
  must equal the language's, or the run must stop at a failed `Assert`. This
  is the allocator's stated pre/post-condition, composed over whole programs.
- `AnnotationIndexValid`: every instruction's span index is valid for
  `write_annotated_script`.
- `CompileErrorIffUndefinedRead`: "Compile error." is reported exactly when the
  unit reads a name not assigned earlier in the text.
- `FailureIsReported`: a failed compile always carries a message.

The violation runs each check one property against inputs that exercise one
defect. `PROJECT.json` lists the findings:

| Run | Property | What the code does |
|---|---|---|
| `peephole` | `OptimiserPreservesStacks` | `operator==` compares the opcode with itself, so `x = 0;` loses its `OP_0` |
| `recompile` | `NamesMatchMap` | `reset()` clears the symbol table's map but not `variable_names`, so the second `compile()` on one object aborts a debug build at `Hello_compiler.cpp:136` and leaves a release build's names out of step |
| `loop_variable` | `CompileErrorIffUndefinedRead` | the unroller binds `i`, not the loop variable |
| `branch_declaration` | `RoundTrip` | a first assignment inside an untaken branch leaves a phantom slot |
| `negation_first` | `NoInternalError` | unary operators generate nothing, so `x = -1` first calls `back()` of an empty pipeline |
| `and_condition` | `FailureIsReported` | `and`/`or` hit `assert(false)`, or fail silently in release builds |
| `annotation_hang` | `ProgramTerminates` | `x=1;y=1=` gets the span [4,0], and a release build's writer spins at end of file |
| `script_number` | `NumberWordIsPushed` | `ParseScript("100 20")`: `20` goes through `EncodeOP_N`, which aborts a debug build; a release build emits `0x64` (`OP_NOTIF`) |

`recompile` in detail: `symbol_table` privately inherits `std::map` and
makes its `clear` public with a using declaration, so `reset()` clears the
map and leaves `variable_names`. The run's trace compiles a unit that
declares `x` and then calls `compile()` again. After the second `reset()`
the map is empty while `variable_names` still holds `x`. A debug build aborts
on the next `symbol_table::insert`, whose assert compares the two sizes. A
release build keeps going. Its code stays right because `index_of` and the
allocator read only the map, as `generator` checks with `RoundTrip` over two
compiles in both builds.

`annotation_hang` in detail: the last `=` passes for `;`, because
`token::operator==` compares types only. The tokeniser peeks after `=` for
`==` and hits end of file, so the stream fails. `tellg()` clamps the
failed stream's -1 to 0, and the statement's span becomes [4,0].
`write_annotation` asserts `pos < last`, which ends a debug build. A release
build seeks to 4 and reads to the end. `tellg()` is then -1, which never
equals `last`, and the loop never ends. `main` always asks for the annotated
script, so the command-line compiler hangs on this input.

`script_number` in detail: `ParseScript` sends every decimal word below
`OP_PUSHDATA1` (76) to `CScript::EncodeOP_N`, which asserts `0 <= n <= 16`.
A release build computes `OP_1 + n - 1` anyway. Then 17..75 become
unrelated opcodes, -2..-4 become PUSHDATA opcodes (and the next word is
taken as a length), and -81 and below throw "invalid opcode". Only -1 comes
out right, as `OP_1NEGATE`. Numbers from 76 up are pushed by `CScript`'s
`operator<<(int64_t)`, which handles every number.

`script_assembler` (pass, 123 states, under a second). It runs `ParseScript`
in both builds on fifteen texts:
- a direct push of the announced size, and one of the wrong size;
- `PUSHDATA1/2/4` with their lengths, and a zero-length `PUSHDATA1`;
- quoted strings, including `''`;
- the numbers 0, 16, -1, 100, 20 and -4;
- an opcode under both of its names;
- two bytes of raw hex in opcode position;
- separators at both ends, and the empty text;
- `L`, `-`, `0x`, an odd hex word, and `L100`.

The run checks:
- `ParseTypeOK`, which includes that the PUSHDATA width is 1, 2 or 4.
- `PushTracking`: between words, and when the script is returned, the
  loop's variables say exactly what the script's last operation still lacks,
  as the reference reading `AwaitedFrom` frames the bytes. `push_data_size`
  is the missing length width, and `next_push_size` the missing data bytes.
  The claim stops at raw hex of several bytes in opcode position, which the
  code inserts outside its tracking by design (its comment at line 181).

`tokeniser` (pass). It covers every text of up to three characters over
letters, digits, operators, `.`, `#`, both kinds of white space, and longer
texts for keywords, hex constants, extern names and line counts, in both
builds. The run checks:
- `TypeOK` of the tokeniser state: the position and the line count stay
  within the text.
- `ImplementsTokenStream`: every sequence of `peek`, `get_token`, `eof` and
  `ws` calls answers as the spec's lexer does, with the same error at the same
  line. `eof()` may never claim the end while a token remains.

`program` (pass, about 730 states, a few seconds). It runs the command-line
program in both builds. The inputs are eight files and std input; the texts
are assignments over two lines, a conditional with `else`, a loop, a missing
`;`, a read of an unassigned name, a builtin call, a comment alone, a bare
`max` call (the parser crashes), and an `Assert`. The command lines give
every file with `-f`, plus:
- `-o` with `-f`;
- `-O` first;
- a file that does not exist;
- `-f` with no name (a crash);
- nothing, which reads std input;
- an unknown switch, a stray word, `--`, `-x` and `-:`;
- `-o` to a name that cannot be created.

The run checks:
- `ParsesAsSpecified`: the statements parsed so far are a prefix of what the
  spec's grammar gives the text. A successful unit is exactly the grammar's
  statements. "Parsing error." is reported only for a text the grammar
  rejects, and only after the statements before the error.
- `SpansAreStatements`: the text between each declared span's start and
  end parses, by the grammar, as that statement alone. For `if` and `for`,
  which cover their head only, an empty block is added.
- `SuccessWritesAnnotatedScript`: when `main` returns 0, the writer has
  passed every instruction, and has annotated each generating statement
  once, in the order of its first instruction. Each annotation is the
  statement's own text, read without hitting the end of the stream.
- `ProgramTerminates`: every run of the program ends.

`MCHelloSystem.cfg` still checks `SysTypeOK`, `ParsesAsSpecified`, `RoundTrip`
and `SpansAreStatements` on nine texts compiled twice by one compiler object.
`program` covers the same texts, compiled once as `main` does.

Other cfgs reproduce divergences the modelling met. Each violates one
property. The run list is capped, so these are not listed in
`PROJECT.json`; run them with
`tlc -config <cfg> MCHelloSystem` (or `MCTokeniser`, `MCHelloMain`,
`MCHelloCompiler`):

| cfg | Text | Property | What the code does |
|---|---|---|---|
| `MCTokeniser_Operators` | `a*1` | `ImplementsTokenStream` | `*` and `/` are not tokens |
| `MCTokeniser_Underscore` | `_a` | `ImplementsTokenStream` | a name cannot start with `_` |
| `MCTokeniser_BareDollar` | `$ a` | `ImplementsTokenStream` | `$` with no name is read as an extern name |
| `MCHelloSystem_typeonly` | `x+1;` | `ParsesAsSpecified` | `eat("=")` accepts any std token |
| `MCHelloSystem_andchain` | `x=1;if(x<2 and x<3 and x<4){}` | `ParsesAsSpecified` | one `and`/`or` at most is joined |
| `MCHelloSystem_specialcall` | `x=1;Verify(x);` | `ParsesAsSpecified` | a special function is no statement |
| `MCHelloSystem_extern` | `x=$a;` | `ParsesAsSpecified` | an extern name is eaten with `eat_name` and rejected |
| `MCHelloSystem_missingvalue` | `x=;` | `ParsesAsSpecified` | `eat_value` accepts any token as a value |
| `MCHelloSystem_nativestmt` | `x=1;max(x,1);` | `NoInternalError` | a native name is looked up in the special table and asserts |
| `MCHelloSystem_namebound` | `for i in[x..1]{}` | `NoInternalError` | the error message reads past `type_name` |
| `MCHelloSystem_errorline` | `x=1;if(x` newline `){}` | `ErrorLineIsTokenLine` | the error line is the one `peek()` recorded |
| `MCHelloCompiler_descending` | `for i in [1..0]` | `LoopUnrollOrder` | `[1..0]` unrolls zero times where the spec descends |
| `MCHelloCompiler_negation` | `x = -y` | `RoundTrip` | unary minus stores nothing |
| `MCHelloCompiler_calloperand` | `abs(x) + 1` | `RoundTrip` | a builtin call returns false, so `binary_op` skips its right operand and still emits `OP_ADD` (`AST.cpp:104`) |
| `MCHelloCompiler_notequal` | `x != y` | `RoundTrip` | `!=` emits the unary `OP_0NOTEQUAL` instead of `OP_NUMNOTEQUAL`, leaving two values (`AST.cpp:139`) |
| `MCHelloMain_edge` | empty file; `-f a -o a` | `ParsesAsSpecified` | copying an empty input sets `failbit`, so an empty program fails with "Unexpected EOF"; `-o` naming the input truncates it before it is read |

Each property of a passing run has a mutant in `PROJECT.json`: a plausible
bug in the mapped code that TLC catches. The mutants are a ROLL depth one
too deep, a span declared after its right-hand side, a `copy_to_top_of_stack`
without its `!found` check, and a parse-error handler that adds no
message. The tokeniser run adds a `ws()` that counts a line break twice and a
`peek()` that reads past a stored token. The program run adds:
- an argument loop that runs once too often;
- a `tellg()` that ignores the stored token;
- a front end without `set_options(OUTPUT_ANNOTATED_SCRIPT)`, which leaves
  the option word uninitialised;
- a `getopt` that does not advance past a stray word.

The assembler run adds a `PUSHDATA4` taken as a three-byte length, and a
`push_data_size` that is not cleared after the length is read.

## Bounds and fairness

Three statements per unit are enough for a read of a deep slot after two
writes, and for a loop or conditional after a declaration. Two compiles per
object exercise `reset()`. The value range {0, 1} covers both integer
encodings (`OP_0` and a data push) and both branches of every comparison.
Each loop runs one or two iterations. The tokeniser's texts of up to three
characters hold every pair of adjacent token kinds, and the longer texts every
keyword class, both hex cases and a line count past one. The system's texts
each reach one parser path; nine are enough for every `eat_*` method and every
error path of `compile_internal`.

The `program` run's file system and command lines reach every action and
every branch of `getopt` and `main`. Every exit is reached: 0, -1 for each
cause, and a crash. The texts have at most two top-level statements, and
`MaxStmts` is 3; `Compiling` requires the bound not to have been reached, so
were it ever to stop a unit early, `ProgramTerminates` would fail. Empty input
and an output file equal to the input are left out of `program` because they
break `ParsesAsSpecified`; `MCHelloMain_edge.cfg` shows that.

Fairness: the program is one thread, so a step of `main()` that is enabled
stays enabled until it is taken. `MainFairness` therefore makes the steps
weakly fair. For `compile()` and its loop, the enabling condition is written
as the state predicate `Compiling`. In every such state the loop can take a
turn: it parses, fails, crashes or finds end of file. We write the predicate
rather than `ENABLED` because TLC would evaluate `ENABLED` by parsing the rest
of the text again, without caching. A step that changes nothing (the release
writer spinning at end of file) is not a step weak fairness forces. That is
how `ProgramTerminates` sees the hang. The compiler-only cfgs have no
liveness; the program stops after its last compile, so every cfg sets
`CHECK_DEADLOCK FALSE`.

The assembler's texts reach every word kind and every branch of the
tracking: each push opcode written as a word, each PUSHDATA width with its
length word, a push of the wrong size, and a length of zero. Both builds are
run, because `EncodeOP_N`'s assert splits them. `ParseScript` returns or
throws, so its runs also set `CHECK_DEADLOCK FALSE`. It is a single call
with no concurrency, so it has no fairness and no liveness property. Numbers
stay far below the int64 range, because TLC's integers are 32-bit;
`atoi64`'s saturation is listed as a hazard with no property.

## Not modelled

* **Options beyond the command line.** `AssertsOn` is a constant. With the
  front end it is derived from the word `main` leaves, which is
  `OUTPUT_ANNOTATED_SCRIPT`, so asserts are off. `-O` has no effect, because
  the optimiser is forced on inside `operator<<`.
* **Extern values.** `get_extern_value` dereferences a null `getenv` result.
  The parser never builds an extern `rvalue_node` (see
  `MCHelloSystem_extern`), so the code is unreachable.
* **`go` and the stepping stubs** are empty.
* **`usage()`**: it only prints, and the loop's exit test makes it
  unreachable. Unknown switches and stray words are silently ignored.
* **Output formatting**: the header line with the time and the instruction
  lines of the annotated script.
* **The rest of `core_read.cpp`.** `DecodeHexTx`, `DecodeHexBlk`,
  `ParseHashUV`, `ParseHashStr` and `ParseHexUV` are an `IsHex` test around
  library deserialisation (transactions, blocks, `uint256::SetHex`), with no
  state of their own.
* **The other Bitcoin sources.** `util.h` only declares `ArgsManager` and
  the file, logging and thread helpers; their definitions are not in this
  repository. `utiltime.cpp` reads the clock, sleeps and formats dates.
  `bench_bitcoin.cpp` starts the benchmark library.
* **`execute`**, which nothing in this repository calls, compiles an
  unopened `ifstream` instead of its argument. Copying the stream inserts
  nothing, so the compile fails as an empty input does (`MCHelloMain_edge`)
  and the evaluation after it is never reached.
