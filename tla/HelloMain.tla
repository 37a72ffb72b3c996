------------------------------ MODULE HelloMain ------------------------------
(***************************************************************************)
(* The command-line front end (Hello/Hello.cpp) around the compiler:      *)
(* main() reads its options with args::getopt(), opens the input file (or *)
(* takes std input) and the output file (or std output), creates the      *)
(* compiler, sets its options, and calls Hello_compiler::compile().       *)
(* compile() copies the input, runs compile_internal (HelloSystem's       *)
(* parse-and-generate loop over the tokeniser state tk) and, when          *)
(* OUTPUT_ANNOTATED_SCRIPT is set, write_annotated_script(): for each     *)
(* instruction of the pipeline, the text of the statement that generated  *)
(* it (once per statement, read back from the copied stream between the   *)
(* statement's declared start and end offsets), then the instruction.     *)
(*                                                                         *)
(* A word of argv is a sequence of one-character strings; a file name is  *)
(* such a word.  The instruction lines and the header written to the     *)
(* output are left out: an annotation records the statement it belongs    *)
(* to, the characters read for it, and whether the read hit end of file.  *)
(***************************************************************************)
EXTENDS HelloSystem

CONSTANTS
    CommandLines,  \* argument vectors argv[1..argc-1], one word per element
    Files,         \* the file system at start: a function from names to texts
    Writable,      \* the names an ofstream can open for writing
    StdIn          \* the text on std input

VARIABLES
    argv,          \* the command line main() was started with
    optIdx,        \* args::current_opt_index
    inName,        \* in_filename (<<>> is the empty string)
    outName,       \* out_filename
    optimiserOn,   \* optimiser_on
    execute,       \* execute
    fs,            \* the file system: name -> text
    options,       \* executable::options of the compiler object
    pc,            \* where main() is
    exitCode,      \* main's return value "0" or "-1", "crash" for an abnormal end
    wk,            \* write_annotated_script's k, 1-based (0 before it runs)
    processed,     \* processed_stmts: stmt indices already annotated
    ann,           \* the write_annotation in progress, or NoAnn
    out            \* the annotations written, in order

mainVars == <<argv, optIdx, inName, outName, optimiserOn, execute, fs, options,
              pc, exitCode, wk, processed, ann, out>>
allVars == <<sysVars, mainVars>>

(* Hello_compiler_options (Common/Internals.h).                             *)
ASSERTS_ON == 1
OPTIMISER_ON == 2
OUTPUT_ANNOTATED_SCRIPT == 4
OptionWords == 0 .. 7
HasOption(w, o) == (w \div o) % 2 = 1

NoAnn == [stmt |-> -1, pos |-> 0, last |-> 0, text |-> <<>>, eof |-> FALSE]

(***************************************************************************)
(* args::getopt                                                            *)
(***************************************************************************)

(* The options string main() passes, "f:o:O", and the character of a word *)
(* at index k, the terminating '\0' past its end.                          *)
OptString == <<"f", ":", "o", ":", "O">>
NUL == "NUL"
CharAt(w, k) == IF k \in 1 .. Len(w) THEN w[k] ELSE NUL

ArgC(av) == Len(av) + 1

(* The result of one getopt() call at current_opt_index i: ch ("EOF" for   *)
(* -1), the index it leaves, arg[0] as main's switch then reads it, and   *)
(* optarg (<<>> for nullptr).  eof() and parse_error() both move the index *)
(* to argc.                                                                *)
GetoptResult(ch, idx, a0, oa) == [ch |-> ch, idx |-> idx, arg0 |-> a0, optarg |-> oa]

(* After "-c": p is the 1-based index of strchr(options, c), 0 for NULL.  *)
GetoptSwitch(av, i, c, p) ==
    CASE p = 0                         -> GetoptResult("?", ArgC(av), c, <<>>)
      [] CharAt(OptString, p + 1) # ":" -> GetoptResult(c, i + 1, c, <<>>)
      [] i + 1 < ArgC(av)              -> GetoptResult(c, i + 2, c, <<av[i + 1]>>)
      [] OTHER                         -> GetoptResult("?", ArgC(av), c, <<>>)

(* Bug variant: a word that is not a switch read without advancing the   *)
(* index.                                                                  *)
GetoptWordNoAdvance(av, i, w) ==
    CASE CharAt(w, 1) # "-"        -> GetoptResult("?", i, CharAt(w, 1), <<>>)
      [] CharAt(w, 2) \in {"-", NUL} -> GetoptResult("EOF", ArgC(av), CharAt(w, 2), <<>>)
      [] OTHER -> GetoptSwitch(av, i, CharAt(w, 2),
                               SelectInSeq(OptString, LAMBDA x : x = CharAt(w, 2)))

GetoptWord(av, i, w) ==
    CASE CharAt(w, 1) # "-"        -> GetoptResult("?", i + 1, CharAt(w, 1), <<>>)
      [] CharAt(w, 2) \in {"-", NUL} -> GetoptResult("EOF", ArgC(av), CharAt(w, 2), <<>>)
      [] OTHER -> GetoptSwitch(av, i, CharAt(w, 2),
                               SelectInSeq(OptString, LAMBDA x : x = CharAt(w, 2)))

(* arg is not assigned when the arguments are used up; main does not read *)
(* it then, since the loop ends on -1.                                     *)
Getopt(av, i) ==
    IF i < ArgC(av) THEN GetoptWord(av, i, av[i])
    ELSE GetoptResult("EOF", ArgC(av), NUL, <<>>)

(***************************************************************************)
(* main()                                                                  *)
(***************************************************************************)

MainInit ==
    /\ SysInit
    /\ argv \in CommandLines
    /\ optIdx = 1
    /\ inName = <<>> /\ outName = <<>>
    /\ optimiserOn = FALSE /\ execute = FALSE
    /\ fs = Files
    /\ options = 0          \* no compiler object exists yet
    /\ pc = "getopt" /\ exitCode = "none"
    /\ wk = 0 /\ processed = {} /\ ann = NoAnn /\ out = <<>>

Exit(code) == pc' = "exited" /\ exitCode' = code

(* One turn of the option loop: getopt(), then the switch on arg[0], which *)
(* also runs for '?' (an unknown switch, or a missing parameter whose arg *)
(* is still the switch).  Assigning optarg == nullptr to a string calls    *)
(* strlen on a null pointer: the process ends.  The loop ends only on -1,  *)
(* so the usage check after it never holds.                                *)
OptionTaken(r) ==
    /\ optIdx' = r.idx
    /\ \/ /\ r.ch = "EOF"
          /\ pc' = "openIn"
          /\ UNCHANGED <<inName, outName, optimiserOn, execute, exitCode>>
       \/ /\ r.ch # "EOF" /\ r.arg0 \in {"f", "o"} /\ r.optarg = <<>>
          /\ Exit("crash")
          /\ UNCHANGED <<inName, outName, optimiserOn, execute>>
       \/ /\ r.ch # "EOF" /\ (r.arg0 \in {"f", "o"} => r.optarg # <<>>)
          /\ inName' = IF r.arg0 = "f" THEN r.optarg[1] ELSE inName
          /\ outName' = IF r.arg0 = "o" THEN r.optarg[1] ELSE outName
          /\ optimiserOn' = (optimiserOn \/ r.arg0 = "O")
          /\ execute' = (execute \/ r.arg0 = "x")
          /\ UNCHANGED <<pc, exitCode>>

MainGetopt ==
    /\ pc = "getopt"
    /\ OptionTaken(Getopt(argv, optIdx))
    /\ UNCHANGED <<argv, fs, options, wk, processed, ann, out, sysVars>>

(* The input: std input when in_filename is empty, else the file, and -1  *)
(* when it cannot be opened.  An ifstream reads nothing before compile().  *)
MainOpenInput ==
    /\ pc = "openIn"
    /\ \/ /\ inName = <<>> \/ inName \in DOMAIN fs
          /\ pc' = "openOut" /\ UNCHANGED exitCode
       \/ /\ inName # <<>> /\ inName \notin DOMAIN fs
          /\ Exit("-1")
    /\ UNCHANGED <<argv, optIdx, inName, outName, optimiserOn, execute, fs, options,
                   wk, processed, ann, out, sysVars>>

OutputName == IF outName = <<>> THEN inName \o <<".script">> ELSE outName

(* The output: std output when both names are empty; otherwise the named *)
(* file, in_filename + ".script" by default, opened for writing, which     *)
(* truncates it; -1 when it cannot be opened.                              *)
MainOpenOutput ==
    /\ pc = "openOut"
    /\ \/ /\ inName = <<>> /\ outName = <<>>
          /\ pc' = "create"
          /\ UNCHANGED <<outName, fs, exitCode>>
       \/ /\ inName # <<>> \/ outName # <<>>
          /\ outName' = OutputName
          /\ \/ /\ OutputName \in Writable
                /\ fs' = (OutputName :> <<>>) @@ fs
                /\ pc' = "create" /\ UNCHANGED exitCode
             \/ /\ OutputName \notin Writable
                /\ Exit("-1") /\ UNCHANGED fs
    /\ UNCHANGED <<argv, optIdx, inName, optimiserOn, execute, options,
                   wk, processed, ann, out, sysVars>>

(* Bug variant: the set_options(OUTPUT_ANNOTATED_SCRIPT) call left out,  *)
(* so the word is OPTIMISER_ON after -O and uninitialised otherwise.      *)
ConfigureWithoutAnnotation ==
    /\ pc = "create"
    /\ \E garbage \in OptionWords :
         options' = IF optimiserOn THEN OPTIMISER_ON ELSE garbage
    /\ pc' = "compile"
    /\ UNCHANGED <<argv, optIdx, inName, outName, optimiserOn, execute, fs, exitCode,
                   wk, processed, ann, out, sysVars>>

(* create_Hello_compiler() leaves executable::options uninitialised; each *)
(* set_options() replaces the word, so after set_options(OPTIMISER_ON)    *)
(* (for -O) and set_options(OUTPUT_ANNOTATED_SCRIPT) the word is          *)
(* OUTPUT_ANNOTATED_SCRIPT alone.                                          *)
MainConfigure ==
    /\ pc = "create"
    /\ options' = OUTPUT_ANNOTATED_SCRIPT
    /\ pc' = "compile"
    /\ UNCHANGED <<argv, optIdx, inName, outName, optimiserOn, execute, fs, exitCode,
                   wk, processed, ann, out, sysVars>>

MainInput == IF inName = <<>> THEN StdIn ELSE fs[inName]

(* compile() on the input and output streams, up to compile_internal.     *)
MainCompile ==
    /\ pc = "compile" /\ status = "idle"
    /\ SysCompileText(MainInput)
    /\ UNCHANGED mainVars

(* compile_internal's loop (HelloSystem).                                  *)
MainParse ==
    /\ pc = "compile"
    /\ SysStatement \/ SysEndOfInput
    /\ UNCHANGED mainVars

(* compile_internal returned: a failure is printed and main returns -1; a *)
(* crash ends the process; on success compile() writes the annotated      *)
(* script when its bit is set, and main returns 0.                         *)
MainCompiled ==
    /\ pc = "compile"
    /\ \/ /\ status = "failed" /\ Exit("-1") /\ UNCHANGED wk
       \/ /\ status = "crashed" /\ Exit("crash") /\ UNCHANGED wk
       \/ /\ status = "succeeded"
          /\ IF HasOption(options, OUTPUT_ANNOTATED_SCRIPT)
             THEN pc' = "write" /\ wk' = 1 /\ UNCHANGED exitCode
             ELSE Exit("0") /\ UNCHANGED wk
    /\ UNCHANGED <<argv, optIdx, inName, outName, optimiserOn, execute, fs, options,
                   processed, ann, out, sysVars>>

(***************************************************************************)
(* write_annotated_script and write_annotation                            *)
(***************************************************************************)

(* write_annotation's entry: the read position is pushed, the span         *)
(* [start, end) of the statement is taken, assert(pos < last) ends a       *)
(* debug build when it fails, and the stream seeks to start (the stream   *)
(* was cleared before write_annotated_script, so the seek succeeds).      *)
AnnotationStart(s, sp) ==
    IF build = "debug" /\ ~(sp.start < sp.end) THEN Exit("crash") /\ UNCHANGED ann
    ELSE /\ ann' = [stmt |-> s, pos |-> sp.start, last |-> sp.end, text |-> <<>>, eof |-> FALSE]
         /\ UNCHANGED <<pc, exitCode>>

(* One turn of write_annotated_script's loop at pipe[k]: the statement     *)
(* that generated the instruction is annotated when it is not in           *)
(* processed_stmts yet; otherwise the instruction is written and k moves.  *)
WriteStep ==
    /\ pc = "write" /\ ann = NoAnn /\ wk <= Len(pipe)
    /\ \/ /\ pipe[wk].stmt \in processed
          /\ wk' = wk + 1
          /\ UNCHANGED <<pc, exitCode, ann>>
       \/ /\ pipe[wk].stmt \notin processed
          /\ AnnotationStart(pipe[wk].stmt, stmts[pipe[wk].stmt + 1].sp)
          /\ UNCHANGED wk
    /\ UNCHANGED <<argv, optIdx, inName, outName, optimiserOn, execute, fs, options,
                   processed, out, sysVars>>

(* One turn of write_annotation's loop while pos != last.                  *)
(* assert(!f.eof() && f.good()) ends a debug build once a read has hit the *)
(* end; get() reads the character at pos, or hits the end (eofbit and      *)
(* failbit), and pos becomes tellg(), which is -1 once the stream has       *)
(* failed.  A failed stream reads nothing more: in a release build pos     *)
(* stays -1 and the turn changes nothing (the (char)EOF it writes to the   *)
(* output each time is not recorded).                                      *)
AnnotateChar ==
    /\ pc = "write" /\ ann # NoAnn /\ ann.pos # ann.last
    /\ IF build = "debug" /\ ann.eof THEN Exit("crash") /\ UNCHANGED ann
       ELSE /\ ann' = IF ann.pos \in 0 .. Len(tk.in) - 1
                      THEN [ann EXCEPT !.text = Append(@, tk.in[ann.pos + 1]), !.pos = @ + 1]
                      ELSE [ann EXCEPT !.pos = -1, !.eof = TRUE]
            /\ UNCHANGED <<pc, exitCode>>
    /\ UNCHANGED <<argv, optIdx, inName, outName, optimiserOn, execute, fs, options,
                   wk, processed, out, sysVars>>

(* pos reached last: the read position is popped, the statement is added  *)
(* to processed_stmts, and the instruction at k is written.                *)
AnnotateEnd ==
    /\ pc = "write" /\ ann # NoAnn /\ ann.pos = ann.last
    /\ out' = Append(out, ann)
    /\ processed' = processed \cup {ann.stmt}
    /\ ann' = NoAnn
    /\ wk' = wk + 1
    /\ UNCHANGED <<argv, optIdx, inName, outName, optimiserOn, execute, fs, options,
                   pc, exitCode, sysVars>>

(* The loop has passed the last instruction: compile() returns true and    *)
(* main returns 0.                                                         *)
WriteDone ==
    /\ pc = "write" /\ ann = NoAnn /\ wk > Len(pipe)
    /\ Exit("0")
    /\ UNCHANGED <<argv, optIdx, inName, outName, optimiserOn, execute, fs, options,
                   wk, processed, ann, out, sysVars>>

(* The steps of main() other than compile_internal's.                      *)
MainSteps ==
    \/ MainGetopt \/ MainOpenInput \/ MainOpenOutput \/ MainConfigure \/ MainCompiled
    \/ WriteStep \/ AnnotateChar \/ AnnotateEnd \/ WriteDone

MainNext == MainSteps \/ MainCompile \/ MainParse

(* compile() has been called and its loop has not ended.  Then its next   *)
(* turn is always possible: it parses a statement and generates it,       *)
(* reports a parse error, crashes, or finds eof.  The statement bound is   *)
(* part of the condition: a text it cut short would leave main() without   *)
(* fairness, so ProgramTerminates fails if the bound ever binds.           *)
Compiling ==
    /\ pc = "compile" /\ status \in {"idle", "compiling"}
    /\ status = "compiling" => parsed < MaxStmts

(* main() is one thread: a step of it that is enabled stays enabled until *)
(* it is taken, so each is weakly fair.  For compile() and its loop the   *)
(* condition is the state Compiling, equivalent to their ENABLED, which   *)
(* TLC would evaluate by parsing the rest of the text again.               *)
MainFairness ==
    /\ WF_allVars(MainSteps)
    /\ <>[]Compiling => []<><<MainCompile \/ MainParse>>_allVars

MainSpec == MainInit /\ [][MainNext]_allVars /\ MainFairness

(***************************************************************************)
(* Properties                                                              *)
(***************************************************************************)

(* The stmt indices of a pipeline, each once, in the order of the first    *)
(* instruction each generated.                                             *)
TagsAt(p, ks) == [m \in DOMAIN ks |-> p[ks[m]].stmt]
FirstTags(p) ==
    TagsAt(p, SelectSeq([k \in 1 .. Len(p) |-> k],
                        LAMBDA k : \A j \in 1 .. k - 1 : p[j].stmt # p[k].stmt))

AnnotationParses(a, s) == ~a.eof /\ SpanParsesAs(SpecParse(Completed(a.text, s)), s)

(* main() returns 0 only after compile() has written the annotated script *)
(* it asks for with OUTPUT_ANNOTATED_SCRIPT: the loop went through every   *)
(* instruction, each generating statement was annotated once, in the      *)
(* order of its first instruction, and each annotation is the statement's *)
(* own text, read without hitting the end of the stream.  This needs main *)
(* to set the option word, the writer's processed_stmts bookkeeping, and  *)
(* the spans the parser declared through tellg() to be right together.    *)
SuccessWritesAnnotatedScript ==
    exitCode = "0" =>
        /\ wk = Len(pipe) + 1
        /\ [m \in DOMAIN out |-> out[m].stmt] = FirstTags(pipe)
        /\ \A m \in DOMAIN out : AnnotationParses(out[m], stmts[out[m].stmt + 1])

(* Every run of the program ends: main() returns or the process stops, in  *)
(* particular write_annotation's loop reaches the end offset of every     *)
(* span it reads.                                                          *)
ProgramTerminates == <>(pc = "exited")

====
