----------------------------- MODULE HelloSystem -----------------------------
(***************************************************************************)
(* Hello_compiler::compile_internal with the real parser: compile() hands *)
(* the text to a Hello_parser, calls ws(), and then, while !eof() and the *)
(* last statement compiled, eat_statement() parses one statement from the  *)
(* tokeniser state tk and fill_pipeline() generates it (HelloCompiler's    *)
(* Statement).  asts are the statements parsed so far in this unit.       *)
(***************************************************************************)
EXTENDS HelloCompiler, HelloGrammar

CONSTANT Texts          \* the program texts, sequences of one-character strings

VARIABLES tk, asts

sysVars == <<vars, tk, asts>>

SysInit == Init /\ tk = TkInit(<<>>, build = "debug") /\ asts = <<>>

(* in_stream << f_in.rdbuf(): the text copied into a stringstream.  An    *)
(* insertion that inserts no characters sets failbit on in_stream.        *)
CopiedStream(text) == [TkInit(text, build = "debug") EXCEPT !.failbit = (text = <<>>)]

(* compile(f_in): the copy, reset(), then compile_internal builds a parser *)
(* on the copy and calls ws() before its loop.                             *)
SysCompileText(text) ==
    /\ Compile
    /\ tk' = Ws(CopiedStream(text))
    /\ asts' = <<>>

SysCompile == \E text \in Texts : SysCompileText(text)

(* One turn of the loop: eof() is false, eat_statement() runs.  A          *)
(* parse_error is caught and reported; an assert() or undefined behaviour *)
(* (a missing table entry dereferenced, a read past type_name's table)    *)
(* ends the process; otherwise the node is generated.  When a parse_error *)
(* was built with undefined behaviour, either may happen.                  *)
StatementParsed(r) ==
    /\ tk' = r.tk
    /\ \/ /\ r.tk.err # NoErr
          /\ ParseError
          /\ UNCHANGED asts
       \/ /\ r.tk.abort \/ r.tk.ub
          /\ status' = "crashed"
          /\ UNCHANGED <<symtab, names, stmts, pipe, emitted, diag, compiles, parsed,
                         build, sem, lastLoop, asts>>
       \/ /\ ~Halted(r.tk)
          /\ Statement(r.node)
          /\ asts' = Append(asts, r.node)

SysStatement ==
    /\ status = "compiling"
    /\ ~Eof(tk).eof
    /\ \E r \in {EatStatement(Eof(tk).tk)} : StatementParsed(r)

(* eof() is true: the loop ends and compile() succeeds.                    *)
SysEndOfInput ==
    /\ Eof(tk).eof
    /\ tk' = Eof(tk).tk
    /\ EndOfInput
    /\ UNCHANGED asts

SysNext == SysCompile \/ SysStatement \/ SysEndOfInput

SysSpec == SysInit /\ [][SysNext]_sysVars

(* The statements of the unit parsed so far, and the ones inside them.    *)
ParsedStatements == ToSet(asts) \cup UNION {SubStatements(s) : s \in ToSet(asts)}

(***************************************************************************)
(* Properties                                                              *)
(***************************************************************************)

(* Types, with the span table in place of HelloCompiler's Statements: the *)
(* spans declared (the table write_annotated_script indexes) are          *)
(* statements of the unit eat_statement() returned, or inside them.        *)
SysTypeOK == StateTypeOK /\ stmts \in Seq(ParsedStatements)

(* eat_statement() parses the grammar of spec 4.2: the statements compiled *)
(* so far are the first ones the grammar gives the text; a unit that       *)
(* compiles is exactly the grammar's statements of a text without a syntax *)
(* error; and a "Parsing error." is reported only for a text the grammar   *)
(* rejects, after exactly the statements before the error.                 *)
AgreesWith(sp, got) ==
    /\ IsPrefix(got, sp.stmts)
    /\ status = "succeeded" => got = sp.stmts /\ ~sp.err
    /\ "ParseError" \in diag => got = sp.stmts /\ sp.err

ParsesAsSpecified == status # "idle" => AgreesWith(SpecParse(tk.in), UnspannedBlock(asts))

(* Error locality (spec 7): a parse_error reports, through tellg(), the   *)
(* line of the token the parser stopped at.                                *)
ErrorLineIsTokenLine ==
    tk.err # NoErr => tk.err.line = tk.tokLine
(* The head of a statement as its span covers it: a conditional's and a   *)
(* loop's span ends before their block (the block's "{" is still stored   *)
(* when the end is taken), so their text is completed with an empty block.*)
Header(s) ==
    CASE s.t = "if"  -> If(s.cond, <<>>, <<>>)
      [] s.t = "for" -> For(s.var, s.lo, s.hi, <<>>)
      [] OTHER       -> Unspanned(s)

Completed(text, s) == text \o (IF s.t \in {"if", "for"} THEN <<"{", "}">> ELSE <<>>)

SpanText(in, s) == Completed(SubSeq(in, s.sp.start + 1, s.sp.end), s)

SpanParsesAs(sp, s) == ~sp.err /\ sp.stmts = <<Header(s)>>

(* The spans declare_streampoint records, read back by write_annotation,  *)
(* are the statements: the text between each declared statement's start *)
(* and end offsets in the compiled stream parses, by the grammar, as that *)
(* statement alone.  start is taken through tellg() before a token may    *)
(* have been peeked and end after the terminator, so a stale stored        *)
(* position or a tellg() of a failed stream shows here.                    *)
SpansAreStatements ==
    \A k \in DOMAIN stmts : SpanParsesAs(SpecParse(SpanText(tk.in, stmts[k])), stmts[k])
=============================================================================
