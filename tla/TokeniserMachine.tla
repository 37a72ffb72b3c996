-------------------------- MODULE TokeniserMachine --------------------------
(***************************************************************************)
(* The tokeniser as the parser drives it: each action is one call of a     *)
(* public method of class tokeniser (tokeniser.h) on the state tk, and     *)
(* answer is what the call returned.  The parser calls them in any order,  *)
(* so the model does too, until a parse_error or an abort ends the run.    *)
(***************************************************************************)
EXTENDS HelloTokeniser

CONSTANT Inputs          \* the texts, each a sequence of one-character strings

VARIABLES tk, answer, atEnd

vars == <<tk, answer, atEnd>>

TInit == \E text \in Inputs, dbg \in BOOLEAN : tk = TkInit(text, dbg) /\ answer = NoToken /\ atEnd = FALSE

(* peek()                                                                  *)
CallPeek == ~Halted(tk) /\ tk' = Peek(tk).tk /\ answer' = Peek(tk).tok /\ UNCHANGED atEnd

(* get_token(), through eat(), eat_name() or eat_integer().                *)
CallGetToken == ~Halted(tk) /\ tk' = GetToken(tk).tk /\ answer' = GetToken(tk).tok /\ UNCHANGED atEnd

(* eof()                                                                    *)
CallEof == ~Halted(tk) /\ tk' = Eof(tk).tk /\ atEnd' = Eof(tk).eof /\ UNCHANGED answer

(* ws()                                                                     *)
CallWs == ~Halted(tk) /\ tk' = Ws(tk) /\ UNCHANGED <<answer, atEnd>>

TNext == CallPeek \/ CallGetToken \/ CallEof \/ CallWs

TSpec == TInit /\ [][TNext]_vars

(***************************************************************************)
(* Properties                                                              *)
(***************************************************************************)

Tokens == [type : {"std", "name", "integer", "hex", "extern", "undefined"},
            value : STRING, num : Int, len : Nat]

TypeOK ==
    /\ answer \in Tokens
    /\ atEnd \in BOOLEAN
    /\ tk.pos \in 1 .. Len(tk.in) + 1
    /\ tk.lineno \in 0 .. Len(tk.in)

(* The refinement mapping.  The cursor of the abstract stream stands after *)
(* the spec's tokens of the text the stream has consumed, less the stored  *)
(* lookahead; an error in flight is the stream's end.  What a call         *)
(* returned shows as its type, text and, for an integer or hex constant,  *)
(* its value.                                                              *)
TS == INSTANCE TokenStream WITH text <- <<>>, i <- 0, answer <- NoToken, atEnd <- FALSE

AbsIndex ==
    IF Halted(tk) THEN 0
    ELSE Len(TS!Lex(SubSeq(tk.in, 1, tk.pos - 1))) - IF Valid(tk.stored) THEN 1 ELSE 0

AbsAnswer ==
    CASE tk.err # NoErr          -> TS!Shown("error", tk.err.kind, tk.err.line)
      [] tk.abort                -> TS!Shown("abort", "", 0)
      [] OTHER -> TS!Shown(answer.type, answer.value,
                           IF answer.type \in {"integer", "hex"} THEN answer.num ELSE 0)

Stream == INSTANCE TokenStream WITH text <- tk.in, i <- AbsIndex, answer <- AbsAnswer, atEnd <- atEnd

(* The tokeniser implements the lexer of spec 4.1 under the parser's use:  *)
(* peek() is idempotent and one token of pushback, get_token() hands out   *)
(* the spec's tokens in order (keywords, two-character operators, hex and  *)
(* integer values, extern names), a lexical error ends the stream with the *)
(* spec's error on the line of the offending character, and eof() never    *)
(* says the text is over while a token is left.                            *)
ImplementsTokenStream == Stream!Spec
=============================================================================
