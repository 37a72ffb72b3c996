--------------------------- MODULE HelloTokeniser ---------------------------
(***************************************************************************)
(* The tokeniser of the Hello compiler (src/HelloDll/tokeniser.h), as      *)
(* operators over a tokeniser-state record                                 *)
(*   tk = [in, pos, eofbit, failbit, lineno, stored, storedPos, tokLine,   *)
(*         debug, err, abort, ub]                                          *)
(* in is the source text as a sequence of one-character strings and pos   *)
(* the index of the next character: the istream.  eofbit and failbit are   *)
(* the stream's state bits, which decide what peek, get and putback do at  *)
(* the end of the text.  stored is the one-token lookahead and storedPos   *)
(* what tellg() reported when it was read (stored_token_fpos).  Of a       *)
(* streampoint the offset and the line are kept: the writer of the         *)
(* annotated script reads the one, messages show the other; the column is *)
(* left out.  err is a parse_error in flight (its kind and the line tellg()*)
(* gave it), abort an assert() that aborted a debug build, ub undefined    *)
(* behaviour (a read past the end of a table) taken to crash.  tokLine is a*)
(* history field: the line on which the last token read began.            *)
(***************************************************************************)
EXTENDS Integers, Sequences, SequencesExt

Letters ==
    {"a","b","c","d","e","f","g","h","i","j","k","l","m","n","o","p","q","r",
     "s","t","u","v","w","x","y","z","A","B","C","D","E","F","G","H","I","J",
     "K","L","M","N","O","P","Q","R","S","T","U","V","W","X","Y","Z"}
Digit == ("0" :> 0) @@ ("1" :> 1) @@ ("2" :> 2) @@ ("3" :> 3) @@ ("4" :> 4)
         @@ ("5" :> 5) @@ ("6" :> 6) @@ ("7" :> 7) @@ ("8" :> 8) @@ ("9" :> 9)
Digits    == DOMAIN Digit
HexDigit  == Digit @@ ("a" :> 10) @@ ("b" :> 11) @@ ("c" :> 12) @@ ("d" :> 13) @@ ("e" :> 14)
             @@ ("f" :> 15) @@ ("A" :> 10) @@ ("B" :> 11) @@ ("C" :> 12) @@ ("D" :> 13)
             @@ ("E" :> 14) @@ ("F" :> 15)
HexDigits == DOMAIN HexDigit
NameChars == Letters \cup Digits \cup {"_"}          \* is_name_char
Space     == {" ", "\t", "\n", "\r"}                 \* isspace
EOFCh     == "<EOF>"                                 \* what get()/peek() return at the end

Keywords == {"if", "else", "for", "in", "true", "false", "and", "or", "Assert"}

(* get_ftoken: characters that may start a two-character operator, with   *)
(* the second character, and the characters that are a token by themselves.*)
Second  == ("=" :> "=") @@ ("<" :> "=") @@ (">" :> "=") @@ ("|" :> "|")
           @@ ("&" :> "&") @@ ("!" :> "=")
Singles == {",", "~", "+", "-", "%", "(", ")", "[", "]", "{", "}", ":", ";"}

(* A token: its type, its text, and the number it stands for (atoi of an  *)
(* integer; for a hex constant the bytes ParseHex makes of it, read as a  *)
(* script number); len counts its characters.                             *)
Token(ty, v)  == [type |-> ty, value |-> v, num |-> 0, len |-> 0]
Std(v)        == Token("std", v)
NoToken       == Token("undefined", "")
Valid(t)      == t.type # "undefined"                \* token::is_valid
NoErr         == [kind |-> "none", line |-> 0]

TkInit(text, dbg) ==
    [in |-> text, pos |-> 1, eofbit |-> FALSE, failbit |-> FALSE, lineno |-> 0,
     stored |-> NoToken, storedPos |-> [pos |-> 0, line |-> 0], tokLine |-> 0, debug |-> dbg,
     err |-> NoErr, abort |-> FALSE, ub |-> FALSE]

(* A parse_error in flight, an abort, or undefined behaviour that crashes. *)
Halted(tk) == tk.err # NoErr \/ tk.abort \/ tk.ub

(***************************************************************************)
(* The istream                                                             *)
(***************************************************************************)

Good(tk) == ~tk.eofbit /\ ~tk.failbit

(* peek(): the next character, or EOF (setting eofbit) at the end.         *)
FPeek(tk) ==
    IF tk.failbit THEN [tk |-> tk, ch |-> EOFCh]
    ELSE IF tk.pos > Len(tk.in) THEN [tk |-> [tk EXCEPT !.eofbit = TRUE], ch |-> EOFCh]
    ELSE [tk |-> tk, ch |-> tk.in[tk.pos]]

(* get(): the next character; at the end EOF, setting eofbit and failbit. *)
(* On a stream whose failbit is set the sentry fails: EOF, no other bit.  *)
FGet(tk) ==
    IF tk.failbit THEN [tk |-> tk, ch |-> EOFCh]
    ELSE IF tk.pos > Len(tk.in)
    THEN [tk |-> [tk EXCEPT !.eofbit = TRUE, !.failbit = TRUE], ch |-> EOFCh]
    ELSE [tk |-> [tk EXCEPT !.pos = @ + 1], ch |-> tk.in[tk.pos]]

(* putback(): clears eofbit, then fails on a stream whose failbit is set  *)
(* (C++11): after a get() at the end the stream has failbit, not eofbit.  *)
PutBack(tk) ==
    IF tk.failbit THEN [tk EXCEPT !.eofbit = FALSE]
    ELSE [tk EXCEPT !.pos = @ - 1, !.eofbit = FALSE]

(***************************************************************************)
(* tokeniser                                                               *)
(***************************************************************************)

(* Bug variant: tellg() that reports the stream's position even while a  *)
(* token is stored.                                                        *)
TellgIgnoringStored(tk) ==
    [pos |-> IF Good(tk) THEN tk.pos - 1 ELSE 0, line |-> tk.lineno]

(* tellg(): the stored token's position while one is stored; otherwise   *)
(* f.tellg() as an offset, which is -1, clamped to 0, once the stream is   *)
(* not good (its sentry then also sets failbit, which changes nothing that *)
(* follows: at that point every read fails already).                       *)
Tellg(tk) ==
    IF Valid(tk.stored) THEN tk.storedPos
    ELSE [pos |-> IF Good(tk) THEN tk.pos - 1 ELSE 0, line |-> tk.lineno]

Throw(tk, kind) == [tk EXCEPT !.err = [kind |-> kind, line |-> Tellg(tk).line]]

(* assert(): aborts a debug build; a release build goes on.               *)
CAssert(tk, cond) == IF cond \/ ~tk.debug THEN tk ELSE [tk EXCEPT !.abort = TRUE]

(* getch(): get(), throwing "Unexpected EOF." when the stream is not good. *)
Getch(tk) ==
    LET g == FGet(tk)
    IN  IF Good(g.tk) THEN g ELSE [tk |-> Throw(g.tk, "UnexpectedEndOfInput"), ch |-> g.ch]

(* Bug variant: a line break counted when peeked and again when eaten.    *)
RECURSIVE WsFromCountingTwice(_, _)
WsFromCountingTwice(tk, inComment) ==
    LET p  == FPeek(tk)
        t1 == IF p.ch = "\n" THEN [p.tk EXCEPT !.lineno = @ + 1] ELSE p.tk
        g  == Getch(t1)
        t2 == IF p.ch = "\n" THEN [g.tk EXCEPT !.lineno = @ + 1] ELSE g.tk
    IN  IF p.tk.eofbit THEN p.tk
        ELSE IF inComment \/ p.ch \in Space \/ p.ch = "#"
        THEN WsFromCountingTwice(t2, IF p.ch = "\n" THEN FALSE
                                     ELSE IF p.ch = "#" THEN TRUE ELSE inComment)
        ELSE t1

(* ws(): skips white space and # comments, counting the line breaks it    *)
(* peeks at.                                                               *)
RECURSIVE WsFrom(_, _)
WsFrom(tk, inComment) ==
    LET p  == FPeek(tk)
        t1 == IF p.ch = "\n" THEN [p.tk EXCEPT !.lineno = @ + 1] ELSE p.tk
    IN  IF p.tk.eofbit THEN p.tk
        ELSE IF inComment \/ p.ch \in Space \/ p.ch = "#"
        THEN WsFrom(Getch(t1).tk, IF p.ch = "\n" THEN FALSE
                                  ELSE IF p.ch = "#" THEN TRUE ELSE inComment)
        ELSE t1

Ws(tk) == IF Halted(tk) THEN tk ELSE WsFrom(tk, FALSE)

(* f_eat(): the longest run of accepted characters, putting the first     *)
(* other one back; it asserts that the run is not empty.                   *)
RECURSIVE EatWhile(_, _, _)
EatWhile(tk, accept, tok) ==
    IF tk.eofbit THEN [tk |-> tk, tok |-> tok]
    ELSE LET g == FGet(tk)
         IN  IF g.ch \in accept
             THEN EatWhile(g.tk, accept,
                           [tok EXCEPT !.value = @ \o g.ch, !.len = @ + 1,
                                       !.num = CASE tok.type = "hex" ->
                                                      @ + HexDigit[g.ch] * 16^(1 - (tok.len % 2))
                                                                         * 256^(tok.len \div 2)
                                                 [] g.ch \in Digits -> 10 * @ + Digit[g.ch]
                                                 [] OTHER -> @])
             ELSE [tk |-> PutBack(g.tk), tok |-> tok]

NonEmpty(r) == [tk |-> CAssert(r.tk, r.tok.len > 0), tok |-> r.tok]

FEat(tk, accept, ty) == NonEmpty(EatWhile(tk, accept, Token(ty, "")))

(* A little-endian byte string as a script number: the top bit of the     *)
(* last byte is the sign.                                                  *)
ScriptNum(v, nbytes) ==
    LET top == 128 * 256^(nbytes - 1)
    IN  IF nbytes > 0 /\ v >= top THEN -(v - top) ELSE v

(* f_eat_Hex(): after "0", the "x" and the hex digits, of which there     *)
(* must be an even number.                                                 *)
HexDigitsAfter(g) == FEat(CAssert(g.tk, g.ch = "x"), HexDigits, "hex")

EvenHex(r) ==
    IF Halted(r.tk) \/ r.tok.len % 2 = 0
    THEN [r EXCEPT !.tok.num = ScriptNum(@, r.tok.len \div 2)]
    ELSE [tk |-> Throw(r.tk, "OddHexLength"), tok |-> r.tok]

FEatHex(tk) == EvenHex(HexDigitsAfter(Getch(tk)))

(* A name: keywords become std tokens, a name after "$" an extern one.     *)
NameTyped(r, dollar) ==
    LET ty == IF dollar THEN "extern" ELSE IF r.tok.value \in Keywords THEN "std" ELSE "name"
    IN  [tk |-> r.tk, tok |-> [r.tok EXCEPT !.type = ty]]

FEatName(tk, dollar) == NameTyped(FEat(tk, NameChars, "name"), dollar)

(* get_ftoken(): white space, then one token read from the stream: the    *)
(* first character ch, read with getch() into t1, and the one after it    *)
(* peeked at, p.                                                           *)
TokenStart(t0) == [t0 EXCEPT !.tokLine = t0.lineno]

FTokenOf(ch, t1, p) ==
    IF Halted(t1) THEN [tk |-> t1, tok |-> NoToken]
    ELSE CASE ch \in DOMAIN Second ->
                IF p.ch = Second[ch] THEN [tk |-> FGet(p.tk).tk, tok |-> Std(ch \o Second[ch])]
                ELSE [tk |-> p.tk, tok |-> Std(ch)]
           [] ch = "." ->
                IF p.ch = "." THEN [tk |-> FGet(p.tk).tk, tok |-> Std("..")]
                ELSE [tk |-> Throw(p.tk, "UnexpectedCharacter"), tok |-> NoToken]
           [] ch \in Singles -> [tk |-> t1, tok |-> Std(ch)]
           [] ch \in Digits ->
                IF ch = "0" /\ p.ch = "x" THEN FEatHex(p.tk)
                ELSE FEat(PutBack(p.tk), Digits, "integer")
           [] ch \in Letters -> FEatName(PutBack(t1), FALSE)
           [] ch = "$" -> FEatName(t1, TRUE)
           [] OTHER -> [tk |-> Throw(t1, "UnexpectedCharacter"), tok |-> NoToken]

FTokenAfter(g) == FTokenOf(g.ch, g.tk, FPeek(g.tk))

GetFToken(tk) == FTokenAfter(Getch(TokenStart(Ws(tk))))

(* get_token(): the stored token if there is one, else a fresh one.        *)
GetToken(tk) ==
    IF Halted(tk) THEN [tk |-> tk, tok |-> NoToken]
    ELSE IF Valid(tk.stored) THEN [tk |-> [tk EXCEPT !.stored = NoToken], tok |-> tk.stored]
    ELSE GetFToken(tk)

(* The token read by peek() becomes the stored one.                         *)
Stored(r) == [tk |-> [r.tk EXCEPT !.stored = r.tok], tok |-> r.tok]

(* Bug variant: peek() that reads past a token already stored.            *)
PeekIgnoringStored(tk) ==
    IF Halted(tk) THEN [tk |-> tk, tok |-> tk.stored]
    ELSE Stored(GetFToken([tk EXCEPT !.storedPos = Tellg(tk)]))

(* peek(): reads a token into the lookahead unless one is stored there.   *)
Peek(tk) ==
    IF Halted(tk) \/ Valid(tk.stored) THEN [tk |-> tk, tok |-> tk.stored]
    ELSE Stored(GetFToken([tk EXCEPT !.storedPos = Tellg(tk)]))

(* token::operator==(const token&): the types agree and are not          *)
(* _undefined; the values are not compared.                                *)
SameToken(t, other) == t.type = other.type /\ Valid(t)

(* eat(expected): eat(const string&) makes token(expected), a std token,  *)
(* and compares with token::operator!=, which compares the types alone:   *)
(* any std token is accepted.                                              *)
EatStd(r, expected) ==
    IF Halted(r.tk) \/ SameToken(r.tok, Std(expected)) THEN r.tk ELSE Throw(r.tk, "UnexpectedToken")

Eat(tk, expected) == EatStd(GetToken(tk), expected)

(* eat_token_type(): eat_name and eat_integer.  The message of its        *)
(* parse_error prints the token through type_name(), whose table has no   *)
(* entry for _name: for a name token the read is past the array, and the  *)
(* error is thrown with ub set, either outcome being possible.            *)
OfType(r, ty) ==
    IF Halted(r.tk) \/ r.tok.type = ty THEN r
    ELSE [tk |-> [Throw(r.tk, "UnexpectedToken") EXCEPT !.ub = r.tok.type = "name"],
          tok |-> r.tok]

EatTokenType(tk, ty) == OfType(GetToken(tk), ty)

(* eof(): false while a token is stored, else whether peek() hits the end. *)
Eof(tk) ==
    IF Valid(tk.stored) THEN [tk |-> tk, eof |-> FALSE]
    ELSE LET p == FPeek(tk) IN [tk |-> p.tk, eof |-> p.tk.eofbit]

=============================================================================
