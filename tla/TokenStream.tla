---------------------------- MODULE TokenStream ----------------------------
(***************************************************************************)
(* The lexer's contract, from spec section 4.1: a cursor over the token    *)
(* sequence that the lexical rules give the whole text.  peek() shows the  *)
(* token at the cursor without moving it, next_token() shows it and moves  *)
(* on, at_end() never claims the end while a token remains.  A lexical     *)
(* error, or asking for a token at the end, ends the stream (i = 0) with   *)
(* the error and the line it is on.                                        *)
(***************************************************************************)
EXTENDS Integers, Sequences, SequencesExt
LOCAL INSTANCE HelloTokeniser

CONSTANT Inputs          \* the texts, each a sequence of one-character strings

VARIABLES text, i, answer, atEnd

vars == <<text, i, answer, atEnd>>

SpecTwo     == {"==", "<=", ">=", "!=", "||", "&&", ".."}
SpecSingles == {"+", "-", "*", "/", "%", "(", ")", "[", "]", "{", "}", ",", ";",
                "=", "<", ">", "!"}
NameStart   == Letters \cup {"_"}

(* The first index at or after k whose character is not in S.             *)
RECURSIVE RunEnd(_, _, _)
RunEnd(t, k, S) == IF k <= Len(t) /\ t[k] \in S THEN RunEnd(t, k + 1, S) ELSE k

(* The index of the line break that ends the line of index k.             *)
RECURSIVE LineEnd(_, _)
LineEnd(t, k) == IF k <= Len(t) /\ t[k] # "\n" THEN LineEnd(t, k + 1) ELSE k

(* The first index at or after k that is not white space or a comment.    *)
RECURSIVE Skip(_, _)
Skip(t, k) ==
    CASE k > Len(t)    -> k
      [] t[k] \in Space -> Skip(t, k + 1)
      [] t[k] = "#"     -> Skip(t, LineEnd(t, k))
      [] OTHER          -> k

Text(t, a, b)  == FoldLeft(LAMBDA x, c : x \o c, "", SubSeq(t, a, b - 1))
Atoi(t, a, b)  == FoldLeft(LAMBDA x, c : 10 * x + Digit[c], 0, SubSeq(t, a, b - 1))
(* The bytes of hex digit pairs t[a..b-1], the first pair lowest.         *)
RECURSIVE Bytes(_, _, _)
Bytes(t, a, b) ==
    IF a >= b THEN 0 ELSE 16 * HexDigit[t[a]] + HexDigit[t[a + 1]] + 256 * Bytes(t, a + 2, b)

LineAt(t, k)   == Len(SelectSeq(SubSeq(t, 1, k - 1), LAMBDA c : c = "\n"))

(* What the stream shows: a token's type, text and value (an integer's    *)
(* number, a hex constant's bytes as a script number),                    *)
(* or an error with its line.                                              *)
Shown(ty, v, n) == [type |-> ty, value |-> v, num |-> n]
Error(kind, t, k) == Shown("error", kind, LineAt(t, k))

(* The spec's tokens of t from index k on, ending with the error that     *)
(* asking past the last token raises.                                      *)
RECURSIVE LexFrom(_, _)
LexFrom(t, k0) ==
    LET k  == Skip(t, k0)
        c  == t[k]
        d  == IF k + 1 <= Len(t) THEN t[k + 1] ELSE EOFCh
        Word(ty, a) == LET e == RunEnd(t, a, NameChars)
                       IN  <<Shown(ty, Text(t, a, e), 0)>> \o LexFrom(t, e)
    IN  CASE k > Len(t)          -> <<Error("UnexpectedEndOfInput", t, k)>>
          [] c \o d \in SpecTwo  -> <<Shown("std", c \o d, 0)>> \o LexFrom(t, k + 2)
          [] c = "."             -> <<Error("UnexpectedCharacter", t, k)>>
          [] c \in SpecSingles   -> <<Shown("std", c, 0)>> \o LexFrom(t, k + 1)
          [] c = "0" /\ d = "x"  ->
               LET e == RunEnd(t, k + 2, HexDigits)
               IN  IF (e - k - 2) % 2 = 1 THEN <<Error("OddHexLength", t, k)>>
                   ELSE <<Shown("hex", Text(t, k + 2, e),
                               ScriptNum(Bytes(t, k + 2, e), (e - k - 2) \div 2))>> \o LexFrom(t, e)
          [] c \in Digits        ->
               LET e == RunEnd(t, k, Digits)
               IN  <<Shown("integer", Text(t, k, e), Atoi(t, k, e))>> \o LexFrom(t, e)
          [] c \in NameStart     ->
               LET e == RunEnd(t, k, NameChars)
               IN  <<Shown(IF Text(t, k, e) \in Keywords THEN "std" ELSE "name",
                           Text(t, k, e), 0)>> \o LexFrom(t, e)
          [] c = "$" /\ d \in NameStart -> Word("extern", k + 1)
          [] OTHER               -> <<Error("UnexpectedCharacter", t, k)>>

Lex(t) == LexFrom(t, 1)

Cur == Lex(text)[i]

Init == text \in Inputs /\ i = 1 /\ answer = Shown("undefined", "", 0) /\ atEnd = FALSE

(* peek(): the token at the cursor.                                        *)
Look ==
    /\ i > 0
    /\ answer' = Cur
    /\ i' = IF Cur.type = "error" THEN 0 ELSE i
    /\ UNCHANGED <<text, atEnd>>

(* next_token(): the token at the cursor, and the cursor moves on.         *)
Take ==
    /\ i > 0
    /\ answer' = Cur
    /\ i' = IF Cur.type = "error" THEN 0 ELSE i + 1
    /\ UNCHANGED <<text, atEnd>>

(* at_end(): false while a token remains.                                   *)
AtEnd ==
    /\ i > 0
    /\ atEnd' \in IF Cur.value = "UnexpectedEndOfInput" THEN BOOLEAN ELSE {FALSE}
    /\ UNCHANGED <<text, i, answer>>

Next == Look \/ Take \/ AtEnd

Spec == Init /\ [][Next]_vars
=============================================================================
