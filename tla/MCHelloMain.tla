---------------------------- MODULE MCHelloMain ----------------------------
(***************************************************************************)
(* Model-checking instances of HelloMain: a file system of program texts, *)
(* std input, and command lines over them.  Words and texts are written  *)
(* one character per element.                                             *)
(***************************************************************************)
EXTENDS HelloMain

MCNames == {"x", "y", "i"}

W(s) == <<s>>      \* a one-character word

(* Files: two statements over two lines; a conditional with else; a loop; *)
(* a missing ";"; a read of an unassigned name; a builtin call; a file   *)
(* holding only a comment; a builtin called as a statement (the parser  *)
(* looks it up in the special functions, where it is missing).          *)
MCFiles ==
    (<<"a">> :> <<"x", "=", "1", ";", "\n", "y", "=", "x", "+", "1", ";">>) @@
    (<<"b">> :> <<"x", "=", "0", ";", "i", "f", "(", "x", "<", "1", ")", "{", " ", "x", "=", "x",
                  "+", "1", ";", "}", "e", "l", "s", "e", "{", "x", "=", "1", ";", "}">>) @@
    (<<"c">> :> <<"f", "o", "r", " ", "i", " ", "i", "n", "[", "0", ".", ".", "1", "]", "{",
                  "x", "=", "i", ";", "}">>) @@
    (<<"d">> :> <<"x", "=", "1", "\n", "y", "=", "2", ";">>) @@
    (<<"e">> :> <<"y", "=", "x", ";">>) @@
    (<<"g">> :> <<"x", "=", "2", ";", "y", "=", "m", "a", "x", "(", "x", ",", "1", ")", ";">>) @@
    (<<"k">> :> <<"#", "c", "\n">>) @@
    (<<"u">> :> <<"m", "a", "x", "(", "x", ",", "1", ")", ";">>)

(* std input: an Assert, which generates no code with ASSERTS_ON clear.   *)
MCStdIn == <<"x", "=", "2", ";", "A", "s", "s", "e", "r", "t", "(", "x", ">", "1", ")", ";">>

(* Every default output name can be created, and "o"; "n" cannot.        *)
MCWritable == {f \o <<".script">> : f \in DOMAIN MCFiles} \cup {<<"o">>}

(* Command lines: each file with -f; -f with -o, with -O first, with a    *)
(* file that does not exist, and with no parameter; std input alone, after *)
(* an unknown switch, after a word that is not a switch, and after "--";   *)
(* -o alone to a name that cannot be created; "-x", which getopt rejects  *)
(* but main's switch still reads; "-:".                                    *)
MCCommandLines ==
    {<<<<"-", "f">>, f>> : f \in DOMAIN MCFiles} \cup
    { <<<<"-", "f">>, W("a"), <<"-", "o">>, W("o")>>,
      <<<<"-", "O">>, <<"-", "f">>, W("c")>>,
      <<<<"-", "f">>, W("z")>>,
      <<<<"-", "f">>>>,
      <<>>,
      <<<<"-", "q">>>>,
      <<W("p")>>,
      <<<<"-", "-">>, <<"-", "f">>, W("a")>>,
      <<<<"-", "o">>, W("n")>>,
      <<<<"-", "x">>>>,
      <<<<"-", ":">>>> }

(* main() sets OUTPUT_ANNOTATED_SCRIPT alone, so ASSERTS_ON is clear.     *)
MCAssertsOn == HasOption(OUTPUT_ANNOTATED_SCRIPT, ASSERTS_ON)
(* A text whose last statement ends in "=" where ";" belongs: the         *)
(* tokeniser's peek after "=" hits the end of the stream, so the "="       *)
(* passes for the terminator and the statement's end offset is taken from *)
(* a failed stream.                                                        *)
MCHangFiles == <<"s">> :> <<"x", "=", "1", ";", "y", "=", "1", "=">>
MCHangCommandLines == { <<<<"-", "f">>, W("s")>> }
MCHangWritable == { <<"s", ".script">> }

(* An empty file, and a file holding the input's own name as -o.          *)
MCEdgeFiles == (<<"h">> :> <<>>) @@ (<<"a">> :> <<"x", "=", "1", ";">>)
MCEdgeCommandLines == { <<<<"-", "f">>, W("h")>>, <<<<"-", "f">>, W("a"), <<"-", "o">>, W("a")>> }
MCEdgeWritable == { <<"h", ".script">>, <<"a">> }
=============================================================================
