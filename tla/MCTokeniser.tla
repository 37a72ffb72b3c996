---------------------------- MODULE MCTokeniser ----------------------------
(***************************************************************************)
(* Texts for the tokeniser: every text of up to three characters over an   *)
(* alphabet that has a letter, digits, one- and two-character operators,   *)
(* '.', a comment and both kinds of white space, and longer texts for      *)
(* keywords, hex constants, extern names and line counting.                *)
(***************************************************************************)
EXTENDS TokeniserMachine

MCAlphabet == {"a", "0", "1", "=", "<", ".", "#", "\n", " "}

MCLonger ==
    { <<"i", "f">>, <<"i", "f", "f">>, <<"A", "s", "s", "e", "r", "t">>,
      <<"0", "x", "a", "1">>, <<"0", "x", "1">>, <<"0", "x", "a", "b", "c">>,
      <<"$", "a", "b">>, <<"a", "1", "b", "=", "=", "1", "2">>,
      <<"a", "\n", "1", "\n", "!", "=">>, <<"#", "a", "\n", "b", " ", "#">>,
      <<"[", "0", ".", ".", "1", "]">>, <<"x", "&", "&", "y", "|", "|">>,
      <<"f", "o", "r", "(", ")", "{", "}", ";", ",">>, <<"\n", "\n", "-", "%", "+">> }

MCInputs == SeqOf(MCAlphabet, 3) \cup MCLonger

(* Characters the spec reads differently: '*', '/' and a name beginning    *)
(* with '_'.                                                               *)
MCOperators == { <<"a", "*", "1">>, <<"a", "/", "1">> }
MCUnderscore == { <<"_", "a">> }

(* '$' with no name after it.                                              *)
MCBareDollar == { <<"$", " ", "a">> }
=============================================================================
