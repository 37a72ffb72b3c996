---------------------------- MODULE MCHelloSystem ----------------------------
(***************************************************************************)
(* Model-checking instances of HelloSystem: program texts, written one    *)
(* character per element.                                                  *)
(***************************************************************************)
EXTENDS HelloSystem

MCNames == {"x", "y", "i"}

(* Texts the code and the grammar read alike: assignments with operators *)
(* and a builtin call, a conditional with else, a loop, an Assert, a read *)
(* of an unassigned name, and two syntax errors (a missing ";" and a text *)
(* that ends inside a statement).                                         *)
MCTexts ==
    { <<"x", "=", "1", ";", "\n", "y", "=", "x", "+", "1", ";">>,
      <<"x", "=", "0", ";", "i", "f", "(", "x", "<", "1", ")", "{", "x", "=", "x", "+", "1", ";",
        "}", "e", "l", "s", "e", "{", "x", "=", "1", ";", "}">>,
      <<"f", "o", "r", " ", "i", " ", "i", "n", "[", "0", ".", ".", "1", "]", "{",
        "x", "=", "i", ";", "}">>,
      <<"x", "=", "2", ";", "A", "s", "s", "e", "r", "t", "(", "x", ">", "1", ")", ";">>,
      <<"x", "=", "2", ";", "y", "=", "m", "a", "x", "(", "x", ",", "1", ")", ";">>,
      <<"y", "=", "x", ";">>,
      <<"m", "a", "x", "(", "x", ",", "1", ")", ";">>,
      <<"x", "=", "1", "\n", "y", "=", "2", ";">>,
      <<"x", "=", "1", ";", "\n", "y", "=">> }

(* The system takes its statements from the parser; HelloCompiler's      *)
(* Statements, which its own Next draws from, is not used here.           *)
MCStatements == {}

(* eat("=") accepts any std token: an operator in place of "=".            *)
MCTypeOnlyEat == { <<"x", "+", "1", ";">> }

(* A condition with two "and"s.                                            *)
MCAndChain == { <<"x", "=", "1", ";", "i", "f", "(", "x", "<", "2", " ", "a", "n", "d", " ", "x", "<", "3", " ", "a", "n", "d", " ", "x", "<", "4", ")", "{", "}">> }

(* A void call of a special function.                                      *)
MCSpecialCall == { <<"x", "=", "1", ";", "V", "e", "r", "i", "f", "y", "(", "x", ")", ";">> }

(* An extern name as a factor.                                             *)
MCExternFactor == { <<"x", "=", "$", "a", ";">> }

(* An assignment with no value.                                            *)
MCMissingValue == { <<"x", "=", ";">> }

(* A statement that starts with a native function's name.                  *)
MCNativeStatement == { <<"x", "=", "1", ";", "m", "a", "x", "(", "x", ",", "1", ")", ";">> }

(* A comparison with no operator: the ")" that ends it is on line 2.       *)
MCErrorLine == { <<"x", "=", "1", ";", "i", "f", "(", "x", "\n", ")", "{", "}">> }
(* A loop bound that is a name, which eat_integer() rejects.              *)
MCNameBound == { <<"f", "o", "r", " ", "i", " ", "i", "n", "[", "x", ".", ".", "1", "]", "{", "}">> }
=============================================================================
