------------------------------ MODULE MCCoreRead ------------------------------
(***************************************************************************)
(* Model-checking instances of CoreRead: a few opcode names and texts of  *)
(* every word kind, written one character per element.                     *)
(***************************************************************************)
EXTENDS CoreRead

(* The words are joined with a single space.                              *)
Text(ws) == FlattenSeq([k \in 1 .. 2 * Len(ws) - 1 |->
                           IF k % 2 = 1 THEN ws[(k + 1) \div 2] ELSE <<" ">>])

PUSHDATA1 == <<"P", "U", "S", "H", "D", "A", "T", "A", "1">>
PUSHDATA2 == <<"P", "U", "S", "H", "D", "A", "T", "A", "2">>
PUSHDATA4 == <<"P", "U", "S", "H", "D", "A", "T", "A", "4">>
ADD       == <<"A", "D", "D">>

(* GetOpName over OP_PUSHDATA1/2/4, OP_1NEGATE, OP_RESERVED, OP_1, OP_ADD *)
(* and an undefined opcode.                                                *)
MCOpName ==
    (76 :> OPPrefix \o PUSHDATA1) @@ (77 :> OPPrefix \o PUSHDATA2) @@
    (78 :> OPPrefix \o PUSHDATA4) @@ (79 :> <<"-", "1">>) @@
    (80 :> OPPrefix \o <<"R", "E", "S", "E", "R", "V", "E", "D">>) @@
    (81 :> <<"1">>) @@ (147 :> OPPrefix \o ADD) @@ (186 :> Unknown)

(* Texts: a direct push of the announced size and of the wrong size;       *)
(* PUSHDATA1/2/4 with their lengths; quoted strings, numbers at and above  *)
(* the OP_N range and the names of an opcode; raw hex of two bytes in     *)
(* opcode position; a zero-length PUSHDATA1; separators at both ends and  *)
(* the empty text; words that throw.                                       *)
MCTexts ==
    { Text(<<<<"L", "2">>, <<"0", "x", "a", "a", "b", "b">>, ADD>>),
      Text(<<<<"L", "2">>, <<"0", "x", "a", "a">>>>),
      Text(<<PUSHDATA1, <<"0", "x", "0", "2">>, <<"0", "x", "a", "a", "b", "b">>, OPPrefix \o ADD>>),
      Text(<<OPPrefix \o PUSHDATA2, <<"0", "x", "0", "1", "0", "0">>, <<"0", "x", "c", "c">>>>),
      Text(<<PUSHDATA4, <<"0", "x", "0", "1", "0", "0", "0", "0">>, <<"0", "x", "c", "c">>>>),
      Text(<<<<"'", "a", "b", "'">>, <<"'", "'">>, <<"1", "0", "0">>, <<"0">>,
             <<"1", "6">>, <<"-", "1">>, OPPrefix \o <<"1">>>>),
      Text(<<<<"-", "4">>, <<"0", "x", "0", "2">>, <<"0", "x", "a", "a", "b", "b">>>>),
      Text(<<<<"2", "0">>, ADD>>),
      Text(<<<<"0", "x", "4", "c", "0", "5">>, <<"0", "x", "a", "a">>>>),
      Text(<<PUSHDATA1, <<"0", "x", "0", "0">>, ADD>>),
      <<" ", "A", "D", "D", "\t">>,
      <<>>,
      Text(<<<<"L">>, <<"-">>, <<"0", "x", "0">>>>),
      Text(<<<<"0", "x">>>>),
      Text(<<<<"L", "1", "0", "0">>>>) }

(* A number in the range EncodeOP_N is called with but does not accept.   *)
MCNumberTexts == {Text(<<<<"1", "0", "0">>, <<"2", "0">>>>)}
====
