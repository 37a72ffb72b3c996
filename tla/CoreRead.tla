------------------------------ MODULE CoreRead ------------------------------
(***************************************************************************)
(* ParseScript (bitcoin/src/core_read.cpp), the assembler from script text *)
(* to script bytes: the text is split into words, and each word appends    *)
(* bytes to the result (an opcode, a number, raw hex, a quoted push).  The *)
(* loop tracks pushes: after a push opcode written as a one-byte word, the *)
(* next word must supply exactly the bytes it announces, and after        *)
(* OP_PUSHDATA1/2/4 the next word is the length, read little-endian.  A   *)
(* runtime_error ends the call (status "error"); a failed assert() aborts  *)
(* a debug build (status "abort").                                         *)
(*                                                                         *)
(* A text and a word are sequences of one-character strings; a script is  *)
(* a sequence of bytes 0..255.  The CScript, CScriptNum and string helpers *)
(* the loop calls belong to the Bitcoin library, which is not part of this *)
(* repository; they are written below from that library.                  *)
(***************************************************************************)
EXTENDS Integers, Sequences, SequencesExt

CONSTANT OpName   \* GetOpName over opcodes OP_PUSHDATA1 .. FIRST_UNDEFINED_OP_VALUE-1
CONSTANT Texts    \* the texts ParseScript is called with

VARIABLES
    build,           \* "debug" (assert() aborts) or "release" (NDEBUG)
    s,               \* the argument
    words,           \* the words boost::split gave
    wi,              \* the index of the next word
    result,          \* the script built so far
    push_size,       \* bytes the current word must add (0: not checked)
    next_push_size,  \* bytes the next word must add
    push_data_size,  \* width of the PUSHDATA length the next word holds
    status,          \* "parsing", "done", "error" (exception) or "abort"
    untracked        \* history: raw hex of several bytes was inserted as opcodes

parseVars == <<build, s, words, wi, result, push_size, next_push_size,
               push_data_size, status, untracked>>

(***************************************************************************)
(* The Bitcoin library: characters, CScript and CScriptNum.                *)
(***************************************************************************)
DigitChars == <<"0", "1", "2", "3", "4", "5", "6", "7", "8", "9">>
LowerChars == <<"a", "b", "c", "d", "e", "f", "g", "h", "i", "j", "k", "l", "m",
                "n", "o", "p", "q", "r", "s", "t", "u", "v", "w", "x", "y", "z">>
UpperChars == <<"A", "B", "C", "D", "E", "F", "G", "H", "I", "J", "K", "L", "M",
                "N", "O", "P", "Q", "R", "S", "T", "U", "V", "W", "X", "Y", "Z">>

(* The position of c in the sequence tbl, 0 when absent.                    *)
PosIn(tbl, c) == SelectInSeq(tbl, LAMBDA x : x = c)

(* The byte a character stands for in a std::string (ASCII).              *)
Ascii(c) ==
    CASE PosIn(DigitChars, c) > 0 -> 47 + PosIn(DigitChars, c)
      [] PosIn(LowerChars, c) > 0 -> 96 + PosIn(LowerChars, c)
      [] PosIn(UpperChars, c) > 0 -> 64 + PosIn(UpperChars, c)
      [] c = "'" -> 39
      [] c = "-" -> 45
      [] c = "_" -> 95

IsDigit(c) == PosIn(DigitChars, c) > 0
AllDigits(w) == \A k \in DOMAIN w : IsDigit(w[k])

(* HexDigit: the value of a hex character, -1 for any other.              *)
HexDigit(c) ==
    CASE IsDigit(c) -> PosIn(DigitChars, c) - 1
      [] PosIn(<<"a", "b", "c", "d", "e", "f">>, c) > 0 -> 9 + PosIn(LowerChars, c)
      [] PosIn(<<"A", "B", "C", "D", "E", "F">>, c) > 0 -> 9 + PosIn(UpperChars, c)
      [] OTHER -> -1

(* IsHex: non-empty, hex characters only, an even number of them.         *)
IsHex(str) == Len(str) > 0 /\ Len(str) % 2 = 0 /\ \A k \in DOMAIN str : HexDigit(str[k]) >= 0

(* ParseHex of a string IsHex accepts: one byte per pair of characters.   *)
ParseHex(str) == [k \in 1 .. Len(str) \div 2 |-> 16 * HexDigit(str[2 * k - 1]) + HexDigit(str[2 * k])]

(* atoi64 (strtoll, base 10) of an optional "-" and digits; "" and "-" are 0. *)
RECURSIVE DigitsValue(_)
DigitsValue(d) == IF d = <<>> THEN 0 ELSE 10 * DigitsValue(Front(d)) + PosIn(DigitChars, Last(d)) - 1
Atoi64(w) == IF w # <<>> /\ w[1] = "-" THEN -DigitsValue(Tail(w)) ELSE DigitsValue(w)

OP_0 == 0
OP_PUSHDATA1 == 76
OP_PUSHDATA2 == 77
OP_PUSHDATA4 == 78
OP_1 == 81

(* ReadLE16/ReadLE32, and a single byte, of the bytes b.                  *)
RECURSIVE ReadLE(_)
ReadLE(b) == IF b = <<>> THEN 0 ELSE b[1] + 256 * ReadLE(Tail(b))

LEBytes(n, k) == [i \in 1 .. k |-> (n \div (256 ^ (i - 1))) % 256]

(* CScript::operator<<(std::vector<uint8_t>): the push of the bytes b.     *)
PushData(b) ==
    CASE Len(b) < OP_PUSHDATA1 -> <<Len(b)>> \o b
      [] Len(b) <= 255         -> <<OP_PUSHDATA1, Len(b)>> \o b
      [] Len(b) <= 65535       -> <<OP_PUSHDATA2>> \o LEBytes(Len(b), 2) \o b
      [] OTHER                 -> <<OP_PUSHDATA4>> \o LEBytes(Len(b), 4) \o b

(* CScriptNum::serialize: the magnitude little-endian, the sign in the top *)
(* bit of the last byte (an extra byte when that bit is taken).           *)
RECURSIVE Magnitude(_)
Magnitude(a) == IF a = 0 THEN <<>> ELSE <<a % 256>> \o Magnitude(a \div 256)

SignedMagnitude(m, neg) ==
    IF Last(m) >= 128 THEN Append(m, IF neg THEN 128 ELSE 0)
    ELSE IF neg THEN [m EXCEPT ![Len(m)] = @ + 128]
    ELSE m

ScriptNumSerialize(n) ==
    IF n = 0 THEN <<>> ELSE SignedMagnitude(Magnitude(IF n < 0 THEN -n ELSE n), n < 0)

(* CScript::operator<<(int64_t), push_int64: -1 and 1..16 as OP_N, 0 as   *)
(* OP_0, any other number as the push of its serialization.               *)
PushInt64(n) ==
    IF n = -1 \/ n \in 1 .. 16 THEN <<n + (OP_1 - 1)>>
    ELSE IF n = 0 THEN <<OP_0>>
    ELSE PushData(ScriptNumSerialize(n))

(* What appending a word does: bytes, a runtime_error, or an abort.        *)
Bytes(b) == [out |-> "ok", bytes |-> b]
Thrown == [out |-> "error", bytes |-> <<>>]
Aborted == [out |-> "abort", bytes |-> <<>>]

(* CScript::operator<<(opcodetype): throws unless 0 <= opcode <= 0xff.     *)
PushOpcode(op) == IF op < 0 \/ op > 255 THEN Thrown ELSE Bytes(<<op>>)

(* CScript::EncodeOP_N(int n), followed by operator<<(opcodetype): assert(n *)
(* in 0..16) aborts a debug build; NDEBUG computes OP_1 + n - 1 anyway.    *)
EncodeOPN(n, b) ==
    IF b = "debug" /\ n \notin 0 .. 16 THEN Aborted
    ELSE PushOpcode(IF n = 0 THEN OP_0 ELSE OP_1 + n - 1)


(***************************************************************************)
(* populate_opcode_names_map: each named opcode under "OP_" + name and     *)
(* under the name without its first "OP_"; a later opcode of the same name *)
(* overwrites an earlier one.                                              *)
(***************************************************************************)
OPPrefix == <<"O", "P", "_">>
Unknown == <<"O", "P", "_", "U", "N", "K", "N", "O", "W", "N">>

StrName(name) == IF IsPrefix(OPPrefix, name) THEN name ELSE OPPrefix \o name

OpNamesOf(op) ==
    IF OpName[op] = Unknown THEN {}
    ELSE {StrName(OpName[op]), ReplaceFirstSubSeq(<<>>, OPPrefix, StrName(OpName[op]))}

mapOpNames ==
    [nm \in UNION {OpNamesOf(op) : op \in DOMAIN OpName} |->
        Max({op \in DOMAIN OpName : nm \in OpNamesOf(op)})]

(* boost::split on " \t\n" with token_compress_on: a run of separators     *)
(* splits once; a separator at either end leaves an empty word there.     *)
IsSep(c) == c \in {" ", "\t", "\n"}

RECURSIVE DropSeps(_)
DropSeps(str) == IF str # <<>> /\ IsSep(Head(str)) THEN DropSeps(Tail(str)) ELSE str

RECURSIVE SplitFrom(_, _, _)
SplitFrom(str, cur, acc) ==
    IF str = <<>> THEN Append(acc, cur)
    ELSE IF IsSep(Head(str)) THEN SplitFrom(DropSeps(Tail(str)), <<>>, Append(acc, cur))
    ELSE SplitFrom(Tail(str), Append(cur, Head(str)), acc)

Split(str) == SplitFrom(str, <<>>, <<>>)

(***************************************************************************)
(* The word kinds, tested in the order of the if-else chain.              *)
(***************************************************************************)
IsLengthWord(w) == IsPrefix(<<"L">>, w) /\ AllDigits(Tail(w))
IsDecimalWord(w) == AllDigits(w) \/ (IsPrefix(<<"-">>, w) /\ AllDigits(Tail(w)))
IsHexWord(w) == IsPrefix(<<"0", "x">>, w) /\ Len(w) > 2
IsQuotedWord(w) == Len(w) >= 2 /\ IsPrefix(<<"'">>, w) /\ IsSuffix(<<"'">>, w)

(* "L<n>": the opcode n itself, when below OP_PUSHDATA1.                   *)
EncodeLength(n) == IF n < OP_PUSHDATA1 THEN PushOpcode(n) ELSE Thrown

(* A decimal number: below OP_PUSHDATA1 through EncodeOP_N, else pushed.   *)
EncodeDecimal(n, b) == IF n < OP_PUSHDATA1 THEN EncodeOPN(n, b) ELSE Bytes(PushInt64(n))

(* "0x..": the bytes themselves, inserted, not pushed.                     *)
EncodeHex(digits) == IF IsHex(digits) THEN Bytes(ParseHex(digits)) ELSE Thrown

(* '...': the characters between the quotes, pushed.                       *)
EncodeQuoted(w) == Bytes(PushData([k \in 1 .. Len(w) - 2 |-> Ascii(w[k + 1])]))

EncodeWord(w, b) ==
    IF IsLengthWord(w) THEN EncodeLength(Atoi64(Tail(w)))
    ELSE IF IsDecimalWord(w) THEN EncodeDecimal(Atoi64(w), b)
    ELSE IF IsHexWord(w) THEN EncodeHex(SubSeq(w, 3, Len(w)))
    ELSE IF IsQuotedWord(w) THEN EncodeQuoted(w)
    ELSE IF w \in DOMAIN mapOpNames THEN Bytes(<<mapOpNames[w]>>)
    ELSE Thrown


(***************************************************************************)
(* ParseScript                                                             *)
(***************************************************************************)

(* mapOpNames is filled, and the text split, before the loop.              *)
ParseInit ==
    /\ build \in {"debug", "release"}
    /\ s \in Texts
    /\ words = Split(s)
    /\ wi = 1
    /\ result = <<>>
    /\ push_size = 0 /\ next_push_size = 0 /\ push_data_size = 0
    /\ status = "parsing"
    /\ untracked = FALSE

(* Bug variant: OP_PUSHDATA4 taken as a three-byte length.                 *)
PushDataWidthTypo == (OP_PUSHDATA1 :> 1) @@ (OP_PUSHDATA2 :> 2) @@ (OP_PUSHDATA4 :> 3)

(* The width of the length that follows OP_PUSHDATA1/2/4.                  *)
PushDataWidth == (OP_PUSHDATA1 :> 1) @@ (OP_PUSHDATA2 :> 2) @@ (OP_PUSHDATA4 :> 4)

(* Bug variant: push_data_size is not cleared after the length is read.   *)
TrackedNoReset(ps, pds, r, ss, sc) ==
    CASE ps # 0 /\ pds # 0 ->
            next_push_size' = ReadLE(SubSeq(r, ss + 1, ss + pds)) /\ push_data_size' = pds
      [] ps = 0 /\ sc = 1 /\ r[Len(r)] < OP_PUSHDATA1 ->
            next_push_size' = r[Len(r)] /\ push_data_size' = pds
      [] ps = 0 /\ sc = 1 /\ r[Len(r)] \in DOMAIN PushDataWidth ->
            next_push_size' = PushDataWidth[r[Len(r)]] /\ push_data_size' = PushDataWidth[r[Len(r)]]
      [] OTHER -> next_push_size' = 0 /\ push_data_size' = pds

(* The push tracking after a word that added sc bytes at offset ss of the *)
(* script r, push_size being ps: the PUSHDATA length the word held is read *)
(* as the size of the next push; or a one-byte word that is a push opcode  *)
(* announces the next word's size (a direct push its own value,            *)
(* OP_PUSHDATA1/2/4 the width of the length that follows).                 *)
Tracked(ps, pds, r, ss, sc) ==
    CASE ps # 0 /\ pds # 0 ->
            next_push_size' = ReadLE(SubSeq(r, ss + 1, ss + pds)) /\ push_data_size' = 0
      [] ps = 0 /\ sc = 1 /\ r[Len(r)] < OP_PUSHDATA1 ->
            next_push_size' = r[Len(r)] /\ push_data_size' = pds
      [] ps = 0 /\ sc = 1 /\ r[Len(r)] \in DOMAIN PushDataWidth ->
            next_push_size' = PushDataWidth[r[Len(r)]] /\ push_data_size' = PushDataWidth[r[Len(r)]]
      [] OTHER -> next_push_size' = 0 /\ push_data_size' = pds

(* A word's bytes e, when push_size is ps: an exception or an abort ends   *)
(* the call; a push of the wrong size throws; otherwise the bytes are      *)
(* appended and the tracking updated.                                      *)
Appended(w, e, ps) ==
    \/ /\ e.out \in {"error", "abort"}
       /\ status' = e.out
       /\ UNCHANGED <<result, push_data_size, untracked>> /\ next_push_size' = 0
    \/ /\ e.out = "ok" /\ ps # 0 /\ Len(e.bytes) # ps
       /\ status' = "error"
       /\ UNCHANGED <<result, push_data_size, untracked>> /\ next_push_size' = 0
    \/ /\ e.out = "ok" /\ (ps = 0 \/ Len(e.bytes) = ps)
       /\ result' = result \o e.bytes
       /\ Tracked(ps, push_data_size, result \o e.bytes, Len(result), Len(e.bytes))
       /\ untracked' = (untracked \/ (ps = 0 /\ IsHexWord(w) /\ Len(e.bytes) >= 2))
       /\ UNCHANGED status

(* One turn of the loop over the words: an empty word is skipped; any     *)
(* other takes next_push_size as its push_size and is appended.            *)
ParseWord ==
    /\ status = "parsing" /\ wi <= Len(words)
    /\ wi' = wi + 1
    /\ \/ /\ words[wi] = <<>>
          /\ UNCHANGED <<result, push_size, next_push_size, push_data_size, status, untracked>>
       \/ /\ words[wi] # <<>>
          /\ push_size' = next_push_size
          /\ Appended(words[wi], EncodeWord(words[wi], build), next_push_size)
    /\ UNCHANGED <<build, s, words>>

(* The words are used up: the script is returned.                          *)
ParseReturn ==
    /\ status = "parsing" /\ wi > Len(words)
    /\ status' = "done"
    /\ UNCHANGED <<build, s, words, wi, result, push_size, next_push_size, push_data_size, untracked>>

ParseNext == ParseWord \/ ParseReturn

ParseSpec == ParseInit /\ [][ParseNext]_parseVars


(***************************************************************************)
(* Properties                                                              *)
(***************************************************************************)

ParseTypeOK ==
    /\ build \in {"debug", "release"}
    /\ wi \in 1 .. Len(words) + 1
    /\ result \in Seq(0 .. 255)
    /\ push_size \in Nat /\ next_push_size \in Nat
    /\ push_data_size \in {0, 1, 2, 4}
    /\ status \in {"parsing", "done", "error", "abort"}
    /\ untracked \in BOOLEAN

(* How a script frames (the reading of GetScriptOp): from the opcode at   *)
(* position p on, what its last operation still lacks, as a pair of the    *)
(* length bytes and the data bytes missing; <<0, 0>> when it is whole.     *)
RECURSIVE AwaitedFrom(_, _)
DataAwaited(sc, q, n) ==
    IF q + n - 1 <= Len(sc) THEN AwaitedFrom(sc, q + n) ELSE <<0, q + n - 1 - Len(sc)>>
LengthAwaited(sc, q, k) ==
    IF q + k - 1 <= Len(sc) THEN DataAwaited(sc, q + k, ReadLE(SubSeq(sc, q, q + k - 1)))
    ELSE <<q + k - 1 - Len(sc), 0>>
OpAwaited(sc, p, op) ==
    IF op \in 1 .. OP_PUSHDATA1 - 1 THEN DataAwaited(sc, p + 1, op)
    ELSE IF op \in DOMAIN PushDataWidth THEN LengthAwaited(sc, p + 1, PushDataWidth[op])
    ELSE AwaitedFrom(sc, p + 1)
AwaitedFrom(sc, p) == IF p > Len(sc) THEN <<0, 0>> ELSE OpAwaited(sc, p, sc[p])

(* What the loop's variables say the next word owes.                       *)
TrackerOwes == IF push_data_size # 0 THEN <<push_data_size, 0>> ELSE <<0, next_push_size>>

(* Between words, ParseScript's push tracking agrees with the script it   *)
(* has built: push_data_size is the width of a PUSHDATA length still       *)
(* missing and next_push_size the data bytes an announced push still       *)
(* lacks, both 0 when the script's last operation is whole.  Raw hex of    *)
(* several bytes is inserted outside the tracking by design (the comment  *)
(* at core_read.cpp:181), so the agreement is claimed until such a word.   *)
PushTracking ==
    status \in {"parsing", "done"} /\ ~untracked => AwaitedFrom(result, 1) = TrackerOwes

(* A decimal number word, read where no push is owed, appends the push of  *)
(* its value, as CScript's operator<<(int64_t) writes it, and the parse   *)
(* goes on.                                                                *)
FreshDecimal ==
    /\ status = "parsing" /\ wi <= Len(words) /\ next_push_size = 0
    /\ words[wi] # <<>> /\ IsDecimalWord(words[wi])

NumberWordIsPushed ==
    [][FreshDecimal => /\ status' = "parsing"
                       /\ result' = result \o PushInt64(Atoi64(words[wi]))]_parseVars

====
