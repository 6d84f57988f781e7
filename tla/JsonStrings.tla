----------------------------- MODULE JsonStrings ------------------------------
(* Strings in JSON (json/Utils, encoding/Unicode, encoding/Hex): bytes of     *)
(* UTF-8 are escaped into a buffer whose size was computed before, quoted,    *)
(* found again between their quotes and unescaped, again into a buffer of     *)
(* computed size.  A byte or a character of the text may be lost in between.  *)
EXTENDS Integers, Sequences, FiniteSets, TLC, SequencesExt

CONSTANTS Codes,        \* the characters of the strings, as code points
          MaxChars,     \* characters of a string
          Flags         \* sets of escape flags: "solidus", "utf8char"

VARIABLES flags, source,        \* what is escaped
          cut,                  \* its last character is not whole
          quoted,               \* the text of the string, with its quotes
          lost,                 \* a byte of the text is lost
          parsed                \* what the parser returned, a sequence of at most one

stringVars == <<flags, source, cut, quoted, lost, parsed>>

Quote == 34
Backslash == 92
Solidus == 47
Plus == 43
QuestionMark == 63

\* The escapes of one letter: the byte and the letter.
Letters == (34 :> 34) @@ (92 :> 92) @@ (47 :> 47) @@ (8 :> 98) @@ (12 :> 102)
           @@ (10 :> 110) @@ (13 :> 114) @@ (9 :> 116)
ByteOf(letter) == CHOOSE a \in DOMAIN Letters : Letters[a] = letter

-----------------------------------------------------------------------------
(* encoding/Hex and encoding/Unicode.                                         *)

Digit(n) == IF n < 10 THEN 48 + n ELSE 55 + n
IsDigit(a) == a \in 48 .. 57 \cup 65 .. 70 \cup 97 .. 102
ValueOf(a) == IF a < 58 THEN a - 48 ELSE IF a < 71 THEN a - 55 ELSE a - 87

writeUInt16(value) ==
  [i \in 1 .. 4 |-> Digit((value \div 16 ^ (4 - i)) % 16)]
HexAt(data, at, count) ==
  IF at + count - 1 <= Len(data) /\ \A i \in at .. at + count - 1 : IsDigit(data[i])
  THEN FoldLeft(LAMBDA n, a : 16 * n + ValueOf(a), 0, SubSeq(data, at, at + count - 1))
  ELSE -1

SequenceLength(byte) ==
  CASE byte < 128 -> 1
    [] byte \in 128 .. 191 -> 0
    [] byte \in 192 .. 223 -> 2
    [] byte \in 224 .. 239 -> 3
    [] byte \in 240 .. 247 -> 4
    [] byte \in 248 .. 251 -> 5
    [] byte \in 252 .. 253 -> 6
    [] byte \in 254 .. 255 -> 0
SequenceLengthForCode(code) ==
  CASE code < 128 -> 1 [] code \in 128 .. 2047 -> 2 [] code \in 2048 .. 65535 -> 3
    [] code \in 65536 .. 2097151 -> 4 [] OTHER -> 5

\* The code of the character at a position: the low bits of the bytes, put together.
encodeUtf8Char(data, at) ==
  LET length == SequenceLength(data[at])
      first == data[at] % (2 ^ (7 - length))
  IN FoldLeft(LAMBDA code, byte : 64 * code + (byte % 64), first,
              SubSeq(data, at + 1, at + length - 1))

decodeUtf8Char(code) ==
  LET length == SequenceLengthForCode(code)
      lead == <<0, 192, 224, 240, 248>>[length]
  IN [i \in 1 .. length |->
        IF i = 1 THEN lead + (code \div 64 ^ (length - 1))
        ELSE 128 + ((code \div 64 ^ (length - i)) % 64)]

HighSurrogate(code) == 55296 + (((code - 65536) \div 1024) % 1024)
LowSurrogate(code) == 56320 + ((code - 65536) % 1024)
SurrogatePairToCode(high, low) == 1024 * (high - 55296) + (low - 56320) + 65536

-----------------------------------------------------------------------------
(* Escaping.                                                                  *)

isSimpleString(data) == \A i \in DOMAIN data : data[i] >= 32 /\ data[i] \notin {Quote, Backslash}

EscapesSolidus(a) == a # Solidus \/ "solidus" \in flags

\* Mutant: the size of a surrogate pair is that of one escape.
MutEscapeUtf8CharSize(code) == 6

escapeUtf8CharSize(code) == IF code < 65536 THEN 6 ELSE 12
escapeUtf8Char(code) ==
  IF code < 65536 THEN <<Backslash, 117>> \o writeUInt16(code)
  ELSE <<Backslash, 117>> \o writeUInt16(HighSurrogate(code))
       \o <<Backslash, 117>> \o writeUInt16(LowSurrogate(code))

\* One step of the walk that computes the size: the size and the bytes it stands for.
EscapedSizeAt(data, i) ==
  LET a == data[i]
      length == SequenceLength(a)
  IN CASE a < 128 /\ a \in DOMAIN Letters /\ EscapesSolidus(a) -> <<2, 1>>
       [] a < 32 /\ a \notin DOMAIN Letters -> <<6, 1>>
       [] a \in 32 .. 127 /\ ~(a \in DOMAIN Letters /\ EscapesSolidus(a)) -> <<1, 1>>
       [] a >= 128 /\ length = 0 -> <<1, 1>>
       [] a >= 128 /\ length # 0 ->
            <<IF "utf8char" \in flags /\ i + length - 1 <= Len(data)
              THEN escapeUtf8CharSize(encodeUtf8Char(data, i)) ELSE length, length>>

RECURSIVE calcEscapedStringSize(_, _, _)
calcEscapedStringSize(data, i, size) ==
  IF i > Len(data) THEN [size |-> size, safe |-> Len(data)]
  ELSE LET at == EscapedSizeAt(data, i)
           rest == calcEscapedStringSize(data, i + at[2], size + at[1])
       IN IF i + at[2] - 1 > Len(data) THEN [rest EXCEPT !.safe = i - 1] ELSE rest

\* One step of the walk that writes: the bytes, and how many of the data they stand for.
EscapeAt(data, i) ==
  LET a == data[i]
      length == SequenceLength(a)
  IN CASE a < 128 /\ a \in DOMAIN Letters /\ EscapesSolidus(a) ->
            <<<<Backslash, Letters[a]>>, 1>>
       [] a < 32 /\ a \notin DOMAIN Letters -> <<<<Backslash, 117>> \o writeUInt16(a), 1>>
       [] a \in 32 .. 127 /\ ~(a \in DOMAIN Letters /\ EscapesSolidus(a)) -> <<<<a>>, 1>>
       [] a >= 128 /\ length = 0 -> <<<<a>>, 1>>
       [] a >= 128 /\ length # 0 ->
            <<IF "utf8char" \in flags THEN escapeUtf8Char(encodeUtf8Char(data, i))
              ELSE SubSeq(data, i, i + length - 1), length>>

RECURSIVE WriteEscaped(_, _, _)
WriteEscaped(data, i, safe) ==
  IF i > safe THEN <<>>
  ELSE EscapeAt(data, i)[1] \o WriteEscaped(data, i + EscapeAt(data, i)[2], safe)

\* What is cut at the end becomes question marks, as many as the computed size leaves.
escapeString(data) ==
  LET calc == calcEscapedStringSize(data, 1, 0)
      written == WriteEscaped(data, 1, calc.safe)
  IN IF \/ isSimpleString(data) /\ ("solidus" \in flags => Solidus \notin Range(data))
        \/ calc.size = Len(data)
     THEN data
     ELSE written \o [i \in 1 .. calc.size - Len(written) |-> QuestionMark]

\* The escaping of FastSerializer: bytes of a character are written as they are.
fastEscapeString(data) ==
  FlattenSeq([i \in DOMAIN data |->
    IF data[i] < 128 THEN EscapeAt(data, i)[1] ELSE <<data[i]>>])

-----------------------------------------------------------------------------
(* Unescaping: one step of either walk gives the character's code and the     *)
(* escape's length, or refuses.                                               *)

Unescape(code, length) == [ok |-> TRUE, code |-> code, length |-> length]
Invalid == [ok |-> FALSE, code |-> 0, length |-> 0]

\* The checks of calcUnescapedStringSize; a low surrogate is looked for eight bytes on,
\* whatever stands before it.
EscapeCodeAt(data, i) ==
  LET b == IF i < Len(data) THEN data[i + 1] ELSE 0
      code == HexAt(data, i + 2, 4)
      low == HexAt(data, i + 8, 4)
  IN CASE b \in Range(Letters) -> Unescape(ByteOf(b), 2)
       [] b \notin Range(Letters) \cup {117} -> Invalid
       [] b = 117 /\ (i + 5 > Len(data) \/ code = -1) -> Invalid
       [] b = 117 /\ i + 5 <= Len(data) /\ code \in 0 .. 65535 \ 55296 .. 56319 ->
            Unescape(code, 6)
       [] b = 117 /\ i + 5 <= Len(data) /\ code \in 55296 .. 56319 ->
            IF i + 11 <= Len(data) /\ low \in 56320 .. 57343
            THEN Unescape(SurrogatePairToCode(code, low), 12) ELSE Invalid

\* The size, or -1.
RECURSIVE calcUnescapedStringSize(_, _)
calcUnescapedStringSize(data, i) ==
  LET escape == EscapeCodeAt(data, i)
      Plus1(rest, n) == IF rest = -1 THEN -1 ELSE rest + n
  IN CASE i > Len(data) -> 0
       [] i <= Len(data) /\ data[i] # Backslash ->
            Plus1(calcUnescapedStringSize(data, i + 1), 1)
       [] i <= Len(data) /\ data[i] = Backslash ->
            IF ~escape.ok THEN -1
            ELSE Plus1(calcUnescapedStringSize(data, i + escape.length),
                       SequenceLengthForCode(escape.code))

RECURSIVE unescapeStringToBuffer(_, _)
unescapeStringToBuffer(data, i) ==
  IF i > Len(data) THEN <<>>
  ELSE IF data[i] # Backslash THEN <<data[i]>> \o unescapeStringToBuffer(data, i + 1)
  ELSE LET escape == EscapeCodeAt(data, i) IN
       decodeUtf8Char(escape.code) \o unescapeStringToBuffer(data, i + escape.length)

\* preparseString: the position of the closing quote; a backslash hides what follows it.
RECURSIVE ClosingQuote(_, _)
ClosingQuote(text, i) ==
  CASE i > Len(text) -> 0
    [] i <= Len(text) /\ text[i] = Quote -> i
    [] i <= Len(text) /\ text[i] = Backslash -> ClosingQuote(text, i + 2)
    [] i <= Len(text) /\ text[i] \notin {Quote, Backslash} -> ClosingQuote(text, i + 1)

\* parseString: the bytes between the quotes and the string they stand for.
NoString == [ok |-> FALSE, between |-> <<>>, size |-> 0, string |-> <<>>]
parseString(text) ==
  LET close == IF text # <<>> /\ text[1] = Quote THEN ClosingQuote(text, 2) ELSE 0
      data == SubSeq(text, 2, close - 1)
      size == calcUnescapedStringSize(data, 1)
  IN IF close = 0 \/ size = -1 THEN NoString
     ELSE [ok |-> TRUE, between |-> data, size |-> size,
           string |-> unescapeStringToBuffer(data, 1)]

-----------------------------------------------------------------------------
StringInit ==
  /\ flags \in Flags
  /\ source = <<>> /\ cut = FALSE /\ quoted = <<>> /\ lost = FALSE /\ parsed = <<>>

AddCharacter ==
  /\ quoted = <<>> /\ ~cut
  /\ Cardinality({i \in DOMAIN source : source[i] \notin 128 .. 191}) < MaxChars
  /\ \E code \in Codes : source' = source \o decodeUtf8Char(code)
  /\ UNCHANGED <<flags, cut, quoted, lost, parsed>>

\* The caller's string ends in the middle of a character.
CutCharacter ==
  /\ quoted = <<>> /\ ~cut /\ source # <<>> /\ Last(source) >= 128
  /\ source' = Front(source) /\ cut' = TRUE
  /\ UNCHANGED <<flags, quoted, lost, parsed>>

Escape ==
  /\ quoted = <<>>
  /\ \E escaped \in {escapeString(source), fastEscapeString(source)} :
       quoted' = <<Quote>> \o escaped \o <<Quote>>
  /\ UNCHANGED <<flags, source, cut, lost, parsed>>

LoseByte ==
  /\ quoted # <<>> /\ parsed = <<>> /\ ~lost
  /\ \E i \in DOMAIN quoted : quoted' = RemoveAt(quoted, i)
  /\ lost' = TRUE
  /\ UNCHANGED <<flags, source, cut, parsed>>

Parse ==
  /\ quoted # <<>> /\ parsed = <<>>
  /\ parsed' = <<parseString(quoted)>>
  /\ UNCHANGED <<flags, source, cut, quoted, lost>>

StringNext == AddCharacter \/ CutCharacter \/ Escape \/ LoseByte \/ Parse

StringSpec == StringInit /\ [][StringNext]_stringVars

-----------------------------------------------------------------------------
\* A string of whole characters comes back as it was, whatever is escaped
\* (escapeString and parseString).
StringsRoundTrip ==
  (parsed # <<>> /\ ~cut /\ ~lost) => parsed[1].ok /\ parsed[1].string = source

\* The walk that writes fills exactly the buffer that the first walk computed, also for
\* a string cut in a character and for a text that lost a byte.
BuffersFit ==
  /\ LET calc == calcEscapedStringSize(source, 1, 0)
         written == WriteEscaped(source, 1, calc.safe)
     IN /\ Len(written) <= calc.size
        /\ ~cut => Len(written) = calc.size
  /\ (parsed # <<>> /\ parsed[1].ok) => Len(parsed[1].string) = parsed[1].size

\* The parser ends at the quote that was written last: nothing in an escaped string
\* closes it, be it cut or not.
StringEndsAtItsQuote ==
  (parsed # <<>> /\ ~lost) =>
    parsed[1].ok /\ parsed[1].between = SubSeq(quoted, 2, Len(quoted) - 1)
=============================================================================
