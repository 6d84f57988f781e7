------------------------------ MODULE Encodings ------------------------------
(* oatpp::encoding: Base64 in its three alphabets, Hex and the percent form  *)
(* of URLs; and the Authorization header that handlers read with it.  A text *)
(* is encoded, may lose its end, gain separators, and is decoded.            *)
EXTENDS Integers, Sequences, SequencesExt

CONSTANTS Values,        \* the bytes of the data
          MaxBytes,
          Letters16,     \* the hex alphabets, "upper" and "lower"
          SpaceToPlus    \* values of Url::Config's field

VARIABLES codec,         \* [name, option]
          data,          \* what is encoded
          coded,         \* <<the text>>
          cut,           \* its end is lost
          decoded        \* <<[ok, bytes, size]>>: size is the one computed before, or -1

encodingVars == <<codec, data, coded, cut, decoded>>

Refused == [ok |-> FALSE, bytes |-> <<>>, size |-> -1]
Decoded(bytes, size) == [ok |-> TRUE, bytes |-> bytes, size |-> size]
Least(a, b) == IF a < b THEN a ELSE b

\* Pieces of n elements; the last may be shorter.
Groups(s, n) == [g \in 1 .. (Len(s) + n - 1) \div n |-> SubSeq(s, n * g - n + 1, Least(n * g, Len(s)))]
Flat(pieces) == FlattenSeq(pieces)
At(s, i) == IF i \in DOMAIN s THEN s[i] ELSE 0

-----------------------------------------------------------------------------
(* Base64 *)

\* The last three characters of the alphabets: for 62, 63 and the padding.
AuxiliaryChars == [base64 |-> <<43, 47, 61>>, base64Url |-> <<45, 95, 61>>,
                   base64UrlSafe |-> <<46, 95, 45>>]

Character(n, aux) == CASE n < 26 -> 65 + n [] n \in 26 .. 51 -> 71 + n
                       [] n \in 52 .. 61 -> n - 4 [] n > 61 -> aux[n - 61]
getAlphabetCharIndex(a, aux) ==
  CASE a \in 65 .. 90 -> a - 65 [] a \in 97 .. 122 -> a - 71 [] a \in 48 .. 57 -> a + 4
    [] a = aux[1] -> 62 [] a = aux[2] -> 63 [] OTHER -> 255

calcEncodedStringSize(size) ==
  LET size3 == size \div 3 IN size3 + IF size3 * 3 < size THEN size3 * 3 + 4 ELSE size3 * 3

\* Up to three bytes as four characters.
EncodedGroup(s, aux) ==
  LET sextets == <<At(s, 1) \div 4, 16 * (At(s, 1) % 4) + At(s, 2) \div 16,
                   4 * (At(s, 2) % 16) + At(s, 3) \div 64, At(s, 3) % 64>>
  IN  [i \in 1 .. 4 |-> Character(IF i <= Len(s) + 1 THEN sextets[i] ELSE 64, aux)]
encodeBase64(s, aux) == Flat([g \in DOMAIN Groups(s, 3) |-> EncodedGroup(Groups(s, 3)[g], aux)])

\* The length up to the padding and the size of what it stands for, or -1.
calcDecodedStringSize(text, aux) ==
  LET bad  == {i \in DOMAIN text : getAlphabetCharIndex(text[i], aux) = 255}
      stop == IF bad = {} THEN Len(text) + 1 ELSE CHOOSE i \in bad : \A j \in bad : i <= j
      n    == stop - 1
  IN  IF bad # {} /\ text[stop] # aux[3] THEN [length |-> 0, size |-> -1]
      ELSE [length |-> n, size |-> 3 * (n \div 4) + IF n % 4 > 0 THEN (n % 4) - 1 ELSE 0]

\* Four characters as three bytes, three as two, two as one; one is dropped.
DecodedGroup(s, aux) ==
  LET b == [i \in DOMAIN s |-> getAlphabetCharIndex(s[i], aux)]
      bytes == <<((4 * At(b, 1)) % 256) + (At(b, 2) \div 16),
                 16 * (At(b, 2) % 16) + (At(b, 3) \div 4), 64 * (At(b, 3) % 4) + At(b, 4)>>
  IN  SubSeq(bytes, 1, Len(s) - 1)
decodeBase64(text, aux) ==
  LET calc   == calcDecodedStringSize(text, aux)
      groups == Groups(SubSeq(text, 1, calc.length), 4)
  IN  IF calc.size = -1 THEN Refused
      ELSE Decoded(Flat([g \in DOMAIN groups |-> DecodedGroup(groups[g], aux)]), calc.size)

-----------------------------------------------------------------------------
(* Hex and Url *)

HexDigit(n, alphabet) == IF n < 10 THEN 48 + n ELSE n + IF alphabet = "upper" THEN 55 ELSE 87
IsHexDigit(a) == a \in 48 .. 57 \union 65 .. 70 \union 97 .. 102
HexValue(a) == CASE a \in 48 .. 57 -> a - 48 [] a \in 65 .. 70 -> a - 55 [] OTHER -> a - 87

HexOf(c, alphabet) == <<HexDigit(c \div 16, alphabet), HexDigit(c % 16, alphabet)>>
encodeHex(s, alphabet) == Flat([i \in DOMAIN s |-> HexOf(s[i], alphabet)])

\* Digits two by two; others are separators, where they are allowed.
decodeHex(text, allowSeparators) ==
  LET digits == SelectSeq(text, IsHexDigit)
      pairs  == Groups(digits, 2)
  IN  IF Len(digits) % 2 = 1 \/ (digits # text /\ ~ allowSeparators) THEN Refused
      ELSE Decoded([p \in DOMAIN pairs |-> 16 * HexValue(pairs[p][1]) + HexValue(pairs[p][2])],
                   Len(digits) \div 2)

Percent == 37
Plus == 43
Space == 32
allowedChars == 48 .. 57 \union 65 .. 90 \union 97 .. 122 \union {45, 46, 95, 126}

encodeUrl(s, spaceToPlus) ==
  Flat([i \in DOMAIN s |-> IF s[i] \in allowedChars THEN <<s[i]>>
                           ELSE IF s[i] = Space /\ spaceToPlus THEN <<Plus>>
                           ELSE <<Percent>> \o HexOf(s[i], "upper")])

\* Each character or escape in its turn: what is put out and how many characters it takes.
\* An escape at the end of the text takes in the byte behind it, the string's NUL; a lone
\* '%' ends the text.
decodeUrl(text) ==
  LET UrlAt(i) ==
        IF text[i] = Percent
        THEN IF i = Len(text) THEN [put |-> Decoded(<<>>, 0), next |-> i + 1]
             ELSE [put |-> decodeHex(<<text[i + 1], At(text, i + 2)>>, FALSE), next |-> i + 3]
        ELSE [put |-> Decoded(<<IF text[i] = Plus THEN Space ELSE text[i]>>, 1), next |-> i + 1]
      from[i \in 1 .. Len(text) + 2] ==
        LET at == UrlAt(i)
            rest == from[at.next] IN
        IF i > Len(text) THEN Decoded(<<>>, 0)
        ELSE IF ~ at.put.ok \/ ~ rest.ok THEN Refused
        ELSE Decoded(at.put.bytes \o rest.bytes, Len(at.put.bytes \o rest.bytes))
  IN  from[1]

-----------------------------------------------------------------------------
(* The Authorization header: a method and, behind one space, what it says.   *)

Basic == <<66, 97, 115, 105, 99>>
Colon == 58

\* ApiClient's AUTHORIZATION_BASIC.
basicHeader(token) == Basic \o <<Space>> \o encodeBase64(token, AuxiliaryChars.base64)

\* BasicAuthorizationHandler::handleAuthorization: user and password are what stands before
\* and behind the first colon.
handleBasic(header) ==
  LET auth  == decodeBase64(SubSeq(header, 7, Len(header)), AuxiliaryChars.base64)
      colon == SelectInSeq(auth.bytes, LAMBDA a : a = Colon)
  IN  IF Len(header) < 7 \/ SubSeq(header, 1, 6) # Basic \o <<Space>> \/ ~ auth.ok \/ colon = 0
      THEN Refused
      ELSE Decoded(auth.bytes, auth.size)

-----------------------------------------------------------------------------
Codecs == {[name |-> n, option |-> "none"] : n \in DOMAIN AuxiliaryChars \union {"basic"}}
          \union {[name |-> "hex", option |-> a] : a \in Letters16}
          \union {[name |-> "url", option |-> p] : p \in SpaceToPlus}

EncodingInit ==
  /\ codec \in Codecs
  /\ data \in UNION {[1 .. n -> Values] : n \in 0 .. MaxBytes}
  /\ coded = <<>> /\ cut = FALSE /\ decoded = <<>>

encode ==
  /\ coded = <<>>
  /\ coded' = <<CASE codec.name = "hex" -> encodeHex(data, codec.option)
                  [] codec.name = "url" -> encodeUrl(data, codec.option = "yes")
                  [] codec.name = "basic" -> basicHeader(data)
                  [] OTHER -> encodeBase64(data, AuxiliaryChars[codec.name])>>
  /\ UNCHANGED <<codec, data, cut, decoded>>

\* The end of the text does not arrive.
loseEnd ==
  /\ coded # <<>> /\ decoded = <<>> /\ ~ cut
  /\ \E n \in 0 .. Len(coded[1]) - 1 : coded' = <<SubSeq(coded[1], 1, n)>>
  /\ cut' = TRUE
  /\ UNCHANGED <<codec, data, decoded>>

\* Hex with something between its digits.
separate ==
  /\ codec.name = "hex" /\ coded # <<>> /\ decoded = <<>>
  /\ Space \notin {coded[1][i] : i \in DOMAIN coded[1]}
  /\ \E i \in 1 .. Len(coded[1]) + 1 : coded' = <<InsertAt(coded[1], i, Space)>>
  /\ UNCHANGED <<codec, data, cut, decoded>>

decode ==
  /\ coded # <<>> /\ decoded = <<>>
  /\ decoded' = <<CASE codec.name = "hex" -> decodeHex(coded[1], TRUE)
                    [] codec.name = "url" -> decodeUrl(coded[1])
                    [] codec.name = "basic" -> handleBasic(coded[1])
                    [] OTHER -> decodeBase64(coded[1], AuxiliaryChars[codec.name])>>
  /\ UNCHANGED <<codec, data, coded, cut>>

EncodingNext == encode \/ loseEnd \/ separate \/ decode

-----------------------------------------------------------------------------
\* What was encoded is decoded, in every alphabet; the credentials of a Basic header if a
\* colon divides them (Base64.cpp, Hex.cpp, Url.cpp, AuthorizationHandler.cpp).
DecodesWhatWasEncoded ==
  decoded # <<>> /\ ~ cut =>
    IF codec.name = "basic" /\ \A i \in DOMAIN data : data[i] # Colon
    THEN ~ decoded[1].ok
    ELSE decoded[1].ok /\ decoded[1].bytes = data

\* The size computed before a text is encoded or decoded is the number of bytes that are
\* then written, also for a text that lost its end (Base64.cpp, calcEncodedStringSize and
\* calcDecodedStringSize).
SizesFit ==
  /\ coded # <<>> /\ ~ cut /\ codec.name \in DOMAIN AuxiliaryChars =>
       Len(coded[1]) = calcEncodedStringSize(Len(data))
  /\ decoded # <<>> /\ decoded[1].ok => decoded[1].size = Len(decoded[1].bytes)

\* A text that lost its end is refused or gives the beginning of the data, never other
\* bytes (the same functions).
PrefixOrRefused == decoded # <<>> /\ decoded[1].ok => IsPrefix(decoded[1].bytes, data)
=============================================================================
