-------------------------------- MODULE Caret --------------------------------
(* oatpp::utils::parser::Caret: a position in a text, moved forward by what  *)
(* the parsers of the library look for.  A text is a sequence of characters. *)
(* Every operator gives the caret as the method leaves it; what the method   *)
(* returns is what the caret is at then, or an operator of its own.          *)
EXTENDS Integers, Sequences, SequencesExt

Digits == [d \in {"0", "1", "2", "3", "4", "5", "6", "7", "8", "9"} |->
             CHOOSE n \in 0 .. 9 : ToString(n) = d]

Lines  == {"CR", "LF"}
Blanks == {" ", "TAB"} \cup Lines

Caret(text) == [data |-> text, pos |-> 1, error |-> FALSE]

(* A std::string ends with a terminator that may be read, not passed.        *)
At(caret) == IF caret.pos <= Len(caret.data) THEN caret.data[caret.pos] ELSE "NUL"

Inside(caret)      == caret.pos <= Len(caret.data)
canContinue(caret) == Inside(caret) /\ ~caret.error
setError(caret)    == [caret EXCEPT !.error = TRUE]
inc(caret, amount) == [caret EXCEPT !.pos = @ + amount]
setPosition(caret, position) == [caret EXCEPT !.pos = position]

(* A label: the text from where it was put to where the caret is.            *)
Label(from, caret) == SubSeq(caret.data, from.pos, caret.pos - 1)

(* The first position not before the caret's that satisfies a condition, or  *)
(* the end.                                                                  *)
FirstAt(caret, Good(_)) ==
  LET end == Len(caret.data) + 1
  IN  Min({i \in caret.pos .. end : i = end \/ Good(i)} \cup {end})

findCharFromSet(caret, chars) ==
  setPosition(caret, FirstAt(caret, LAMBDA i : caret.data[i] \in chars))

findChar(caret, char) == findCharFromSet(caret, {char})

skipCharsFromSet(caret, chars) ==
  setPosition(caret, FirstAt(caret, LAMBDA i : caret.data[i] \notin chars))

skipChar(caret, char) == skipCharsFromSet(caret, {char})
skipBlankChars(caret) == skipCharsFromSet(caret, Blanks)

TextAt(data, pos, text) ==
  /\ pos + Len(text) - 1 <= Len(data)
  /\ \A k \in 1 .. Len(text) : data[pos + k - 1] = text[k]

isAtText(caret, text) == TextAt(caret.data, caret.pos, text)

findText(caret, text) ==
  setPosition(caret, FirstAt(caret, LAMBDA i : TextAt(caret.data, i, text)))

CRLF == <<"CR", "LF">>

isAtRN(caret) == isAtText(caret, CRLF)
findRN(caret) == findText(caret, CRLF)
skipRN(caret) == IF isAtRN(caret) THEN inc(caret, 2) ELSE caret

canContinueAtChar(caret, char) == canContinue(caret) /\ At(caret) = char

(* strtoll: leading blanks, a sign, digits; with no digit nothing is taken.  *)
(* Nothing says where the caret's own text ends.                             *)
Signed(caret) == IF At(caret) \in {"-", "+"} THEN inc(caret, 1) ELSE caret

Value(digits) == FoldLeft(LAMBDA n, d : 10 * n + Digits[d], 0, digits)

Number(text, from) ==
  LET Read(sign, first, ended) ==
        IF ended = first
        THEN [valid |-> FALSE, value |-> 0, end |-> from]
        ELSE [valid |-> TRUE, end |-> ended.pos,
              value |-> (IF sign = "-" THEN -1 ELSE 1) * Value(Label(first, ended))]
      Digital(sign, first) == Read(sign, first, skipCharsFromSet(first, DOMAIN Digits))
      Blanked(caret) == Digital(At(caret), Signed(caret))
  IN  Blanked(skipBlankChars(setPosition(Caret(text), from)))

parseInt(caret) ==
  LET Behind(number) == [caret EXCEPT !.pos = number.end, !.error = @ \/ ~number.valid]
  IN  Behind(Number(caret.data, caret.pos))

(* parseStringEnclosed: what stands between the two characters; an escape    *)
(* character takes the next one with it.  closed is false with no end.       *)
Enclosed(caret, char, escape) ==
  LET Escaped(i) == LET last == Max({j \in caret.pos .. i - 1 : caret.data[j] # escape})
                    IN  (i - 1 - last) % 2 = 1
      Until(after) ==
        IF Inside(after)
        THEN [closed |-> TRUE, text |-> Label(inc(caret, 1), after), caret |-> inc(after, 1)]
        ELSE [closed |-> FALSE, text |-> <<>>, caret |-> setError(after)]
  IN  Until(setPosition(caret, FirstAt(inc(caret, 1),
                                       LAMBDA i : caret.data[i] = char /\ ~Escaped(i))))
=============================================================================
