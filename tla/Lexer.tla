-------------------------------- MODULE Lexer --------------------------------
(***************************************************************************)
(* Tokens from characters (lexer.rs).  A text is a sequence of characters; *)
(* a function that reads from position i returns [k, v, next]: the kind of *)
(* token, its value, and the position after it, or Error.  A value is a    *)
(* sequence of characters; that of an integer is one numeral.  Places in   *)
(* the source are left out, and so are characters that are not ASCII; one  *)
(* character is written "backquote" here.                                  *)
(***************************************************************************)
EXTENDS Integers, SequencesExt

CONSTANT Bits           \* width of an integer: 64 in the code
ASSUME BitsAssumption == Bits \in Nat /\ Bits > 3

Octal == {"0", "1", "2", "3", "4", "5", "6", "7"}
Digit == Octal \cup {"8", "9"}
HexLetter == <<"a", "b", "c", "d", "e", "f">>
HexDigit == Digit \cup ToSet(HexLetter) \cup {"A", "F"}
Upper == {"A", "C", "E", "F"}
Letter == Upper \cup {"a", "b", "c", "d", "e", "f", "i", "m", "n", "o", "q", "r", "u", "w", "x"}
NameChar == Letter \cup Digit \cup {"_"}
Blank == {" ", "\t"}
Quote == {"\"", "'", "backquote"}
Operators ==
    {<<";">>, <<":">>, <<":", ":">>, <<",">>, <<"+">>, <<"+", "=">>, <<"-">>, <<"-", ">">>, <<"-", "=">>,
     <<"*">>, <<"*", "=">>, <<"*", "*">>, <<"%">>, <<"%", "=">>, <<"/">>, <<"/", "=">>, <<"(">>, <<")">>,
     <<"^">>, <<"^", "=">>, <<"~">>, <<"[">>, <<"]">>, <<"{">>, <<"}">>, <<".">>, <<".", ".">>, <<".", ".", ".">>,
     <<"?">>, <<"\\">>, <<"=">>, <<"=", "=">>, <<"=", "=", "=">>, <<"=", ">">>, <<"=", "~">>,
     <<">">>, <<">", "=">>, <<">", ">">>, <<">", ">", "=">>, <<"<">>, <<"<", "=">>, <<"<", "=", ">">>,
     <<"<", "<">>, <<"<", "<", "=">>, <<"!">>, <<"!", "=">>, <<"!", "~">>, <<"&">>, <<"&", "&">>,
     <<"&", "&", "=">>, <<"&", "=">>, <<"&", ".">>, <<"|">>, <<"|", "|">>, <<"|", "|", "=">>, <<"|", "=">>}
Punctuation == {op[1] : op \in Operators} \cup Quote \cup {"#", "@", "$", "_"}
ReservedWord == {<<"i", "f">>, <<"d", "o">>, <<"i", "n">>, <<"d", "e", "f">>,
                 <<"d", "e", "f", "i", "n", "e", "d", "?">>}

Token(k, v, i) == [k |-> k, v |-> v, next |-> i]
Error == Token("Error", <<>>, 0)

(* peek; "" at the end of the text.                                        *)
At(text, i) == IF i \in DOMAIN text THEN text[i] ELSE ""
(* The first position from i on that has no character of C.                *)
RECURSIVE Past(_, _, _)
Past(text, i, C) == IF At(text, i) \in C THEN Past(text, i + 1, C) ELSE i
Eol(text, i) == CHOOSE j \in i .. Len(text) + 1 :
    /\ At(text, j) \in {"\n", ""}
    /\ \A l \in i .. j - 1 : text[l] # "\n"

----------------------------------------------------------------------------
(* Names.                                                                  *)
WithSuffix_Assigned(text, j) == IF At(text, j) \in {"!", "?"} THEN j + 1 ELSE j
WithSuffix(text, j) ==
    IF At(text, j) = "?" \/ (At(text, j) = "!" /\ At(text, j + 1) # "=") THEN j + 1 ELSE j
ReadIdentifier(text, i) ==
    LET j == WithSuffix(text, Past(text, i + 1, NameChar))
        name == SubSeq(text, i, j - 1)
    IN  CASE name \in ReservedWord -> Token("Reserved", name, j)
          [] text[i] \in Upper -> Token("Const", name, j)
          [] OTHER -> Token("Ident", name, j)

(* The name of a variable, after its sigil.                                *)
ReadVar(k, text, i) ==
    IF At(text, i) \in NameChar \cup {"&", "'"}
      THEN LET j == Past(text, i + 1, NameChar) IN Token(k, SubSeq(text, i, j - 1), j)
      ELSE Error
ReadGlobalVar(text, i) ==
    IF At(text, i) \in Punctuation THEN Token("GlobalVar", <<text[i]>>, i + 1) ELSE ReadVar("GlobalVar", text, i)

----------------------------------------------------------------------------
(* Numbers.                                                                *)
DigitValue(c) == IF c \in Digit THEN CHOOSE n \in 0 .. 9 : ToString(n) = c
                 ELSE 9 + (CHOOSE n \in 1 .. 6 : c = HexLetter[n] \/ (c = "A" /\ n = 1) \/ (c = "F" /\ n = 6))
Numeral(base, s) == FoldLeft(LAMBDA n, c : n * base + DigitValue(c), 0, s)
Plain(s) == SelectSeq(s, LAMBDA c : c # "_")
(* `as i64`, and the parse of an i64: what does not fit becomes 0.         *)
Wrapped(n) == LET m == n % 2^Bits IN IF m >= 2^(Bits - 1) THEN m - 2^Bits ELSE m
Fits(n) == n < 2^(Bits - 1)
Integer(n) == <<ToString(n)>>
Digits(text, i) == Past(text, i, Digit \cup {"_"})

ReadBased(base, D, text, i) ==
    LET j == Past(text, i, D \cup {"_"})
    IN  IF At(text, i) \in D
          THEN Token("Integer", Integer(Wrapped(Numeral(base, Plain(SubSeq(text, i, j - 1))))), j)
          ELSE Error

(* The exponent of a number; the sign + is not kept.                       *)
Exponent(text, s, i) ==
    LET p == IF At(text, i) = "+" THEN i + 1 ELSE i
        m == IF At(text, p) = "-" THEN p + 1 ELSE p
        j == Digits(text, m)
    IN  IF At(text, m) \in Digit
          THEN Token("Float", s \o <<"e">> \o Plain(SubSeq(text, p, j - 1)), j)
          ELSE Error
Decimal(text, i) ==
    LET j == Digits(text, i)
    IN  IF At(text, j) = "." /\ At(text, j + 1) \in Digit THEN Digits(text, j + 1) ELSE j
ReadDecimal(text, i) ==
    LET j == Decimal(text, i)
        s == Plain(SubSeq(text, i, j - 1))
        n == Numeral(10, s)
    IN  CASE At(text, j) \in {"e", "E"} -> Exponent(text, s, j + 1)
          [] "." \in ToSet(s) -> Token("Float", s, j)
          [] OTHER -> Token("Integer", Integer(IF Fits(n) THEN n ELSE 0), j)
ReadNumber(text, i) ==
    CASE text[i] = "0" /\ At(text, i + 1) = "x" -> ReadBased(16, HexDigit, text, i + 2)
      [] text[i] = "0" /\ At(text, i + 1) = "b" -> ReadBased(2, {"0", "1"}, text, i + 2)
      [] OTHER -> LET r == ReadDecimal(text, i)
                  IN  IF r # Error /\ At(text, r.next) = "i" THEN Token("Imaginary", r.v, r.next + 1) ELSE r

----------------------------------------------------------------------------
(* Characters after a backslash: <<character, position>>, or <<>>.         *)
Char(n) == CASE n = 10 -> "\n" [] n = 32 -> " " [] n = 49 -> "1" [] OTHER -> "char " \o ToString(n)
Control == [a |-> 7, b |-> 8, e |-> 27, f |-> 12, n |-> 10, r |-> 13, s |-> 32, t |-> 9, v |-> 11]
OctalRun(text, i) ==
    CHOOSE j \in i + 1 .. i + 3 :
        /\ \A l \in i .. j - 1 : At(text, l) \in Octal
        /\ j < i + 3 => At(text, j) \notin Octal
TriOctal(text, i) == <<Numeral(8, SubSeq(text, i, OctalRun(text, i) - 1)) % 256, OctalRun(text, i)>>
HexChar(text, i, n) ==
    IF \A l \in i .. i + n - 1 : At(text, l) \in HexDigit
      THEN <<Char(Numeral(16, SubSeq(text, i, i + n - 1))), i + n>> ELSE <<>>
ReadEscaped(text, i) ==
    LET c == At(text, i)
    IN  CASE c = "" -> <<>>
          [] c \in DOMAIN Control -> <<Char(Control[c]), i + 1>>
          [] c = "x" -> HexChar(text, i + 1, 2)
          [] c = "u" -> HexChar(text, i + 1, 4)
          [] c \in Octal -> <<Char(TriOctal(text, i)[1]), TriOctal(text, i)[2]>>
          [] OTHER -> <<c, i + 1>>

Template == {"{", "$", "@"}
Open(s, i, level) == [k |-> "Open", v |-> s, next |-> i, level |-> level]

(* Strings with interpolation, from i to `term`; `open` (or "") nests.  An *)
(* opening of an interpolation ends the piece, with the level so far.      *)
RECURSIVE Interpolate(_, _, _, _, _, _)
Interpolate(text, i, open, term, level, s) ==
    LET c == At(text, i)
        more(v, j, l) == Interpolate(text, j, open, term, l, Append(s, v))
    IN  CASE c = "" -> Error
          [] c = open -> more(c, i + 1, level + 1)
          [] c = term /\ level = 0 -> Token("String", s, i + 1)
          [] c = term -> more(c, i + 1, level - 1)
          [] c = "\\" -> LET e == ReadEscaped(text, i + 1) IN IF e = <<>> THEN Error ELSE more(e[1], e[2], level)
          [] c = "#" /\ At(text, i + 1) \in Template -> Open(s, i + 1, level)
          [] OTHER -> more(c, i + 1, level)

(* Strings without interpolation.                                          *)
RECURSIVE Single(_, _, _, _, _, _, _)
Single(text, i, open, term, double, level, s) ==
    LET c == At(text, i)
        d == At(text, i + 1)
        more(v, j, l) == Single(text, j, open, term, double, l, s \o v)
    IN  CASE c = "" -> Error
          [] c = open -> more(<<c>>, i + 1, level + 1)
          [] c = term /\ level = 0 -> Token("String", s, i + 1)
          [] c = term -> more(<<c>>, i + 1, level - 1)
          [] c = "\\" -> CASE d = "" -> Error
                            [] d = "'" -> more(<<d>>, i + 2, level)
                            [] d = "\\" -> more(IF double THEN <<d, d>> ELSE <<d>>, i + 2, level)
                            [] OTHER -> more(<<c, d>>, i + 2, level)
          [] OTHER -> more(<<c>>, i + 1, level)

(* Regular expressions keep their escapes, for the library that reads      *)
(* them, but for octal digits; one letter of options ends them.            *)
Postfix(text, i) ==
    IF At(text, i) \in {"i", "m", "x", "o"} THEN <<At(text, i), i + 1>> ELSE <<"-", i>>
EscapedInRegexp(text, i) ==
    IF At(text, i) \in Octal /\ (At(text, i) \in {"0", "1"} => At(text, i + 1) \in Digit)
      THEN <<<<"\\x", ToString(TriOctal(text, i)[1])>>, TriOctal(text, i)[2]>>
      ELSE <<<<"\\", At(text, i)>>, i + 1>>
RECURSIVE ReadRegexp(_, _, _)
ReadRegexp(text, i, s) ==
    LET c == At(text, i)
        e == EscapedInRegexp(text, i + 1)
    IN  CASE c = "" -> Error
          [] c = "/" -> Token("String", Append(s, Postfix(text, i + 1)[1]), Postfix(text, i + 1)[2])
          [] c = "\\" -> IF At(text, i + 1) = "" THEN Error ELSE ReadRegexp(text, e[2], s \o e[1])
          [] c = "#" /\ At(text, i + 1) \in Template -> Open(s, i + 1, 0)
          [] OTHER -> ReadRegexp(text, i + 1, Append(s, c))

(* The characters after `?`, `%` and `<<`, when the parser asks for them.  *)
ReadChar(text, i) ==
    LET e == ReadEscaped(text, i + 1)
    IN  CASE At(text, i) = "" \/ (At(text, i) = "\\" /\ e = <<>>) -> Error
          [] At(text, i) = "\\" -> Token("String", <<e[1]>>, e[2])
          [] OTHER -> Token("String", <<text[i]>>, i + 1)

Closing == ("(" :> ")") @@ ("{" :> "}") @@ ("[" :> "]") @@ ("<" :> ">")
PercentNotation(text, i) ==
    LET kind == IF At(text, i) \in {"q", "Q", "x", "r", "w", "W", "s", "i", "I"} THEN text[i] ELSE ""
        at == IF kind = "" THEN i ELSE i + 1
        c == At(text, at)
        open == IF c \in DOMAIN Closing THEN c ELSE "none"
        term == IF c \in DOMAIN Closing THEN Closing[c] ELSE c
        r == Single(text, at + 1, open, term, kind = "r", 0, <<>>)
    IN  CASE c \in Letter \cup Digit \cup {""} \/ (c \in {" ", "\n"} /\ kind \in {"i", "I", "w", "W"}) -> Error
          [] kind \in {"", "Q"} -> Interpolate(text, at + 1, open, term, 0, <<>>)
          [] kind = "q" \/ r = Error -> r
          [] OTHER -> [r EXCEPT !.k = "Percent " \o kind]

(* A here document: the lines from the next one to the delimiter.          *)
RECURSIVE HereLines(_, _, _, _, _)
HereLines(text, i, delimiter, indent, s) ==
    LET end == Eol(text, i)
        start == IF indent THEN Past(text, i, Blank) ELSE i
    IN  CASE SubSeq(text, start, end - 1) = delimiter -> Token("String", s, end)
          [] At(text, end) = "" -> Error
          [] OTHER -> HereLines(text, end + 1, delimiter, indent, s \o SubSeq(text, i, end))
HereDocument(text, i) ==
    LET indent == At(text, i) = "-"
        from == IF indent THEN i + 1 ELSE i
        to == Past(text, from, NameChar)
    IN  IF to = from \/ At(text, Eol(text, to)) = "" THEN Error
        ELSE HereLines(text, Eol(text, to) + 1, SubSeq(text, from, to - 1), indent, <<>>)

----------------------------------------------------------------------------
(* Blanks, ends of lines and continued lines: the position after them, and *)
(* whether a line ended.                                                   *)
RECURSIVE SkipWhitespace(_, _, _)
SkipWhitespace(text, i, ended) ==
    CASE At(text, i) = "\n" -> SkipWhitespace(text, i + 1, TRUE)
      [] At(text, i) = "\\" /\ At(text, i + 1) = "\n" -> SkipWhitespace(text, i + 2, ended)
      [] At(text, i) \in Blank -> SkipWhitespace(text, i + 1, ended)
      [] OTHER -> <<i, ended>>

(* An operator is extended as long as it is one.                           *)
RECURSIVE ReadPunct(_, _, _)
ReadPunct(text, i, op) ==
    IF Append(op, At(text, i)) \in Operators THEN ReadPunct(text, i + 1, Append(op, At(text, i)))
    ELSE Token("Punct", op, i)

RECURSIVE ReadToken(_, _)
ReadToken(text, from) ==
    LET i == SkipWhitespace(text, from, FALSE)[1]
        c == At(text, i)
    IN  CASE SkipWhitespace(text, from, FALSE)[2] -> Token("LineTerm", <<>>, i)
          [] c = "" -> Token("EOF", <<>>, i)
          [] c \in Letter \cup {"_"} -> ReadIdentifier(text, i)
          [] c \in Digit -> ReadNumber(text, i)
          [] c = "#" -> ReadToken(text, Eol(text, i))
          [] c \in {"\"", "backquote"} -> LET r == Interpolate(text, i + 1, "none", c, 0, <<>>)
                                  IN  IF c = "backquote" /\ r.k = "String" THEN [r EXCEPT !.k = "Command"] ELSE r
          [] c = "'" -> Single(text, i + 1, "none", "'", FALSE, 0, <<>>)
          [] c = "@" /\ At(text, i + 1) = "@" -> ReadVar("ClassVar", text, i + 2)
          [] c = "@" -> ReadVar("InstanceVar", text, i + 1)
          [] c = "$" -> ReadGlobalVar(text, i + 1)
          [] OTHER -> ReadPunct(text, i + 1, <<c>>)

(* All tokens of a text.                                                   *)
RECURSIVE Tokenize(_, _)
Tokenize(text, i) ==
    LET r == ReadToken(text, i)
    IN  IF r.k \in {"EOF", "Error"} THEN <<r>> ELSE <<r>> \o Tokenize(text, r.next)

(* The pieces of a string or regular expression, whose first one is r, and *)
(* the interpolations of one name between them; what opens in a later      *)
(* piece no longer nests.                                                  *)
RECURSIVE Pieces(_, _, _)
WithPiece(r, name, rest) ==
    IF rest = Error THEN Error ELSE [rest EXCEPT !.v = r.v \o <<"#", name.k>> \o name.v \o @]
Resume(text, i, r, term) ==
    IF term = "/" THEN ReadRegexp(text, i, <<>>) ELSE Interpolate(text, i, "none", term, r.level, <<>>)
Interpolated(text, r, term, name, braced, close) ==
    IF name.k \notin {"Ident", "InstanceVar", "GlobalVar"} \/ (braced /\ close.v # <<"}">>) THEN Error
    ELSE WithPiece(r, name, Pieces(text, Resume(text, IF braced THEN close.next ELSE name.next, r, term), term))
Embedded(text, r, term, name, braced) ==
    Interpolated(text, r, term, name, braced, ReadToken(text, name.next))
Pieces(text, r, term) ==
    LET braced == At(text, r.next) = "{"
    IN  IF r.k # "Open" THEN r
        ELSE Embedded(text, r, term, ReadToken(text, IF braced THEN r.next + 1 ELSE r.next), braced)

(* The words of %w and %i.                                                 *)
Elements(v) ==
    LET step(acc, c) == IF c \in {" ", "\n"} THEN Append(acc, <<>>) ELSE Append(Front(acc), Append(Last(acc), c))
    IN  FoldLeft(step, <<<<>>>>, v)
=============================================================================
