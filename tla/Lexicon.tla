------------------------------- MODULE Lexicon -------------------------------
(***************************************************************************)
(* Ruby's tokens, said without a lexer: the words of each kind are a set,  *)
(* and a text is cut into the longest words.  A literal is written from    *)
(* items, each of which says how it is spelled and what it stands for.     *)
(***************************************************************************)
EXTENDS Lexer

CONSTANT IrregularTexts      \* are texts read that the code takes for others than Ruby does?

----------------------------------------------------------------------------
(* Words.                                                                  *)
IsDigits(s, D) ==
    /\ s # <<>> /\ s[1] # "_" /\ Last(s) # "_"
    /\ \A l \in DOMAIN s : s[l] \in D \cup {"_"}
    /\ \A l \in 2 .. Len(s) : <<s[l - 1], s[l]>> # <<"_", "_">>
IsDecimal(s) == IsDigits(s, Digit) /\ (s[1] = "0" => Len(s) = 1)
IsHex(s) == Len(s) > 2 /\ s[1] = "0" /\ s[2] = "x" /\ IsDigits(SubSeq(s, 3, Len(s)), HexDigit)
IsBinary(s) == Len(s) > 2 /\ s[1] = "0" /\ s[2] = "b" /\ IsDigits(SubSeq(s, 3, Len(s)), {"0", "1"})
SplitsAt(s, C, First(_), Second(_)) ==
    \E p \in DOMAIN s : s[p] \in C /\ First(SubSeq(s, 1, p - 1)) /\ Second(SubSeq(s, p + 1, Len(s)))
IsFraction(s) == SplitsAt(s, {"."}, IsDecimal, LAMBDA t : IsDigits(t, Digit))
IsPower(s) ==
    SplitsAt(s, {"e", "E"}, LAMBDA t : IsDecimal(t) \/ IsFraction(t),
             LAMBDA t : IsDigits(IF t # <<>> /\ t[1] \in {"+", "-"} THEN Tail(t) ELSE t, Digit))
IsNumber(s) == IsDecimal(s) \/ IsHex(s) \/ IsBinary(s) \/ IsFraction(s) \/ IsPower(s)
IsPlainName(s) == s # <<>> /\ s[1] \in NameChar \ Digit /\ \A l \in DOMAIN s : s[l] \in NameChar
IsMark(s) == s # <<>> /\ Last(s) \in {"!", "?"} /\ IsPlainName(Front(s))
IsVar(s, sigil) ==
    LET n == Len(sigil) IN Len(s) > n /\ SubSeq(s, 1, n) = sigil /\ IsPlainName(SubSeq(s, n + 1, Len(s)))
IsSpecialVar(s) ==
    /\ Len(s) >= 2 /\ s[1] = "$"
    /\ IsDigits(Tail(s), Digit) \/ Tail(s) \in {<<p>> : p \in {"!", "?", "_", "&", "~", ".", "<", ">", "*", "\"", "'", "@", "/"}}

ValueOf(base, s) ==
    LET d == Plain(s) IN MapThenSumSet(LAMBDA l : DigitValue(d[l]) * base^(Len(d) - l), DOMAIN d)
NumberOf(s) ==
    CASE IsHex(s) -> <<"Integer", Integer(ValueOf(16, SubSeq(s, 3, Len(s))))>>
      [] IsBinary(s) -> <<"Integer", Integer(ValueOf(2, SubSeq(s, 3, Len(s))))>>
      [] IsDecimal(s) -> <<"Integer", Integer(ValueOf(10, s))>>
      [] OTHER -> <<"Float", [l \in DOMAIN Plain(s) |-> IF Plain(s)[l] = "E" THEN "e" ELSE Plain(s)[l]]>>
(* The word s, as <<kind, value>>.                                         *)
WordOf(s) ==
    CASE s \in ReservedWord -> <<"Reserved", s>>
      [] IsPlainName(s) \/ IsMark(s) -> <<IF s[1] \in Upper /\ ~IsMark(s) THEN "Const" ELSE "Ident", s>>
      [] IsNumber(s) -> NumberOf(s)
      [] Last(s) = "i" /\ IsNumber(Front(s)) -> <<"Imaginary", NumberOf(Front(s))[2]>>
      [] IsVar(s, <<"@", "@">>) -> <<"ClassVar", SubSeq(s, 3, Len(s))>>
      [] IsVar(s, <<"@">>) -> <<"InstanceVar", Tail(s)>>
      [] IsVar(s, <<"$">>) \/ IsSpecialVar(s) -> <<"GlobalVar", Tail(s)>>
      [] OTHER -> <<"Punct", s>>
IsWord(s) ==
    \/ IsPlainName(s) \/ IsMark(s) \/ IsNumber(s) \/ (Last(s) = "i" /\ IsNumber(Front(s)))
    \/ IsVar(s, <<"@", "@">>) \/ IsVar(s, <<"@">>) \/ IsVar(s, <<"$">>) \/ IsSpecialVar(s)
    \/ s \in (Operators \ {<<"\\">>}) \cup {<<"*", "*", "=">>}

(* Where the words at i may end; a mark belongs to a name unless it begins *)
(* an operator with `=`.                                                   *)
Ends(text, i) ==
    {j \in i .. Len(text) :
        LET s == SubSeq(text, i, j)
        IN  IsWord(s) /\ ~(IsMark(s) /\ At(text, j + 1) = "=")}

(* A gap between words: blanks, ends of lines, continued lines, comments.  *)
InComment(text, i, l) == \E c \in i .. l : text[c] = "#" /\ \A x \in c .. l : text[x] # "\n"
InGap(text, i, l) ==
    \/ text[l] \in Blank \cup {"\n"} \/ InComment(text, i, l)
    \/ (text[l] = "\\" /\ At(text, l + 1) = "\n")
EndsLine(text, i, l) ==
    text[l] = "\n" /\ ~(l > i /\ text[l - 1] = "\\" /\ ~InComment(text, i, l - 1))
GapEnd(text, i) ==
    CHOOSE j \in i .. Len(text) + 1 :
        /\ \A l \in i .. j - 1 : InGap(text, i, l)
        /\ j =< Len(text) => ~InGap(text, i, j)

(* No program: a number followed by a name or a digit, a name by ?=.        *)
Stray(text, i, j) ==
    LET s == SubSeq(text, i, j)
        name == IsPlainName(s) \/ IsVar(s, <<"@">>) \/ IsVar(s, <<"@", "@">>) \/ IsVar(s, <<"$">>)
    IN  \/ At(text, j + 1) \in NameChar /\ Last(s) \in NameChar /\ ~name
        \/ At(text, j + 1) = "?" /\ At(text, j + 2) = "=" /\ s[1] \in NameChar
(* What the code reads otherwise: a constant with a mark is no method; $_a *)
(* is two words, like **= and an imaginary number in another base; and an  *)
(* integer that is too large is another.                                   *)
IsIrregular(s) ==
    \/ IsMark(s) /\ s[1] \in Upper
    \/ Len(s) > 2 /\ s[1] = "$" /\ s[2] = "_"
    \/ s = <<"*", "*", "=">> \/ (Last(s) = "i" /\ (IsHex(Front(s)) \/ IsBinary(Front(s))))
    \/ \E d \in {s, Front(s)} :
           (IsDecimal(d) /\ ~Fits(ValueOf(10, d))) \/ (IsHex(d) /\ ~Fits(ValueOf(16, SubSeq(d, 3, Len(d)))))

(* The words of a text, with "LineTerm" for a gap in which a line ends;    *)
(* "Error" when there is no word.                                          *)
RECURSIVE Cut(_, _)
Cut(text, from) ==
    LET i == GapEnd(text, from)
        j == CHOOSE j \in Ends(text, i) : \A x \in Ends(text, i) : x =< j
        term == IF \E l \in from .. i - 1 : EndsLine(text, from, l) THEN <<<<"LineTerm", <<>>>>>> ELSE <<>>
    IN  term \o CASE i > Len(text) -> <<<<"EOF", <<>>>>>>
                  [] Ends(text, i) = {} \/ Stray(text, i, j) -> <<<<"Error", <<>>>>>>
                  [] IsIrregular(SubSeq(text, i, j)) /\ ~IrregularTexts -> <<<<"Error", <<>>>>>>
                  [] OTHER -> <<WordOf(SubSeq(text, i, j))>> \o Cut(text, j + 1)
(* The same of the lexer's tokens, where a comment may lie between two     *)
(* ends of lines.                                                          *)
Words(tokens) ==
    LET again(words, t) == t.k = "LineTerm" /\ words # <<>> /\ Last(words)[1] = "LineTerm"
    IN  FoldLeft(LAMBDA words, t : IF again(words, t) THEN words ELSE Append(words, <<t.k, t.v>>), <<>>, tokens)
ReadsWords(text) ==
    LET cut == Cut(text, 1)
    IN  Last(cut)[1] # "Error" => Words(Tokenize(text, 1)) = cut

----------------------------------------------------------------------------
(* Literals.  An item is spelled w; d is what it stands for in a string    *)
(* with interpolation, s in one without, r in a regular expression.        *)
Item(w, d, s, r) == [w |-> w, d |-> d, s |-> s, r |-> r]
Verbatim(w) == Item(w, w, w, w)
Items == {
    Verbatim(<<"a">>), Verbatim(<<"1">>), Verbatim(<<" ">>), Verbatim(<<"#">>),
    Verbatim(<<"(">>), Verbatim(<<")">>), Verbatim(<<"{">>),
    Item(<<"\\", "n">>, <<"\n">>, <<"\\", "n">>, <<"\\", "n">>),
    Item(<<"\\", "\\">>, <<"\\">>, <<"\\">>, <<"\\", "\\">>),
    Item(<<"\\", "'">>, <<"'">>, <<"'">>, <<"\\", "'">>),
    Item(<<"\\", "\"">>, <<"\"">>, <<"\\", "\"">>, <<"\\", "\"">>),
    Item(<<"\\", ")">>, <<")">>, <<"\\", ")">>, <<"\\", ")">>),
    Item(<<"\\", "\n">>, <<>>, <<"\\", "\n">>, <<"\\", "\n">>),
    Item(<<"\\", "6", "1">>, <<"1">>, <<"\\", "6", "1">>, <<"\\x", "49">>),
    Item(<<"\\", "x", "3", "1">>, <<"1">>, <<"\\", "x", "3", "1">>, <<"\\", "x", "3", "1">>),
    Item(<<"\\", "1">>, <<"char 1">>, <<"\\", "1">>, <<"\\", "1">>),
    Item(<<"\\", "2">>, <<"char 2">>, <<"\\", "2">>, <<"\\", "2">>),
    Item(<<"#", "{", "a", "}">>, <<"#", "Ident", "a">>, <<"#", "{", "a", "}">>, <<"#", "Ident", "a">>),
    Item(<<"#", "@", "a">>, <<"#", "InstanceVar", "a">>, <<"#", "@", "a">>, <<"#", "InstanceVar", "a">>)}
Interpolation == {x \in Items : x.w[1] = "#" /\ Len(x.w) > 1}
OctalEscape == {x \in Items : x.w[1] = "\\" /\ x.w[2] \in Octal}

(* How a literal begins and ends, and whether it nests parentheses.        *)
Style(from, term, as) == [from |-> from, term |-> term, as |-> as, nests |-> Last(from) = "("]
Styles == {
    Style(<<"\"">>, "\"", "d"), Style(<<"backquote">>, "backquote", "d"), Style(<<"%", "(">>, ")", "d"),
    Style(<<"%", "Q", "|">>, "|", "d"), Style(<<"'">>, "'", "s"), Style(<<"%", "q", "(">>, ")", "s"),
    Style(<<"%", "q", "!">>, "!", "s"), Style(<<"%", "w", "(">>, ")", "s"), Style(<<"/">>, "/", "r")}

Spelled(items) == FlattenSeq([l \in DOMAIN items |-> items[l].w])
Text(st, items) == st.from \o Spelled(items) \o <<st.term>>
Balanced(items) ==
    LET level(l) == Cardinality({m \in 1 .. l : items[m].w = <<"(">>}) - Cardinality({m \in 1 .. l : items[m].w = <<")">>})
    IN  level(Len(items)) = 0 /\ \A l \in DOMAIN items : level(l) >= 0
Writable(st, items) ==
    /\ st.nests => Balanced(items)
    /\ st.as # "s" => \A l \in 1 .. Len(items) - 1 :
           /\ items[l] \in OctalEscape => items[l + 1].w # <<"1">>
           /\ items[l].w = <<"#", "@", "a">> => items[l + 1].w \notin {<<"a">>, <<"1">>}
           /\ items[l].w = <<"#">> => items[l + 1].w # <<"{">>

(* What the code takes for another literal: parentheses after an           *)
(* interpolation do not nest; a backslash before the closing parenthesis   *)
(* stays, and one before an apostrophe goes, in %q; a backreference but    *)
(* the first is an octal digit; a continued line keeps its end; and %w has *)
(* an empty word wherever there is no other.                               *)
Odd(st, items) ==
    LET has(w) == \E l \in DOMAIN items : items[l].w = w
    IN  \/ st.as = "d" /\ st.nests
           /\ \E l, m \in DOMAIN items : l < m /\ items[l] \in Interpolation /\ items[m].w = <<"(">>
        \/ st.as = "s" /\ Len(st.from) > 1 /\ (has(<<"\\", "'">>) \/ (st.nests /\ has(<<"\\", ")">>)))
        \/ st.as = "r" /\ has(<<"\\", "2">>)
        \/ st.as = "d" /\ has(<<"\\", "\n">>)
        \/ st.from = <<"%", "w", "(">> /\ (<<>> \in ToSet(Elements(Spelled(items))) \/ has(<<"\\", "\n">>))

ReadLiteral(st, text) ==
    Pieces(text, CASE st.from[1] = "%" -> PercentNotation(text, 2)
                   [] st.from[1] = "/" -> ReadRegexp(text, 2, <<>>)
                   [] OTHER -> ReadToken(text, 1), st.term)
Stands(st, items) ==
    FlattenSeq([l \in DOMAIN items |->
        CASE st.as = "d" -> items[l].d [] st.as = "s" -> items[l].s [] OTHER -> items[l].r])
        \o (IF st.as = "r" THEN <<"-">> ELSE <<>>)
IsRead(r, v, next) == r.v = v /\ r.next = next
ReadsLiteral(st, items) ==
    Writable(st, items) /\ (IrregularTexts \/ ~Odd(st, items)) =>
        IsRead(ReadLiteral(st, Text(st, items)), Stands(st, items), Len(Text(st, items)) + 1)

(* A character is spelled like an item.                                    *)
ReadsChar(x) ==
    Len(x.d) = 1 /\ (IrregularTexts \/ x.w # <<"\\", "\n">>) =>
        ReadChar(x.w, 1) = Token("String", x.d, Len(x.w) + 1)

(* A here document: lines, of which the first that is the delimiter, with  *)
(* blanks before it if it may be indented, ends it.                        *)
Delimiter == <<"A">>
Lines == {<<>>, <<"a">>, <<" ", "A">>, <<"A", "a">>, <<"A">>, <<"\\", "n">>}
HereText(indent, lines) ==
    (IF indent THEN <<"-">> ELSE <<>>) \o Delimiter \o FlattenSeq([l \in DOMAIN lines |-> <<"\n">> \o lines[l]])
ReadsHere(indent, lines) ==
    LET closes(l) == lines[l] = Delimiter \/ (indent /\ lines[l] = <<" ">> \o Delimiter)
        last == CHOOSE l \in DOMAIN lines : closes(l) /\ \A m \in 1 .. l - 1 : ~closes(m)
    IN  HereDocument(HereText(indent, lines), 1) =
            IF \E l \in DOMAIN lines : closes(l)
              THEN Token("String", FlattenSeq([l \in 1 .. last - 1 |-> Append(lines[l], "\n")]),
                         Len(HereText(indent, SubSeq(lines, 1, last))) + 1)
              ELSE Error
=============================================================================
