----------------------------- MODULE Algorithms -----------------------------
(***************************************************************************)
(* The parts of the system that compute and keep no state: the lexer, the  *)
(* binding of arguments, the methods of collections, and arithmetic.  An   *)
(* input grows, or is completed, and each input is answered.               *)
(***************************************************************************)
EXTENDS Lexicon, Binding, CollectionLaws, Numbers

CONSTANTS Alphabets,    \* of texts: characters and a bound on the length
          MaxItems, MaxLines, MaxRounds, MaxStrings,   \* bounds on the length of what grows
          Parameters, Passed, Keyworded, Rests,  \* of calls
          Yielded,                               \* what the rounds of a block are given
          Arrays, Positions, Replacements,       \* arrays, positions and lengths, other arrays
          Nested, Levels, Rows, Ranges,          \* nested arrays, levels to flatten, arrays and ranges of integers
          Tables, Additions                      \* hashes, hashes merged with them

VARIABLE input
Is(kind) == input.kind = kind
Grows(field, max) == Len(input[field]) < max
Give(field, x) == input' = [input EXCEPT ![field] = Append(@, x)]

Numerals == {IntegerValue(n) : n \in Representable} \cup {Flo(AsFloat(n)) : n \in Representable}

Init ==
    \/ \E from \in Alphabets : input = [kind |-> "text", from |-> from, text |-> <<>>]
    \/ \E st \in Styles : input = [kind |-> "literal", style |-> st, items |-> <<>>]
    \/ \E indent \in BOOLEAN : input = [kind |-> "here", indent |-> indent, lines |-> <<>>]
    \/ \E p \in Parameters : input = [kind |-> "method", p |-> p]
    \/ \E p \in Parameters, assigns \in BOOLEAN :
           input = [kind |-> "rounds", p |-> p, assigns |-> assigns, values |-> <<>>]
    \/ \E a \in Arrays : input = [kind |-> "array", a |-> a]
    \/ \E s \in Nested : input = [kind |-> "nested", s |-> s]
    \/ \E a \in Rows : input = [kind |-> "row", a |-> a]
    \/ \E sep \in {<<>>, <<",">>} : input = [kind |-> "strings", sep |-> sep, strings |-> <<>>]
    \/ \E r \in Ranges : input = [kind |-> "range", r |-> r]
    \/ \E h \in Tables : input = [kind |-> "hash", h |-> h]
    \/ \E lhs \in Numerals : input = [kind |-> "number", lhs |-> lhs]

Type == Is("text") /\ Grows("text", input.from.max) /\ \E c \in input.from.chars : Give("text", c)
Spell == Is("literal") /\ Grows("items", MaxItems) /\ \E x \in Items : Give("items", x)
Write == Is("here") /\ Grows("lines", MaxLines) /\ \E l \in Lines : Give("lines", l)
Pass ==
    /\ Is("method")
    /\ \E block \in BOOLEAN, args \in Passed, kw \in Keyworded, rests \in Rests :
           input' = [kind |-> "call", p |-> input.p, block |-> block, args |-> args, kw |-> kw, rests |-> rests]
Yield == Is("rounds") /\ Grows("values", MaxRounds) /\ \E v \in Yielded : Give("values", v)
Index ==
    /\ Is("array")
    /\ \E i, l \in Positions, b \in Replacements :
           input' = [kind |-> "elements", a |-> input.a, i |-> i, l |-> l, b |-> b]
Flatten == Is("nested") /\ \E level \in Levels : input' = [kind |-> "levels", s |-> input.s, level |-> level]
Compare == Is("row") /\ \E b, c \in Rows : input' = [kind |-> "rows", a |-> input.a, b |-> b, c |-> c]
Add == Is("strings") /\ Grows("strings", MaxStrings) /\ \E s \in {<<>>, <<"a">>} : Give("strings", s)
Take == Is("range") /\ \E n \in Positions : input' = [kind |-> "ends", r |-> input.r, n |-> n]
Store ==
    /\ Is("hash")
    /\ \E key \in ToSet(KeysOf(input.h)) \cup {"new"}, others \in Additions :
           input' = [kind |-> "entries", h |-> input.h, key |-> key, others |-> others]
Operate == Is("number") /\ \E rhs \in Numerals : input' = [kind |-> "numbers", lhs |-> input.lhs, rhs |-> rhs]
Next == Type \/ Spell \/ Write \/ Pass \/ Yield \/ Index \/ Flatten \/ Compare \/ Add \/ Take \/ Store \/ Operate

Spec == Init /\ [][Next]_input

(* The lexer divides a text into the words of Ruby: names with their       *)
(* suffixes, numbers, the longest operators and punctuation, ends of lines *)
(* where the line does not go on; a literal of any style stands for what   *)
(* its characters, escapes and interpolations stand for.                   *)
LexesAsWritten ==
    /\ Is("text") => ReadsWords(input.text)
    /\ Is("literal") => ReadsLiteral(input.style, input.items) /\ \A l \in DOMAIN input.items : ReadsChar(input.items[l])
    /\ Is("here") => ReadsHere(input.indent, input.lines)

(* A call binds each parameter of a method or block as Ruby does, or fails *)
(* as Ruby does; so does each round of a block that an iteration calls     *)
(* again and again in the same frame.                                      *)
CallsBindAsRuby ==
    /\ Is("call") => BindsLikeRuby(input.p, input.block, input.args, input.kw, input.rests)
    /\ Is("rounds") /\ input.values # <<>> => IteratesLikeRuby(input.p, input.values, input.assigns)

(* The methods of arrays, ranges and hashes answer, and change their       *)
(* receivers, as Ruby's do: whatever the signs and sizes of positions and  *)
(* lengths; and a hash loses or invents no entry, not even while a block   *)
(* that walks it removes what it is given.                                 *)
CollectionsAsRuby ==
    /\ Is("elements") => ArraysLikeRuby(input.a, input.i, input.l, input.b)
    /\ Is("levels") => Flattens(input.s, 3, input.level)
    /\ Is("rows") => Orders(input.a, input.b, input.c)
    /\ Is("strings") => Joins(input.strings, input.sep)
    /\ Is("ends") => RangesLikeRuby(input.r, input.n) /\ Searches(Len(ToA(input.r).v), input.n)
    /\ Is("entries") => HashesLikeRuby(input.h, input.key, "new", input.others)

(* Arithmetic, comparisons and the loops of integers are Ruby's, and each  *)
(* integer has one form only, packed or not: equality relies on it.        *)
(* Whatever a conversion to a float rounds, ==, <=> and the orders agree.  *)
NumbersAsRuby ==
    Is("numbers") =>
        /\ ArithmeticLikeRuby(input.lhs, input.rhs)
        /\ ~IsFloat(input.lhs) /\ ~IsFloat(input.rhs) =>
               \A step \in Representable \ {0} : StepsLikeRuby(Unpack(input.lhs), Unpack(input.rhs), step)
=============================================================================
