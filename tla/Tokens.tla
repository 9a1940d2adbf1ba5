------------------------------- MODULE Tokens -------------------------------
(***************************************************************************)
(* The stream of tokens that the parser reads (the Lexer of lexer.rs, seen *)
(* from parser.rs).                                                        *)
(*                                                                         *)
(* A program is a sequence of lexemes: tokens, "sp" for blanks and "nl"    *)
(* for the end of a line.  Blanks matter: some decisions of the parser     *)
(* depend on the character after a token.  The state p of the parser       *)
(* carries its position; `skip` and `buf` are the two tokens that the      *)
(* lexer buffers for peeking.  Buffers that agree with the position say    *)
(* nothing new, so that they are kept here only when they do not: "" means *)
(* that the lexer would read the token again.                              *)
(***************************************************************************)
EXTENDS Naturals, SequencesExt

Blank == {"sp", "nl"}
LineTerm == {"nl", ";"}
Term == LineTerm \cup {"EOF"}

Reserved == {
    "and", "alias", "begin", "break", "case", "class", "def", "defined?", "do", "else", "ensure",
    "elsif", "end", "for", "false", "if", "in", "module", "next", "nil", "or", "return", "rescue",
    "self", "then", "true", "until", "unless", "when", "while", "yield"}

(* The tokens that end a sequence of statements.                           *)
StmtEnd == {"EOF", "else", "elsif", "end", "when", "rescue", "ensure", ")", "}", "]"}

(* The names, constants and literals that programs are made of.            *)
IntegerLit == {"0", "1", "2"}
StringLit == {"str"}
InstanceVar == {"@i"}
GlobalVar == {"$g"}
ConstName == {"C", "D"}
Ident == {"a", "b", "f", "m", "u", "v", "w", "x", "y", "z", "_0"}
CanBeSymbol == ConstName \cup Ident \cup InstanceVar \cup Reserved \cup StringLit

----------------------------------------------------------------------------
(* One token from position i: blanks before it are skipped, and a run of   *)
(* blanks with the end of a line in it is a token itself.                  *)
ReadToken(text, i) ==
    LET j == CHOOSE k \in i .. Len(text) + 1 :
                 /\ k > Len(text) \/ text[k] \notin Blank
                 /\ \A l \in i .. k - 1 : text[l] \in Blank
    IN  CASE \E l \in i .. j - 1 : text[l] = "nl" -> [t |-> "nl", next |-> j]
          [] j > Len(text) -> [t |-> "EOF", next |-> j]
          [] OTHER -> [t |-> text[j], next |-> j + 1]

(* The first token from i on that is no line terminator.                   *)
RECURSIVE ReadSkipping(_, _)
ReadSkipping(text, i) ==
    LET r == ReadToken(text, i)
    IN  IF r.t \in LineTerm THEN ReadSkipping(text, r.next) ELSE r

(* Peeking uses a buffered token even when it is not the next one.         *)
Peek(p) == IF p.skip # "" THEN p.skip ELSE ReadSkipping(p.text, p.at).t
PeekNoTerm(p) == IF p.buf # "" THEN p.buf ELSE ReadToken(p.text, p.at).t

(* Reading a token empties the buffers.                                    *)
Moved(p, i) == [p EXCEPT !.at = i, !.skip = "", !.buf = ""]
NextToken(p) == ReadSkipping(p.text, p.at).t
Take(p) == Moved(p, ReadSkipping(p.text, p.at).next)

(* Back to the position of p, with tokens buffered that were peeked at     *)
(* after it.                                                               *)
Restored(p, skip, buf) == [p EXCEPT !.skip = skip, !.buf = buf]

(* Past all line terminators.                                              *)
RECURSIVE ConsumeTerm(_)
ConsumeTerm(p) ==
    LET r == ReadToken(p.text, p.at)
    IN  IF r.t \in LineTerm THEN ConsumeTerm(Moved(p, r.next)) ELSE p

(* The character after the last token that was read, and the one after the *)
(* next.                                                                   *)
TrailingSpace(p) == p.at =< Len(p.text) /\ p.text[p.at] \in Blank
TrailingLParen(p) == p.at =< Len(p.text) /\ p.text[p.at] = "("
HasTrailingSpace(p) ==
    LET r == ReadToken(p.text, p.at)
    IN  r.next =< Len(p.text) /\ p.text[r.next] \in Blank
=============================================================================
