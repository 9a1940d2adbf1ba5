------------------------------ MODULE Grammar ------------------------------
(***************************************************************************)
(* Programs as they are written, and what they mean.                       *)
(*                                                                         *)
(* A written tree has the form of the source: modifiers, keyword operators,*)
(* calls without parentheses, parentheses (CompStmt) where the programmer  *)
(* put them.  Written gives its text; Meant gives the syntax tree that     *)
(* Ruby means by it, where every name is a local variable exactly if Ruby's*)
(* scoping says so.  Printable says which trees need no more parentheses   *)
(* than they have, by Ruby's table of precedences.  None of this follows   *)
(* the code; only the constructors of nodes are shared with the parser.    *)
(***************************************************************************)
EXTENDS ParserState

(* Ruby's binary operators from those that bind least.                     *)
RubyLevels == <<{"||"}, {"&&"}, {"<=>", "==", "===", "!=", "=~", "!~"}, {"<=", "<", ">=", ">"},
                {"|", "^"}, {"&"}, {"<<", ">>"}, {"+", "-"}, {"*", "/", "%"}>>
OpLevel(op) == 6 + CHOOSE i \in DOMAIN RubyLevels : op \in RubyLevels[i]

Prec(n) ==
    CASE n.k \in {"Mod", "AliasMethod"} -> 0
      [] n.k \in {"And", "Or"} -> 1
      [] n.k \in {"MulAssign", "Command", "SafeCommand", "YieldCommand"} -> 2
      [] n.k \in {"return", "break", "next"} -> 2
      [] n.k = "Defined" -> 3
      [] n.k \in {"Assign", "OpAssign"} -> 4
      [] n.k = "Ternary" -> 5
      [] n.k = "Range" -> 6
      [] n.k = "BinOp" /\ n.x # "**" -> OpLevel(n.x)
      [] n.k = "UnOp" /\ n.x = "-" -> 16
      [] n.k = "BinOp" /\ n.x = "**" -> 17
      [] n.k = "Integer" /\ n.x = "-1" -> 17
      [] n.k = "UnOp" /\ n.x # "-" -> 18
      [] OTHER -> 19

(* The least precedence of part i.                                         *)
Need(n, i) ==
    CASE n.k \in {"If", "While", "subject"} -> IF i = 1 THEN 1 ELSE 0
      [] n.k \in {"And", "Or", "Mod"} -> IF i = 1 /\ n.k = "Mod" THEN 0 ELSE IF i = 1 THEN 1 ELSE 2
      [] n.k \in {"Assign", "OpAssign"} -> IF i = 1 THEN 19 ELSE 4
      [] n.k \in {"args", "kwrest", "block", "rhs", "Keyword", "Hash", "Array", "return", "break", "next", "list",
                  "Opt", "Key", "When", "Splat"} -> 4
      [] n.k = "Defined" -> 3
      [] n.k = "Ternary" -> IF i = 1 THEN 6 ELSE 4
      [] n.k = "Range" -> 7
      [] n.k = "BinOp" /\ n.x = "**" -> IF i = 1 THEN 18 ELSE 16
      [] n.k = "BinOp" /\ n.x # "**" ->
           IF i = 2 \/ n.x \in RubyLevels[NonAssoc] THEN OpLevel(n.x) + 1 ELSE OpLevel(n.x)
      [] n.k = "UnOp" -> IF n.x = "-" THEN 16 ELSE 18
      [] n.k = "For" /\ i = Len(n.c) - 1 -> 1
      [] n.k \in {"ClassDef", "SingletonClassDef"} /\ i < Len(n.c) -> IF n.k = "ClassDef" /\ i = 1 THEN 19 ELSE 1
      [] n.k \in {"lhs", "assign", "Index", "Scope", "Send", "SafeSend", "Command", "SafeCommand"} -> 19
      [] OTHER -> 0

(* An assignment to a name may be the operand on the right of an operator, *)
(* where it takes all that follows.                                        *)
IsNameAssign(n) == n.k = "Assign" /\ n.c[1].k = "Ident"
RECURSIVE RightOpen(_)
RightOpen(n) ==
    CASE n.k \in {"BinOp", "And", "Or", "UnOp", "Range"} -> RightOpen(Last(n.c))
      [] OTHER -> Prec(n) < 6

RECURSIVE Printable(_)
Printable(n) ==
    \A i \in DOMAIN n.c :
        /\ \/ Prec(n.c[i]) >= Need(n, i)
           \/ n.k \in {"BinOp", "UnOp"} /\ i = Len(n.c) /\ IsNameAssign(n.c[i])
        /\ (n.k \in {"BinOp", "Range"} /\ i = 1) => ~RightOpen(n.c[i])
        /\ (n.k = "UnOp" /\ n.x = "-") => n.c[i].k # "Integer"
        /\ n.c[i].k = "Splat" => n.k \in {"Array", "args", "rhs"}
        /\ Printable(n.c[i])

----------------------------------------------------------------------------
(* Text.                                                                   *)
Join(seqs, sep) == FoldLeft(LAMBDA l, s : IF l = <<>> THEN s ELSE l \o sep \o s, <<>>, seqs)
sp == <<"sp">>
nl == <<"nl">>
Leaf(n) ==
    CASE n.k = "Nil" -> <<"nil">> [] n.k = "Self" -> <<"self">>
      [] n.k = "Symbol" -> <<":", n.x>> [] n.k = "ConstTop" -> <<"::", n.x>>
      [] n.k = "Integer" /\ n.x = "-1" -> <<"-", "1">>
      [] OTHER -> <<n.x>>

IsBlock(n) == n.k = "Proc" /\ n.x # "->"

RECURSIVE Written(_)
Each(l) == [i \in DOMAIN l |-> Written(l[i])]
Commas(l) == Join(Each(l), <<",", "sp">>)
Lines(n) == IF n.k = "CompStmt" THEN Join(Each(n.c), nl) ELSE Written(n)
Indented(n) == nl \o Lines(n) \o nl
ArgText(a) ==
    Join(Each(a.c[1].c)
         \o [i \in DOMAIN a.c[2].c |-> <<a.c[2].c[i].x, ":", "sp">> \o Written(a.c[2].c[i].c[1])]
         \o [i \in DOMAIN a.c[3].c |-> <<"**">> \o Written(a.c[3].c[i])]
         \o [i \in {j \in DOMAIN a.c[4].c : ~IsBlock(a.c[4].c[j])} |-> <<"&">> \o Written(a.c[4].c[i])],
         <<",", "sp">>)
BlockText(a) == IF a.c[4].c # <<>> /\ IsBlock(a.c[4].c[1]) THEN sp \o Written(a.c[4].c[1]) ELSE <<>>
ParamText(q) ==
    CASE q.k = "Opt" -> <<q.x, "=">> \o Written(q.c[1]) [] q.k = "Rest" -> <<"*", q.x>>
      [] q.k = "Key" -> <<q.x, ":">> \o IF q.c = <<>> THEN <<>> ELSE sp \o Written(q.c[1])
      [] q.k = "KwRest" -> <<"**", q.x>> [] q.k = "BlockParam" -> <<"&", q.x>>
      [] q.k = "RestDiscard" -> <<"*">> [] OTHER -> <<q.x>>
ParamsText(n) == Join([i \in DOMAIN n.c |-> ParamText(n.c[i])], <<",", "sp">>)
Receiver(n) == IF n.c[1] = Self /\ n.k \in {"Send", "Command"} THEN <<>> ELSE Written(n.c[1]) \o <<IF n.k \in {"SafeSend", "SafeCommand"} THEN "&." ELSE ".">>
Clauses(n) ==
    Lines(n.c[1]) \o nl
    \o FoldLeft(LAMBDA l, r : l \o <<"rescue">>
                    \o (IF r.c[1].c = <<>> THEN <<>> ELSE sp \o Commas(r.c[1].c))
                    \o (IF r.c[2].c = <<>> THEN <<>> ELSE <<"sp", "=>", "sp">> \o Written(r.c[2].c[1]))
                    \o Indented(r.c[3]), <<>>, n.c[2].c)
    \o (IF n.c[3].c = <<>> THEN <<>> ELSE <<"else">> \o Indented(n.c[3].c[1]))
    \o (IF n.c[4].c = <<>> THEN <<>> ELSE <<"ensure">> \o Indented(n.c[4].c[1])) \o <<"end">>

Written(n) ==
    CASE n.k = "CompStmt" -> <<"(">> \o Lines(n) \o <<")">>
      [] n.k \in {"BinOp", "And", "Or", "Range"} -> Written(n.c[1]) \o <<"sp", n.x, "sp">> \o Written(n.c[2])
      [] n.k = "UnOp" -> <<n.x>> \o Written(n.c[1])
      [] n.k = "Splat" -> <<"*">> \o Written(n.c[1])
      [] n.k = "Defined" -> <<"defined?", "sp">> \o Written(n.c[1])
      [] n.k = "Ternary" ->
           Written(n.c[1]) \o <<"sp", "?", "sp">> \o Written(n.c[2]) \o <<"sp", ":", "sp">> \o Written(n.c[3])
      [] n.k = "Mod" -> Written(n.c[1]) \o <<"sp", n.x, "sp">> \o Written(n.c[2])
      [] n.k = "Assign" -> Written(n.c[1]) \o <<"sp", "=", "sp">> \o Written(n.c[2])
      [] n.k = "OpAssign" -> Written(n.c[1]) \o <<"sp", n.x, "sp">> \o Written(n.c[2])
      [] n.k = "MulAssign" -> Commas(n.c[1].c) \o <<"sp", "=", "sp">> \o Commas(n.c[2].c)
      [] n.k \in {"Send", "SafeSend"} ->
           Receiver(n) \o <<n.x>> \o (IF ArgText(n.c[2]) = <<>> /\ (BlockText(n.c[2]) # <<>> \/ n.c[1] # Self) THEN <<>>
                                      ELSE <<"(">> \o ArgText(n.c[2]) \o <<")">>) \o BlockText(n.c[2])
      [] n.k \in {"Command", "SafeCommand"} -> Receiver(n) \o <<n.x, "sp">> \o ArgText(n.c[2]) \o BlockText(n.c[2])
      [] n.k = "Yield" -> <<"yield">> \o IF ArgText(n.c[1]) = <<>> THEN <<>> ELSE <<"(">> \o ArgText(n.c[1]) \o <<")">>
      [] n.k = "YieldCommand" -> <<"yield", "sp">> \o ArgText(n.c[1])
      [] n.k = "Index" -> Written(n.c[1]) \o <<"[">> \o Commas(Tail(n.c)) \o <<"]">>
      [] n.k = "Scope" -> Written(n.c[1]) \o <<"::", n.x>>
      [] n.k = "Array" -> <<"[">> \o Commas(n.c) \o <<"]">>
      [] n.k = "Hash" ->
           <<"{">> \o Join([i \in 1 .. Len(n.c) \div 2 |->
                IF n.x = ":" THEN <<n.c[2 * i - 1].x, ":", "sp">> \o Written(n.c[2 * i])
                ELSE Written(n.c[2 * i - 1]) \o <<"sp", "=>", "sp">> \o Written(n.c[2 * i])], <<",", "sp">>) \o <<"}">>
      [] n.k \in {"InterporatedString", "RegExp"} ->
           (IF n.k = "RegExp" THEN <<"/">> ELSE <<>>)
           \o FoldLeft(LAMBDA l, e : l \o <<"open", "{">> \o Lines(e) \o <<"}">>, <<>>, n.c) \o <<"close">>
      [] n.k = "Proc" ->
           CASE n.x = "->" -> <<"->", "(">> \o ParamsText(n.c[1]) \o <<")", "sp", "{", "sp">> \o Lines(n.c[2]) \o <<"sp", "}">>
             [] n.x = "{" -> <<"{", "sp", "|">> \o ParamsText(n.c[1]) \o <<"|", "sp">> \o Lines(n.c[2]) \o <<"sp", "}">>
             [] OTHER -> <<"do", "sp", "|">> \o ParamsText(n.c[1]) \o <<"|">> \o Indented(n.c[2]) \o <<"end">>
      [] n.k = "If" -> <<n.x, "sp">> \o Written(n.c[1]) \o Indented(n.c[2])
                       \o IF n.c[3].k = "If" THEN <<"elsif">> \o Tail(Written(n.c[3]))
                          ELSE <<"else">> \o Indented(n.c[3]) \o <<"end">>
      [] n.k = "While" -> <<n.x, "sp">> \o Written(n.c[1]) \o Indented(n.c[2]) \o <<"end">>
      [] n.k = "For" -> <<"for", "sp">> \o Commas(SubSeq(n.c, 1, Len(n.c) - 2)) \o <<"sp", "in", "sp">>
                        \o Written(n.c[Len(n.c) - 1]) \o Indented(Last(n.c)) \o <<"end">>
      [] n.k = "Case" -> <<"case">> \o (IF n.c[1].c = <<>> THEN <<>> ELSE sp \o Written(n.c[1].c[1])) \o nl
                         \o FoldLeft(LAMBDA l, w : l \o <<"when", "sp">> \o Commas(Front(w.c)) \o Indented(Last(w.c)), <<>>, n.c[2].c)
                         \o <<"else">> \o Indented(n.c[3]) \o <<"end">>
      [] n.k = "Begin" -> <<"begin">> \o nl \o Clauses(n)
      [] n.k \in {"MethodDef", "SingletonMethodDef"} ->
           <<"def", "sp">> \o (IF n.k = "MethodDef" THEN <<>> ELSE <<"self", ".">>)
           \o (IF n.x = "m=" THEN <<"m", "=">> ELSE <<n.x>>) \o <<"(">> \o ParamsText(n.c[1])
           \o <<")", "nl">> \o Clauses(n.c[2])
      [] n.k \in {"ClassDef", "ModuleDef"} ->
           <<IF n.k = "ClassDef" THEN "class" ELSE "module", "sp">> \o (IF n.c[1] = Nil THEN <<>> ELSE Written(n.c[1]) \o <<"::">>)
           \o <<n.x>> \o (IF n.c[2] = Nil THEN <<>> ELSE <<"sp", "<", "sp">> \o Written(n.c[2])) \o nl \o Clauses(n.c[3])
      [] n.k = "SingletonClassDef" -> <<"class", "sp", "<<", "sp">> \o Written(n.c[1]) \o nl \o Clauses(n.c[2])
      [] n.k \in {"return", "break", "next"} -> <<n.k>> \o IF n.c = <<>> THEN <<>> ELSE sp \o Commas(n.c)
      [] n.k = "AliasMethod" -> <<"alias", "sp">> \o Written(n.c[1]) \o sp \o Written(n.c[2])
      [] OTHER -> Leaf(n)
----------------------------------------------------------------------------
(* Meaning.  e is the stack of scopes: a block sees the names around it, a *)
(* method or class does not; a name belongs to the scope that assigns it   *)
(* first, from its assignment on.                                          *)
Visible(e, x) == \E i \in DOMAIN e : x \in e[i].names /\ \A j \in i + 1 .. Len(e) : e[j].open
Declare(e, x) == IF Visible(e, x) THEN e ELSE [e EXCEPT ![Len(e)].names = @ \cup {x}]
Target(n, e) == IF n.k = "Ident" THEN Declare(e, n.x) ELSE e
M(n, e) == [n |-> n, e |-> e]

RECURSIVE Meant(_, _)
MeantAll(l, e) ==
    FoldLeft(LAMBDA r, n : LET m == Meant(n, r.e) IN M(Append(r.n, m.n), m.e), M(<<>>, e), l)
MeantParams(l, e) ==
    FoldLeft(LAMBDA r, q : LET m == MeantAll(q.c, r.e)
                           IN  M(Append(r.n, Node(q.k, q.x, m.n)),
                                 IF q.x = "" THEN m.e ELSE [m.e EXCEPT ![Len(m.e)].names = @ \cup {q.x}]),
             M(<<>>, e), l)
Inside(n, k, i, e, open) ==     \* the params and body of n, from its part i, in a scope of its own
    LET outer == MeantAll(SubSeq(n.c, 1, i - 1), e)
        params == MeantParams(n.c[i].c, Append(outer.e, [open |-> open, names |-> {}]))
        body == Meant(n.c[i + 1], params.e)
    IN  M(Scoped(Node(k, IF k = "Proc" THEN "" ELSE n.x, outer.n \o <<Node("params", "", params.n), body.n>>), Last(body.e).names),
          Front(body.e))
ClassInside(n, e) ==
    LET outer == MeantAll(Front(n.c), e)
        body == Meant(Last(n.c), Append(outer.e, [open |-> FALSE, names |-> {}]))
    IN  M(Scoped(Node(n.k, n.x, Append(outer.n, body.n)), Last(body.e).names), Front(body.e))

Plain(n) ==     \* the parser's node for a written node whose parts are the same
    CASE n.k \in {"And", "Or"} -> BinOp(IF n.k = "And" THEN "&&" ELSE "||", n.c[1], n.c[2])
      [] n.k = "BinOp" -> Operator(n.x, n.c[1], n.c[2])
      [] n.k = "Ternary" -> If(n.c[1], n.c[2], n.c[3])
      [] n.k = "If" -> IF n.x = "if" THEN If(n.c[1], n.c[2], n.c[3]) ELSE If(n.c[1], n.c[3], n.c[2])
      [] n.k = "Command" -> Node("Send", n.x, n.c)
      [] n.k = "SafeCommand" -> Node("SafeSend", n.x, n.c)
      [] n.k \in {"Send", "SafeSend"} /\ n.c[1].k = "Ident" -> Node(n.k, n.x, <<Send(Self, n.c[1].x, NoArgs, FALSE), n.c[2]>>)
      [] n.k = "YieldCommand" -> Node("Yield", "", n.c)
      [] n.k = "Hash" -> Node("Hash", "", n.c)
      [] n.k \in {"return", "break", "next"} ->
           Node(n.k, "", <<IF n.c = <<>> THEN Nil ELSE IF Len(n.c) = 1 THEN n.c[1] ELSE Node("Array", "", n.c)>>)
      [] OTHER -> n

Meant(n, e) ==
    CASE n.k = "Ident" -> M(IF Visible(e, n.x) THEN LocalVar(n.x) ELSE n, e)
      [] n.k = "Assign" ->
           LET l == Meant(n.c[1], e)
               r == Meant(n.c[2], Target(n.c[1], l.e))
           IN  M(MulAssign(<<l.n>>, <<r.n>>), r.e)
      [] n.k = "MulAssign" ->
           LET l == MeantAll(n.c[1].c, e)
               r == MeantAll(n.c[2].c, FoldLeft(LAMBDA s, t : Target(t, s), l.e, n.c[1].c))
           IN  M(MulAssign(l.n, r.n), r.e)
      [] n.k = "OpAssign" ->
           LET op == AssignOp[n.x]
               l == Meant(n.c[1], e)
               r == Meant(n.c[2], Target(n.c[1], l.e))
               read == IF n.c[1].k = "Ident" THEN LocalVar(n.c[1].x) ELSE l.n
           IN  M(IF op \in {"||", "&&"} THEN BinOp(op, read, MulAssign(<<read>>, <<r.n>>))
                 ELSE MulAssign(<<l.n>>, <<BinOp(op, read, r.n)>>), r.e)
      [] n.k = "Mod" ->
           LET body == Meant(n.c[1], e)
               cond == Meant(n.c[2], body.e)
           IN  M(CASE n.x = "if" -> If(cond.n, body.n, Comp(<<>>))
                   [] n.x = "unless" -> If(cond.n, Comp(<<>>), body.n)
                   [] OTHER -> While(cond.n, body.n, n.x), cond.e)
      [] n.k = "Rescue" ->
           LET l == MeantAll(<<n.c[1], n.c[2]>>, e)
               body == Meant(n.c[3], FoldLeft(LAMBDA s, t : Target(t, s), l.e, n.c[2].c))
           IN  M(Node("Rescue", "", Append(l.n, body.n)), body.e)
      [] n.k = "For" ->
           LET vars == SubSeq(n.c, 1, Len(n.c) - 2)
               r == MeantAll(SubSeq(n.c, Len(n.c) - 1, Len(n.c)), FoldLeft(LAMBDA s, t : Target(t, s), e, vars))
           IN  M(Node("For", "", vars \o <<r.n[1], Scoped(r.n[2], {})>>), r.e)
      [] n.k = "Proc" -> Inside(n, "Proc", 1, e, TRUE)
      [] n.k \in {"MethodDef", "SingletonMethodDef"} -> Inside(n, n.k, 1, e, FALSE)
      [] n.k \in {"ClassDef", "ModuleDef", "SingletonClassDef"} -> ClassInside(n, e)
      [] OTHER -> LET r == MeantAll(n.c, e) IN M(Plain([n EXCEPT !.c = r.n]), r.e)
=============================================================================
