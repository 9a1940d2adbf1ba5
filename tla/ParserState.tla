------------------------------- MODULE ParserState -------------------------------
(***************************************************************************)
(* The recursive-descent parser (parser.rs).                               *)
(*                                                                         *)
(* A function of the code takes the state p of the parser and returns      *)
(* [ok, n, p]: whether it succeeded, the node, and the state after it.     *)
(* Then is the operator `?` of the code.  Besides the stream of tokens the *)
(* state has the two flags that suppress assignments and the stack of      *)
(* contexts with the local variables each one knows.  Places in the source *)
(* are left out.                                                           *)
(***************************************************************************)
EXTENDS Tokens

Node(k, x, c) == [k |-> k, x |-> x, c |-> c]
Ident_(x) == Node("Ident", x, <<>>)
LocalVar(x) == Node("LocalVar", x, <<>>)
Comp(stmts) == Node("CompStmt", "", stmts)
Nil == Node("Nil", "", <<>>)
BinOp(op, l, r) == Node("BinOp", op, <<l, r>>)
Splat(e) == Node("Splat", "", <<e>>)
If(cond, then, else) == Node("If", "", <<cond, then, else>>)
While(cond, body, x) == Node("While", x, <<cond, body>>)
(* A block, method or class also has the names of its local variables.     *)
Scoped(n, lvars) == [k |-> n.k, x |-> n.x, c |-> n.c, lvars |-> lvars]

(* The arguments of a call; kw has a node per keyword, block at most one.  *)
NoArgs == [args |-> <<>>, kw |-> <<>>, kwrest |-> <<>>, block |-> <<>>]
Args(a) == Node("Args", "",
    <<Node("args", "", a.args), Node("kw", "", a.kw), Node("kwrest", "", a.kwrest), Node("block", "", a.block)>>)
Send(recv, x, a, safe) == Node(IF safe THEN "SafeSend" ELSE "Send", x, <<recv, Args(a)>>)
Self == Node("Self", "", <<>>)

(* Several values on the right of one variable, or a splat, are an array.  *)
MulAssign(lhs, rhs) ==
    LET wrap == (\E i \in DOMAIN rhs : rhs[i].k = "Splat") \/ (Len(lhs) = 1 /\ Len(rhs) # 1)
    IN  Node("MulAssign", "", <<Node("lhs", "", lhs),
                                Node("rhs", "", IF wrap THEN <<Node("Array", "", rhs)>> ELSE rhs)>>)

----------------------------------------------------------------------------
Done(n, p) == [ok |-> TRUE, n |-> n, p |-> p]
Fail(p) == [ok |-> FALSE, n |-> Nil, p |-> p]
Then(r, K(_, _)) == IF r.ok THEN K(r.n, r.p) ELSE r

At(p, t) == Peek(p) = t
AtNoTerm(p, t) == PeekNoTerm(p) = t
(* get, and the expectation of a token; at the end of the program it fails.*)
Got(p) == NextToken(p)
Expect(p, t, n) == IF NextToken(p) = t THEN Done(n, Take(p)) ELSE Fail(p)
Optional(p, t) == IF At(p, t) THEN Take(p) ELSE p
OptionalNoTerm(p, t) == IF AtNoTerm(p, t) THEN Take(p) ELSE p

----------------------------------------------------------------------------
(* Contexts.                                                               *)
Context(kind) == [kind |-> kind, names |-> {}]
Push(p, kind) == [p EXCEPT !.scopes = Append(@, Context(kind))]
Pop(p) == [p EXCEPT !.scopes = Front(@)]
Lvars(p) == Last(p.scopes).names

IsLocalVar_NotInFor(p, x) ==
    \E i \in DOMAIN p.scopes :
        /\ x \in p.scopes[i].names
        /\ \A j \in i + 1 .. Len(p.scopes) : p.scopes[j].kind = "Block"
IsLocalVar(p, x) ==
    \E i \in DOMAIN p.scopes :
        /\ x \in p.scopes[i].names
        /\ \A j \in i + 1 .. Len(p.scopes) : p.scopes[j].kind \in {"Block", "For"}

(* A new variable is entered in every context of the stack but those of    *)
(* `for`, and not only in the innermost one.                               *)
AddLocalVarIfNew(p, x) ==
    IF IsLocalVar(p, x) THEN p
    ELSE [p EXCEPT !.scopes =
            [i \in DOMAIN @ |-> IF @[i].kind = "For" THEN @[i] ELSE [@[i] EXCEPT !.names = @ \cup {x}]]]

NewParam(p, x, n) ==
    IF x \in Lvars(p) THEN Fail(p)
    ELSE Done(n, [p EXCEPT !.scopes[Len(p.scopes)].names = @ \cup {x}])

IsMethodContext(p) == Last(p.scopes).kind = "Method"

(* The innermost class or method decides whether a constant may be         *)
(* assigned to.                                                            *)
InMethod(p) ==
    \E i \in DOMAIN p.scopes :
        /\ p.scopes[i].kind = "Method"
        /\ \A j \in i + 1 .. Len(p.scopes) : p.scopes[j].kind \notin {"Class", "Method"}

CheckLhs(p, lhs, n) ==
    CASE lhs.k = "Ident" -> Done(n, AddLocalVarIfNew(p, lhs.x))
      [] lhs.k = "Const" /\ InMethod(p) -> Fail(p)
      [] OTHER -> Done(n, p)
RECURSIVE CheckEach(_, _, _)
CheckEach(p, lhs, n) ==
    IF lhs = <<>> THEN Done(n, p)
    ELSE Then(CheckLhs(p, Head(lhs), n), LAMBDA m, q : CheckEach(q, Tail(lhs), m))

----------------------------------------------------------------------------
(* Binary operators that associate to the left, from those that bind least *)
(* to those that bind most; the third row does not associate.              *)
Levels == <<{"||"}, {"&&"}, {"==", "!=", "===", "=~", "!~"}, {"<=", "<", ">=", ">", "<=>"},
            {"|", "^"}, {"&"}, {"<<", ">>"}, {"+", "-"}, {"*", "/", "%"}>>
NonAssoc == 3
AssignOp == [t \in {"+=", "-=", "*=", "||=", "&&="} |->
                CASE t = "+=" -> "+" [] t = "-=" -> "-" [] t = "*=" -> "*" [] t = "||=" -> "||" [] t = "&&=" -> "&&"]
Operator(op, l, r) == IF op = "!~" THEN Node("UnOp", "!", <<BinOp("=~", l, r)>>) ELSE BinOp(op, l, r)

(* Operators that are names of methods; [] and []= are two or three tokens.*)
OpDefinable == {"+", "-", "*", "<<", ">>", "<=>", "==", "!=", "<", "<=", ">", ">=", "===", "=~"}
ParseOpDefinable(t, p) ==
    CASE t \in OpDefinable -> Done(t, p)
      [] t = "[" /\ AtNoTerm(p, "]") ->
           IF AtNoTerm(Take(p), "=") THEN Done("[]=", Take(Take(p))) ELSE Done("[]", Take(p))
      [] OTHER -> Fail(p)

(* Whether a name is followed by arguments without parentheses.            *)
IsCommand(p) ==
    LET t == PeekNoTerm(p)
    IN  IF TrailingSpace(p)
        THEN CASE t \in {"nl", "do", "if", "unless", "while", "until", "and", "or", "then", "end"} -> FALSE
               [] t \in {"(", "[", "::", "->"} -> TRUE
               [] t \in {":", "+", "-", "*", "/", "%", "<<"} -> ~HasTrailingSpace(p)
               [] OTHER -> t \in Reserved \cup Ident \cup ConstName \cup IntegerLit \cup StringLit
                                 \cup InstanceVar \cup GlobalVar \cup {"open", "EOF"}
        ELSE t \in GlobalVar \cup InstanceVar \cup StringLit

(* What follows yield, return, break and next when they have no value.     *)
NoValue(p) == PeekNoTerm(p) \in Term \cup {"unless", "if"} \cup StmtEnd
=============================================================================
