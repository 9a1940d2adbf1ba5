------------------------------- MODULE Parser -------------------------------
(***************************************************************************)
(* The parse functions of parser.rs, from statements down to primary       *)
(* expressions.  Names follow the code without "parse_".                   *)
(***************************************************************************)
EXTENDS ParserState

(* The functions that call each other, by name and with their argument.    *)
RECURSIVE Parse(_, _, _)
CompStmt(p) == Parse("CompStmt", "", p)
Expr(p) == Parse("Expr", "", p)
Arg(p) == Parse("Arg", "", p)
MethodCall(p) == Parse("MethodCall", "", p)
Primary(p) == Parse("Primary", FALSE, p)
PrimaryBare(p) == Parse("Primary", TRUE, p)      \* without arguments after a name
MulRhs(p, close) == Parse("MulRhs", close, p)
Arguments(p, close) == Parse("Arguments", close, p)
FormalParams(p, terminator) == Parse("FormalParams", terminator, p)
Block(p) == Parse("Block", "", p)
PrimaryMethod(recv, safe, p) == Parse("PrimaryMethod", [recv |-> recv, safe |-> safe], p)
Begin(p) == Parse("Begin", "", p)
IfThen(p) == Parse("IfThen", "", p)
Construct(t, p) == Parse("Construct", t, p)

RECURSIVE Stmts(_, _), Modified(_, _), LogicalMore(_, _), MulLhs(_, _), LhsMore(_, _), MulRhsMore(_, _, _), Binary(_, _),
          BinaryMore(_, _, _), UnaryMinus(_), Exponent(_), Unary(_), Postfix(_, _), ArgumentsMore(_, _, _),
          Pairs(_, _), FormalMore(_, _, _, _)

(* COMP_STMT: statements up to the end of a construct.                     *)
Stmts(done, p) ==
    IF Peek(p) \in StmtEnd THEN Done(Comp(done), p)
    ELSE Then(Then(Then(Arg(p), MulLhs), LogicalMore), LAMBDA e, q :
         Then(Modified(e, q), LAMBDA n, s :
            IF PeekNoTerm(s) \in Term THEN Stmts(Append(done, n), ConsumeTerm(s))
            ELSE Done(Comp(Append(done, n)), s)))

(* EXPR: `and` and `or` associate to the left; an operand may be a multiple*)
(* assignment.                                                             *)
Not(p) == Then(Arg(p), MulLhs)
LogicalMore(n, p) ==
    IF PeekNoTerm(p) \in {"and", "or"}
    THEN Then(Not(Take(p)), LAMBDA rhs, q :
            LogicalMore(BinOp(IF AtNoTerm(p, "and") THEN "&&" ELSE "||", n, rhs), q))
    ELSE Done(n, p)
ParseExpr(p) == Then(Not(p), LogicalMore)

Modified(n, p) ==
    LET t == PeekNoTerm(p)
    IN  IF t \notin {"if", "unless", "while", "until"} THEN Done(n, p)
        ELSE Then(Expr(Take(p)), LAMBDA cond, q :
            Modified(CASE t = "if" -> If(cond, n, Comp(<<>>))
                       [] t = "unless" -> If(cond, Comp(<<>>), n)
                       [] OTHER -> While(cond, n, t), q))

(* The left sides after the first, while accessory assignments are         *)
(* suppressed, and the assignment.                                         *)
LhsMore(lhs, p) ==
    IF AtNoTerm(p, "=") THEN Done(lhs, p)
    ELSE Then(MethodCall(p), LAMBDA n, q :
            IF AtNoTerm(q, ",") THEN LhsMore(Append(lhs, n), Take(q)) ELSE Done(Append(lhs, n), q))

(* The right sides; the flag is set for all that is parsed within them.    *)
ParseMulRhs_FlagKept(p, close) == MulRhsMore(<<>>, [p EXCEPT !.mul = TRUE], close)
ParseMulRhs(p, close) ==
    Then(MulRhsMore(<<>>, [p EXCEPT !.mul = TRUE], close), LAMBDA l, q : Done(l, [q EXCEPT !.mul = p.mul]))
MulRhsMore(l, p, close) ==
    IF close # "" /\ At(p, close) THEN Done(l, Take(p))
    ELSE Then(IF At(p, "*") THEN Then(Arg(Take(p)), LAMBDA e, q : Done(Splat(e), q)) ELSE Arg(p), LAMBDA n, q :
            IF At(q, ",") THEN MulRhsMore(Append(l, n), Take(q), close)
            ELSE IF close = "" THEN Done(Append(l, n), q) ELSE Expect(q, close, Append(l, n)))
MulRhsIfAllowed(p) ==
    IF p.mul THEN Then(Arg(p), LAMBDA n, q : Done(<<n>>, q)) ELSE MulRhs(p, "")

MulLhs(n, p) ==
    IF ~AtNoTerm(p, ",") THEN Done(n, p)
    ELSE Then(LhsMore(<<n>>, [Take(p) EXCEPT !.acc = TRUE]), LAMBDA lhs, q :
         IF ~AtNoTerm(q, "=") THEN Fail(q)
         ELSE Then(MulRhsIfAllowed([Take(q) EXCEPT !.acc = p.acc]), LAMBDA rhs, s :
                CheckEach(s, lhs, MulAssign(lhs, rhs))))

----------------------------------------------------------------------------
(* Assignments.  The left side becomes a local variable after the right    *)
(* side has been parsed.                                                   *)
AssignWithOp(lhs, p) ==
    LET op == AssignOp[PeekNoTerm(p)]
        var == IF lhs.k = "Ident" /\ op \in {"||", "&&"} THEN LocalVar(lhs.x) ELSE lhs
    IN  Then(Arg(Take(p)), LAMBDA rhs, q :
            CheckLhs(q, lhs, IF op \in {"||", "&&"} THEN BinOp(op, var, MulAssign(<<var>>, <<rhs>>))
                             ELSE MulAssign(<<lhs>>, <<BinOp(op, lhs, rhs)>>)))

AccessoryAssign(lhs, p) ==
    CASE ~p.acc /\ AtNoTerm(p, "=") ->
           Then(MulRhsIfAllowed(Take(p)), LAMBDA rhs, q : CheckLhs(q, lhs, MulAssign(<<lhs>>, rhs)))
      [] ~p.acc /\ PeekNoTerm(p) \in DOMAIN AssignOp -> AssignWithOp(lhs, p)
      [] OTHER -> Done(lhs, p)

ArgAssign(lhs, p) ==
    CASE AtNoTerm(p, "=") -> Then(MulRhs(Take(p), ""), LAMBDA rhs, q : CheckLhs(q, lhs, MulAssign(<<lhs>>, rhs)))
      [] PeekNoTerm(p) \in DOMAIN AssignOp -> AssignWithOp(lhs, p)
      [] OTHER -> Done(lhs, p)

Ternary(cond, p) ==
    IF ~AtNoTerm(p, "?") THEN Done(cond, p)
    ELSE Then(Arg(Take(p)), LAMBDA then, q :
         IF ~AtNoTerm(q, ":") THEN Fail(q)
         ELSE Then(Arg(Take(q)), LAMBDA else, s : Done(If(cond, then, else), s)))

RangeArg(lhs, p) ==
    IF PeekNoTerm(p) \notin LineTerm /\ Peek(p) \in {"..", "..."}
    THEN Then(Binary(Take(p), 1), LAMBDA rhs, q : Done(Node("Range", Peek(p), <<lhs, rhs>>), q))
    ELSE Done(lhs, p)

(* ARG.  defined? looks for a parenthesis and goes back when there is one. *)
ParseArg(p) ==
    IF At(p, "defined?") /\ ~AtNoTerm(Take(p), "(")
    THEN Then(Arg(Take(p)), LAMBDA n, q : Done(Node("Defined", "", <<n>>), q))
    ELSE Then(Then(Then(Binary(IF At(p, "defined?") THEN Restored(p, "", "(") ELSE p, 1), RangeArg), Ternary), ArgAssign)

Binary(p, i) ==
    IF i > Len(Levels) THEN UnaryMinus(p)
    ELSE Then(Binary(p, i + 1), LAMBDA lhs, q : BinaryMore(lhs, q, i))
BinaryMore(lhs, p, i) ==
    LET op == PeekNoTerm(p)
    IN  IF op \notin Levels[i] THEN Done(lhs, p)
        ELSE Then(Binary(Take(p), i + 1), LAMBDA rhs, q :
            IF i = NonAssoc THEN Done(Operator(op, lhs, rhs), q) ELSE BinaryMore(Operator(op, lhs, rhs), q, i))

(* A minus before a number belongs to the literal: the parser goes back to *)
(* the minus, but the buffer still has the number.                         *)
UnaryMinus(p) ==
    IF ~At(p, "-") THEN Then(Exponent(p), AccessoryAssign)
    ELSE IF Peek(Take(p)) \in IntegerLit THEN Exponent(Restored(p, Peek(Take(p)), ""))
    ELSE Then(UnaryMinus(Take(p)), LAMBDA n, q : AccessoryAssign(Node("UnOp", "-", <<n>>), q))

Exponent(p) ==
    Then(Unary(p), LAMBDA lhs, q :
        IF AtNoTerm(q, "**") THEN Then(Exponent(Take(q)), LAMBDA rhs, s : Done(BinOp("**", lhs, rhs), s))
        ELSE Done(lhs, q))

Unary(p) ==
    IF Peek(p) \in {"~", "!", "+"}
    THEN Then(Unary(Take(p)), LAMBDA n, q : Done(Node("UnOp", Peek(p), <<n>>), q))
    ELSE MethodCall(p)

----------------------------------------------------------------------------
(* Arguments of a call up to close, or up to where no comma follows.       *)
Closed(p, close) == IF close = "" THEN p ELSE Optional(p, close)
NextArgument(a, p, close) ==
    IF ~At(p, ",") THEN Done(a, Closed(p, close))
    ELSE IF a.block # <<>> THEN Fail(p)
    ELSE ArgumentsMore(a, Take(p), close)
ArgumentsMore(a, p, close) ==
    CASE close # "" /\ At(p, close) -> Done(a, Take(p))
      [] At(p, "*") -> Then(Arg(Take(p)), LAMBDA n, q :
            NextArgument([a EXCEPT !.args = Append(@, Splat(n))], q, close))
      [] At(p, "**") -> Then(Arg(Take(p)), LAMBDA n, q :
            NextArgument([a EXCEPT !.kwrest = Append(@, n)], q, close))
      [] At(p, "&") -> Then(Arg(Take(p)), LAMBDA n, q : NextArgument([a EXCEPT !.block = <<n>>], q, close))
      [] OTHER -> Then(Arg(p), LAMBDA n, q :
            CASE At(q, "=>") -> Then(Arg(Take(q)), LAMBDA val, s :
                    Then(IF At(s, ",") THEN Pairs(<<n, val>>, Take(s)) ELSE Done(<<n, val>>, s), LAMBDA l, s2 :
                        Done([a EXCEPT !.args = Append(@, Node("Hash", "", l))], Closed(s2, close))))
              [] n.k \in {"Ident", "LocalVar"} /\ AtNoTerm(q, ":") -> Then(Arg(Take(q)), LAMBDA val, s :
                    NextArgument([a EXCEPT !.kw = Append(@, Node("Keyword", n.x, <<val>>))], s, close))
              [] OTHER -> NextArgument([a EXCEPT !.args = Append(@, n)], q, close))
(* key => value pairs without braces.                                      *)
Pairs(l, p) ==
    Then(Arg(p), LAMBDA key, q : Then(Expect(q, "=>", key), LAMBDA n, s : Then(Arg(s), LAMBDA val, s2 :
        IF At(s2, ",") THEN Pairs(l \o <<key, val>>, Take(s2)) ELSE Done(l \o <<key, val>>, s2))))

----------------------------------------------------------------------------
(* Formal parameters; state is the kind of the last one.                   *)
Kinds == [req |-> 1, opt |-> 2, rest |-> 3, post |-> 4, key |-> 5, kwrest |-> 6]
FormalNext(l, p, state, terminator) ==
    IF AtNoTerm(p, ",") THEN FormalMore(l, Take(p), state, terminator) ELSE Done(l, p)
Formal(k, l, p, x, c, state, terminator) ==
    Then(NewParam(p, x, Append(l, Node(k, x, c))), LAMBDA m, q : FormalNext(m, q, state, terminator))
FormalMore(l, p, state, terminator) ==
    LET name == Got(p)
        after == Take(p)
    IN  CASE At(p, "&") ->
               IF Got(after) \in Ident THEN NewParam(Take(after), Got(after), Append(l, Node("BlockParam", Got(after), <<>>)))
               ELSE Fail(p)
          [] At(p, "*") ->
               IF state >= Kinds.rest THEN Fail(p)
               ELSE IF Peek(after) \in Ident THEN Formal("Rest", l, Take(after), Got(after), <<>>, Kinds.rest, terminator)
               ELSE FormalNext(Append(l, Node("RestDiscard", "", <<>>)), after, Kinds.rest, terminator)
          [] At(p, "**") ->
               IF Got(after) \notin Ident \/ state >= Kinds.kwrest THEN Fail(p)
               ELSE Formal("KwRest", l, Take(after), Got(after), <<>>, Kinds.kwrest, terminator)
          [] ~At(p, "&") /\ ~At(p, "*") /\ ~At(p, "**") /\ name \notin Ident -> Fail(p)
          [] name \in Ident /\ At(after, "=") -> Then(Arg(Take(after)), LAMBDA d, q :
               IF state > Kinds.opt THEN Fail(q) ELSE Formal("Opt", l, q, name, <<d>>, Kinds.opt, terminator))
          [] name \in Ident /\ ~At(after, "=") /\ AtNoTerm(after, ":") ->
               Then(IF PeekNoTerm(Take(after)) \in {",", terminator, "nl"} THEN Done(<<>>, Take(after))
                    ELSE Then(Arg(Take(after)), LAMBDA d, q : Done(<<d>>, q)), LAMBDA d, q :
                    IF state = Kinds.kwrest THEN Fail(q) ELSE Formal("Key", l, q, name, d, Kinds.key, terminator))
          [] OTHER ->
               IF state > Kinds.post THEN Fail(p)
               ELSE IF state = Kinds.req THEN Formal("Req", l, after, name, <<>>, Kinds.req, terminator)
               ELSE Formal("Post", l, after, name, <<>>, Kinds.post, terminator)

DefParams(p) ==
    IF PeekNoTerm(p) \in Term THEN Done(<<>>, ConsumeTerm(p))
    ELSE IF ~At(p, "(") THEN Then(FormalParams(p, ")"), LAMBDA l, q : Done(l, ConsumeTerm(q)))
    ELSE IF At(Take(p), ")") THEN Done(<<>>, ConsumeTerm(Take(Take(p))))
    ELSE Then(FormalParams(Take(p), ")"), LAMBDA l, q : Then(Expect(q, ")", l), LAMBDA m, s : Done(m, ConsumeTerm(s))))

----------------------------------------------------------------------------
(* The body of a block, method or class, in a context of its own.          *)
InContext(p, kind, Body(_)) ==
    Then(Body(Push(p, kind)), LAMBDA n, q : Done(Scoped(n, Lvars(q)), Pop(q)))
Proc(params, body) == Node("Proc", "", <<Node("params", "", params), body>>)
BodyUpTo(params, t, p) ==
    Then(CompStmt(p), LAMBDA body, q : Expect(q, t, Proc(params, body)))

BlockParams(p) ==
    CASE At(p, "|") /\ At(Take(p), "|") -> Done(<<>>, Take(Take(p)))
      [] At(p, "|") /\ ~At(Take(p), "|") ->
           Then(FormalParams(Take(p), "|"), LAMBDA l, q : Done(l, Optional(q, "|")))
      [] OTHER -> Done(<<>>, Optional(p, "||"))
ParseBlock(p) ==
    LET t == PeekNoTerm(p)
        Body(q) == Then(BlockParams(q), LAMBDA l, s : BodyUpTo(l, IF t = "do" THEN "end" ELSE "}", s))
    IN  IF t \notin {"do", "{"} THEN Done(<<>>, p)
        ELSE Then(InContext([Take(p) EXCEPT !.mul = FALSE], "Block", Body), LAMBDA n, q :
                Done(<<n>>, [q EXCEPT !.mul = p.mul]))

(* Parameters of a lambda literal are required ones.                       *)
RECURSIVE LambdaMore(_, _)
LambdaMore(l, p) ==
    IF Got(p) \notin Ident THEN Fail(p)
    ELSE Then(NewParam(Take(p), Got(p), Append(l, Node("Req", Got(p), <<>>))), LAMBDA m, q :
            IF At(q, ",") THEN LambdaMore(m, Take(q)) ELSE Expect(q, ")", m))
LambdaParams(p) ==
    CASE At(p, "(") -> IF At(Take(p), ")") THEN Done(<<>>, Take(Take(p))) ELSE LambdaMore(<<>>, Take(p))
      [] Peek(p) \in Ident -> NewParam(Take(p), Got(p), <<Node("Req", Got(p), <<>>)>>)
      [] OTHER -> Done(<<>>, p)
Lambda(p) ==
    InContext(p, "Block", LAMBDA q : Then(LambdaParams(q), LAMBDA l, s :
        CASE At(s, "{") -> BodyUpTo(l, "}", Take(s))
          [] At(s, "do") -> BodyUpTo(l, "end", Take(s))
          [] OTHER -> Fail(s)))

(* Calls.                                                                  *)
WithBlock(a, p) ==
    Then(Block(p), LAMBDA b, q :
        CASE b = <<>> -> Done(a, q)
          [] a.block # <<>> -> Fail(q)
          [] OTHER -> Done([a EXCEPT !.block = b], q))
ArglistBlock(p) == Then(Arguments(p, ""), WithBlock)
Command(x, p) == Then(ArglistBlock(p), LAMBDA a, q : Done(Send(Self, x, a, FALSE), q))
FunctionArgs(x, p) ==
    IF AtNoTerm(p, "(")
    THEN Then(Then(Arguments(Take(p), ")"), WithBlock), LAMBDA a, q : Done(Send(Self, x, a, FALSE), q))
    ELSE Then(Block(p), LAMBDA b, q :
            Done(IF b = <<>> THEN Ident_(x) ELSE Send(Self, x, [NoArgs EXCEPT !.block = b], FALSE), q))

MethodName(p) ==
    IF Got(p) \in Ident \cup ConstName \cup Reserved THEN Done(Got(p), Take(p)) ELSE ParseOpDefinable(Got(p), Take(p))
ParsePrimaryMethod(recv, safe, p) ==
    LET target == IF recv.k = "Ident" THEN Send(Self, recv.x, NoArgs, FALSE) ELSE recv
    IN  Then(MethodName(p), LAMBDA x, q :
            IF ~AtNoTerm(q, "(") /\ IsCommand(q)
            THEN Then(ArglistBlock(q), LAMBDA a, s : Done(Send(recv, x, a, FALSE), s))
            ELSE Then(Then(IF AtNoTerm(q, "(") THEN Arguments(Take(q), ")") ELSE Done(NoArgs, q), WithBlock),
                      LAMBDA a, s : Done(Send(target, x, a, safe), s)))

Postfix(n, p) ==
    CASE At(p, ".") -> Then(PrimaryMethod(n, FALSE, Take(p)), Postfix)
      [] AtNoTerm(p, "&.") -> Then(PrimaryMethod(n, TRUE, Take(p)), Postfix)
      [] AtNoTerm(p, "::") ->
           IF Peek(Take(p)) \in ConstName THEN Postfix(Node("Scope", Peek(Take(p)), <<n>>), Take(Take(p)))
           ELSE Then(PrimaryMethod(n, FALSE, Take(p)), Postfix)
      [] AtNoTerm(p, "[") ->
           Then(MulRhs(Take(p), "]"), LAMBDA l, q : Postfix(Node("Index", "", <<n>> \o l), q))
      [] OTHER -> Done(n, p)

Yield(p) ==
    LET r == IF At(p, "(") THEN Then(ArglistBlock(Take(p)), LAMBDA a, q : Expect(q, ")", a)) ELSE ArglistBlock(p)
    IN  IF NoValue(p) THEN Done(Node("Yield", "", <<Args(NoArgs)>>), p)
        ELSE Then(r, LAMBDA a, q : Done(Node("Yield", "", <<Args(a)>>), q))

----------------------------------------------------------------------------
(* Literals made of parts.  After the code in a string or a regular        *)
(* expression the lexer goes on reading it where the parser is.            *)
RECURSIVE Interpolated(_, _, _)
Interpolated(k, l, p) ==
    CASE p.at > Len(p.text) -> Fail(p)
      [] p.text[p.at] = "close" -> Done(Node(k, "", l), Moved(p, p.at + 1))
      [] p.text[p.at] = "open" /\ At(Moved(p, p.at + 1), "{") ->
           Then(CompStmt(Take(Moved(p, p.at + 1))), LAMBDA n, q :
           Then(Expect(q, "}", n), LAMBDA m, s : Interpolated(k, Append(l, m), s)))
      [] OTHER -> Fail(p)

MethodDefExt(t, p) ==
    IF ~TrailingSpace(p) /\ AtNoTerm(p, "=") THEN Done(t \o "=", Take(p)) ELSE Done(t, p)
MethodDefName(p) ==
    IF Got(p) \in Reserved \cup Ident \cup ConstName THEN MethodDefExt(Got(p), Take(p))
    ELSE ParseOpDefinable(Got(p), Take(p))

Symbol(p) ==
    LET t == Got(p)
        name == CASE t \in ConstName \cup Ident -> MethodDefExt(t, Take(p))
                  [] t \in CanBeSymbol -> Done(t, Take(p))
                  [] OTHER -> ParseOpDefinable(t, Take(p))
    IN  IF TrailingSpace(p) THEN Fail(p) ELSE Then(name, LAMBDA x, q : Done(Node("Symbol", x, <<>>), q))

(* A name may be a key of its own or begin an expression: the parser reads *)
(* on to see a colon, and goes back when there is none.  The lexer still   *)
(* has the token after the name in its buffer then.                        *)
RECURSIVE HashMore(_, _)
HashMore(l, p) ==
    LET q == Take(p)
        key == IF Peek(p) \in CanBeSymbol /\ At(q, ":") THEN Done(Node("Symbol", Got(p), <<>>), Take(q))
               ELSE Then(IF Peek(p) \in CanBeSymbol THEN Arg(Restored(p, Peek(q), "")) ELSE Arg(p),
                         LAMBDA n, s : Expect(s, "=>", n))
    IN  IF At(p, "}") THEN Done(Node("Hash", "", l), q)
        ELSE Then(key, LAMBDA n, s : Then(Arg(s), LAMBDA val, s2 :
                IF At(s2, ",") THEN HashMore(l \o <<n, val>>, Take(s2))
                ELSE Expect(s2, "}", Node("Hash", "", l \o <<n, val>>))))

----------------------------------------------------------------------------
(* Constructs that begin with a keyword; p is after it.                    *)
ThenWord(n, p) == IF PeekNoTerm(p) \in Term THEN Done(n, Optional(ConsumeTerm(p), "then")) ELSE Expect(p, "then", n)
DoWord(n, p) == IF PeekNoTerm(p) \in Term THEN Done(n, ConsumeTerm(p)) ELSE Expect(p, "do", n)
End(n, p) == Expect(p, "end", n)
ElseBody(p) == IF At(p, "else") THEN CompStmt(Take(p)) ELSE Done(Comp(<<>>), p)

ParseIfThen(p) ==
    Then(Then(Expr(p), ThenWord), LAMBDA cond, q : Then(CompStmt(q), LAMBDA then, s :
    Then(IF At(s, "elsif") THEN IfThen(Take(s)) ELSE ElseBody(s), LAMBDA else, s2 :
        Done(If(cond, then, else), s2))))
Unless(p) ==
    Then(Then(Expr(p), ThenWord), LAMBDA cond, q : Then(CompStmt(q), LAMBDA body, s :
    Then(ElseBody(s), LAMBDA else, s2 : Done(If(cond, else, body), s2))))
WhileLoop(p, t) ==
    Then(Then(Expr(p), DoWord), LAMBDA cond, q : Then(CompStmt(q), LAMBDA body, s : End(While(cond, body, t), s)))

RECURSIVE ForNames(_, _)
ForNames(l, p) ==
    IF Got(p) \notin Ident THEN Fail(p)
    ELSE LET q == AddLocalVarIfNew(Take(p), Got(p))
         IN  IF At(q, ",") THEN ForNames(Append(l, Got(p)), Take(q)) ELSE Expect(q, "in", Append(l, Got(p)))
(* The parameters of the body are dummies that the variables are set from. *)
For(p) ==
    Then(ForNames(<<>>, p), LAMBDA names, q : Then(Then(Expr(q), DoWord), LAMBDA iter, s :
    Then(InContext(s, "For", LAMBDA s2 : Then(CompStmt(s2), LAMBDA b, s3 : NewParam(s3, "_0", b))), LAMBDA body, s4 :
        End(Node("For", "", [i \in DOMAIN names |-> Ident_(names[i])] \o <<iter, body>>), s4))))

RECURSIVE Whens(_, _)
Whens(l, p) ==
    IF ~At(p, "when") THEN Done(l, p)
    ELSE Then(Then(MulRhs(Take(p), ""), ThenWord), LAMBDA elems, q : Then(CompStmt(q), LAMBDA body, s :
            Whens(Append(l, Node("When", "", Append(elems, body))), s)))
Case(p) ==
    Then(IF At(p, "when") THEN Done(<<>>, p) ELSE Then(Expr(p), LAMBDA n, q : Done(<<n>>, q)), LAMBDA subject, q :
    Then(Whens(<<>>, ConsumeTerm(q)), LAMBDA whens, s : Then(ElseBody(s), LAMBDA else, s2 :
        End(Node("Case", "", <<Node("subject", "", subject), Node("whens", "", whens), else>>), s2))))

(* return, break and next: several values are an array.                    *)
RECURSIVE Values(_, _)
Values(l, p) == Then(Arg(p), LAMBDA n, q : IF AtNoTerm(q, ",") THEN Values(Append(l, n), Take(q)) ELSE Done(Append(l, n), q))
Jump(p, t) ==
    IF NoValue(p) THEN Done(Node(t, "", <<Nil>>), p)
    ELSE Then(Values(<<>>, p), LAMBDA l, q : Done(Node(t, "", <<IF Len(l) = 1 THEN l[1] ELSE Node("Array", "", l)>>), q))

RECURSIVE Rescues(_, _)
Rescues(l, p) ==
    LET q == Take(p)
        list == IF AtNoTerm(q, "=>") THEN Done(<<>>, q) ELSE MulRhs(q, "")
        Assigned(elems, s) ==
            IF ~AtNoTerm(s, "=>") THEN ThenWord([list |-> elems, assign |-> <<>>], s)
            ELSE Then(Then(PrimaryBare(Take(s)), LAMBDA n, s2 : CheckLhs(s2, n, [list |-> elems, assign |-> <<n>>])),
                      ThenWord)
        head == IF PeekNoTerm(q) \in Term THEN Done([list |-> <<>>, assign |-> <<>>], ConsumeTerm(q))
                ELSE Then(list, Assigned)
    IN  IF ~At(p, "rescue") THEN Done(l, p)
        ELSE Then(head, LAMBDA h, s : Then(CompStmt(s), LAMBDA body, s2 :
                Rescues(Append(l, Node("Rescue", "",
                    <<Node("list", "", h.list), Node("assign", "", h.assign), body>>)), s2)))
Clause(t, p) ==
    IF At(p, t) THEN Then(CompStmt(Take(p)), LAMBDA n, q : Done(<<n>>, q)) ELSE Done(<<>>, p)
ParseBegin(p) ==
    Then(CompStmt(p), LAMBDA body, q : Then(Rescues(<<>>, q), LAMBDA rescue, s :
    Then(Clause("else", s), LAMBDA else, s2 : Then(Clause("ensure", s2), LAMBDA ensure, s3 :
        End(Node("Begin", "", <<body, Node("rescue", "", rescue), Node("else", "", else), Node("ensure", "", ensure)>>), s3)))))

(* def; a name and a dot, or a variable or self, make a singleton method.  *)
Def(p) ==
    LET t == Got(p)
        q == Take(p)
        singleton == t \in GlobalVar \cup InstanceVar \cup {"self"} \/ (t \in Ident \cup ConstName /\ AtNoTerm(q, "."))
        name == CASE singleton -> MethodDefName(OptionalNoTerm(q, "."))
                  [] ~singleton /\ t \in Reserved \cup Ident \cup ConstName -> MethodDefExt(t, q)
                  [] OTHER -> ParseOpDefinable(t, q)
    IN  Then(name, LAMBDA x, s : InContext(s, "Method", LAMBDA s2 :
            Then(DefParams(s2), LAMBDA params, s3 : Then(Begin(s3), LAMBDA body, s4 :
                Done(Node(IF singleton THEN "SingletonMethodDef" ELSE "MethodDef", x,
                          <<Node("params", "", params), body>>), s4)))))

RECURSIVE ClassPath(_, _)
ClassPath(n, p) ==
    CASE At(p, ".") -> Then(PrimaryMethod(n, FALSE, Take(p)), ClassPath)
      [] AtNoTerm(p, "::") ->
           IF Got(Take(p)) \in ConstName THEN ClassPath(Node("Scope", Got(Take(p)), <<n>>), Take(Take(p))) ELSE Fail(p)
      [] OTHER -> Done(n, p)
ClassBody(k, x, parts, p) ==
    InContext(ConsumeTerm(p), "Class", LAMBDA q : Then(Begin(q), LAMBDA body, s : Done(Node(k, x, Append(parts, body)), s)))
Class(p, k) ==
    Then(Then(PrimaryBare(p), ClassPath), LAMBDA path, q :
        LET super == IF AtNoTerm(q, "<") THEN IF k = "ModuleDef" THEN Fail(q) ELSE Expr(Take(q)) ELSE Done(Nil, q)
        IN  IF path.k \notin {"Const", "Scope"} THEN Fail(q)
            ELSE Then(super, LAMBDA n, s : ClassBody(k, path.x, <<IF path.k = "Scope" THEN path.c[1] ELSE Nil, n>>, s)))
SingletonClass(p) == Then(Expr(p), LAMBDA n, q : ClassBody("SingletonClassDef", "", <<n>>, q))

AliasName(p) ==
    CASE AtNoTerm(p, ":") -> Symbol(Take(p))
      [] PeekNoTerm(p) \in GlobalVar -> Done(Node("Symbol", Got(p), <<>>), Take(p))
      [] OTHER -> Then(MethodDefName(p), LAMBDA x, q : Done(Node("Symbol", x, <<>>), q))
Alias(p) ==
    Then(AliasName(p), LAMBDA new, q : Then(AliasName(q), LAMBDA old, s : Done(Node("AliasMethod", "", <<new, old>>), s)))

----------------------------------------------------------------------------
(* Primary expressions.  A name is a local variable, a call with arguments *)
(* or a block, or stands alone.                                            *)
Name(t, p, bare) ==
    CASE TrailingLParen(p) -> FunctionArgs(t, p)
      [] ~TrailingLParen(p) /\ IsLocalVar(p, t) -> Done(LocalVar(t), p)
      [] ~TrailingLParen(p) /\ ~IsLocalVar(p, t) ->
           CASE AtNoTerm(p, ",") -> Done(Ident_(t), p)
             [] PeekNoTerm(p) \in {"{", "do"} -> FunctionArgs(t, p)
             [] OTHER -> IF ~bare /\ IsCommand(p) THEN Command(t, p) ELSE Done(Ident_(t), p)
Constant(t, p, bare) ==
    CASE TrailingLParen(p) -> FunctionArgs(t, p)
      [] ~TrailingLParen(p) /\ ~bare /\ IsCommand(p) -> Command(t, p)
      [] OTHER -> Done(Node("Const", t, <<>>), p)

Literal(t, p) ==
    CASE t \in InstanceVar -> Done(Node("InstanceVar", t, <<>>), p)
      [] t \in GlobalVar -> Done(Node("GlobalVar", t, <<>>), p)
      [] t \in IntegerLit -> Done(Node("Integer", t, <<>>), p)
      [] t \in StringLit -> Done(Node("String", t, <<>>), IF AtNoTerm(p, t) THEN Take(p) ELSE p)
      [] t \in {"true", "false", "nil", "self"} ->
           Done(IF t = "nil" THEN Nil ELSE IF t = "self" THEN Self ELSE Node("Bool", t, <<>>), p)
      [] t = "-" -> IF Got(p) \in IntegerLit THEN Done(Node("Integer", "-" \o Got(p), <<>>), Take(p)) ELSE Fail(p)
      [] t = "open" -> Interpolated("InterporatedString", <<>>, Moved(p, p.at - 1))

Bracketed(t, p) ==
    CASE t = "(" -> Then(CompStmt(p), LAMBDA n, q : Expect(q, ")", n))
      [] t = "[" -> Then(MulRhs(p, "]"), LAMBDA l, q : Done(Node("Array", "", l), q))
      [] t = "{" -> HashMore(<<>>, p)
      [] t = "/" -> Interpolated("RegExp", <<>>, p)
      [] t = ":" -> Symbol(p)
      [] t = "->" -> Lambda(p)
      [] t = "::" -> IF Got(p) \in ConstName THEN Done(Node("ConstTop", Got(p), <<>>), Take(p)) ELSE Fail(p)

ParseConstruct(t, p) ==
    CASE t = "if" -> Then(IfThen(p), End)
      [] t = "unless" -> Then(Unless(p), End)
      [] t \in {"while", "until"} -> WhileLoop(p, t)
      [] t = "for" -> For(p)
      [] t = "case" -> Case(p)
      [] t = "begin" -> Begin(p)
      [] t = "def" -> Def(p)
      [] t = "class" -> IF IsMethodContext(p) THEN Fail(p) ELSE IF At(p, "<<") THEN SingletonClass(Take(p)) ELSE Class(p, "ClassDef")
      [] t = "module" -> IF IsMethodContext(p) THEN Fail(p) ELSE Class(p, "ModuleDef")
      [] t \in {"return", "break", "next"} -> Jump(p, t)
      [] t = "alias" -> Alias(p)
      [] t = "defined?" ->
           IF ~AtNoTerm(p, "(") THEN Fail(p)
           ELSE Then(Expr(Take(p)), LAMBDA n, q : Expect(q, ")", Node("Defined", "", <<n>>)))

ParsePrimary(p, bare) ==
    LET t == Got(p)
        q == Take(p)
    IN  CASE t \in Ident -> Name(t, q, bare)
          [] t \in ConstName -> Constant(t, q, bare)
          [] t \in {"(", "[", "{", "/", ":", "->", "::"} -> Bracketed(t, q)
          [] t \in InstanceVar \cup GlobalVar \cup IntegerLit \cup StringLit
                    \cup {"true", "false", "nil", "self", "-", "open"} -> Literal(t, q)
          [] t \in {"if", "unless", "while", "until", "for", "case", "begin", "def", "class", "module", "return",
                    "break", "next", "alias", "defined?"} -> Construct(t, q)
          [] OTHER -> Fail(q)

ParseMethodCall(p) ==
    IF At(p, "yield") THEN Yield(Take(p)) ELSE Then(Primary(p), Postfix)

Parse(f, x, p) ==
    CASE f = "CompStmt" -> Stmts(<<>>, p)
      [] f = "Expr" -> ParseExpr(p)
      [] f = "Arg" -> ParseArg(p)
      [] f = "MethodCall" -> ParseMethodCall(p)
      [] f = "Primary" -> ParsePrimary(p, x)
      [] f = "MulRhs" -> ParseMulRhs(p, x)
      [] f = "Arguments" -> ArgumentsMore(NoArgs, p, x)
      [] f = "FormalParams" -> FormalMore(<<>>, p, Kinds.req, x)
      [] f = "Block" -> ParseBlock(p)
      [] f = "PrimaryMethod" -> ParsePrimaryMethod(x.recv, x.safe, p)
      [] f = "Begin" -> ParseBegin(p)
      [] f = "IfThen" -> ParseIfThen(p)
      [] f = "Construct" -> ParseConstruct(x, p)

(* A whole program, in a context of kind Class.                            *)
Program(text) ==
    Then(CompStmt(Push([text |-> text, at |-> 1, skip |-> "", buf |-> "", acc |-> FALSE, mul |-> FALSE,
                        scopes |-> <<>>], "Class")),
         LAMBDA n, p : IF At(p, "EOF") THEN Done(Scoped(n, Lvars(p)), p) ELSE Fail(p))
=============================================================================
