----------------------------- MODULE MCCodeRun -----------------------------
(***************************************************************************)
(* Programs: every construct around every construct.  Around(h) puts h     *)
(* into each place that a construct has for an expression.                 *)
(***************************************************************************)
EXTENDS CodeRun

CONSTANT Irregular      \* also programs for which the code is known to be wrong
R == INSTANCE Regular

a == Ident("a")
b == Ident("b")
risk == Ident("risk")
v == Var("v")

Operators(h) == {
    UnOp("!", h), UnOp("+", h), BinOp("*", h, Num("1")), BinOp("+", a, h), BinOp("+", h, Num("1")),
    And(h, b), And(a, h), Or(h, b), Or(a, h),
    Node("Splat", "", <<h>>), Scope(h, "C"), Node("Range", "true", <<h, b>>), Node("Range", "false", <<a, h>>),
    Node("Array", "", <<a, h, b>>), Node("Hash", "", <<a, h>>),
    Node("Interpolated", "", <<Lit("str"), h>>), Node("RegExp", "", <<h, Lit("str")>>),
    Index(h, <<Num("1")>>), Index(a, <<h>>), Index(a, <<b, h>>), Index(h, <<Node("Splat", "", <<b>>)>>),
    Node("Match", "", <<h, b>>), Node("Command", "", <<h>>), Node("Defined", "", <<BinOp("+", v, Var("w"))>>),
    Node("Defined", "", <<Call(h, "m", <<Var("w")>>)>>)}

Control(h) == {
    If(h, a, b), If(a, h, b), If(a, b, h), If(a, h, Comp(<<>>)), If(BinOp("==", h, Num("1")), a, b),
    If(BinOp("<", a, h), a, b), Comp(<<h, b>>), Comp(<<a, h>>),
    While(h, b), While(a, h), Until(a, h), While(a, Comp(<<If(b, h, Comp(<<>>)), a>>)),
    While(BinOp("<", v, Num("2")), Comp(<<Assign(v, BinOp("+", v, Num("1"))), h>>)),
    Case(<<h>>, <<When(<<a, b>>, risk)>>, b), Case(<<a>>, <<When(<<b, h>>, a), When(<<a>>, risk)>>, Comp(<<>>)),
    Case(<<a>>, <<When(<<b>>, h), When(<<a>>, b)>>, h), Case(<<>>, <<When(<<h>>, a), When(<<b>>, h)>>, b),
    Case(<<h>>, <<When(<<Num("0")>>, a), When(<<Num("1"), Num("2")>>, b)>>, risk),
    Case(<<a>>, <<When(<<Num("1"), Lit("str")>>, h), When(<<Num("2")>>, b)>>, h),
    Case(<<a>>, <<When(<<Num("1")>>, a), When(<<Num("1")>>, h)>>, b), Case(<<>>, <<When(<<a, b>>, h)>>, b),
    Return(h), Break(h), Next(h)}

Begins(h) == {
    Begin(h, <<Rescue(<<>>, <<>>, b)>>, <<>>, <<>>), Begin(risk, <<Rescue(<<>>, <<v>>, h)>>, <<>>, <<>>),
    Begin(risk, <<Rescue(<<Const("C")>>, <<v>>, a), Rescue(<<Const("D"), b>>, <<>>, h)>>, <<>>, <<>>),
    Begin(risk, <<Rescue(<<Const("C")>>, <<>>, a)>>, <<h>>, <<>>),
    Begin(h, <<>>, <<>>, <<b>>), Begin(a, <<>>, <<>>, <<h>>),
    Begin(h, <<Rescue(<<Const("C")>>, <<>>, a)>>, <<>>, <<b>>),
    Begin(Comp(<<If(a, Return(b), Comp(<<>>)), h>>), <<Rescue(<<Const("C")>>, <<v>>, h)>>, <<b>>, <<a>>),
    Begin(a, <<Rescue(<<Const("C")>>, <<Index(b, <<Num("0")>>)>>, a)>>, <<h>>, <<b>>)}

Assignments(h) == {
    Assign(v, h), Assign(v, BinOp("+", v, Num("1"))), Assign(OuterVar("u"), BinOp("+", OuterVar("u"), Num("1"))),
    Assign(Const("C"), h), Assign(Scope(h, "C"), b), Assign(Global("g"), h), Assign(Call(h, "m=", <<>>), b),
    Assign(Index(h, <<Num("1")>>), b), Assign(Index(a, <<h>>), b), Assign(Index(a, <<b>>), h),
    Assign(Index(a, <<h, b>>), b), Assign(Index(a, <<Num("1")>>), h),
    Assign(Index(a, <<Node("Splat", "", <<b>>)>>), h),
    MulAssign(<<v, Var("w")>>, <<h>>), MulAssign(<<v, Index(a, <<b>>)>>, <<b, h>>),
    MulAssign(<<v, Call(h, "m=", <<>>)>>, <<a>>), MulAssign(<<Index(h, <<a, b>>), v>>, <<a, b>>),
    MulAssign(<<v, Index(b, <<Num("0")>>), Const("C")>>, <<h, b>>), MulAssign(<<v, Scope(b, "C")>>, <<a, h, b>>)}

kw(x, e) == [x |-> x, v |-> e]
Calls(h) == {
    Call(h, "m", <<>>), Call(a, "m", <<b, h>>), Call(Lit("self"), "m", <<h>>), Call(h, "risk", <<b>>),
    Send(a, "m", <<b>>, <<kw("k", h)>>, <<>>, <<>>, FALSE, FALSE),
    Send(a, "m", <<>>, <<kw("k", b)>>, <<h>>, <<>>, FALSE, FALSE),
    Send(a, "m", <<b>>, <<>>, <<>>, <<h>>, FALSE, FALSE),
    Send(a, "m", <<Node("Splat", "", <<h>>)>>, <<>>, <<>>, <<>>, TRUE, FALSE),
    Send(h, "m", <<>>, <<>>, <<>>, <<>>, FALSE, TRUE),
    Send(a, "m", <<h>>, <<>>, <<>>, <<>>, FALSE, TRUE),
    Send(a, "m", <<b>>, <<kw("k", h)>>, <<>>, <<b>>, FALSE, FALSE),
    Send(a, "m", <<>>, <<>>, <<h, b>>, <<>>, FALSE, FALSE),
    Node("Yield", "", <<a, h>>), Node("For", "", <<h>>), Node("Proc", "", <<>>),
    Node("MethodDef", "f", <<>>), Node("MethodDef", "f", <<h>>), Node("ClassDef", "C", <<h, b>>),
    Node("SingletonClassDef", "", <<h>>), Node("AliasMethod", "", <<Lit("sym"), Lit("sym")>>)}

Around(h) == Operators(h) \cup Control(h) \cup Begins(h) \cup Assignments(h) \cup Calls(h)

(* Those that change the flow of control, for one more level.              *)
Core(h) == {
    If(a, h, Comp(<<>>)), Comp(<<h, b>>), While(a, Comp(<<h, b>>)), Return(h), Break(h), Next(h),
    Begin(h, <<Rescue(<<Const("C")>>, <<>>, a)>>, <<>>, <<b>>), Begin(h, <<>>, <<>>, <<b>>),
    Begin(h, <<Rescue(<<>>, <<>>, a)>>, <<b>>, <<>>), Begin(risk, <<Rescue(<<Const("C")>>, <<v>>, h)>>, <<>>, <<b>>)}

(* A tree as the last statement of a method, as another statement of a     *)
(* block, and in a loop; and as the default of a parameter.                *)
Program(kind, defaults, t) == [kind |-> kind, defaults |-> defaults, body |-> t]
Placed(t) == {Program("Method", <<>>, t), Program("Block", <<>>, Comp(<<t, b>>)), Program("Method", <<>>, While(a, t))}
Defaults(t) == {Program("Method", <<kw("v", t), kw("w", v)>>, Var("w"))}
Simple == Around(a)
Kept(p) ==
    \/ Irregular
    \/ /\ R!Regular(p.body, R!Outermost)
       /\ \A i \in DOMAIN p.defaults : R!Regular(p.defaults[i].v, R!Outermost)
Family(trees) == {p \in trees : Kept(p)}
MCPrograms ==
    {Family(UNION {Placed(t) : t \in Around(h)}) : h \in Simple \cup UNION {Core(t) : t \in Core(risk)}} \cup {Family(UNION {Defaults(t) : t \in Simple})}
=============================================================================
