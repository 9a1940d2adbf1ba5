------------------------------ MODULE MCParser ------------------------------
(***************************************************************************)
(* Every construct around every construct, as in MCCodeRun.                *)
(***************************************************************************)
EXTENDS Parsing

a == Ident_("a")
b == Ident_("b")
one == Node("Integer", "1", <<>>)
C == Node("Const", "C", <<>>)
Un(op, h) == Node("UnOp", op, <<h>>)
ArrayOf(l) == Node("Array", "", l)
Assign(l, r) == Node("Assign", "", <<l, r>>)
OpAssign(op, l, r) == Node("OpAssign", op, <<l, r>>)
Multi(l, r) == Node("MulAssign", "", <<Node("lhs", "", l), Node("rhs", "", r)>>)
Mod(t, h, c) == Node("Mod", t, <<h, c>>)
Params(l) == Node("params", "", l)
Req(x) == Node("Req", x, <<>>)
BlockOf(style, l, body) == Node("Proc", style, <<Params(l), Comp(<<body>>)>>)
With(style, recv, x, args) == Node(style, x, <<recv, Args(args)>>)
Pos(l) == [NoArgs EXCEPT !.args = l]
Protected(body, rescue, else, ensure) ==
    Node("Begin", "", <<body, Node("rescue", "", rescue), Node("else", "", else), Node("ensure", "", ensure)>>)
OnError(list, assign, body) == Node("Rescue", "", <<Node("list", "", list), Node("assign", "", assign), body>>)
Just(h) == Protected(Comp(<<h>>), <<>>, <<>>, <<>>)

Atoms == {a, one, Node("Integer", "-1", <<>>), C, Nil, Self, Node("String", "str", <<>>), Node("Symbol", "a", <<>>),
          Node("Symbol", "+", <<>>), Node("InstanceVar", "@i", <<>>), Node("GlobalVar", "$g", <<>>), Node("Bool", "true", <<>>),
          Node("ConstTop", "C", <<>>)}

Operators(h) ==
    UNION {{BinOp(op, h, b), BinOp(op, one, h)} :
             op \in {"||", "&&", "==", "!~", "<=>", "<", "|", "&", "<<", "+", "-", "*", "**"}}
    \cup {Un(op, h) : op \in {"-", "!", "~", "+"}}
    \cup {Node("And", "and", <<h, b>>), Node("Or", "or", <<a, h>>), Node("Range", "..", <<h, b>>), Node("Range", "...", <<one, h>>),
          Node("Ternary", "", <<h, a, b>>), Node("Ternary", "", <<a, h, b>>), Node("Ternary", "", <<a, one, h>>),
          Node("Defined", "", <<h>>), Node("Splat", "", <<h>>), ArrayOf(<<h>>), ArrayOf(<<a, h, one>>), ArrayOf(<<Node("Splat", "", <<h>>), a>>),
          Node("Hash", "", <<h, b>>), Node("Hash", "", <<one, h, a, b>>), Node("Hash", ":", <<Node("Symbol", "a", <<>>), h>>),
          Node("Index", "", <<h, one>>), Node("Index", "", <<a, h>>), Node("Index", "", <<a, one, h>>), Node("Scope", "D", <<h>>),
          Node("InterporatedString", "", <<Comp(<<h>>)>>), Node("RegExp", "", <<Comp(<<h>>), Comp(<<a>>)>>), Comp(<<h>>), Comp(<<a, h>>)}

Assignments(h) == {
    Assign(Ident_("x"), h), Assign(h, one), Assign(Node("Index", "", <<a, h>>), b), Assign(Node("InstanceVar", "@i", <<>>), h),
    Assign(C, h), Assign(With("Send", h, "m", NoArgs), one),
    OpAssign("+=", Node("InstanceVar", "@i", <<>>), h), OpAssign("||=", Ident_("x"), h), OpAssign("&&=", Node("Index", "", <<a, h>>), one),
    OpAssign("-=", h, one), Multi(<<Ident_("x"), Ident_("y")>>, <<h>>), Multi(<<Ident_("x"), Ident_("y")>>, <<one, h>>),
    Multi(<<Ident_("x")>>, <<one, h>>), Multi(<<Ident_("x"), h>>, <<a, b>>), Multi(<<Node("Index", "", <<a, h>>), Ident_("x")>>, <<a>>),
    Multi(<<Ident_("x")>>, <<Node("Splat", "", <<h>>)>>), Comp(<<Assign(Ident_("x"), one), h, Ident_("x")>>),
    Comp(<<Assign(Ident_("a"), one), h>>)}

Calls(h) ==
    UNION {{With("Send", Self, "f", args), With("Send", h, "m", args), With("Command", Self, "f", args), With("SafeSend", h, "m", args),
            With("Command", a, "m", args)} :
        args \in {Pos(<<h>>), Pos(<<a, h>>), Pos(<<Node("Splat", "", <<h>>), one>>), [Pos(<<a>>) EXCEPT !.kw = <<Node("Keyword", "x", <<h>>)>>],
                  [Pos(<<>>) EXCEPT !.kwrest = <<h>>], [Pos(<<one>>) EXCEPT !.block = <<h>>]}}
    \cup {With("Send", h, "m", NoArgs), With("SafeCommand", h, "m", Pos(<<one>>)), Node("Yield", "", <<Args(Pos(<<h>>))>>),
          Node("YieldCommand", "", <<Args(Pos(<<a, h>>))>>)}
    \cup UNION {{With("Send", Self, "f", [NoArgs EXCEPT !.block = <<BlockOf(s, <<Req("u")>>, h)>>]),
                 With("Send", h, "m", [Pos(<<one>>) EXCEPT !.block = <<BlockOf(s, <<Req("u")>>, Ident_("u"))>>]),
                 With("Command", Self, "f", [Pos(<<h>>) EXCEPT !.block = <<BlockOf("do", <<Req("u")>>, Ident_("u"))>>]),
                 With("Send", a, "m", [NoArgs EXCEPT !.block = <<BlockOf(s, <<Req("u")>>, Comp(<<Assign(Ident_("v"), h), Ident_("v")>>))>>])} :
            s \in {"{", "do"}}
    \cup {BlockOf("->", <<Req("u")>>, h), Comp(<<BlockOf("->", <<>>, Assign(Ident_("v"), h)), BlockOf("->", <<>>, Ident_("w"))>>)}

Constructs(h) ==
    {Node("If", t, <<h, Comp(<<a>>), Comp(<<b>>)>>) : t \in {"if", "unless"}}
    \cup {Node("If", t, <<a, Comp(<<h>>), Comp(<<h, b>>)>>) : t \in {"if", "unless"}}
    \cup {Node("If", "if", <<a, Comp(<<b>>), Node("If", "if", <<h, Comp(<<a>>), Comp(<<h>>)>>)>>)}
    \cup {Mod(t, h, b) : t \in {"if", "unless", "while", "until"}} \cup {Mod(t, one, h) : t \in {"if", "while"}}
    \cup {While(h, Comp(<<a>>), "while"), While(a, Comp(<<h>>), "until"), Node("For", "", <<Ident_("x"), h, Comp(<<Ident_("x")>>)>>),
          Node("For", "", <<Ident_("x"), Ident_("y"), a, Comp(<<h>>)>>),
          Node("Case", "", <<Node("subject", "", <<h>>), Node("whens", "", <<Node("When", "", <<one, Comp(<<a>>)>>)>>), Comp(<<b>>)>>),
          Node("Case", "", <<Node("subject", "", <<>>), Node("whens", "", <<Node("When", "", <<a, h, Comp(<<h>>)>>)>>), Comp(<<h>>)>>)}
    \cup {Just(h), Protected(Comp(<<a>>), <<OnError(<<C, h>>, <<Ident_("x")>>, Comp(<<Ident_("x"), h>>))>>, <<Comp(<<h>>)>>, <<Comp(<<h, a>>)>>),
          Protected(Comp(<<h>>), <<OnError(<<>>, <<h>>, Comp(<<a>>)), OnError(<<h>>, <<>>, Comp(<<a>>))>>, <<>>, <<Comp(<<h>>)>>)}
    \cup UNION {{Node(t, "", <<h>>), Node(t, "", <<a, h>>), Node("If", "if", <<a, Comp(<<Node(t, "", <<>>)>>), Comp(<<h>>)>>), Mod("if", Node(t, "", <<>>), h)} :
                  t \in {"return", "break", "next"}}

Definitions(h) ==
    {Node(k, "m", <<Params(l), Just(h)>>) : k \in {"MethodDef", "SingletonMethodDef"},
        l \in {<<>>, <<Req("u"), Node("Opt", "v", <<h>>), Node("Rest", "w", <<>>), Node("Post", "z", <<>>)>>,
               <<Node("RestDiscard", "", <<>>), Node("Post", "u", <<>>)>>,
               <<Node("Key", "u", <<>>), Node("Key", "v", <<h>>), Node("KwRest", "w", <<>>), Node("BlockParam", "z", <<>>)>>}}
    \cup {Node("MethodDef", "m=", <<Params(<<Req("u")>>), Just(Comp(<<Assign(Ident_("v"), h), Ident_("v")>>))>>),
          Node("MethodDef", "+", <<Params(<<Req("u")>>), Protected(Comp(<<Ident_("u")>>), <<OnError(<<>>, <<>>, Comp(<<h>>))>>, <<>>, <<>>)>>),
          Node("ClassDef", "C", <<Nil, h, Just(a)>>), Node("ClassDef", "C", <<h, Nil, Just(a)>>), Node("ClassDef", "C", <<Nil, Nil, Just(h)>>),
          Node("ModuleDef", "D", <<Nil, Nil, Just(h)>>), Node("SingletonClassDef", "", <<h, Just(a)>>),
          Node("SingletonClassDef", "", <<Self, Just(h)>>), Node("AliasMethod", "", <<Node("Symbol", "a", <<>>), Node("Symbol", "b", <<>>)>>)}

Around(h) == Operators(h) \cup Assignments(h) \cup Calls(h) \cup Constructs(h) \cup Definitions(h)
Simple == Around(a) \cup Atoms
Core(h) == {BinOp("+", one, h), Comp(<<Assign(Ident_("x"), one), h>>), With("Command", Self, "f", Pos(<<h>>)), Mod("if", h, b),
            With("Send", Self, "f", [NoArgs EXCEPT !.block = <<BlockOf("do", <<Req("u")>>, h)>>]),
            Node("MethodDef", "m", <<Params(<<Req("u")>>), Just(h)>>), Multi(<<Ident_("x"), Ident_("y")>>, <<h, one>>)}
MCFamilies == {Around(h) : h \in Simple \cup UNION {Core(t) : t \in Core(Ident_("x"))}}
=============================================================================
