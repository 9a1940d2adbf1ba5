------------------------------ MODULE Regular ------------------------------
(***************************************************************************)
(* The trees for which the generated code is right.  Each condition below  *)
(* excludes a pattern for which it is not; CodeRun violates a property as  *)
(* soon as the condition is dropped.                                       *)
(*                                                                         *)
(* cx tells where a tree stands: whether its value is used, whether there  *)
(* are operands below it on the stack of the code (frame) or of the loop   *)
(* (loop), whether it is in a loop, and what begins around it have to do:  *)
(* the ensure clauses around it in the code (guard) and in the loop        *)
(* (guardLoop), whether the innermost begin body has one (last), and       *)
(* whether an error that leaves it finds all ensure clauses (raise).       *)
(***************************************************************************)
EXTENDS Syntax, Naturals, Sequences

CONSTANT Risky

Outermost == [used |-> TRUE, frame |-> FALSE, loop |-> FALSE, inLoop |-> FALSE,
              guard |-> 0, guardLoop |-> 0, last |-> FALSE, raise |-> TRUE]
Used(cx) == [cx EXCEPT !.used = TRUE]
Unused(cx) == [cx EXCEPT !.used = FALSE]
(* An operand that is not the first one.                                   *)
Pending(cx) == [cx EXCEPT !.used = TRUE, !.frame = TRUE, !.loop = TRUE]
InLoop(cx) == [cx EXCEPT !.inLoop = TRUE, !.loop = FALSE, !.guardLoop = 0]
Guarded(cx, has) == IF has THEN [cx EXCEPT !.guard = @ + 1, !.guardLoop = @ + 1] ELSE cx

RECURSIVE Regular(_, _)
AllRegular(nodes, cx) == \A m \in DOMAIN nodes : Regular(nodes[m], cx)
(* Operands in the order in which they are evaluated.                      *)
Operands(nodes, cx) == \A m \in DOMAIN nodes : Regular(nodes[m], IF m = 1 THEN Used(cx) ELSE Pending(cx))

RegularBegin(n, cx) ==
    LET ensure == n.ensure # <<>>
        rest == [Guarded(cx, ensure) EXCEPT !.raise = @ /\ ~ensure]
    IN  \* The handler cuts the stack to what the code began with.
        /\ n.rescue # <<>> => ~cx.frame
        \* Only an error in the body of a begin with rescue gets to ensure.
        /\ Regular(n.c[1], [Guarded(cx, ensure) EXCEPT !.last = ensure,
                                                        !.raise = @ /\ (ensure => n.rescue # <<>>)])
        /\ \A i \in DOMAIN n.rescue :
             /\ AllRegular(n.rescue[i].list, Pending(rest))
             /\ AllRegular(n.rescue[i].assign, rest)
             /\ Regular(n.rescue[i].body, rest)
        /\ AllRegular(n.else, rest)
        /\ AllRegular(n.ensure, Unused(Pending(cx)))

RegularCase(n, cx) ==
    /\ AllRegular(n.c, Used(cx))
    /\ \A w \in DOMAIN n.whens :
         /\ AllRegular(n.whens[w].elems, IF n.c = <<>> THEN Used(cx) ELSE Pending(cx))
         /\ Regular(n.whens[w].body, cx)
    /\ Regular(n.else, cx)
    \* Several conditions of a when without subject must all hold.
    /\ n.c = <<>> => \A w \in DOMAIN n.whens : Len(n.whens[w].elems) = 1
    \* The last of several branches with the same literal is taken.
    /\ IsTable(n) =>
         \A v, w \in DOMAIN n.whens : v # w =>
           \A d \in DOMAIN n.whens[v].elems, e \in DOMAIN n.whens[w].elems :
             n.whens[v].elems[d].x # n.whens[w].elems[e].x

RegularSend(n, cx) ==
    /\ n.x \in Risky => cx.raise
    /\ \A i \in DOMAIN n.kw : Regular(n.kw[i].v, Pending(cx))
    /\ Operands(n.args \o n.kwrest \o n.block \o n.c, IF n.kw = <<>> THEN cx ELSE Pending(cx))
    \* A block argument is taken for keyword arguments, if there are any.
    /\ n.block # <<>> => n.kw = <<>> /\ n.kwrest = <<>>
    \* The first of several keyword rest arguments wins.
    /\ Len(n.kwrest) =< 1
    \* &. leaves receiver and arguments on the stack when it does not call.
    /\ n.safe => /\ cx.used /\ n.args = <<>>
                 /\ n.kw = <<>> /\ n.kwrest = <<>> /\ n.block = <<>>

Regular(n, cx) ==
    CASE n.k = "Return" ->
           \* return runs the ensure clause of the innermost begin only.
           ~cx.frame /\ cx.guard = (IF cx.last THEN 1 ELSE 0) /\ AllRegular(n.c, Used(cx))
      [] n.k = "Break" ->
           \* break and next run no ensure clause.
           (IF cx.inLoop THEN ~cx.loop /\ cx.guardLoop = 0 ELSE ~cx.frame /\ cx.guard = 0)
           /\ AllRegular(n.c, Used(cx))
      [] n.k = "Next" ->
           \* next keeps its value if the value of the next itself is used.
           (IF cx.inLoop THEN ~cx.loop /\ ~cx.used /\ cx.guardLoop = 0 ELSE ~cx.frame /\ cx.guard = 0)
           /\ AllRegular(n.c, cx)
      [] n.k = "CompStmt" ->
           \A i \in DOMAIN n.c : Regular(n.c[i], IF i = Len(n.c) THEN cx ELSE Unused(cx))
      [] n.k = "If" -> Regular(n.c[1], Used(cx)) /\ Regular(n.c[2], cx) /\ Regular(n.c[3], cx)
      [] n.k \in {"While", "Until"} ->
           Regular(n.c[1], Used(InLoop(cx))) /\ Regular(n.c[2], Unused(InLoop(cx)))
      [] n.k \in {"LAnd", "LOr"} -> AllRegular(n.c, Used(cx))
      [] n.k = "Begin" -> RegularBegin(n, cx)
      [] n.k = "Case" -> RegularCase(n, cx)
      [] n.k = "MulAssign" ->
           IF Len(n.lhs) = 1 /\ Len(n.rhs) = 1 /\ n.lhs[1].k = "Index"
           THEN Operands(n.lhs[1].c \o n.rhs, cx)
           ELSE Operands(n.rhs, cx) /\ AllRegular(n.lhs, Pending(cx))
      [] n.k = "Send" -> RegularSend(n, cx)
      [] n.k = "Ident" -> n.x \in Risky => cx.raise
      \* Unused, defined? asks on after an undefined variable: harmless, but
      \* more choices than Meaning makes.
      [] n.k = "Defined" -> cx.used
      [] n.k \in {"Proc", "Lit", "Num", "Frozen", "Var", "OuterVar", "Global", "Const"} -> TRUE
      [] n.k \in {"Range", "Match"} -> AllRegular(n.c, Pending(cx))
      [] n.k = "Index" /\ ~IsSingle(Tail(n.c)) -> Operands(Append(Tail(n.c), n.c[1]), cx)
      [] OTHER -> Operands(n.c, cx)
=============================================================================
