------------------------------ MODULE Codegen ------------------------------
(***************************************************************************)
(* The code generator: what Codegen::gen emits for each kind of node.      *)
(*                                                                         *)
(* A piece of code is a sequence of instructions and the entries of the    *)
(* exception table for it, with positions relative to its start.  cx is    *)
(* what the stacks of the generator tell: the kind of the code, whether    *)
(* the innermost loop_stack entry is a loop, and whether the last          *)
(* jump_dest belongs to a begin with ensure.                               *)
(***************************************************************************)
EXTENDS Instructions

RECURSIVE Gen(_, _, _)

Piece(ins) == [ins |-> ins, exc |-> <<>>]
Empty == Piece(<<>>)
Emit(i) == Piece(<<i>>)
Size(f) == Len(f.ins)
Moved(e, by) == [start |-> e.start + by, end |-> e.end + by, dest |-> e.dest + by]
f ++ g == [ins |-> f.ins \o g.ins,
           exc |-> f.exc \o [j \in DOMAIN g.exc |-> Moved(g.exc[j], Size(f))]]
When_(b, f) == IF b THEN f ELSE Empty
DropUnless(use) == When_(~use, Emit(PopIns))

(* write_disp: the escapes called x in f go to position dest.              *)
Escapes(i, x) == i.op = "escape" /\ i.x = x
Resolve(f, x, dest) ==
    [f EXCEPT !.ins = [j \in DOMAIN @ |-> IF Escapes(@[j], x) THEN Jmp(dest - j - 1) ELSE @[j]]]
Has(f, x) == \E j \in DOMAIN f.ins : Escapes(f.ins[j], x)
Over(f) == Emit(Jmp(Size(f))) ++ f
JmpFOver(f) == Emit(JmpIf("JMP_F", 1, "", <<>>, Size(f))) ++ f

GenAll(nodes, cx) == FoldLeft(LAMBDA f, n : f ++ Gen(n, TRUE, cx), Empty, nodes)
Apply(operands, n, x, use) == operands ++ Emit(ApplyIns(n, x)) ++ DropUnless(use)

(* gen_comp_stmt                                                           *)
GenComp(stmts, use, cx) ==
    IF stmts = <<>> THEN When_(use, Emit(PushIns("nil")))
    ELSE FoldLeft(LAMBDA f, n : f ++ Gen(n, FALSE, cx), Empty, Front(stmts))
         ++ Gen(Last(stmts), use, cx)

(* Operators: with an immediate when the right operand is a small integer. *)
GenBinOp(n, use, cx) ==
    LET l == Gen(n.c[1], TRUE, cx)  r == n.c[2] IN
    IF r.k = "Num" /\ n.x \in WithImmediate
    THEN l ++ Emit(ApplyImm(n.x, r.x)) ++ DropUnless(use)
    ELSE Apply(l ++ Gen(r, TRUE, cx), 2, n.x, use)

(* and, or: jump is JMP_F or JMP_T.  Before and, REP_UNINIT makes an       *)
(* uninitialized variable nil, which changes nothing the model tells apart.*)
GenShortCut(n, jump, use, cx) ==
    LET right == Emit(PopIns) ++ Gen(n.c[2], TRUE, cx) IN
    Gen(n.c[1], TRUE, cx) ++ Emit(Shuffle("DUP", 1))
    ++ Emit(JmpIf(jump, 1, "", <<>>, Size(right))) ++ right ++ DropUnless(use)

(* gen_jmp_if_false: the condition and a jump by to if it is false.        *)
GenJmpIfFalse(cond, to, cx) ==
    IF cond.k = "BinOp" /\ cond.x \in Comparisons
    THEN LET l == Gen(cond.c[1], TRUE, cx)  r == cond.c[2] IN
         IF r.k = "Num"
         THEN l ++ Emit(JmpIf("JMP_F", 1, cond.x, <<Atom(r.x)>>, to))
         ELSE l ++ Gen(r, TRUE, cx) ++ Emit(JmpIf("JMP_F", 2, cond.x, <<>>, to))
    ELSE Gen(cond, TRUE, cx) ++ Emit(JmpIf("JMP_F", 1, "", <<>>, to))

IsNone(n) == n.k = "CompStmt" /\ n.c = <<>>
GenIf(n, use, cx) ==
    LET then == Gen(n.c[2], use, cx)  else == Gen(n.c[3], use, cx) IN
    IF ~use /\ IsNone(n.c[3])
    THEN GenJmpIfFalse(n.c[1], Size(then), cx) ++ then
    ELSE GenJmpIfFalse(n.c[1], Size(then) + 1, cx) ++ then ++ Over(else)

(* A break jumps to the end with its value; the normal end pushes nil if   *)
(* the value is used.  A next jumps to the condition.                      *)
GenWhile(n, use, cx) ==
    LET inner == [cx EXCEPT !.loop = TRUE]
        body == Gen(n.c[2], FALSE, inner)
        cond == IF n.k = "While" THEN GenJmpIfFalse(n.c[1], Size(body) + 1, inner)
                ELSE Gen(n.c[1], TRUE, inner) ++ Emit(JmpIf("JMP_T", 1, "", <<>>, Size(body) + 1))
        loop == cond ++ body ++ Emit(JmpBack(-(Size(cond) + Size(body) + 1)))
                ++ When_(use, Emit(PushIns("nil"))) ++ Emit(Jmp(Size(DropUnless(use))))
    IN  Resolve(Resolve(loop, "break", Size(loop) + 1), "next", 1) ++ DropUnless(use)

----------------------------------------------------------------------------
(* Assignment of the value on the stack (gen_assign).                      *)
SetterCall_Popped(x) == Emit(SendIns("NSEND", x, FALSE, 1, FALSE, 0, FALSE)) ++ Emit(PopIns)
SetterCall(x) == Emit(SendIns("NSEND", x, FALSE, 1, FALSE, 0, FALSE))
GenAssign(lhs, cx) ==
    CASE lhs.k \in {"Var", "OuterVar", "Global"} -> Emit(SetIns(lhs.x))
      [] lhs.k = "Const" -> Emit(PushIns("nil")) ++ Emit(StoreIns(2, lhs.x))
      [] lhs.k = "Scope" -> Gen(lhs.c[1], TRUE, cx) ++ Emit(StoreIns(2, lhs.x))
      [] lhs.k = "Send"  -> Gen(lhs.c[1], TRUE, cx) ++ SetterCall(lhs.x)
      [] lhs.k = "Index" ->
           LET base == Gen(lhs.c[1], TRUE, cx)  index == Tail(lhs.c)  n == Len(index) IN
           IF IsImmediate(index) THEN base ++ Emit(StoreIns(2, "[i]="))
           ELSE IF IsSingle(index)
           THEN base ++ Gen(index[1], TRUE, cx) ++ Emit(Shuffle("TOPN", 2)) ++ Emit(StoreIns(3, "[]="))
           ELSE base ++ GenAll(index, cx) ++ Emit(Shuffle("TOPN", n + 1)) ++ Emit(Shuffle("TOPN", n + 1))
                ++ Emit(SendIns("SEND", "[]=", FALSE, n + 1, FALSE, 0, FALSE)) ++ Emit(PopIns)

(* lhs = rhs (gen_assign2).  The value of an index assignment has to get   *)
(* below base and index, which are evaluated first.                        *)
GenAssign2(lhs, rhs, use, cx) ==
    LET val == Gen(rhs, TRUE, cx) ++ When_(use, Emit(Shuffle("DUP", 1))) IN
    IF lhs.k # "Index" THEN val ++ GenAssign(lhs, cx)
    ELSE LET base == Gen(lhs.c[1], TRUE, cx)  index == Tail(lhs.c)  n == Len(index) IN
         IF IsImmediate(index)
         THEN base ++ val ++ Emit(Shuffle("TOPN", IF use THEN 2 ELSE 1)) ++ Emit(StoreIns(2, "[i]="))
         ELSE IF IsSingle(index)
         THEN base ++ Gen(index[1], TRUE, cx) ++ val
              ++ When_(use, Emit(Shuffle("SINKN", 3))) ++ Emit(StoreIns(3, "[]="))
         ELSE base ++ GenAll(index, cx) ++ val
              ++ When_(use, Emit(Shuffle("SINKN", n + 2))) ++ Emit(Shuffle("TOPN", n + 1))
              ++ Emit(SendIns("SEND", "[]=", FALSE, n + 1, FALSE, 0, FALSE)) ++ Emit(PopIns)

(* v += i on a variable (gen_lvar_addi, gen_ivar_addi).                    *)
IsIncrement(lhs, rhs) ==
    /\ lhs.k \in {"Var", "OuterVar"}
    /\ rhs.k = "BinOp" /\ rhs.x = "+" /\ rhs.c[1].k = lhs.k /\ rhs.c[1].x = lhs.x /\ rhs.c[2].k = "Num"
GenIncrement(lhs, i, use) ==
    IF lhs.k = "Var"
    THEN Emit(AddIns(lhs.x, i)) ++ When_(use, Emit(GetIns(lhs.x)))
    ELSE Emit(GetIns(lhs.x)) ++ Emit(ApplyImm("+", i))
         ++ When_(use, Emit(Shuffle("DUP", 1))) ++ Emit(SetIns(lhs.x))

(* Assignments of a list go from the last left side to the first.          *)
AssignBackward(lhs, cx) == FoldLeft(LAMBDA f, l : f ++ GenAssign(l, cx), Empty, Reverse(lhs))
Times(n, i) == Piece([j \in 1..n |-> i])

GenMulAssign(n, use, cx) ==
    LET L == Len(n.lhs)  R == Len(n.rhs)  M == IF L < R THEN R ELSE L IN
    IF L = 1 /\ R = 1
    THEN IF IsIncrement(n.lhs[1], n.rhs[1])
         THEN GenIncrement(n.lhs[1], n.rhs[1].c[2].x, use)
         ELSE GenAssign2(n.lhs[1], n.rhs[1], use, cx)
    ELSE IF R = 1
    THEN Gen(n.rhs[1], TRUE, cx) ++ When_(use, Emit(Shuffle("DUP", 1)))
         ++ Emit(Shuffle("TAKE", L)) ++ AssignBackward(n.lhs, cx)
    ELSE IF ~use
    THEN FoldLeft(LAMBDA f, j : f ++ Gen(n.rhs[j], j =< L, cx), Empty, [j \in 1..R |-> j])
         ++ Times(M - R, PushIns("nil")) ++ AssignBackward(n.lhs, cx)
    ELSE GenAll(n.rhs, cx) ++ Times(M - R, PushIns("nil")) ++ Emit(Shuffle("DUP", M))
         ++ Times(M - L, PopIns) ++ AssignBackward(n.lhs, cx) ++ Emit(ApplyIns(M, "array"))

----------------------------------------------------------------------------
(* begin: the body; the rescue clauses, entered with the error on the      *)
(* stack; else; then a copy of ensure for each way out: an error that no   *)
(* clause takes, a return in the body (kept in jump_dest), a return from a *)
(* block, the normal end.                                                  *)
GenRescue(r, use, cx) ==
    LET list == IF r.list = <<>> THEN Emit(GetIns("StandardError")) ELSE GenAll(r.list, cx)
        taken == (IF r.assign = <<>> THEN Emit(PopIns) ELSE GenAssign(r.assign[1], cx))
                 ++ Gen(r.body, use, cx) ++ Emit(Escape("end"))
    IN  Emit(Shuffle("DUP", 1)) ++ list
        ++ Emit(Ins("RESCUE", IF r.list = <<>> THEN 1 ELSE Len(r.list), "rescue"))
        ++ JmpFOver(taken)

ThroughEnsure_Forgotten(ensure, op) == Emit(Ins(op, 0, ""))
ThroughEnsure(ensure, op) == ensure ++ Emit(Ins(op, 0, ""))

GenBegin(n, use, cx) ==
    LET ensure == IF n.ensure = <<>> THEN Empty ELSE Gen(n.ensure[1], FALSE, cx)
        body == Gen(n.c[1], use, [cx EXCEPT !.ensure = n.ensure # <<>>])
        rescue == FoldLeft(LAMBDA f, r : f ++ GenRescue(r, use, cx), Empty, n.rescue)
        rescues == When_(n.rescue # <<>>, Over(rescue ++ ensure ++ Emit(Ins("THROW", 1, ""))))
        else == IF n.else = <<>> THEN Empty ELSE When_(use, Emit(PopIns)) ++ Gen(n.else[1], use, cx)
        ret == When_(Has(body, "return"), ThroughEnsure(ensure, "RETURN"))
        mret == When_(Has(body, "mreturn"), ThroughEnsure(ensure, "MRETURN"))
        exits == When_(Size(ret ++ mret) > 0, Over(ret ++ mret))
        start == Size(body) + Size(rescues) + Size(else) + 2
        left == Resolve(Resolve(body, "return", start), "mreturn", start + Size(ret))
                ++ rescues ++ else ++ exits
        entry == [start |-> 1, end |-> Size(body) + 1, dest |-> Size(body) + 2]
    IN  [Resolve(left, "end", Size(left) + 1) EXCEPT !.exc =
            IF n.rescue = <<>> THEN @ ELSE Append(@, entry)] ++ ensure

(* case with only literals: a table from literals to branches, where a     *)
(* later branch replaces an earlier one.                                   *)
GenCaseTable(n, use, cx) ==
    LET branch(w) == Gen(w.body, use, cx) ++ Emit(Escape("end"))
        from(i) == FoldLeft(LAMBDA t, j : t + Size(branch(n.whens[j])), 0, [j \in 1..(i - 1) |-> j])
        lits == UNION {{e.x : e \in ToSet(w.elems)} : w \in ToSet(n.whens)}
        last(x) == CHOOSE i \in DOMAIN n.whens :
                     /\ \E e \in ToSet(n.whens[i].elems) : e.x = x
                     /\ \A j \in (i + 1)..Len(n.whens) : \A e \in ToSet(n.whens[j].elems) : e.x # x
        all == FoldLeft(LAMBDA f, w : f ++ branch(w), Empty, n.whens)
        whole == Gen(n.c[1], TRUE, cx)
                 ++ Emit(OptCase([x \in lits |-> from(last(x))], Size(all))) ++ all ++ Gen(n.else, use, cx)
    IN  Resolve(whole, "end", Size(whole) + 1)

(* case in general: each element is compared with a copy of the subject.   *)
GenCaseTests(n, use, cx) ==
    LET body(w) == Emit(PopIns) ++ Gen(w.body, use, cx) ++ Emit(Escape("end"))
        test(e, rest) == Emit(Shuffle("DUP", 1)) ++ Gen(e, TRUE, cx) ++ Emit(Shuffle("SINKN", 1))
                         ++ Emit(ApplyIns(2, "===")) ++ Emit(JmpIf("JMP_T", 1, "", <<>>, Size(rest))) ++ rest
        branch(w) == FoldRight(test, w.elems, Emit(Jmp(Size(body(w))))) ++ body(w)
        whole == Gen(n.c[1], TRUE, cx) ++ FoldLeft(LAMBDA f, w : f ++ branch(w), Empty, n.whens)
                 ++ Emit(PopIns) ++ Gen(n.else, use, cx)
    IN  Resolve(whole, "end", Size(whole) + 1)

(* case without subject: the elements are conditions.                      *)
GenCaseConds(n, use, cx) ==
    LET body(w) == Gen(w.body, use, cx) ++ Emit(Escape("end"))
        branch(w) == FoldRight(LAMBDA e, f : Gen(e, TRUE, cx) ++ JmpFOver(f), w.elems, body(w))
        whole == FoldLeft(LAMBDA f, w : f ++ branch(w), Empty, n.whens) ++ Gen(n.else, use, cx)
    IN  Resolve(whole, "end", Size(whole) + 1)

GenCase(n, use, cx) ==
    IF n.c = <<>> THEN GenCaseConds(n, use, cx)
    ELSE IF IsTable(n) THEN GenCaseTable(n, use, cx) ELSE GenCaseTests(n, use, cx)

----------------------------------------------------------------------------
(* Calls: arguments, keyword arguments as a hash, keyword rest arguments,  *)
(* a block argument, the receiver.  Calls with positional arguments only   *)
(* have instructions of their own, which need not push the result.         *)
IsSelf(n) == n.k = "Lit" /\ n.x = "self"
Positional(n) ==
    n.kw = <<>> /\ n.kwrest = <<>> /\ n.block = <<>> /\ \A a \in ToSet(n.args) : a.k # "Splat"
OptSend(x, self, n, use) ==
    Emit(SendIns(IF use THEN "SEND" ELSE "NSEND", x, self, n, FALSE, 0, FALSE))

GenKeywords(kw, cx) ==
    When_(kw # <<>>,
          FoldLeft(LAMBDA f, p : f ++ Emit(PushIns(p.x)) ++ Gen(p.v, TRUE, cx), Empty, kw)
          ++ Emit(ApplyIns(2 * Len(kw), "hash")))

GenSend(n, use, cx) ==
    LET args == GenAll(n.args, cx)
        recv == IF IsSelf(n.c[1]) THEN Empty ELSE Gen(n.c[1], TRUE, cx)
        send == OptSend(n.x, IsSelf(n.c[1]), Len(n.args), use)
        isNil == Emit(Shuffle("DUP", 1)) ++ Emit(PushIns("nil")) ++ Emit(ApplyIns(2, "!="))
    IN  IF Positional(n)
        THEN args ++ recv ++ (IF n.safe /\ ~IsSelf(n.c[1]) THEN isNil ++ JmpFOver(send) ELSE send)
        ELSE args ++ GenKeywords(n.kw, cx) ++ GenAll(n.kwrest, cx) ++ GenAll(n.block, cx) ++ recv
             ++ Emit(SendIns("SEND", n.x, IsSelf(n.c[1]), Len(n.args), n.kw # <<>>,
                             Len(n.kwrest), n.block # <<>>))
             ++ DropUnless(use)

(* defined?: the checks jump to nil.                                       *)
GenDefined(n, use) ==
    LET found == When_(use, Emit(PushIns("str")) ++ Emit(Jmp(1)))
        check(x, rest) == Emit(IF x = "true" THEN PushIns(x) ELSE ApplyIns(0, "undefined"))
                          ++ Emit(JmpIf("JMP_T", 1, "", <<>>, IF use THEN Size(rest) ELSE 0)) ++ rest
    IN  FoldRight(check, Checked(n.c[1]), found) ++ When_(use, Emit(PushIns("nil")))

(* return, break and next.  Within a loop the destination is not known     *)
(* yet, and a return goes through the ensure of the innermost begin.       *)
GenReturn(n, cx) ==
    LET x == IF cx.kind = "Block" THEN "mreturn" ELSE "return" IN
    Gen(n.c[1], TRUE, cx)
    ++ Emit(IF cx.ensure THEN Escape(x) ELSE Ins(IF x = "return" THEN "RETURN" ELSE "MRETURN", 0, ""))
GenBreak(n, cx) ==
    Gen(n.c[1], TRUE, cx)
    ++ Emit(IF cx.loop THEN Escape("break") ELSE IF cx.kind = "Block" THEN Ins("BREAK", 0, "") ELSE Escape("invalid"))
GenNext(n, use, cx) ==
    IF cx.loop THEN Gen(n.c[1], use, cx) ++ Emit(Escape("next"))
    ELSE Gen(n.c[1], TRUE, cx) ++ Emit(IF cx.kind = "Block" THEN Ins("RETURN", 0, "") ELSE Escape("invalid"))

(* Expressions whose value is dropped when it is not used.                 *)
GenValue(n, cx) ==
    CASE n.k \in {"Var", "OuterVar", "Global", "Const"} -> Emit(GetIns(n.x))
      [] n.k = "Scope" -> Apply(GenAll(n.c, cx), 1, n.x, TRUE)
      [] n.k = "Splat" -> Apply(GenAll(n.c, cx), 1, "splat", TRUE)
      [] n.k = "UnOp"  -> IF n.x = "+" THEN GenAll(n.c, cx) ELSE Apply(GenAll(n.c, cx), 1, n.x, TRUE)
      [] n.k = "Array" -> Apply(GenAll(n.c, cx), Len(n.c), "array", TRUE)
      [] n.k = "Hash"  -> Apply(GenAll(n.c, cx), Len(n.c), "hash", TRUE)
      [] n.k = "Proc"  -> Apply(Empty, 0, "proc", TRUE)
      [] n.k = "Range" -> Apply(Emit(PushIns(n.x)) ++ GenAll(Reverse(n.c), cx), 3, "range", TRUE)
      [] n.k \in {"Interpolated", "RegExp"} ->
           LET part(f, m) == f ++ Gen(m, TRUE, cx) ++ When_(m.k # "Lit", Emit(ApplyIns(1, "to_s")))
               str == Apply(FoldLeft(part, Empty, n.c), Len(n.c), "concat", TRUE)
           IN  IF n.k = "RegExp" THEN Apply(str, 1, "regexp", TRUE) ELSE str
      [] n.k = "Index" ->
           LET index == Tail(n.c) IN
           IF IsImmediate(index)
           THEN Gen(n.c[1], TRUE, cx) ++ Emit(ApplyImm("[]", index[1].x))
           ELSE IF IsSingle(index)
           THEN Apply(GenAll(n.c, cx), 2, "[]", TRUE)
           ELSE GenAll(index, cx) ++ Gen(n.c[1], TRUE, cx)
                ++ Emit(SendIns("SEND", "[]", FALSE, Len(index), FALSE, 0, FALSE))
      [] n.k = "Yield" -> GenAll(n.c, cx) ++ Emit(CallIns("yield", Len(n.c)))
      [] n.k = "For" -> GenAll(n.c, cx) ++ Emit(SendIns("SEND", "each", FALSE, 0, FALSE, 0, FALSE))
      [] n.k = "ClassDef" -> GenAll(n.c, cx) ++ Emit(CallIns(n.x, 2))
      [] n.k = "SingletonClassDef" -> GenAll(n.c, cx) ++ Emit(CallIns("class", 1))

ValueKinds == {"Var", "OuterVar", "Global", "Const", "Scope", "Splat", "UnOp", "Array", "Hash", "Proc",
               "Range", "Interpolated", "RegExp", "Index", "Yield", "For", "ClassDef", "SingletonClassDef"}

Gen(n, use, cx) ==
    CASE n.k \in {"Lit", "Num", "Frozen"} -> When_(use, Emit(PushIns(n.x)))
      [] n.k \in ValueKinds -> GenValue(n, cx) ++ DropUnless(use)
      [] n.k = "Ident" -> OptSend(n.x, TRUE, 0, use)
      [] n.k = "BinOp" -> GenBinOp(n, use, cx)
      [] n.k = "Match" -> GenAll(Reverse(n.c), cx) ++ OptSend("=~", FALSE, 1, use)
      [] n.k = "LAnd" -> GenShortCut(n, "JMP_F", use, cx)
      [] n.k = "LOr" -> GenShortCut(n, "JMP_T", use, cx)
      [] n.k = "CompStmt" -> GenComp(n.c, use, cx)
      [] n.k = "If" -> GenIf(n, use, cx)
      [] n.k \in {"While", "Until"} -> GenWhile(n, use, cx)
      [] n.k = "Begin" -> GenBegin(n, use, cx)
      [] n.k = "Case" -> GenCase(n, use, cx)
      [] n.k = "MulAssign" -> GenMulAssign(n, use, cx)
      [] n.k = "Command" -> GenAll(n.c, cx) ++ OptSend("shell", TRUE, 1, use)
      [] n.k = "AliasMethod" -> GenAll(n.c, cx) ++ OptSend("alias_method", TRUE, 2, use)
      [] n.k = "Send" -> GenSend(n, use, cx)
      [] n.k = "MethodDef" -> GenAll(n.c, cx) ++ Emit(StoreIns(Len(n.c), "def")) ++ When_(use, Emit(PushIns("sym")))
      [] n.k = "Return" -> GenReturn(n, cx)
      [] n.k = "Break" -> GenBreak(n, cx)
      [] n.k = "Next" -> GenNext(n, use, cx)
      [] n.k = "Defined" -> GenDefined(n, use)

----------------------------------------------------------------------------
(* Jumps to jumps go to the last destination, and a jump to an instruction *)
(* that leaves becomes that instruction.                                   *)
Leaves == {"RETURN", "BREAK", "MRETURN"}
RECURSIVE Chase(_, _)
Chase(ins, p) == IF ins[p].op \in {"JMP", "JMP_BACK"} THEN Chase(ins, p + 1 + ins[p].to) ELSE p
OptimizeAt(ins, p) ==
    IF ins[p].op \in {"JMP", "JMP_BACK"} /\ ins[Chase(ins, p)].op \in Leaves
    THEN [ins EXCEPT ![p] = ins[Chase(ins, p)]]
    ELSE IF ins[p].op \in {"JMP", "JMP_BACK", "JMP_T", "JMP_F"}
    THEN [ins EXCEPT ![p].to = Chase(ins, p + 1 + @) - p - 1]
    ELSE ins
Optimize(ins) == FoldLeft(OptimizeAt, ins, [p \in DOMAIN ins |-> p])

(* Default expressions of parameters: evaluated unless an argument came.   *)
GenDefault(f, d, cx) ==
    f ++ Emit(ApplyIns(0, "undefined")) ++ JmpFOver(Gen(d.v, TRUE, cx) ++ Emit(SetIns(d.x)))

(* gen_iseq: a method, block or class body with default parameters.        *)
GenIseq(kind, defaults, body) ==
    LET cx == [kind |-> kind, loop |-> FALSE, ensure |-> FALSE]
        f == FoldLeft(LAMBDA g, d : GenDefault(g, d, cx), Empty, defaults)
             ++ Gen(body, TRUE, cx) ++ Emit(Ins("RETURN", 0, ""))
    IN  [f EXCEPT !.ins = Optimize(@)]
(* break and next outside of loops are syntax errors, except in blocks.    *)
Accepted(f) == ~Has(f, "invalid")
=============================================================================
