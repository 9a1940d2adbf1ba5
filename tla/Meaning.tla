------------------------------ MODULE Meaning ------------------------------
(***************************************************************************)
(* What a tree means, without code, operand stack or jumps.                *)
(*                                                                         *)
(* Eval goes over the tree in the order in which ruruby evaluates: the     *)
(* arguments of a call before its receiver, the end of a range before its  *)
(* start, multiple assignment from right to left.  A state s holds the     *)
(* tape of choices still to be made, the trace of calls and assignments    *)
(* so far, the value val and how evaluation ended, out: "ok", "break",     *)
(* "next", "return" or "raise", or "stuck" when the tape is too short.     *)
(***************************************************************************)
EXTENDS Syntax, SequencesExt

CONSTANT Risky      \* names of the methods whose calls may raise

RECURSIVE Eval(_, _)

Ok(s) == s.out = "ok"
Give(s, v) == [s EXCEPT !.val = v]
Log(s, e) == [s EXCEPT !.trace = Append(@, e)]
Throw(s, v) == [s EXCEPT !.out = "raise", !.val = v]
End(s, how) == IF Ok(s) THEN [s EXCEPT !.out = how] ELSE s

Both(s, n) ==
    IF ~Ok(s) THEN s
    ELSE LET t == Eval(n, s) IN IF Ok(t) THEN Give(t, Term("", Append(s.val.a, t.val))) ELSE t
EvalAll(nodes, s) == IF Ok(s) THEN FoldLeft(Both, Give(s, Term("", <<>>)), nodes) ELSE s
(* The values of some nodes, put together by an operation.                 *)
Made(s, f) == IF Ok(s) THEN Give(s, Term(f, s.val.a)) ELSE s

(* A choice, and the truth of the value: chosen unless it is known.        *)
Draw(s) == IF ~Ok(s) THEN s
           ELSE IF s.tape = <<>> THEN [s EXCEPT !.out = "stuck"]
           ELSE [s EXCEPT !.tape = Tail(@), !.val = Atom(Head(s.tape))]
Truth(s) == IF ~Ok(s) THEN s
            ELSE IF Known(s.val) THEN Give(s, Atom(IF s.val \in Falsy THEN "false" ELSE "true"))
            ELSE Draw(s)
IsTrue(s) == s.val = Atom("true")

(* A call is logged, may raise, and returns a value of its own.            *)
Called(s, call) ==
    LET t == Log(Give(s, call), call)  d == Draw(t) IN
    IF ~Ok(s) THEN s
    ELSE IF call.f \notin Risky THEN t
    ELSE IF ~Ok(d) THEN d
    ELSE IF IsTrue(d) THEN Throw(d, Term("error", <<call>>)) ELSE Give(d, call)
Message(x, recv, args, kw, block) ==
    Term(x, <<recv, Term("args", args), Term("kw", kw), Term("block", block)>>)
SelfCall(s, x) == IF Ok(s) THEN Called(s, Message(x, Atom("self"), s.val.a, <<>>, <<>>)) ELSE s
(* The last of the values is the receiver.                                 *)
CallOn(s, x) ==
    IF Ok(s) THEN Called(s, Message(x, Last(s.val.a), Front(s.val.a), <<>>, <<>>)) ELSE s

(* base[i..] = v, when base and index have been evaluated to b.            *)
StoreAt(lhs, b, v, s) ==
    IF IsImmediate(Tail(lhs.c)) THEN Log(s, Term("[i]=", <<v, b[1]>>))
    ELSE IF IsSingle(Tail(lhs.c)) THEN Log(s, Term("[]=", <<b[1], b[2], v>>))
    ELSE Called(s, Message("[]=", b[1], Append(Tail(b), v), <<>>, <<>>))

(* Assign v to lhs, whose own expressions are evaluated now.               *)
Store(s, x) == IF Ok(s) THEN Log(s, Term(x, s.val.a)) ELSE s
With(s, v) == IF Ok(s) THEN Give(s, Term("", <<v>> \o s.val.a)) ELSE s
AssignTo(lhs, v, s) ==
    CASE ~Ok(s) -> s
      [] lhs.k \in {"Var", "OuterVar", "Global"} -> Log(s, Set(lhs.x, v))
      [] lhs.k = "Const" -> Log(s, Term(lhs.x, <<v, NilValue>>))
      [] lhs.k = "Scope" -> Store(With(EvalAll(lhs.c, s), v), lhs.x)
      [] lhs.k = "Send"  -> CallOn(With(EvalAll(lhs.c, s), v), lhs.x)
      [] lhs.k = "Index" -> LET t == EvalAll(lhs.c, s) IN
           IF Ok(t) THEN StoreAt(lhs, t.val.a, v, t) ELSE t

(* lhs = rhs: base and index of lhs come before rhs, a receiver after.     *)
(* The value of an assignment is what was assigned.                        *)
Valued(s, v) == IF Ok(s) THEN Give(s, v) ELSE s
EvalAssign(lhs, rhs, s) ==
    LET t == IF lhs.k = "Index" THEN EvalAll(lhs.c, s) ELSE s
        r == IF Ok(t) THEN Eval(rhs, t) ELSE t
    IN  IF ~Ok(r) THEN r
        ELSE Valued(IF lhs.k = "Index" THEN StoreAt(lhs, t.val.a, r.val, r) ELSE AssignTo(lhs, r.val, r), r.val)

AssignAll(lhs, vals, s) ==
    FoldRight(LAMBDA j, t : AssignTo(lhs[j], vals[j], t), [j \in DOMAIN lhs |-> j], s)
Padded(vals, n) == IF n =< Len(vals) THEN vals ELSE vals \o [j \in 1..(n - Len(vals)) |-> NilValue]
EvalMulAssign(n, s) ==
    LET L == Len(n.lhs)  t == EvalAll(n.rhs, s)  vals == t.val.a IN
    IF ~Ok(t) THEN t
    ELSE IF Len(n.rhs) = 1
    THEN Valued(AssignAll(n.lhs, [i \in 1..L |-> Term("elem", [j \in 1..i |-> vals[1]])], t), vals[1])
    ELSE LET all == Padded(vals, L) IN
         Valued(AssignAll(n.lhs, all, t), Term("array", all))

----------------------------------------------------------------------------
EvalSend(n, s) ==
    LET a == EvalAll(n.args, s)
        k == EvalAll([i \in DOMAIN n.kw |-> n.kw[i].v], a)
        q == EvalAll(n.kwrest, k)
        b == EvalAll(n.block, q)
        r == IF Ok(b) THEN Eval(n.c[1], b) ELSE b
        hash == Term("hash", FlattenSeq([i \in DOMAIN n.kw |-> <<Atom(n.kw[i].x), k.val.a[i]>>]))
        call == Message(n.x, r.val, a.val.a, (IF n.kw = <<>> THEN <<>> ELSE <<hash>>) \o q.val.a, b.val.a)
        d == IF n.safe THEN Truth(Valued(r, Term("nil?", <<>>))) ELSE r
    IN  IF ~Ok(d) THEN d
        ELSE IF n.safe /\ ~IsTrue(d) THEN Give(d, r.val)
        ELSE Called(d, call)

(* A loop ends with nil, or with the value of its break.                   *)
EvalWhile(n, s) ==
    LET c == Truth(Eval(n.c[1], s))
        b == IF Ok(c) /\ IsTrue(c) = (n.k = "While") THEN Eval(n.c[2], c) ELSE c
    IN  IF Ok(c) /\ IsTrue(c) # (n.k = "While") THEN Give(c, NilValue)
        ELSE IF b.out = "break" THEN [b EXCEPT !.out = "ok"]
        ELSE IF b.out \in {"ok", "next"} THEN Eval(n, [b EXCEPT !.out = "ok"])
        ELSE b

(* The first clause that takes the error ends it.                          *)
RECURSIVE Rescued(_, _, _)
Rescued(clauses, err, s) ==
    IF clauses = <<>> THEN Throw(s, err)
    ELSE LET r == Head(clauses)
             d == Draw(EvalAll(r.list, s))
         IN  IF ~Ok(d) THEN d
             ELSE IF ~IsTrue(d) THEN Rescued(Tail(clauses), err, d)
             ELSE LET t == IF r.assign = <<>> THEN d ELSE AssignTo(r.assign[1], err, d) IN
                  IF Ok(t) THEN Eval(r.body, t) ELSE t

(* However the body, a clause or else ends, ensure is evaluated once and   *)
(* leaves result and ending as they were, unless it ends otherwise itself. *)
EvalBegin(n, s) ==
    LET b == Eval(n.c[1], s)
        t == CASE b.out = "raise" -> Rescued(n.rescue, b.val, [b EXCEPT !.out = "ok"])
               [] b.out = "ok" /\ n.else # <<>> -> Eval(n.else[1], b)
               [] OTHER -> b
        e == IF n.ensure = <<>> \/ t.out = "stuck" THEN t ELSE Eval(n.ensure[1], [t EXCEPT !.out = "ok"])
    IN  IF Ok(e) THEN [e EXCEPT !.out = t.out, !.val = t.val] ELSE e

(* The first branch with an element that matches.                          *)
EvalCase(n, s) ==
    LET subject == EvalAll(n.c, s)
        elems == FlattenSeq([i \in DOMAIN n.whens |-> [j \in DOMAIN n.whens[i].elems |-> <<i, n.whens[i].elems[j]>>]])
        test(t, p) ==       \* t.val: the branch found so far, if any
            IF ~Ok(t) \/ t.val # Atom("none") THEN t
            ELSE LET v == Eval(p[2], t)
                     c == IF ~Ok(v) THEN v
                          ELSE IF n.c = <<>> THEN Truth(v)
                          ELSE Truth(Give(v, Term("===", <<v.val, subject.val.a[1]>>)))
                 IN  IF ~Ok(c) THEN c ELSE Give(c, IF IsTrue(c) THEN Term("found", [j \in 1..p[1] |-> NilValue])
                                                   ELSE Atom("none"))
        drawn == Draw(subject)
        first == {i \in DOMAIN n.whens : \E e \in ToSet(n.whens[i].elems) : Atom(e.x) = drawn.val}
    IN  IF ~Ok(subject) THEN subject
        ELSE IF IsTable(n)
        THEN IF ~Ok(drawn) THEN drawn
             ELSE IF first = {} THEN Eval(n.else, drawn)
             ELSE Eval(n.whens[CHOOSE i \in first : \A j \in first : i =< j].body, drawn)
        ELSE LET f == FoldLeft(test, Give(subject, Atom("none")), elems) IN
             IF ~Ok(f) THEN f
             ELSE IF f.val.f = "found" THEN Eval(n.whens[Len(f.val.a)].body, f)
             ELSE Eval(n.else, f)

(* defined? asks for one variable after the other.                         *)
EvalDefined(n, s) ==
    LET ask(t, x) == IF ~Ok(t) \/ t.val = NilValue THEN t
                     ELSE LET d == IF x = "true" THEN Give(t, Atom("true")) ELSE Draw(t) IN
                          IF Ok(d) THEN Give(d, IF IsTrue(d) THEN NilValue ELSE Atom("str")) ELSE d
    IN  FoldLeft(ask, Give(s, Atom("str")), Checked(n.c[1]))

(* Operations on values, with nothing to log.                              *)
EvalValue(n, s) ==
    CASE n.k = "UnOp" /\ n.x = "+" -> Eval(n.c[1], s)
      [] n.k \in {"Scope", "UnOp", "BinOp"} -> Made(EvalAll(n.c, s), n.x)
      [] n.k = "Splat" -> Made(EvalAll(n.c, s), "splat")
      [] n.k = "Array" -> Made(EvalAll(n.c, s), "array")
      [] n.k = "Hash"  -> Made(EvalAll(n.c, s), "hash")
      [] n.k = "Proc"  -> Give(s, Atom("proc"))
      [] n.k = "Range" -> Made(With(EvalAll(Reverse(n.c), s), Atom(n.x)), "range")
      [] n.k \in {"Interpolated", "RegExp"} ->
           LET part(i, v) == IF n.c[i].k = "Lit" THEN v ELSE Term("to_s", <<v>>)
               t == EvalAll(n.c, s)
               str == Term("concat", [i \in DOMAIN n.c |-> part(i, t.val.a[i])])
           IN  IF Ok(t) THEN Give(t, IF n.k = "RegExp" THEN Term("regexp", <<str>>) ELSE str) ELSE t
      [] n.k = "Index" ->
           IF IsSingle(Tail(n.c)) THEN Made(EvalAll(n.c, s), "[]")
           ELSE CallOn(EvalAll(Append(Tail(n.c), n.c[1]), s), "[]")

Eval(n, s) ==
    CASE n.k \in {"Lit", "Num", "Frozen"} -> Give(s, Atom(n.x))
      [] n.k \in {"Var", "OuterVar", "Global", "Const"} -> Give(s, Current(s.trace, n.x))
      [] n.k \in {"Scope", "UnOp", "BinOp", "Splat", "Array", "Hash", "Proc", "Range",
                  "Interpolated", "RegExp", "Index"} -> EvalValue(n, s)
      [] n.k = "Ident" -> SelfCall(Give(s, Term("", <<>>)), n.x)
      [] n.k = "Yield" -> SelfCall(EvalAll(n.c, s), "yield")
      [] n.k = "Command" -> SelfCall(EvalAll(n.c, s), "shell")
      [] n.k = "AliasMethod" -> SelfCall(EvalAll(n.c, s), "alias_method")
      [] n.k = "ClassDef" -> SelfCall(EvalAll(n.c, s), n.x)
      [] n.k = "SingletonClassDef" -> SelfCall(EvalAll(n.c, s), "class")
      [] n.k = "Match" -> CallOn(EvalAll(Reverse(n.c), s), "=~")
      [] n.k = "For" -> CallOn(EvalAll(n.c, s), "each")
      [] n.k = "MethodDef" -> Valued(Store(EvalAll(n.c, s), "def"), Atom("sym"))
      [] n.k = "CompStmt" -> FoldLeft(LAMBDA t, m : IF Ok(t) THEN Eval(m, t) ELSE t, Give(s, NilValue), n.c)
      [] n.k \in {"LAnd", "LOr"} ->
           LET l == Eval(n.c[1], s)  t == Truth(l) IN
           IF ~Ok(t) THEN t
           ELSE IF IsTrue(t) = (n.k = "LAnd") THEN Eval(n.c[2], t) ELSE Give(t, l.val)
      [] n.k = "If" ->
           LET t == Truth(Eval(n.c[1], s)) IN
           IF ~Ok(t) THEN t ELSE IF IsTrue(t) THEN Eval(n.c[2], t) ELSE Eval(n.c[3], t)
      [] n.k \in {"While", "Until"} -> EvalWhile(n, s)
      [] n.k = "Begin" -> EvalBegin(n, s)
      [] n.k = "Case" -> EvalCase(n, s)
      [] n.k = "MulAssign" ->
           IF Len(n.lhs) = 1 /\ Len(n.rhs) = 1 THEN EvalAssign(n.lhs[1], n.rhs[1], s) ELSE EvalMulAssign(n, s)
      [] n.k = "Send" -> EvalSend(n, s)
      [] n.k = "Defined" -> EvalDefined(n, s)
      [] n.k = "Return" -> End(Eval(n.c[1], s), "return")
      [] n.k = "Break" -> End(Eval(n.c[1], s), "break")
      [] n.k = "Next" -> End(Eval(n.c[1], s), "next")

(* Parameters that got no argument are assigned their default.             *)
Assigned(x, s) == IF Ok(s) THEN Log(s, Set(x, s.val)) ELSE s
EvalDefault(s, d) ==
    LET u == Draw(s) IN IF Ok(u) /\ IsTrue(u) THEN Assigned(d.x, Eval(d.v, u)) ELSE u
EvalBody(body, s) == IF Ok(s) THEN Eval(body, s) ELSE s

(* How a method, block or class body ends: break and return leave blocks   *)
(* as errors of their own kind, next ends a block.                         *)
Ending(kind, out) ==
    CASE out \in {"ok", "next"} -> "RETURN"
      [] out = "return" -> IF kind = "Block" THEN "MRETURN" ELSE "RETURN"
      [] out = "break" -> "BREAK"
      [] OTHER -> out
Ended(kind, s) == [how |-> Ending(kind, s.out), val |-> s.val, trace |-> s.trace, tape |-> s.tape]

Meaning(kind, defaults, body, tape) ==
    LET start == [out |-> "ok", val |-> NilValue, tape |-> tape, trace |-> <<>>] IN
    Ended(kind, EvalBody(body, FoldLeft(EvalDefault, start, defaults)))
=============================================================================
