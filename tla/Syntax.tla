------------------------------- MODULE Syntax -------------------------------
(***************************************************************************)
(* Syntax trees and the values of expressions.                             *)
(*                                                                         *)
(* A node has a kind k, a name x and children c; the kinds are those of    *)
(* NodeKind, except that kinds the code generator treats alike are one     *)
(* kind.  An absent part is the empty sequence.  Values are terms: the     *)
(* operation that made a value and the values it was made from.            *)
(***************************************************************************)
EXTENDS Naturals, SequencesExt

Node(k, x, c) == [k |-> k, x |-> x, c |-> c]

(* Nil, Bool, String, Symbol, Float, Imaginary, SelfValue; integers apart,  *)
(* since instructions have them as immediates; constant arrays, hashes     *)
(* and regular expressions.                                                *)
Lit(x) == Node("Lit", x, <<>>)
Num(x) == Node("Num", x, <<>>)
Frozen(x) == Node("Frozen", x, <<>>)

(* Local and instance variables; local variables of an outer context; and  *)
(* the rest: global and class variables, constants.                        *)
Var(x) == Node("Var", x, <<>>)
OuterVar(x) == Node("OuterVar", x, <<>>)
Global(x) == Node("Global", x, <<>>)
Const(x) == Node("Const", x, <<>>)
Scope(parent, x) == Node("Scope", x, <<parent>>)

(* Operators, and those that have an instruction for an integer on the right.*)
Comparisons == {"==", "!=", ">=", ">", "<=", "<"}
WithImmediate == {"+", "-", "|", "&"} \cup Comparisons
Ident(x) == Node("Ident", x, <<>>)
BinOp(op, l, r) == Node("BinOp", op, <<l, r>>)
UnOp(op, e) == Node("UnOp", op, <<e>>)
And(l, r) == Node("LAnd", "", <<l, r>>)
Or(l, r) == Node("LOr", "", <<l, r>>)
Comp(stmts) == Node("CompStmt", "", stmts)
If(cond, then, else) == Node("If", "", <<cond, then, else>>)
While(cond, body) == Node("While", "", <<cond, body>>)
Until(cond, body) == Node("Until", "", <<cond, body>>)
Return(val) == Node("Return", "", <<val>>)
Break(val) == Node("Break", "", <<val>>)
Next(val) == Node("Next", "", <<val>>)

Begin(body, rescue, else, ensure) ==
    [k |-> "Begin", c |-> <<body>>, rescue |-> rescue, else |-> else, ensure |-> ensure]
Rescue(list, assign, body) == [list |-> list, assign |-> assign, body |-> body]

(* subject is <<>> for a case without one.                                 *)
Case(subject, whens, else) == [k |-> "Case", c |-> subject, whens |-> whens, else |-> else]
(* A case with only literals is a table.                                   *)
IsCaseLiteral(e) == e.k = "Num" \/ (e.k = "Lit" /\ e.x \in {"str", "sym"})
IsTable(n) == n.c # <<>> /\ \A w \in ToSet(n.whens) : \A e \in ToSet(w.elems) : IsCaseLiteral(e)
When(elems, body) == [elems |-> elems, body |-> body]

MulAssign(lhs, rhs) == [k |-> "MulAssign", lhs |-> lhs, rhs |-> rhs]
Assign(lhs, rhs) == MulAssign(<<lhs>>, <<rhs>>)
(* base[index] with one index, and that an integer.                        *)
IsSingle(index) == Len(index) = 1 /\ index[1].k # "Splat"
IsImmediate(index) == Len(index) = 1 /\ index[1].k = "Num"
Index(base, index) == Node("Index", "", <<base>> \o index)

(* c is the receiver; block is a block argument (&b), literal a block {}.   *)
Send(recv, x, args, kw, kwrest, block, literal, safe) ==
    [k |-> "Send", x |-> x, c |-> <<recv>>, args |-> args, kw |-> kw, kwrest |-> kwrest,
     block |-> block, literal |-> literal, safe |-> safe]
Call(recv, x, args) == Send(recv, x, args, <<>>, <<>>, <<>>, FALSE, FALSE)

(* defined? asks for the variables in an expression one by one.            *)
RECURSIVE Checked(_)
Checked(n) ==
    CASE n.k \in {"Var", "OuterVar", "Global"} -> <<n.x>>
      [] n.k = "Ident" -> <<"true">>
      [] n.k \in {"BinOp", "LAnd", "LOr", "Match", "UnOp", "Index", "Array"} ->
           FoldLeft(LAMBDA l, m : l \o Checked(m), <<>>, n.c)
      [] n.k = "Send" -> FoldLeft(LAMBDA l, m : l \o Checked(m), <<>>, n.c \o n.args)
      [] OTHER -> <<>>

----------------------------------------------------------------------------
Term(f, a) == [f |-> f, a |-> a]
Atom(f) == Term(f, <<>>)
NilValue == Atom("nil")

(* Values whose truth is known; that of any other is a choice.             *)
Falsy == {NilValue, Atom("false")}
IntLits == {"0", "1", "2"}
Known(v) == v.a = <<>> /\ v.f \in {"nil", "false", "true", "str", "sym"} \cup IntLits

(* What a variable holds after the events of a trace.                      *)
Set(x, v) == Term("set", <<Atom(x), v>>)
Current(trace, x) ==
    LET sets == {i \in DOMAIN trace : trace[i].f = "set" /\ trace[i].a[1] = Atom(x)}
    IN  IF sets = {} THEN Atom(x)
        ELSE trace[CHOOSE i \in sets : \A j \in sets : j =< i].a[2]
=============================================================================
