------------------------------ MODULE Readable ------------------------------
(***************************************************************************)
(* The programs that the parser reads as Ruby does.  Legal excludes what   *)
(* is no program at all, or another one than the tree; Readable excludes,  *)
(* condition by condition, what the code reads differently.                *)
(***************************************************************************)
EXTENDS Grammar

RECURSIVE Nodes(_)
Nodes(n) == {n} \cup UNION {Nodes(n.c[i]) : i \in DOMAIN n.c}
Inner(n) == UNION {Nodes(n.c[i]) : i \in DOMAIN n.c}

(* The rightmost parts of n that nothing encloses.                         *)
RECURSIVE Tails(_)
Tails(n) ==
    {n} \cup IF n.k \in {"BinOp", "And", "Or", "UnOp", "Range", "Ternary", "Assign", "OpAssign", "Defined", "Splat",
                         "return", "break", "next", "Keyword", "Opt", "Key"} /\ n.c # <<>>
             THEN Tails(Last(n.c))
             ELSE IF n.k \in {"Command", "SafeCommand", "YieldCommand"}
             THEN LET c == Last(n.c).c
                      last == c[CHOOSE i \in 1 .. 3 : c[i].c # <<>> /\ \A j \in i + 1 .. 3 : c[j].c = <<>>]
                  IN  Tails(Last(last.c))
             ELSE {}

Commands == {"Command", "SafeCommand", "YieldCommand"}
FirstArg(n) == Head(ArgText(Last(n.c)))
LegalNode(n) ==
    \* No assignment to a constant and no class in a method.
    /\ n.k \in {"MethodDef", "SingletonMethodDef"} =>
         \A m \in Inner(n) : m.k \notin {"ClassDef", "ModuleDef"} /\ ~(m.k \in {"Assign", "OpAssign"} /\ m.c[1].k = "Const")
    \* Parentheses after defined? are its own.
    /\ n.k = "Defined" => n.c[1].k # "CompStmt"
    \* The first argument does not look like a block or a modifier.
    /\ n.k \in Commands => FirstArg(n) \notin {"{", "if", "unless", "while", "until"}
    /\ (n.k \in {"return", "break", "next"} /\ n.c # <<>>) => Head(Written(n.c[1])) \notin {"if", "unless", "while", "until"}

Legal(n) == \A m \in Nodes(n) : LegalNode(m)

(* The items of a list with commas.                                        *)
Items(n) ==
    CASE n.k = "Args" -> n.c[1].c \o n.c[2].c \o n.c[3].c \o n.c[4].c
      [] n.k \in {"params", "Hash", "return", "break", "next"} -> n.c
      [] OTHER -> <<>>
(* What stands in a list of right sides, except in a block of its own.     *)
RECURSIVE Exposed(_)
Exposed(n) == {n} \cup IF IsBlock(n) THEN {} ELSE UNION {Exposed(n.c[i]) : i \in DOMAIN n.c}
RightSides(n) ==
    CASE n.k \in {"Array", "list"} -> n.c
      [] n.k \in {"Index", "Assign"} -> Tail(n.c)
      [] n.k = "MulAssign" -> n.c[2].c
      [] n.k = "When" -> Front(n.c)
      [] OTHER -> <<>>

ReadableNode(n) ==
    \* A safe call without parentheses calls on nil, too.
    /\ n.k # "SafeCommand"
    \* An argument that begins with ** is an operand; one that begins with !
    \* is no argument; ( after a method encloses the arguments.
    /\ n.k \in Commands => FirstArg(n) \notin {"**", "!", "~"}
    /\ (n.k = "YieldCommand" \/ (n.k = "Command" /\ n.c[1] # Self)) => FirstArg(n) # "("
    \* A block after an argument without parentheses belongs to the argument.
    /\ (n.k = "Command" /\ BlockText(n.c[2]) # <<>>) => \A m \in Tails(n) \ {n} : m.k \notin {"Ident", "Send", "SafeSend"}
    \* Nothing follows the parentheses of yield.
    /\ (Prec(n) >= 4 /\ n.c # <<>>) => n.c[1].k # "Yield" \/ Need(n, 1) < 19
    \* A minus before a number binds more than **.
    /\ (n.k = "UnOp" /\ n.x = "-") => Written(n.c[1])[1] \notin IntegerLit
    \* No minus after **, ! and ~, and no assignment.
    /\ ((n.k = "BinOp" /\ n.x = "**") \/ (n.k = "UnOp" /\ n.x # "-")) =>
         Last(n.c).k # "Assign" /\ Head(Written(Last(n.c))) # "-"
    \* <=> is a comparison.
    /\ (n.k = "BinOp" /\ n.x = "<=>") => \A m \in {n.c[1], n.c[2]} : Prec(m) # Prec(BinOp("<", n, n))
    \* An assignment in a list takes what follows it.
    /\ \A i \in 1 .. Len(Items(n)) - 1 : \A m \in Tails(Items(n)[i]) : m.k # "Assign"
    \* In a list of right sides an assignment takes one, even in parentheses.
    /\ \A i \in DOMAIN RightSides(n) : \A m \in Exposed(RightSides(n)[i]) :
         m.k = "MulAssign" => Len(m.c[2].c) = 1 /\ m.c[2].c[1].k # "Splat"
    \* After the name that a key of a hash begins with the parser has the
    \* second token in its buffer.
    /\ (n.k = "Hash" /\ n.x # ":") => \A i \in DOMAIN n.c : i % 2 = 1 =>
         LET w == SelectSeq(Written(n.c[i]), LAMBDA t : t \notin Blank)
         IN  w[1] \notin {"yield", "defined?"} /\ (w[1] \in CanBeSymbol /\ Len(w) > 1 => w[2] \notin {"-", "+", "!", "~"})
    \* An error is assigned to a variable.
    /\ n.k = "assign" => \A i \in DOMAIN n.c : n.c[i].k \in {"Ident", "InstanceVar", "GlobalVar", "Const"}
    \* A variable that ||= declares is none on its right side.
    /\ (n.k = "OpAssign" /\ n.c[1].k = "Ident") => n.c[1] \notin Nodes(n.c[2])
    \* The path of a class has names and methods only; no class << in a method.
    /\ n.k = "ClassDef" => n.c[1].k \in {"Nil", "Const", "Scope"}
    /\ n.k \in {"MethodDef", "SingletonMethodDef"} => \A m \in Inner(n) : m.k # "SingletonClassDef"

NamesIn(m) == {n.x : n \in {k \in Nodes(m) : k.k \in {"Ident", "LocalVar"}}}
Owned(m) == UNION {n.lvars \ {q.x : q \in UNION {ToSet(n.c[i].c) : i \in {j \in DOMAIN n.c : n.c[j].k = "params"}}} :
                     n \in {k \in Nodes(m) : "lvars" \in DOMAIN k}}
ReadableMeaning(n) ==
    \* A name is a variable after its assignment only.
    /\ n.k = "MulAssign" => \A i \in DOMAIN n.c[1].c : n.c[1].c[i].k = "Ident" => LocalVar(n.c[1].c[i].x) \notin Nodes(n.c[2])
    \* A variable of a block is one of all that follows.
    /\ \A i, j \in DOMAIN n.c : i # j => Owned(n.c[i]) \cap NamesIn(n.c[j]) = {}

Readable(n, m) ==
    /\ \A k \in Nodes(n) : ReadableNode(k)
    /\ \A k \in Nodes(m) : ReadableMeaning(k)
=============================================================================
