------------------------------ MODULE Parsing ------------------------------
(***************************************************************************)
(* One run of the parser: a program is written, the parser reads it.       *)
(***************************************************************************)
EXTENDS Parser, Readable

CONSTANTS Families,   \* sets of written trees
          Irregular   \* whether to read also what Readable excludes

VARIABLES tree,       \* the program as it is written
          result      \* what the parser made of it; not ok before

Top(t) == Comp(<<t>>)
Outside == <<[open |-> FALSE, names |-> {}]>>
Meaning(t) == Meant(Top(t), Outside).n
Intended == Meaning(tree)
Kept(t) == Printable(Top(t)) /\ Legal(t) /\ (Irregular \/ Readable(t, Meaning(t)))

Init ==
    /\ \E family \in Families : tree \in {t \in family : Kept(t)}
    /\ result = [ok |-> FALSE, n |-> Nil]

Read(r) == [ok |-> TRUE, n |-> IF r.ok THEN r.n ELSE Node("Error", "", <<>>)]
(* Parser::parse_program                                                   *)
ParseProgram ==
    /\ ~result.ok
    /\ result' = Read(Program(Lines(Top(tree))))
    /\ UNCHANGED tree

Spec == Init /\ [][ParseProgram]_<<tree, result>>

(* The same tree; with names, the same names are variables, and each block,*)
(* method and class has the variables that are its own.                    *)
RECURSIVE Same(_, _, _)
Same(n, m, names) ==
    /\ n.k = m.k \/ (~names /\ {n.k, m.k} = {"Ident", "LocalVar"})
    /\ n.x = m.x /\ Len(n.c) = Len(m.c)
    /\ (names /\ "lvars" \in DOMAIN m) => m.lvars \subseteq n.lvars
    /\ \A i \in DOMAIN n.c : Same(n.c[i], m.c[i], names)

(* A program that can be written without further parentheses is read as    *)
(* the tree that Ruby's precedences, associativities and rules for blocks, *)
(* modifiers, commands and multiple assignments give it.                   *)
ParsesAsWritten == result.ok => Same(result.n, Intended, FALSE)

(* A name is read as a variable exactly where an assignment or parameter   *)
(* before it, in a scope that it sees, declares it.                        *)
LocalsAsScoped == result.ok => Same(result.n, Intended, TRUE)
=============================================================================
