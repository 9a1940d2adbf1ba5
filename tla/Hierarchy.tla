------------------------------- MODULE Hierarchy -------------------------------
(***************************************************************************)
(* Classes and modules as value/class.rs links them.  A class object is a  *)
(* cell with a pointer to the next class or module, upwards.  Including or *)
(* prepending a module links in copies of its cells: a copy shares the     *)
(* method table of its origin, `of`.  Operators on a hierarchy h, a        *)
(* function from cells to nodes.                                           *)
(***************************************************************************)
EXTENDS Integers, SequencesExt

CONSTANT Cell          \* cells 1 .. n; 0 stands for no class

ASSUME HierarchyAssumption == IsFiniteSet(Cell) /\ Cell \subseteq Nat \ {0} /\ 1 \in Cell

None == 0
Node == [upper : Cell \cup {None}, of : Cell \cup {None},
         module : BOOLEAN, included : BOOLEAN, prepended : BOOLEAN]
FreeNode == [upper |-> None, of |-> None, module |-> FALSE,
             included |-> FALSE, prepended |-> FALSE]

FreeCells(h) == {c \in Cell : h[c].of = None}

(* The next class or module upwards.  A class that something was prepended *)
(* to is passed over: a copy of it follows the prepended ones.             *)
Upper(h, c) ==
    LET skip[m \in Cell \cup {None}] ==
            IF m = None \/ ~h[m].prepended THEN m ELSE skip[h[m].upper]
    IN skip[h[c].upper]

(* The cells a search from c visits, and the classes and modules they are. *)
Chain(h, c) ==
    LET up[m \in Cell \cup {None}] == IF m = None THEN <<>> ELSE <<m>> \o up[Upper(h, m)]
    IN up[c]
Ancestors(h, c) == LET chain == Chain(h, c) IN [k \in DOMAIN chain |-> h[chain[k]].of]

(* The n lowest free cells.                                                *)
Fresh(h, n) ==
    [k \in 1 .. n |->
        CHOOSE c \in FreeCells(h) : Cardinality({d \in FreeCells(h) : d < c}) = k - 1]
Room(h, n) == Cardinality(FreeCells(h)) >= n

-----------------------------------------------------------------------------

(* A class with superclass s, or a module.                                 *)
WithClass(h, s) ==
    LET c == Fresh(h, 1)[1] IN [h EXCEPT ![c] = [FreeNode EXCEPT !.of = c, !.upper = s]]
WithModule(h) ==
    LET c == Fresh(h, 1)[1] IN [h EXCEPT ![c] = [FreeNode EXCEPT !.of = c, !.module = TRUE]]

(* Copies of module m and of all above it at the cells `to`, which lead to *)
(* the cell `last`.                                                        *)
CopiesLink_Flat(to, k, last) == last
CopiesLink_Dropped(to, k, last) == IF k < Len(to) THEN to[k + 1] ELSE None
CopiesLink(to, k, last) == IF k < Len(to) THEN to[k + 1] ELSE last
WithCopies(h, m, to, last) ==
    LET chain == Chain(h, m) IN
    [c \in Cell |->
        IF \E k \in DOMAIN to : to[k] = c
          THEN LET k == CHOOSE k \in DOMAIN to : to[k] = c IN
               [h[chain[k]] EXCEPT !.included = TRUE, !.upper = CopiesLink(to, k, last)]
          ELSE h[c]]

(* append_include                                                          *)
WithInclude(h, c, m) ==
    LET to == Fresh(h, Len(Chain(h, m))) IN
    [WithCopies(h, m, to, h[c].upper) EXCEPT ![c].upper = to[1]]

(* append_prepend: the first time, a copy of c itself is put above what    *)
(* was prepended.                                                          *)
WithPrepend(h, c, m) ==
    LET n == Len(Chain(h, m)) IN
    IF h[c].prepended THEN WithInclude(h, c, m)
    ELSE LET cells == Fresh(h, n + 1)
             self == cells[n + 1] IN
         [WithCopies(h, m, Front(cells), self) EXCEPT
             ![self] = [h[c] EXCEPT !.included = TRUE],
             ![c].upper = cells[1],
             ![c].prepended = TRUE]

(* What a collection finds from the classes `roots`: ClassInfo::mark marks *)
(* the upper cell and the origin of a copy.                                *)
Marks_NoOrigin(h, c) == {h[c].upper} \ {None}
Marks(h, c) == ({h[c].upper} \ {None}) \cup {h[c].of}
Reached(h, roots) ==
    LET reach[k \in 0 .. Cardinality(Cell)] ==
            IF k = 0 THEN roots
            ELSE LET found == reach[k - 1] IN found \cup UNION {Marks(h, c) : c \in found}
    IN reach[Cardinality(Cell)]

=============================================================================
