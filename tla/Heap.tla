-------------------------------- MODULE Heap --------------------------------
(***************************************************************************)
(* What a garbage-collected heap promises the interpreter, with no pages,  *)
(* no free list and no mark bits.  A cell is in use or not.  Allocation    *)
(* returns a cell that is not in use; a cell goes out of use only while    *)
(* the program cannot reach it; nobody but the program changes what an     *)
(* object in use refers to.  Allocator.tla implements this specification.  *)
(***************************************************************************)

CONSTANT Cell       \* addresses of object cells

VARIABLES live,     \* cells that hold an object
          refs,     \* refs[c]: the cells the object in c refers to
          roots     \* cells the program holds a value of

vars == <<live, refs, roots>>

-----------------------------------------------------------------------------

Closed(S, r) == \A c \in S : r[c] \subseteq S

(* The cells reachable from R: those in every closed set that includes R.  *)
Reachable(R, r) ==
    {c \in Cell : \A S \in SUBSET Cell : R \subseteq S /\ Closed(S, r) => c \in S}

-----------------------------------------------------------------------------

Init ==
    /\ live = {}
    /\ roots = {}
    /\ refs = [c \in Cell |-> {}]

New(c, kids) ==
    /\ c \in Cell \ live
    /\ kids \subseteq roots
    /\ live' = live \cup {c}
    /\ refs' = [refs EXCEPT ![c] = kids]
    /\ roots' = roots \cup {c}

Mutate(c, kids) ==
    /\ c \in roots
    /\ kids \subseteq roots \cup refs[c]
    /\ refs' = [refs EXCEPT ![c] = kids]
    /\ UNCHANGED <<live, roots>>

Load(c, d) ==
    /\ c \in roots
    /\ d \in refs[c]
    /\ roots' = roots \cup {d}
    /\ UNCHANGED <<live, refs>>

Forget(c) ==
    /\ c \in roots
    /\ roots' = roots \ {c}
    /\ UNCHANGED <<live, refs>>

(* Any number of objects go out of use at once, none of them reachable.    *)
Reclaim(dead) ==
    /\ dead \subseteq live \ Reachable(roots, refs)
    /\ live' = live \ dead
    /\ refs' = [c \in Cell |-> IF c \in dead THEN {} ELSE refs[c]]
    /\ UNCHANGED roots

Next ==
    \/ \E c \in Cell, kids \in SUBSET roots : New(c, kids)
    \/ \E c \in roots : \E kids \in SUBSET (roots \cup refs[c]) : Mutate(c, kids)
    \/ \E c, d \in Cell : Load(c, d)
    \/ \E c \in roots : Forget(c)
    \/ \E dead \in SUBSET live : Reclaim(dead)

Spec == Init /\ [][Next]_vars

=============================================================================
