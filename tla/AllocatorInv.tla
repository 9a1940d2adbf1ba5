----------------------------- MODULE AllocatorInv -----------------------------
(***************************************************************************)
(* The inductive invariant of Allocator, in named parts.                   *)
(***************************************************************************)
EXTENDS Allocator

(* The cells the sweep has been over.                                      *)
Scanned ==
    {c \in Cell :
        \/ \E k \in 1 .. Len(pages) :
              c[1] = pages[k] /\ (k < i \/ (k = i /\ c[2] < ptr))
        \/ c[1] = current /\ i = Len(pages) + 1 /\ c[2] < ptr
        \/ c[1] = current /\ i > Len(pages) + 1 /\ c[2] < used_in_current}

(* Where the loops of a collection are.                                    *)
Loops ==
    /\ phase = "dealloc" => i <= Len(pages)
    /\ phase = "sweep" => /\ i \in 1 .. Len(pages) + 2
                          /\ i <= Len(pages) + 1 => ptr <= SweptLen
                          /\ i = Len(pages) + 2 => ptr = 0
    /\ phase \in {"run", "dealloc", "sweep"} => stack = {}

(* Objects are in cells handed out, which are all written; what is not an  *)
(* object refers to nothing; pages not in use have no bit set.             *)
Cells ==
    /\ Live \subseteq HandedOut
    /\ \A c \in HandedOut : kind[c] # "Uninit"
    /\ \A c \in Cell : kind[c] # "Live" => refs[c] = {}
    /\ mark_bits \subseteq OnHeap

(* While nothing is freed, no live object refers to a freed one.           *)
NoDangling ==
    phase \in {"run", "mark", "mark_only"} =>
        /\ roots \subseteq Live
        /\ \A c \in Live : refs[c] \subseteq Live

(* The marked objects and the ones about to be are closed under reference. *)
Marking ==
    phase # "run" =>
        /\ mark_bits \cup stack \subseteq Live
        /\ roots \subseteq mark_bits \cup stack
        /\ \A c \in mark_bits : refs[c] \subseteq mark_bits \cup stack

(* ... and only reachable ones are marked, each counted once.              *)
MarkingExact ==
    phase # "run" =>
        /\ mark_bits \cup stack \subseteq H!Reachable(roots, refs)
        /\ IsFiniteSet(mark_bits)
        /\ mark_counter = Cardinality(mark_bits)

(* Pages behind the walk of dealloc_empty_pages hold a marked object.      *)
Pruned ==
    /\ phase = "dealloc" => \A k \in i + 1 .. Len(pages) : ~AllDead(pages[k])
    /\ phase = "sweep" => \A k \in 1 .. Len(pages) : ~AllDead(pages[k])

(* The sweep so far: each cell it passed is marked or on the new list.     *)
Sweeping ==
    phase = "sweep" =>
        /\ IsInjective(head)
        /\ Range(head) \subseteq Scanned
        /\ Range(head) \cap Live = {}
        /\ Scanned \subseteq Range(head) \cup mark_bits

(* The whole: inductive, and strong enough for the safety properties.      *)
IInv ==
    /\ TypeOK /\ Loops /\ PagesDisjoint /\ Accounting /\ Cells
    /\ NoDangling /\ Marking /\ MarkingExact /\ Pruned /\ Sweeping

=============================================================================
