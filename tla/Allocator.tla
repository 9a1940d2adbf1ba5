------------------------------ MODULE Allocator ------------------------------
(***************************************************************************)
(* The page allocator and the mark-and-sweep collector of alloc.rs, with   *)
(* the part of the interpreter that uses them (the mutator): it allocates, *)
(* stores, loads and drops references, switches the collector on and off   *)
(* and reaches safepoints.                                                 *)
(*                                                                         *)
(* A collection is one call in the code, made while nothing else runs; it  *)
(* is spread here over the iterations of its loops (phase # "run"), so     *)
(* that what one loop leaves for the next is a state to look at.           *)
(***************************************************************************)
EXTENDS Integers, FiniteSets, SequencesExt

CONSTANTS Page,       \* page frames the operating system can hand out
          DATA_LEN,   \* cells in a page (64 * 63 in the code)
          THRESHOLD,  \* cell of a page whose use requests a collection
          MaxKids,    \* bound: references an object holds
          MaxRoots    \* bound: values the program holds at once

ASSUME AllocatorAssumption ==
    /\ DATA_LEN \in Nat \ {0}
    /\ THRESHOLD \in 1 .. DATA_LEN - 1
    /\ MaxKids \in Nat /\ MaxRoots \in Nat

VARIABLES
    used_in_current,  \* cells of `current` handed out by bumping
    current,          \* page the bump cursor is in
    pages,            \* full pages, a Vec
    free_pages,       \* pages found empty, kept for reuse, a Vec
    free,             \* the free list, from its head
    free_list_count,
    mark_bits,        \* cells whose bit is set, whatever page they are on
    mark_counter,
    alloc_flag,       \* a collection is requested
    gc_enabled,
    kind,             \* contents of a cell
    refs,             \* cells the object in a cell refers to
    roots,            \* cells the mutator holds a reference to
    phase,            \* loop of the collection being executed
    stack,            \* references still to follow while marking
    i,                \* page index of the loop over pages
    ptr,              \* cell index of the loop over a page
    head              \* free list being rebuilt by the sweep

pageVars == <<used_in_current, current, pages, free_pages>>
freeVars == <<free, free_list_count>>
markVars == <<mark_bits, mark_counter>>
heapVars == <<kind, refs, roots>>
loopVars == <<i, ptr, head>>
flagVars == <<alloc_flag, gc_enabled>>
vars == <<pageVars, freeVars, markVars, flagVars, heapVars, phase, stack, loopVars>>

Index == 0 .. DATA_LEN - 1
Cell == Page \X Index
CellsOf(p) == {p} \X Index

(* "Uninit": memory of a page nothing was written to; "Invalid": freed.    *)
Kind == {"Uninit", "Invalid", "Live"}
Phase == {"run", "mark", "mark_only", "dealloc", "sweep"}

AllPages == Range(pages)
FreePages == Range(free_pages)

(* Pages never asked of the operating system.                              *)
Fresh == Page \ ({current} \cup AllPages \cup FreePages)

Live == {c \in Cell : kind[c] = "Live"}

H == INSTANCE Heap WITH live <- Live

-----------------------------------------------------------------------------
(* The mutator between collections.                                        *)

Init ==
    /\ \E p \in Page : \E garbage \in SUBSET CellsOf(p) :
          current = p /\ mark_bits = garbage
    /\ used_in_current = 0
    /\ pages = <<>> /\ free_pages = <<>>
    /\ free = <<>> /\ free_list_count = 0
    /\ mark_counter = 0
    /\ alloc_flag = FALSE /\ gc_enabled = TRUE
    /\ kind = [c \in Cell |-> "Uninit"]
    /\ refs = [c \in Cell |-> {}]
    /\ roots = {}
    /\ phase = "run" /\ stack = {}
    /\ i = 0 /\ ptr = 0 /\ head = <<>>

Hold(c) ==
    /\ roots' = roots \cup {c}
    /\ Cardinality(roots') <= MaxRoots

(* std::ptr::write of the new object into its cell; the caller keeps the   *)
(* reference it gets.                                                      *)
Write(c, kids) ==
    /\ kind' = [kind EXCEPT ![c] = "Live"]
    /\ refs' = [refs EXCEPT ![c] = kids]
    /\ Hold(c)

Kids(from) == {kids \in SUBSET from : Cardinality(kids) <= MaxKids}

AllocFromFreeList(kids) ==
    /\ phase = "run" /\ free # <<>>
    /\ Write(Head(free), kids)
    /\ free' = Tail(free)
    /\ free_list_count' = free_list_count - 1
    /\ UNCHANGED <<pageVars, markVars, flagVars, phase, stack, loopVars>>

PageFull_OffByOne == used_in_current > DATA_LEN
PageFull == used_in_current = DATA_LEN

AtThreshold_Unreached == used_in_current = DATA_LEN
AtThreshold == used_in_current = THRESHOLD

AllocBump(kids) ==
    /\ phase = "run" /\ free = <<>> /\ ~PageFull
    /\ alloc_flag' = (alloc_flag \/ (AtThreshold /\ gc_enabled))
    /\ Write(<<current, used_in_current>>, kids)
    /\ used_in_current' = used_in_current + 1
    /\ UNCHANGED <<current, pages, free_pages, freeVars, markVars, gc_enabled,
                   phase, stack, loopVars>>

FreePagesPopped_NotRemoved == free_pages
FreePagesPopped == Front(free_pages)

(* The current page is full: take the page freed last, else a new one,     *)
(* whose memory and mark bits are whatever they are.                       *)
AllocNewPage(kids) ==
    /\ phase = "run" /\ free = <<>> /\ PageFull
    /\ used_in_current' = 1
    /\ pages' = Append(pages, current)
    /\ \/ /\ free_pages # <<>>
          /\ current' = Last(free_pages)
          /\ free_pages' = FreePagesPopped
          /\ UNCHANGED mark_bits
       \/ /\ free_pages = <<>>
          /\ current' \in Fresh
          /\ \E garbage \in SUBSET CellsOf(current') : mark_bits' = mark_bits \cup garbage
          /\ UNCHANGED free_pages
    /\ Write(<<current', 0>>, kids)
    /\ UNCHANGED <<freeVars, mark_counter, flagVars, phase, stack, loopVars>>

Alloc == \E kids \in Kids(roots) :
            AllocFromFreeList(kids) \/ AllocBump(kids) \/ AllocNewPage(kids)

(* Store into, read from and drop the values the mutator holds.            *)
Store(c, kids) ==
    /\ phase = "run"
    /\ refs' = [refs EXCEPT ![c] = kids]
    /\ UNCHANGED <<pageVars, freeVars, markVars, flagVars, kind, roots, phase, stack, loopVars>>

LoadRef(c, d) ==
    /\ phase = "run"
    /\ Hold(d)
    /\ UNCHANGED <<pageVars, freeVars, markVars, flagVars, kind, refs, phase, stack, loopVars>>

Drop(c) ==
    /\ phase = "run"
    /\ roots' = roots \ {c}
    /\ UNCHANGED <<pageVars, freeVars, markVars, flagVars, kind, refs, phase, stack, loopVars>>

(* GC.enable and GC.disable                                                *)
SetEnabled(on) ==
    /\ phase = "run"
    /\ gc_enabled' = on
    /\ UNCHANGED <<pageVars, freeVars, markVars, alloc_flag, heapVars, phase, stack, loopVars>>

-----------------------------------------------------------------------------
(* The collection.                                                         *)

HeapPages == AllPages \cup {current}
OnHeap == {c \in Cell : c[1] \in HeapPages}

(* clear_mark leaves no bit set on a page in use.                          *)
ClearMark_FullPagesOnly == {c \in mark_bits : c[1] \notin AllPages}
ClearMark == mark_bits \ OnHeap

(* clear_mark, then the call of root.mark.                                 *)
BeginMark(next) ==
    /\ phase = "run"
    /\ phase' = next
    /\ mark_bits' = ClearMark
    /\ mark_counter' = 0
    /\ stack' = roots
    /\ UNCHANGED <<pageVars, freeVars, flagVars, heapVars, loopVars>>

(* VM::gc at a safepoint (a loop's back jump, the entry of a method), the  *)
(* explicit GC.start, and GC.print_mark, which marks and frees nothing.    *)
Safepoint == alloc_flag /\ BeginMark("mark")
Start == BeginMark("mark")
PrintMark == BeginMark("mark_only")

AlreadyMarked_Followed(c) == (stack \ {c}) \cup refs[c]
AlreadyMarked(c) == stack \ {c}

SetBit(c) == mark_bits \cup {c}

ReferencesOf_None(c) == {}
ReferencesOf(c) == refs[c]

(* GCBox::gc_mark of one reference: an unmarked object is marked and what  *)
(* it refers to is to be marked.                                           *)
MarkPtr(c) ==
    /\ phase \in {"mark", "mark_only"} /\ c \in stack
    /\ \/ /\ c \in mark_bits
          /\ stack' = AlreadyMarked(c)
          /\ UNCHANGED markVars
       \/ /\ c \notin mark_bits
          /\ mark_bits' = SetBit(c)
          /\ mark_counter' = mark_counter + 1
          /\ stack' = (stack \ {c}) \cup ReferencesOf(c)
    /\ UNCHANGED <<pageVars, freeVars, flagVars, heapVars, phase, loopVars>>

EndMarkOnly ==
    /\ phase = "mark_only" /\ stack = {}
    /\ phase' = "run"
    /\ UNCHANGED <<pageVars, freeVars, markVars, flagVars, heapVars, stack, loopVars>>

EndMark ==
    /\ phase = "mark" /\ stack = {}
    /\ phase' = "dealloc"
    /\ i' = Len(pages)
    /\ UNCHANGED <<pageVars, freeVars, markVars, flagVars, heapVars, stack, ptr, head>>

AllDead_NotLastWord(p) == {c \in CellsOf(p) : c[2] < DATA_LEN - 1} \cap mark_bits = {}
AllDead(p) == CellsOf(p) \cap mark_bits = {}

(* RValue::free of every cell of the set: what it held is dropped.         *)
FreeCells(cells) ==
    /\ kind' = [c \in Cell |-> IF c \in cells THEN "Invalid" ELSE kind[c]]
    /\ refs' = [c \in Cell |-> IF c \in cells THEN {} ELSE refs[c]]

(* One iteration of dealloc_empty_pages, from the last page to the first.  *)
DeallocPage ==
    /\ phase = "dealloc" /\ i > 0
    /\ i' = i - 1
    /\ \/ /\ AllDead(pages[i])
          /\ FreeCells(CellsOf(pages[i]))
          /\ free_pages' = Append(free_pages, pages[i])
          /\ pages' = RemoveAt(pages, i)
       \/ /\ ~AllDead(pages[i])
          /\ UNCHANGED <<kind, refs, free_pages, pages>>
    /\ UNCHANGED <<used_in_current, current, freeVars, markVars, flagVars,
                   roots, phase, stack, ptr, head>>

EndDealloc ==
    /\ phase = "dealloc" /\ i = 0
    /\ phase' = "sweep"
    /\ i' = 1 /\ ptr' = 0 /\ head' = <<>>
    /\ UNCHANGED <<pageVars, freeVars, markVars, flagVars, heapVars, stack>>

(* The page the sweep is in: the full pages, then the current one, of      *)
(* which only the cells handed out are visited.                            *)
SweptPage == IF i <= Len(pages) THEN pages[i] ELSE current
SweptLen_WholePage == DATA_LEN
SweptLen == IF i <= Len(pages) THEN DATA_LEN ELSE used_in_current

SweepCell ==
    /\ phase = "sweep" /\ i <= Len(pages) + 1 /\ ptr < SweptLen
    /\ ptr' = ptr + 1
    /\ LET c == <<SweptPage, ptr>> IN
       \/ /\ c \in mark_bits
          /\ UNCHANGED <<kind, refs, head>>
       \/ /\ c \notin mark_bits
          /\ head' = Append(head, c)
          /\ FreeCells({c})
    /\ UNCHANGED <<pageVars, freeVars, markVars, flagVars, roots, phase, stack, i>>

SweepNextPage ==
    /\ phase = "sweep" /\ i <= Len(pages) + 1 /\ ptr = SweptLen
    /\ i' = i + 1 /\ ptr' = 0
    /\ UNCHANGED <<pageVars, freeVars, markVars, flagVars, heapVars, phase, stack, head>>

NewFreeList_Kept == free \o head
NewFreeList == head

EndSweep ==
    /\ phase = "sweep" /\ i = Len(pages) + 2
    /\ free' = NewFreeList /\ free_list_count' = Len(head)
    /\ alloc_flag' = FALSE
    /\ phase' = "run"
    /\ i' = 0 /\ head' = <<>>
    /\ UNCHANGED <<pageVars, markVars, gc_enabled, heapVars, stack, ptr>>

Mutator ==
    \/ Alloc
    \/ \E c \in roots : \E kids \in Kids(roots \cup refs[c]) : Store(c, kids)
    \/ \E c \in roots : \E d \in refs[c] : LoadRef(c, d)
    \/ \E c \in roots : Drop(c)
    \/ \E on \in BOOLEAN : SetEnabled(on)

Collector ==
    \/ \E c \in Cell : MarkPtr(c)
    \/ EndMarkOnly \/ EndMark \/ DeallocPage \/ EndDealloc
    \/ SweepCell \/ SweepNextPage \/ EndSweep

Next == Mutator \/ Safepoint \/ Start \/ PrintMark \/ Collector

Spec == Init /\ [][Next]_vars

(* A collection is a loop in a single thread: once begun, it runs.  That   *)
(* the program reaches another safepoint is not assumed.                   *)
FairSpec == Spec /\ WF_vars(Collector)

-----------------------------------------------------------------------------
(* Properties                                                              *)

(* Every variable has its type.                                            *)
TypeOK ==
    /\ used_in_current \in 0 .. DATA_LEN
    /\ current \in Page
    /\ pages \in Seq(Page) /\ free_pages \in Seq(Page)
    /\ free \in Seq(Cell) /\ free_list_count \in Int
    /\ mark_bits \subseteq Cell /\ mark_counter \in Nat
    /\ alloc_flag \in BOOLEAN /\ gc_enabled \in BOOLEAN
    /\ kind \in [Cell -> Kind]
    /\ refs \in [Cell -> SUBSET Cell]
    /\ roots \subseteq Cell
    /\ phase \in Phase /\ stack \subseteq Cell
    /\ i \in Nat /\ ptr \in Nat /\ head \in Seq(Cell)

(* Cells that were handed out since their page was taken into use.         *)
HandedOut == {c \in Cell : \/ c[1] \in AllPages
                           \/ c[1] = current /\ c[2] < used_in_current}

(* A page is current, full or free, never two of these and never listed    *)
(* twice: dealloc_empty_pages moves pages between the lists while it       *)
(* walks one of them.                                                      *)
PagesDisjoint ==
    /\ IsInjective(pages) /\ IsInjective(free_pages)
    /\ current \notin AllPages \cup FreePages
    /\ AllPages \cap FreePages = {}

(* While the program runs, the cells handed out are exactly the live ones  *)
(* and the ones on the free list, each on it once and counted once: no     *)
(* cell leaks, none is given out twice, none of a page that was given back *)
(* is still on the list.                                                   *)
Accounting ==
    phase \in {"run", "mark", "mark_only"} =>
        /\ IsInjective(free)
        /\ Range(free) \cap Live = {}
        /\ Range(free) \cup Live = HandedOut
        /\ free_list_count = Len(free)

(* Marking never meets a freed cell, where RValue::mark panics.            *)
NoInvalidMarked == \A c \in stack : kind[c] = "Live"

(* The sweep never runs RValue::free on memory nobody initialised.         *)
FreeInitialised ==
    [][\A c \in Cell : kind'[c] = "Invalid" => kind[c] # "Uninit"]_vars

(* When a collection ends, the objects left are the reachable ones, their  *)
(* number is the one GC.stat reports, and every full page kept holds one.  *)
CollectionExact ==
    phase = "sweep" /\ i > Len(pages) + 1 =>
        /\ Live = H!Reachable(roots, refs)
        /\ mark_counter = Cardinality(Live)
        /\ \A p \in AllPages : Live \cap CellsOf(p) # {}

(* The allocator is the abstract heap, whose objects are the live cells.   *)
HeapSpec == H!Spec

(* A collection that begins ends, over cyclic structures as well.          *)
CollectionEnds == phase # "run" ~> phase = "run"

=============================================================================
