--------------------------- MODULE AllocatorProofs ---------------------------
(***************************************************************************)
(* Proofs about Allocator, for every number of pages and cells: the        *)
(* invariant IInv of AllocatorInv is inductive, the safety properties      *)
(* follow from it, the allocator implements Heap, and with the threshold   *)
(* of AllocatorTrigger a collection is requested in time.                  *)
(***************************************************************************)
EXTENDS AllocatorTrigger, AllocatorInv, FiniteSetTheorems, SequenceFacts, TLAPS

-----------------------------------------------------------------------------
(* Building blocks: what stays when the pages stay, what a write and a     *)
(* free do, and reachability.                                              *)

LEMMA PagesFrame ==
  ASSUME PagesDisjoint, UNCHANGED pageVars
  PROVE  /\ PagesDisjoint'
         /\ AllPages' = AllPages /\ FreePages' = FreePages
         /\ HandedOut' = HandedOut /\ OnHeap' = OnHeap
<1>1. AllPages' = AllPages /\ FreePages' = FreePages
  BY DEF pageVars, AllPages, FreePages, Range
<1>2. HandedOut' = HandedOut /\ OnHeap' = OnHeap
  BY <1>1 DEF pageVars, HandedOut, OnHeap, HeapPages
<1>3. IsInjective(pages)' /\ IsInjective(free_pages)'
  BY DEF PagesDisjoint, IsInjective, pageVars
<1> QED BY <1>1, <1>2, <1>3 DEF PagesDisjoint, pageVars

LEMMA WriteFacts ==
  ASSUME TypeOK, NEW c \in Cell, NEW kids \in SUBSET Cell, Write(c, kids)
  PROVE  /\ kind' \in [Cell -> Kind] /\ refs' \in [Cell -> SUBSET Cell]
         /\ roots' = roots \cup {c} /\ roots' \subseteq Cell
         /\ Live' = Live \cup {c}
         /\ kind'[c] = "Live" /\ refs'[c] = kids
         /\ \A d \in Cell \ {c} : kind'[d] = kind[d] /\ refs'[d] = refs[d]
  BY DEF TypeOK, Write, Hold, Live, Kind

LEMMA FreeFacts ==
  ASSUME TypeOK, NEW cells \in SUBSET Cell, FreeCells(cells)
  PROVE  /\ kind' \in [Cell -> Kind] /\ refs' \in [Cell -> SUBSET Cell]
         /\ Live' = Live \ cells
         /\ \A d \in cells : kind'[d] = "Invalid" /\ refs'[d] = {}
         /\ \A d \in Cell \ cells : kind'[d] = kind[d] /\ refs'[d] = refs[d]
  BY DEF TypeOK, FreeCells, Live, Kind

LEMMA ReachRoots ==
  ASSUME NEW R \in SUBSET Cell, NEW r
  PROVE  R \subseteq H!Reachable(R, r)
  BY DEF H!Reachable

LEMMA ReachStep ==
  ASSUME NEW R, NEW r \in [Cell -> SUBSET Cell], NEW c \in H!Reachable(R, r)
  PROVE  r[c] \subseteq H!Reachable(R, r)
  BY DEF H!Reachable, H!Closed

LEMMA ReachLeast ==
  ASSUME NEW R, NEW r, NEW S \in SUBSET Cell,
         R \subseteq S, \A c \in S : r[c] \subseteq S
  PROVE  H!Reachable(R, r) \subseteq S
  BY DEF H!Reachable, H!Closed

LEMMA ReachKept ==
  ASSUME NEW R, NEW M \in SUBSET Cell, NEW r, NEW q,
         R \subseteq M, \A c \in M : r[c] \subseteq M /\ q[c] = r[c]
  PROVE  H!Reachable(R, r) \subseteq H!Reachable(R, q)
<1> SUFFICES ASSUME NEW c \in H!Reachable(R, r), NEW S \in SUBSET Cell,
                    R \subseteq S, H!Closed(S, q)
             PROVE  c \in S
  BY DEF H!Reachable
<1>1. H!Reachable(R, r) \subseteq S \cap M
  <2>1. \A d \in S \cap M : r[d] \subseteq S \cap M
    BY DEF H!Closed
  <2> QED BY <2>1, ReachLeast
<1> QED BY <1>1

-----------------------------------------------------------------------------
(* Every action of the mutator preserves the invariant.                    *)

LEMMA InitInv == Init => IInv
<1> SUFFICES ASSUME Init PROVE IInv
  OBVIOUS
<1>1. TypeOK
  <2>1. current \in Page /\ mark_bits \subseteq Cell
    BY DEF Init, CellsOf, Cell
  <2>2. 0 \in 0 .. DATA_LEN
    BY AllocatorAssumption
  <2>3. /\ pages \in Seq(Page) /\ free_pages \in Seq(Page)
        /\ free \in Seq(Cell) /\ head \in Seq(Cell)
    BY DEF Init
  <2>4. kind \in [Cell -> Kind] /\ refs \in [Cell -> SUBSET Cell] /\ phase \in Phase
    BY DEF Init, Kind, Phase
  <2>5. /\ used_in_current = 0 /\ free_list_count = 0 /\ mark_counter = 0
        /\ roots = {} /\ stack = {} /\ i = 0 /\ ptr = 0
    BY DEF Init
  <2>6. alloc_flag \in BOOLEAN
    BY DEF Init
  <2>7. gc_enabled \in BOOLEAN
    BY DEF Init
  <2> QED BY <2>1, <2>2, <2>3, <2>4, <2>5, <2>6, <2>7 DEF TypeOK
<1>2. /\ pages = <<>> /\ free_pages = <<>> /\ free = <<>> /\ used_in_current = 0
      /\ phase = "run" /\ stack = {} /\ roots = {} /\ free_list_count = 0
      /\ Live = {}
  BY DEF Init, Live
<1>3. AllPages = {} /\ FreePages = {} /\ Range(free) = {} /\ HandedOut = {}
  <2>1. \A d \in Cell : ~(d[2] < 0)
    BY AllocatorAssumption DEF Cell, Index
  <2> QED BY <1>2, <2>1 DEF AllPages, FreePages, Range, HandedOut
<1>4. PagesDisjoint
  BY <1>2, <1>3 DEF PagesDisjoint, IsInjective
<1>5. Accounting
  BY <1>2, <1>3 DEF Accounting, IsInjective
<1>6. Cells
  <2>1. mark_bits \subseteq OnHeap
    BY <1>1 DEF Init, OnHeap, HeapPages, CellsOf, TypeOK
  <2>2. \A c \in Cell : refs[c] = {}
    BY DEF Init
  <2> QED BY <1>2, <1>3, <2>1, <2>2 DEF Cells
<1>7. Loops /\ NoDangling /\ Marking /\ MarkingExact /\ Pruned /\ Sweeping
  BY <1>2 DEF Loops, NoDangling, Marking, MarkingExact, Pruned, Sweeping
<1> QED BY <1>1, <1>4, <1>5, <1>6, <1>7 DEF IInv

LEMMA AllocFromFreeListInv ==
  ASSUME IInv, NEW kids \in Kids(roots), AllocFromFreeList(kids)
  PROVE  IInv'
<1> DEFINE c == Head(free)
<1>1. free \in Seq(Cell) /\ free # <<>> /\ IsInjective(free)
  BY DEF AllocFromFreeList, IInv, TypeOK, Accounting
<1>2. c \in Cell /\ c \notin Live /\ c \in HandedOut
  BY <1>1, TailFacts, TailElements DEF IInv, Accounting, AllocFromFreeList
<1>3. kids \in SUBSET Cell /\ kids \subseteq roots
  BY DEF Kids, IInv, TypeOK
<1>4. Write(c, kids)
  BY DEF AllocFromFreeList
<1>5. TypeOK'
  BY <1>1, <1>2, <1>3, <1>4, TailFacts, WriteFacts
  DEF IInv, TypeOK, AllocFromFreeList, pageVars, markVars, flagVars, loopVars
<1>6. Loops' /\ Marking' /\ MarkingExact' /\ Pruned' /\ Sweeping'
  BY DEF IInv, Loops, Marking, MarkingExact, Pruned, Sweeping, AllocFromFreeList
<1>7. PagesDisjoint' /\ HandedOut' = HandedOut /\ OnHeap' = OnHeap
  BY PagesFrame DEF IInv, AllocFromFreeList
<1>8. Live' = Live \cup {c}
  BY <1>2, <1>3, <1>4, WriteFacts DEF IInv
<1>9. Accounting'
  <2>1. free' = Tail(free) /\ free_list_count' = free_list_count - 1
    BY DEF AllocFromFreeList
  <2>2. free_list_count = Len(free) /\ Range(free) \cap Live = {}
        /\ Range(free) \cup Live = HandedOut
    BY DEF IInv, Accounting, AllocFromFreeList
  <2>3. IsInjective(free') /\ Range(free) = Range(free') \cup {c} /\ c \notin Range(free')
    BY <1>1, <2>1, TailElements
  <2>4. free_list_count' = Len(free')
    BY <1>1, <2>1, <2>2, TailFacts
  <2> QED BY <2>2, <2>3, <2>4, <1>7, <1>8 DEF Accounting
<1>10. Cells'
  BY <1>2, <1>3, <1>4, <1>7, <1>8, WriteFacts
  DEF IInv, Cells, AllocFromFreeList, markVars, HandedOut, Live
<1>11. NoDangling'
  BY <1>2, <1>3, <1>4, <1>8, WriteFacts
  DEF IInv, NoDangling, AllocFromFreeList, Live
<1> QED BY <1>5, <1>6, <1>7, <1>9, <1>10, <1>11 DEF IInv

LEMMA AllocBumpInv ==
  ASSUME IInv, NEW kids \in Kids(roots), AllocBump(kids)
  PROVE  IInv'
<1> DEFINE c == <<current, used_in_current>>
<1>1. used_in_current \in 0 .. DATA_LEN - 1 /\ c \in Cell
  BY AllocatorAssumption DEF IInv, TypeOK, AllocBump, PageFull, Cell, Index
<1>2. c \notin HandedOut /\ c \notin Live
  BY <1>1 DEF HandedOut, IInv, PagesDisjoint, Cells
<1>3. kids \in SUBSET Cell /\ kids \subseteq roots
  BY DEF Kids, IInv, TypeOK
<1>4. Write(c, kids)
  BY DEF AllocBump
<1>5. TypeOK'
  BY <1>1, <1>3, <1>4, WriteFacts, AllocatorAssumption
  DEF IInv, TypeOK, AllocBump, freeVars, markVars, loopVars, AtThreshold
<1>6. Loops' /\ Marking' /\ MarkingExact' /\ Pruned' /\ Sweeping'
  BY DEF IInv, Loops, Marking, MarkingExact, Pruned, Sweeping, AllocBump
<1>7. /\ AllPages' = AllPages /\ FreePages' = FreePages /\ current' = current
      /\ OnHeap' = OnHeap
  BY DEF AllocBump, AllPages, FreePages, OnHeap, HeapPages
<1>8. PagesDisjoint'
  <2>1. IsInjective(pages)' /\ IsInjective(free_pages)'
    BY DEF IInv, PagesDisjoint, AllocBump, IsInjective
  <2> QED BY <1>7, <2>1 DEF IInv, PagesDisjoint
<1>9. Live' = Live \cup {c}
  BY <1>1, <1>3, <1>4, WriteFacts DEF IInv
<1>10. HandedOut' = HandedOut \cup {c}
  <2>1. used_in_current' = used_in_current + 1
    BY DEF AllocBump
  <2>2. \A d \in Cell : d[2] \in Int /\ (d = c <=> d[1] = current /\ d[2] = used_in_current)
    BY <1>1 DEF Cell, Index
  <2> QED BY <1>1, <1>7, <2>1, <2>2 DEF HandedOut
<1>11. Accounting'
  <2>1. UNCHANGED freeVars /\ Range(free) = {} /\ free = <<>> /\ Range(free') = {}
    BY DEF AllocBump, freeVars, Range
  <2> QED BY <1>2, <1>9, <1>10, <2>1
      DEF IInv, Accounting, AllocBump, freeVars, IsInjective
<1>12. Cells'
  BY <1>1, <1>3, <1>4, <1>7, <1>9, <1>10, WriteFacts
  DEF IInv, Cells, AllocBump, markVars, HandedOut, Live
<1>13. NoDangling'
  BY <1>1, <1>3, <1>4, <1>9, WriteFacts
  DEF IInv, NoDangling, AllocBump, Live
<1> QED BY <1>5, <1>6, <1>8, <1>11, <1>12, <1>13 DEF IInv

LEMMA AllocNewPageInv ==
  ASSUME IInv, NEW kids \in Kids(roots), AllocNewPage(kids)
  PROVE  IInv'
<1> DEFINE c == <<current', 0>>
<1>1. /\ pages' \in Seq(Page) /\ IsInjective(pages')
      /\ AllPages' = AllPages \cup {current}
  BY AppendFacts, AppendElements
  DEF IInv, TypeOK, PagesDisjoint, AllPages, AllocNewPage
<1>2. /\ free_pages' \in Seq(Page) /\ IsInjective(free_pages')
      /\ current' \in Page \ (AllPages \cup {current}) /\ FreePages' = FreePages \ {current'}
      /\ mark_bits \subseteq mark_bits' /\ mark_bits' \subseteq mark_bits \cup CellsOf(current')
  <2>1. CASE free_pages # <<>> /\ current' = Last(free_pages)
               /\ free_pages' = FreePagesPopped /\ UNCHANGED mark_bits
    BY <2>1, FrontFacts, FrontElements
    DEF IInv, TypeOK, PagesDisjoint, FreePages, FreePagesPopped
  <2>2. CASE /\ free_pages = <<>> /\ current' \in Fresh
             /\ \E garbage \in SUBSET CellsOf(current') : mark_bits' = mark_bits \cup garbage
             /\ UNCHANGED free_pages
    <3>1. FreePages = {} /\ FreePages' = {}
      BY <2>2 DEF FreePages, Range
    <3> QED BY <2>2, <3>1 DEF IInv, TypeOK, PagesDisjoint, Fresh, IsInjective
  <2> QED BY <2>1, <2>2 DEF AllocNewPage
<1>3. c \in Cell /\ CellsOf(current') \subseteq Cell
  BY <1>2, AllocatorAssumption DEF Cell, Index, CellsOf
<1>4. c \notin HandedOut /\ c \notin Live
  BY <1>2 DEF HandedOut, IInv, Cells
<1>5. kids \in SUBSET Cell /\ kids \subseteq roots
  BY DEF Kids, IInv, TypeOK
<1>6. Write(c, kids) /\ used_in_current' = 1 /\ used_in_current = DATA_LEN
  BY DEF AllocNewPage, PageFull
<1>7. TypeOK'
  BY <1>1, <1>2, <1>3, <1>5, <1>6, WriteFacts, AllocatorAssumption
  DEF IInv, TypeOK, AllocNewPage, freeVars, flagVars, loopVars
<1>8. Loops' /\ Marking' /\ MarkingExact' /\ Pruned' /\ Sweeping'
  BY DEF IInv, Loops, Marking, MarkingExact, Pruned, Sweeping, AllocNewPage
<1>9. PagesDisjoint'
  BY <1>1, <1>2 DEF IInv, PagesDisjoint
<1>10. Live' = Live \cup {c}
  BY <1>3, <1>5, <1>6, WriteFacts DEF IInv
<1>11. HandedOut' = HandedOut \cup {c}
  <2>1. \A d \in Cell : /\ d[2] \in 0 .. DATA_LEN - 1
                        /\ d = c <=> d[1] = current' /\ d[2] < 1
    BY <1>2, AllocatorAssumption DEF Cell, Index
  <2>2. HandedOut = {d \in Cell : d[1] \in AllPages \cup {current}}
    BY <1>6, <2>1, AllocatorAssumption DEF HandedOut
  <2>3. HandedOut' = {d \in Cell : d[1] \in AllPages \cup {current} \/ d = c}
    BY <1>1, <1>6, <2>1 DEF HandedOut
  <2> QED BY <1>3, <2>2, <2>3
<1>12. Accounting'
  <2>1. UNCHANGED freeVars /\ Range(free) = {} /\ free = <<>> /\ Range(free') = {}
    BY DEF AllocNewPage, freeVars, Range
  <2> QED BY <1>4, <1>10, <1>11, <2>1
      DEF IInv, Accounting, AllocNewPage, freeVars, IsInjective
<1>13. Cells'
  <2>1. mark_bits' \subseteq OnHeap'
    BY <1>1, <1>2, <1>3 DEF IInv, TypeOK, Cells, OnHeap, HeapPages, CellsOf
  <2> QED BY <1>3, <1>5, <1>6, <1>10, <1>11, <2>1, WriteFacts
      DEF IInv, Cells, HandedOut, Live
<1>14. NoDangling'
  BY <1>3, <1>5, <1>6, <1>10, WriteFacts
  DEF IInv, NoDangling, AllocNewPage, Live
<1> QED BY <1>7, <1>8, <1>9, <1>12, <1>13, <1>14 DEF IInv

LEMMA StoreInv ==
  ASSUME IInv, NEW c \in roots, NEW kids \in Kids(roots \cup refs[c]), Store(c, kids)
  PROVE  IInv'
<1>1. c \in Live /\ kids \subseteq Live /\ kids \in SUBSET Cell /\ c \in Cell
  BY DEF IInv, NoDangling, Store, Kids, Live
<1>2. refs' \in [Cell -> SUBSET Cell] /\ refs'[c] = kids
      /\ \A d \in Cell \ {c} : refs'[d] = refs[d]
  BY <1>1 DEF IInv, TypeOK, Store
<1>3. UNCHANGED <<pageVars, freeVars, markVars, flagVars, kind, roots, phase, stack, loopVars>>
      /\ phase = "run" /\ Live' = Live
  BY DEF Store, Live
<1>4. PagesDisjoint' /\ HandedOut' = HandedOut /\ OnHeap' = OnHeap
  BY <1>3, PagesFrame DEF IInv
<1>5. TypeOK'
  BY <1>2, <1>3 DEF IInv, TypeOK, pageVars, freeVars, markVars, flagVars, loopVars
<1>6. Loops' /\ Marking' /\ MarkingExact' /\ Pruned' /\ Sweeping' /\ Accounting'
  BY <1>3, <1>4
  DEF IInv, Loops, Marking, MarkingExact, Pruned, Sweeping, Accounting, freeVars
<1>7. Cells' /\ NoDangling'
  BY <1>1, <1>2, <1>3, <1>4 DEF IInv, Cells, NoDangling, markVars, HandedOut, Live
<1> QED BY <1>4, <1>5, <1>6, <1>7 DEF IInv

LEMMA RootsInv ==
  ASSUME IInv, phase = "run", NEW R \in SUBSET Live, roots' = R,
         UNCHANGED <<pageVars, freeVars, markVars, flagVars, kind, refs, phase, stack, loopVars>>
  PROVE  IInv'
<1>1. Live' = Live /\ R \subseteq Cell
  BY DEF Live
<1>2. PagesDisjoint' /\ HandedOut' = HandedOut /\ OnHeap' = OnHeap
  BY PagesFrame DEF IInv
<1>3. TypeOK'
  BY <1>1 DEF IInv, TypeOK, pageVars, freeVars, markVars, flagVars, loopVars
<1>4. Loops' /\ Marking' /\ MarkingExact' /\ Pruned' /\ Sweeping' /\ Accounting'
  BY <1>1, <1>2
  DEF IInv, Loops, Marking, MarkingExact, Pruned, Sweeping, Accounting, freeVars
<1>5. Cells' /\ NoDangling'
  BY <1>1, <1>2 DEF IInv, Cells, NoDangling, markVars
<1> QED BY <1>2, <1>3, <1>4, <1>5 DEF IInv

LEMMA SetEnabledInv ==
  ASSUME IInv, NEW on \in BOOLEAN, SetEnabled(on)
  PROVE  IInv'
<1>1. UNCHANGED <<pageVars, freeVars, markVars, alloc_flag, heapVars, phase, stack, loopVars>>
      /\ phase = "run" /\ gc_enabled' = on /\ Live' = Live
  BY DEF SetEnabled, heapVars, Live
<1>2. PagesDisjoint' /\ HandedOut' = HandedOut /\ OnHeap' = OnHeap
  BY <1>1, PagesFrame DEF IInv
<1>3. TypeOK'
  BY <1>1 DEF IInv, TypeOK, pageVars, freeVars, markVars, heapVars, loopVars
<1>4. Loops' /\ Marking' /\ MarkingExact' /\ Pruned' /\ Sweeping' /\ Accounting'
  BY <1>1, <1>2
  DEF IInv, Loops, Marking, MarkingExact, Pruned, Sweeping, Accounting, freeVars
<1>5. Cells' /\ NoDangling'
  BY <1>1, <1>2 DEF IInv, Cells, NoDangling, markVars, heapVars
<1> QED BY <1>2, <1>3, <1>4, <1>5 DEF IInv

-----------------------------------------------------------------------------
(* Every step of a collection preserves the invariant.                     *)

LEMMA BeginMarkInv ==
  ASSUME IInv, NEW next \in {"mark", "mark_only"}, BeginMark(next)
  PROVE  IInv'
<1>1. /\ UNCHANGED <<pageVars, freeVars, flagVars, heapVars, loopVars>>
      /\ phase = "run" /\ phase' = next /\ stack' = roots /\ mark_counter' = 0
      /\ Live' = Live
  BY DEF BeginMark, Live, heapVars
<1>2. mark_bits' = {}
  BY DEF BeginMark, ClearMark, IInv, Cells
<1>3. PagesDisjoint' /\ HandedOut' = HandedOut /\ OnHeap' = OnHeap
  BY <1>1, PagesFrame DEF IInv
<1>4. TypeOK'
  BY <1>1, <1>2 DEF IInv, TypeOK, Phase, pageVars, freeVars, heapVars, flagVars, loopVars
<1>5. Loops' /\ Pruned' /\ Sweeping'
  BY <1>1 DEF Loops, Pruned, Sweeping
<1>6. Accounting' /\ Cells' /\ NoDangling'
  BY <1>1, <1>2, <1>3
  DEF IInv, Accounting, Cells, NoDangling, freeVars, heapVars
<1>7. Marking'
  BY <1>1, <1>2 DEF IInv, Marking, NoDangling, heapVars
<1>8. MarkingExact'
  <2>1. roots \subseteq H!Reachable(roots, refs)
    BY ReachRoots DEF IInv, TypeOK
  <2>2. H!Reachable(roots, refs)' = H!Reachable(roots, refs)
    BY <1>1 DEF heapVars
  <2>3. IsFiniteSet({}) /\ Cardinality({}) = 0
    BY FS_EmptySet
  <2> QED BY <1>1, <1>2, <2>1, <2>2, <2>3 DEF MarkingExact
<1> QED BY <1>3, <1>4, <1>5, <1>6, <1>7, <1>8 DEF IInv

LEMMA MarkPtrInv ==
  ASSUME IInv, NEW c \in Cell, MarkPtr(c)
  PROVE  IInv'
<1>1. /\ UNCHANGED <<pageVars, freeVars, flagVars, heapVars, phase, loopVars>>
      /\ phase \in {"mark", "mark_only"} /\ c \in stack
      /\ Live' = Live
  BY DEF MarkPtr, Live, heapVars
<1>2. H!Reachable(roots, refs)' = H!Reachable(roots, refs)
  BY <1>1 DEF heapVars
<1>3. /\ c \in Live /\ c \in OnHeap /\ c \in H!Reachable(roots, refs)
      /\ refs[c] \subseteq Live /\ refs[c] \subseteq H!Reachable(roots, refs)
  BY <1>1, ReachStep
  DEF IInv, TypeOK, Cells, Marking, MarkingExact, NoDangling, HandedOut, OnHeap, HeapPages
<1>4. mark_bits' = mark_bits \cup {c}
  BY DEF MarkPtr, SetBit, markVars
<1>5. /\ stack \ {c} \subseteq stack'
      /\ stack' \subseteq (stack \ {c}) \cup refs[c]
      /\ c \notin mark_bits => refs[c] \subseteq stack'
  BY DEF MarkPtr, AlreadyMarked, ReferencesOf
<1>6. PagesDisjoint' /\ HandedOut' = HandedOut /\ OnHeap' = OnHeap
  BY <1>1, PagesFrame DEF IInv
<1>7. mark_counter' = Cardinality(mark_bits') /\ IsFiniteSet(mark_bits')
  <2>1. IsFiniteSet(mark_bits) /\ mark_counter = Cardinality(mark_bits)
    BY <1>1 DEF IInv, MarkingExact
  <2>2. CASE c \in mark_bits
    BY <1>4, <2>1, <2>2 DEF MarkPtr, markVars
  <2>3. CASE c \notin mark_bits
    BY <1>4, <2>1, <2>3, FS_AddElement DEF MarkPtr
  <2> QED BY <2>2, <2>3
<1>8. TypeOK'
  BY <1>1, <1>3, <1>4, <1>5, <1>7, FS_CardinalityType
  DEF IInv, TypeOK, pageVars, freeVars, heapVars, flagVars, loopVars, Live
<1>9. Loops' /\ Pruned' /\ Sweeping'
  BY <1>1 DEF Loops, Pruned, Sweeping
<1>10. Accounting' /\ Cells' /\ NoDangling'
  BY <1>1, <1>3, <1>4, <1>6
  DEF IInv, Accounting, Cells, NoDangling, freeVars, heapVars
<1>11. Marking'
  <2>1. /\ mark_bits \cup stack \subseteq Live
        /\ roots \subseteq mark_bits \cup stack
        /\ \A d \in mark_bits : refs[d] \subseteq mark_bits \cup stack
    BY <1>1 DEF IInv, Marking
  <2>2. mark_bits \cup stack \subseteq mark_bits' \cup stack'
    BY <1>4, <1>5
  <2>3. \A d \in mark_bits' : refs[d] \subseteq mark_bits' \cup stack'
    BY <1>4, <1>5, <2>1, <2>2
  <2> QED BY <1>1, <1>3, <1>4, <1>5, <2>1, <2>2, <2>3 DEF Marking, heapVars
<1>12. MarkingExact'
  BY <1>1, <1>2, <1>3, <1>4, <1>5, <1>7 DEF IInv, MarkingExact
<1> QED BY <1>6, <1>8, <1>9, <1>10, <1>11, <1>12 DEF IInv

LEMMA EndMarkOnlyInv ==
  ASSUME IInv, EndMarkOnly
  PROVE  IInv'
<1>1. UNCHANGED <<pageVars, freeVars, markVars, flagVars, heapVars, stack, loopVars>>
      /\ phase = "mark_only" /\ stack = {} /\ phase' = "run" /\ Live' = Live
  BY DEF EndMarkOnly, heapVars, Live
<1>2. PagesDisjoint' /\ HandedOut' = HandedOut /\ OnHeap' = OnHeap
  BY <1>1, PagesFrame DEF IInv
<1>3. TypeOK'
  BY <1>1 DEF IInv, TypeOK, Phase, pageVars, freeVars, markVars, heapVars, flagVars, loopVars
<1>4. Loops' /\ Marking' /\ MarkingExact' /\ Pruned' /\ Sweeping' /\ Accounting'
  BY <1>1, <1>2
  DEF IInv, Loops, Marking, MarkingExact, Pruned, Sweeping, Accounting, freeVars
<1>5. Cells' /\ NoDangling'
  BY <1>1, <1>2 DEF IInv, Cells, NoDangling, markVars, heapVars
<1> QED BY <1>2, <1>3, <1>4, <1>5 DEF IInv

LEMMA EndMarkInv ==
  ASSUME IInv, EndMark
  PROVE  IInv'
<1>1. UNCHANGED <<pageVars, freeVars, markVars, flagVars, heapVars, stack, ptr, head>>
      /\ phase = "mark" /\ stack = {} /\ phase' = "dealloc" /\ i' = Len(pages) /\ Live' = Live
  BY DEF EndMark, heapVars, Live
<1>2. PagesDisjoint' /\ HandedOut' = HandedOut /\ OnHeap' = OnHeap /\ pages' = pages
  BY <1>1, PagesFrame DEF IInv, pageVars
<1>3. Len(pages) \in Nat
  BY DEF IInv, TypeOK
<1>4. TypeOK'
  BY <1>1, <1>3 DEF IInv, TypeOK, Phase, pageVars, freeVars, markVars, heapVars, flagVars
<1>5. Loops' /\ Pruned' /\ Sweeping' /\ Accounting' /\ NoDangling'
  BY <1>1, <1>2, <1>3 DEF Loops, Pruned, Sweeping, Accounting, NoDangling
<1>6. Cells' /\ Marking' /\ MarkingExact'
  BY <1>1, <1>2 DEF IInv, Cells, Marking, MarkingExact, markVars, heapVars
<1> QED BY <1>2, <1>4, <1>5, <1>6 DEF IInv

LEMMA DeallocPageInv ==
  ASSUME IInv, DeallocPage
  PROVE  IInv'
<1>1. /\ UNCHANGED <<used_in_current, current, freeVars, markVars, flagVars,
                     roots, phase, stack, ptr, head>>
      /\ phase = "dealloc" /\ i' = i - 1 /\ i \in 1 .. Len(pages) /\ stack = {}
      /\ pages \in Seq(Page) /\ IsInjective(pages) /\ Len(pages) \in Nat
  BY DEF DeallocPage, IInv, TypeOK, Loops, PagesDisjoint
<1>2. /\ mark_bits \in SUBSET Cell /\ mark_bits \subseteq Live
      /\ roots \subseteq mark_bits
      /\ \A c \in mark_bits : refs[c] \subseteq mark_bits
      /\ refs \in [Cell -> SUBSET Cell]
  BY <1>1 DEF IInv, TypeOK, Marking
<1>3. Sweeping' /\ Accounting' /\ NoDangling'
  BY <1>1 DEF Sweeping, Accounting, NoDangling
<1>4. CASE ~AllDead(pages[i]) /\ UNCHANGED <<kind, refs, free_pages, pages>>
  <2>1. UNCHANGED pageVars /\ Live' = Live
    BY <1>1, <1>4 DEF pageVars, Live
  <2>2. PagesDisjoint' /\ HandedOut' = HandedOut /\ OnHeap' = OnHeap
    BY <2>1, PagesFrame DEF IInv
  <2>3. TypeOK'
    BY <1>1, <1>4 DEF IInv, TypeOK, freeVars, markVars, flagVars
  <2>4. Loops'
    BY <1>1, <1>4 DEF Loops
  <2>5. Cells'
    BY <1>1, <1>4, <2>2, <2>1 DEF IInv, Cells, markVars
  <2>6. Marking' /\ MarkingExact'
    BY <1>1, <1>4, <2>1 DEF IInv, Marking, MarkingExact, markVars
  <2>7. Pruned'
    BY <1>1, <1>4 DEF IInv, Pruned, AllDead, markVars
  <2> QED BY <1>3, <2>2, <2>3, <2>4, <2>5, <2>6, <2>7 DEF IInv
<1>5. CASE /\ AllDead(pages[i])
           /\ FreeCells(CellsOf(pages[i]))
           /\ free_pages' = Append(free_pages, pages[i])
           /\ pages' = RemoveAt(pages, i)
  <2> DEFINE p == pages[i]
  <2>1. p \in Page /\ CellsOf(p) \in SUBSET Cell /\ CellsOf(p) \cap mark_bits = {}
        /\ \A c \in Cell : c \in CellsOf(p) <=> c[1] = p
    BY <1>1, <1>5 DEF CellsOf, Cell, AllDead
  <2>2. /\ pages' \in Seq(Page) /\ Len(pages') = Len(pages) - 1
        /\ \A j \in 1 .. Len(pages) - 1 :
              pages'[j] = IF j < i THEN pages[j] ELSE pages[j + 1]
    BY <1>1, <1>5, RemoveAtFacts
  <2>3. /\ IsInjective(pages') /\ AllPages' = AllPages \ {p} /\ p \in AllPages
    BY <1>1, <1>5, RemoveAtElements DEF AllPages
  <2>4. /\ free_pages' \in Seq(Page) /\ IsInjective(free_pages')
        /\ FreePages' = FreePages \cup {p}
    BY <1>5, <2>1, <2>3, AppendFacts, AppendElements
    DEF IInv, TypeOK, PagesDisjoint, FreePages
  <2>5. /\ kind' \in [Cell -> Kind] /\ refs' \in [Cell -> SUBSET Cell]
        /\ Live' = Live \ CellsOf(p)
        /\ \A d \in CellsOf(p) : kind'[d] = "Invalid" /\ refs'[d] = {}
        /\ \A d \in Cell \ CellsOf(p) : kind'[d] = kind[d] /\ refs'[d] = refs[d]
    BY <1>5, <2>1, FreeFacts DEF IInv
  <2>6. TypeOK'
    BY <1>1, <2>2, <2>4, <2>5 DEF IInv, TypeOK, freeVars, markVars, flagVars
  <2>7. Loops'
    BY <1>1, <2>2 DEF Loops
  <2>8. PagesDisjoint'
    BY <1>1, <2>3, <2>4 DEF IInv, PagesDisjoint
  <2>9. HandedOut' = HandedOut \ CellsOf(p)
    BY <1>1, <2>1, <2>3 DEF HandedOut, IInv, PagesDisjoint
  <2>10. Cells'
    <3>1. mark_bits' \subseteq OnHeap'
      BY <1>1, <2>1, <2>3 DEF IInv, Cells, OnHeap, HeapPages, markVars
    <3> QED BY <2>1, <2>5, <2>9, <3>1 DEF IInv, Cells, HandedOut
  <2>11. Marking'
    BY <1>1, <1>2, <2>1, <2>5 DEF Marking, markVars
  <2>12. MarkingExact'
    <3>1. H!Reachable(roots, refs) \subseteq H!Reachable(roots, refs')
      BY <1>2, <2>1, <2>5, ReachKept
    <3> QED BY <1>1, <3>1 DEF IInv, MarkingExact, markVars
  <2>13. Pruned'
    <3>1. ASSUME NEW k \in i .. Len(pages) - 1 PROVE ~AllDead(pages[k + 1])
      BY <1>1, <3>1 DEF IInv, Pruned
    <3>2. \A k \in i .. Len(pages) - 1 : pages'[k] = pages[k + 1]
      BY <1>1, <2>2
    <3> QED BY <1>1, <2>2, <3>1, <3>2 DEF Pruned, AllDead, markVars
  <2> QED BY <1>3, <2>6, <2>7, <2>8, <2>10, <2>11, <2>12, <2>13 DEF IInv
<1> QED BY <1>4, <1>5 DEF DeallocPage

LEMMA EndDeallocInv ==
  ASSUME IInv, EndDealloc
  PROVE  IInv'
<1>1. /\ UNCHANGED <<pageVars, freeVars, markVars, flagVars, heapVars, stack>>
      /\ phase = "dealloc" /\ phase' = "sweep" /\ i = 0
      /\ i' = 1 /\ ptr' = 0 /\ head' = <<>> /\ Live' = Live
  BY DEF EndDealloc, heapVars, Live
<1>2. PagesDisjoint' /\ HandedOut' = HandedOut /\ OnHeap' = OnHeap /\ pages' = pages
  BY <1>1, PagesFrame DEF IInv, pageVars
<1>3. Len(pages) \in Nat /\ used_in_current \in Nat
  BY DEF IInv, TypeOK
<1>4. TypeOK'
  BY <1>1 DEF IInv, TypeOK, Phase, pageVars, freeVars, markVars, heapVars, flagVars
<1>5. Loops'
  BY <1>1, <1>2, <1>3, AllocatorAssumption DEF IInv, Loops, SweptLen, pageVars
<1>6. Cells' /\ Marking' /\ MarkingExact' /\ Accounting' /\ NoDangling'
  BY <1>1, <1>2
  DEF IInv, Cells, Marking, MarkingExact, Accounting, NoDangling, markVars, heapVars
<1>7. Pruned'
  <2>1. \A k \in 1 .. Len(pages) : ~AllDead(pages[k])
    BY <1>1 DEF IInv, Pruned
  <2> QED BY <1>1, <1>2, <2>1 DEF Pruned, AllDead, markVars
<1>8. Sweeping'
  <2>1. Scanned' = {}
    BY <1>1, <1>2, <1>3 DEF Scanned, Cell, Index
  <2>2. IsInjective(<<>>) /\ Range(<<>>) = {}
    BY DEF IsInjective, Range
  <2> QED BY <1>1, <2>1, <2>2 DEF Sweeping
<1> QED BY <1>2, <1>4, <1>5, <1>6, <1>7, <1>8 DEF IInv

LEMMA SweptCell ==
  ASSUME IInv, SweepCell
  PROVE  /\ <<SweptPage, ptr>> \in Cell /\ <<SweptPage, ptr>> \in HandedOut
         /\ SweptPage' = SweptPage /\ SweptLen' = SweptLen
<1>1. /\ UNCHANGED <<pageVars, i>>
      /\ i \in 1 .. Len(pages) + 1 /\ Len(pages) \in Nat
      /\ ptr \in Nat /\ ptr < SweptLen /\ used_in_current \in 0 .. DATA_LEN
  BY DEF SweepCell, IInv, Loops, TypeOK
<1>2. CASE i <= Len(pages)
  <2>1. SweptPage = pages[i] /\ SweptLen = DATA_LEN /\ pages[i] \in AllPages
        /\ pages[i] \in Page
    BY <1>1, <1>2 DEF SweptPage, SweptLen, AllPages, Range, IInv, TypeOK
  <2> QED BY <1>1, <1>2, <2>1, AllocatorAssumption
      DEF SweptPage, SweptLen, Cell, Index, HandedOut, pageVars
<1>3. CASE i = Len(pages) + 1
  <2>1. SweptPage = current /\ SweptLen = used_in_current /\ current \in Page
    BY <1>1, <1>3 DEF SweptPage, SweptLen, IInv, TypeOK
  <2> QED BY <1>1, <1>3, <2>1, AllocatorAssumption
      DEF SweptPage, SweptLen, Cell, Index, HandedOut, pageVars
<1> QED BY <1>1, <1>2, <1>3

LEMMA SweepCellInv ==
  ASSUME IInv, SweepCell
  PROVE  IInv'
<1> DEFINE c == <<SweptPage, ptr>>
<1>1. /\ UNCHANGED <<pageVars, freeVars, markVars, flagVars, roots, phase, stack, i>>
      /\ phase = "sweep" /\ i \in 1 .. Len(pages) + 1 /\ Len(pages) \in Nat
      /\ ptr \in Nat /\ ptr < SweptLen /\ ptr' = ptr + 1 /\ stack = {}
      /\ used_in_current \in 0 .. DATA_LEN
  BY DEF SweepCell, IInv, Loops, TypeOK
<1>2. /\ c \in Cell /\ c \in HandedOut
      /\ SweptPage' = SweptPage /\ SweptLen' = SweptLen
  BY SweptCell
<1>3. PagesDisjoint' /\ HandedOut' = HandedOut /\ OnHeap' = OnHeap
  BY <1>1, PagesFrame DEF IInv
<1>4. \/ c \in mark_bits /\ UNCHANGED <<kind, refs, head>>
      \/ c \notin mark_bits /\ head' = Append(head, c) /\ FreeCells({c})
  BY DEF SweepCell
<1>5. /\ kind' \in [Cell -> Kind] /\ refs' \in [Cell -> SUBSET Cell]
      /\ Live' \subseteq Live /\ Live \subseteq Live' \cup {c}
      /\ c \in mark_bits <=> c \in Live'
      /\ \A d \in Cell \ {c} : kind'[d] = kind[d] /\ refs'[d] = refs[d]
      /\ \A d \in mark_bits : refs'[d] = refs[d]
      /\ c \notin mark_bits => kind'[c] = "Invalid" /\ refs'[c] = {}
  <2>1. mark_bits \subseteq Live /\ kind \in [Cell -> Kind] /\ refs \in [Cell -> SUBSET Cell]
    BY <1>1 DEF IInv, Marking, TypeOK
  <2>2. CASE c \in mark_bits /\ UNCHANGED <<kind, refs, head>>
    <3>1. Live' = Live
      BY <2>2 DEF Live
    <3> HIDE DEF c
    <3> QED BY <2>1, <2>2, <3>1
  <2>3. CASE c \notin mark_bits /\ FreeCells({c})
    <3>1. {c} \in SUBSET Cell
      BY <1>2
    <3>2. /\ kind' \in [Cell -> Kind] /\ refs' \in [Cell -> SUBSET Cell]
          /\ Live' = Live \ {c} /\ kind'[c] = "Invalid" /\ refs'[c] = {}
          /\ \A d \in Cell \ {c} : kind'[d] = kind[d] /\ refs'[d] = refs[d]
      BY <2>3, <3>1, FreeFacts DEF IInv
    <3>3. mark_bits \subseteq Cell
      BY DEF IInv, TypeOK
    <3> HIDE DEF c
    <3> QED BY <2>1, <2>3, <3>2, <3>3
  <2> QED BY <1>4, <2>2, <2>3
<1>6. head' \in Seq(Cell) /\ Range(head') = Range(head) \cup (IF c \in mark_bits THEN {} ELSE {c})
      /\ (IsInjective(head) /\ c \notin Range(head) => IsInjective(head'))
  <2>1. head \in Seq(Cell)
    BY DEF IInv, TypeOK
  <2>2. CASE c \in mark_bits
    BY <1>4, <2>1, <2>2
  <2>3. CASE c \notin mark_bits
    <3>1. head' = Append(head, c)
      BY <1>4, <2>3
    <3> HIDE DEF c
    <3>2. /\ head' \in Seq(Cell) /\ Range(head') = Range(head) \cup {c}
          /\ IsInjective(head) /\ c \notin Range(head) => IsInjective(head')
      BY <1>2, <2>1, <3>1, AppendFacts, AppendElements
    <3> QED BY <2>3, <3>2
  <2> QED BY <2>2, <2>3
<1>7. TypeOK'
  BY <1>1, <1>5, <1>6 DEF IInv, TypeOK, pageVars, freeVars, markVars, flagVars
<1>8. Loops'
  BY <1>1, <1>2, AllocatorAssumption DEF IInv, Loops, SweptLen, pageVars
<1>9. Accounting' /\ NoDangling'
  BY <1>1 DEF Accounting, NoDangling
<1>10. Pruned'
  BY <1>1 DEF IInv, Pruned, AllDead, pageVars, markVars
<1>11. Cells'
  BY <1>1, <1>2, <1>3, <1>5 DEF IInv, Cells, HandedOut, Live, markVars
<1>12. Marking'
  BY <1>1, <1>2, <1>5 DEF IInv, Marking, markVars
<1>13. MarkingExact'
  <2>1. /\ roots \subseteq mark_bits /\ mark_bits \in SUBSET Cell
        /\ \A d \in mark_bits : refs[d] \subseteq mark_bits
    BY <1>1 DEF IInv, Marking, TypeOK
  <2>2. H!Reachable(roots, refs) \subseteq H!Reachable(roots, refs')
    BY <1>5, <2>1, ReachKept
  <2> QED BY <1>1, <2>2 DEF IInv, MarkingExact, markVars
<1>14. Scanned' = Scanned \cup {c} /\ c \notin Scanned
  <2>1. \A d \in Cell : /\ d[2] \in Nat
                        /\ d = c <=> d[1] = SweptPage /\ d[2] = ptr
                        /\ d[2] < ptr' <=> d[2] < ptr \/ d[2] = ptr
    BY <1>1 DEF Cell, Index
  <2>2. CASE i <= Len(pages)
    <3>1. SweptPage = pages[i] /\ pages[i] # current
          /\ \A k \in 1 .. Len(pages) : pages[k] = pages[i] => k = i
      BY <1>1, <2>2 DEF SweptPage, IInv, PagesDisjoint, IsInjective, AllPages, Range
    <3>2. c \notin Scanned
      BY <1>1, <2>2, <3>1 DEF Scanned
    <3>3. Scanned' = {d \in Cell : d \in Scanned \/ d = c}
      BY <1>1, <2>1, <2>2, <3>1 DEF Scanned, pageVars
    <3> QED BY <1>2, <3>2, <3>3 DEF Scanned
  <2>3. CASE i = Len(pages) + 1
    <3>1. SweptPage = current /\ \A k \in 1 .. Len(pages) : pages[k] # current
      BY <1>1, <2>3 DEF SweptPage, IInv, PagesDisjoint, AllPages, Range
    <3>2. c \notin Scanned
      BY <1>1, <2>3, <3>1 DEF Scanned
    <3>3. Scanned' = {d \in Cell : d \in Scanned \/ d = c}
      BY <1>1, <2>1, <2>3, <3>1 DEF Scanned, pageVars
    <3> QED BY <1>2, <3>2, <3>3 DEF Scanned
  <2> QED BY <1>1, <2>2, <2>3
<1>15. Sweeping'
  <2>1. /\ IsInjective(head) /\ Range(head) \subseteq Scanned
        /\ Range(head) \cap Live = {} /\ Scanned \subseteq Range(head) \cup mark_bits
    BY <1>1 DEF IInv, Sweeping
  <2>2. Range(head') \cap Live' = {}
    BY <1>5, <1>6, <2>1
  <2> QED BY <1>1, <1>6, <1>14, <2>1, <2>2 DEF Sweeping, markVars
<1> QED BY <1>3, <1>7, <1>8, <1>9, <1>10, <1>11, <1>12, <1>13, <1>15 DEF IInv

LEMMA ScannedAtEnd ==
  ASSUME TypeOK, i = Len(pages) + 2
  PROVE  Scanned = HandedOut
<1>1. Len(pages) \in Nat
  BY DEF TypeOK
<1>2. DOMAIN pages = 1 .. Len(pages)
  BY DEF TypeOK
<1>3. ASSUME NEW p PROVE p \in AllPages <=> \E k \in 1 .. Len(pages) : p = pages[k]
  BY <1>2, Zenon DEF AllPages, Range
<1>4. \A d \in Cell : d[1] \in AllPages <=> \E k \in 1 .. Len(pages) : d[1] = pages[k]
  BY <1>3, Zenon
<1> QED BY <1>1, <1>4 DEF Scanned, HandedOut

LEMMA SweepNextPageInv ==
  ASSUME IInv, SweepNextPage
  PROVE  IInv'
<1>1. /\ UNCHANGED <<pageVars, freeVars, markVars, flagVars, heapVars, phase, stack, head>>
      /\ phase = "sweep" /\ i \in 1 .. Len(pages) + 1 /\ Len(pages) \in Nat
      /\ ptr = SweptLen /\ i' = i + 1 /\ ptr' = 0 /\ Live' = Live
      /\ used_in_current \in 0 .. DATA_LEN
  BY DEF SweepNextPage, IInv, Loops, TypeOK, heapVars, Live
<1>2. PagesDisjoint' /\ HandedOut' = HandedOut /\ OnHeap' = OnHeap
  BY <1>1, PagesFrame DEF IInv
<1>3. TypeOK'
  BY <1>1 DEF IInv, TypeOK, pageVars, freeVars, markVars, heapVars, flagVars
<1>4. Loops'
  BY <1>1, AllocatorAssumption DEF IInv, Loops, SweptLen, pageVars
<1>5. Accounting' /\ NoDangling' /\ Cells' /\ Marking' /\ MarkingExact'
  BY <1>1, <1>2
  DEF IInv, Accounting, NoDangling, Cells, Marking, MarkingExact, markVars, heapVars
<1>6. Pruned'
  BY <1>1 DEF IInv, Pruned, AllDead, pageVars, markVars
<1>7. Scanned' = Scanned
  <2>1. \A d \in Cell : d[2] \in 0 .. DATA_LEN - 1
    BY DEF Cell, Index
  <2>2. CASE i <= Len(pages)
    <3>1. ptr = DATA_LEN
      BY <1>1, <2>2 DEF SweptLen
    <3>2. \A d \in Cell : \A k \in 1 .. Len(pages) :
             (k < i \/ (k = i /\ d[2] < ptr)) <=> (k < i' \/ (k = i' /\ d[2] < ptr'))
      BY <1>1, <2>1, <2>2, <3>1, AllocatorAssumption
    <3>3. \A d \in Cell : ~(d[2] < ptr')
      BY <1>1, <2>1, AllocatorAssumption
    <3> QED BY <1>1, <2>2, <3>2, <3>3 DEF Scanned, pageVars
  <2>3. CASE i = Len(pages) + 1
    <3>1. ptr = used_in_current
      BY <1>1, <2>3 DEF SweptLen
    <3> QED BY <1>1, <2>3, <3>1 DEF Scanned, pageVars
  <2> QED BY <1>1, <2>2, <2>3
<1>8. Sweeping'
  BY <1>1, <1>7 DEF IInv, Sweeping, markVars
<1> QED BY <1>2, <1>3, <1>4, <1>5, <1>6, <1>8 DEF IInv

LEMMA SweptLive ==
  ASSUME IInv, phase = "sweep", i = Len(pages) + 2
  PROVE  /\ Live = mark_bits
         /\ Range(head) \cap Live = {} /\ Range(head) \cup Live = HandedOut
<1>1. Scanned = HandedOut
  BY ScannedAtEnd DEF IInv
<1>2. mark_bits \subseteq Live /\ Live \subseteq HandedOut
  BY DEF IInv, Marking, Cells
<1> QED BY <1>1, <1>2 DEF IInv, Sweeping

LEMMA EndSweepInv ==
  ASSUME IInv, EndSweep
  PROVE  IInv'
<1>1. /\ UNCHANGED <<pageVars, markVars, gc_enabled, heapVars, stack, ptr>>
      /\ phase = "sweep" /\ phase' = "run" /\ i = Len(pages) + 2
      /\ i' = 0 /\ head' = <<>> /\ alloc_flag' = FALSE /\ stack = {}
      /\ free' = head /\ free_list_count' = Len(head) /\ Live' = Live
  BY DEF EndSweep, NewFreeList, heapVars, Live, IInv, Loops
<1>2. PagesDisjoint' /\ HandedOut' = HandedOut /\ OnHeap' = OnHeap
  BY <1>1, PagesFrame DEF IInv
<1>3. TypeOK'
  <2>1. head \in Seq(Cell) /\ Len(head) \in Int
    BY DEF IInv, TypeOK
  <2>2. free' \in Seq(Cell) /\ free_list_count' \in Int /\ head' \in Seq(Cell)
    BY <1>1, <2>1
  <2>3. alloc_flag' \in BOOLEAN /\ phase' \in Phase /\ i' \in Nat
    BY <1>1 DEF Phase
  <2> QED BY <1>1, <2>2, <2>3 DEF IInv, TypeOK, pageVars, markVars, heapVars
<1>4. Loops' /\ Marking' /\ MarkingExact' /\ Pruned' /\ Sweeping'
  BY <1>1 DEF Loops, Marking, MarkingExact, Pruned, Sweeping
<1>5. Accounting'
  <2>1. IsInjective(head)
    BY <1>1 DEF IInv, Sweeping
  <2> QED BY <1>1, <1>2, <2>1, SweptLive DEF Accounting
<1>6. Cells' /\ NoDangling'
  <2>1. roots \subseteq Live /\ \A c \in Live : refs[c] \subseteq Live
    BY <1>1, SweptLive DEF IInv, Marking
  <2> QED BY <1>1, <1>2, <2>1 DEF IInv, Cells, NoDangling, markVars, heapVars
<1> QED BY <1>2, <1>3, <1>4, <1>5, <1>6 DEF IInv

LEMMA StutterInv == ASSUME IInv, UNCHANGED vars PROVE IInv'
<1>1. /\ UNCHANGED <<pageVars, freeVars, markVars, flagVars, heapVars, phase, stack, loopVars>>
      /\ Live' = Live
  BY DEF vars, Live, heapVars
<1>2. PagesDisjoint' /\ HandedOut' = HandedOut /\ OnHeap' = OnHeap
  BY <1>1, PagesFrame DEF IInv
<1>3. TypeOK'
  BY <1>1 DEF IInv, TypeOK, pageVars, freeVars, markVars, heapVars, flagVars, loopVars
<1>4. Loops' /\ Pruned'
  BY <1>1 DEF IInv, Loops, Pruned, SweptLen, AllDead, pageVars, markVars, loopVars
<1>5. Accounting' /\ Cells' /\ NoDangling'
  BY <1>1, <1>2 DEF IInv, Accounting, Cells, NoDangling, freeVars, markVars, heapVars
<1>6. Marking' /\ MarkingExact'
  BY <1>1 DEF IInv, Marking, MarkingExact, markVars, heapVars
<1>7. Sweeping'
  <2>1. Scanned' = Scanned
    BY <1>1 DEF Scanned, pageVars, loopVars
  <2> QED BY <1>1, <2>1 DEF IInv, Sweeping, markVars, loopVars
<1> QED BY <1>2, <1>3, <1>4, <1>5, <1>6, <1>7 DEF IInv

LEMMA StepInv == IInv /\ [Next]_vars => IInv'
<1> SUFFICES ASSUME IInv, [Next]_vars PROVE IInv'
  OBVIOUS
<1>1. CASE Alloc
  BY <1>1, AllocFromFreeListInv, AllocBumpInv, AllocNewPageInv DEF Alloc
<1>2. ASSUME NEW c \in roots, NEW kids \in Kids(roots \cup refs[c]), Store(c, kids)
      PROVE  IInv'
  BY <1>2, StoreInv
<1>3. ASSUME NEW c \in roots, NEW d \in refs[c], LoadRef(c, d)
      PROVE  IInv'
  <2>1. roots \cup {d} \in SUBSET Live
    BY <1>3 DEF IInv, NoDangling, LoadRef
  <2> QED BY <1>3, <2>1, RootsInv DEF LoadRef, Hold
<1>4. ASSUME NEW c \in roots, Drop(c)
      PROVE  IInv'
  <2>1. roots \ {c} \in SUBSET Live
    BY <1>4 DEF IInv, NoDangling, Drop
  <2> QED BY <1>4, <2>1, RootsInv DEF Drop
<1>5. CASE \E on \in BOOLEAN : SetEnabled(on)
  BY <1>5, SetEnabledInv
<1>6. CASE Safepoint \/ Start \/ PrintMark
  BY <1>6, BeginMarkInv DEF Safepoint, Start, PrintMark
<1>7. CASE Collector
  BY <1>7, MarkPtrInv, EndMarkOnlyInv, EndMarkInv, DeallocPageInv, EndDeallocInv,
     SweepCellInv, SweepNextPageInv, EndSweepInv
  DEF Collector
<1>8. CASE UNCHANGED vars
  BY <1>8, StutterInv
<1> QED BY <1>1, <1>2, <1>3, <1>4, <1>5, <1>6, <1>7, <1>8 DEF Next, Mutator

-----------------------------------------------------------------------------
(* The theorems.                                                           *)

(* The inductive invariant holds of every behaviour.                       *)
THEOREM Invariance == Spec => []IInv
<1>1. Init => IInv
  BY InitInv
<1>2. IInv /\ [Next]_vars => IInv'
  BY StepInv
<1> QED BY <1>1, <1>2, PTL DEF Spec

(* Every variable has its type.                                            *)
THEOREM TypeCorrect == Spec => []TypeOK
<1>1. IInv => TypeOK
  BY DEF IInv
<1> QED BY <1>1, Invariance, PTL

(* The page lists never share a page (dealloc_empty_pages, alloc).         *)
THEOREM PagesStayDisjoint == Spec => []PagesDisjoint
<1>1. IInv => PagesDisjoint
  BY DEF IInv
<1> QED BY <1>1, Invariance, PTL

(* While the program runs every cell handed out is live or once on the     *)
(* free list: alloc never returns a cell in use, the sweep loses none.     *)
THEOREM CellsAccounted == Spec => []Accounting
<1>1. IInv => Accounting
  BY DEF IInv
<1> QED BY <1>1, Invariance, PTL

(* The panic of RValue::mark on a freed cell is not reached.               *)
THEOREM MarkNeverPanics == Spec => []NoInvalidMarked
<1>1. IInv => NoInvalidMarked
  BY DEF IInv, TypeOK, Loops, Phase, Marking, NoInvalidMarked, Live
<1> QED BY <1>1, Invariance, PTL

(* A collection leaves the reachable objects and nothing else.             *)
THEOREM CollectionIsExact == Spec => []CollectionExact
<1>1. IInv => CollectionExact
  <2> SUFFICES ASSUME IInv, phase = "sweep", i > Len(pages) + 1
               PROVE  /\ Live = H!Reachable(roots, refs)
                      /\ mark_counter = Cardinality(Live)
                      /\ \A p \in AllPages : Live \cap CellsOf(p) # {}
    BY DEF CollectionExact
  <2>1. i = Len(pages) + 2
    BY DEF IInv, TypeOK, Loops
  <2>2. Live = mark_bits
    BY <2>1, SweptLive
  <2>3. H!Reachable(roots, refs) \subseteq mark_bits
    BY ReachLeast DEF IInv, TypeOK, Loops, Marking
  <2>4. mark_bits \subseteq H!Reachable(roots, refs) /\ mark_counter = Cardinality(mark_bits)
    BY DEF IInv, MarkingExact
  <2>5. \A p \in AllPages : mark_bits \cap CellsOf(p) # {}
    BY DEF IInv, Pruned, AllDead, AllPages, Range, TypeOK
  <2> QED BY <2>2, <2>3, <2>4, <2>5
<1> QED BY <1>1, Invariance, PTL

(* RValue::free never runs on uninitialised memory.                        *)
THEOREM FreesInitialised == Spec => FreeInitialised
<1> DEFINE A == \A c \in Cell : kind'[c] = "Invalid" => kind[c] # "Uninit"
<1>1. IInv /\ Next => A
  <2> SUFFICES ASSUME IInv, Next PROVE A
    OBVIOUS
  <2>1. kind \in [Cell -> Kind]
    BY DEF IInv, TypeOK
  <2>2. CASE kind' = kind
    BY <2>2
  <2>3. ASSUME NEW c, NEW kids, Write(c, kids) PROVE A
    BY <2>1, <2>3 DEF Write
  <2>4. ASSUME DeallocPage PROVE A
    <3>1. i \in 1 .. Len(pages) /\ pages[i] \in AllPages
      BY <2>4 DEF DeallocPage, IInv, TypeOK, Loops, AllPages, Range
    <3>2. CellsOf(pages[i]) \cap Cell \subseteq HandedOut
      BY <3>1 DEF HandedOut, CellsOf
    <3> QED BY <2>1, <2>4, <3>2 DEF DeallocPage, FreeCells, IInv, Cells
  <2>5. ASSUME SweepCell PROVE A
    BY <2>1, <2>5, SweptCell DEF SweepCell, FreeCells, IInv, Cells
  <2>6. CASE Alloc
    BY <2>3, <2>6 DEF Alloc, AllocFromFreeList, AllocBump, AllocNewPage
  <2>7. CASE Collector
    BY <2>2, <2>4, <2>5, <2>7
    DEF Collector, MarkPtr, EndMarkOnly, EndMark, EndDealloc, SweepNextPage, EndSweep, heapVars
  <2>8. CASE (Mutator /\ ~Alloc) \/ Safepoint \/ Start \/ PrintMark
    BY <2>2, <2>8
    DEF Mutator, Store, LoadRef, Drop, SetEnabled, Safepoint, Start, PrintMark, BeginMark, heapVars
  <2> QED BY <2>6, <2>7, <2>8 DEF Next
<1>2. IInv /\ [Next]_vars => [A]_vars
  BY <1>1
<1> QED BY <1>2, Invariance, PTL DEF Spec, FreeInitialised

(* Whatever way alloc takes, the cell it returns was not in use.           *)
LEMMA AllocReturnsUnused ==
  ASSUME IInv, NEW kids \in Kids(roots),
         AllocFromFreeList(kids) \/ AllocBump(kids) \/ AllocNewPage(kids)
  PROVE  \E c \in Cell \ Live : Write(c, kids)
<1>1. CASE AllocFromFreeList(kids)
  <2>1. free \in Seq(Cell) /\ free # <<>> /\ IsInjective(free) /\ Range(free) \cap Live = {}
    BY <1>1 DEF AllocFromFreeList, IInv, TypeOK, Accounting
  <2>2. Head(free) \in Cell \ Live
    BY <2>1, TailFacts, TailElements
  <2> QED BY <1>1, <2>2 DEF AllocFromFreeList
<1>2. CASE AllocBump(kids)
  <2>1. <<current, used_in_current>> \in Cell /\ <<current, used_in_current>> \notin HandedOut
    BY <1>2, AllocatorAssumption
    DEF IInv, TypeOK, AllocBump, PageFull, Cell, Index, HandedOut, PagesDisjoint
  <2> QED BY <1>2, <2>1 DEF AllocBump, IInv, Cells
<1>3. CASE AllocNewPage(kids)
  <2>1. current' \in Page \ (AllPages \cup {current})
    <3>1. CASE free_pages # <<>> /\ current' = Last(free_pages)
      BY <3>1, FrontFacts, FrontElements DEF IInv, TypeOK, PagesDisjoint, FreePages
    <3>2. CASE current' \in Fresh
      BY <3>2 DEF Fresh
    <3> QED BY <1>3, <3>1, <3>2 DEF AllocNewPage
  <2>2. <<current', 0>> \in Cell /\ <<current', 0>> \notin HandedOut
    BY <2>1, AllocatorAssumption DEF Cell, Index, HandedOut
  <2> QED BY <1>3, <2>2 DEF AllocNewPage, IInv, Cells
<1> QED BY <1>1, <1>2, <1>3

LEMMA StepRefines == IInv /\ [Next]_vars => [H!Next]_(H!vars)
<1> SUFFICES ASSUME IInv, Next PROVE H!Next \/ UNCHANGED H!vars
  BY DEF vars, heapVars, H!vars, Live
<1>0. refs \in [Cell -> SUBSET Cell] /\ TypeOK
  BY DEF IInv, TypeOK
<1>1. CASE Alloc
  <2>1. PICK kids \in Kids(roots) :
           AllocFromFreeList(kids) \/ AllocBump(kids) \/ AllocNewPage(kids)
    BY <1>1 DEF Alloc
  <2>2. PICK c \in Cell \ Live : Write(c, kids)
    BY <2>1, AllocReturnsUnused
  <2>3. kids \in SUBSET roots /\ kids \in SUBSET Cell
    BY DEF Kids, IInv, TypeOK
  <2>4. H!New(c, kids)
    BY <1>0, <2>2, <2>3, WriteFacts DEF H!New, Write
  <2> QED BY <2>3, <2>4 DEF H!Next
<1>2. ASSUME NEW c \in roots, NEW kids \in Kids(roots \cup refs[c]), Store(c, kids)
      PROVE  H!Next
  <2>1. H!Mutate(c, kids) /\ kids \in SUBSET (roots \cup refs[c])
    BY <1>2 DEF H!Mutate, Store, Kids, Live
  <2> QED BY <2>1 DEF H!Next
<1>3. ASSUME NEW c \in roots, NEW d \in refs[c], LoadRef(c, d)
      PROVE  H!Next
  <2>1. H!Load(c, d) /\ c \in Cell /\ d \in Cell
    BY <1>0, <1>3 DEF H!Load, LoadRef, Hold, Live, TypeOK
  <2> QED BY <2>1 DEF H!Next
<1>4. ASSUME NEW c \in roots, Drop(c)
      PROVE  H!Next
  <2>1. H!Forget(c)
    BY <1>4 DEF H!Forget, Drop, Live
  <2> QED BY <2>1 DEF H!Next
<1>5. ASSUME phase \in {"dealloc", "sweep"}, NEW cells \in SUBSET Cell,
             cells \cap mark_bits = {}, FreeCells(cells), UNCHANGED roots
      PROVE  H!Next
  <2> DEFINE dead == Live \cap cells
  <2>1. H!Reachable(roots, refs) \subseteq mark_bits
    BY <1>0, <1>5, ReachLeast DEF IInv, Loops, Marking, TypeOK
  <2>2. dead \in SUBSET Live /\ dead \subseteq Live \ H!Reachable(roots, refs)
    BY <1>5, <2>1
  <2>3. Live' = Live \ dead
    BY <1>0, <1>5, FreeFacts
  <2>4. refs' = [c \in Cell |-> IF c \in dead THEN {} ELSE refs[c]]
    <3>1. \A c \in Cell \ Live : refs[c] = {}
      BY DEF IInv, Cells, Live
    <3> QED BY <1>0, <1>5, <3>1 DEF FreeCells
  <2>5. H!Reclaim(dead)
    BY <1>5, <2>2, <2>3, <2>4 DEF H!Reclaim
  <2> QED BY <2>2, <2>5 DEF H!Next
<1>6. CASE DeallocPage
  <2>1. CASE AllDead(pages[i]) /\ FreeCells(CellsOf(pages[i]))
    <3>1. CellsOf(pages[i]) \in SUBSET Cell
      BY <1>6 DEF DeallocPage, IInv, TypeOK, Loops, CellsOf, Cell
    <3> QED BY <1>5, <1>6, <2>1, <3>1 DEF DeallocPage, AllDead
  <2>2. CASE UNCHANGED <<kind, refs>>
    BY <1>6, <2>2 DEF DeallocPage, H!vars, Live
  <2> QED BY <1>6, <2>1, <2>2 DEF DeallocPage
<1>7. CASE SweepCell
  <2> DEFINE c == <<SweptPage, ptr>>
  <2>1. CASE c \notin mark_bits /\ FreeCells({c})
    <3>1. {c} \in SUBSET Cell /\ {c} \cap mark_bits = {}
      BY <1>7, <2>1, SweptCell
    <3> QED BY <1>5, <1>7, <2>1, <3>1 DEF SweepCell
  <2>2. CASE UNCHANGED <<kind, refs>>
    BY <1>7, <2>2 DEF SweepCell, H!vars, Live
  <2> QED BY <1>7, <2>1, <2>2 DEF SweepCell
<1>8. CASE Collector /\ ~DeallocPage /\ ~SweepCell
  BY <1>8
  DEF Collector, MarkPtr, EndMarkOnly, EndMark, EndDealloc, SweepNextPage, EndSweep,
      heapVars, H!vars, Live
<1>9. CASE (\E on \in BOOLEAN : SetEnabled(on)) \/ Safepoint \/ Start \/ PrintMark
  BY <1>9 DEF SetEnabled, Safepoint, Start, PrintMark, BeginMark, heapVars, H!vars, Live
<1> QED BY <1>1, <1>2, <1>3, <1>4, <1>6, <1>7, <1>8, <1>9 DEF Next, Mutator

(* The allocator implements the abstract heap: no reachable object is      *)
(* reclaimed or changed by the collector, no cell in use is given out.     *)
THEOREM ImplementsHeap == Spec => HeapSpec
<1>1. Init => H!Init
  BY DEF Init, H!Init, Live
<1>2. IInv /\ [Next]_vars => [H!Next]_(H!vars)
  BY StepRefines
<1> QED BY <1>1, <1>2, Invariance, PTL DEF Spec, HeapSpec, H!Spec

-----------------------------------------------------------------------------
(* The cell at which a collection is requested is met on every page: past  *)
(* it, only what was taken since is unrequested; before it, what was taken *)
(* on this page and past it on the one before.                             *)
TakenSince ==
    /\ unrequested \in Nat /\ used_in_current \in 0 .. DATA_LEN
    /\ unrequested <= IF used_in_current > THRESHOLD THEN used_in_current - THRESHOLD - 1
                      ELSE DATA_LEN - THRESHOLD - 1 + used_in_current

LEMMA TakenSinceStep ==
  ASSUME TakenSince, TNext
  PROVE  TakenSince'
<1>1. DATA_LEN \in Nat \ {0} /\ THRESHOLD \in 1 .. DATA_LEN - 1 /\ unrequested \in Nat /\ used_in_current \in 0 .. DATA_LEN
  BY AllocatorAssumption DEF TakenSince
<1>2. CASE ~Alloc
  <2>1. UNCHANGED <<current, used_in_current>>
    BY <1>2
    DEF TNext, Next, Mutator, Collector, Store, LoadRef, Drop, SetEnabled, Safepoint, Start, PrintMark, BeginMark,
        MarkPtr, EndMarkOnly, EndMark, DeallocPage, EndDealloc, SweepCell, SweepNextPage, EndSweep, pageVars
  <2>2. unrequested' \in {0, unrequested}
    BY <2>1 DEF TNext, TookFreshCell
  <2> QED BY <1>1, <2>1, <2>2 DEF TakenSince
<1>3. CASE Alloc
  <2>1. PICK kids \in Kids(roots) : AllocFromFreeList(kids) \/ AllocBump(kids) \/ AllocNewPage(kids)
    BY <1>3 DEF Alloc
  <2>2. unrequested' \in {0, unrequested, unrequested + 1}
    BY DEF TNext
  <2>3. CASE AllocFromFreeList(kids)
    <3>1. UNCHANGED <<current, used_in_current>>
      BY <2>3 DEF AllocFromFreeList, pageVars
    <3>2. unrequested' \in {0, unrequested}
      BY <3>1 DEF TNext, TookFreshCell
    <3> QED BY <1>1, <3>1, <3>2 DEF TakenSince
  <2>4. CASE AllocBump(kids)
    <3>1. used_in_current # DATA_LEN /\ used_in_current' = used_in_current + 1
      BY <2>4 DEF AllocBump, PageFull
    <3>2. CASE used_in_current = THRESHOLD
      <4>1. alloc_flag' \/ ~gc_enabled'
        BY <2>4, <3>2 DEF AllocBump, AtThreshold
      <4>2. unrequested' = 0
        BY <4>1 DEF TNext
      <4> QED BY <1>1, <3>1, <4>2 DEF TakenSince
    <3>3. CASE used_in_current # THRESHOLD
      BY <1>1, <2>2, <3>1, <3>3 DEF TakenSince
    <3> QED BY <3>2, <3>3
  <2>5. CASE AllocNewPage(kids)
    <3>1. used_in_current = DATA_LEN /\ used_in_current' = 1
      BY <2>5 DEF AllocNewPage, PageFull
    <3> QED BY <1>1, <2>2, <3>1 DEF TakenSince
  <2> QED BY <2>1, <2>3, <2>4, <2>5
<1> QED BY <1>2, <1>3

(* The heap cannot grow by a page's worth of cells without a collection    *)
(* being requested, though only one cell of a page raises the request.     *)
THEOREM RequestsInTime == TSpec => []RequestedInTime
<1>0. DATA_LEN \in Nat \ {0} /\ THRESHOLD \in 1 .. DATA_LEN - 1
  BY AllocatorAssumption
<1>1. TInit => TakenSince
  BY <1>0 DEF TInit, Init, TakenSince
<1>2. TakenSince /\ [TNext]_<<vars, unrequested>> => TakenSince'
  BY TakenSinceStep DEF TakenSince, vars, pageVars
<1>3. TakenSince => RequestedInTime
  BY <1>0 DEF TakenSince, RequestedInTime
<1> QED BY <1>1, <1>2, <1>3, PTL DEF TSpec

==============================================================================
