-------------------------- MODULE MethodCacheProofs --------------------------
(***************************************************************************)
(* The links between classes and the caches of methods, for any number of  *)
(* classes, methods and call sites: the chain upwards from a class in use  *)
(* ends, stays allocated and loses no ancestor, an included module reaches *)
(* all classes below, and cached lookups answer like a search.             *)
(***************************************************************************)
EXTENDS MethodCache, SequenceFacts, FiniteSetTheorems, TLAPS

Up0 == Cell \cup {None}
Used(g) == {c \in Cell : g[c].of # None}

(* No way upwards leads back: every set of cells has one that leads out.   *)
Acyclic(g) == \A S \in SUBSET Cell : S # {} => \E c \in S : g[c].upper \notin S

(* A cell in use leads to cells in use only, a free one nowhere.           *)
Graph(g) ==
    /\ g \in [Cell -> Node]
    /\ Acyclic(g)
    /\ \A c \in Cell : g[c].upper \in Used(g) \cup {None}
    /\ \A c \in Used(g) : g[c].of \in Used(g)

-----------------------------------------------------------------------------
(* The next class upwards *)

Skips(g, m) == m # None /\ g[m].prepended
SkipOf(g) == CHOOSE f : f = [m \in Up0 |-> IF ~Skips(g, m) THEN m ELSE f[g[m].upper]]

LEMMA Cells ==
  /\ IsFiniteSet(Cell) /\ None \notin Cell /\ BasicObject \in Cell /\ Cell \subseteq Nat
  /\ IsFiniteSet(Up0)
BY HierarchyAssumption, FS_AddElement DEF None, BasicObject, Up0

LEMMA SkipFacts ==
  ASSUME NEW g, Graph(g)
  PROVE  \A m \in Up0 : /\ SkipOf(g)[m] \in Up0
                        /\ SkipOf(g)[m] = IF ~Skips(g, m) THEN m ELSE SkipOf(g)[g[m].upper]
<1> DEFINE stop == {m \in Up0 : ~Skips(g, m)}
           nxt == [m \in Up0 \ stop |-> g[m].upper]
           val == [m \in stop |-> m]
           step == [p \in (Up0 \ stop) \X Up0 |-> p[2]]
<1>1. Up0 \ stop \subseteq Cell
  BY DEF Up0, Skips
<1>2. /\ stop \in SUBSET Up0 /\ nxt \in [Up0 \ stop -> Up0] /\ val \in [stop -> Up0]
      /\ step \in [(Up0 \ stop) \X Up0 -> Up0]
  BY <1>1 DEF Graph, Up0, Used
<1>3. LeadsOut(Up0, nxt, stop)
  BY <1>1 DEF Graph, Acyclic, LeadsOut
<1>4. \A m \in Up0, v \in Up0 : m \notin stop => nxt[m] = g[m].upper /\ step[m, v] = v
  OBVIOUS
<1>5. \A m \in stop : val[m] = m
  OBVIOUS
<1>6. \A m \in Up0 : m \in stop <=> ~Skips(g, m)
  OBVIOUS
<1> HIDE DEF stop, nxt, val, step
<1>7. PICK f : Solves(f, Up0, nxt, val, step, stop, Up0)
  BY <1>2, <1>3, Cells, Recursion
<1>8. /\ f \in [Up0 -> Up0]
      /\ \A m \in Up0 : f[m] = IF m \in stop THEN val[m] ELSE step[m, f[nxt[m]]]
  BY <1>7 DEF Solves
<1>9. \A m \in Up0 : f[m] = IF ~Skips(g, m) THEN m ELSE f[g[m].upper]
  <2> SUFFICES ASSUME NEW m \in Up0 PROVE f[m] = IF ~Skips(g, m) THEN m ELSE f[g[m].upper]
    OBVIOUS
  <2>1. CASE m \in stop
    BY <1>5, <1>6, <1>8, <2>1
  <2>2. CASE m \notin stop
    <3>1. f[nxt[m]] \in Up0
      BY <1>2, <1>8, <2>2
    <3>2. step[m, f[nxt[m]]] = f[nxt[m]] /\ nxt[m] = g[m].upper
      BY <1>4, <2>2, <3>1
    <3>3. f[m] = f[g[m].upper]
      BY <1>8, <2>2, <3>2
    <3> QED BY <1>6, <2>2, <3>3
  <2> QED BY <2>1, <2>2
<1>10. f = [m \in Up0 |-> IF ~Skips(g, m) THEN m ELSE f[g[m].upper]]
  BY <1>8, <1>9
<1>11. SkipOf(g) = [m \in Up0 |-> IF ~Skips(g, m) THEN m ELSE SkipOf(g)[g[m].upper]]
  BY <1>10 DEF SkipOf
<1>12. \A m \in Up0 : SkipOf(g)[m] = IF ~Skips(g, m) THEN m ELSE SkipOf(g)[g[m].upper]
  BY <1>11
<1>13. \A m \in Up0 : SkipOf(g)[m] \in Up0
  <2> DEFINE S == {m \in Up0 : SkipOf(g)[m] \notin Up0}
  <2>1. S \subseteq Cell
    BY <1>12 DEF S, Up0, Skips
  <2>2. ASSUME S # {} PROVE FALSE
    <3>1. PICK m \in S : g[m].upper \notin S
      BY <2>1, <2>2 DEF Graph, Acyclic
    <3>2. g[m].upper \in Up0
      BY <2>1 DEF Graph, Up0, Used
    <3> QED BY <1>12, <3>1, <3>2
  <2> QED BY <2>2
<1> QED BY <1>12, <1>13

LEMMA UpperFacts ==
  ASSUME NEW g, Graph(g)
  PROVE  /\ \A c \in Cell : Upper(g, c) = SkipOf(g)[g[c].upper] /\ Upper(g, c) \in Up0
         /\ \A S \in SUBSET Cell : S # {} => \E c \in S : Upper(g, c) \notin S
<1>1. \A c \in Cell : Upper(g, c) = SkipOf(g)[g[c].upper]
  BY DEF Upper, SkipOf, Skips, Up0
<1>2. \A c \in Cell : g[c].upper \in Up0
  BY DEF Graph, Up0, Used
<1>3. \A c \in Cell : Upper(g, c) \in Up0
  BY <1>1, <1>2, SkipFacts
<1>4. ASSUME NEW S \in SUBSET Cell, S # {}, \A c \in S : Upper(g, c) \in S PROVE FALSE
  <2> DEFINE T == S \cup {c \in Cell : Skips(g, c) /\ SkipOf(g)[c] \in S}
  <2>1. ASSUME NEW c \in T PROVE SkipOf(g)[g[c].upper] \in S
    <3>1. CASE c \in S
      BY <1>1, <1>4, <3>1
    <3>2. CASE c \notin S
      <4>1. c \in Up0 /\ Skips(g, c) /\ SkipOf(g)[c] \in S
        BY <3>2 DEF Up0
      <4> QED BY <4>1, SkipFacts
    <3> QED BY <3>1, <3>2
  <2>2. ASSUME NEW c \in T PROVE g[c].upper \in T
    <3>1. g[c].upper \in Up0
      BY <1>2
    <3>2. CASE Skips(g, g[c].upper)
      <4>1. g[c].upper \in Cell
        BY <3>1, <3>2 DEF Skips, Up0
      <4> QED BY <2>1, <3>2, <4>1
    <3>3. CASE ~Skips(g, g[c].upper)
      <4>1. SkipOf(g)[g[c].upper] = g[c].upper
        BY <3>1, <3>3, SkipFacts
      <4> QED BY <2>1, <4>1
    <3> QED BY <3>2, <3>3
  <2>3. T \in SUBSET Cell /\ T # {}
    BY <1>4
  <2> HIDE DEF T
  <2> QED BY <2>2, <2>3 DEF Graph, Acyclic
<1> QED BY <1>1, <1>3, <1>4

-----------------------------------------------------------------------------
(* The cells that a search visits *)

UpOf(g) == CHOOSE f : f = [m \in Up0 |-> IF m = None THEN <<>> ELSE <<m>> \o f[Upper(g, m)]]

LEMMA ChainFacts ==
  ASSUME NEW g, Graph(g)
  PROVE  /\ Chain(g, None) = <<>>
         /\ \A m \in Up0 : Chain(g, m) \in Seq(Cell)
         /\ \A c \in Cell : Chain(g, c) = <<c>> \o Chain(g, Upper(g, c))
<1> DEFINE nxt == [m \in Up0 \ {None} |-> Upper(g, m)]
           val == [m \in {None} |-> <<>>]
           step == [p \in (Up0 \ {None}) \X Seq(Cell) |-> <<p[1]>> \o p[2]]
<1>1. Up0 \ {None} = Cell
  BY Cells DEF Up0
<1>2. nxt \in [Up0 \ {None} -> Up0] /\ \A c \in Cell : nxt[c] = Upper(g, c)
  BY <1>1, UpperFacts
<1>3. val \in [{None} -> Seq(Cell)] /\ val[None] = <<>>
  OBVIOUS
<1>4. /\ step \in [(Up0 \ {None}) \X Seq(Cell) -> Seq(Cell)]
      /\ \A c \in Cell, s \in Seq(Cell) : step[c, s] = <<c>> \o s
  <2>1. \A c \in Cell, s \in Seq(Cell) : <<c>> \o s \in Seq(Cell)
    OBVIOUS
  <2>2. ASSUME NEW p \in Cell \X Seq(Cell) PROVE <<p[1]>> \o p[2] \in Seq(Cell)
    <3>1. p[1] \in Cell /\ p[2] \in Seq(Cell)
      OBVIOUS
    <3> QED BY <2>1, <3>1
  <2> QED BY <1>1, <2>2
<1>5. LeadsOut(Up0, nxt, {None})
  BY <1>1, <1>2, UpperFacts DEF LeadsOut
<1> HIDE DEF nxt, val, step
<1>6. PICK f : Solves(f, Up0, nxt, val, step, {None}, Seq(Cell))
  <2>1. {None} \in SUBSET Up0
    BY DEF Up0
  <2> QED BY <1>2, <1>3, <1>4, <1>5, <2>1, Cells, Recursion
<1>7. /\ f \in [Up0 -> Seq(Cell)]
      /\ \A m \in Up0 : f[m] = IF m = None THEN <<>> ELSE <<m>> \o f[Upper(g, m)]
  <2>1. /\ f \in [Up0 -> Seq(Cell)]
        /\ \A m \in Up0 : f[m] = IF m \in {None} THEN val[m] ELSE step[m, f[nxt[m]]]
    BY <1>6 DEF Solves
  <2>2. ASSUME NEW m \in Cell PROVE f[m] = <<m>> \o f[Upper(g, m)]
    <3>1. f[Upper(g, m)] \in Seq(Cell)
      BY <2>1, UpperFacts
    <3>2. m # None /\ m \in Up0
      BY Cells DEF Up0
    <3>3. f[m] = step[m, f[Upper(g, m)]]
      BY <1>2, <2>1, <3>2
    <3> QED BY <1>4, <3>1, <3>3
  <2> QED BY <1>3, <2>1, <2>2 DEF Up0
<1>8. f = [m \in Up0 |-> IF m = None THEN <<>> ELSE <<m>> \o f[Upper(g, m)]]
  BY <1>7
<1>9. UpOf(g) = [m \in Up0 |-> IF m = None THEN <<>> ELSE <<m>> \o UpOf(g)[Upper(g, m)]]
  BY <1>8 DEF UpOf
<1>10. \A m \in Up0 : UpOf(g)[m] = IF m = None THEN <<>> ELSE <<m>> \o UpOf(g)[Upper(g, m)]
  BY <1>9
<1>11. \A m : Chain(g, m) = UpOf(g)[m]
  BY DEF Chain, UpOf, Up0
<1>12. \A m \in Up0 : UpOf(g)[m] \in Seq(Cell)
  <2> DEFINE S == {m \in Up0 : UpOf(g)[m] \notin Seq(Cell)}
  <2>1. None \in Up0 /\ UpOf(g)[None] = <<>> /\ <<>> \in Seq(Cell)
    <3>1. None \in Up0
      BY DEF Up0
    <3>2. UpOf(g)[None] = <<>>
      BY <1>10, <3>1
    <3>3. <<>> \in Seq(Cell)
      OBVIOUS
    <3> QED BY <3>1, <3>2, <3>3
  <2>2. S \in SUBSET Cell
    BY <2>1 DEF Up0
  <2>3. ASSUME S # {} PROVE FALSE
    <3>1. PICK m \in S : Upper(g, m) \notin S
      <4> HIDE DEF S
      <4> QED BY <2>2, <2>3, UpperFacts
    <3>2. m \in Cell /\ m \in Up0 /\ m # None
      BY <2>2, Cells DEF Up0
    <3>3. Upper(g, m) \in Up0
      BY <3>2, UpperFacts
    <3>4. UpOf(g)[Upper(g, m)] \in Seq(Cell)
      BY <3>1, <3>3
    <3>5. UpOf(g)[m] = <<m>> \o UpOf(g)[Upper(g, m)]
      BY <1>10, <3>2
    <3>6. <<m>> \o UpOf(g)[Upper(g, m)] \in Seq(Cell)
      BY <3>2, <3>4
    <3> QED BY <3>1, <3>5, <3>6
  <2> QED BY <2>3
<1>13. \A c \in Cell : c \in Up0 /\ c # None
  BY Cells DEF Up0
<1> QED BY <1>10, <1>11, <1>12, <1>13 DEF Up0

(* A search goes on, from each cell, as from the cell above it.            *)
LEMMA ChainStep ==
  ASSUME NEW g, Graph(g), NEW c \in Cell
  PROVE  /\ Len(Chain(g, c)) = Len(Chain(g, Upper(g, c))) + 1
         /\ Len(Chain(g, Upper(g, c))) \in Nat
         /\ Chain(g, c)[1] = c
         /\ \A k \in 1 .. Len(Chain(g, Upper(g, c))) :
                Chain(g, c)[k + 1] = Chain(g, Upper(g, c))[k]
<1>1. PICK s : s = Chain(g, Upper(g, c))
  OBVIOUS
<1>2. s \in Seq(Cell)
  BY <1>1, ChainFacts, UpperFacts
<1>3. Chain(g, c) = <<c>> \o s
  BY <1>1, ChainFacts
<1>4. /\ Len(<<c>> \o s) = Len(s) + 1 /\ Len(s) \in Nat
      /\ (<<c>> \o s)[1] = c
      /\ \A k \in 1 .. Len(s) : (<<c>> \o s)[k + 1] = s[k]
  BY <1>2
<1> QED BY <1>1, <1>3, <1>4

(* A set of cells that has with each the one above it.                     *)
Upwards(g, A) == A \subseteq Cell /\ \A c \in A : g[c].upper \in A \cup {None}

LEMMA UpwardsFacts ==
  ASSUME NEW g, Graph(g), NEW A, Upwards(g, A)
  PROVE  /\ \A m \in A \cup {None} : SkipOf(g)[m] \in A \cup {None}
         /\ \A c \in A : Upper(g, c) \in A \cup {None}
<1>1. A \subseteq Cell /\ A \cup {None} \subseteq Up0
  BY DEF Upwards, Up0
<1>2. \A m \in A \cup {None} : SkipOf(g)[m] \in A \cup {None}
  <2> DEFINE S == {m \in A : SkipOf(g)[m] \notin A \cup {None}}
  <2>1. SkipOf(g)[None] = None
    BY SkipFacts DEF Skips, Up0
  <2>2. S \in SUBSET Cell
    BY <1>1
  <2>3. ASSUME S # {} PROVE FALSE
    <3>1. PICK m \in S : g[m].upper \notin S
      <4> HIDE DEF S
      <4> QED BY <2>2, <2>3 DEF Graph, Acyclic
    <3>2. SkipOf(g)[m] = IF ~Skips(g, m) THEN m ELSE SkipOf(g)[g[m].upper]
      BY <1>1, SkipFacts
    <3>3. g[m].upper \in A \cup {None}
      BY DEF Upwards
    <3> QED BY <2>1, <3>1, <3>2, <3>3
  <2> QED BY <2>1, <2>3
<1>3. \A c \in A : Upper(g, c) \in A \cup {None}
  BY <1>1, <1>2, UpperFacts DEF Upwards
<1> QED BY <1>2, <1>3

(* What a search visits lies in each such set that it begins in.           *)
LEMMA ChainWithin ==
  ASSUME NEW g, Graph(g), NEW A, Upwards(g, A)
  PROVE  \A c \in A : \A k \in 1 .. Len(Chain(g, c)) : Chain(g, c)[k] \in A
<1> DEFINE Within(c) == \A k \in 1 .. Len(Chain(g, c)) : Chain(g, c)[k] \in A
           S == {c \in A : ~Within(c)}
<1>1. S \in SUBSET Cell
  BY DEF Upwards
<1>2. ASSUME S # {} PROVE FALSE
  <2>1. PICK c \in S : Upper(g, c) \notin S
    <3> HIDE DEF S
    <3> QED BY <1>1, <1>2, UpperFacts
  <2>2. c \in A /\ c \in Cell /\ ~Within(c) /\ Upper(g, c) \in A \cup {None}
    BY <1>1, <2>1, UpwardsFacts
  <2>3. PICK k \in 1 .. Len(Chain(g, c)) : Chain(g, c)[k] \notin A
    BY <2>2
  <2>4. /\ Len(Chain(g, c)) = Len(Chain(g, Upper(g, c))) + 1
        /\ Len(Chain(g, Upper(g, c))) \in Nat
        /\ Chain(g, c)[1] = c
        /\ \A j \in 1 .. Len(Chain(g, Upper(g, c))) :
               Chain(g, c)[j + 1] = Chain(g, Upper(g, c))[j]
    BY <2>2, ChainStep
  <2>5. k - 1 \in 1 .. Len(Chain(g, Upper(g, c))) /\ Chain(g, Upper(g, c))[k - 1] \notin A
    BY <2>2, <2>3, <2>4
  <2>6. CASE Upper(g, c) = None
    BY <2>5, <2>6, ChainFacts
  <2>7. CASE Upper(g, c) # None
    BY <2>1, <2>2, <2>5, <2>7
  <2> QED BY <2>6, <2>7
<1> QED BY <1>2

(* A search sees nothing of what changes elsewhere.                        *)
LEMMA ChainSame ==
  ASSUME NEW g, Graph(g), NEW n, Graph(n), NEW A, Upwards(g, A),
         \A c \in A : n[c].upper = g[c].upper /\ n[c].prepended = g[c].prepended
  PROVE  \A c \in A : Chain(n, c) = Chain(g, c)
<1>1. A \subseteq Cell /\ A \cup {None} \subseteq Up0
  BY DEF Upwards, Up0
<1>2. \A m \in A \cup {None} : SkipOf(n)[m] = SkipOf(g)[m]
  <2> DEFINE S == {m \in A : SkipOf(n)[m] # SkipOf(g)[m]}
  <2>1. SkipOf(g)[None] = None /\ SkipOf(n)[None] = None
    BY SkipFacts DEF Skips, Up0
  <2>2. S \in SUBSET Cell
    BY <1>1
  <2>3. ASSUME S # {} PROVE FALSE
    <3>1. PICK m \in S : g[m].upper \notin S
      <4> HIDE DEF S
      <4> QED BY <2>2, <2>3 DEF Graph, Acyclic
    <3>2. /\ SkipOf(g)[m] = IF ~Skips(g, m) THEN m ELSE SkipOf(g)[g[m].upper]
          /\ SkipOf(n)[m] = IF ~Skips(n, m) THEN m ELSE SkipOf(n)[n[m].upper]
      BY <1>1, SkipFacts
    <3>3. g[m].upper \in A \cup {None}
      BY DEF Upwards
    <3>4. n[m].upper = g[m].upper /\ (Skips(n, m) <=> Skips(g, m))
      BY DEF Skips
    <3> QED BY <2>1, <3>1, <3>2, <3>3, <3>4
  <2> QED BY <2>1, <2>3
<1>3. \A c \in A : Upper(n, c) = Upper(g, c) /\ Upper(g, c) \in A \cup {None}
  <2> SUFFICES ASSUME NEW c \in A PROVE Upper(n, c) = Upper(g, c) /\ Upper(g, c) \in A \cup {None}
    OBVIOUS
  <2>1. Upper(g, c) = SkipOf(g)[g[c].upper] /\ Upper(n, c) = SkipOf(n)[g[c].upper]
    BY <1>1, UpperFacts
  <2>2. g[c].upper \in A \cup {None}
    BY DEF Upwards
  <2>3. Upper(g, c) \in A \cup {None}
    BY UpwardsFacts
  <2> QED BY <1>2, <2>1, <2>2, <2>3
<1> DEFINE S == {c \in A : Chain(n, c) # Chain(g, c)}
<1>4. S \in SUBSET Cell
  BY <1>1
<1>5. ASSUME S # {} PROVE FALSE
  <2>1. PICK c \in S : Upper(g, c) \notin S
    <3> HIDE DEF S
    <3> QED BY <1>4, <1>5, UpperFacts
  <2>2. /\ Chain(g, c) = <<c>> \o Chain(g, Upper(g, c))
        /\ Chain(n, c) = <<c>> \o Chain(n, Upper(n, c))
    BY <1>4, ChainFacts
  <2>3. Chain(n, Upper(g, c)) = Chain(g, Upper(g, c))
    <3>1. Chain(n, None) = Chain(g, None)
      BY ChainFacts
    <3> QED BY <1>3, <2>1, <3>1
  <2> QED BY <1>3, <2>1, <2>2, <2>3
<1> QED BY <1>5

LEMMA UsedUpwards ==
  ASSUME NEW g, Graph(g)
  PROVE  Upwards(g, Used(g))
BY DEF Graph, Upwards, Used

-----------------------------------------------------------------------------
(* Cells that are free *)

LEMMA FreshFacts ==
  ASSUME NEW g, NEW n \in Nat, Room(g, n)
  PROVE  /\ Fresh(g, n) \in Seq(Cell) /\ Len(Fresh(g, n)) = n
         /\ \A k \in 1 .. n : Fresh(g, n)[k] \in FreeCells(g)
         /\ \A j, k \in 1 .. n : Fresh(g, n)[j] = Fresh(g, n)[k] => j = k
<1> DEFINE Free == FreeCells(g)
           Low(L) == \A x \in L, y \in Free \ L : x < y
           S == {k \in Nat : \E L \in SUBSET Free : Cardinality(L) = k /\ Low(L)}
<1>1. /\ Free \subseteq Cell /\ Free \subseteq Nat /\ IsFiniteSet(Free)
      /\ Cardinality(Free) \in Nat /\ n <= Cardinality(Free)
  <2>1. Free \subseteq Cell /\ n <= Cardinality(Free)
    BY DEF FreeCells, Room
  <2>2. IsFiniteSet(Free)
    BY <2>1, Cells, FS_Subset
  <2> QED BY <2>1, <2>2, Cells, FS_CardinalityType
<1> HIDE DEF Free
<1>2. \A L \in SUBSET Free : IsFiniteSet(L) /\ Cardinality(L) \in Nat
  BY <1>1, FS_Subset, FS_CardinalityType
<1>3. ASSUME NEW k \in 0 .. n - 1, NEW L \in SUBSET Free, Cardinality(L) = k, Low(L)
      PROVE  \E c \in Free \ L : L = {d \in Free : d < c} /\ \A d \in Free \ L : c <= d
  <2>1. Free \ L # {}
    <3>1. SUFFICES ASSUME Free \ L = {} PROVE FALSE
      OBVIOUS
    <3>2. L = Free
      BY <3>1
    <3> QED BY <1>1, <1>3, <3>2
  <2>2. Free \ L \in SUBSET Nat
    BY <1>1
  <2>3. PICK c \in Free \ L : \A d \in Free \ L : c <= d
    BY <2>1, <2>2, Least
  <2>4. \A d \in Free : d \in L <=> d < c
    BY <1>1, <1>3, <2>3
  <2> QED BY <2>3, <2>4
<1>4. 0 \in S
  BY FS_EmptySet
<1>5. ASSUME NEW k \in 0 .. n - 1, k \in S PROVE k + 1 \in S
  <2>1. PICK L \in SUBSET Free : Cardinality(L) = k /\ Low(L)
    BY <1>5
  <2>2. PICK c \in Free \ L : L = {d \in Free : d < c} /\ \A d \in Free \ L : c <= d
    BY <1>3, <2>1
  <2>3. Cardinality(L \cup {c}) = k + 1
    BY <1>2, <2>1, <2>2, FS_AddElement
  <2>4. Low(L \cup {c})
    BY <1>1, <2>2
  <2>5. L \cup {c} \in SUBSET Free /\ k + 1 \in Nat
    BY <2>2
  <2> QED BY <2>3, <2>4, <2>5
<1>6. 0 .. n \subseteq S
  <2> HIDE DEF S
  <2> QED BY <1>4, <1>5, InductionTo
<1>7. ASSUME NEW k \in 1 .. n PROVE \E c \in Free : Cardinality({d \in Free : d < c}) = k - 1
  <2>1. k - 1 \in 0 .. n - 1 /\ k - 1 \in S
    BY <1>6
  <2>2. PICK L \in SUBSET Free : Cardinality(L) = k - 1 /\ Low(L)
    BY <2>1
  <2>3. PICK c \in Free \ L : L = {d \in Free : d < c}
    BY <1>3, <2>1, <2>2
  <2> QED BY <2>2, <2>3
<1>8. /\ Fresh(g, n) = [k \in 1 .. n |-> Fresh(g, n)[k]]
      /\ \A k \in 1 .. n : Fresh(g, n)[k] = CHOOSE c \in Free : Cardinality({d \in Free : d < c}) = k - 1
  BY DEF Fresh, Free
<1>9. \A k \in 1 .. n : /\ Fresh(g, n)[k] \in Free
                        /\ Cardinality({d \in Free : d < Fresh(g, n)[k]}) = k - 1
  BY <1>7, <1>8
<1>10. Fresh(g, n) \in Seq(Cell) /\ Len(Fresh(g, n)) = n
  <2>1. \A k \in 1 .. n : Fresh(g, n)[k] \in Cell
    BY <1>1, <1>9
  <2>2. Fresh(g, n) \in [1 .. n -> Cell]
    BY <1>8, <2>1
  <2>3. \A s \in [1 .. n -> Cell] : s \in Seq(Cell) /\ Len(s) = n
    OBVIOUS
  <2> QED BY <2>2, <2>3
<1>11. ASSUME NEW j \in 1 .. n, NEW k \in 1 .. n, Fresh(g, n)[j] = Fresh(g, n)[k] PROVE j = k
  <2>1. Cardinality({d \in Free : d < Fresh(g, n)[j]}) = j - 1
    BY <1>9
  <2>2. Cardinality({d \in Free : d < Fresh(g, n)[k]}) = k - 1
    BY <1>9
  <2> QED BY <1>11, <2>1, <2>2
<1> QED BY <1>9, <1>10, <1>11 DEF Free

(* Free cells are linked in above a class in use.                          *)
Spliced(new, g, c, to) ==
    /\ new \in [Cell -> Node]
    /\ to \in Seq(Cell) /\ Len(to) # 0
    /\ \A k \in 1 .. Len(to) : to[k] \in FreeCells(g)
    /\ \A j, k \in 1 .. Len(to) : to[j] = to[k] => j = k
    /\ new[c].upper = to[1]
    /\ \A k \in 1 .. Len(to) :
           /\ new[to[k]].upper = IF k < Len(to) THEN to[k + 1] ELSE g[c].upper
           /\ new[to[k]].of \in Used(g)
    /\ \A x \in Cell : x # c /\ (\A k \in 1 .. Len(to) : to[k] # x) => new[x].upper = g[x].upper
    /\ \A x \in Cell : (\A k \in 1 .. Len(to) : to[k] # x) => new[x].of = g[x].of

LEMMA SpliceFacts ==
  ASSUME NEW g, Graph(g), NEW c \in Used(g), NEW to, NEW new, Spliced(new, g, c, to)
  PROVE  Graph(new) /\ Used(g) \subseteq Used(new)
<1> DEFINE New == {to[k] : k \in 1 .. Len(to)}
<1>1. /\ Len(to) \in Nat \ {0} /\ New \cap Used(g) = {} /\ New \subseteq Cell
      /\ c \in Cell /\ c \notin New /\ None \notin Cell
  BY Cells DEF Spliced, FreeCells, Used
<1>2. /\ \A x \in Cell \ New : new[x].of = g[x].of
      /\ \A x \in Cell \ New : x # c => new[x].upper = g[x].upper
      /\ new[c].upper = to[1]
      /\ \A x \in Cell : g[x].upper \notin New
  BY <1>1 DEF Spliced, Graph
<1>3. \A x \in New : new[x].of \in Used(g)
  BY DEF Spliced
<1>4. Used(new) = Used(g) \cup New
  BY <1>1, <1>2, <1>3 DEF Used
<1>5. ASSUME NEW x \in Cell PROVE new[x].upper \in Used(new) \cup {None}
  <2>1. CASE x \in New
    <3>1. PICK k \in 1 .. Len(to) : x = to[k]
      BY <2>1
    <3>2. new[x].upper = IF k < Len(to) THEN to[k + 1] ELSE g[c].upper
      BY <3>1 DEF Spliced
    <3>3. k < Len(to) => to[k + 1] \in New
      BY <1>1
    <3> QED BY <1>1, <1>4, <3>2, <3>3 DEF Graph
  <2>2. CASE x = c
    <3>1. to[1] \in New
      BY <1>1
    <3> QED BY <1>2, <1>4, <2>2, <3>1
  <2>3. CASE x \notin New /\ x # c
    BY <1>2, <1>4, <2>3 DEF Graph
  <2> QED BY <2>1, <2>2, <2>3
<1>6. ASSUME NEW x \in Used(new) PROVE new[x].of \in Used(new)
  BY <1>2, <1>3, <1>4, <1>6 DEF Graph, Used
<1>7. ASSUME NEW S \in SUBSET Cell, S # {}, \A x \in S : new[x].upper \in S PROVE FALSE
  <2>1. S \ New # {}
    <3>1. SUFFICES ASSUME S \subseteq New PROVE FALSE
      OBVIOUS
    <3> DEFINE K == {Len(to) - k : k \in {j \in 1 .. Len(to) : to[j] \in S}}
    <3>2. K \in SUBSET Nat /\ K # {}
      BY <1>1, <1>7, <3>1
    <3>3. PICK m \in K : \A j \in K : m <= j
      <4> HIDE DEF K
      <4> QED BY <3>2, Least
    <3>4. PICK k \in 1 .. Len(to) : to[k] \in S /\ m = Len(to) - k
      BY <3>3
    <3>5. new[to[k]].upper = (IF k < Len(to) THEN to[k + 1] ELSE g[c].upper) /\ new[to[k]].upper \in S
      BY <1>7, <3>4 DEF Spliced
    <3>6. CASE k < Len(to)
      <4>1. Len(to) - (k + 1) \in K
        BY <1>1, <3>5, <3>6
      <4> HIDE DEF K
      <4> QED BY <1>1, <3>3, <3>4, <4>1
    <3>7. CASE ~(k < Len(to))
      BY <1>2, <3>1, <3>5, <3>7, <1>1
    <3> QED BY <3>6, <3>7
  <2>2. PICK x \in S \ New : g[x].upper \notin S \ New
    BY <2>1 DEF Graph, Acyclic
  <2>3. g[x].upper \notin New
    BY <1>2
  <2>4. x = c
    BY <1>2, <1>7, <2>2, <2>3
  <2>5. g[c].upper \notin S
    BY <2>2, <2>3, <2>4
  <2> DEFINE K == {k \in 0 .. Len(to) : k = 0 \/ to[k] \in S}
  <2>6. 0 \in K
    OBVIOUS
  <2>7. ASSUME NEW k \in 0 .. Len(to) - 1, k \in K PROVE k + 1 \in K
    <3>1. k + 1 \in 1 .. Len(to)
      BY <1>1
    <3>2. CASE k = 0
      BY <1>2, <1>7, <2>2, <2>4, <3>1, <3>2
    <3>3. CASE k # 0
      <4>1. k \in 1 .. Len(to) /\ k < Len(to) /\ to[k] \in S
        BY <1>1, <2>7, <3>3
      <4>2. new[to[k]].upper = to[k + 1]
        BY <4>1 DEF Spliced
      <4> QED BY <1>7, <3>1, <4>1, <4>2
    <3> QED BY <3>2, <3>3
  <2>8. Len(to) \in K
    <3> HIDE DEF K
    <3>1. 0 .. Len(to) \subseteq K
      BY <1>1, <2>6, <2>7, InductionTo
    <3> QED BY <1>1, <3>1
  <2>9. to[Len(to)] \in S /\ Len(to) \in 1 .. Len(to)
    BY <1>1, <2>8
  <2>10. new[to[Len(to)]].upper = g[c].upper
    BY <1>1, <2>9 DEF Spliced
  <2> QED BY <1>7, <2>5, <2>9, <2>10
<1>8. Acyclic(new)
  BY <1>7 DEF Acyclic
<1> QED BY <1>4, <1>5, <1>6, <1>8 DEF Graph, Spliced

-----------------------------------------------------------------------------
(* Classes are made and modules are linked in *)

LEMMA UsedFacts ==
  ASSUME NEW g, Graph(g), NEW c \in Used(g)
  PROVE  /\ c \in Cell /\ Chain(g, c) \in Seq(Cell)
         /\ Len(Chain(g, c)) \in Nat \ {0}
         /\ \A k \in 1 .. Len(Chain(g, c)) : Chain(g, c)[k] \in Used(g) /\ g[Chain(g, c)[k]].of \in Used(g)
<1>1. c \in Cell /\ c \in Up0
  BY DEF Used, Up0
<1>2. Chain(g, c) \in Seq(Cell) /\ Len(Chain(g, c)) \in Nat \ {0}
  BY <1>1, ChainFacts, ChainStep
<1>3. \A k \in 1 .. Len(Chain(g, c)) : Chain(g, c)[k] \in Used(g)
  BY UsedUpwards, ChainWithin
<1> QED BY <1>1, <1>2, <1>3 DEF Graph

LEMMA NewFacts ==
  ASSUME NEW g, Graph(g), Room(g, 1), NEW new,
         \/ new = WithModule(g)
         \/ \E s \in Used(g) : new = WithClass(g, s)
  PROVE  /\ Graph(new)
         /\ Fresh(g, 1)[1] \in FreeCells(g)
         /\ Used(new) = Used(g) \cup {Fresh(g, 1)[1]}
         /\ \A x \in Used(g) : new[x] = g[x]
<1>1. PICK c : c = Fresh(g, 1)[1]
  OBVIOUS
<1>2. c \in FreeCells(g) /\ c \in Cell /\ c \notin Used(g) /\ c # None
  BY <1>1, FreshFacts, Cells DEF FreeCells, Used
<1>3. \E n \in Node : /\ n.of = c /\ n.upper \in Used(g) \cup {None}
                     /\ new = [g EXCEPT ![c] = n]
  <2>1. FreeNode \in Node /\ FreeNode.upper = None
    BY DEF FreeNode, Node
  <2>2. CASE new = WithModule(g)
    <3>1. PICK n : n = [FreeNode EXCEPT !.of = c, !.module = TRUE]
      OBVIOUS
    <3>2. n \in Node /\ n.of = c /\ n.upper = None
      BY <1>2, <2>1, <3>1 DEF Node
    <3>3. new = [g EXCEPT ![c] = n]
      BY <1>1, <2>2, <3>1 DEF WithModule
    <3> QED BY <3>2, <3>3
  <2>3. ASSUME NEW s \in Used(g), new = WithClass(g, s) 
        PROVE  \E n \in Node : /\ n.of = c /\ n.upper \in Used(g) \cup {None}
                              /\ new = [g EXCEPT ![c] = n]
    <3>1. PICK n : n = [FreeNode EXCEPT !.of = c, !.upper = s]
      OBVIOUS
    <3>2. n \in Node /\ n.of = c /\ n.upper = s
      BY <1>2, <2>1, <3>1 DEF Node, Used
    <3>3. new = [g EXCEPT ![c] = n]
      BY <1>1, <2>3, <3>1 DEF WithClass
    <3> QED BY <3>2, <3>3
  <2> QED BY <2>2, <2>3
<1>4. /\ g \in [Cell -> Node] /\ new \in [Cell -> Node]
      /\ new[c].upper \in Used(g) \cup {None} /\ new[c].of = c /\ \A x \in Cell \ {c} : new[x] = g[x]
  BY <1>2, <1>3 DEF Graph
<1>5. Used(new) = Used(g) \cup {c}
  BY <1>2, <1>4 DEF Used
<1>6. \A x \in Cell : g[x].upper # c
  BY <1>2 DEF Graph
<1>7. ASSUME NEW S \in SUBSET Cell, S # {}, \A x \in S : new[x].upper \in S PROVE FALSE
  <2>1. CASE S \ {c} = {}
    <3>1. c \in S
      BY <1>7, <2>1
    <3> QED BY <1>2, <1>4, <1>7, <2>1, <3>1, Cells
  <2>2. CASE S \ {c} # {}
    <3>1. PICK x \in S \ {c} : g[x].upper \notin S \ {c}
      BY <2>2 DEF Graph, Acyclic
    <3> QED BY <1>4, <1>6, <1>7, <3>1
  <2> QED BY <2>1, <2>2
<1>8. Acyclic(new)
  BY <1>7 DEF Acyclic
<1>9. \A x \in Cell : new[x].upper \in Used(new) \cup {None}
  BY <1>4, <1>5 DEF Graph
<1>10. \A x \in Used(new) : new[x].of \in Used(new)
  BY <1>2, <1>4, <1>5 DEF Graph, Used
<1> QED BY <1>1, <1>2, <1>4, <1>5, <1>8, <1>9, <1>10 DEF Graph, Used

(* The cells `to` are copies of the chain of m that lead to `last`.        *)
Copy(node, of) == node.of = of.of /\ node.prepended = of.prepended
Copied(new, g, m, to, last) ==
    /\ new \in [Cell -> Node]
    /\ \A k \in 1 .. Len(to) : /\ new[to[k]].upper = IF k < Len(to) THEN to[k + 1] ELSE last
                               /\ new[to[k]].of \in Used(g)
                               /\ Copy(new[to[k]], g[Chain(g, m)[k]])
    /\ \A x \in Cell : (\A k \in 1 .. Len(to) : to[k] # x) => new[x] = g[x]

LEMMA CopiesFacts ==
  ASSUME NEW g, Graph(g), NEW m \in Used(g), NEW to \in Seq(Cell), Len(to) = Len(Chain(g, m)),
         \A j, k \in 1 .. Len(to) : to[j] = to[k] => j = k,
         NEW last \in Cell \cup {None}
  PROVE  Copied(WithCopies(g, m, to, last), g, m, to, last)
<1> DEFINE chain == Chain(g, m)
           new == WithCopies(g, m, to, last)
           Image(k) == [g[chain[k]] EXCEPT !.included = TRUE, !.upper = CopiesLink(to, k, last)]
<1>1. /\ Len(to) \in Nat /\ DOMAIN to = 1 .. Len(to)
      /\ \A k \in 1 .. Len(to) : to[k] \in Cell /\ chain[k] \in Used(g) /\ g[chain[k]].of \in Used(g)
  BY UsedFacts
<1>2. \A k \in 1 .. Len(to) : CopiesLink(to, k, last) = IF k < Len(to) THEN to[k + 1] ELSE last
  BY DEF CopiesLink
<1>3. ASSUME NEW k \in 1 .. Len(to)
      PROVE  /\ Image(k) \in Node
             /\ Image(k).upper = IF k < Len(to) THEN to[k + 1] ELSE last
             /\ Copy(Image(k), g[chain[k]]) /\ Image(k).of = g[chain[k]].of
  <2>1. g[chain[k]] \in Node
    BY <1>1 DEF Graph, Used
  <2>2. CopiesLink(to, k, last) \in Cell \cup {None}
    BY <1>1, <1>2
  <2> QED BY <1>2, <2>1, <2>2 DEF Node, Copy
<1>4. /\ new = [x \in Cell |-> new[x]]
      /\ \A x \in Cell : new[x] = IF \E k \in 1 .. Len(to) : to[k] = x
                                  THEN Image(CHOOSE k \in 1 .. Len(to) : to[k] = x) ELSE g[x]
  BY <1>1 DEF WithCopies
<1> HIDE DEF new, Image
<1>5. ASSUME NEW k \in 1 .. Len(to) PROVE new[to[k]] = Image(k)
  <2>1. (CHOOSE j \in 1 .. Len(to) : to[j] = to[k]) = k
    OBVIOUS
  <2> QED BY <1>1, <1>4, <2>1
<1>6. ASSUME NEW x \in Cell, \A k \in 1 .. Len(to) : to[k] # x PROVE new[x] = g[x]
  BY <1>4, <1>6
<1>7. \A x \in Cell : new[x] \in Node
  <2> SUFFICES ASSUME NEW x \in Cell PROVE new[x] \in Node
    OBVIOUS
  <2>1. CASE \E k \in 1 .. Len(to) : to[k] = x
    BY <1>3, <1>5, <2>1
  <2>2. CASE \A k \in 1 .. Len(to) : to[k] # x
    BY <1>6, <2>2 DEF Graph
  <2> QED BY <2>1, <2>2
<1>8. new \in [Cell -> Node]
  BY <1>4, <1>7
<1>9. Copied(new, g, m, to, last)
  BY <1>1, <1>3, <1>5, <1>6, <1>8 DEF Copied
<1> QED BY <1>9 DEF new

(* What include and prepend do: copies of the chain of m, and of c after a *)
(* first prepend, are linked in above c.                                   *)
Grafted(new, g, c, m, to) ==
    /\ Spliced(new, g, c, to)
    /\ \A x \in Cell : x # c /\ (\A k \in 1 .. Len(to) : to[k] # x) => new[x] = g[x]
    /\ new[c].module = g[c].module
    /\ Len(Chain(g, m)) <= Len(to)
    /\ \A k \in 1 .. Len(Chain(g, m)) : Copy(new[to[k]], g[Chain(g, m)[k]])
    /\ \A k \in Len(Chain(g, m)) + 1 .. Len(to) : new[to[k]].of = g[c].of /\ ~new[to[k]].prepended
    /\ new[c].prepended = g[c].prepended \/ (~g[c].prepended /\ Len(Chain(g, m)) < Len(to))

LEMMA IncludeFacts ==
  ASSUME NEW g, Graph(g), NEW c \in Used(g), NEW m \in Used(g), Room(g, Len(Chain(g, m)))
  PROVE  \E to : Grafted(WithInclude(g, c, m), g, c, m, to)
<1>1. PICK to : to = Fresh(g, Len(Chain(g, m)))
  OBVIOUS
<1>2. Len(Chain(g, m)) \in Nat \ {0} /\ c \in Cell
  BY UsedFacts
<1>3. /\ to \in Seq(Cell) /\ Len(to) = Len(Chain(g, m))
      /\ \A k \in 1 .. Len(to) : to[k] \in FreeCells(g)
      /\ \A j, k \in 1 .. Len(to) : to[j] = to[k] => j = k
  BY <1>1, <1>2, FreshFacts
<1>4. PICK last : last = g[c].upper
  OBVIOUS
<1>5. last \in Cell \cup {None}
  BY <1>2, <1>4 DEF Graph, Used
<1>6. PICK copies : copies = WithCopies(g, m, to, last)
  OBVIOUS
<1>7. Copied(copies, g, m, to, last)
  BY <1>3, <1>5, <1>6, CopiesFacts
<1>8. PICK new : new = WithInclude(g, c, m)
  OBVIOUS
<1>9. new = [copies EXCEPT ![c].upper = to[1]]
  BY <1>1, <1>4, <1>6, <1>8 DEF WithInclude
<1>10. \A k \in 1 .. Len(to) : to[k] # c /\ to[k] \in Cell
  BY <1>3 DEF FreeCells, Used
<1>11. 1 \in 1 .. Len(to) /\ to[1] \in Cell
  BY <1>2, <1>3, <1>10
<1>12. /\ new \in [Cell -> Node] /\ new[c].upper = to[1] /\ new[c].of = copies[c].of
       /\ new[c].module = copies[c].module /\ new[c].prepended = copies[c].prepended
       /\ \A x \in Cell \ {c} : new[x] = copies[x]
  BY <1>2, <1>7, <1>9, <1>11 DEF Node, Copied
<1>13. Spliced(new, g, c, to)
  BY <1>2, <1>3, <1>4, <1>7, <1>10, <1>12 DEF Spliced, Copied
<1>14. copies[c] = g[c]
  BY <1>2, <1>7, <1>10 DEF Copied
<1>15. /\ \A x \in Cell : x # c /\ (\A k \in 1 .. Len(to) : to[k] # x) => new[x] = g[x]
       /\ new[c].module = g[c].module /\ new[c].prepended = g[c].prepended
       /\ \A k \in 1 .. Len(to) : Copy(new[to[k]], g[Chain(g, m)[k]])
  BY <1>7, <1>10, <1>12, <1>14 DEF Copied
<1>16. Grafted(new, g, c, m, to)
  BY <1>2, <1>3, <1>13, <1>15 DEF Grafted
<1> QED BY <1>8, <1>16

LEMMA PrependFacts ==
  ASSUME NEW g, Graph(g), NEW c \in Used(g), NEW m \in Used(g),
         Room(g, Len(Chain(g, m)) + (IF g[c].prepended THEN 0 ELSE 1))
  PROVE  \E to : Grafted(WithPrepend(g, c, m), g, c, m, to)
<1>0. PICK n \in Nat \ {0} : n = Len(Chain(g, m))
  BY UsedFacts
<1>1. CASE g[c].prepended
  BY <1>0, <1>1, IncludeFacts DEF WithPrepend
<1>2. CASE ~g[c].prepended
  <2>1. PICK to : to = Fresh(g, n + 1)
    OBVIOUS
  <2>2. /\ to \in Seq(Cell) /\ Len(to) = n + 1 /\ c \in Cell
        /\ \A k \in 1 .. n + 1 : to[k] \in FreeCells(g)
        /\ \A j, k \in 1 .. n + 1 : to[j] = to[k] => j = k
    <3>1. Room(g, n + 1) /\ n + 1 \in Nat
      BY <1>0, <1>2
    <3>2. c \in Cell
      BY DEF Used
    <3> QED BY <2>1, <3>1, <3>2, FreshFacts
  <2>3. PICK mods : mods = Front(to)
    OBVIOUS
  <2>4. /\ mods \in Seq(Cell) /\ Len(mods) = n
        /\ \A k \in 1 .. n : mods[k] = to[k]
    BY <1>0, <2>2, <2>3, FrontFacts
  <2>5. PICK self : self = to[n + 1]
    OBVIOUS
  <2>6. self \in Cell \cup {None} /\ self \in Cell
    BY <2>2, <2>5
  <2>7. PICK copies : copies = WithCopies(g, m, mods, self)
    OBVIOUS
  <2>8. \A j, k \in 1 .. Len(mods) : mods[j] = mods[k] => j = k
    BY <2>2, <2>4
  <2>9. Copied(copies, g, m, mods, self)
    BY <1>0, <2>4, <2>6, <2>7, <2>8, CopiesFacts
  <2>10. PICK new : new = WithPrepend(g, c, m)
    OBVIOUS
  <2>11. new = [copies EXCEPT ![self] = [g[c] EXCEPT !.included = TRUE],
                              ![c].upper = to[1], ![c].prepended = TRUE]
    BY <1>0, <1>2, <2>1, <2>3, <2>5, <2>7, <2>10 DEF WithPrepend
  <2>12. \A k \in 1 .. n + 1 : to[k] # c /\ to[k] \in Cell
    BY <2>2 DEF FreeCells, Used
  <2>13. self # c /\ to[1] \in Cell /\ g[c] \in Node /\ g[c].of \in Used(g)
    BY <1>0, <2>2, <2>5, <2>12 DEF Graph
  <2>14. /\ new \in [Cell -> Node] /\ new[c].upper = to[1] /\ new[c].of = copies[c].of
         /\ new[c].module = copies[c].module
         /\ new[self].upper = g[c].upper /\ new[self].of = g[c].of /\ ~new[self].prepended
         /\ \A x \in Cell \ {c, self} : new[x] = copies[x]
    <3>1. PICK node : node = [g[c] EXCEPT !.included = TRUE]
      OBVIOUS
    <3>2. node \in Node /\ node.upper = g[c].upper /\ node.of = g[c].of /\ ~node.prepended
      BY <1>2, <2>13, <3>1 DEF Node
    <3>3. PICK a : a = [copies EXCEPT ![self] = node]
      OBVIOUS
    <3>4. a \in [Cell -> Node] /\ a[self] = node /\ \A x \in Cell \ {self} : a[x] = copies[x]
      BY <2>6, <2>9, <3>2, <3>3 DEF Copied
    <3>5. new = [a EXCEPT ![c].upper = to[1], ![c].prepended = TRUE]
      BY <2>11, <3>1, <3>3
    <3>6. /\ new \in [Cell -> Node] /\ new[c].upper = to[1] /\ new[c].of = a[c].of
          /\ new[c].module = a[c].module
          /\ \A x \in Cell \ {c} : new[x] = a[x]
      BY <2>2, <2>13, <3>4, <3>5 DEF Node
    <3> QED BY <2>2, <2>6, <2>13, <3>2, <3>4, <3>6
  <2>15. ASSUME NEW k \in 1 .. n + 1
         PROVE  /\ new[to[k]].upper = IF k < n + 1 THEN to[k + 1] ELSE g[c].upper
                /\ new[to[k]].of \in Used(g)
    <3>1. CASE k = n + 1
      BY <2>5, <2>13, <2>14, <3>1
    <3>2. CASE k # n + 1
      <4>1. k \in 1 .. n /\ to[k] = mods[k] /\ to[k] # self /\ to[k] # c /\ to[k] \in Cell
        BY <1>0, <2>2, <2>4, <2>5, <2>12, <3>2
      <4>2. k < n => mods[k + 1] = to[k + 1]
        BY <1>0, <2>4, <4>1
      <4>3. k = n => self = to[k + 1]
        BY <2>5
      <4> QED BY <1>0, <2>4, <2>9, <2>14, <4>1, <4>2, <4>3 DEF Copied
    <3> QED BY <3>1, <3>2
  <2>16. ASSUME NEW x \in Cell, \A k \in 1 .. n + 1 : to[k] # x PROVE copies[x] = g[x] /\ x # self
    <3>1. \A k \in 1 .. n : mods[k] # x
      BY <1>0, <2>4, <2>16
    <3> QED BY <1>0, <2>4, <2>5, <2>9, <2>16, <3>1 DEF Copied
  <2>17. Spliced(new, g, c, to)
    <3>1. \A x \in Cell : x # c /\ (\A k \in 1 .. n + 1 : to[k] # x) => new[x].upper = g[x].upper
      BY <2>14, <2>16
    <3>2. \A x \in Cell : (\A k \in 1 .. n + 1 : to[k] # x) => new[x].of = g[x].of
      BY <2>14, <2>16
    <3>3. Len(to) # 0
      BY <1>0, <2>2
    <3> QED BY <2>2, <2>14, <2>15, <3>1, <3>2, <3>3 DEF Spliced
  <2>18. \A k \in 1 .. n : Copy(new[to[k]], g[Chain(g, m)[k]])
    <3> SUFFICES ASSUME NEW k \in 1 .. n PROVE Copy(new[to[k]], g[Chain(g, m)[k]])
      OBVIOUS
    <3>0. k \in 1 .. n + 1 /\ n + 1 \in 1 .. n + 1 /\ k # n + 1
      BY <1>0
    <3>1. to[k] = mods[k] /\ to[k] # self /\ to[k] # c /\ to[k] \in Cell
      BY <2>2, <2>4, <2>5, <2>12, <3>0
    <3>2. Copy(copies[mods[k]], g[Chain(g, m)[k]]) /\ new[to[k]] = copies[mods[k]]
      BY <2>4, <2>9, <2>14, <3>1 DEF Copied
    <3> QED BY <3>1, <3>2
  <2>19. copies[c] = g[c]
    <3>1. \A k \in 1 .. n : mods[k] # c
      BY <1>0, <2>4, <2>12
    <3>2. \A x \in Cell : (\A k \in 1 .. n : mods[k] # x) => copies[x] = g[x]
      BY <2>4, <2>9 DEF Copied
    <3> QED BY <2>2, <3>1, <3>2
  <2>20. \A x \in Cell : x # c /\ (\A k \in 1 .. Len(to) : to[k] # x) => new[x] = g[x]
    BY <2>2, <2>14, <2>16
  <2>21. \A k \in n + 1 .. Len(to) : k = n + 1
    BY <1>0, <2>2
  <2>22. Grafted(new, g, c, m, to)
    BY <1>0, <1>2, <2>2, <2>5, <2>14, <2>17, <2>18, <2>19, <2>20, <2>21 DEF Grafted
  <2> QED BY <2>10, <2>22
<1> QED BY <1>1, <1>2

-----------------------------------------------------------------------------
(* The collector *)

Found1(g, R) == R \cup UNION {Marks(g, c) : c \in R}
ReachOf(g, roots) ==
    CHOOSE f : f = [k \in 0 .. Cardinality(Cell) |->
                       IF k = 0 THEN roots ELSE Found1(g, f[k - 1])]

LEMMA RoundFacts ==
  ASSUME NEW g, Graph(g), NEW R \in SUBSET Used(g)
  PROVE  R \subseteq Found1(g, R) /\ Found1(g, R) \subseteq Used(g)
<1>1. \A c \in R : Marks(g, c) \subseteq Used(g)
  <2> SUFFICES ASSUME NEW c \in R PROVE Marks(g, c) \subseteq Used(g)
    OBVIOUS
  <2>1. c \in Cell /\ c \in Used(g)
    BY DEF Used
  <2>2. g[c].upper \in Used(g) \cup {None} /\ g[c].of \in Used(g)
    BY <2>1 DEF Graph
  <2> QED BY <2>2 DEF Marks
<1> QED BY <1>1 DEF Found1

LEMMA ReachFacts ==
  ASSUME NEW g, Graph(g), NEW roots \in SUBSET Used(g), NEW N \in Nat, N = Cardinality(Cell)
  PROVE  /\ ReachOf(g, roots)[0] = roots
         /\ \A k \in 1 .. N : ReachOf(g, roots)[k] = Found1(g, ReachOf(g, roots)[k - 1])
         /\ Reached(g, roots) = ReachOf(g, roots)[N]
<1> DEFINE D == 0 .. N
           V == SUBSET Used(g)
           nxt == [k \in D \ {0} |-> k - 1]
           val == [k \in {0} |-> roots]
           step == [p \in (D \ {0}) \X V |-> Found1(g, p[2])]
<1>1. \A R \in V : Found1(g, R) \in V
  BY RoundFacts
<1>2. nxt \in [D \ {0} -> D] /\ \A k \in 1 .. N : nxt[k] = k - 1
  OBVIOUS
<1>3. val \in [{0} -> V] /\ val[0] = roots
  OBVIOUS
<1>4. /\ step \in [(D \ {0}) \X V -> V]
      /\ \A k \in 1 .. N, R \in V : step[k, R] = Found1(g, R)
  <2>1. \A p \in (D \ {0}) \X V : Found1(g, p[2]) \in V
    BY <1>1
  <2>2. 1 .. N \subseteq D \ {0}
    OBVIOUS
  <2> HIDE DEF V
  <2> QED BY <2>1, <2>2
<1>5. LeadsOut(D, nxt, {0})
  <2> SUFFICES ASSUME NEW S \in SUBSET (D \ {0}), S # {} PROVE \E k \in S : nxt[k] \notin S
    BY DEF LeadsOut
  <2>1. S \in SUBSET Nat
    OBVIOUS
  <2>2. PICK k \in S : \A j \in S : k <= j
    BY <2>1, Least
  <2> QED BY <2>2
<1>6. IsFiniteSet(D) /\ {0} \in SUBSET D
  BY FS_Interval
<1> HIDE DEF nxt, val, step, V
<1>7. PICK f : Solves(f, D, nxt, val, step, {0}, V)
  BY <1>2, <1>3, <1>4, <1>5, <1>6, Recursion
<1>8. /\ f \in [D -> V]
      /\ \A k \in D : f[k] = IF k \in {0} THEN val[k] ELSE step[k, f[nxt[k]]]
  BY <1>7 DEF Solves
<1>9. ASSUME NEW k \in 1 .. N PROVE f[k] = Found1(g, f[k - 1])
  <2>1. k \in D /\ k - 1 \in D /\ nxt[k] = k - 1 /\ k \notin {0}
    BY <1>2
  <2>2. f[k - 1] \in V
    BY <1>8, <2>1
  <2>3. f[k] = step[k, f[k - 1]]
    BY <1>8, <2>1
  <2> QED BY <1>4, <2>2, <2>3
<1>10. f[0] = roots
  <2>1. 0 \in D /\ 0 \in {0}
    OBVIOUS
  <2> QED BY <1>3, <1>8, <2>1
<1>11. f = [k \in D |-> IF k = 0 THEN roots ELSE Found1(g, f[k - 1])]
  <2>1. \A k \in D : f[k] = IF k = 0 THEN roots ELSE Found1(g, f[k - 1])
    <3> SUFFICES ASSUME NEW k \in D PROVE f[k] = IF k = 0 THEN roots ELSE Found1(g, f[k - 1])
      OBVIOUS
    <3>1. CASE k = 0
      BY <1>10, <3>1
    <3>2. CASE k # 0
      BY <1>9, <3>2
    <3> QED BY <3>1, <3>2
  <2> QED BY <1>8, <2>1
<1>12. ReachOf(g, roots) = [k \in D |-> IF k = 0 THEN roots ELSE Found1(g, ReachOf(g, roots)[k - 1])]
  BY <1>11 DEF ReachOf
<1>13. Reached(g, roots) = ReachOf(g, roots)[N]
  BY DEF Reached, ReachOf, Found1
<1> QED BY <1>12, <1>13

(* So many rounds find everything: a round that finds nothing is the last, *)
(* and there are no more rounds than cells.                                *)
LEMMA ReachedFacts ==
  ASSUME NEW g, Graph(g), NEW roots \in SUBSET Used(g)
  PROVE  /\ roots \subseteq Reached(g, roots) /\ Reached(g, roots) \subseteq Used(g)
         /\ \A c \in Reached(g, roots) : Marks(g, c) \subseteq Reached(g, roots)
<1>1. PICK N \in Nat : N = Cardinality(Cell)
  BY Cells, FS_CardinalityType
<1>2. PICK f : f = ReachOf(g, roots)
  OBVIOUS
<1>3. /\ f[0] = roots /\ \A k \in 1 .. N : f[k] = Found1(g, f[k - 1])
      /\ Reached(g, roots) = f[N]
  BY <1>1, <1>2, ReachFacts
<1> DEFINE Closed(R) == Found1(g, R) = R
           Good(R, k) == /\ roots \subseteq R /\ R \subseteq Used(g)
                         /\ Closed(R) \/ Cardinality(R) >= k
           S == {k \in 0 .. N : Good(f[k], k)}
<1>4. \A R : R \subseteq Used(g) => /\ IsFiniteSet(R) /\ Cardinality(R) \in Nat
                                    /\ Cardinality(R) <= N /\ (Cardinality(R) = N => R = Cell)
                                    /\ R \subseteq Found1(g, R) /\ Found1(g, R) \subseteq Used(g)
  <2> SUFFICES ASSUME NEW R, R \subseteq Used(g)
               PROVE  /\ IsFiniteSet(R) /\ Cardinality(R) \in Nat
                      /\ Cardinality(R) <= N /\ (Cardinality(R) = N => R = Cell)
                      /\ R \subseteq Found1(g, R) /\ Found1(g, R) \subseteq Used(g)
    OBVIOUS
  <2>1. R \in SUBSET Cell
    BY DEF Used
  <2>2. IsFiniteSet(R) /\ Cardinality(R) \in Nat /\ Cardinality(R) <= N /\ (Cardinality(R) = N => R = Cell)
    BY <1>1, <2>1, Cells, FS_Subset, FS_CardinalityType
  <2>3. R \subseteq Found1(g, R) /\ Found1(g, R) \subseteq Used(g)
    BY RoundFacts
  <2> QED BY <2>2, <2>3
<1>5. 0 \in S
  BY <1>3, <1>4
<1>6. ASSUME NEW k \in 0 .. N - 1, k \in S PROVE k + 1 \in S
  <2>1. PICK R : R = f[k]
    OBVIOUS
  <2>2. Good(R, k)
    BY <1>6, <2>1
  <2>3. k + 1 \in 1 .. N /\ f[k + 1] = Found1(g, R)
    BY <1>3, <2>1
  <2>4. roots \subseteq Found1(g, R) /\ Found1(g, R) \subseteq Used(g)
    BY <1>4, <2>2
  <2>5. CASE Closed(R)
    BY <2>2, <2>3, <2>5
  <2>6. CASE ~Closed(R)
    <3>1. IsFiniteSet(Found1(g, R)) /\ R \in SUBSET Found1(g, R)
      BY <1>4, <2>2, <2>4
    <3>2. Cardinality(R) <= Cardinality(Found1(g, R)) /\ Cardinality(R) # Cardinality(Found1(g, R))
      BY <2>6, <3>1, FS_Subset
    <3>3. Cardinality(Found1(g, R)) >= k + 1
      <4>1. Cardinality(R) \in Nat /\ Cardinality(Found1(g, R)) \in Nat /\ Cardinality(R) >= k
        BY <1>4, <2>2, <2>4, <2>6
      <4> QED BY <3>2, <4>1
    <3> QED BY <2>3, <2>4, <3>3
  <2> QED BY <2>5, <2>6
<1>7. N \in S
  <2> HIDE DEF S
  <2>1. 0 .. N \subseteq S
    BY <1>5, <1>6, InductionTo
  <2> QED BY <2>1
<1>8. PICK R : R = f[N]
  OBVIOUS
<1>9. Good(R, N)
  BY <1>7, <1>8
<1>10. Closed(R)
  <2>1. CASE ~Closed(R)
    <3>1. Cardinality(R) >= N /\ R \subseteq Used(g)
      BY <1>9, <2>1
    <3>2. R = Cell
      BY <1>4, <3>1
    <3>3. Used(g) = R
      BY <3>1, <3>2 DEF Used
    <3> QED BY <1>4, <3>1, <3>3
  <2> QED BY <2>1
<1> QED BY <1>3, <1>8, <1>9, <1>10 DEF Found1

(* Classes that nothing in use leads to are freed.                         *)
LEMMA CollectFacts ==
  ASSUME NEW g, Graph(g), NEW roots \in SUBSET Used(g), NEW new,
         new = [c \in Cell |-> IF c \in Reached(g, roots) THEN g[c] ELSE FreeNode]
  PROVE  /\ Graph(new) /\ Used(new) = Reached(g, roots) /\ roots \subseteq Used(new)
         /\ Upwards(g, Used(new))
         /\ \A c \in Used(new) : new[c] = g[c] /\ c \in Used(g)
<1>1. PICK R : R = Reached(g, roots)
  OBVIOUS
<1>2. /\ roots \subseteq R /\ R \subseteq Used(g) /\ R \subseteq Cell
      /\ \A c \in R : Marks(g, c) \subseteq R
  BY <1>1, ReachedFacts DEF Used
<1>3. FreeNode \in Node /\ FreeNode.of = None /\ FreeNode.upper = None
  BY DEF FreeNode, Node
<1>4. /\ new \in [Cell -> Node]
      /\ \A c \in R : new[c] = g[c]
      /\ \A c \in Cell \ R : new[c] = FreeNode
  BY <1>1, <1>2, <1>3 DEF Graph
<1>5. Used(new) = R
  BY <1>2, <1>3, <1>4 DEF Used
<1>6. \A c \in R : g[c].upper \in R \cup {None} /\ g[c].of \in R
  BY <1>2 DEF Marks
<1>7. ASSUME NEW S \in SUBSET Cell, S # {}, \A x \in S : new[x].upper \in S PROVE FALSE
  <2>1. S \subseteq R
    <3> SUFFICES ASSUME NEW x \in S, x \notin R PROVE FALSE
      OBVIOUS
    <3>1. new[x].upper = None
      BY <1>3, <1>4
    <3> QED BY <1>7, <3>1, Cells
  <2> QED BY <1>4, <1>7, <2>1 DEF Graph, Acyclic
<1>8. Acyclic(new)
  BY <1>7 DEF Acyclic
<1>9. Graph(new)
  BY <1>3, <1>4, <1>5, <1>6, <1>8 DEF Graph
<1> QED BY <1>1, <1>2, <1>4, <1>5, <1>6, <1>9 DEF Upwards

-----------------------------------------------------------------------------
(* The classes of the program *)

Classes == Graph(h) /\ held \in SUBSET Used(h)

LEMMA ClassesInit == Init => Classes
<1> SUFFICES ASSUME Init PROVE Classes
  OBVIOUS
<1>1. PICK b : b = BasicObject
  OBVIOUS
<1>2. b \in Cell /\ b # None
  BY <1>1, Cells
<1>3. FreeNode \in Node /\ FreeNode.of = None /\ FreeNode.upper = None
  BY DEF FreeNode, Node
<1>4. PICK root : root = [FreeNode EXCEPT !.of = b]
  OBVIOUS
<1>5. root \in Node /\ root.of = b /\ root.upper = None
  BY <1>2, <1>3, <1>4 DEF Node
<1>6. h = [c \in Cell |-> IF c = b THEN root ELSE FreeNode] /\ held = {b}
  BY <1>1, <1>4 DEF Init
<1>7. h \in [Cell -> Node] /\ \A c \in Cell : h[c].upper = None
  BY <1>3, <1>5, <1>6
<1>8. Used(h) = {b} /\ h[b].of = b
  BY <1>2, <1>3, <1>5, <1>6 DEF Used
<1>9. Acyclic(h)
  BY <1>7, Cells DEF Acyclic
<1> QED BY <1>6, <1>7, <1>8, <1>9 DEF Classes, Graph

(* New classes, and collections, change nothing above a class in use.      *)
Kept(A) ==
    /\ Upwards(h, A) /\ A \subseteq Used(h) /\ held \subseteq A
    /\ \A c \in A : h'[c] = h[c]
    /\ \A c \in A : methods'[h[c].of] = methods[h[c].of]

LEMMA MadeKeeps ==
  ASSUME Classes, methods \in [Cell -> [Name -> MethodId]],
         NewModule \/ \E c \in Cell : NewClass(c)
  PROVE  Classes' /\ Kept(Used(h)) /\ methods' \in [Cell -> [Name -> MethodId]] /\ held \subseteq held'
<1>1. PICK new, c : /\ Made(new) /\ Room(h, 1) /\ c = Fresh(h, 1)[1]
                    /\ new = WithModule(h) \/ \E s \in Used(h) : new = WithClass(h, s)
  BY DEF NewModule, NewClass, Classes
<1>2. /\ Graph(new) /\ c \in FreeCells(h) /\ Used(new) = Used(h) \cup {c}
      /\ \A x \in Used(h) : new[x] = h[x]
  BY <1>1, NewFacts DEF Classes
<1>3. h' = new /\ methods' = [methods EXCEPT ![c] = NoTable] /\ held' = held \cup {c}
  BY <1>1 DEF Made
<1>4. Classes'
  BY <1>2, <1>3 DEF Classes
<1>5. c \in Cell /\ c \notin Used(h)
  BY <1>2 DEF FreeCells, Used
<1>6. NoTable \in [Name -> MethodId]
  BY MethodCacheAssumption DEF NoTable, NoMethod, MethodId
<1>7. methods' \in [Cell -> [Name -> MethodId]] /\ \A x \in Cell \ {c} : methods'[x] = methods[x]
  BY <1>3, <1>5, <1>6
<1>8. \A x \in Used(h) : h[x].of \in Used(h) /\ h[x].of \in Cell \ {c}
  BY <1>5 DEF Classes, Graph, Used
<1>9. Kept(Used(h))
  BY <1>2, <1>3, <1>7, <1>8, UsedUpwards DEF Kept, Classes
<1> QED BY <1>3, <1>4, <1>7, <1>9

LEMMA CollectKeeps ==
  ASSUME Classes, Collect
  PROVE  Classes' /\ \E A : Kept(A)
<1>1. PICK g : g = h
  OBVIOUS
<1>2. PICK roots : roots = held
  OBVIOUS
<1>3. PICK new : new = [c \in Cell |-> IF c \in Reached(g, roots) THEN g[c] ELSE FreeNode]
  OBVIOUS
<1>4. h' = new /\ held' = held /\ methods' = methods
  BY <1>1, <1>2, <1>3 DEF Collect
<1>5. Graph(g) /\ roots \in SUBSET Used(g)
  BY <1>1, <1>2 DEF Classes
<1>6. PICK A : A = Used(new)
  OBVIOUS
<1>7. /\ Graph(new) /\ roots \subseteq A /\ Upwards(g, A)
      /\ \A c \in A : new[c] = g[c] /\ c \in Used(g)
  BY <1>3, <1>5, <1>6, CollectFacts
<1>8. Classes'
  BY <1>2, <1>4, <1>6, <1>7 DEF Classes
<1>9. Kept(A)
  BY <1>1, <1>2, <1>4, <1>7 DEF Kept
<1> QED BY <1>8, <1>9

LEMMA RelinkGrafts ==
  ASSUME Classes, NEW c \in Cell, NEW m \in Cell, Include(c, m) \/ Prepend(c, m)
  PROVE  /\ c \in held /\ m \in held /\ h[m].module /\ held' = held
         /\ c \in Used(h) /\ m \in Used(h)
         /\ \E to : Grafted(h', h, c, m, to)
<1>1. /\ c \in held /\ m \in held /\ h[m].module /\ held' = held
      /\ c \in Used(h) /\ m \in Used(h)
      /\ \/ h' = WithInclude(h, c, m) /\ Room(h, Len(Chain(h, m)))
         \/ /\ h' = WithPrepend(h, c, m)
            /\ Room(h, Len(Chain(h, m)) + (IF h[c].prepended THEN 0 ELSE 1))
  BY DEF Include, Prepend, Relinked, Classes
<1>2. PICK g : g = h
  OBVIOUS
<1>3. PICK new : new = h'
  OBVIOUS
<1>4. \E to : Grafted(new, g, c, m, to)
  BY <1>1, <1>2, <1>3, IncludeFacts, PrependFacts DEF Classes
<1> QED BY <1>1, <1>2, <1>3, <1>4

LEMMA RelinkKeeps ==
  ASSUME Classes, NEW c \in Cell, NEW m \in Cell, Include(c, m) \/ Prepend(c, m)
  PROVE  Classes'
<1>1. PICK to : Grafted(h', h, c, m, to)
  BY RelinkGrafts
<1>2. c \in Used(h) /\ held' = held
  BY RelinkGrafts
<1>3. PICK g : g = h
  OBVIOUS
<1>4. PICK new : new = h'
  OBVIOUS
<1>5. Graph(new) /\ Used(g) \subseteq Used(new)
  BY <1>1, <1>2, <1>3, <1>4, SpliceFacts DEF Classes, Grafted
<1> QED BY <1>2, <1>3, <1>4, <1>5 DEF Classes

LEMMA ClassesNext ==
  ASSUME Classes, [Next]_vars
  PROVE  Classes'
<1>1. ASSUME NEW new, Made(new), Room(h, 1),
             new = WithModule(h) \/ \E s \in Used(h) : new = WithClass(h, s)
      PROVE  Classes'
  <2>1. PICK c : c = Fresh(h, 1)[1]
    OBVIOUS
  <2>2. Graph(new) /\ Used(new) = Used(h) \cup {c}
    BY <1>1, <2>1, NewFacts DEF Classes
  <2>3. h' = new /\ held' = held \cup {c}
    BY <1>1, <2>1 DEF Made
  <2> QED BY <2>2, <2>3 DEF Classes
<1>2. CASE NewModule
  BY <1>1, <1>2 DEF NewModule
<1>3. ASSUME NEW c \in Cell, NewClass(c) PROVE Classes'
  BY <1>1, <1>3 DEF NewClass, Classes
<1>4. CASE Collect
  BY <1>4, CollectKeeps
<1>5. ASSUME NEW c \in Cell, Forget(c) PROVE Classes'
  BY <1>5 DEF Forget, Classes
<1>6. ASSUME NEW c \in Cell, NEW n \in Name, AddMethod(c, n) \/ FindMethod(c, n) PROVE Classes'
  BY <1>6 DEF AddMethod, FindMethod, Classes
<1>7. ASSUME NEW c \in Cell, NEW m \in Cell, Include(c, m) \/ Prepend(c, m) PROVE Classes'
  BY <1>7, RelinkKeeps
<1>8. ASSUME NEW s \in Site, NEW c \in Cell, Call(s, c) PROVE Classes'
  BY <1>8 DEF Call, Classes
<1>9. CASE UNCHANGED vars
  BY <1>9 DEF vars, Classes
<1> QED BY <1>2, <1>3, <1>4, <1>5, <1>6, <1>7, <1>8, <1>9 DEF Next

(* No collection frees a cell that a search from a class in use visits,    *)
(* nor the class it is a copy of; and each search comes to an end.         *)
THEOREM ChainsStay == Spec => []ChainsAllocated
<1>1. Classes => ChainsAllocated
  <2> SUFFICES ASSUME Classes, NEW c \in held, NEW k \in DOMAIN Ancestors(h, c)
               PROVE  Ancestors(h, c)[k] \notin FreeCells(h) \cup {None}
    BY DEF ChainsAllocated
  <2>1. c \in Used(h) /\ Graph(h)
    BY DEF Classes
  <2>2. Chain(h, c) \in Seq(Cell)
    BY <2>1, UsedFacts
  <2>3. k \in 1 .. Len(Chain(h, c)) /\ Ancestors(h, c)[k] = h[Chain(h, c)[k]].of
    BY <2>2 DEF Ancestors
  <2>4. Ancestors(h, c)[k] \in Used(h)
    BY <2>1, <2>3, UsedFacts
  <2> QED BY <2>4, Cells DEF FreeCells, Used
<1> QED BY <1>1, ClassesInit, ClassesNext, PTL DEF Spec

-----------------------------------------------------------------------------
(* Lists within lists *)

(* The elements of s are in t, in the same order.                          *)
Embeds(s, t) ==
    \E e \in [1 .. Len(s) -> 1 .. Len(t)] :
        /\ \A i, j \in 1 .. Len(s) : i < j => e[i] < e[j]
        /\ \A i \in 1 .. Len(s) : t[e[i]] = s[i]

LEMMA EmbedsSame ==
  ASSUME NEW S, NEW s \in Seq(S)
  PROVE  Embeds(s, s)
<1> DEFINE e == [i \in 1 .. Len(s) |-> i]
<1>1. /\ e \in [1 .. Len(s) -> 1 .. Len(s)]
      /\ \A i, j \in 1 .. Len(s) : i < j => e[i] < e[j]
      /\ \A i \in 1 .. Len(s) : s[e[i]] = s[i]
  OBVIOUS
<1> HIDE DEF e
<1> QED BY <1>1 DEF Embeds

LEMMA PushedFacts ==
  ASSUME NEW S, NEW s \in Seq(S), NEW x \in S
  PROVE  /\ <<x>> \o s \in Seq(S) /\ Len(<<x>> \o s) = Len(s) + 1 /\ Len(s) \in Nat
         /\ (<<x>> \o s)[1] = x
         /\ \A k \in 1 .. Len(s) : (<<x>> \o s)[k + 1] = s[k]
         /\ ToSet(<<x>> \o s) = {x} \cup ToSet(s)
<1>1. /\ <<x>> \o s \in Seq(S) /\ Len(<<x>> \o s) = Len(s) + 1 /\ Len(s) \in Nat
      /\ (<<x>> \o s)[1] = x
      /\ \A k \in 1 .. Len(s) : (<<x>> \o s)[k + 1] = s[k]
  OBVIOUS
<1>2. PICK t : t = <<x>> \o s
  OBVIOUS
<1>3. DOMAIN s = 1 .. Len(s) /\ DOMAIN t = 1 .. Len(s) + 1
  BY <1>1, <1>2
<1>4. ASSUME NEW y \in ToSet(t) PROVE y \in {x} \cup ToSet(s)
  <2>1. PICK k \in 1 .. Len(s) + 1 : t[k] = y
    BY <1>3, <1>4 DEF ToSet
  <2>2. CASE k = 1
    BY <1>1, <1>2, <2>1, <2>2
  <2>3. CASE k # 1
    <3>1. k - 1 \in 1 .. Len(s) /\ t[(k - 1) + 1] = s[k - 1]
      BY <1>1, <1>2, <2>3
    <3> QED BY <1>3, <2>1, <3>1 DEF ToSet
  <2> QED BY <2>2, <2>3
<1>5. x \in ToSet(t)
  BY <1>1, <1>2, <1>3 DEF ToSet
<1>6. ASSUME NEW y \in ToSet(s) PROVE y \in ToSet(t)
  <2>1. PICK k \in 1 .. Len(s) : s[k] = y
    BY <1>3, <1>6 DEF ToSet
  <2>2. k + 1 \in 1 .. Len(s) + 1 /\ t[k + 1] = y
    BY <1>1, <1>2, <2>1
  <2> QED BY <1>3, <2>2 DEF ToSet
<1> QED BY <1>1, <1>2, <1>4, <1>5, <1>6

(* A list stays within when another element is put before both, or before  *)
(* the longer one.                                                         *)
LEMMA EmbedsMore ==
  ASSUME NEW S, NEW s \in Seq(S), NEW t \in Seq(S), Embeds(s, t), NEW x \in S
  PROVE  Embeds(s, <<x>> \o t) /\ Embeds(<<x>> \o s, <<x>> \o t)
<1>1. PICK e \in [1 .. Len(s) -> 1 .. Len(t)] :
        /\ \A i, j \in 1 .. Len(s) : i < j => e[i] < e[j]
        /\ \A i \in 1 .. Len(s) : t[e[i]] = s[i]
  BY DEF Embeds
<1>2. PICK u : u = <<x>> \o t
  OBVIOUS
<1>3. PICK r : r = <<x>> \o s
  OBVIOUS
<1>4. /\ Len(u) = Len(t) + 1 /\ Len(t) \in Nat /\ u[1] = x
      /\ \A k \in 1 .. Len(t) : u[k + 1] = t[k]
  BY <1>2, PushedFacts
<1>5. /\ Len(r) = Len(s) + 1 /\ Len(s) \in Nat /\ r[1] = x
      /\ \A k \in 1 .. Len(s) : r[k + 1] = s[k]
  BY <1>3, PushedFacts
<1>6. Embeds(s, u)
  <2> DEFINE f == [i \in 1 .. Len(s) |-> e[i] + 1]
  <2>1. \A i \in 1 .. Len(s) : e[i] \in 1 .. Len(t) /\ f[i] = e[i] + 1
    BY <1>1
  <2>2. f \in [1 .. Len(s) -> 1 .. Len(u)]
    BY <1>4, <2>1
  <2> HIDE DEF f
  <2>3. \A i, j \in 1 .. Len(s) : i < j => f[i] < f[j]
    BY <1>1, <1>4, <2>1
  <2>4. \A i \in 1 .. Len(s) : u[f[i]] = s[i]
    BY <1>1, <1>4, <2>1
  <2> QED BY <2>2, <2>3, <2>4 DEF Embeds
<1>7. Embeds(r, u)
  <2> DEFINE f == [i \in 1 .. Len(r) |-> IF i = 1 THEN 1 ELSE e[i - 1] + 1]
  <2>1. ASSUME NEW i \in 1 .. Len(r), i # 1
        PROVE  /\ i - 1 \in 1 .. Len(s) /\ e[i - 1] \in 1 .. Len(t)
               /\ f[i] = e[i - 1] + 1 /\ u[f[i]] = r[i]
    <3>1. i - 1 \in 1 .. Len(s) /\ r[(i - 1) + 1] = s[i - 1]
      BY <1>5, <2>1
    <3>2. e[i - 1] \in 1 .. Len(t) /\ t[e[i - 1]] = s[i - 1]
      BY <1>1, <3>1
    <3>3. f[i] = e[i - 1] + 1
      BY <2>1
    <3>4. u[e[i - 1] + 1] = t[e[i - 1]]
      BY <1>4, <3>2
    <3> QED BY <3>1, <3>2, <3>3, <3>4
  <2>2. 1 \in 1 .. Len(r) /\ f[1] = 1
    BY <1>5
  <2>3. f \in [1 .. Len(r) -> 1 .. Len(u)]
    <3>1. \A i \in 1 .. Len(r) : f[i] \in 1 .. Len(u)
      <4> HIDE DEF f
      <4> QED BY <1>4, <2>1, <2>2
    <3> QED BY <3>1
  <2> HIDE DEF f
  <2>4. ASSUME NEW i \in 1 .. Len(r), NEW j \in 1 .. Len(r), i < j PROVE f[i] < f[j]
    <3>1. j # 1 /\ f[j] = e[j - 1] + 1 /\ e[j - 1] \in 1 .. Len(t) /\ j - 1 \in 1 .. Len(s)
      BY <2>1, <2>4
    <3>2. CASE i = 1
      BY <2>2, <3>1, <3>2
    <3>3. CASE i # 1
      <4>1. f[i] = e[i - 1] + 1 /\ i - 1 \in 1 .. Len(s) /\ e[i - 1] \in 1 .. Len(t)
        BY <2>1, <3>3
      <4>2. i - 1 < j - 1
        BY <2>4
      <4>3. e[i - 1] < e[j - 1]
        BY <1>1, <3>1, <4>1, <4>2
      <4> QED BY <3>1, <4>1, <4>3
    <3> QED BY <3>2, <3>3
  <2>5. \A i \in 1 .. Len(r) : u[f[i]] = r[i]
    BY <1>4, <1>5, <2>1, <2>2
  <2> QED BY <2>3, <2>4, <2>5 DEF Embeds
<1> QED BY <1>2, <1>3, <1>6, <1>7

LEMMA EmbedsSet ==
  ASSUME NEW S, NEW s \in Seq(S), NEW t \in Seq(S), Embeds(s, t)
  PROVE  ToSet(s) \subseteq ToSet(t)
<1>1. PICK e \in [1 .. Len(s) -> 1 .. Len(t)] : \A i \in 1 .. Len(s) : t[e[i]] = s[i]
  BY DEF Embeds
<1>2. DOMAIN s = 1 .. Len(s) /\ DOMAIN t = 1 .. Len(t)
  OBVIOUS
<1> QED BY <1>1, <1>2 DEF ToSet

(* Taking the first that fits, from the front, finds a list that is within *)
(* another.                                                                *)
MatchOf(s, t) ==
    CHOOSE f : f = [k \in 0 .. Len(t) |->
        IF k = 0 THEN 0
        ELSE LET m == f[k - 1] IN IF m < Len(s) /\ s[m + 1] = t[k] THEN m + 1 ELSE m]

LEMMA MatchFacts ==
  ASSUME NEW S, NEW s \in Seq(S), NEW t \in Seq(S)
  PROVE  /\ MatchOf(s, t)[0] = 0
         /\ \A k \in 0 .. Len(t) - 1 :
                MatchOf(s, t)[k + 1] =
                    IF MatchOf(s, t)[k] < Len(s) /\ s[MatchOf(s, t)[k] + 1] = t[k + 1]
                    THEN MatchOf(s, t)[k] + 1 ELSE MatchOf(s, t)[k]
<1> DEFINE Go(k, m) == IF m < Len(s) /\ s[m + 1] = t[k] THEN m + 1 ELSE m
           step == [p \in Nat \X Nat |-> Go(p[1], p[2])]
<1>1. step \in [Nat \X Nat -> Nat] /\ \A k, m \in Nat : step[<<k, m>>] = Go(k, m)
  <2>1. \A k, m \in Nat : Go(k, m) \in Nat
    OBVIOUS
  <2>2. step \in [Nat \X Nat -> Nat]
    <3> HIDE DEF Go
    <3> QED BY <2>1
  <2> HIDE DEF Go
  <2> QED BY <2>2
<1> HIDE DEF step
<1>2. PICK F : Counts(F, Nat, 0, step)
  BY <1>1, Counting
<1>3. F \in [Nat -> Nat] /\ F[0] = 0 /\ \A k \in Nat : F[k + 1] = Go(k + 1, F[k])
  <2>1. F \in [Nat -> Nat] /\ F[0] = 0 /\ \A k \in Nat : F[k + 1] = step[<<k + 1, F[k]>>]
    BY <1>2 DEF Counts
  <2> HIDE DEF Go
  <2>2. ASSUME NEW k \in Nat PROVE F[k + 1] = Go(k + 1, F[k])
    <3>1. k + 1 \in Nat /\ F[k] \in Nat
      BY <2>1
    <3> QED BY <1>1, <2>1, <3>1
  <2> QED BY <2>1, <2>2
<1> DEFINE f == [k \in 0 .. Len(t) |-> F[k]]
<1>4. Len(t) \in Nat /\ \A k \in 0 .. Len(t) : f[k] = F[k]
  OBVIOUS
<1>5. \A k \in 0 .. Len(t) : f[k] = IF k = 0 THEN 0 ELSE Go(k, f[k - 1])
  <2> SUFFICES ASSUME NEW k \in 0 .. Len(t) PROVE f[k] = IF k = 0 THEN 0 ELSE Go(k, f[k - 1])
    OBVIOUS
  <2> HIDE DEF f, Go
  <2>1. CASE k = 0
    BY <1>3, <1>4, <2>1
  <2>2. CASE k # 0
    <3>1. k - 1 \in Nat /\ k - 1 \in 0 .. Len(t) /\ (k - 1) + 1 = k
      BY <1>4, <2>2
    <3> QED BY <1>3, <1>4, <2>2, <3>1
  <2> QED BY <2>1, <2>2
<1>6. f = [k \in 0 .. Len(t) |-> IF k = 0 THEN 0 ELSE Go(k, f[k - 1])]
  <2>1. f = [k \in 0 .. Len(t) |-> f[k]]
    OBVIOUS
  <2> HIDE DEF f
  <2> QED BY <1>5, <2>1
<1> HIDE DEF f
<1>7. MatchOf(s, t) = [k \in 0 .. Len(t) |-> IF k = 0 THEN 0 ELSE Go(k, MatchOf(s, t)[k - 1])]
  BY <1>6 DEF MatchOf
<1>8. \A k \in 0 .. Len(t) : MatchOf(s, t)[k] = IF k = 0 THEN 0 ELSE Go(k, MatchOf(s, t)[k - 1])
  BY <1>7
<1>9. ASSUME NEW k \in 0 .. Len(t) - 1 PROVE MatchOf(s, t)[k + 1] = Go(k + 1, MatchOf(s, t)[k])
  <2>1. k + 1 \in 0 .. Len(t) /\ k + 1 # 0 /\ (k + 1) - 1 = k
    BY <1>4
  <2> HIDE DEF Go
  <2> QED BY <1>8, <2>1
<1>10. MatchOf(s, t)[0] = 0
  BY <1>4, <1>8
<1> QED BY <1>9, <1>10

LEMMA EmbedsSubsequence ==
  ASSUME NEW S, NEW s \in Seq(S), NEW t \in Seq(S), Embeds(s, t)
  PROVE  SubsequenceOf(s, t)
<1>1. PICK e \in [1 .. Len(s) -> 1 .. Len(t)] :
        /\ \A i, j \in 1 .. Len(s) : i < j => e[i] < e[j]
        /\ \A i \in 1 .. Len(s) : t[e[i]] = s[i]
  BY DEF Embeds
<1>2. PICK M : M = MatchOf(s, t)
  OBVIOUS
<1>3. /\ M[0] = 0 /\ Len(s) \in Nat /\ Len(t) \in Nat
      /\ \A k \in 0 .. Len(t) - 1 :
            M[k + 1] = IF M[k] < Len(s) /\ s[M[k] + 1] = t[k + 1] THEN M[k] + 1 ELSE M[k]
  <2>1. Len(s) \in Nat /\ Len(t) \in Nat
    OBVIOUS
  <2>2. /\ M[0] = 0
        /\ \A k \in 0 .. Len(t) - 1 :
              M[k + 1] = IF M[k] < Len(s) /\ s[M[k] + 1] = t[k + 1] THEN M[k] + 1 ELSE M[k]
    BY <1>2, MatchFacts
  <2> QED BY <2>1, <2>2
<1> DEFINE K == {k \in 0 .. Len(t) : /\ M[k] \in 0 .. Len(s)
                                     /\ \A i \in 1 .. Len(s) : e[i] <= k => i <= M[k]}
<1>4. 0 \in K
  <2>1. \A i \in 1 .. Len(s) : e[i] \in 1 .. Len(t)
    BY <1>1
  <2>2. \A i \in 1 .. Len(s) : ~(e[i] <= 0)
    BY <1>3, <2>1
  <2>3. 0 \in 0 .. Len(t) /\ M[0] \in 0 .. Len(s)
    BY <1>3
  <2> QED BY <2>2, <2>3
<1>5. ASSUME NEW k \in 0 .. Len(t) - 1, k \in K PROVE k + 1 \in K
  <2>1. M[k] \in 0 .. Len(s) /\ k + 1 \in 0 .. Len(t)
    BY <1>3, <1>5
  <2>2. M[k + 1] \in 0 .. Len(s) /\ M[k] <= M[k + 1]
    BY <1>3, <2>1
  <2>3. ASSUME NEW i \in 1 .. Len(s), e[i] <= k + 1 PROVE i <= M[k + 1]
    <3>1. e[i] \in 1 .. Len(t) /\ t[e[i]] = s[i]
      BY <1>1
    <3>2. CASE e[i] <= k
      BY <1>5, <2>1, <2>2, <3>2
    <3>3. CASE e[i] = k + 1
      <4>1. i - 1 <= M[k]
        <5>1. CASE i = 1
          BY <2>1, <5>1
        <5>2. CASE i # 1
          <6>1. i - 1 \in 1 .. Len(s) /\ i - 1 < i
            BY <5>2
          <6>2. e[i - 1] < e[i] /\ e[i - 1] \in 1 .. Len(t)
            BY <1>1, <6>1
          <6>3. e[i - 1] <= k
            BY <3>3, <6>2
          <6> QED BY <1>5, <6>1, <6>3
        <5> QED BY <5>1, <5>2
      <4>2. CASE i <= M[k]
        BY <2>1, <2>2, <4>2
      <4>3. CASE M[k] = i - 1
        <5>1. M[k] < Len(s) /\ M[k] + 1 = i /\ s[M[k] + 1] = t[k + 1]
          BY <1>3, <3>1, <3>3, <4>3
        <5> QED BY <1>3, <5>1
      <4> QED BY <2>1, <4>1, <4>2, <4>3
    <3> QED BY <2>3, <3>1, <3>2, <3>3
  <2> QED BY <2>1, <2>2, <2>3
<1>6. Len(t) \in K
  <2> HIDE DEF K
  <2>1. 0 .. Len(t) \subseteq K
    BY <1>3, <1>4, <1>5, InductionTo
  <2> QED BY <1>3, <2>1
<1>7. M[Len(t)] = Len(s)
  <2>1. M[Len(t)] \in 0 .. Len(s)
    BY <1>6
  <2>2. CASE Len(s) = 0
    BY <2>1, <2>2
  <2>3. CASE Len(s) # 0
    <3>1. Len(s) \in 1 .. Len(s) /\ e[Len(s)] <= Len(t)
      BY <1>1, <1>3, <2>3
    <3>2. Len(s) <= M[Len(t)]
      BY <1>6, <3>1
    <3> QED BY <1>3, <2>1, <3>2
  <2> QED BY <2>2, <2>3
<1>8. SubsequenceOf(s, t) <=> MatchOf(s, t)[Len(t)] = Len(s)
  BY DEF SubsequenceOf, MatchOf
<1> QED BY <1>2, <1>7, <1>8

-----------------------------------------------------------------------------
(* The ancestors of a class *)

(* The classes that a search names from cell m on when it comes there from *)
(* below, where it passes over what something was prepended to.            *)
Seen(g, m) == Ancestors(g, SkipOf(g)[m])

LEMMA AncestorsFacts ==
  ASSUME NEW g, Graph(g)
  PROVE  /\ Ancestors(g, None) = <<>>
         /\ \A c \in Up0 : Ancestors(g, c) \in Seq(Up0)
         /\ \A c \in Cell : Ancestors(g, c) = <<g[c].of>> \o Ancestors(g, Upper(g, c))
<1>1. ASSUME NEW c \in Up0 PROVE Ancestors(g, c) \in Seq(Up0)
  <2>1. PICK s \in Seq(Cell) : s = Chain(g, c)
    BY ChainFacts
  <2>2. PICK a : a = [k \in DOMAIN s |-> g[s[k]].of]
    OBVIOUS
  <2>3. DOMAIN s = 1 .. Len(s) /\ Len(s) \in Nat /\ \A k \in 1 .. Len(s) : s[k] \in Cell
    OBVIOUS
  <2>4. \A k \in 1 .. Len(s) : g[s[k]].of \in Up0
    BY <2>3 DEF Graph, Node, Up0
  <2>5. a \in [1 .. Len(s) -> Up0]
    BY <2>2, <2>3, <2>4
  <2>6. a \in Seq(Up0)
    BY <2>3, <2>5
  <2> QED BY <2>1, <2>2, <2>6 DEF Ancestors
<1>2. ASSUME NEW c \in Cell PROVE Ancestors(g, c) = <<g[c].of>> \o Ancestors(g, Upper(g, c))
  <2>1. PICK s : s = Chain(g, Upper(g, c))
    OBVIOUS
  <2>2. PICK r : r = Chain(g, c)
    OBVIOUS
  <2>3. s \in Seq(Cell) /\ r \in Seq(Cell) /\ Upper(g, c) \in Up0 /\ c \in Up0
    BY <2>1, <2>2, ChainFacts, UpperFacts DEF Up0
  <2>4. /\ Len(r) = Len(s) + 1 /\ Len(s) \in Nat /\ r[1] = c
        /\ \A k \in 1 .. Len(s) : r[k + 1] = s[k]
    BY <2>1, <2>2, ChainStep
  <2>5. PICK a : a = Ancestors(g, Upper(g, c))
    OBVIOUS
  <2>6. PICK b : b = Ancestors(g, c)
    OBVIOUS
  <2>7. a \in Seq(Up0) /\ b \in Seq(Up0)
    BY <1>1, <2>3, <2>5, <2>6
  <2>8. a = [k \in 1 .. Len(s) |-> g[s[k]].of] /\ b = [k \in 1 .. Len(r) |-> g[r[k]].of]
    BY <2>1, <2>2, <2>3, <2>5, <2>6 DEF Ancestors
  <2>9. Len(a) = Len(s) /\ Len(b) = Len(r)
    BY <2>4, <2>7, <2>8
  <2>10. g[c].of \in Up0
    BY DEF Graph, Node, Up0
  <2>11. PICK d : d = <<g[c].of>> \o a
    OBVIOUS
  <2>12. /\ d \in Seq(Up0) /\ Len(d) = Len(a) + 1 /\ d[1] = g[c].of
         /\ \A k \in 1 .. Len(a) : d[k + 1] = a[k]
    BY <2>7, <2>10, <2>11, PushedFacts
  <2>13. ASSUME NEW k \in 1 .. Len(b) PROVE b[k] = d[k]
    <3>1. b[k] = g[r[k]].of
      BY <2>8, <2>9
    <3>2. CASE k = 1
      BY <2>4, <2>12, <3>1, <3>2
    <3>3. CASE k # 1
      <4>1. k - 1 \in 1 .. Len(s) /\ (k - 1) + 1 = k
        BY <2>4, <2>9, <3>3
      <4>2. r[k] = s[k - 1] /\ d[k] = a[k - 1] /\ a[k - 1] = g[s[k - 1]].of
        BY <2>4, <2>8, <2>9, <2>12, <4>1
      <4> QED BY <3>1, <4>2
    <3> QED BY <3>2, <3>3
  <2>14. Len(b) = Len(d)
    BY <2>4, <2>9, <2>12
  <2>15. b = d
    BY <2>7, <2>12, <2>13, <2>14
  <2> QED BY <2>5, <2>6, <2>11, <2>15
<1>3. Ancestors(g, None) = <<>>
  <2>1. PICK s : s = Chain(g, None)
    OBVIOUS
  <2>2. s = <<>>
    BY <2>1, ChainFacts
  <2>3. [k \in DOMAIN s |-> g[s[k]].of] = <<>>
    BY <2>2
  <2> QED BY <2>1, <2>3 DEF Ancestors
<1> QED BY <1>1, <1>2, <1>3

LEMMA SeenFacts ==
  ASSUME NEW g, Graph(g)
  PROVE  /\ Seen(g, None) = <<>>
         /\ \A m \in Up0 : Seen(g, m) \in Seq(Up0)
         /\ \A c \in Cell : /\ g[c].upper \in Up0 /\ g[c].of \in Up0
                            /\ Ancestors(g, c) \in Seq(Up0)
                            /\ Ancestors(g, Upper(g, c)) = Seen(g, g[c].upper)
                            /\ Ancestors(g, c) = <<g[c].of>> \o Seen(g, g[c].upper)
                            /\ Seen(g, c) = IF g[c].prepended THEN Seen(g, g[c].upper)
                                            ELSE Ancestors(g, c)
<1>1. None \in Up0 /\ SkipOf(g)[None] = None
  <2>1. None \in Up0
    BY DEF Up0
  <2> QED BY <2>1, SkipFacts DEF Skips
<1>2. \A m \in Up0 : SkipOf(g)[m] \in Up0
  BY SkipFacts
<1>3. \A m \in Up0 : Seen(g, m) \in Seq(Up0)
  BY <1>2, AncestorsFacts DEF Seen
<1>4. ASSUME NEW c \in Cell
      PROVE  /\ g[c].upper \in Up0 /\ g[c].of \in Up0
             /\ Ancestors(g, c) \in Seq(Up0)
             /\ Ancestors(g, Upper(g, c)) = Seen(g, g[c].upper)
             /\ Ancestors(g, c) = <<g[c].of>> \o Seen(g, g[c].upper)
             /\ Seen(g, c) = IF g[c].prepended THEN Seen(g, g[c].upper) ELSE Ancestors(g, c)
  <2>1. g[c].upper \in Up0 /\ g[c].of \in Up0 /\ c \in Up0 /\ c # None
    BY Cells DEF Graph, Node, Up0
  <2>2. Ancestors(g, Upper(g, c)) = Seen(g, g[c].upper)
    BY UpperFacts DEF Seen
  <2>3. SkipOf(g)[c] = IF g[c].prepended THEN SkipOf(g)[g[c].upper] ELSE c
    BY <2>1, SkipFacts DEF Skips
  <2>4. Seen(g, c) = IF g[c].prepended THEN Seen(g, g[c].upper) ELSE Ancestors(g, c)
    BY <2>3 DEF Seen
  <2> QED BY <2>1, <2>2, <2>4, AncestorsFacts
<1>5. Seen(g, None) = <<>>
  BY <1>1, AncestorsFacts DEF Seen
<1> QED BY <1>3, <1>4, <1>5

(* What is seen from above is seen from below.                             *)
LEMMA SeenMore ==
  ASSUME NEW g, Graph(g), NEW s \in Seq(Up0), NEW c \in Cell, Embeds(s, Seen(g, g[c].upper))
  PROVE  Embeds(s, Seen(g, c))
<1>1. /\ g[c].of \in Up0 /\ Seen(g, g[c].upper) \in Seq(Up0)
      /\ Seen(g, c) = IF g[c].prepended THEN Seen(g, g[c].upper)
                      ELSE <<g[c].of>> \o Seen(g, g[c].upper)
  BY SeenFacts
<1> QED BY <1>1, EmbedsMore

LEMMA GraftFacts ==
  ASSUME NEW g, Graph(g), NEW c \in Used(g), NEW m, NEW to, NEW new, Grafted(new, g, c, m, to)
  PROVE  /\ Graph(new) /\ Used(g) \subseteq Used(new) /\ Used(g) \subseteq Cell
         /\ Len(to) \in Nat \ {0} /\ 1 \in 1 .. Len(to) /\ Len(to) \in 1 .. Len(to)
         /\ \A k \in 1 .. Len(to) : /\ to[k] \in Cell /\ to[k] \notin Used(g)
                                    /\ new[to[k]].of \in Used(g)
                                    /\ k < Len(to) => new[to[k]].upper = to[k + 1]
         /\ new[to[Len(to)]].upper = g[c].upper
         /\ new[c].upper = to[1] /\ new[c].of = g[c].of /\ new[c].module = g[c].module
         /\ \A x \in Used(g) \ {c} : new[x] = g[x]
         /\ \A x \in Cell : x # c /\ (\A k \in 1 .. Len(to) : to[k] # x) => new[x] = g[x]
<1>1. Spliced(new, g, c, to)
  BY DEF Grafted
<1>2. Graph(new) /\ Used(g) \subseteq Used(new)
  BY <1>1, SpliceFacts
<1>3. Used(g) \subseteq Cell /\ c \in Cell
  BY DEF Used
<1>4. Len(to) \in Nat \ {0} /\ 1 \in 1 .. Len(to) /\ Len(to) \in 1 .. Len(to)
  <2>1. to \in Seq(Cell) /\ Len(to) # 0
    BY <1>1 DEF Spliced
  <2> QED BY <2>1
<1>5. ASSUME NEW k \in 1 .. Len(to)
      PROVE  /\ to[k] \in Cell /\ to[k] \notin Used(g)
             /\ new[to[k]].of \in Used(g)
             /\ new[to[k]].upper = IF k < Len(to) THEN to[k + 1] ELSE g[c].upper
  BY <1>1 DEF Spliced, FreeCells, Used
<1>6. new[to[Len(to)]].upper = g[c].upper
  BY <1>4, <1>5
<1>7. new[c].upper = to[1] /\ new[c].of = g[c].of
  BY <1>1, <1>3, <1>5 DEF Spliced
<1>8. /\ new[c].module = g[c].module
      /\ \A x \in Cell : x # c /\ (\A k \in 1 .. Len(to) : to[k] # x) => new[x] = g[x]
  BY DEF Grafted
<1>9. \A x \in Used(g) \ {c} : new[x] = g[x]
  BY <1>3, <1>5, <1>8
<1> QED BY <1>2, <1>3, <1>4, <1>5, <1>6, <1>7, <1>8, <1>9

(* A graft, seen from its lower end, has all that is seen within it.       *)
LEMMA GraftSeen ==
  ASSUME NEW g, Graph(g), NEW c \in Used(g), NEW m, NEW to, NEW new, Grafted(new, g, c, m, to),
         NEW s \in Seq(Up0), NEW j \in 1 .. Len(to), Embeds(s, Seen(new, to[j]))
  PROVE  \A k \in 1 .. j : Embeds(s, Seen(new, to[k]))
<1>1. /\ Graph(new) /\ Len(to) \in Nat
      /\ \A k \in 1 .. Len(to) : to[k] \in Cell /\ (k < Len(to) => new[to[k]].upper = to[k + 1])
  BY GraftFacts
<1> DEFINE K == {i \in 0 .. j - 1 : Embeds(s, Seen(new, to[j - i]))}
<1>2. 0 \in K
  BY <1>1
<1>3. ASSUME NEW i \in 0 .. (j - 1) - 1, i \in K PROVE i + 1 \in K
  <2>1. /\ i + 1 \in 0 .. j - 1 /\ j - (i + 1) \in 1 .. Len(to) /\ j - (i + 1) < Len(to)
        /\ (j - (i + 1)) + 1 = j - i
    BY <1>1
  <2>2. /\ to[j - (i + 1)] \in Cell /\ new[to[j - (i + 1)]].upper = to[j - i]
        /\ Embeds(s, Seen(new, to[j - i]))
    BY <1>1, <1>3, <2>1
  <2>3. Embeds(s, Seen(new, to[j - (i + 1)]))
    BY <1>1, <2>2, SeenMore
  <2> QED BY <2>1, <2>3
<1>4. 0 .. j - 1 \subseteq K
  <2>1. j - 1 \in Nat
    BY <1>1
  <2> HIDE DEF K
  <2> QED BY <1>2, <1>3, <2>1, InductionTo
<1> SUFFICES ASSUME NEW k \in 1 .. j PROVE Embeds(s, Seen(new, to[k]))
  OBVIOUS
<1>5. j - k \in 0 .. j - 1 /\ j - (j - k) = k
  BY <1>1
<1>6. j - k \in K
  <2> HIDE DEF K
  <2> QED BY <1>4, <1>5
<1> QED BY <1>5, <1>6

(* Whatever is grafted in, nothing in use sees less, or in another order.  *)
GraftKeeps(g, new) ==
    /\ \A x \in Used(g) \cup {None} : Embeds(Seen(g, x), Seen(new, x))
    /\ \A x \in Used(g) : Embeds(Ancestors(g, x), Ancestors(new, x))

LEMMA GraftKept ==
  ASSUME NEW g, Graph(g), NEW c \in Used(g), NEW m \in Used(g), NEW to, NEW new,
         Grafted(new, g, c, m, to)
  PROVE  GraftKeeps(g, new)
<1>1. /\ Graph(new) /\ Used(g) \subseteq Used(new) /\ Len(to) \in Nat \ {0}
      /\ Used(g) \subseteq Cell /\ None \notin Cell /\ 1 \in 1 .. Len(to) /\ Len(to) \in 1 .. Len(to)
  BY GraftFacts, Cells
<1>2. /\ \A k \in 1 .. Len(to) : to[k] \in Cell /\ to[k] \notin Used(g)
      /\ new[to[Len(to)]].upper = g[c].upper
      /\ new[c].upper = to[1] /\ new[c].of = g[c].of
  BY GraftFacts
<1>3. \A x \in Used(g) \ {c} : new[x] = g[x]
  BY GraftFacts
<1>4. \A x \in Used(g) : g[x].upper \in Used(g) \cup {None}
  BY <1>1 DEF Graph
<1>5. \A x \in Used(g) \cup {None} : Seen(g, x) \in Seq(Up0) /\ Seen(new, x) \in Seq(Up0)
  BY <1>1, SeenFacts DEF Up0
(* at c: what is above it, and itself when it is passed over from now on   *)
<1>6. ASSUME Embeds(Seen(g, g[c].upper), Seen(new, g[c].upper))
      PROVE  Embeds(Seen(g, c), Seen(new, c)) /\ Embeds(Ancestors(g, c), Ancestors(new, c))
  <2>1. PICK u : u = g[c].upper
    OBVIOUS
  <2>2. Seen(g, u) \in Seq(Up0) /\ Seen(new, u) \in Seq(Up0) /\ Embeds(Seen(g, u), Seen(new, u))
    BY <1>4, <1>5, <1>6, <2>1
  <2>3. /\ Seen(new, to[1]) \in Seq(Up0) /\ g[c].of \in Up0
        /\ Ancestors(g, c) = <<g[c].of>> \o Seen(g, u) /\ Ancestors(g, c) \in Seq(Up0)
        /\ Ancestors(new, c) = <<g[c].of>> \o Seen(new, to[1])
        /\ Seen(g, c) = IF g[c].prepended THEN Seen(g, u) ELSE Ancestors(g, c)
        /\ Seen(new, c) = IF new[c].prepended THEN Seen(new, to[1]) ELSE Ancestors(new, c)
    <3>1. c \in Cell /\ new[c].upper = to[1] /\ new[c].of = g[c].of /\ to[1] \in Up0
      BY <1>1, <1>2 DEF Up0
    <3> QED BY <1>1, <2>1, <3>1, SeenFacts
  <2>4. Embeds(Seen(g, u), Seen(new, to[Len(to)]))
    BY <1>1, <1>2, <2>1, <2>2, SeenMore
  <2>5. Embeds(Seen(g, u), Seen(new, to[1]))
    BY <1>1, <2>2, <2>4, GraftSeen
  <2>6. Embeds(Ancestors(g, c), Ancestors(new, c))
    BY <2>2, <2>3, <2>5, EmbedsMore
  <2>7. CASE new[c].prepended = g[c].prepended
    BY <2>3, <2>5, <2>6, <2>7
  <2>8. CASE ~g[c].prepended /\ Len(Chain(g, m)) < Len(to)
    <3>1. new[to[Len(to)]].of = g[c].of /\ ~new[to[Len(to)]].prepended
      <4>1. PICK n : n = Len(Chain(g, m))
        OBVIOUS
      <4>2. n \in Nat
        BY <4>1, UsedFacts
      <4>3. Len(to) \in n + 1 .. Len(to)
        BY <1>1, <2>8, <4>1, <4>2
      <4> QED BY <4>1, <4>3 DEF Grafted
    <3>2. Seen(new, to[Len(to)]) = <<g[c].of>> \o Seen(new, u)
      <4>1. to[Len(to)] \in Cell /\ new[to[Len(to)]].upper = u
        BY <1>1, <1>2, <2>1
      <4>2. /\ Ancestors(new, to[Len(to)]) = <<g[c].of>> \o Seen(new, u)
            /\ Seen(new, to[Len(to)]) = Ancestors(new, to[Len(to)])
        BY <1>1, <3>1, <4>1, SeenFacts
      <4> QED BY <4>2
    <3>3. Embeds(Ancestors(g, c), Seen(new, to[Len(to)]))
      BY <2>2, <2>3, <3>2, EmbedsMore
    <3>4. Embeds(Ancestors(g, c), Seen(new, to[1]))
      BY <1>1, <2>3, <3>3, GraftSeen
    <3> QED BY <2>3, <2>6, <2>8, <3>4
  <2> QED BY <2>6, <2>7, <2>8 DEF Grafted
(* elsewhere: what is above                                                *)
<1>7. ASSUME NEW x \in Used(g) \ {c}, Embeds(Seen(g, g[x].upper), Seen(new, g[x].upper))
      PROVE  Embeds(Seen(g, x), Seen(new, x)) /\ Embeds(Ancestors(g, x), Ancestors(new, x))
  <2>1. PICK u : u = g[x].upper
    OBVIOUS
  <2>2. Seen(g, u) \in Seq(Up0) /\ Seen(new, u) \in Seq(Up0) /\ Embeds(Seen(g, u), Seen(new, u))
    BY <1>4, <1>5, <1>7, <2>1
  <2>3. x \in Cell /\ new[x] = g[x]
    BY <1>1, <1>3
  <2>4. /\ g[x].of \in Up0
        /\ Ancestors(g, x) = <<g[x].of>> \o Seen(g, u)
        /\ Ancestors(new, x) = <<g[x].of>> \o Seen(new, u)
        /\ Seen(g, x) = IF g[x].prepended THEN Seen(g, u) ELSE Ancestors(g, x)
        /\ Seen(new, x) = IF g[x].prepended THEN Seen(new, u) ELSE Ancestors(new, x)
    BY <1>1, <2>1, <2>3, SeenFacts
  <2>5. Embeds(Ancestors(g, x), Ancestors(new, x))
    BY <2>2, <2>4, EmbedsMore
  <2> QED BY <2>2, <2>4, <2>5
<1>8. Embeds(Seen(g, None), Seen(new, None))
  BY <1>1, <1>5, SeenFacts, EmbedsSame
<1> DEFINE S == {x \in Used(g) : ~Embeds(Seen(g, x), Seen(new, x))}
<1>9. ASSUME S # {} PROVE FALSE
  <2>1. S \in SUBSET Cell
    BY <1>1
  <2>2. PICK x \in S : g[x].upper \notin S
    <3> HIDE DEF S
    <3> QED BY <1>9, <2>1 DEF Graph, Acyclic
  <2>3. x \in Used(g) /\ Embeds(Seen(g, g[x].upper), Seen(new, g[x].upper))
    BY <1>4, <1>8, <2>2
  <2> QED BY <1>6, <1>7, <2>2, <2>3
<1>10. \A x \in Used(g) \cup {None} : Embeds(Seen(g, x), Seen(new, x))
  BY <1>8, <1>9
<1>11. \A x \in Used(g) : Embeds(Ancestors(g, x), Ancestors(new, x))
  BY <1>4, <1>6, <1>7, <1>10
<1> QED BY <1>10, <1>11 DEF GraftKeeps

(* A step leaves the classes in use as they are, and all above them, or    *)
(* grafts a module.                                                        *)
SameAbove(A) ==
    /\ Upwards(h, A) /\ A \subseteq Used(h) /\ held \cap held' \subseteq A
    /\ \A x \in A : h'[x] = h[x]
Grafts ==
    /\ held' = held
    /\ \E c, m \in held : \E to : h[m].module /\ Grafted(h', h, c, m, to)

LEMMA StepAbove ==
  ASSUME Classes, [Next]_vars
  PROVE  Classes' /\ (Grafts \/ \E A : SameAbove(A))
<1>0. Classes'
  BY ClassesNext
<1>1. h' = h => SameAbove(Used(h))
  BY UsedUpwards DEF Classes, SameAbove
<1>2. ASSUME NEW new, Made(new), Room(h, 1),
             new = WithModule(h) \/ \E s \in Used(h) : new = WithClass(h, s)
      PROVE  SameAbove(Used(h))
  <2>1. \A x \in Used(h) : new[x] = h[x]
    BY <1>2, NewFacts DEF Classes
  <2>2. h' = new
    BY <1>2 DEF Made
  <2> QED BY <2>1, <2>2, UsedUpwards DEF Classes, SameAbove
<1>3. CASE NewModule
  BY <1>0, <1>2, <1>3 DEF NewModule
<1>4. ASSUME NEW c \in Cell, NewClass(c) PROVE SameAbove(Used(h))
  BY <1>2, <1>4 DEF NewClass, Classes
<1>5. CASE Collect
  <2>1. PICK A : Kept(A)
    BY <1>5, CollectKeeps
  <2>2. SameAbove(A)
    BY <2>1 DEF Kept, SameAbove
  <2> QED BY <1>0, <2>2
<1>6. ASSUME NEW c \in Cell, NEW m \in Cell, Include(c, m) \/ Prepend(c, m) PROVE Grafts
  BY <1>6, RelinkGrafts DEF Grafts
<1>7. ASSUME NEW c \in Cell, Forget(c) PROVE h' = h
  BY <1>7 DEF Forget
<1>8. ASSUME NEW c \in Cell, NEW n \in Name, AddMethod(c, n) \/ FindMethod(c, n) PROVE h' = h
  BY <1>8 DEF AddMethod, FindMethod
<1>9. ASSUME NEW s \in Site, NEW c \in Cell, Call(s, c) PROVE h' = h
  BY <1>9 DEF Call
<1>10. CASE UNCHANGED vars
  BY <1>0, <1>1, <1>10 DEF vars
<1> QED BY <1>0, <1>1, <1>3, <1>4, <1>5, <1>6, <1>7, <1>8, <1>9, <1>10 DEF Next

LEMMA AncestorsSame ==
  ASSUME Classes, Classes', NEW A, SameAbove(A), NEW c \in A
  PROVE  Ancestors(h', c) = Ancestors(h, c)
<1>1. PICK g : g = h
  OBVIOUS
<1>2. PICK new : new = h'
  OBVIOUS
<1>3. Graph(g) /\ Graph(new) /\ Upwards(g, A)
  BY <1>1, <1>2 DEF Classes, SameAbove
<1>4. \A x \in A : new[x] = g[x]
  BY <1>1, <1>2 DEF SameAbove
<1>5. Chain(new, c) = Chain(g, c) /\ \A k \in 1 .. Len(Chain(g, c)) : Chain(g, c)[k] \in A
  BY <1>3, <1>4, ChainSame, ChainWithin
<1>6. PICK chain : chain = Chain(g, c)
  OBVIOUS
<1>7. chain \in Seq(Cell)
  BY <1>3, <1>6, ChainFacts DEF Upwards, Up0
<1>8. \A k \in DOMAIN chain : new[chain[k]].of = g[chain[k]].of
  BY <1>4, <1>5, <1>6, <1>7
<1>9. [k \in DOMAIN chain |-> new[chain[k]].of] = [k \in DOMAIN chain |-> g[chain[k]].of]
  BY <1>8
<1> QED BY <1>1, <1>2, <1>5, <1>6, <1>9 DEF Ancestors

(* No class in use loses an ancestor, and two ancestors never change their *)
(* order, whatever is included or prepended anywhere, and at whatever      *)
(* point of a chain: later lookups see the old tables in the old order.    *)
THEOREM AncestorsStay == Spec => AncestorsKept
<1>1. ASSUME Classes, [Next]_vars
      PROVE  \A c \in held \cap held' : SubsequenceOf(Ancestors(h, c), Ancestors(h', c))
  <2> SUFFICES ASSUME NEW c \in held \cap held'
               PROVE  SubsequenceOf(Ancestors(h, c), Ancestors(h', c))
    OBVIOUS
  <2>1. Classes' /\ (Grafts \/ \E A : SameAbove(A))
    BY <1>1, StepAbove
  <2>2. PICK g : g = h
    OBVIOUS
  <2>3. PICK new : new = h'
    OBVIOUS
  <2>4. Graph(g) /\ Graph(new) /\ c \in Used(g) /\ c \in Up0
    BY <1>1, <2>1, <2>2, <2>3 DEF Classes, Used, Up0
  <2>5. Ancestors(g, c) \in Seq(Up0) /\ Ancestors(new, c) \in Seq(Up0)
    BY <2>4, AncestorsFacts
  <2>6. Embeds(Ancestors(g, c), Ancestors(new, c))
    <3>1. ASSUME NEW A, SameAbove(A) PROVE Ancestors(new, c) = Ancestors(g, c)
      BY <1>1, <2>1, <2>2, <2>3, <3>1, AncestorsSame DEF SameAbove
    <3>2. CASE Grafts
      <4>1. PICK d \in held, m \in held : \E to : Grafted(new, g, d, m, to)
        BY <2>2, <2>3, <3>2 DEF Grafts
      <4>2. d \in Used(g) /\ m \in Used(g)
        BY <1>1, <2>2 DEF Classes
      <4>3. PICK to : Grafted(new, g, d, m, to)
        BY <4>1
      <4> QED BY <2>4, <4>2, <4>3, GraftKept DEF GraftKeeps
    <3> QED BY <2>1, <2>5, <3>1, <3>2, EmbedsSame
  <2> QED BY <2>2, <2>3, <2>5, <2>6, EmbedsSubsequence
<1>2. Classes /\ [Next]_vars =>
        [\A c \in held \cap held' : SubsequenceOf(Ancestors(h, c), Ancestors(h', c))]_vars
  BY <1>1
<1> QED BY <1>2, ClassesInit, ClassesNext, PTL DEF Spec, AncestorsKept

-----------------------------------------------------------------------------
(* How a module is reached *)

LEMMA SeenSame ==
  ASSUME NEW g, Graph(g), NEW n, Graph(n), NEW A, Upwards(g, A), \A x \in A : n[x] = g[x]
  PROVE  \A x \in A \cup {None} : Seen(n, x) = Seen(g, x)
<1> DEFINE S == {x \in A : Seen(n, x) # Seen(g, x)}
<1>1. S \in SUBSET Cell
  BY DEF Upwards
<1>2. Seen(n, None) = Seen(g, None)
  BY SeenFacts
<1>3. ASSUME S # {} PROVE FALSE
  <2>1. PICK x \in S : g[x].upper \notin S
    <3> HIDE DEF S
    <3> QED BY <1>1, <1>3 DEF Graph, Acyclic
  <2>2. x \in Cell /\ n[x] = g[x] /\ g[x].upper \in A \cup {None}
    BY <1>1 DEF Upwards
  <2>3. Seen(n, g[x].upper) = Seen(g, g[x].upper)
    BY <1>2, <2>1, <2>2
  <2>4. /\ Seen(g, x) = IF g[x].prepended THEN Seen(g, g[x].upper) ELSE <<g[x].of>> \o Seen(g, g[x].upper)
        /\ Seen(n, x) = IF n[x].prepended THEN Seen(n, n[x].upper) ELSE <<n[x].of>> \o Seen(n, n[x].upper)
    BY <2>2, SeenFacts
  <2> QED BY <2>1, <2>2, <2>3, <2>4
<1> QED BY <1>2, <1>3

(* A search passes over what something was prepended to, but for the cell  *)
(* that it begins with.                                                    *)
LEMMA ChainPasses ==
  ASSUME NEW g, Graph(g), NEW c \in Cell
  PROVE  \A k \in 2 .. Len(Chain(g, c)) : ~g[Chain(g, c)[k]].prepended
<1>1. \A m \in Up0 : ~Skips(g, SkipOf(g)[m])
  <2> DEFINE S == {m \in Up0 : Skips(g, SkipOf(g)[m])}
  <2>1. S \subseteq Cell
    BY SkipFacts DEF Skips, Up0
  <2>2. ASSUME S # {} PROVE FALSE
    <3>1. PICK m \in S : g[m].upper \notin S
      BY <2>1, <2>2 DEF Graph, Acyclic
    <3>2. g[m].upper \in Up0 /\ m \in Up0
      BY <2>1 DEF Graph, Up0, Used
    <3> QED BY <3>1, <3>2, SkipFacts
  <2> QED BY <2>2
<1>2. \A x \in Cell : Upper(g, x) = None \/ ~g[Upper(g, x)].prepended
  BY <1>1, UpperFacts DEF Skips, Graph, Used, Up0
<1> DEFINE S == {x \in Cell : \E k \in 2 .. Len(Chain(g, x)) : g[Chain(g, x)[k]].prepended}
<1>3. ASSUME S # {} PROVE FALSE
  <2>1. PICK x \in S : Upper(g, x) \notin S
    <3>1. S \in SUBSET Cell
      OBVIOUS
    <3> HIDE DEF S
    <3> QED BY <1>3, <3>1, UpperFacts
  <2>2. PICK u : u = Upper(g, x)
    OBVIOUS
  <2>3. PICK s : s = Chain(g, u)
    OBVIOUS
  <2>4. PICK k \in 2 .. Len(Chain(g, x)) : g[Chain(g, x)[k]].prepended
    BY <2>1
  <2>5. /\ Len(Chain(g, x)) = Len(s) + 1 /\ Len(s) \in Nat
        /\ \A j \in 1 .. Len(s) : Chain(g, x)[j + 1] = s[j]
    BY <2>1, <2>2, <2>3, ChainStep
  <2>6. k - 1 \in 1 .. Len(s) /\ (k - 1) + 1 = k
    BY <2>4, <2>5
  <2>7. g[s[k - 1]].prepended
    BY <2>4, <2>5, <2>6
  <2>8. u \in Up0 /\ u # None
    <3>1. u = None => s = <<>>
      BY <2>3, ChainFacts
    <3>2. u = None => Len(s) = 0
      BY <3>1
    <3> QED BY <2>1, <2>2, <2>6, <3>2, UpperFacts
  <2>9. u \in Cell /\ s[1] = u /\ ~g[u].prepended
    BY <1>2, <2>1, <2>2, <2>3, <2>8, ChainStep DEF Up0
  <2>10. k - 1 # 1
    BY <2>7, <2>9
  <2>11. k - 1 \in 2 .. Len(s)
    BY <2>6, <2>10
  <2> QED BY <2>1, <2>2, <2>3, <2>7, <2>9, <2>11
<1> QED BY <1>3

(* Class objects of the program are no copies.  What leads upwards from a  *)
(* module of the program are modules.  A copy of a class stands above that *)
(* class, with copies only between.  What something was prepended to has a *)
(* copy of itself above, or else the search would lose it.                 *)
IsModule(g, x) == g[g[x].of].module
ModulesApart(g) ==
    \E A \in SUBSET Used(g) :
        /\ Upwards(g, A)
        /\ \A x \in A : IsModule(g, x)
        /\ \A x \in Used(g) : g[x].of = x /\ g[x].module => x \in A
Enclosed(g, y, W) ==
    /\ y \in W
    /\ \A w \in W : g[w].of # w
    /\ \A z \in Used(g) : g[z].upper \in W => z \in W \cup {g[y].of}
CopiesBetween(g) ==
    \A y \in Used(g) : g[y].of # y /\ ~IsModule(g, y) => \E W \in SUBSET Used(g) : Enclosed(g, y, W)
PrependedAbove(g) ==
    \A x \in Used(g) : g[x].prepended => g[x].of \in ToSet(Seen(g, g[x].upper))
Linked(g, roots) ==
    /\ \A c \in roots : g[c].of = c
    /\ ModulesApart(g)
    /\ CopiesBetween(g)
    /\ PrependedAbove(g)

(* What is grafted in has, seen from its lower end, all that the module    *)
(* has: a module that was itself prepended to has a copy further on.       *)
LEMMA GraftNames ==
  ASSUME NEW g, Graph(g), PrependedAbove(g), NEW c \in Used(g), NEW m \in Used(g),
         NEW to, NEW new, Grafted(new, g, c, m, to)
  PROVE  /\ ToSet(Ancestors(g, m)) \subseteq ToSet(Seen(new, to[1]))
         /\ new[to[1]].prepended => new[to[1]].of \in ToSet(Seen(new, new[to[1]].upper))
         /\ \A k \in 2 .. Len(to) : ~new[to[k]].prepended
<1>1. PICK chain : chain = Chain(g, m)
  OBVIOUS
<1>2. PICK n : n = Len(chain)
  OBVIOUS
<1>3. n \in Nat \ {0} /\ chain \in Seq(Cell) /\ m \in Cell /\ chain[1] = m
  BY <1>1, <1>2, UsedFacts, ChainStep
<1>4. /\ Graph(new) /\ Len(to) \in Nat \ {0} /\ n <= Len(to)
      /\ \A k \in 1 .. n : Copy(new[to[k]], g[chain[k]])
      /\ \A k \in n + 1 .. Len(to) : ~new[to[k]].prepended
      /\ \A k \in 1 .. Len(to) : to[k] \in Cell /\ (k < Len(to) => new[to[k]].upper = to[k + 1])
  <2>1. /\ n <= Len(to) /\ \A k \in 1 .. n : Copy(new[to[k]], g[chain[k]])
        /\ \A k \in n + 1 .. Len(to) : ~new[to[k]].prepended
    BY <1>1, <1>2 DEF Grafted
  <2> QED BY <2>1, GraftFacts
<1>5. ASSUME NEW k \in 2 .. Len(to) PROVE ~new[to[k]].prepended
  <2>1. CASE k <= n
    <3>1. k \in 1 .. n /\ k \in 2 .. n
      BY <1>3, <2>1
    <3>2. ~g[chain[k]].prepended
      BY <1>1, <1>2, <1>3, <3>1, ChainPasses
    <3> QED BY <1>4, <3>1, <3>2 DEF Copy
  <2>2. CASE ~(k <= n)
    BY <1>3, <1>4, <2>2
  <2> QED BY <2>1, <2>2
<1>6. ASSUME NEW k \in 1 .. Len(to), ~new[to[k]].prepended, NEW j \in 1 .. k
      PROVE  new[to[k]].of \in ToSet(Seen(new, to[j]))
  <2>1. j \in 1 .. Len(to) /\ to[k] \in Cell /\ to[j] \in Cell
    BY <1>4
  <2>2. PICK s : s = Seen(new, to[k])
    OBVIOUS
  <2>3. PICK r : r = Seen(new, new[to[k]].upper)
    OBVIOUS
  <2>4. /\ r \in Seq(Up0) /\ new[to[k]].of \in Up0
        /\ s = <<new[to[k]].of>> \o r
    BY <1>4, <1>6, <2>1, <2>2, <2>3, SeenFacts
  <2>5. s \in Seq(Up0) /\ new[to[k]].of \in ToSet(s)
    BY <2>4, PushedFacts
  <2>6. Embeds(s, s)
    BY <2>5, EmbedsSame
  <2>7. Embeds(s, Seen(new, to[j]))
    BY <2>2, <2>5, <2>6, GraftSeen
  <2>8. Seen(new, to[j]) \in Seq(Up0)
    BY <1>4, <2>1, SeenFacts DEF Up0
  <2> QED BY <2>5, <2>7, <2>8, EmbedsSet
<1>7. ASSUME NEW k \in 2 .. n
      PROVE  /\ new[to[1]].upper = to[2]
             /\ g[chain[k]].of \in ToSet(Seen(new, to[2])) /\ g[chain[k]].of \in ToSet(Seen(new, to[1]))
  <2>1. /\ k \in 1 .. n /\ k \in 1 .. Len(to) /\ k \in 2 .. Len(to) /\ 2 \in 1 .. k /\ 1 \in 1 .. k
        /\ 1 \in 1 .. Len(to) /\ 1 < Len(to) /\ 1 + 1 = 2
    BY <1>3, <1>4
  <2>2. new[to[k]].of = g[chain[k]].of /\ ~new[to[k]].prepended /\ new[to[1]].upper = to[2]
    BY <1>4, <1>5, <2>1 DEF Copy
  <2> QED BY <1>6, <2>1, <2>2
<1>8. 1 \in 1 .. n /\ 1 \in 1 .. Len(to) /\ Copy(new[to[1]], g[m])
  BY <1>3, <1>4
<1>9. g[m].prepended => \E k \in 2 .. n : g[m].of = g[chain[k]].of
  <2> SUFFICES ASSUME g[m].prepended PROVE \E k \in 2 .. n : g[m].of = g[chain[k]].of
    OBVIOUS
  <2>1. PICK u : u = Upper(g, m)
    OBVIOUS
  <2>2. PICK s : s = Chain(g, u)
    OBVIOUS
  <2>3. u \in Up0 /\ s \in Seq(Cell)
    BY <1>3, <2>1, <2>2, ChainFacts, UpperFacts
  <2>4. Ancestors(g, u) = [k \in DOMAIN s |-> g[s[k]].of]
    BY <2>2 DEF Ancestors
  <2>5. g[m].of \in ToSet(Ancestors(g, u))
    BY <1>3, <2>1, SeenFacts DEF PrependedAbove
  <2>6. PICK j \in DOMAIN s : g[m].of = g[s[j]].of
    BY <2>4, <2>5 DEF ToSet
  <2>7. /\ n = Len(s) + 1 /\ \A k \in 1 .. Len(s) : chain[k + 1] = s[k]
    <3>1. /\ Len(Chain(g, m)) = Len(Chain(g, Upper(g, m))) + 1
          /\ \A k \in 1 .. Len(Chain(g, Upper(g, m))) :
                 Chain(g, m)[k + 1] = Chain(g, Upper(g, m))[k]
      BY <1>3, ChainStep
    <3> QED BY <1>1, <1>2, <2>1, <2>2, <3>1
  <2>8. j \in 1 .. Len(s) /\ Len(s) \in Nat
    BY <2>3
  <2>9. j + 1 \in 2 .. n /\ chain[j + 1] = s[j]
    BY <2>7, <2>8
  <2> QED BY <2>6, <2>9
<1>10. g[m].of \in ToSet(Seen(new, to[1]))
  <2>1. CASE g[m].prepended
    BY <1>7, <1>9, <2>1
  <2>2. CASE ~g[m].prepended
    BY <1>6, <1>8, <2>2 DEF Copy
  <2> QED BY <2>1, <2>2
<1>11. ASSUME NEW x \in ToSet(Ancestors(g, m)) PROVE x \in ToSet(Seen(new, to[1]))
  <2>1. Ancestors(g, m) = [k \in DOMAIN chain |-> g[chain[k]].of] /\ DOMAIN chain = 1 .. n
    BY <1>1, <1>2, <1>3 DEF Ancestors
  <2>2. PICK k \in 1 .. n : x = g[chain[k]].of
    BY <1>11, <2>1 DEF ToSet
  <2>3. CASE k = 1
    BY <1>3, <1>10, <2>2, <2>3
  <2>4. CASE k # 1
    <3>1. k \in 2 .. n
      BY <1>3, <2>4
    <3> QED BY <1>7, <2>2, <3>1
  <2> QED BY <2>3, <2>4
<1>12. new[to[1]].prepended => new[to[1]].of \in ToSet(Seen(new, new[to[1]].upper))
  BY <1>7, <1>8, <1>9 DEF Copy
<1> QED BY <1>5, <1>11, <1>12

LEMMA GraftLinked ==
  ASSUME NEW g, Graph(g), NEW roots \in SUBSET Used(g), Linked(g, roots),
         NEW c \in roots, NEW m \in roots, g[m].module,
         NEW to, NEW new, Grafted(new, g, c, m, to)
  PROVE  Linked(new, roots)
<1> DEFINE New == {to[k] : k \in 1 .. Len(to)}
<1>1. /\ Graph(new) /\ Used(g) \subseteq Used(new) /\ Used(g) \subseteq Cell
      /\ Len(to) \in Nat \ {0} /\ 1 \in 1 .. Len(to) /\ Len(to) \in 1 .. Len(to)
      /\ \A k \in 1 .. Len(to) : /\ to[k] \in Cell /\ to[k] \notin Used(g)
                                 /\ new[to[k]].of \in Used(g)
                                 /\ k < Len(to) => new[to[k]].upper = to[k + 1]
      /\ new[to[Len(to)]].upper = g[c].upper
      /\ new[c].upper = to[1] /\ new[c].of = g[c].of /\ new[c].module = g[c].module
      /\ \A x \in Used(g) \ {c} : new[x] = g[x]
      /\ \A x \in Cell : x # c /\ (\A k \in 1 .. Len(to) : to[k] # x) => new[x] = g[x]
  BY GraftFacts
<1>2. /\ c \in Used(g) /\ m \in Used(g) /\ g[c].of = c /\ g[m].of = m
      /\ \A x \in Used(g) : g[x].of \in Used(g) /\ g[x].upper \in Used(g) \cup {None}
  BY <1>1 DEF Linked, Graph
<1>3. Used(new) = Used(g) \cup New /\ New \cap Used(g) = {} /\ New \subseteq Cell
  <2>1. New \cap Used(g) = {} /\ New \subseteq Cell
    BY <1>1
  <2>2. New \subseteq Used(new)
    BY <1>1, Cells DEF Used
  <2>3. ASSUME NEW x \in Used(new), x \notin New, x \notin Used(g) PROVE FALSE
    <3>1. x \in Cell /\ x # c /\ \A k \in 1 .. Len(to) : to[k] # x
      BY <1>2, <2>3 DEF Used
    <3>2. new[x] = g[x]
      BY <1>1, <3>1
    <3> QED BY <2>3, <3>1, <3>2 DEF Used
  <2> QED BY <1>1, <2>1, <2>2, <2>3
<1>4. \A x \in Used(g) : /\ new[x].of = g[x].of /\ new[x].module = g[x].module
                         /\ IsModule(new, x) = IsModule(g, x)
  <2>1. \A x \in Used(g) : new[x].of = g[x].of /\ new[x].module = g[x].module
    BY <1>1
  <2> QED BY <1>2, <2>1 DEF IsModule
<1>5. ASSUME NEW k \in 1 .. Len(to)
      PROVE  /\ new[to[k]].upper = IF k < Len(to) THEN to[k + 1] ELSE g[c].upper
             /\ \/ /\ k \in 1 .. Len(Chain(g, m)) 
                   /\ Chain(g, m)[k] \in Used(g) /\ new[to[k]].of = g[Chain(g, m)[k]].of
                \/ new[to[k]].of = c
             /\ new[to[k]].of # to[k]
  <2>1. ~(k < Len(to)) => k = Len(to)
    BY <1>1
  <2>2. PICK n : n = Len(Chain(g, m))
    OBVIOUS
  <2>3. n \in Nat
    BY <1>2, <2>2, UsedFacts
  <2>4. \/ k \in 1 .. n /\ new[to[k]].of = g[Chain(g, m)[k]].of
        \/ new[to[k]].of = c
    <3>1. CASE k \in 1 .. n
      BY <2>2, <3>1 DEF Grafted, Copy
    <3>2. CASE k \notin 1 .. n
      <4>1. k \in n + 1 .. Len(to)
        BY <1>1, <2>3, <3>2
      <4> QED BY <1>2, <2>2, <4>1 DEF Grafted
    <3> QED BY <3>1, <3>2
  <2>5. \A j \in 1 .. n : Chain(g, m)[j] \in Used(g)
    BY <1>2, <2>2, UsedFacts
  <2>6. new[to[k]].of # to[k]
    BY <1>1
  <2> QED BY <1>1, <2>1, <2>2, <2>4, <2>5, <2>6
<1>6. \A x \in roots : new[x].of = x
  BY <1>4 DEF Linked
<1>7. ModulesApart(new)
  <2>1. PICK A \in SUBSET Used(g) :
          /\ Upwards(g, A) /\ \A x \in A : IsModule(g, x)
          /\ \A x \in Used(g) : g[x].of = x /\ g[x].module => x \in A
    BY DEF Linked, ModulesApart
  <2> DEFINE B == IF c \in A THEN A \cup New ELSE A
  <2>2. B \in SUBSET Used(new)
    BY <1>1, <1>3
  <2>3. Upwards(new, B)
    <3> SUFFICES ASSUME NEW x \in B PROVE new[x].upper \in B \cup {None}
      BY <1>1, <1>3, <2>2 DEF Upwards, Used
    <3>1. CASE x \in New
      <4>1. PICK k \in 1 .. Len(to) : x = to[k]
        BY <3>1
      <4>2. c \in A
        BY <1>3, <3>1
      <4>3. k < Len(to) => to[k + 1] \in New
        BY <1>1
      <4>4. g[c].upper \in A \cup {None}
        BY <2>1, <4>2 DEF Upwards
      <4> QED BY <1>5, <4>1, <4>2, <4>3, <4>4
    <3>2. CASE x = c
      BY <1>1, <1>3, <3>2
    <3>3. CASE x \in A \ {c}
      <4>1. new[x] = g[x] /\ g[x].upper \in A \cup {None}
        BY <1>1, <2>1, <3>3 DEF Upwards
      <4> QED BY <4>1
    <3> QED BY <3>1, <3>2, <3>3
  <2>4. \A x \in A : IsModule(new, x)
    BY <1>4, <2>1
  <2>5. ASSUME NEW x \in New, c \in A PROVE IsModule(new, x)
    <3>1. PICK k \in 1 .. Len(to) : x = to[k]
      OBVIOUS
    <3>2. CASE /\ k \in 1 .. Len(Chain(g, m)) 
               /\ Chain(g, m)[k] \in Used(g) /\ new[to[k]].of = g[Chain(g, m)[k]].of
      <4>1. m \in A
        BY <1>2, <2>1
      <4>2. Chain(g, m)[k] \in A
        BY <2>1, <3>2, <4>1, ChainWithin
      <4>3. g[g[Chain(g, m)[k]].of].module /\ g[Chain(g, m)[k]].of \in Used(g)
        BY <1>2, <2>1, <3>2, <4>2 DEF IsModule
      <4> QED BY <1>4, <3>1, <3>2, <4>3 DEF IsModule
    <3>3. CASE new[to[k]].of = c
      <4>1. g[c].module
        BY <1>2, <2>1, <2>5 DEF IsModule
      <4> QED BY <1>1, <3>1, <3>3, <4>1 DEF IsModule
    <3> QED BY <1>5, <3>2, <3>3
  <2>6. \A x \in Used(new) : new[x].of = x /\ new[x].module => x \in B
    <3> SUFFICES ASSUME NEW x \in Used(new), new[x].of = x, new[x].module PROVE x \in B
      OBVIOUS
    <3>1. x \notin New
      BY <1>5
    <3>2. x \in Used(g)
      BY <1>3, <3>1
    <3> QED BY <1>4, <2>1, <3>2
  <2>7. \A x \in B : IsModule(new, x)
    BY <2>4, <2>5
  <2> HIDE DEF B
  <2> QED BY <2>2, <2>3, <2>6, <2>7 DEF ModulesApart
<1>8. CopiesBetween(new)
  <2> SUFFICES ASSUME NEW y \in Used(new), new[y].of # y, ~IsModule(new, y)
               PROVE  \E W \in SUBSET Used(new) : Enclosed(new, y, W)
    BY DEF CopiesBetween
  <2>1. ASSUME NEW x \in Used(g), new[x].upper \in New PROVE x = c
    <3>1. ASSUME x # c PROVE FALSE
      <4>1. new[x] = g[x] /\ g[x].upper \in Used(g) \cup {None}
        BY <1>1, <1>2, <3>1
      <4>2. None \notin New
        BY <1>3, Cells
      <4> QED BY <1>3, <2>1, <4>1, <4>2
    <3> QED BY <3>1
(* a copy that was there: as before, or with all that is new, if the way   *)
(* from the class to it was cut                                            *)
  <2>2. CASE y \in Used(g)
    <3>1. PICK W \in SUBSET Used(g) : Enclosed(g, y, W)
      BY <1>4, <2>2 DEF Linked, CopiesBetween
    <3>2. c \notin W /\ \A w \in W : new[w].of # w
      BY <1>2, <1>4, <3>1 DEF Enclosed
    <3>3. CASE g[c].upper \notin W
      <4>1. ASSUME NEW z \in Used(new), new[z].upper \in W PROVE z \in W \cup {g[y].of}
        <5>1. CASE z \in New
          <6>1. PICK k \in 1 .. Len(to) : z = to[k]
            BY <5>1
          <6>2. k < Len(to) => to[k + 1] \in New
            BY <1>1
          <6> QED BY <1>3, <1>5, <3>3, <4>1, <6>1, <6>2
        <5>2. CASE z = c
          BY <1>1, <1>3, <4>1, <5>2
        <5>3. CASE z \in Used(g) \ {c}
          BY <1>1, <3>1, <4>1, <5>3 DEF Enclosed
        <5> QED BY <1>3, <5>1, <5>2, <5>3
      <4>2. Enclosed(new, y, W)
        BY <1>4, <2>2, <3>1, <3>2, <4>1 DEF Enclosed
      <4> QED BY <1>1, <4>2
    <3>4. CASE g[c].upper \in W
      <4>1. c = g[y].of
        BY <1>2, <3>1, <3>2, <3>4 DEF Enclosed
      <4> DEFINE V == W \cup New
      <4>2. ASSUME NEW z \in Used(new), new[z].upper \in V PROVE z \in V \cup {g[y].of}
        <5>1. CASE z \in New
          BY <5>1
        <5>2. CASE z \in Used(g)
          <6>1. CASE new[z].upper \in New
            BY <2>1, <4>1, <5>2, <6>1
          <6>2. CASE new[z].upper \in W /\ z # c
            BY <1>1, <3>1, <5>2, <6>2 DEF Enclosed
          <6> QED BY <4>1, <4>2, <6>1, <6>2
        <5> QED BY <1>3, <5>1, <5>2
      <4>3. \A w \in V : new[w].of # w
        BY <1>5, <3>2
      <4>4. y \in V /\ V \in SUBSET Used(new) /\ new[y].of = g[y].of
        BY <1>1, <1>3, <1>4, <2>2, <3>1 DEF Enclosed
      <4> HIDE DEF V
      <4>5. Enclosed(new, y, V)
        BY <4>2, <4>3, <4>4 DEF Enclosed
      <4> QED BY <4>4, <4>5
    <3> QED BY <3>3, <3>4
(* a new one: what is new leads to c, unless it is a copy of a module      *)
  <2>3. CASE y \in New
    <3>1. PICK k \in 1 .. Len(to) : y = to[k]
      BY <2>3
    <3>2. new[y].of = c
      <4>1. CASE /\ k \in 1 .. Len(Chain(g, m)) 
                 /\ Chain(g, m)[k] \in Used(g) /\ new[to[k]].of = g[Chain(g, m)[k]].of
        <5>1. PICK A \in SUBSET Used(g) :
                /\ Upwards(g, A) /\ \A x \in A : IsModule(g, x)
                /\ \A x \in Used(g) : g[x].of = x /\ g[x].module => x \in A
          BY DEF Linked, ModulesApart
        <5>2. m \in A
          BY <1>2, <5>1
        <5>3. Chain(g, m)[k] \in A
          BY <4>1, <5>1, <5>2, ChainWithin
        <5>4. g[g[Chain(g, m)[k]].of].module /\ g[Chain(g, m)[k]].of \in Used(g)
          BY <1>2, <4>1, <5>1, <5>3 DEF IsModule
        <5> QED BY <1>4, <3>1, <4>1, <5>4 DEF IsModule
      <4> QED BY <1>5, <3>1, <4>1
    <3>3. \A z \in Used(new) : new[z].upper \in New => z \in New \cup {new[y].of}
      BY <1>3, <2>1, <3>2
    <3>4. \A w \in New : new[w].of # w
      BY <1>5
    <3>5. New \in SUBSET Used(new)
      BY <1>3
    <3> HIDE DEF New
    <3>6. Enclosed(new, y, New)
      BY <2>3, <3>3, <3>4 DEF Enclosed
    <3> QED BY <3>5, <3>6
  <2> QED BY <1>3, <2>2, <2>3
<1>9. PrependedAbove(new)
  <2> SUFFICES ASSUME NEW x \in Used(new), new[x].prepended
               PROVE  new[x].of \in ToSet(Seen(new, new[x].upper))
    BY DEF PrependedAbove
  <2>1. PrependedAbove(g)
    BY DEF Linked
  <2>2. \A u \in Used(g) \cup {None} : ToSet(Seen(g, u)) \subseteq ToSet(Seen(new, u))
    <3> SUFFICES ASSUME NEW u \in Used(g) \cup {None} PROVE ToSet(Seen(g, u)) \subseteq ToSet(Seen(new, u))
      OBVIOUS
    <3>1. Embeds(Seen(g, u), Seen(new, u))
      BY <1>2, GraftKept DEF GraftKeeps
    <3>2. Seen(g, u) \in Seq(Up0) /\ Seen(new, u) \in Seq(Up0)
      BY <1>1, SeenFacts DEF Up0
    <3> QED BY <3>1, <3>2, EmbedsSet
  <2>3. CASE x \in Used(g) \ {c}
    <3>1. new[x] = g[x] /\ g[x].upper \in Used(g) \cup {None}
      BY <1>1, <1>2, <2>3
    <3>2. g[x].of \in ToSet(Seen(g, g[x].upper))
      BY <2>1, <2>3, <3>1 DEF PrependedAbove
    <3> QED BY <2>2, <3>1, <3>2
  <2>4. CASE x = c
    <3>1. /\ Seen(new, to[Len(to)]) \in Seq(Up0) /\ Seen(new, to[1]) \in Seq(Up0)
      BY <1>1, SeenFacts DEF Up0
    <3>2. ToSet(Seen(new, to[Len(to)])) \subseteq ToSet(Seen(new, to[1]))
      <4>1. Embeds(Seen(new, to[Len(to)]), Seen(new, to[Len(to)]))
        BY <3>1, EmbedsSame
      <4>2. Embeds(Seen(new, to[Len(to)]), Seen(new, to[1]))
        BY <1>1, <1>2, <3>1, <4>1, GraftSeen
      <4> QED BY <3>1, <4>2, EmbedsSet
    <3>3. PICK u : u = g[c].upper
      OBVIOUS
    <3>4. u \in Used(g) \cup {None} /\ u \in Up0
      BY <1>1, <1>2, <3>3 DEF Up0
    <3>5. /\ new[to[Len(to)]].of \in Up0 /\ Seen(new, u) \in Seq(Up0)
          /\ Seen(new, to[Len(to)]) = IF new[to[Len(to)]].prepended THEN Seen(new, u)
                                      ELSE <<new[to[Len(to)]].of>> \o Seen(new, u)
      <4>1. to[Len(to)] \in Cell /\ new[to[Len(to)]].upper = u
        BY <1>1, <3>3
      <4>2. /\ Seen(new, u) \in Seq(Up0)
            /\ Ancestors(new, to[Len(to)]) = <<new[to[Len(to)]].of>> \o Seen(new, u)
        BY <1>1, <3>4, <4>1, SeenFacts
      <4>3. /\ new[to[Len(to)]].of \in Up0
            /\ Seen(new, to[Len(to)]) = IF new[to[Len(to)]].prepended THEN Seen(new, u)
                                        ELSE Ancestors(new, to[Len(to)])
        BY <1>1, <4>1, SeenFacts
      <4> QED BY <4>2, <4>3
    <3>6. CASE g[c].prepended
      <4>1. c \in ToSet(Seen(new, u))
        BY <1>2, <2>1, <2>2, <3>3, <3>4, <3>6 DEF PrependedAbove
      <4>2. ToSet(Seen(new, u)) \subseteq ToSet(Seen(new, to[Len(to)]))
        BY <3>5, PushedFacts
      <4> QED BY <1>1, <1>2, <2>4, <3>2, <4>1, <4>2
    <3>7. CASE ~g[c].prepended /\ Len(Chain(g, m)) < Len(to)
      <4>1. PICK n : n = Len(Chain(g, m))
        OBVIOUS
      <4>2. n \in Nat
        BY <1>2, <4>1, UsedFacts
      <4>3. Len(to) \in n + 1 .. Len(to)
        BY <1>1, <3>7, <4>1, <4>2
      <4>4. new[to[Len(to)]].of = c /\ ~new[to[Len(to)]].prepended
        BY <1>2, <4>1, <4>3 DEF Grafted
      <4>5. c \in ToSet(Seen(new, to[Len(to)]))
        BY <3>5, <4>4, PushedFacts
      <4> QED BY <1>1, <1>2, <2>4, <3>2, <4>5
    <3>8. g[c].prepended \/ (~g[c].prepended /\ Len(Chain(g, m)) < Len(to))
      BY <2>4 DEF Grafted
    <3> QED BY <3>6, <3>7, <3>8
  <2>5. CASE x \in New
    <3>1. PICK k \in 1 .. Len(to) : x = to[k]
      BY <2>5
    <3>2. /\ new[to[1]].prepended => new[to[1]].of \in ToSet(Seen(new, new[to[1]].upper))
          /\ \A j \in 2 .. Len(to) : ~new[to[j]].prepended
      BY <1>2, <2>1, GraftNames
    <3>3. k = 1
      <4>1. k # 1 => k \in 2 .. Len(to)
        BY <1>1
      <4> QED BY <3>1, <3>2, <4>1
    <3> QED BY <3>1, <3>2, <3>3
  <2> QED BY <1>3, <2>3, <2>4, <2>5
<1> QED BY <1>6, <1>7, <1>8, <1>9 DEF Linked

LEMMA NewNode ==
  ASSUME NEW g, Graph(g), Room(g, 1), NEW s \in Used(g) \cup {None}, NEW c, c = Fresh(g, 1)[1],
         NEW new, (new = WithModule(g) /\ s = None) \/ new = WithClass(g, s)
  PROVE  new[c].of = c /\ new[c].upper = s /\ ~new[c].prepended /\ (new[c].module => s = None)
<1>1. c \in Cell
  BY FreshFacts
<1>2. CASE new = WithModule(g) /\ s = None
  <2>1. PICK n : n = [FreeNode EXCEPT !.of = c, !.module = TRUE]
    OBVIOUS
  <2>2. n.of = c /\ n.upper = None /\ ~n.prepended
    BY <2>1 DEF FreeNode
  <2>3. new = [g EXCEPT ![c] = n]
    BY <1>2, <2>1 DEF WithModule
  <2> QED BY <1>1, <1>2, <2>2, <2>3 DEF Graph
<1>3. CASE new = WithClass(g, s)
  <2>1. PICK n : n = [FreeNode EXCEPT !.of = c, !.upper = s]
    OBVIOUS
  <2>2. n.of = c /\ n.upper = s /\ ~n.prepended /\ ~n.module
    BY <2>1 DEF FreeNode
  <2>3. new = [g EXCEPT ![c] = n]
    BY <1>3, <2>1 DEF WithClass
  <2> QED BY <1>1, <2>2, <2>3 DEF Graph
<1> QED BY <1>2, <1>3

LEMMA NewLinked ==
  ASSUME NEW g, Graph(g), NEW roots \in SUBSET Used(g), Linked(g, roots), Room(g, 1),
         NEW s \in roots \cup {None}, NEW c, c = Fresh(g, 1)[1],
         NEW new, (new = WithModule(g) /\ s = None) \/ (new = WithClass(g, s) /\ s \in roots)
  PROVE  Linked(new, roots \cup {c})
<1>1. /\ Graph(new) /\ c \in Cell /\ c \notin Used(g) /\ Used(new) = Used(g) \cup {c}
      /\ \A x \in Used(g) : new[x] = g[x]
  BY NewFacts DEF FreeCells, Used
<1>2. new[c].of = c /\ new[c].upper = s /\ ~new[c].prepended /\ (new[c].module => s = None)
  BY NewNode
<1>3. \A x \in Used(g) : /\ g[x].of \in Used(g) /\ g[x].upper \in Used(g) \cup {None}
                         /\ IsModule(new, x) = IsModule(g, x)
  <2>1. \A x \in Used(g) : g[x].of \in Used(g) /\ g[x].upper \in Used(g) \cup {None}
    BY DEF Graph, Used
  <2> QED BY <1>1, <2>1 DEF IsModule
<1>4. \A x \in roots \cup {c} : new[x].of = x
  BY <1>1, <1>2 DEF Linked
<1>5. ModulesApart(new)
  <2>1. PICK A \in SUBSET Used(g) :
          /\ Upwards(g, A) /\ \A x \in A : IsModule(g, x)
          /\ \A x \in Used(g) : g[x].of = x /\ g[x].module => x \in A
    BY DEF Linked, ModulesApart
  <2> DEFINE B == IF new[c].module THEN A \cup {c} ELSE A
  <2>2. B \in SUBSET Used(new)
    BY <1>1
  <2>3. Upwards(new, B)
    <3>1. \A x \in A : new[x].upper \in A \cup {None}
      BY <1>1, <2>1 DEF Upwards
    <3> QED BY <1>1, <1>2, <2>2, <3>1 DEF Upwards, Used
  <2>4. \A x \in B : IsModule(new, x)
    BY <1>2, <1>3, <2>1 DEF IsModule
  <2>5. \A x \in Used(new) : new[x].of = x /\ new[x].module => x \in B
    BY <1>1, <2>1
  <2> HIDE DEF B
  <2> QED BY <2>2, <2>3, <2>4, <2>5 DEF ModulesApart
<1>6. CopiesBetween(new)
  <2> SUFFICES ASSUME NEW y \in Used(new), new[y].of # y, ~IsModule(new, y)
               PROVE  \E W \in SUBSET Used(new) : Enclosed(new, y, W)
    BY DEF CopiesBetween
  <2>1. y \in Used(g)
    BY <1>1, <1>2
  <2>2. PICK W \in SUBSET Used(g) : Enclosed(g, y, W)
    BY <1>1, <1>3, <2>1 DEF Linked, CopiesBetween
  <2>3. s \notin W
    <3>1. None \notin W
      BY Cells DEF Used
    <3> QED BY <2>2, <3>1 DEF Linked, Enclosed
  <2>4. Enclosed(new, y, W)
    BY <1>1, <1>2, <2>1, <2>2, <2>3 DEF Enclosed
  <2> QED BY <1>1, <2>4
<1>7. PrependedAbove(new)
  <2> SUFFICES ASSUME NEW x \in Used(new), new[x].prepended
               PROVE  new[x].of \in ToSet(Seen(new, new[x].upper))
    BY DEF PrependedAbove
  <2>1. x \in Used(g) /\ new[x] = g[x]
    BY <1>1, <1>2
  <2>2. g[x].of \in ToSet(Seen(g, g[x].upper))
    BY <2>1 DEF Linked, PrependedAbove
  <2>3. Seen(new, g[x].upper) = Seen(g, g[x].upper)
    <3>1. Upwards(g, Used(g))
      BY UsedUpwards
    <3>2. \A z \in Used(g) \cup {None} : Seen(new, z) = Seen(g, z)
      BY <1>1, <3>1, SeenSame
    <3> QED BY <1>3, <2>1, <3>2
  <2> QED BY <2>1, <2>2, <2>3
<1> QED BY <1>4, <1>5, <1>6, <1>7 DEF Linked

LEMMA CollectLinked ==
  ASSUME NEW g, Graph(g), NEW roots \in SUBSET Used(g), Linked(g, roots), NEW new,
         new = [c \in Cell |-> IF c \in Reached(g, roots) THEN g[c] ELSE FreeNode]
  PROVE  Linked(new, roots)
<1>1. PICK R : R = Used(new)
  OBVIOUS
<1>2. /\ Graph(new) /\ roots \subseteq R /\ Upwards(g, R) /\ R \subseteq Used(g)
      /\ \A c \in R : new[c] = g[c]
  BY <1>1, CollectFacts
<1>3. \A x \in R : /\ g[x].of \in R /\ g[x].upper \in R \cup {None}
                   /\ IsModule(new, x) = IsModule(g, x)
  <2>1. \A x \in R : g[x].of \in R
    BY <1>1, <1>2 DEF Graph
  <2> QED BY <1>2, <2>1 DEF IsModule, Upwards
<1>4. \A x \in roots : new[x].of = x
  BY <1>2 DEF Linked
<1>5. ModulesApart(new)
  <2>1. PICK A \in SUBSET Used(g) :
          /\ Upwards(g, A) /\ \A x \in A : IsModule(g, x)
          /\ \A x \in Used(g) : g[x].of = x /\ g[x].module => x \in A
    BY DEF Linked, ModulesApart
  <2>2. PICK B : B = A \cap R
    OBVIOUS
  <2>3. Upwards(new, B)
    BY <1>2, <1>3, <2>1, <2>2 DEF Upwards
  <2>4. \A x \in B : IsModule(new, x)
    BY <1>3, <2>1, <2>2
  <2>5. \A x \in R : new[x].of = x /\ new[x].module => x \in B
    BY <1>2, <2>1, <2>2
  <2>6. B \in SUBSET R
    BY <2>2
  <2> QED BY <1>1, <2>3, <2>4, <2>5, <2>6 DEF ModulesApart
<1>6. CopiesBetween(new)
  <2> SUFFICES ASSUME NEW y \in R, new[y].of # y, ~IsModule(new, y)
               PROVE  \E W \in SUBSET R : Enclosed(new, y, W)
    BY <1>1 DEF CopiesBetween
  <2>1. PICK W \in SUBSET Used(g) : Enclosed(g, y, W)
    BY <1>2, <1>3 DEF Linked, CopiesBetween
  <2>2. PICK V : V = W \cap R
    OBVIOUS
  <2>3. /\ y \in V /\ V \in SUBSET R /\ \A w \in V : new[w].of # w
        /\ \A z \in R : new[z].upper \in V => z \in V \cup {new[y].of}
    BY <1>2, <2>1, <2>2 DEF Enclosed
  <2>4. Enclosed(new, y, V)
    BY <1>1, <2>3 DEF Enclosed
  <2> QED BY <2>3, <2>4
<1>7. PrependedAbove(new)
  <2> SUFFICES ASSUME NEW x \in R, new[x].prepended
               PROVE  new[x].of \in ToSet(Seen(new, new[x].upper))
    BY <1>1 DEF PrependedAbove
  <2>1. x \in Used(g) /\ new[x] = g[x]
    BY <1>2
  <2>2. g[x].of \in ToSet(Seen(g, g[x].upper))
    BY <2>1 DEF Linked, PrependedAbove
  <2>3. \A z \in R \cup {None} : Seen(new, z) = Seen(g, z)
    BY <1>2, SeenSame
  <2> QED BY <1>3, <2>1, <2>2, <2>3
<1> QED BY <1>4, <1>5, <1>6, <1>7 DEF Linked

LinkedInv == Classes /\ Linked(h, held)

LEMMA LinkedInit == Init => LinkedInv
<1> SUFFICES ASSUME Init PROVE LinkedInv
  OBVIOUS
<1>1. PICK b : b = BasicObject
  OBVIOUS
<1>2. b \in Cell /\ b # None
  BY <1>1, Cells
<1>3. PICK root : root = [FreeNode EXCEPT !.of = b]
  OBVIOUS
<1>4. root.of = b /\ ~root.module /\ ~root.prepended /\ FreeNode.of = None
  BY <1>3 DEF FreeNode
<1>5. h = [c \in Cell |-> IF c = b THEN root ELSE FreeNode] /\ held = {b}
  BY <1>1, <1>3 DEF Init
<1>6. Used(h) = {b} /\ h[b].of = b /\ ~h[b].module /\ ~h[b].prepended
  BY <1>2, <1>4, <1>5 DEF Used
<1>7. Upwards(h, {})
  BY DEF Upwards
<1>8. Linked(h, held)
  BY <1>5, <1>6, <1>7 DEF Linked, ModulesApart, CopiesBetween, PrependedAbove
<1> QED BY <1>8, ClassesInit DEF LinkedInv

LEMMA LinkedNext ==
  ASSUME LinkedInv, [Next]_vars
  PROVE  LinkedInv'
<1>0. Classes' /\ Classes /\ Linked(h, held) /\ Graph(h) /\ held \in SUBSET Used(h)
  BY ClassesNext DEF LinkedInv, Classes
<1>1. ASSUME NEW new, Made(new), Room(h, 1), NEW s \in held \cup {None},
             (new = WithModule(h) /\ s = None) \/ (new = WithClass(h, s) /\ s \in held)
      PROVE  Linked(h', held')
  <2>1. PICK c : c = Fresh(h, 1)[1]
    OBVIOUS
  <2>2. h' = new /\ held' = held \cup {c}
    BY <1>1, <2>1 DEF Made
  <2>3. Linked(new, held \cup {c})
    BY <1>0, <1>1, <2>1, NewLinked
  <2> QED BY <2>2, <2>3
<1>2. ASSUME NewModule PROVE Linked(h', held')
  <2>1. Made(WithModule(h)) /\ Room(h, 1)
    BY <1>2 DEF NewModule
  <2>2. PICK new : new = WithModule(h)
    OBVIOUS
  <2>3. PICK s : s = None
    OBVIOUS
  <2>4. s \in held \cup {None} /\ Made(new)
    BY <2>1, <2>2, <2>3
  <2> QED BY <1>1, <2>1, <2>2, <2>3, <2>4
<1>3. ASSUME NEW c \in Cell, NewClass(c) PROVE Linked(h', held')
  BY <1>1, <1>3 DEF NewClass
<1>4. ASSUME Collect PROVE Linked(h', held')
  <2>1. PICK new : new = [c \in Cell |-> IF c \in Reached(h, held) THEN h[c] ELSE FreeNode]
    OBVIOUS
  <2>2. Linked(new, held)
    BY <1>0, <2>1, CollectLinked
  <2>3. h' = [c \in Cell |-> IF c \in Reached(h, held) THEN h[c] ELSE FreeNode] /\ held' = held
    BY <1>4 DEF Collect
  <2>4. h' = new
    BY <2>1, <2>3
  <2> QED BY <2>2, <2>3, <2>4
<1>5. ASSUME NEW c \in Cell, Forget(c) PROVE Linked(h', held')
  BY <1>0, <1>5 DEF Forget, Linked
<1>6. ASSUME NEW c \in Cell, NEW n \in Name, AddMethod(c, n) \/ FindMethod(c, n) PROVE Linked(h', held')
  BY <1>0, <1>6 DEF AddMethod, FindMethod
<1>7. ASSUME NEW c \in Cell, NEW m \in Cell, Include(c, m) \/ Prepend(c, m) PROVE Linked(h', held')
  <2>1. PICK to : Grafted(h', h, c, m, to)
    BY <1>0, <1>7, RelinkGrafts
  <2>2. c \in held /\ m \in held /\ h[m].module /\ held' = held
    BY <1>0, <1>7, RelinkGrafts
  <2>3. PICK new : new = h'
    OBVIOUS
  <2>4. Linked(new, held)
    BY <1>0, <2>1, <2>2, <2>3, GraftLinked
  <2> QED BY <2>2, <2>3, <2>4
<1>8. ASSUME NEW s \in Site, NEW c \in Cell, Call(s, c) PROVE Linked(h', held')
  BY <1>0, <1>8 DEF Call
<1>9. ASSUME UNCHANGED vars PROVE Linked(h', held')
  <2>1. h' = h /\ held' = held
    BY <1>9 DEF vars
  <2> QED BY <1>0, <2>1
<1>10. Linked(h', held')
  <2>1. CASE Next
    BY <1>2, <1>3, <1>4, <1>5, <1>6, <1>7, <1>8, <2>1 DEF Next
  <2> QED BY <1>9, <2>1
<1> QED BY <1>0, <1>10 DEF LinkedInv

(* A class below c leads through c, even if what it shows of c is a copy.  *)
LEMMA GraftReaches ==
  ASSUME NEW g, Graph(g), NEW roots \in SUBSET Used(g), Linked(g, roots),
         NEW c \in roots, ~g[c].module, NEW m \in roots,
         NEW to, NEW new, Grafted(new, g, c, m, to),
         NEW d \in roots, c \in ToSet(Ancestors(g, d))
  PROVE  ToSet(Ancestors(g, m)) \subseteq ToSet(Ancestors(new, d))
<1> DEFINE Has(x) == ToSet(Ancestors(g, m)) \subseteq ToSet(Seen(new, x))
           A == {x \in Used(g) : ~Has(new[x].upper)}
<1>1. /\ Graph(new) /\ Used(g) \subseteq Cell /\ Used(g) \subseteq Used(new) /\ new[c].upper = to[1]
      /\ c \in Used(g) /\ m \in Used(g) /\ d \in Used(g)
      /\ \A x \in Used(g) \ {c} : new[x] = g[x]
  BY GraftFacts
<1>2. Has(to[1])
  BY <1>1, GraftNames DEF Linked
<1>3. \A x \in Cell : Has(new[x].upper) => Has(x) /\ ToSet(Ancestors(g, m)) \subseteq ToSet(Ancestors(new, x))
  <2> SUFFICES ASSUME NEW x \in Cell, Has(new[x].upper)
               PROVE  Has(x) /\ ToSet(Ancestors(g, m)) \subseteq ToSet(Ancestors(new, x))
    OBVIOUS
  <2>1. PICK s : s = Seen(new, new[x].upper)
    OBVIOUS
  <2>2. /\ s \in Seq(Up0) /\ new[x].of \in Up0 /\ Ancestors(new, x) = <<new[x].of>> \o s
        /\ Seen(new, x) = IF new[x].prepended THEN s ELSE Ancestors(new, x)
    BY <1>1, <2>1, SeenFacts
  <2>3. ToSet(s) \subseteq ToSet(Ancestors(new, x))
    BY <2>2, PushedFacts
  <2> QED BY <2>1, <2>2, <2>3
<1>4. SUFFICES ASSUME d \in A PROVE FALSE
  BY <1>1, <1>3
<1>5. c \notin A
  BY <1>1, <1>2
<1>6. Upwards(g, A)
  <2> SUFFICES ASSUME NEW x \in A PROVE g[x].upper \in A \cup {None}
    BY <1>1 DEF Upwards
  <2>1. new[x] = g[x] /\ x # c /\ x \in Cell
    BY <1>1, <1>5
  <2>2. g[x].upper \in Used(g) \cup {None}
    BY <2>1 DEF Graph
  <2>3. ASSUME g[x].upper \in Used(g) PROVE ~Has(new[g[x].upper].upper)
    BY <1>1, <1>3, <2>1, <2>3
  <2> QED BY <2>2, <2>3
<1>7. PICK chain : chain = Chain(g, d)
  OBVIOUS
<1>8. chain \in Seq(Cell)
  BY <1>1, <1>7, UsedFacts
<1>9. PICK k \in 1 .. Len(chain) : g[chain[k]].of = c
  <2>1. Ancestors(g, d) = [j \in DOMAIN chain |-> g[chain[j]].of] /\ DOMAIN chain = 1 .. Len(chain)
    BY <1>7, <1>8 DEF Ancestors
  <2> QED BY <2>1 DEF ToSet
<1>10. PICK y : y = chain[k]
  OBVIOUS
<1>11. y \in A /\ y \in Used(g) /\ y # c
  <2> HIDE DEF A
  <2>1. y \in A
    BY <1>4, <1>6, <1>7, <1>9, <1>10, ChainWithin
  <2> QED BY <1>5, <2>1 DEF A
<1>12. ~IsModule(g, y)
  BY <1>9, <1>10 DEF IsModule
<1>13. PICK W \in SUBSET Used(g) : Enclosed(g, y, W)
  BY <1>9, <1>10, <1>11, <1>12 DEF Linked, CopiesBetween
<1>14. PICK B : B = A \ W
  OBVIOUS
<1>15. Upwards(g, B)
  <2> HIDE DEF A
  <2>1. \A x \in A : x \in Used(g) /\ g[x].upper \in A \cup {None}
    BY <1>6 DEF Upwards, A
  <2>2. \A x \in B : g[x].upper \notin W
    BY <1>5, <1>9, <1>10, <1>13, <1>14, <2>1 DEF Enclosed
  <2> QED BY <1>6, <1>14, <2>1, <2>2 DEF Upwards
<1>16. d \in B
  BY <1>4, <1>13, <1>14 DEF Linked, Enclosed
<1>17. y \in B
  BY <1>7, <1>9, <1>10, <1>15, <1>16, ChainWithin
<1> QED BY <1>13, <1>14, <1>17 DEF Enclosed

(* After an include or a prepend every class below c, through superclasses *)
(* only, has the module and all of its ancestors: also classes made before *)
(* the call, and those of which c shows only a copy.                       *)
THEOREM ModulesReach == Spec => ModuleReachesSubclasses
<1>1. ASSUME LinkedInv, NEW c \in held, NEW m \in held, Include(c, m) \/ Prepend(c, m),
             NEW d \in held, Below(c, d)
      PROVE  ToSet(Ancestors(h, m)) \subseteq ToSet(Ancestors(h', d))
  <2>1. Graph(h) /\ held \in SUBSET Used(h) /\ Linked(h, held) /\ c \in Cell /\ m \in Cell
    BY <1>1 DEF LinkedInv, Classes, Used
  <2>2. PICK to : Grafted(h', h, c, m, to)
    BY <1>1, <2>1, RelinkGrafts DEF LinkedInv
  <2>3. PICK new : new = h'
    OBVIOUS
  <2>4. c \in ToSet(Ancestors(h, d)) /\ ~h[c].module
    BY <1>1 DEF Below
  <2>5. ToSet(Ancestors(h, m)) \subseteq ToSet(Ancestors(new, d))
    BY <1>1, <2>1, <2>2, <2>3, <2>4, GraftReaches
  <2> QED BY <2>3, <2>5
<1>2. LinkedInv /\ [Next]_vars =>
        [\A c, m \in held : Include(c, m) \/ Prepend(c, m) =>
            \A d \in held : Below(c, d) => ToSet(Ancestors(h, m)) \subseteq ToSet(Ancestors(h', d))]_vars
  BY <1>1
<1> QED BY <1>2, LinkedInit, LinkedNext, PTL DEF Spec, ModuleReachesSubclasses

-----------------------------------------------------------------------------
(* What a search finds *)

(* The methods of that name on the way up, and the first there is.         *)
Row(g, ms, c, n) == [k \in DOMAIN Chain(g, c) |-> ms[g[Chain(g, c)[k]].of][n]]
Hits(row) == {k \in DOMAIN row : row[k] # NoMethod}
First(row) ==
    IF Hits(row) = {} THEN NoMethod
    ELSE row[CHOOSE k \in Hits(row) : \A j \in Hits(row) : k <= j]

LEMMA ResolveRow ==
  ASSUME NEW c \in Cell, NEW n
  PROVE  /\ Classes => Resolve(c, n) = First(Row(h, methods, c, n))
         /\ Classes' => Resolve(c, n)' = First(Row(h', methods', c, n))
<1> DEFINE Search(g, ms) ==
             LET chain == Chain(g, c)
                 hits == {k \in DOMAIN chain : ms[g[chain[k]].of][n] # NoMethod}
             IN IF hits = {} THEN NoMethod
                ELSE ms[g[chain[CHOOSE k \in hits : \A j \in hits : k <= j]].of][n]
<1>1. ASSUME NEW g, Graph(g), NEW ms PROVE Search(g, ms) = First(Row(g, ms, c, n))
  <2>1. PICK row : row = Row(g, ms, c, n)
    OBVIOUS
  <2>2. PICK chain : chain = Chain(g, c)
    OBVIOUS
  <2>3. DOMAIN row = DOMAIN chain /\ \A k \in DOMAIN chain : row[k] = ms[g[chain[k]].of][n]
    BY <2>1, <2>2 DEF Row
  <2>4. PICK hits : hits = {k \in DOMAIN chain : ms[g[chain[k]].of][n] # NoMethod}
    OBVIOUS
  <2>5. Hits(row) = hits /\ hits \subseteq DOMAIN chain
    BY <2>3, <2>4 DEF Hits
  <2>6. CASE hits = {}
    BY <2>1, <2>2, <2>4, <2>5, <2>6 DEF First
  <2>7. CASE hits # {}
    <3>1. PICK k : k = CHOOSE x \in hits : \A j \in hits : x <= j
      OBVIOUS
    <3>2. Search(g, ms) = ms[g[chain[k]].of][n]
      BY <2>2, <2>4, <2>7, <3>1
    <3>3. First(row) = row[k]
      BY <2>5, <2>7, <3>1 DEF First
    <3>4. chain \in Seq(Cell)
      BY <1>1, <2>2, ChainFacts DEF Up0
    <3>5. \E x \in hits : \A j \in hits : x <= j
      BY <2>4, <2>7, <3>4, Least
    <3>6. k \in DOMAIN chain
      BY <2>5, <3>1, <3>5
    <3> HIDE DEF Search
    <3> QED BY <2>1, <2>3, <3>2, <3>3, <3>6
  <2> QED BY <2>6, <2>7
<1>2. Resolve(c, n) = Search(h, methods) /\ Resolve(c, n)' = Search(h', methods')
  BY DEF Resolve
<1> HIDE DEF Search
<1> QED BY <1>1, <1>2 DEF Classes

LEMMA ResolveType ==
  ASSUME Classes, methods \in [Cell -> [Name -> MethodId]], NEW c \in Used(h), NEW n \in Name
  PROVE  Resolve(c, n) \in MethodId
<1>1. PICK row : row = Row(h, methods, c, n)
  OBVIOUS
<1>2. Chain(h, c) \in Seq(Cell) /\ \A k \in 1 .. Len(Chain(h, c)) : h[Chain(h, c)[k]].of \in Used(h)
  BY UsedFacts DEF Classes
<1>3. Used(h) \subseteq Cell
  BY DEF Used
<1>4. DOMAIN row \subseteq Nat /\ \A k \in DOMAIN row : row[k] \in MethodId
  BY <1>1, <1>2, <1>3 DEF Row
<1>5. NoMethod \in MethodId
  BY MethodCacheAssumption DEF NoMethod, MethodId
<1>6. Hits(row) \in SUBSET Nat /\ Hits(row) \subseteq DOMAIN row
  BY <1>4 DEF Hits
<1>7. First(row) \in MethodId
  <2>1. CASE Hits(row) = {}
    BY <1>5, <2>1 DEF First
  <2>2. CASE Hits(row) # {}
    <3>1. \E k \in Hits(row) : \A j \in Hits(row) : k <= j
      BY <1>6, <2>2, Least
    <3>2. PICK k : k = CHOOSE x \in Hits(row) : \A j \in Hits(row) : x <= j
      OBVIOUS
    <3>3. k \in Hits(row)
      BY <3>1, <3>2
    <3> QED BY <1>4, <1>6, <2>2, <3>2, <3>3 DEF First
  <2> QED BY <2>1, <2>2
<1>8. c \in Cell
  BY <1>3
<1> QED BY <1>1, <1>7, <1>8, ResolveRow

(* A search from a class finds the same as long as all above it is kept.   *)
LEMMA ResolveKept ==
  ASSUME Classes, Classes', NEW A, Kept(A), NEW c \in A, NEW n \in Name
  PROVE  Resolve(c, n)' = Resolve(c, n)
<1>1. PICK g : g = h
  OBVIOUS
<1>2. PICK new : new = h'
  OBVIOUS
<1>3. Graph(g) /\ Graph(new) /\ Upwards(g, A)
  BY <1>1, <1>2 DEF Classes, Kept
<1>4. \A x \in A : new[x] = g[x]
  BY <1>1, <1>2 DEF Kept
<1>5. Chain(new, c) = Chain(g, c) /\ \A k \in 1 .. Len(Chain(g, c)) : Chain(g, c)[k] \in A
  BY <1>3, <1>4, ChainSame, ChainWithin
<1>6. c \in Cell
  BY <1>3 DEF Upwards
<1>7. PICK chain : chain = Chain(g, c)
  OBVIOUS
<1>8. chain \in Seq(Cell)
  BY <1>3, <1>6, <1>7, ChainFacts DEF Up0
<1>9. \A k \in DOMAIN chain : methods'[new[chain[k]].of][n] = methods[g[chain[k]].of][n]
  <2>1. \A k \in DOMAIN chain : chain[k] \in A
    BY <1>5, <1>7, <1>8
  <2>2. \A x \in A : methods'[g[x].of] = methods[g[x].of]
    BY <1>1 DEF Kept
  <2> QED BY <1>4, <2>1, <2>2
<1>10. Row(new, methods', c, n) = Row(g, methods, c, n)
  BY <1>5, <1>7, <1>9 DEF Row
<1> QED BY <1>1, <1>2, <1>6, <1>10, ResolveRow

-----------------------------------------------------------------------------
(* The caches *)

Entry == [method : MethodId, version : Versions \cup {-1}]
Inline == [version : Versions \cup {-1}, class : Cell \cup {None}, method : MethodId]

Tables ==
    /\ methods \in [Cell -> [Name -> MethodId]]
    /\ repo \in MethodId /\ version \in Versions

(* An entry is of a class in use and no newer than the classes are; one of *)
(* their version has what a search finds.                                  *)
TableTrue(e, c, n) ==
    e.version # -1 => /\ c \in held /\ e.version <= version
                      /\ e.version = version => e.method = Resolve(c, n)
InlineTrue(e, s) ==
    e.version # -1 => /\ e.class \in held /\ e.version <= version
                      /\ e.version = version => e.method = Resolve(e.class, NameOf[s])
Cached ==
    /\ mcache \in [Cell \X Name -> Entry]
    /\ icache \in [Site -> Inline]
    /\ \A c \in Cell, n \in Name : TableTrue(mcache[<<c, n>>], c, n)
    /\ \A s \in Site : InlineTrue(icache[s], s)

CachesInv == Classes /\ Tables /\ Cached

LEMMA Numbers ==
  /\ Versions \subseteq Nat /\ -1 \notin Versions /\ 0 \in Versions
  /\ MethodId = Versions /\ NoMethod = 0
BY MethodCacheAssumption DEF Versions, MethodId, NoMethod

LEMMA CachesInit == Init => CachesInv
<1> SUFFICES ASSUME Init PROVE CachesInv
  OBVIOUS
<1>1. Tables
  BY Numbers DEF Init, Tables, NoTable
<1>2. NoEntry \in Entry /\ NoEntry.version = -1 /\ NoInline \in Inline /\ NoInline.version = -1
  BY Numbers DEF NoEntry, Entry, NoInline, Inline
<1>3. Cached
  BY <1>2 DEF Init, Cached, TableTrue, InlineTrue
<1> QED BY <1>1, <1>3, ClassesInit DEF CachesInv

(* The caches stay true when the searches find the same as before.         *)
LEMMA SameSearches ==
  ASSUME CachesInv, Classes', Tables', version' = version, UNCHANGED <<mcache, icache>>,
         held \subseteq held', NEW A, Kept(A)
  PROVE  CachesInv'
<1>1. held \subseteq A /\ NameOf \in [Site -> Name]
  BY MethodCacheAssumption DEF Kept
<1>2. \A c \in held, n \in Name : Resolve(c, n)' = Resolve(c, n)
  BY <1>1, ResolveKept DEF CachesInv
<1>3. mcache' \in [Cell \X Name -> Entry] /\ icache' \in [Site -> Inline]
  BY DEF CachesInv, Cached
<1>4. ASSUME NEW c \in Cell, NEW n \in Name PROVE TableTrue(mcache[<<c, n>>], c, n)'
  <2>1. TableTrue(mcache[<<c, n>>], c, n)
    BY DEF CachesInv, Cached
  <2> QED BY <1>2, <2>1 DEF TableTrue
<1>5. ASSUME NEW s \in Site PROVE InlineTrue(icache[s], s)'
  <2>1. InlineTrue(icache[s], s)
    BY DEF CachesInv, Cached
  <2>2. NameOf[s] \in Name
    BY <1>1
  <2>3. ASSUME icache[s].version # -1 PROVE Resolve(icache[s].class, NameOf[s])' = Resolve(icache[s].class, NameOf[s])
    BY <1>2, <2>1, <2>2, <2>3 DEF InlineTrue
  <2> QED BY <2>1, <2>3 DEF InlineTrue
<1> QED BY <1>3, <1>4, <1>5 DEF CachesInv, Cached

(* A new version of the classes puts every entry out of use.               *)
LEMMA NewVersion ==
  ASSUME CachesInv, Classes', Tables', version' = version + 1, UNCHANGED <<mcache, icache, held>>
  PROVE  CachesInv'
<1>1. version \in Nat
  BY Numbers DEF CachesInv, Tables
<1>2. mcache' \in [Cell \X Name -> Entry] /\ icache' \in [Site -> Inline]
  BY DEF CachesInv, Cached
<1>3. ASSUME NEW c \in Cell, NEW n \in Name PROVE TableTrue(mcache[<<c, n>>], c, n)'
  <2>1. TableTrue(mcache[<<c, n>>], c, n) /\ mcache[<<c, n>>] \in Entry
    BY DEF CachesInv, Cached
  <2>2. mcache[<<c, n>>].version \in Versions \cup {-1}
    BY <2>1 DEF Entry
  <2>3. mcache[<<c, n>>].version # -1 => mcache[<<c, n>>].version \in Nat
    BY <2>2, Numbers
  <2> QED BY <1>1, <2>1, <2>3 DEF TableTrue
<1>4. ASSUME NEW s \in Site PROVE InlineTrue(icache[s], s)'
  <2>1. InlineTrue(icache[s], s) /\ icache[s] \in Inline
    BY DEF CachesInv, Cached
  <2>2. icache[s].version \in Versions \cup {-1}
    BY <2>1 DEF Inline
  <2>3. icache[s].version # -1 => icache[s].version \in Nat
    BY <2>2, Numbers
  <2> QED BY <1>1, <2>1, <2>3 DEF InlineTrue
<1> QED BY <1>2, <1>3, <1>4 DEF CachesInv, Cached

(* What the lookup finds is what a search finds.                           *)
LEMMA FoundTrue ==
  ASSUME CachesInv, NEW c \in held, NEW n \in Name
  PROVE  c \in Cell /\ Found(c, n) = Resolve(c, n) /\ Found(c, n) \in MethodId
<1>1. c \in Used(h) /\ c \in Cell
  BY DEF CachesInv, Classes, Used
<1>2. Resolve(c, n) \in MethodId
  BY <1>1, ResolveType DEF CachesInv, Tables
<1>3. Found(c, n) = Resolve(c, n)
  <2>1. TableTrue(mcache[<<c, n>>], c, n) /\ version \in Versions
    BY <1>1 DEF CachesInv, Cached, Tables
  <2> QED BY <2>1, Numbers DEF Found, Current, TableTrue
<1> QED BY <1>1, <1>2, <1>3

(* The classes as a lookup leaves them.                                    *)
SameClasses == UNCHANGED <<h, methods, repo, version, held>>

LEMMA SameResolve ==
  ASSUME SameClasses, NEW c, NEW n
  PROVE  Resolve(c, n)' = Resolve(c, n)
BY DEF SameClasses, Resolve

LEMMA EnteredTrue ==
  ASSUME CachesInv, SameClasses, NEW c \in held, NEW n \in Name, mcache' = Entered(c, n)
  PROVE  /\ mcache' \in [Cell \X Name -> Entry]
         /\ \A d \in Cell, m \in Name : TableTrue(mcache[<<d, m>>], d, m)'
<1>1. /\ c \in Cell /\ Found(c, n) = Resolve(c, n) /\ Found(c, n) \in MethodId
      /\ version \in Versions /\ mcache \in [Cell \X Name -> Entry]
  BY FoundTrue DEF CachesInv, Tables, Cached
<1>2. \A d \in Cell, m \in Name : TableTrue(mcache[<<d, m>>], d, m)
  BY DEF CachesInv, Cached
<1>3. PICK e : e = [method |-> Found(c, n), version |-> version]
  OBVIOUS
<1>4. e \in Entry /\ e.method = Resolve(c, n) /\ e.version = version
  BY <1>1, <1>3 DEF Entry
<1>5. mcache' = mcache \/ mcache' = [mcache EXCEPT ![<<c, n>>] = e]
  BY <1>3 DEF Entered
<1>6. mcache' \in [Cell \X Name -> Entry]
  BY <1>1, <1>4, <1>5
<1>7. \A d \in Cell, m \in Name :
        mcache'[<<d, m>>] = mcache[<<d, m>>] \/ (d = c /\ m = n /\ mcache'[<<d, m>>] = e)
  BY <1>1, <1>5
<1>8. ASSUME NEW d \in Cell, NEW m \in Name PROVE TableTrue(mcache[<<d, m>>], d, m)'
  <2>1. Resolve(d, m)' = Resolve(d, m) /\ version' = version /\ held' = held
    BY SameResolve DEF SameClasses
  <2>2. CASE mcache'[<<d, m>>] = mcache[<<d, m>>]
    BY <1>2, <2>1, <2>2 DEF TableTrue
  <2>3. CASE d = c /\ m = n /\ mcache'[<<d, m>>] = e
    <3>1. version <= version
      BY <1>1, Numbers
    <3> QED BY <1>4, <2>1, <2>3, <3>1 DEF TableTrue
  <2> QED BY <1>7, <2>2, <2>3
<1> QED BY <1>6, <1>8

LEMMA SameTables ==
  ASSUME CachesInv, SameClasses
  PROVE  Classes' /\ Tables'
BY DEF CachesInv, Classes, Tables, SameClasses

LEMMA FindMethodKeeps ==
  ASSUME CachesInv, NEW c \in Cell, NEW n \in Name, FindMethod(c, n)
  PROVE  CachesInv'
<1>1. SameClasses /\ c \in held /\ mcache' = Entered(c, n) /\ icache' = icache
  BY DEF FindMethod, SameClasses
<1>2. /\ mcache' \in [Cell \X Name -> Entry]
      /\ \A d \in Cell, m \in Name : TableTrue(mcache[<<d, m>>], d, m)'
  BY <1>1, EnteredTrue
<1>3. ASSUME NEW s \in Site PROVE InlineTrue(icache[s], s)'
  <2>1. InlineTrue(icache[s], s)
    BY DEF CachesInv, Cached
  <2>2. Resolve(icache[s].class, NameOf[s])' = Resolve(icache[s].class, NameOf[s])
    BY <1>1, SameResolve
  <2> QED BY <1>1, <2>1, <2>2 DEF InlineTrue, SameClasses
<1>4. icache' \in [Site -> Inline]
  BY <1>1 DEF CachesInv, Cached
<1> QED BY <1>1, <1>2, <1>3, <1>4, SameTables DEF CachesInv, Cached

LEMMA CallKeeps ==
  ASSUME CachesInv, NEW s \in Site, NEW c \in Cell, Call(s, c)
  PROVE  CachesInv'
<1>1. PICK n : n = NameOf[s]
  OBVIOUS
<1>2. n \in Name
  BY <1>1, MethodCacheAssumption
<1>3. SameClasses /\ c \in held /\ Classes' /\ Tables'
  BY SameTables DEF Call, SameClasses
<1>4. PICK e : e = [version |-> version, class |-> c, method |-> Found(c, n)]
  OBVIOUS
<1>5. c \in Cell /\ Found(c, n) = Resolve(c, n) /\ Found(c, n) \in MethodId /\ version \in Versions
  BY <1>2, <1>3, FoundTrue DEF CachesInv, Tables
<1>6. e \in Inline /\ e.class = c /\ e.method = Resolve(c, n) /\ e.version = version
  BY <1>4, <1>5 DEF Inline
<1>7. \/ UNCHANGED <<mcache, icache>>
      \/ mcache' = Entered(c, n) /\ (icache' = icache \/ icache' = [icache EXCEPT ![s] = e])
  BY <1>1, <1>4 DEF Call
<1>8. /\ mcache' \in [Cell \X Name -> Entry]
      /\ \A d \in Cell, m \in Name : TableTrue(mcache[<<d, m>>], d, m)'
  <2>1. CASE mcache' = Entered(c, n)
    BY <1>2, <1>3, <2>1, EnteredTrue
  <2>2. CASE mcache' = mcache
    <3>1. mcache \in [Cell \X Name -> Entry] /\ \A d \in Cell, m \in Name : TableTrue(mcache[<<d, m>>], d, m)
      BY DEF CachesInv, Cached
    <3>2. \A d \in Cell, m \in Name : Resolve(d, m)' = Resolve(d, m)
      BY <1>3, SameResolve
    <3> QED BY <1>3, <2>2, <3>1, <3>2 DEF TableTrue, SameClasses
  <2> QED BY <1>7, <2>1, <2>2
<1>9. icache \in [Site -> Inline]
  BY DEF CachesInv, Cached
<1>10. /\ icache' \in [Site -> Inline]
       /\ \A t \in Site : icache'[t] = icache[t] \/ (t = s /\ icache'[t] = e)
  BY <1>6, <1>7, <1>9
<1>11. ASSUME NEW t \in Site PROVE InlineTrue(icache[t], t)'
  <2>1. InlineTrue(icache[t], t)
    BY DEF CachesInv, Cached
  <2>2. CASE icache'[t] = icache[t]
    <3>1. Resolve(icache[t].class, NameOf[t])' = Resolve(icache'[t].class, NameOf[t])
      BY <1>3, <2>2, SameResolve
    <3>2. Resolve(icache'[t].class, NameOf[t]) = Resolve(icache[t].class, NameOf[t])
      BY <2>2
    <3> QED BY <1>3, <2>1, <2>2, <3>1, <3>2 DEF InlineTrue, SameClasses
  <2>3. CASE t = s /\ icache'[t] = e
    <3>1. Resolve(c, n)' = Resolve(c, n) /\ version' = version /\ held' = held /\ version <= version
      BY <1>3, <1>5, Numbers, SameResolve DEF SameClasses
    <3> QED BY <1>1, <1>3, <1>6, <2>3, <3>1 DEF InlineTrue
  <2> QED BY <1>10, <2>2, <2>3
<1> QED BY <1>3, <1>8, <1>10, <1>11 DEF CachesInv, Cached

LEMMA CachesNext ==
  ASSUME ~Anonymous, CachesInv, [Next]_vars
  PROVE  CachesInv'
<1>1. Classes'
  BY ClassesNext DEF CachesInv
<1>2. CASE NewModule \/ \E c \in Cell : NewClass(c)
  <2>1. Kept(Used(h)) /\ methods' \in [Cell -> [Name -> MethodId]] /\ held \subseteq held'
    BY <1>2, MadeKeeps DEF CachesInv, Tables
  <2>2. UNCHANGED <<repo, version, mcache, icache>>
    BY <1>2 DEF NewModule, NewClass, Made
  <2>3. Tables'
    BY <2>1, <2>2 DEF CachesInv, Tables
  <2> QED BY <1>1, <2>1, <2>2, <2>3, SameSearches
<1>3. CASE Collect
  <2>1. \E A : Kept(A)
    BY <1>3, CollectKeeps DEF CachesInv
  <2>2. UNCHANGED <<methods, repo, version, mcache, icache, held>>
    BY <1>3 DEF Collect
  <2>3. Tables'
    BY <2>2 DEF CachesInv, Tables
  <2> QED BY <1>1, <2>1, <2>2, <2>3, SameSearches
<1>4. ASSUME NEW c \in Cell, Forget(c) PROVE FALSE
  BY <1>4 DEF Forget
<1>5. ASSUME NEW c \in Cell, NEW n \in Name, AddMethod(c, n) PROVE CachesInv'
  <2>1. /\ UNCHANGED <<mcache, icache, held>> /\ version < MaxVersion /\ version' = version + 1
        /\ repo < MaxVersion /\ repo' = repo + 1 /\ methods' = [methods EXCEPT ![c][n] = repo + 1]
    BY <1>5 DEF AddMethod, IncClassVersion, NewId
  <2>2. /\ repo \in 0 .. MaxVersion /\ version \in 0 .. MaxVersion /\ MaxVersion \in Nat
        /\ methods \in [Cell -> [Name -> MethodId]]
    BY MethodCacheAssumption DEF CachesInv, Tables, Versions, MethodId
  <2>3. repo + 1 \in MethodId /\ version + 1 \in Versions
    BY <2>1, <2>2 DEF Versions, MethodId
  <2>4. methods' \in [Cell -> [Name -> MethodId]]
    BY <2>1, <2>2, <2>3
  <2>5. Tables'
    BY <2>1, <2>3, <2>4 DEF Tables, MethodId
  <2> QED BY <1>1, <2>1, <2>5, NewVersion
<1>6. ASSUME NEW c \in Cell, NEW m \in Cell, Include(c, m) \/ Prepend(c, m) PROVE CachesInv'
  <2>1. /\ UNCHANGED <<methods, repo, mcache, icache, held>>
        /\ version < MaxVersion /\ version' = version + 1
    BY <1>6 DEF Include, Prepend, Relinked, IncClassVersion
  <2>2. version \in 0 .. MaxVersion /\ MaxVersion \in Nat
    BY MethodCacheAssumption DEF CachesInv, Tables, Versions
  <2>3. version + 1 \in Versions
    BY <2>1, <2>2 DEF Versions
  <2>4. Tables'
    BY <2>1, <2>3 DEF CachesInv, Tables
  <2> QED BY <1>1, <2>1, <2>4, NewVersion
<1>7. CASE UNCHANGED vars
  <2>1. SameClasses /\ UNCHANGED <<mcache, icache>>
    BY <1>7 DEF vars, SameClasses
  <2>2. Kept(Used(h))
    BY <2>1, UsedUpwards DEF Kept, CachesInv, Classes, SameClasses
  <2> QED BY <2>1, <2>2, SameTables, SameSearches DEF SameClasses
<1> QED BY <1>2, <1>3, <1>4, <1>5, <1>6, <1>7, FindMethodKeeps, CallKeeps DEF Next

(* While the program loses no class that it called a method of: a call     *)
(* runs the method that a search of the classes as they are now would      *)
(* find, whatever was defined, included or prepended since the cache was   *)
(* filled, and whatever a collection freed.                                *)
THEOREM CachesAgree ==
  ASSUME ~Anonymous
  PROVE  Spec => []CachesTransparent
<1>1. CachesInv => CachesTransparent
  <2> SUFFICES ASSUME CachesInv PROVE CachesTransparent
    OBVIOUS
  <2>1. TypeOK
    BY DEF CachesInv, Classes, Graph, Tables, Cached, Entry, Inline, TypeOK, Used
  <2>2. \A c \in held, n \in Name : Found(c, n) = Resolve(c, n)
    BY FoundTrue
  <2>3. ASSUME NEW c \in held, NEW s \in Site PROVE Called(s, c) = Resolve(c, NameOf[s])
    <3>1. NameOf[s] \in Name /\ version \in Versions /\ InlineTrue(icache[s], s)
      BY MethodCacheAssumption DEF CachesInv, Tables, Cached
    <3> QED BY <2>2, <3>1, Numbers DEF Called, InlineHit, Current, InlineTrue
  <2> QED BY <2>1, <2>2, <2>3 DEF CachesTransparent
<1> QED BY <1>1, CachesInit, CachesNext, PTL DEF Spec

=============================================================================
