--------------------------- MODULE ConstantsProofs ---------------------------
(***************************************************************************)
(* The constants that references find, for any files and classes and any   *)
(* nesting of code: a current cache entry holds what a search would find,  *)
(* a search finds Ruby's constant, and require repeats no program.         *)
(***************************************************************************)
EXTENDS Constants, SequenceFacts, FiniteSetTheorems, TLAPS

Word == Files \cup {"main", "A", "M", "f", "block", "eval"}
Text == {c \in Seq(Word) : Len(c) > 0}
Frames == [kind : {"file", "class", "method", "block", "eval"}, code : Text, iseq : Text,
           scope : Seq(Modules), plain : BOOLEAN]
Opened == {"Object", "Mixin"} \cup Made
IsEval(c) == Len(c) > 1 /\ c[Len(c)] = "eval"

(* Of the constants A and M, A is a class that was made, and M is Mixin.   *)
TablesOK ==
    /\ DOMAIN const_table = Modules
    /\ \A c \in Modules : /\ DOMAIN const_table[c] = Names
                          /\ const_table[c]["A"] \in Made \cup {Absent}
                          /\ const_table[c]["M"] \in {"Mixin", Absent}

(* No way upwards leads back to where it began.                            *)
HierarchyOK ==
    /\ Made \subseteq Classes /\ \A c \in Made : superclass[c] \in {"Object"} \cup Made
    /\ \A S \in SUBSET Made : S # {} => \E c \in S : superclass[c] \notin S
    /\ mixed \subseteq Modules

----------------------------------------------------------------------------
(* Each place in the text has its classes: B[c], for every place c that    *)
(* was met since the program of its file began.  They are those of the     *)
(* code around it, and in the body of a class that class.                  *)
Kept == methods \cup ToSet(stack)
Extended(b, n, table) == IF n \in {"A", "M"} THEN Append(b, table[Last(b)][n]) ELSE b
Follows(B, table) ==
    /\ DOMAIN B \subseteq Text /\ B \in [DOMAIN B -> Seq(Modules) \ {<<>>}]
    /\ \A c \in Text, n \in Word : Append(c, n) \in DOMAIN B =>
          /\ c \in DOMAIN B
          /\ n \in {"A", "M"} => table[Last(B[c])][n] # Absent
          /\ B[Append(c, n)] = Extended(B[c], n, table)
Known(B) ==
    /\ Follows(B, const_table)
    /\ \A c \in DOMAIN B : \E f \in Kept : f.code[1] = c[1]

(* The classes b of a place are Object and those of the text around it.    *)
Around(b, scope) == Len(b) = Len(scope) + 1 /\ b[1] = "Object" /\ \A k \in 1 .. Len(scope) : b[k + 1] = scope[k]

FrameOK(B, f) ==
    /\ f \in Frames
    /\ f.code \in DOMAIN B /\ f.iseq \in DOMAIN B \cap DOMAIN class_defined
    /\ B[f.code] = B[f.iseq] /\ f.code[1] = f.iseq[1]
    /\ f.kind \notin {"block", "eval"} => f.iseq = f.code
    /\ f.kind = "eval" <=> IsEval(f.code)
    /\ f.kind # "eval" /\ f.plain => Around(B[f.iseq], f.scope)
MethodsOK(B) == \A f \in methods : f.kind = "method" /\ FrameOK(B, f)

(* The classes of the context are those that the code in progress has      *)
(* pushed: the text of a file and of a class is in all of them.  While     *)
(* they are in progress, the code of their file further out is around them.*)
Pushing(s, i) == {j \in 1 .. i : Pushes(s[j].kind)}
Height(s, i) == 1 + Cardinality(Pushing(s, i))
EvalsOf(s, c, i) == {j \in 1 .. i : s[j].kind = "eval" /\ s[j].iseq = c}
Opens(B, f, h) ==
    /\ Len(B[f.code]) = h
    /\ \A k \in 1 .. h : B[f.code][k] = class_context[k]
OuterOK(s, f, i) ==
    \A j \in 1 .. i - 1 : s[j].code[1] = f.code[1] =>
        s[j].kind \in {"file", "class"} /\ Len(s[j].code) < Len(f.code)
Evaluates(B, f, h, n) ==
    \E t \in Seq(Modules) :
        LET x == class_context[h]
        IN  /\ f.scope = Append(t, x)
            /\ f.plain => Around(B[f.iseq], t)
            /\ class_defined[f.iseq][Len(B[f.iseq]) + n] = x
FrameAt(B, i) ==
    LET f == stack[i]
    IN  /\ FrameOK(B, f)
        /\ f.kind \in {"file", "class"} => Opens(B, f, Height(stack, i)) /\ OuterOK(stack, f, i)
        /\ f.kind = "eval" => Evaluates(B, f, Height(stack, i), Cardinality(EvalsOf(stack, f.iseq, i)))
StackOK(B) ==
    /\ stack \in Seq(Frames) /\ stack # <<>>
    /\ class_context \in Seq(Opened) /\ Len(class_context) = Height(stack, Len(stack))
    /\ \A i \in 1 .. Len(stack) : FrameAt(B, i)

(* A method has the classes of its text, and of the strings it evaluates.  *)
DefinedOK(B) ==
    \A c \in DOMAIN class_defined :
        LET d == class_defined[c]
        IN  /\ c \in DOMAIN B /\ d \in Seq(Modules)
            /\ Len(d) = Len(B[c]) + Cardinality(EvalsOf(stack, c, Len(stack)))
            /\ \A k \in 1 .. Len(B[c]) : d[k] = B[c][k]

(* An entry is what a search from its place finds.                         *)
SearchedIn(d, c) ==
    LET v == InFirst(IF Len(d) = 1 THEN d ELSE Reverse(Tail(d)), "X")
    IN  IF v # Absent THEN v ELSE GetSuperConst(c, "X")
CacheOK(B) ==
    \A c \in DOMAIN cache :
        LET e == cache[c]
        IN  /\ c \in DOMAIN B /\ ~IsEval(c) /\ e.mixed \subseteq mixed
            /\ ~e.evaluating /\ e.mixed = mixed => e.val = SearchedIn(B[c], e.under)

Whole(B) == Known(B) /\ MethodsOK(B) /\ StackOK(B) /\ DefinedOK(B) /\ CacheOK(B)
CInv == TablesOK /\ HierarchyOK /\ \E B : Whole(B)

----------------------------------------------------------------------------
(* Lists and sets of positions *)

(* Positions up to i, and from there to j.                                 *)
LEMMA Positions ==
  ASSUME NEW i \in Nat, NEW j \in Nat, NEW S \in SUBSET (1 .. i), NEW T \in SUBSET (i + 1 .. j)
  PROVE  /\ Cardinality(S) \in Nat /\ Cardinality(T) \in Nat
         /\ Cardinality(S \cup T) = Cardinality(S) + Cardinality(T)
         /\ j = i + 1 => Cardinality(T) = IF j \in T THEN 1 ELSE 0
<1>1. IsFiniteSet(1 .. i) /\ IsFiniteSet(i + 1 .. j)
  BY FS_Interval
<1>2. IsFiniteSet(S) /\ IsFiniteSet(T)
  BY <1>1, FS_Subset
<1>3. S \cap T = {} /\ (j = i + 1 => T = IF j \in T THEN {j} ELSE {})
  <2>1. (\A n \in S : n <= i /\ n \in Nat) /\ \A n \in T : n \in i + 1 .. j
    OBVIOUS
  <2>2. \A n \in S : n \notin T
    BY <2>1
  <2>3. j = i + 1 => \A n \in T : n = j
    BY <2>1
  <2> QED BY <2>2, <2>3
<1>4. Cardinality(S \cup T) = Cardinality(S) + Cardinality(T) - Cardinality({})
  <2>1. Cardinality(S \cup T) = Cardinality(S) + Cardinality(T) - Cardinality(S \cap T)
    BY <1>2, FS_Union, Zenon
  <2>2. S \cap T = {}
    BY <1>3
  <2> QED BY <2>1, <2>2, Zenon
<1>5. Cardinality(S) \in Nat /\ Cardinality(T) \in Nat /\ Cardinality({}) = 0 /\ Cardinality({j}) = 1
  BY <1>2, FS_CardinalityType, FS_EmptySet, FS_Singleton
<1>6. Cardinality(S \cup T) = Cardinality(S) + Cardinality(T)
  BY <1>4, <1>5
<1> QED BY <1>3, <1>5, <1>6

(* The height of the context, and the strings that a method evaluates.     *)
LEMMA Heights ==
  ASSUME NEW s, NEW i \in Nat, NEW j \in Nat, i <= j
  PROVE  LET between == Cardinality({n \in i + 1 .. j : Pushes(s[n].kind)})
         IN  /\ Height(s, i) \in Nat \ {0} /\ between \in Nat
             /\ Height(s, j) = Height(s, i) + between
             /\ Height(s, i) <= Height(s, j)
             /\ j = i + 1 => Height(s, j) = Height(s, i) + (IF Pushes(s[j].kind) THEN 1 ELSE 0)
<1> DEFINE S == Pushing(s, i)
           T == {n \in i + 1 .. j : Pushes(s[n].kind)}
<1>1. /\ S \in SUBSET (1 .. i) /\ T \in SUBSET (i + 1 .. j) /\ Pushing(s, j) = S \cup T
      /\ j = i + 1 => (j \in T <=> Pushes(s[j].kind))
  BY DEF Pushing
<1>2. Height(s, i) = 1 + Cardinality(S) /\ Height(s, j) = 1 + Cardinality(S \cup T)
  BY <1>1 DEF Height
<1> HIDE DEF S, T
<1>3. /\ Cardinality(S) \in Nat /\ Cardinality(T) \in Nat
      /\ Cardinality(S \cup T) = Cardinality(S) + Cardinality(T)
      /\ j = i + 1 => Cardinality(T) = IF j \in T THEN 1 ELSE 0
  BY <1>1, Positions
<1>4. /\ Height(s, i) \in Nat \ {0}
      /\ Height(s, j) = Height(s, i) + Cardinality(T)
      /\ Height(s, i) <= Height(s, j)
  BY <1>2, <1>3
<1>5. j = i + 1 => Height(s, j) = Height(s, i) + (IF Pushes(s[j].kind) THEN 1 ELSE 0)
  BY <1>1, <1>3, <1>4
<1> QED BY <1>3, <1>4, <1>5 DEF T

LEMMA EvalCounts ==
  ASSUME NEW s, NEW c, NEW i \in Nat, NEW j \in Nat, i <= j
  PROVE  LET between == Cardinality({n \in i + 1 .. j : s[n].kind = "eval" /\ s[n].iseq = c})
             upTo(k) == Cardinality(EvalsOf(s, c, k))
         IN  /\ upTo(i) \in Nat /\ between \in Nat
             /\ upTo(j) = upTo(i) + between
             /\ upTo(i) <= upTo(j)
             /\ j = i + 1 /\ s[j].kind = "eval" /\ s[j].iseq = c => upTo(j) = upTo(i) + 1
             /\ j = i + 1 /\ ~(s[j].kind = "eval" /\ s[j].iseq = c) => upTo(j) = upTo(i)
<1> DEFINE S == EvalsOf(s, c, i)
           T == {n \in i + 1 .. j : s[n].kind = "eval" /\ s[n].iseq = c}
<1>1. /\ S \in SUBSET (1 .. i) /\ T \in SUBSET (i + 1 .. j) /\ EvalsOf(s, c, j) = S \cup T
      /\ j = i + 1 => (j \in T <=> s[j].kind = "eval" /\ s[j].iseq = c)
  BY DEF EvalsOf
<1> HIDE DEF S, T
<1>2. /\ Cardinality(S) \in Nat /\ Cardinality(T) \in Nat
      /\ Cardinality(S \cup T) = Cardinality(S) + Cardinality(T)
      /\ j = i + 1 => Cardinality(T) = IF j \in T THEN 1 ELSE 0
  BY <1>1, Positions
<1>3. /\ Cardinality(EvalsOf(s, c, j)) = Cardinality(S) + Cardinality(T)
      /\ Cardinality(S) <= Cardinality(EvalsOf(s, c, j))
      /\ j = i + 1 /\ s[j].kind = "eval" /\ s[j].iseq = c
            => Cardinality(EvalsOf(s, c, j)) = Cardinality(S) + 1
      /\ j = i + 1 /\ ~(s[j].kind = "eval" /\ s[j].iseq = c)
            => Cardinality(EvalsOf(s, c, j)) = Cardinality(S)
  BY <1>1, <1>2
<1> QED BY <1>2, <1>3 DEF S, T

(* One more, and any further ones.                                         *)
LEMMA HeightStep ==
  ASSUME NEW s, NEW i \in Nat
  PROVE  /\ Height(s, i) \in Nat \ {0}
         /\ Height(s, i + 1) = Height(s, i) + (IF Pushes(s[i + 1].kind) THEN 1 ELSE 0)
         /\ \A j \in Nat : i <= j => Height(s, i) <= Height(s, j)
<1>1. i + 1 \in Nat /\ i <= i + 1
  OBVIOUS
<1>2. ASSUME NEW j \in Nat, i <= j PROVE Height(s, i) <= Height(s, j)
  BY <1>2, Heights
<1>3. /\ Height(s, i) \in Nat \ {0}
      /\ Height(s, i + 1) = Height(s, i) + (IF Pushes(s[i + 1].kind) THEN 1 ELSE 0)
  <2>1. PICK j \in Nat : j = i + 1 /\ i <= j
    BY <1>1
  <2>2. /\ Height(s, i) \in Nat \ {0}
        /\ Height(s, j) = Height(s, i) + (IF Pushes(s[j].kind) THEN 1 ELSE 0)
    BY <2>1, Heights, ZenonT(60)
  <2> QED BY <2>1, <2>2
<1> QED BY <1>2, <1>3

LEMMA EvalStep ==
  ASSUME NEW s, NEW c, NEW i \in Nat
  PROVE  LET n(k) == Cardinality(EvalsOf(s, c, k))
         IN  /\ n(i) \in Nat
             /\ n(i + 1) = n(i) + (IF s[i + 1].kind = "eval" /\ s[i + 1].iseq = c THEN 1 ELSE 0)
             /\ \A j \in Nat : i <= j => n(i) <= n(j)
<1>1. i + 1 \in Nat /\ i <= i + 1
  OBVIOUS
<1>2. ASSUME NEW j \in Nat, i <= j PROVE Cardinality(EvalsOf(s, c, i)) <= Cardinality(EvalsOf(s, c, j))
  BY <1>2, EvalCounts
<1>3. /\ Cardinality(EvalsOf(s, c, i)) \in Nat
      /\ Cardinality(EvalsOf(s, c, i + 1))
          = Cardinality(EvalsOf(s, c, i)) + (IF s[i + 1].kind = "eval" /\ s[i + 1].iseq = c THEN 1 ELSE 0)
  <2> DEFINE S == EvalsOf(s, c, i)
             Is == s[i + 1].kind = "eval" /\ s[i + 1].iseq = c
  <2>1. IsFiniteSet(1 .. i) /\ S \subseteq 1 .. i
    BY FS_Interval DEF EvalsOf
  <2>2. IsFiniteSet(S)
    BY <2>1, FS_Subset
  <2>3. i + 1 \notin S
    BY <2>1
  <2>4. EvalsOf(s, c, i + 1) = IF Is THEN S \cup {i + 1} ELSE S
    BY DEF EvalsOf
  <2> HIDE DEF S, Is
  <2>5. Cardinality(S) \in Nat /\ Cardinality(S \cup {i + 1}) = Cardinality(S) + 1
    BY <2>2, <2>3, FS_CardinalityType, FS_AddElement
  <2>6. Cardinality(EvalsOf(s, c, i + 1)) = Cardinality(S) + (IF Is THEN 1 ELSE 0)
    BY <2>4, <2>5
  <2> QED BY <2>5, <2>6 DEF S, Is
<1> QED BY <1>2, <1>3

(* A place within another one.                                             *)
LEMMA Places ==
  ASSUME NEW c \in Text, NEW n \in Word
  PROVE  /\ Append(c, n) \in Text /\ Append(c, n)[1] = c[1]
         /\ Len(c) \in Nat \ {0} /\ Len(Append(c, n)) = Len(c) + 1
         /\ Append(c, n)[Len(c) + 1] = n
         /\ IsEval(Append(c, n)) <=> n = "eval"
         /\ \A d \in Text, m \in Word : Append(c, n) = Append(d, m) => c = d /\ n = m
<1>1. c \in Seq(Word) /\ Len(c) \in Nat \ {0}
  BY DEF Text
<1>2. /\ Append(c, n) \in Seq(Word) /\ Len(Append(c, n)) = Len(c) + 1 /\ Append(c, n)[Len(c) + 1] = n
      /\ \A k \in 1 .. Len(c) : Append(c, n)[k] = c[k]
  BY <1>1, AppendFacts
<1>3. ASSUME NEW d \in Text, NEW m \in Word, Append(c, n) = Append(d, m)
      PROVE  c = d /\ n = m
  <2>1. d \in Seq(Word) /\ Len(d) \in Nat
    BY DEF Text
  <2>2. /\ Len(Append(d, m)) = Len(d) + 1 /\ Append(d, m)[Len(d) + 1] = m
        /\ \A k \in 1 .. Len(d) : Append(d, m)[k] = d[k]
    BY <2>1, AppendFacts
  <2>3. Len(c) = Len(d)
    BY <1>1, <1>2, <1>3, <2>1, <2>2
  <2>4. n = m /\ \A k \in 1 .. Len(c) : c[k] = d[k]
    BY <1>2, <1>3, <2>2, <2>3
  <2> QED BY <1>1, <2>1, <2>3, <2>4, SeqEqual
<1>4. IsEval(Append(c, n)) <=> n = "eval"
  BY <1>1, <1>2 DEF IsEval
<1>5. Append(c, n) \in Text /\ Append(c, n)[1] = c[1]
  BY <1>1, <1>2 DEF Text
<1> QED BY <1>1, <1>2, <1>3, <1>4, <1>5

----------------------------------------------------------------------------
(* More places *)

Extends(B, C) == DOMAIN B \subseteq DOMAIN C /\ \A c \in DOMAIN B : C[c] = B[c]

LEMMA LastModule ==
  ASSUME NEW b \in Seq(Modules) \ {<<>>}
  PROVE  /\ Len(b) \in Nat \ {0} /\ Last(b) \in Modules /\ Last(b) = b[Len(b)]
         /\ \A x \in Modules : Append(b, x) \in Seq(Modules) \ {<<>>}
<1>1. Len(b) \in Nat \ {0} /\ Last(b) \in Modules /\ Last(b) = b[Len(b)]
  BY FrontFacts
<1>2. ASSUME NEW x \in Modules PROVE Append(b, x) \in Seq(Modules) \ {<<>>}
  <2>1. Append(b, x) \in Seq(Modules) /\ Len(Append(b, x)) = Len(b) + 1
    BY AppendFacts
  <2> QED BY <1>1, <2>1
<1> QED BY <1>1, <1>2

(* A place within a known one, which may be known already.                 *)
Adds(C, B, p, v, table) ==
    Follows(C, table) /\ Extends(B, C) /\ DOMAIN C = DOMAIN B \cup {p} /\ C[p] = v

LEMMA KnownMore ==
  ASSUME NEW B, NEW table, Follows(B, table), NEW c \in DOMAIN B, NEW n \in Word,
         n \in {"A", "M"} => table[Last(B[c])][n] \in Modules \ {Absent}
  PROVE  \E C : Adds(C, B, Append(c, n), Extended(B[c], n, table), table)
<1> DEFINE d == Append(c, n)
           v == Extended(B[c], n, table)
<1>1. /\ DOMAIN B \subseteq Text /\ B \in [DOMAIN B -> Seq(Modules) \ {<<>>}]
      /\ c \in Text /\ B[c] \in Seq(Modules) \ {<<>>}
  BY DEF Follows
<1>2. d \in Text /\ \A e \in Text, m \in Word : d = Append(e, m) => c = e /\ n = m
  BY <1>1, Places
<1>3. v \in Seq(Modules) \ {<<>>}
  BY <1>1, LastModule DEF Extended
<1>4. CASE d \in DOMAIN B
  <2>1. B[d] = v
    BY <1>1, <1>4 DEF Follows
  <2> QED BY <1>4, <2>1 DEF Extends, Adds
<1>5. CASE d \notin DOMAIN B
  <2> DEFINE C == [e \in DOMAIN B \cup {d} |-> IF e = d THEN v ELSE B[e]]
  <2> HIDE DEF d, v
  <2>1. /\ DOMAIN C = DOMAIN B \cup {d} /\ C[d] = v /\ (\A e \in DOMAIN B : C[e] = B[e])
        /\ C \in [DOMAIN C -> Seq(Modules) \ {<<>>}]
    BY <1>1, <1>3, <1>5
  <2> HIDE DEF C
  <2>2. ASSUME NEW e \in Text, NEW m \in Word, Append(e, m) \in DOMAIN C
        PROVE  /\ e \in DOMAIN C
               /\ m \in {"A", "M"} => table[Last(C[e])][m] # Absent
               /\ C[Append(e, m)] = Extended(C[e], m, table)
    <3>1. CASE Append(e, m) = d
      <4>1. e = c /\ m = n
        BY <1>2, <3>1
      <4> QED BY <2>1, <3>1, <4>1 DEF v
    <3>2. CASE Append(e, m) # d
      <4>1. Append(e, m) \in DOMAIN B
        BY <2>1, <2>2, <3>2
      <4>2. /\ e \in DOMAIN B
            /\ m \in {"A", "M"} => table[Last(B[e])][m] # Absent
            /\ B[Append(e, m)] = Extended(B[e], m, table)
        BY <4>1 DEF Follows
      <4> QED BY <2>1, <4>1, <4>2
    <3> QED BY <3>1, <3>2
  <2>3. Follows(C, table)
    BY <1>1, <1>2, <2>1, <2>2 DEF Follows
  <2>4. Adds(C, B, d, v, table)
    BY <2>1, <2>3 DEF Extends, Adds
  <2> QED BY <2>4 DEF d, v
<1> QED BY <1>4, <1>5

(* Constants that are new were not those of a known place.                 *)
LEMMA KnownSame ==
  ASSUME NEW B, NEW table, Follows(B, table), NEW new,
         \A m \in Modules, n \in {"A", "M"} : table[m][n] # Absent => new[m][n] = table[m][n]
  PROVE  Follows(B, new)
<1>1. ASSUME NEW c \in Text, NEW n \in Word, Append(c, n) \in DOMAIN B
      PROVE  /\ c \in DOMAIN B
             /\ n \in {"A", "M"} => new[Last(B[c])][n] # Absent
             /\ B[Append(c, n)] = Extended(B[c], n, new)
  <2>1. /\ c \in DOMAIN B
        /\ n \in {"A", "M"} => table[Last(B[c])][n] # Absent
        /\ B[Append(c, n)] = Extended(B[c], n, table)
    BY <1>1 DEF Follows
  <2>2. Last(B[c]) \in Modules
    BY <2>1, LastModule DEF Follows
  <2> QED BY <2>1, <2>2 DEF Extended
<1> QED BY <1>1 DEF Follows

(* Without some files.                                                     *)
LEMMA KnownLess ==
  ASSUME NEW B, NEW table, Follows(B, table), NEW S
  PROVE  Follows([c \in {d \in DOMAIN B : d[1] \in S} |-> B[c]], table)
<1> DEFINE T == {d \in DOMAIN B : d[1] \in S}
           C == [c \in T |-> B[c]]
<1>1. DOMAIN C = T /\ T \subseteq DOMAIN B /\ \A c \in T : C[c] = B[c]
  OBVIOUS
<1>2. \A c \in DOMAIN B : c \in T <=> c[1] \in S
  OBVIOUS
<1>3. C \in [DOMAIN C -> Seq(Modules) \ {<<>>}] /\ DOMAIN C \subseteq Text
  BY DEF Follows
<1> HIDE DEF C, T
<1>4. ASSUME NEW c \in Text, NEW n \in Word, Append(c, n) \in DOMAIN C
      PROVE  /\ c \in DOMAIN C
             /\ n \in {"A", "M"} => table[Last(C[c])][n] # Absent
             /\ C[Append(c, n)] = Extended(C[c], n, table)
  <2>1. Append(c, n) \in DOMAIN B /\ Append(c, n)[1] \in S /\ Append(c, n)[1] = c[1]
    BY <1>1, <1>2, <1>4, Places
  <2>2. /\ c \in DOMAIN B
        /\ n \in {"A", "M"} => table[Last(B[c])][n] # Absent
        /\ B[Append(c, n)] = Extended(B[c], n, table)
    BY <2>1 DEF Follows
  <2>3. c \in T
    BY <1>2, <2>1, <2>2
  <2> QED BY <1>1, <1>4, <2>2, <2>3
<1>5. Follows(C, table)
  BY <1>3, <1>4 DEF Follows
<1> QED BY <1>5 DEF C, T

----------------------------------------------------------------------------
(* Code is entered *)

(* The code in progress, for short.                                        *)
LEMMA TopFacts ==
  ASSUME NEW B, StackOK(B)
  PROVE  /\ Len(stack) \in Nat \ {0} /\ Top = stack[Len(stack)] /\ Top \in Frames /\ FrameOK(B, Top)
         /\ Len(class_context) \in Nat \ {0} /\ Class \in Opened /\ Class = class_context[Len(class_context)]
         /\ Len(class_context) = Height(stack, Len(stack))
         /\ class_context \in Seq(Opened) \ {<<>>}
<1>1. stack \in Seq(Frames) /\ stack # <<>>
  BY DEF StackOK
<1>2. Len(stack) \in Nat \ {0} /\ Top = stack[Len(stack)] /\ Top \in Frames
  BY <1>1, FrontFacts DEF Top
<1>3. FrameOK(B, Top)
  BY <1>2 DEF StackOK, FrameAt
<1>4. Len(stack) \in Nat /\ Len(stack) <= Len(stack)
  BY <1>2
<1>5. Height(stack, Len(stack)) \in Nat \ {0}
  BY <1>4, Heights
<1>6. /\ class_context \in Seq(Opened) /\ Len(class_context) \in Nat \ {0}
      /\ Len(class_context) = Height(stack, Len(stack))
  BY <1>5 DEF StackOK
<1>7. class_context # <<>>
  BY <1>6
<1>8. Class \in Opened /\ Class = class_context[Len(class_context)]
  BY <1>6, <1>7, FrontFacts DEF Class
<1> QED BY <1>2, <1>3, <1>6, <1>7, <1>8

(* While the text of a file or of a class is run, no string is evaluated   *)
(* in a method of the same file.                                           *)
LEMMA NoEvals ==
  ASSUME NEW B, StackOK(B), Top.kind \in {"file", "class"}, NEW c, c[1] = Top.code[1]
  PROVE  EvalsOf(stack, c, Len(stack)) = {}
<1>1. Len(stack) \in Nat \ {0} /\ Top = stack[Len(stack)]
  BY TopFacts
<1>2. OuterOK(stack, Top, Len(stack))
  BY <1>1 DEF StackOK, FrameAt
<1>3. ASSUME NEW j \in 1 .. Len(stack), stack[j].kind = "eval", stack[j].iseq = c
      PROVE  FALSE
  <2>1. stack[j].code[1] = Top.code[1]
    BY <1>3 DEF StackOK, FrameAt, FrameOK
  <2>2. CASE j = Len(stack)
    BY <1>1, <1>3, <2>2
  <2>3. CASE j # Len(stack)
    BY <1>1, <1>2, <1>3, <2>1, <2>3 DEF OuterOK
  <2> QED BY <2>2, <2>3
<1> QED BY <1>3 DEF EvalsOf

LEMMA FrameMore ==
  ASSUME NEW B, NEW C, Extends(B, C), NEW f, FrameOK(B, f), DOMAIN class_defined \subseteq DOMAIN class_defined'
  PROVE  FrameOK(C, f)'
  BY DEF FrameOK, Extends

(* The place that an evaluated string has among the classes of its method. *)
LEMMA EvalPlace ==
  ASSUME NEW B, DefinedOK(B), Follows(B, const_table), stack \in Seq(Frames),
         NEW i \in 1 .. Len(stack), NEW g, g = stack[i], FrameOK(B, g), g.kind = "eval",
         NEW m, m = Cardinality(EvalsOf(stack, g.iseq, i))
  PROVE  /\ EvalsOf(stack, g.iseq, Len(stack)) # {} /\ g.iseq \in DOMAIN class_defined
         /\ m \in Nat \ {0} /\ m <= Cardinality(EvalsOf(stack, g.iseq, Len(stack)))
         /\ Len(B[g.iseq]) + m \in 1 .. Len(class_defined[g.iseq])
<1> DEFINE n == Len(stack)
<1>1. i \in Nat /\ n \in Nat /\ i <= n
  OBVIOUS
<1>2. /\ Cardinality(EvalsOf(stack, g.iseq, i)) = Cardinality(EvalsOf(stack, g.iseq, i - 1)) + 1
      /\ Cardinality(EvalsOf(stack, g.iseq, i - 1)) \in Nat
  <2>1. PICK k \in Nat : k + 1 = i /\ k = i - 1
    BY <1>1
  <2>2. Cardinality(EvalsOf(stack, g.iseq, k)) \in Nat
    BY EvalStep
  <2>3. Cardinality(EvalsOf(stack, g.iseq, k + 1)) = Cardinality(EvalsOf(stack, g.iseq, k))
          + (IF stack[k + 1].kind = "eval" /\ stack[k + 1].iseq = g.iseq THEN 1 ELSE 0)
    BY EvalStep, ZenonT(60)
  <2> QED BY <2>1, <2>2, <2>3
<1>3. Cardinality(EvalsOf(stack, g.iseq, i)) <= Cardinality(EvalsOf(stack, g.iseq, n))
  BY <1>1, EvalStep
<1>4. i \in EvalsOf(stack, g.iseq, n)
  BY <1>1 DEF EvalsOf
<1>5. g.iseq \in DOMAIN class_defined /\ B[g.iseq] \in Seq(Modules) \ {<<>>}
  BY DEF FrameOK, Follows
<1>6. Len(class_defined[g.iseq]) = Len(B[g.iseq]) + Cardinality(EvalsOf(stack, g.iseq, n))
  BY <1>5 DEF DefinedOK
<1>7. Cardinality(EvalsOf(stack, g.iseq, n)) \in Nat
  BY <1>1, EvalStep
<1>8. Len(B[g.iseq]) \in Nat
  BY <1>5
<1> QED BY <1>2, <1>3, <1>4, <1>5, <1>6, <1>7, <1>8

(* A piece of code in progress while what it depends on stays.             *)
LEMMA FrameStays ==
  ASSUME NEW B, NEW C, NEW i \in Nat \ {0}, FrameAt(B, i),
         \A j \in 1 .. i : stack'[j] = stack[j],
         Height(stack, i) \in Nat, \A j \in 1 .. Height(stack, i) : class_context'[j] = class_context[j],
         NEW g, g = stack[i], FrameOK(C, g)', C[g.code] = B[g.code], C[g.iseq] = B[g.iseq],
         NEW m, m = Cardinality(EvalsOf(stack, g.iseq, i)),
         g.kind = "eval" => class_defined'[g.iseq][Len(B[g.iseq]) + m] = class_defined[g.iseq][Len(B[g.iseq]) + m]
  PROVE  FrameAt(C, i)'
<1>1. PICK e : e = Height(stack, i)
  OBVIOUS
<1>2. e = Height(stack', i) /\ e \in Nat \ {0} /\ (\A c : EvalsOf(stack', c, i) = EvalsOf(stack, c, i)) /\ g = stack'[i]
  <2>1. Pushing(stack', i) = Pushing(stack, i)
    BY DEF Pushing
  <2>2. ASSUME NEW c PROVE EvalsOf(stack', c, i) = EvalsOf(stack, c, i)
    BY DEF EvalsOf
  <2>3. Height(stack, i) \in Nat \ {0}
    BY HeightStep
  <2> QED BY <1>1, <2>1, <2>2, <2>3 DEF Height
<1>3. /\ g.kind \in {"file", "class"} => Opens(B, g, e) /\ OuterOK(stack, g, i)
      /\ g.kind = "eval" => Evaluates(B, g, e, m)
  BY <1>1 DEF FrameAt
<1>4. ASSUME g.kind \in {"file", "class"} PROVE Opens(C, g, e)' /\ OuterOK(stack', g, i)
  <2>1. Opens(C, g, e)'
    BY <1>1, <1>2, <1>3, <1>4 DEF Opens
  <2>2. OuterOK(stack', g, i)
    BY <1>2, <1>3, <1>4 DEF OuterOK
  <2> QED BY <2>1, <2>2
<1>5. ASSUME g.kind = "eval" PROVE Evaluates(C, g, e, m)'
  <2>1. PICK t \in Seq(Modules) :
            /\ g.scope = Append(t, class_context[e]) /\ (g.plain => Around(B[g.iseq], t))
            /\ class_defined[g.iseq][Len(B[g.iseq]) + m] = class_context[e]
    BY <1>3, <1>5 DEF Evaluates
  <2>2. class_context'[e] = class_context[e]
    BY <1>1, <1>2
  <2>3. class_defined'[g.iseq][Len(C[g.iseq]) + m] = class_context'[e]
    BY <1>5, <2>1, <2>2
  <2> QED BY <2>1, <2>2, <2>3 DEF Evaluates
<1> QED BY <1>2, <1>4, <1>5 DEF FrameAt

(* One more piece of code in progress, of a class x if it pushes one.       *)
Entering(C, f, x) ==
    /\ f \in Frames /\ FrameOK(C, f)'
    /\ x \in Modules \cap Opened' /\ Opened \subseteq Opened'
    /\ stack' = Append(stack, f)
    /\ class_context' = IF Pushes(f.kind) THEN Append(class_context, x) ELSE class_context
    /\ f.kind \in {"file", "class"} => C[f.code] = class_context' /\ OuterOK(stack, f, Len(stack) + 1)
    /\ f.kind = "eval" =>
          /\ class_defined'[f.iseq] = Append(class_defined[f.iseq], x) /\ f.iseq \in DOMAIN class_defined
          /\ \E t \in Seq(Modules) : f.scope = Append(t, x) /\ (f.plain => Around(C[f.iseq], t))
    /\ \A c \in DOMAIN class_defined :
          /\ c \in DOMAIN class_defined'
          /\ EvalsOf(stack, c, Len(stack)) # {} =>
                \A k \in 1 .. Len(class_defined[c]) : class_defined'[c][k] = class_defined[c][k]

LEMMA EnterStack ==
  ASSUME NEW B, StackOK(B), DefinedOK(B), Follows(B, const_table), NEW C, Extends(B, C), NEW f, NEW x, Entering(C, f, x)
  PROVE  StackOK(C)'
<1> DEFINE n == Len(stack)
           h == Len(class_context)
<1>1. /\ n \in Nat \ {0} /\ h \in Nat \ {0} /\ h = Height(stack, n) /\ stack \in Seq(Frames)
      /\ class_context \in Seq(Opened)
  <2>1. n \in Nat \ {0} /\ h \in Nat \ {0} /\ h = Height(stack, n)
    BY TopFacts
  <2> QED BY <2>1 DEF StackOK
<1>12. /\ f \in Frames /\ stack' = Append(stack, f) /\ x \in Modules \cap Opened' /\ Opened \subseteq Opened'
       /\ class_context' = IF Pushes(f.kind) THEN Append(class_context, x) ELSE class_context
  BY DEF Entering
<1>2. /\ stack' \in Seq(Frames) /\ Len(stack') = n + 1 /\ stack'[n + 1] = f
      /\ \A k \in 1 .. n : stack'[k] = stack[k]
  BY <1>1, <1>12, AppendFacts
<1>3. stack' # <<>>
  BY <1>1, <1>2
<1>4. /\ class_context' \in Seq(Opened')
      /\ Len(class_context') = h + (IF Pushes(f.kind) THEN 1 ELSE 0)
      /\ \A k \in 1 .. h : class_context'[k] = class_context[k]
      /\ Pushes(f.kind) => class_context'[h + 1] = x
  <2>1. class_context \in Seq(Opened')
    BY <1>1, <1>12
  <2>2. CASE Pushes(f.kind)
    BY <1>1, <1>12, <2>1, <2>2, AppendFacts
  <2>3. CASE ~Pushes(f.kind)
    BY <1>1, <1>12, <2>1, <2>3
  <2> QED BY <2>2, <2>3
<1>5. ASSUME NEW i \in 0 .. n
      PROVE  /\ Height(stack', i) = Height(stack, i) /\ Height(stack, i) \in Nat \ {0} /\ Height(stack, i) <= h
             /\ \A c : EvalsOf(stack', c, i) = EvalsOf(stack, c, i)
  <2>1. i \in Nat /\ n \in Nat /\ i <= n
    BY <1>1
  <2>2. Height(stack', i) = Height(stack, i) /\ \A c : EvalsOf(stack', c, i) = EvalsOf(stack, c, i)
    <3>1. \A k \in 1 .. i : stack'[k] = stack[k]
      BY <1>2, <2>1
    <3>2. Pushing(stack', i) = Pushing(stack, i)
      BY <3>1 DEF Pushing
    <3>3. ASSUME NEW c PROVE EvalsOf(stack', c, i) = EvalsOf(stack, c, i)
      BY <3>1 DEF EvalsOf
    <3> QED BY <3>2, <3>3 DEF Height
  <2>3. Height(stack, i) <= Height(stack, n) /\ Height(stack, i) \in Nat \ {0}
    BY <2>1, HeightStep
  <2> QED BY <1>1, <2>2, <2>3
<1>6. Height(stack', n + 1) = Len(class_context')
  <2>1. n \in Nat /\ n \in 0 .. n
    BY <1>1
  <2>2. Height(stack', n + 1) = Height(stack', n) + (IF Pushes(stack'[n + 1].kind) THEN 1 ELSE 0)
    BY <2>1, HeightStep
  <2> QED BY <1>1, <1>2, <1>4, <1>5, <2>1, <2>2
<1>7. ASSUME NEW i \in 1 .. n
      PROVE  FrameAt(C, i)'
  <2>1. PICK g, m : g = stack[i] /\ m = Cardinality(EvalsOf(stack, g.iseq, i))
    OBVIOUS
  <2>2. FrameAt(B, i) /\ FrameOK(B, g)
    BY <2>1 DEF StackOK, FrameAt
  <2>3. FrameOK(C, g)' /\ C[g.code] = B[g.code] /\ C[g.iseq] = B[g.iseq]
    <3>1. DOMAIN class_defined \subseteq DOMAIN class_defined'
      BY DEF Entering
    <3> QED BY <2>2, <3>1, FrameMore DEF FrameOK, Extends
  <2>4. g.kind = "eval" => class_defined'[g.iseq][Len(B[g.iseq]) + m] = class_defined[g.iseq][Len(B[g.iseq]) + m]
    <3>1. SUFFICES ASSUME g.kind = "eval"
                   PROVE  class_defined'[g.iseq][Len(B[g.iseq]) + m] = class_defined[g.iseq][Len(B[g.iseq]) + m]
      OBVIOUS
    <3>2. /\ EvalsOf(stack, g.iseq, n) # {} /\ g.iseq \in DOMAIN class_defined
          /\ Len(B[g.iseq]) + m \in 1 .. Len(class_defined[g.iseq])
      BY <1>1, <2>1, <2>2, <3>1, EvalPlace
    <3> QED BY <3>2 DEF Entering
  <2>5. /\ \A k \in 1 .. i : stack'[k] = stack[k]
        /\ Height(stack, i) \in Nat /\ \A k \in 1 .. Height(stack, i) : class_context'[k] = class_context[k]
    BY <1>1, <1>2, <1>4, <1>5
  <2>6. i \in Nat \ {0}
    OBVIOUS
  <2> QED BY <2>1, <2>2, <2>3, <2>4, <2>5, <2>6, FrameStays
<1>8. PICK q : q = n + 1
  OBVIOUS
<1>9. FrameAt(C, q)'
  <2>1. PICK e, m : e = Len(class_context') /\ m = Cardinality(EvalsOf(stack', f.iseq, q))
    OBVIOUS
  <2>2. ASSUME f.kind \in {"file", "class"} PROVE Opens(C, f, e)' /\ OuterOK(stack', f, q)
    <3>1. Opens(C, f, e)'
      <4>1. C[f.code] = class_context'
        BY <2>2 DEF Entering
      <4> QED BY <2>1, <4>1 DEF Opens
    <3>2. OuterOK(stack', f, q)
      <4>1. OuterOK(stack, f, q)
        BY <1>8, <2>2 DEF Entering
      <4> QED BY <1>1, <1>2, <1>8, <4>1 DEF OuterOK
    <3> QED BY <3>1, <3>2
  <2>3. ASSUME f.kind = "eval" PROVE Evaluates(C, f, e, m)'
    <3>1. /\ class_defined'[f.iseq] = Append(class_defined[f.iseq], x) /\ f.iseq \in DOMAIN class_defined
          /\ \E t \in Seq(Modules) : f.scope = Append(t, x) /\ (f.plain => Around(C[f.iseq], t))
      BY <2>3 DEF Entering
    <3>2. /\ f.iseq \in DOMAIN B /\ class_defined[f.iseq] \in Seq(Modules)
          /\ Len(class_defined[f.iseq]) = Len(B[f.iseq]) + Cardinality(EvalsOf(stack, f.iseq, n))
      BY <3>1 DEF DefinedOK
    <3>3. C[f.iseq] = B[f.iseq]
      BY <3>2 DEF Extends
    <3>4. m = Cardinality(EvalsOf(stack, f.iseq, n)) + 1
      <4>1. PICK k \in Nat : k = n /\ k \in 0 .. n
        BY <1>1
      <4>2. Cardinality(EvalsOf(stack', f.iseq, k + 1))
              = Cardinality(EvalsOf(stack', f.iseq, k))
                  + (IF stack'[k + 1].kind = "eval" /\ stack'[k + 1].iseq = f.iseq THEN 1 ELSE 0)
        BY EvalStep
      <4>3. EvalsOf(stack', f.iseq, k) = EvalsOf(stack, f.iseq, k)
        BY <1>5, <4>1
      <4> QED BY <1>2, <1>8, <2>1, <2>3, <4>1, <4>2, <4>3
    <3>5. class_defined'[f.iseq][Len(class_defined[f.iseq]) + 1] = x
      BY <1>12, <3>1, <3>2, AppendFacts
    <3>6. Cardinality(EvalsOf(stack, f.iseq, n)) \in Nat /\ Len(B[f.iseq]) \in Nat
      <4>1. Len(B[f.iseq]) \in Nat
        BY <3>2 DEF Follows
      <4>2. Cardinality(EvalsOf(stack, f.iseq, n)) \in Nat
        <5> HIDE DEF n
        <5> QED BY <1>1, EvalStep
      <4> QED BY <4>1, <4>2
    <3>7. class_defined'[f.iseq][Len(C[f.iseq]) + m] = x
      <4>1. Len(C[f.iseq]) + m = Len(class_defined[f.iseq]) + 1
        BY <3>2, <3>3, <3>4, <3>6
      <4> QED BY <3>5, <4>1
    <3>8. class_context'[e] = x
      BY <1>1, <1>4, <2>1, <2>3 DEF Pushes
    <3> QED BY <3>1, <3>7, <3>8 DEF Evaluates
  <2>4. stack'[q] = f /\ Height(stack', q) = e
    BY <1>2, <1>6, <1>8, <2>1
  <2>5. FrameOK(C, f)'
    BY DEF Entering
  <2> QED BY <2>1, <2>2, <2>3, <2>4, <2>5 DEF FrameAt
<1>10. ASSUME NEW i \in 1 .. n + 1 PROVE FrameAt(C, i)'
  <2>1. CASE i = q
    BY <1>9, <2>1
  <2>2. CASE i # q
    <3>1. i \in 1 .. n
      BY <1>1, <1>8, <2>2
    <3> QED BY <1>7, <3>1
  <2> QED BY <2>1, <2>2
<1>11. \A i \in 1 .. Len(stack') : FrameAt(C, i)'
  BY <1>2, <1>10
<1> QED BY <1>1, <1>2, <1>3, <1>4, <1>6, <1>11 DEF StackOK


(* The strings being evaluated, with one more piece of code.               *)
LEMMA EvalsMore ==
  ASSUME NEW f \in Frames, stack \in Seq(Frames), stack' = Append(stack, f), NEW c
  PROVE  /\ Cardinality(EvalsOf(stack, c, Len(stack))) \in Nat
         /\ Cardinality(EvalsOf(stack', c, Len(stack')))
              = Cardinality(EvalsOf(stack, c, Len(stack))) + (IF f.kind = "eval" /\ f.iseq = c THEN 1 ELSE 0)
<1>1. PICK n \in Nat : n = Len(stack)
  OBVIOUS
<1>2. /\ Len(stack') = n + 1 /\ stack'[n + 1] = f
      /\ \A k \in 1 .. n : stack'[k] = stack[k]
  BY <1>1, AppendFacts
<1>3. EvalsOf(stack', c, n) = EvalsOf(stack, c, n)
  BY <1>2 DEF EvalsOf
<1>4. Cardinality(EvalsOf(stack, c, n)) \in Nat
  BY EvalStep
<1>5. Cardinality(EvalsOf(stack', c, n + 1))
        = Cardinality(EvalsOf(stack', c, n))
            + (IF stack'[n + 1].kind = "eval" /\ stack'[n + 1].iseq = c THEN 1 ELSE 0)
  BY EvalStep, ZenonT(60)
<1> QED BY <1>1, <1>2, <1>3, <1>4, <1>5

Evals(s, c) == Cardinality(EvalsOf(s, c, Len(s)))

(* The classes that code is defined in, when nothing is defined; when      *)
(* something is that is new, or replaces one which evaluates no string.    *)
LEMMA DefinedSame ==
  ASSUME NEW B, NEW C, DefinedOK(B), Extends(B, C), class_defined' = class_defined,
         \A c : Evals(stack', c) = Evals(stack, c)
  PROVE  DefinedOK(C)'
<1>1. ASSUME NEW c \in DOMAIN class_defined
      PROVE  /\ c \in DOMAIN C /\ class_defined[c] \in Seq(Modules)
             /\ Len(class_defined[c]) = Len(C[c]) + Cardinality(EvalsOf(stack', c, Len(stack')))
             /\ \A k \in 1 .. Len(C[c]) : class_defined[c][k] = C[c][k]
  BY DEF DefinedOK, Extends, Evals
<1> QED BY <1>1 DEF DefinedOK

LEMMA DefinedMore ==
  ASSUME NEW B, NEW C, DefinedOK(B), Extends(B, C), NEW p \in DOMAIN C,
         C[p] \in Seq(Modules), class_defined' = With(class_defined, p, C[p]),
         \A c : Evals(stack', c) = Evals(stack, c), Evals(stack, p) = 0
  PROVE  DefinedOK(C)'
<1>1. /\ DOMAIN class_defined' = DOMAIN class_defined \cup {p} /\ class_defined'[p] = C[p]
      /\ \A c \in DOMAIN class_defined : c # p => class_defined'[c] = class_defined[c]
  <2>1. PICK v : v = C[p]
    OBVIOUS
  <2> QED BY <2>1 DEF With
<1>2. ASSUME NEW c \in DOMAIN class_defined'
      PROVE  /\ c \in DOMAIN C /\ class_defined'[c] \in Seq(Modules)
             /\ Len(class_defined'[c]) = Len(C[c]) + Cardinality(EvalsOf(stack', c, Len(stack')))
             /\ \A k \in 1 .. Len(C[c]) : class_defined'[c][k] = C[c][k]
  <2>1. CASE c = p
    <3>1. Cardinality(EvalsOf(stack', p, Len(stack'))) = 0
      BY DEF Evals
    <3>2. Len(C[p]) \in Nat
      OBVIOUS
    <3> QED BY <1>1, <2>1, <3>1, <3>2
  <2>2. CASE c # p
    <3>1. c \in DOMAIN class_defined /\ class_defined'[c] = class_defined[c]
      BY <1>1, <1>2, <2>2
    <3>2. Cardinality(EvalsOf(stack', c, Len(stack'))) = Cardinality(EvalsOf(stack, c, Len(stack)))
      BY DEF Evals
    <3> QED BY <3>1, <3>2 DEF DefinedOK, Extends
  <2> QED BY <2>1, <2>2
<1> QED BY <1>2 DEF DefinedOK

(* What is found from a class when no constant and no class changes.       *)
LEMMA SearchedSame ==
  ASSUME UNCHANGED <<const_table, superclass, mixed>>, NEW d, NEW c
  PROVE  SearchedIn(d, c)' = SearchedIn(d, c)
  BY DEF SearchedIn, InFirst, GetSuperConst, Ancestors, Has, Made

(* The entries, when none is added and no constant changes.                *)
LEMMA CacheSame ==
  ASSUME NEW B, NEW C, CacheOK(B), UNCHANGED <<const_table, superclass>>, mixed \subseteq mixed',
         \A c \in DOMAIN cache' : c \in DOMAIN cache /\ cache'[c] = cache[c] /\ c \in DOMAIN C /\ C[c] = B[c]
  PROVE  CacheOK(C)'
<1>1. ASSUME NEW c \in DOMAIN cache', NEW e, e = cache'[c]
      PROVE  /\ c \in DOMAIN C /\ ~IsEval(c) /\ e.mixed \subseteq mixed'
             /\ ~e.evaluating /\ e.mixed = mixed' => e.val = SearchedIn(C[c], e.under)'
  <2>1. PICK d, u : d = B[c] /\ u = e.under
    OBVIOUS
  <2>2. e = cache[c] /\ d = C[c] /\ c \in DOMAIN C /\ c \in DOMAIN cache
    BY <1>1, <2>1
  <2>3. /\ c \in DOMAIN B /\ ~IsEval(c) /\ e.mixed \subseteq mixed
        /\ ~e.evaluating /\ e.mixed = mixed => e.val = SearchedIn(d, u)
    BY <2>1, <2>2 DEF CacheOK
  <2>4. e.mixed = mixed' => e.mixed = mixed /\ mixed' = mixed
    BY <2>3
  <2>5. mixed' = mixed => SearchedIn(d, u)' = SearchedIn(d, u)
    BY SearchedSame
  <2>6. e.mixed \subseteq mixed'
    BY <2>3
  <2> QED BY <2>1, <2>2, <2>3, <2>4, <2>5, <2>6, Zenon
<1> QED BY <1>1 DEF CacheOK

----------------------------------------------------------------------------
(* The invariant, for the classes B of the places *)

(* The code in progress stays, and so does what it depends on.             *)
LEMMA StackMore ==
  ASSUME NEW B, StackOK(B), DefinedOK(B), Follows(B, const_table), NEW C, Extends(B, C),
         UNCHANGED <<stack, class_context, superclass>>,
         \A c \in DOMAIN class_defined :
            /\ c \in DOMAIN class_defined'
            /\ EvalsOf(stack, c, Len(stack)) # {} => class_defined'[c] = class_defined[c]
  PROVE  StackOK(C)'
<1> DEFINE n == Len(stack)
<1>1. n \in Nat \ {0} /\ stack \in Seq(Frames) /\ Len(class_context) = Height(stack, n)
  <2>1. n \in Nat \ {0}
    BY TopFacts
  <2> QED BY <2>1 DEF StackOK
<1>2. ASSUME NEW i \in 1 .. n PROVE FrameAt(C, i)'
  <2>1. PICK g, m : g = stack[i] /\ m = Cardinality(EvalsOf(stack, g.iseq, i))
    OBVIOUS
  <2>2. FrameAt(B, i) /\ FrameOK(B, g)
    BY <2>1 DEF StackOK, FrameAt
  <2>3. FrameOK(C, g)' /\ C[g.code] = B[g.code] /\ C[g.iseq] = B[g.iseq]
    <3>1. DOMAIN class_defined \subseteq DOMAIN class_defined'
      OBVIOUS
    <3> QED BY <2>2, <3>1, FrameMore DEF FrameOK, Extends
  <2>4. g.kind = "eval" => class_defined'[g.iseq][Len(B[g.iseq]) + m] = class_defined[g.iseq][Len(B[g.iseq]) + m]
    <3>1. SUFFICES ASSUME g.kind = "eval"
                   PROVE  class_defined'[g.iseq] = class_defined[g.iseq]
      OBVIOUS
    <3>2. EvalsOf(stack, g.iseq, n) # {} /\ g.iseq \in DOMAIN class_defined
      BY <1>1, <2>1, <2>2, <3>1, EvalPlace
    <3> QED BY <3>2
  <2>5. /\ \A k \in 1 .. i : stack'[k] = stack[k]
        /\ \A k \in 1 .. Height(stack, i) : class_context'[k] = class_context[k]
    OBVIOUS
  <2>6. i \in Nat \ {0}
    OBVIOUS
  <2>7. Height(stack, i) \in Nat
    BY <2>6, HeightStep
  <2> QED BY <2>1, <2>2, <2>3, <2>4, <2>5, <2>6, <2>7, FrameStays
<1>3. /\ Opened' = Opened /\ stack # <<>> /\ class_context \in Seq(Opened)
      /\ Height(stack', Len(stack')) = Height(stack, n)
  BY DEF StackOK, Opened, Made
<1> QED BY <1>1, <1>2, <1>3 DEF StackOK

LEMMA MethodsMore ==
  ASSUME NEW B, MethodsOK(B), NEW C, Extends(B, C), DOMAIN class_defined \subseteq DOMAIN class_defined',
         methods' \subseteq methods
  PROVE  MethodsOK(C)'
<1>1. ASSUME NEW f \in methods' PROVE f.kind = "method" /\ FrameOK(C, f)'
  BY FrameMore DEF MethodsOK
<1> QED BY <1>1 DEF MethodsOK

(* Nothing changes but constants, the cache and what includes Mixin.       *)
LEMMA OnlyTables ==
  ASSUME NEW B, Whole(B), Follows(B, const_table)', CacheOK(B)',
         UNCHANGED <<stack, class_context, superclass, class_defined, methods>>
  PROVE  Whole(B)'
<1>1. Extends(B, B)
  BY DEF Extends
<1>2. MethodsOK(B)' /\ StackOK(B)'
  BY <1>1, MethodsMore, StackMore DEF Whole, Known
<1>3. DefinedOK(B)'
  <2>1. \A c : Evals(stack', c) = Evals(stack, c)
    OBVIOUS
  <2> QED BY <1>1, <2>1, DefinedSame DEF Whole
<1>4. \A c \in DOMAIN B : \E f \in Kept' : f.code[1] = c[1]
  BY DEF Whole, Known, Kept
<1> QED BY <1>2, <1>3, <1>4 DEF Whole, Known

(* Tables that stay.                                                       *)
LEMMA SameTables ==
  ASSUME TablesOK, HierarchyOK, UNCHANGED <<const_table, superclass>>, mixed' \subseteq Modules
  PROVE  TablesOK' /\ HierarchyOK'
  BY DEF TablesOK, HierarchyOK, Made

(* Code that evaluates no string is defined in the classes of its text.    *)
LEMMA DefinedEqual ==
  ASSUME NEW B, DefinedOK(B), Follows(B, const_table), NEW c \in DOMAIN class_defined,
         EvalsOf(stack, c, Len(stack)) = {}
  PROVE  class_defined[c] = B[c] /\ c \in DOMAIN B /\ B[c] \in Seq(Modules) \ {<<>>}
<1>1. /\ c \in DOMAIN B /\ class_defined[c] \in Seq(Modules)
      /\ Len(class_defined[c]) = Len(B[c]) + Cardinality(EvalsOf(stack, c, Len(stack)))
      /\ \A k \in 1 .. Len(B[c]) : class_defined[c][k] = B[c][k]
  BY DEF DefinedOK
<1>2. B[c] \in Seq(Modules) \ {<<>>}
  BY <1>1 DEF Follows
<1>3. Len(class_defined[c]) = Len(B[c])
  BY <1>1, <1>2, FS_EmptySet
<1> QED BY <1>1, <1>2, <1>3, SeqEqual

LEMMA NotEvaluated ==
  ASSUME NEW B, StackOK(B), DefinedOK(B), Follows(B, const_table), ~Evaluating, Top.kind # "eval"
  PROVE  class_defined[Top.iseq] = B[Top.iseq] /\ B[Top.iseq] = B[Top.code]
<1>1. Len(stack) \in Nat \ {0} /\ Top = stack[Len(stack)] /\ FrameOK(B, Top)
  BY TopFacts
<1>2. EvalsOf(stack, Top.iseq, Len(stack)) = {}
  BY <1>1 DEF EvalsOf, Evaluating
<1> QED BY <1>1, <1>2, DefinedEqual DEF FrameOK

LEMMA SearchedAt ==
  Searched(Top.iseq, "X") = SearchedIn(class_defined[Top.iseq], Class)
  BY DEF Searched, SearchedIn, GetEnvConst

LEMMA ReferStep ==
  ASSUME NEW B, Whole(B), UNCHANGED <<const_table, superclass, mixed, class_defined, class_context, stack, methods>>,
         cache' = IF FindConstCache(Top.code) \/ Top.kind = "eval" THEN cache
                  ELSE With(cache, Top.code, [val |-> Searched(Top.iseq, "X"), mixed |-> mixed,
                                              under |-> Class, evaluating |-> Evaluating])
  PROVE  Whole(B)'
<1>1. StackOK(B) /\ DefinedOK(B) /\ Follows(B, const_table) /\ CacheOK(B)
  BY DEF Whole, Known
<1>2. CASE cache' = cache
  <2>1. CacheOK(B)'
    <3>1. \A c \in DOMAIN cache' : c \in DOMAIN cache /\ cache'[c] = cache[c] /\ c \in DOMAIN B /\ B[c] = B[c]
      BY <1>1, <1>2 DEF CacheOK
    <3>2. mixed \subseteq mixed'
      OBVIOUS
    <3> QED BY <1>1, <3>1, <3>2, CacheSame
  <2>2. Follows(B, const_table)'
    BY <1>1 DEF Follows
  <2> QED BY <2>1, <2>2, OnlyTables
<1>3. CASE cache' # cache
  <2>1. PICK p, e : p = Top.code /\ e = [val |-> Searched(Top.iseq, "X"), mixed |-> mixed,
                                         under |-> Class, evaluating |-> Evaluating]
    OBVIOUS
  <2>2. Top.kind # "eval" /\ cache' = With(cache, p, e)
    BY <1>3, <2>1
  <2>3. FrameOK(B, Top)
    BY <1>1, TopFacts
  <2>4. p \in DOMAIN B /\ ~IsEval(p)
    BY <2>1, <2>2, <2>3 DEF FrameOK
  <2>5. /\ e.mixed \subseteq mixed
        /\ ~e.evaluating => e.val = SearchedIn(B[p], e.under)
    <3>1. ASSUME ~Evaluating PROVE Searched(Top.iseq, "X") = SearchedIn(B[p], Class)
      BY <1>1, <2>1, <2>2, <3>1, NotEvaluated, SearchedAt
    <3> QED BY <2>1, <3>1
  <2>6. ASSUME NEW c \in DOMAIN cache', NEW d, d = cache'[c]
        PROVE  /\ c \in DOMAIN B /\ ~IsEval(c) /\ d.mixed \subseteq mixed
               /\ ~d.evaluating /\ d.mixed = mixed => d.val = SearchedIn(B[c], d.under)
    <3>1. (c = p /\ d = e) \/ (c \in DOMAIN cache /\ d = cache[c])
      BY <2>2, <2>6 DEF With
    <3>2. CASE c = p /\ d = e
      BY <2>4, <2>5, <3>2
    <3>3. CASE c \in DOMAIN cache /\ d = cache[c]
      BY <1>1, <3>3 DEF CacheOK
    <3> QED BY <3>1, <3>2, <3>3
  <2>7. CacheOK(B)'
    <3>1. ASSUME NEW c \in DOMAIN cache', NEW d, d = cache'[c]
          PROVE  /\ c \in DOMAIN B /\ ~IsEval(c) /\ d.mixed \subseteq mixed'
                 /\ ~d.evaluating /\ d.mixed = mixed' => d.val = SearchedIn(B[c], d.under)'
      BY <2>6, <3>1, SearchedSame
    <3> QED BY <3>1 DEF CacheOK
  <2>8. Follows(B, const_table)'
    BY <1>1 DEF Follows
  <2> QED BY <2>7, <2>8, OnlyTables
<1> QED BY <1>2, <1>3

(* X, which the text of no class is found by, gets a value.                *)
LEMMA AssignStep ==
  ASSUME TablesOK, HierarchyOK, NEW B, Whole(B), Assign
  PROVE  TablesOK' /\ HierarchyOK' /\ Whole(B)'
<1>1. StackOK(B) /\ DefinedOK(B) /\ Follows(B, const_table)
  BY DEF Whole, Known
<1>2. PICK c, v : /\ const_table' = [const_table EXCEPT ![c]["X"] = v]
                  /\ cache' = <<>>
                  /\ UNCHANGED <<superclass, mixed, class_defined, class_context, stack, methods>>
  BY Zenon DEF Assign, SetConst
<1>5. \A m \in Modules : DOMAIN const_table'[m] = Names /\ \A n \in {"A", "M"} : const_table'[m][n] = const_table[m][n]
  BY <1>2 DEF TablesOK, Names
<1>6. TablesOK'
  BY <1>2, <1>5 DEF TablesOK, Made
<1>7. HierarchyOK'
  BY <1>2 DEF HierarchyOK, Made
<1>8. Follows(B, const_table)'
  <2>1. PICK t, u : t = const_table /\ u = const_table'
    OBVIOUS
  <2>2. \A m \in Modules, n \in {"A", "M"} : t[m][n] # Absent => u[m][n] = t[m][n]
    BY <1>5, <2>1
  <2>3. Follows(B, u)
    BY <1>1, <2>1, <2>2, KnownSame
  <2> QED BY <2>1, <2>3
<1>9. CacheOK(B)'
  BY <1>2 DEF CacheOK
<1> QED BY <1>2, <1>6, <1>7, <1>8, <1>9, OnlyTables

LEMMA IncludeStep ==
  ASSUME TablesOK, HierarchyOK, NEW B, Whole(B), Include
  PROVE  TablesOK' /\ HierarchyOK' /\ Whole(B)'
<1>1. StackOK(B) /\ CacheOK(B) /\ Follows(B, const_table)
  BY DEF Whole, Known
<1>2. /\ mixed' = mixed \cup {Class}
      /\ UNCHANGED <<const_table, superclass, cache, class_defined, class_context, stack, methods>>
  BY DEF Include
<1>3. Class \in Modules
  <2>1. Class \in Opened
    BY <1>1, TopFacts
  <2> QED BY <2>1 DEF Opened, Modules, HierarchyOK
<1>4. TablesOK' /\ HierarchyOK'
  <2>1. mixed' \subseteq Modules
    BY <1>2, <1>3 DEF HierarchyOK
  <2> QED BY <1>2, <2>1, SameTables
<1>5. CacheOK(B)'
  <2>1. \A c \in DOMAIN cache' : c \in DOMAIN cache /\ cache'[c] = cache[c] /\ c \in DOMAIN B /\ B[c] = B[c]
    BY <1>1, <1>2 DEF CacheOK
  <2> QED BY <1>1, <1>2, <2>1, CacheSame
<1>6. Follows(B, const_table)'
  BY <1>1, <1>2 DEF Follows
<1> QED BY <1>2, <1>4, <1>5, <1>6, OnlyTables

----------------------------------------------------------------------------
(* More places, and methods *)

LEMMA CacheMore ==
  ASSUME NEW B, CacheOK(B), NEW C, Extends(B, C), UNCHANGED <<const_table, superclass, mixed, cache>>
  PROVE  CacheOK(C)'
<1>1. \A c \in DOMAIN cache' : c \in DOMAIN cache /\ cache'[c] = cache[c] /\ c \in DOMAIN C /\ C[c] = B[c]
  BY DEF CacheOK, Extends
<1>2. mixed \subseteq mixed'
  OBVIOUS
<1> QED BY <1>1, <1>2, CacheSame

LEMMA TopKept ==
  ASSUME NEW B, StackOK(B)
  PROVE  Top \in ToSet(stack) /\ Top \in Kept
<1>1. Len(stack) \in Nat \ {0} /\ Top = stack[Len(stack)] /\ stack \in Seq(Frames)
  BY TopFacts DEF StackOK
<1>2. Len(stack) \in DOMAIN stack
  BY <1>1
<1> QED BY <1>1, <1>2 DEF ToSet, Kept

(* The text in the code in progress, when it is that of a file or a class. *)
LEMMA TopText ==
  ASSUME NEW B, StackOK(B), DefinedOK(B), Follows(B, const_table), Top.kind \in {"file", "class"}
  PROVE  /\ Top.iseq = Top.code /\ Top.code \in DOMAIN B /\ Top.code \in Text /\ Top.scope \in Seq(Modules)
         /\ class_defined[Top.iseq] = B[Top.code] /\ B[Top.code] = class_context
         /\ Top.plain \in BOOLEAN /\ (Top.plain => Around(B[Top.code], Top.scope))
         /\ \A n \in Word : Evals(stack, Append(Top.code, n)) = 0
<1>1. FrameOK(B, Top) /\ Top \in Frames /\ Len(stack) \in Nat \ {0} /\ Top = stack[Len(stack)]
  BY TopFacts
<1>2. /\ Top.iseq = Top.code /\ Top.code \in DOMAIN B /\ Top.code \in DOMAIN class_defined /\ Top.code \in Text
      /\ Top.scope \in Seq(Modules)
      /\ Top.plain \in BOOLEAN /\ (Top.plain => Around(B[Top.code], Top.scope))
  BY <1>1 DEF FrameOK, Frames
<1>3. EvalsOf(stack, Top.code, Len(stack)) = {}
  BY NoEvals
<1>4. class_defined[Top.code] = B[Top.code]
  BY <1>2, <1>3, DefinedEqual
<1>5. ASSUME NEW n \in Word PROVE Evals(stack, Append(Top.code, n)) = 0
  <2>1. PICK p : p = Append(Top.code, n)
    OBVIOUS
  <2>2. p[1] = Top.code[1]
    BY <1>2, <2>1, Places
  <2>3. EvalsOf(stack, p, Len(stack)) = {}
    BY <2>2, NoEvals
  <2> QED BY <2>1, <2>3, FS_EmptySet DEF Evals
<1>6. B[Top.code] = class_context
  <2>1. Opens(B, Top, Height(stack, Len(stack)))
    BY <1>1 DEF StackOK, FrameAt
  <2>2. /\ class_context \in Seq(Modules \cup Opened) /\ Len(class_context) = Height(stack, Len(stack))
        /\ B[Top.code] \in Seq(Modules \cup Opened)
    BY <1>2 DEF StackOK, Follows
  <2> QED BY <2>1, <2>2, SeqEqual DEF Opens
<1> QED BY <1>2, <1>4, <1>5, <1>6

LEMMA PlainPlace ==
  ASSUME NEW B, NEW table, Follows(B, table), NEW c \in DOMAIN B, NEW n \in Word \ {"A", "M"}
  PROVE  \E C : Adds(C, B, Append(c, n), B[c], table)
<1>1. n \in Word /\ Extended(B[c], n, table) = B[c]
  BY DEF Extended
<1>2. n \in {"A", "M"} => table[Last(B[c])][n] \in Modules \ {Absent}
  OBVIOUS
<1>3. \E C : Adds(C, B, Append(c, n), Extended(B[c], n, table), table)
  BY <1>1, <1>2, KnownMore
<1> QED BY <1>1, <1>3

LEMMA DefMethodStep ==
  ASSUME TablesOK, HierarchyOK, NEW B, Whole(B), DefMethod
  PROVE  TablesOK' /\ HierarchyOK' /\ \E C : Whole(C)'
<1>1. /\ StackOK(B) /\ DefinedOK(B) /\ Follows(B, const_table) /\ CacheOK(B) /\ MethodsOK(B)
      /\ \A c \in DOMAIN B : \E f \in Kept : f.code[1] = c[1]
  BY DEF Whole, Known
<1>2. PICK p, m : /\ p = Append(Top.code, "f") /\ m = Frame("method", p, p, Top.scope, Top.plain)
                  /\ Top.kind \in {"file", "class"}
                  /\ class_defined' = With(class_defined, p, class_defined[Top.iseq])
                  /\ methods' = {f \in methods : f.code # p} \cup {m}
                  /\ UNCHANGED <<const_table, superclass, mixed, cache, class_context, stack>>
  BY DEF DefMethod, Within, Nests
<1>3. /\ Top.iseq = Top.code /\ Top.code \in DOMAIN B /\ Top.code \in Text /\ Top.scope \in Seq(Modules)
      /\ class_defined[Top.iseq] = B[Top.code]
      /\ Top.plain \in BOOLEAN /\ (Top.plain => Around(B[Top.code], Top.scope))
      /\ \A n \in Word : Evals(stack, Append(Top.code, n)) = 0
  BY <1>1, <1>2, TopText
<1>4. "f" \in Word /\ "f" \notin {"A", "M", "eval"}
  BY DEF Word
<1>5. p \in Text /\ p[1] = Top.code[1] /\ ~IsEval(p) /\ Evals(stack, p) = 0
  BY <1>2, <1>3, <1>4, Places
<1>6. PICK C : Follows(C, const_table) /\ Extends(B, C) /\ DOMAIN C = DOMAIN B \cup {p} /\ C[p] = B[Top.code]
  <2>1. Follows(B, const_table) /\ Top.code \in DOMAIN B /\ "f" \in Word \ {"A", "M"}
    BY <1>1, <1>3, <1>4
  <2>2. \E C : Adds(C, B, Append(Top.code, "f"), B[Top.code], const_table)
    BY <2>1, PlainPlace
  <2> QED BY <1>2, <2>2 DEF Adds
<1>7. C[p] \in Seq(Modules) \ {<<>>} /\ p \in DOMAIN C
  BY <1>6 DEF Follows
<1>8. DefinedOK(C)'
  <2>1. class_defined' = With(class_defined, p, C[p])
    BY <1>2, <1>3, <1>6
  <2>2. \A c : Evals(stack', c) = Evals(stack, c)
    BY <1>2
  <2> QED BY <1>1, <1>5, <1>6, <1>7, <2>1, <2>2, DefinedMore
<1>9. DOMAIN class_defined' = DOMAIN class_defined \cup {p}
  BY <1>2 DEF With
<1>10. StackOK(C)'
  <2>1. ASSUME NEW c \in DOMAIN class_defined, EvalsOf(stack, c, Len(stack)) # {}
        PROVE  class_defined'[c] = class_defined[c]
    <3>1. c # p
      <4>1. p[1] = Top.code[1]
        BY <1>5
      <4>2. EvalsOf(stack, p, Len(stack)) = {}
        BY <1>1, <1>2, <4>1, NoEvals
      <4> QED BY <2>1, <4>2
    <3> QED BY <1>2, <3>1 DEF With
  <2> QED BY <1>1, <1>2, <1>6, <1>9, <2>1, StackMore
<1>11. MethodsOK(C)'
  <2>1. ASSUME NEW f \in methods', f # m PROVE f.kind = "method" /\ FrameOK(C, f)'
    <3>1. f \in methods
      BY <1>2, <2>1
    <3> QED BY <1>1, <1>6, <1>9, <3>1, FrameMore DEF MethodsOK
  <2>2. m \in Frames
    BY <1>2, <1>3, <1>5 DEF Frame, Frames
  <2>3. m.kind = "method" /\ FrameOK(C, m)'
    BY <1>2, <1>3, <1>5, <1>6, <1>7, <1>9, <2>2 DEF Frame, FrameOK
  <2> QED BY <2>1, <2>3 DEF MethodsOK
<1>12. ASSUME NEW c \in DOMAIN C PROVE \E f \in Kept' : f.code[1] = c[1]
  <2>1. Top \in ToSet(stack')
    BY <1>1, <1>2, TopKept
  <2>2. CASE c = p
    BY <1>5, <2>1, <2>2 DEF Kept
  <2>3. CASE c # p
    <3>1. PICK f \in Kept : f.code[1] = c[1]
      BY <1>1, <1>6, <1>12, <2>3
    <3>2. CASE f \in Kept'
      BY <3>1, <3>2
    <3>3. CASE f \notin Kept'
      <4>1. f.code = p
        BY <1>2, <3>3 DEF Kept
      <4> QED BY <1>5, <2>1, <3>1, <4>1 DEF Kept
    <3> QED BY <3>2, <3>3
  <2> QED BY <2>2, <2>3
<1>13. Known(C)'
  BY <1>2, <1>6, <1>12 DEF Known, Follows
<1>14. CacheOK(C)'
  BY <1>1, <1>2, <1>6, CacheMore
<1>15. TablesOK' /\ HierarchyOK'
  BY <1>2, SameTables DEF HierarchyOK
<1> QED BY <1>8, <1>10, <1>11, <1>13, <1>14, <1>15 DEF Whole

----------------------------------------------------------------------------
(* Code is left *)

PushingFrom(s, i, j) == {n \in i + 1 .. j : Pushes(s[n].kind)}
EvalsFrom(s, c, i, j) == {n \in i + 1 .. j : s[n].kind = "eval" /\ s[n].iseq = c}

LEMMA Apart ==
  ASSUME NEW S, NEW T, IsFiniteSet(S), IsFiniteSet(T), S \cap T = {}
  PROVE  /\ Cardinality(S) \in Nat /\ Cardinality(T) \in Nat
         /\ Cardinality(S \cup T) = Cardinality(S) + Cardinality(T)
<1>1. Cardinality(S \cup T) = Cardinality(S) + Cardinality(T) - Cardinality({})
  BY FS_Union
<1>2. Cardinality(S) \in Nat /\ Cardinality(T) \in Nat /\ Cardinality({}) = 0
  BY FS_CardinalityType, FS_EmptySet
<1> QED BY <1>1, <1>2

LEMMA HeightRest ==
  ASSUME NEW s, NEW i \in Nat, NEW j \in Nat, i <= j
  PROVE  /\ Cardinality(PushingFrom(s, i, j)) \in Nat
         /\ Height(s, j) = Height(s, i) + Cardinality(PushingFrom(s, i, j))
<1> DEFINE S == Pushing(s, i)
           T == PushingFrom(s, i, j)
<1>1. S \in SUBSET (1 .. i) /\ T \in SUBSET (i + 1 .. j) /\ Pushing(s, j) = S \cup T
  BY DEF Pushing, PushingFrom
<1>2. Height(s, i) = 1 + Cardinality(S) /\ Height(s, j) = 1 + Cardinality(S \cup T)
  BY <1>1 DEF Height
<1> HIDE DEF S, T
<1>3. /\ Cardinality(S) \in Nat /\ Cardinality(T) \in Nat
      /\ Cardinality(S \cup T) = Cardinality(S) + Cardinality(T)
  <2>1. IsFiniteSet(1 .. i) /\ IsFiniteSet(i + 1 .. j)
    BY FS_Interval
  <2>2. IsFiniteSet(S) /\ IsFiniteSet(T)
    BY <1>1, <2>1, FS_Subset
  <2>3. S \cap T = {}
    BY <1>1
  <2> QED BY <2>2, <2>3, Apart
<1> QED BY <1>2, <1>3 DEF T

LEMMA EvalsRest ==
  ASSUME NEW s, NEW c, NEW i \in Nat, NEW j \in Nat, i <= j
  PROVE  /\ Cardinality(EvalsFrom(s, c, i, j)) \in Nat /\ Cardinality(EvalsOf(s, c, i)) \in Nat
         /\ Cardinality(EvalsOf(s, c, j)) = Cardinality(EvalsOf(s, c, i)) + Cardinality(EvalsFrom(s, c, i, j))
<1> DEFINE S == EvalsOf(s, c, i)
           T == EvalsFrom(s, c, i, j)
<1>1. S \in SUBSET (1 .. i) /\ T \in SUBSET (i + 1 .. j) /\ EvalsOf(s, c, j) = S \cup T
  BY DEF EvalsOf, EvalsFrom
<1> HIDE DEF S, T
<1>2. /\ Cardinality(S) \in Nat /\ Cardinality(T) \in Nat
      /\ Cardinality(S \cup T) = Cardinality(S) + Cardinality(T)
  <2>1. IsFiniteSet(1 .. i) /\ IsFiniteSet(i + 1 .. j)
    BY FS_Interval
  <2>2. IsFiniteSet(S) /\ IsFiniteSet(T)
    BY <1>1, <2>1, FS_Subset
  <2>3. S \cap T = {}
    BY <1>1
  <2> QED BY <2>2, <2>3, Apart
<1>3. Cardinality(EvalsOf(s, c, j)) = Cardinality(S) + Cardinality(T)
  BY <1>1, <1>2
<1> QED BY <1>2, <1>3 DEF S, T

LEMMA PrefixFacts ==
  ASSUME NEW S, NEW s \in Seq(S), NEW n \in 0 .. Len(s)
  PROVE  /\ SubSeq(s, 1, n) \in Seq(S) /\ Len(SubSeq(s, 1, n)) = n
         /\ \A k \in 1 .. n : SubSeq(s, 1, n)[k] = s[k]
  OBVIOUS

LEMMA KeptOK ==
  ASSUME NEW B, Whole(B), NEW f \in Kept
  PROVE  FrameOK(B, f)
<1>1. CASE f \in methods
  BY <1>1 DEF Whole, MethodsOK
<1>2. CASE f \in ToSet(stack)
  <2>1. stack \in Seq(Frames) /\ \A i \in 1 .. Len(stack) : FrameOK(B, stack[i])
    BY DEF Whole, StackOK, FrameAt
  <2>2. PICK i \in 1 .. Len(stack) : f = stack[i]
    BY <1>2, <2>1 DEF ToSet
  <2> QED BY <2>1, <2>2
<1> QED BY <1>1, <1>2 DEF Kept

(* What is left of the context and of the classes of a method.             *)
LEMMA LeftLists ==
  ASSUME NEW B, Whole(B), NEW k \in 1 .. Len(stack), Left(k)
  PROVE  /\ stack' \in Seq(Frames) /\ Len(stack') = k /\ \A i \in 1 .. k : stack'[i] = stack[i]
         /\ class_context' \in Seq(Opened) /\ Len(class_context') = Height(stack, k)
         /\ \A i \in 1 .. Height(stack, k) : class_context'[i] = class_context[i]
         /\ DOMAIN class_defined' = {f.iseq : f \in Kept'}
         /\ \A c \in DOMAIN class_defined' :
               LET n == Len(B[c]) + Cardinality(EvalsOf(stack, c, k))
               IN  /\ c \in DOMAIN class_defined /\ class_defined'[c] \in Seq(Modules)
                   /\ Len(class_defined'[c]) = n
                   /\ \A i \in 1 .. n : class_defined'[c][i] = class_defined[c][i]
<1>1. StackOK(B) /\ DefinedOK(B) /\ Follows(B, const_table)
  BY DEF Whole, Known
<1>2. /\ stack \in Seq(Frames) /\ class_context \in Seq(Opened)
      /\ Len(stack) \in Nat \ {0} /\ Len(class_context) = Height(stack, Len(stack))
      /\ k \in Nat \ {0} /\ k \in 0 .. Len(stack) /\ k <= Len(stack)
  BY <1>1, TopFacts DEF StackOK
<1>3. stack' = SubSeq(stack, 1, k) /\ methods' = methods
  BY DEF Left
<1>4. stack' \in Seq(Frames) /\ Len(stack') = k /\ \A i \in 1 .. k : stack'[i] = stack[i]
  BY <1>2, <1>3, PrefixFacts
<1>5. /\ class_context' \in Seq(Opened) /\ Len(class_context') = Height(stack, k)
      /\ \A i \in 1 .. Height(stack, k) : class_context'[i] = class_context[i]
  <2>1. PICK T : T = PushingFrom(stack, k, Len(stack))
    OBVIOUS
  <2>2. class_context' = SubSeq(class_context, 1, Len(class_context) - Cardinality(T))
    BY <2>1 DEF Left, PushingFrom
  <2>3. Cardinality(T) \in Nat /\ Height(stack, Len(stack)) = Height(stack, k) + Cardinality(T)
    BY <1>2, <2>1, HeightRest
  <2>4. Height(stack, k) \in Nat \ {0}
    BY <1>2, HeightStep
  <2>5. Height(stack, k) \in 0 .. Len(class_context) /\ Len(class_context) - Cardinality(T) = Height(stack, k)
    BY <1>2, <2>3, <2>4
  <2> QED BY <1>2, <2>2, <2>5, PrefixFacts
<1>6. DOMAIN class_defined' = {f.iseq : f \in Kept'}
  BY <1>3 DEF Left, Kept
<1>7. Kept' \subseteq Kept
  <2>1. ASSUME NEW f \in ToSet(stack') PROVE f \in ToSet(stack)
    <3>1. PICK i \in 1 .. k : f = stack'[i]
      BY <1>4 DEF ToSet
    <3> QED BY <1>2, <1>4, <3>1 DEF ToSet
  <2> QED BY <1>3, <2>1 DEF Kept
<1>8. ASSUME NEW c \in DOMAIN class_defined', NEW n, n = Len(B[c]) + Cardinality(EvalsOf(stack, c, k))
      PROVE  /\ c \in DOMAIN class_defined /\ class_defined'[c] \in Seq(Modules)
             /\ Len(class_defined'[c]) = n
             /\ \A i \in 1 .. n : class_defined'[c][i] = class_defined[c][i]
  <2>1. PICK f \in Kept' : c = f.iseq
    BY <1>6
  <2>2. FrameOK(B, f)
    BY <1>7, KeptOK
  <2>3. c \in DOMAIN class_defined /\ c \in DOMAIN B
    BY <2>1, <2>2 DEF FrameOK
  <2>4. /\ class_defined[c] \in Seq(Modules)
        /\ Len(class_defined[c]) = Len(B[c]) + Cardinality(EvalsOf(stack, c, Len(stack)))
    BY <1>1, <2>3 DEF DefinedOK
  <2>5. Len(B[c]) \in Nat
    BY <1>1, <2>3 DEF Follows
  <2>6. PICK T : T = EvalsFrom(stack, c, k, Len(stack))
    OBVIOUS
  <2>7. class_defined'[c] = SubSeq(class_defined[c], 1, Len(class_defined[c]) - Cardinality(T))
    BY <1>8, <2>6 DEF Left, EvalsFrom
  <2>8. /\ Cardinality(T) \in Nat /\ Cardinality(EvalsOf(stack, c, k)) \in Nat
        /\ Cardinality(EvalsOf(stack, c, Len(stack))) = Cardinality(EvalsOf(stack, c, k)) + Cardinality(T)
    BY <1>2, <2>6, EvalsRest
  <2>9. n \in 0 .. Len(class_defined[c]) /\ Len(class_defined[c]) - Cardinality(T) = n
    BY <1>8, <2>4, <2>5, <2>8
  <2> QED BY <2>3, <2>4, <2>7, <2>9, PrefixFacts
<1> QED BY <1>4, <1>5, <1>6, <1>8

(* Places of files whose code is left for good are forgotten.              *)
LEMMA LeftStep ==
  ASSUME TablesOK, HierarchyOK, NEW B, Whole(B), NEW k \in DOMAIN stack, Left(k)
  PROVE  TablesOK' /\ HierarchyOK' /\ \E C : Whole(C)'
<1>1. /\ StackOK(B) /\ DefinedOK(B) /\ Follows(B, const_table) /\ CacheOK(B) /\ MethodsOK(B)
      /\ UNCHANGED <<const_table, superclass, mixed, methods>>
  BY DEF Whole, Known, Left
<1>2. stack \in Seq(Frames) /\ k \in 1 .. Len(stack)
  BY <1>1 DEF StackOK
<1>3. /\ stack' \in Seq(Frames) /\ Len(stack') = k /\ \A i \in 1 .. k : stack'[i] = stack[i]
      /\ class_context' \in Seq(Opened) /\ Len(class_context') = Height(stack, k)
      /\ \A i \in 1 .. Height(stack, k) : class_context'[i] = class_context[i]
      /\ DOMAIN class_defined' = {f.iseq : f \in Kept'}
  BY <1>2, LeftLists
<1>4. ASSUME NEW c \in DOMAIN class_defined', NEW n, n = Len(B[c]) + Cardinality(EvalsOf(stack, c, k))
      PROVE  /\ c \in DOMAIN class_defined /\ class_defined'[c] \in Seq(Modules)
             /\ Len(class_defined'[c]) = n
             /\ \A i \in 1 .. n : class_defined'[c][i] = class_defined[c][i]
  BY <1>2, <1>4, LeftLists, ZenonT(60)
<1>5. Kept' \subseteq Kept
  <2>1. ASSUME NEW f \in ToSet(stack') PROVE f \in ToSet(stack)
    <3>1. PICK i \in 1 .. k : f = stack'[i]
      BY <1>3 DEF ToSet
    <3> QED BY <1>2, <1>3, <3>1 DEF ToSet
  <2> QED BY <1>1, <2>1 DEF Kept
<1>6. PICK S : S = {f.code[1] : f \in Kept'}
  OBVIOUS
<1>7. PICK C : C = [c \in {d \in DOMAIN B : d[1] \in S} |-> B[c]]
  OBVIOUS
<1>8. \A c : c \in DOMAIN C <=> c \in DOMAIN B /\ c[1] \in S
  BY <1>7
<1>9. \A c \in DOMAIN C : C[c] = B[c]
  BY <1>7
<1>10. Follows(C, const_table)
  BY <1>1, <1>7, KnownLess
<1>11. ASSUME NEW f \in Kept'
       PROVE  FrameOK(B, f) /\ FrameOK(C, f)' /\ C[f.code] = B[f.code] /\ C[f.iseq] = B[f.iseq]
  <2>1. FrameOK(B, f)
    BY <1>5, KeptOK
  <2>2. f.code \in DOMAIN C /\ f.iseq \in DOMAIN C
    BY <1>6, <1>8, <2>1 DEF FrameOK
  <2>3. f.iseq \in DOMAIN class_defined'
    BY <1>3
  <2> QED BY <1>9, <2>1, <2>2, <2>3 DEF FrameOK
<1>12. MethodsOK(C)'
  <2>1. ASSUME NEW f \in methods' PROVE f.kind = "method" /\ FrameOK(C, f)'
    BY <1>1, <1>11 DEF MethodsOK, Kept
  <2> QED BY <2>1 DEF MethodsOK
<1>13. StackOK(C)'
  <2>1. ASSUME NEW i \in 1 .. k PROVE FrameAt(C, i)'
    <3>1. PICK g, m : g = stack[i] /\ m = Cardinality(EvalsOf(stack, g.iseq, i))
      OBVIOUS
    <3>2. i \in 1 .. Len(stack) /\ i \in Nat \ {0} /\ k \in Nat /\ i <= k /\ g = stack'[i]
      BY <1>2, <1>3, <3>1
    <3>3. g \in Kept'
      BY <1>3, <3>2 DEF Kept, ToSet
    <3>4. FrameAt(B, i) /\ FrameOK(B, g) /\ FrameOK(C, g)' /\ C[g.code] = B[g.code] /\ C[g.iseq] = B[g.iseq]
      BY <1>1, <1>11, <3>2, <3>3 DEF StackOK
    <3>5. /\ Height(stack, i) \in Nat /\ Height(stack, i) <= Height(stack, k) /\ Height(stack, k) \in Nat
      BY <3>2, HeightStep
    <3>6. /\ \A j \in 1 .. i : stack'[j] = stack[j]
          /\ \A j \in 1 .. Height(stack, i) : class_context'[j] = class_context[j]
      BY <1>3, <3>2, <3>5
    <3>7. g.kind = "eval" => class_defined'[g.iseq][Len(B[g.iseq]) + m] = class_defined[g.iseq][Len(B[g.iseq]) + m]
      <4>1. SUFFICES ASSUME g.kind = "eval"
                     PROVE  class_defined'[g.iseq][Len(B[g.iseq]) + m] = class_defined[g.iseq][Len(B[g.iseq]) + m]
        OBVIOUS
      <4>2. m \in Nat \ {0}
        BY <1>1, <1>2, <3>1, <3>2, <3>4, <4>1, EvalPlace
      <4>3. m <= Cardinality(EvalsOf(stack, g.iseq, k)) /\ Cardinality(EvalsOf(stack, g.iseq, k)) \in Nat
        BY <3>1, <3>2, EvalStep
      <4>4. g.iseq \in DOMAIN class_defined' /\ Len(B[g.iseq]) \in Nat
        BY <1>1, <1>3, <3>3, <3>4 DEF FrameOK, Follows
      <4>5. PICK n : n = Len(B[g.iseq]) + Cardinality(EvalsOf(stack, g.iseq, k))
        OBVIOUS
      <4>6. Len(B[g.iseq]) + m \in 1 .. n
        BY <4>2, <4>3, <4>4, <4>5
      <4> QED BY <1>4, <4>4, <4>5, <4>6
    <3> QED BY <3>1, <3>2, <3>4, <3>5, <3>6, <3>7, FrameStays
  <2>2. Height(stack', k) = Height(stack, k)
    <3>1. Pushing(stack', k) = Pushing(stack, k)
      BY <1>3 DEF Pushing
    <3> QED BY <3>1 DEF Height
  <2>3. Opened' = Opened
    BY <1>1 DEF Opened, Made
  <2>4. stack' # <<>>
    BY <1>2, <1>3
  <2> QED BY <1>3, <2>1, <2>2, <2>3, <2>4 DEF StackOK
<1>14. DefinedOK(C)'
  <2>1. ASSUME NEW c \in DOMAIN class_defined', NEW e, e = Cardinality(EvalsOf(stack', c, Len(stack')))
        PROVE  /\ c \in DOMAIN C /\ class_defined'[c] \in Seq(Modules)
               /\ Len(class_defined'[c]) = Len(C[c]) + e
               /\ \A i \in 1 .. Len(C[c]) : class_defined'[c][i] = C[c][i]
    <3>1. PICK f \in Kept' : c = f.iseq
      BY <1>3
    <3>2. c \in DOMAIN C /\ C[c] = B[c]
      BY <1>11, <3>1 DEF FrameOK
    <3>3. EvalsOf(stack', c, k) = EvalsOf(stack, c, k)
      BY <1>3 DEF EvalsOf
    <3>4. e = Cardinality(EvalsOf(stack, c, k))
      BY <1>3, <2>1, <3>3
    <3>5. Len(B[c]) \in Nat /\ e \in Nat
      <4>1. Cardinality(EvalsOf(stack, c, k)) \in Nat
        BY <1>2, EvalStep
      <4> QED BY <1>1, <1>8, <3>2, <3>4, <4>1 DEF Follows
    <3>6. PICK n : n = Len(B[c]) + e
      OBVIOUS
    <3>7. /\ c \in DOMAIN class_defined /\ class_defined'[c] \in Seq(Modules)
          /\ Len(class_defined'[c]) = n
          /\ \A i \in 1 .. n : class_defined'[c][i] = class_defined[c][i]
      BY <1>4, <3>4, <3>6
    <3>8. \A i \in 1 .. Len(B[c]) : class_defined[c][i] = B[c][i] /\ i \in 1 .. n
      BY <1>1, <3>5, <3>6, <3>7 DEF DefinedOK
    <3> QED BY <3>2, <3>6, <3>7, <3>8
  <2> QED BY <2>1 DEF DefinedOK
<1>15. CacheOK(C)'
  <2>1. cache' = Restrict(cache, {c \in DOMAIN cache : \E f \in Kept' : c[1] = f.code[1]})
    BY <1>1 DEF Left, Kept, File
  <2>2. ASSUME NEW c \in DOMAIN cache'
        PROVE  c \in DOMAIN cache /\ cache'[c] = cache[c] /\ c \in DOMAIN C /\ C[c] = B[c]
    <3>1. c \in DOMAIN cache /\ cache'[c] = cache[c] /\ \E f \in Kept' : c[1] = f.code[1]
      BY <2>1 DEF Restrict
    <3>2. c \in DOMAIN B /\ c[1] \in S
      BY <1>1, <1>6, <3>1 DEF CacheOK
    <3> QED BY <1>8, <1>9, <3>1, <3>2
  <2> QED BY <1>1, <2>2, CacheSame
<1>16. Known(C)'
  <2>1. \A c \in DOMAIN C : \E f \in Kept' : f.code[1] = c[1]
    BY <1>6, <1>8
  <2>2. Follows(C, const_table)'
    BY <1>1, <1>10 DEF Follows
  <2> QED BY <2>1, <2>2 DEF Known
<1>17. TablesOK' /\ HierarchyOK'
  BY <1>1, SameTables DEF HierarchyOK
<1> QED BY <1>12, <1>13, <1>14, <1>15, <1>16, <1>17 DEF Whole

----------------------------------------------------------------------------
(* Code is entered, whole *)

LEMMA EnterWhole ==
  ASSUME NEW B, Whole(B), NEW C, Extends(B, C), NEW f, NEW x, Entering(C, f, x), methods' = methods,
         DefinedOK(C)', CacheOK(C)', Follows(C, const_table)',
         \A c \in DOMAIN C : c \in DOMAIN B \/ c[1] = f.code[1]
  PROVE  Whole(C)'
<1>1. /\ StackOK(B) /\ DefinedOK(B) /\ Follows(B, const_table) /\ MethodsOK(B)
      /\ \A c \in DOMAIN B : \E g \in Kept : g.code[1] = c[1]
  BY DEF Whole, Known
<1>2. StackOK(C)'
  BY <1>1, EnterStack
<1>3. MethodsOK(C)'
  <2>1. DOMAIN class_defined \subseteq DOMAIN class_defined'
    BY DEF Entering
  <2> QED BY <1>1, <2>1, MethodsMore
<1>4. Kept' = Kept \cup {f}
  <2>1. stack \in Seq(Frames) /\ f \in Frames /\ stack' = Append(stack, f)
    BY <1>1 DEF StackOK, Entering
  <2>2. /\ Len(stack') = Len(stack) + 1 /\ Len(stack) \in Nat /\ stack' \in Seq(Frames)
        /\ stack'[Len(stack) + 1] = f /\ \A i \in 1 .. Len(stack) : stack'[i] = stack[i]
    BY <2>1, AppendFacts
  <2>3. ToSet(stack') = ToSet(stack) \cup {f}
    <3>1. ASSUME NEW g \in ToSet(stack') PROVE g \in ToSet(stack) \cup {f}
      <4>1. PICK i \in 1 .. Len(stack) + 1 : g = stack'[i]
        BY <2>2 DEF ToSet
      <4> QED BY <2>1, <2>2, <4>1 DEF ToSet
    <3>2. ASSUME NEW g \in ToSet(stack) PROVE g \in ToSet(stack')
      <4>1. PICK i \in 1 .. Len(stack) : g = stack[i]
        BY <2>1 DEF ToSet
      <4>2. i \in DOMAIN stack' /\ g = stack'[i]
        BY <2>2, <4>1
      <4> QED BY <4>2 DEF ToSet
    <3>3. f \in ToSet(stack')
      <4>1. Len(stack) + 1 \in DOMAIN stack'
        BY <2>2
      <4> QED BY <2>2, <4>1 DEF ToSet
    <3> QED BY <3>1, <3>2, <3>3
  <2> QED BY <2>3 DEF Kept
<1>5. \A c \in DOMAIN C : \E g \in Kept' : g.code[1] = c[1]
  BY <1>1, <1>4
<1> QED BY <1>2, <1>3, <1>5 DEF Whole, Known

(* A method is called.                                                     *)
LEMMA CallStep ==
  ASSUME TablesOK, HierarchyOK, NEW B, Whole(B), Call
  PROVE  TablesOK' /\ HierarchyOK' /\ Whole(B)'
<1>1. StackOK(B) /\ DefinedOK(B) /\ Follows(B, const_table) /\ CacheOK(B) /\ MethodsOK(B) /\ stack \in Seq(Frames)
  BY DEF Whole, Known, StackOK
<1>2. PICK m \in methods : stack' = Append(stack, m)
  BY DEF Call, Enter
<1>3. UNCHANGED <<const_table, superclass, mixed, cache, class_defined, class_context, methods>>
  BY DEF Call
<1>4. Extends(B, B)
  BY DEF Extends
<1>5. m.kind = "method" /\ FrameOK(B, m) /\ m \in Frames
  BY <1>1, <1>2 DEF MethodsOK, FrameOK
<1>6. Entering(B, m, "Object")
  <2>1. FrameOK(B, m)'
    BY <1>3, <1>4, <1>5, FrameMore
  <2>2. "Object" \in Modules \cap Opened' /\ Opened \subseteq Opened'
    BY <1>3 DEF Modules, Opened, Made
  <2>3. class_context' = IF Pushes(m.kind) THEN Append(class_context, "Object") ELSE class_context
    BY <1>3, <1>5 DEF Pushes
  <2> QED BY <1>2, <1>3, <1>5, <2>1, <2>2, <2>3 DEF Entering
<1>7. DefinedOK(B)'
  <2>1. ASSUME NEW c PROVE Evals(stack', c) = Evals(stack, c)
    BY <1>1, <1>2, <1>5, EvalsMore DEF Evals
  <2> QED BY <1>1, <1>3, <1>4, <2>1, DefinedSame
<1>8. CacheOK(B)'
  BY <1>1, <1>3, <1>4, CacheMore
<1>9. Follows(B, const_table)'
  BY <1>1, <1>3 DEF Follows
<1>10. TablesOK' /\ HierarchyOK'
  BY <1>3, SameTables DEF HierarchyOK
<1> QED BY <1>3, <1>4, <1>6, <1>7, <1>8, <1>9, <1>10, EnterWhole

(* A string is evaluated: its class is one more class of the method.       *)
LEMMA DefinedEval ==
  ASSUME NEW B, NEW C, DefinedOK(B), Extends(B, C), NEW f \in Frames, NEW x \in Modules,
         stack \in Seq(Frames), stack' = Append(stack, f), f.kind = "eval", f.iseq \in DOMAIN class_defined,
         Follows(B, const_table),
         class_defined' = [class_defined EXCEPT ![f.iseq] = Append(class_defined[f.iseq], x)]
  PROVE  DefinedOK(C)'
<1>1. ASSUME NEW c \in DOMAIN class_defined', NEW e, e = Cardinality(EvalsOf(stack', c, Len(stack')))
      PROVE  /\ c \in DOMAIN C /\ class_defined'[c] \in Seq(Modules)
             /\ Len(class_defined'[c]) = Len(C[c]) + e
             /\ \A k \in 1 .. Len(C[c]) : class_defined'[c][k] = C[c][k]
  <2>1. PICK d, m : d = class_defined[c] /\ m = Cardinality(EvalsOf(stack, c, Len(stack)))
    OBVIOUS
  <2>2. m \in Nat /\ e = m + (IF f.iseq = c THEN 1 ELSE 0)
    BY <1>1, <2>1, EvalsMore
  <2>3. c \in DOMAIN class_defined
    OBVIOUS
  <2>4. /\ c \in DOMAIN B /\ d \in Seq(Modules) /\ Len(d) = Len(B[c]) + m
        /\ \A k \in 1 .. Len(B[c]) : d[k] = B[c][k]
    BY <2>1, <2>3 DEF DefinedOK
  <2>5. C[c] = B[c] /\ c \in DOMAIN C /\ Len(B[c]) \in Nat
    BY <2>4 DEF Extends, Follows
  <2>6. CASE f.iseq # c
    <3>1. class_defined'[c] = d /\ e = m
      BY <2>1, <2>2, <2>6
    <3> QED BY <2>4, <2>5, <3>1
  <2>7. CASE f.iseq = c
    <3>1. class_defined'[c] = Append(d, x) /\ e = m + 1
      BY <2>1, <2>2, <2>3, <2>7
    <3>2. /\ Append(d, x) \in Seq(Modules) /\ Len(Append(d, x)) = Len(d) + 1
          /\ \A k \in 1 .. Len(d) : Append(d, x)[k] = d[k]
      BY <2>4, AppendFacts
    <3>3. \A k \in 1 .. Len(B[c]) : k \in 1 .. Len(d)
      BY <2>2, <2>4, <2>5
    <3>4. Len(Append(d, x)) = Len(B[c]) + e
      BY <2>2, <2>4, <2>5, <3>1, <3>2
    <3> QED BY <2>4, <2>5, <3>1, <3>2, <3>3, <3>4
  <2> QED BY <2>6, <2>7
<1> QED BY <1>1 DEF DefinedOK

LEMMA ModuleEvalStep ==
  ASSUME TablesOK, HierarchyOK, NEW B, Whole(B), ModuleEval
  PROVE  TablesOK' /\ HierarchyOK' /\ \E C : Whole(C)'
<1>1. StackOK(B) /\ DefinedOK(B) /\ Follows(B, const_table) /\ CacheOK(B) /\ MethodsOK(B) /\ stack \in Seq(Frames)
  BY DEF Whole, Known, StackOK
<1>2. PICK x \in Made \cup {"Mixin"}, kind \in {"block", "eval"} :
        /\ class_context' = Append(class_context, x)
        /\ class_defined' = IF kind = "eval" THEN [class_defined EXCEPT ![Top.iseq] = Append(@, x)] ELSE class_defined
        /\ Enter(Frame(kind, Within(kind), Top.iseq,
                       IF kind = "eval" THEN Append(Top.scope, x) ELSE Top.scope, Top.plain))
  BY DEF ModuleEval
<1>3. Top.kind \notin {"block", "eval"} /\ UNCHANGED <<const_table, superclass, mixed, cache, methods>>
  BY DEF ModuleEval
<1>4. PICK p, f : /\ p = Append(Top.code, kind)
                  /\ f = Frame(kind, p, Top.iseq,
                               IF kind = "eval" THEN Append(Top.scope, x) ELSE Top.scope, Top.plain)
  OBVIOUS
<1>5. stack' = Append(stack, f)
  BY <1>2, <1>4 DEF Enter, Within
<1>6. /\ f.kind = kind /\ f.code = p /\ f.iseq = Top.iseq /\ f.plain = Top.plain
      /\ f.scope = IF kind = "eval" THEN Append(Top.scope, x) ELSE Top.scope
  BY <1>4 DEF Frame
<1>7. FrameOK(B, Top) /\ Top \in Frames
  BY <1>1, TopFacts
<1>8. /\ Top.code \in DOMAIN B /\ Top.code \in Text /\ Top.iseq \in DOMAIN B \cap DOMAIN class_defined /\ Top.iseq \in Text
      /\ B[Top.code] = B[Top.iseq] /\ Top.code[1] = Top.iseq[1]
      /\ Top.scope \in Seq(Modules) /\ Top.plain \in BOOLEAN
      /\ Top.plain => Around(B[Top.iseq], Top.scope)
  BY <1>3, <1>7 DEF FrameOK, Frames
<1>9. kind \in Word \ {"A", "M"}
  BY DEF Word
<1>10. p \in Text /\ p[1] = Top.code[1] /\ (IsEval(p) <=> kind = "eval")
  BY <1>4, <1>8, <1>9, Places
<1>11. PICK C : Adds(C, B, p, B[Top.code], const_table)
  <2>1. \E C : Adds(C, B, Append(Top.code, kind), B[Top.code], const_table)
    BY <1>1, <1>8, <1>9, PlainPlace
  <2> QED BY <1>4, <2>1
<1>12. Follows(C, const_table) /\ Extends(B, C) /\ DOMAIN C = DOMAIN B \cup {p} /\ C[p] = B[Top.code]
  BY <1>11 DEF Adds
<1>13. x \in Modules /\ x \in Opened /\ Opened' = Opened
  BY <1>3 DEF Opened, Modules, Made, HierarchyOK
<1>14. f \in Frames
  <2>1. f.scope \in Seq(Modules)
    BY <1>6, <1>8, <1>13
  <2> QED BY <1>4, <1>6, <1>8, <1>10, <2>1 DEF Frame, Frames
<1>15. DOMAIN class_defined' = DOMAIN class_defined
  BY <1>2
<1>16. C[Top.iseq] = B[Top.iseq] /\ C[Top.code] = B[Top.code]
  BY <1>8, <1>12 DEF Extends
<1>17. FrameOK(C, f)'
  BY <1>6, <1>8, <1>10, <1>12, <1>14, <1>15, <1>16 DEF FrameOK
<1>18. f.kind = "eval" =>
          /\ class_defined' = [class_defined EXCEPT ![f.iseq] = Append(class_defined[f.iseq], x)]
          /\ class_defined'[f.iseq] = Append(class_defined[f.iseq], x) /\ f.iseq \in DOMAIN class_defined
          /\ \E t \in Seq(Modules) : f.scope = Append(t, x) /\ (f.plain => Around(C[f.iseq], t))
  BY <1>2, <1>6, <1>8, <1>16
<1>19. Entering(C, f, x)
  <2>1. class_context' = IF Pushes(f.kind) THEN Append(class_context, x) ELSE class_context
    BY <1>2, <1>6 DEF Pushes
  <2>2. ASSUME NEW c \in DOMAIN class_defined
        PROVE  c \in DOMAIN class_defined' /\ \A k \in 1 .. Len(class_defined[c]) : class_defined'[c][k] = class_defined[c][k]
    <3>1. CASE class_defined'[c] = class_defined[c]
      BY <1>15, <3>1
    <3>2. CASE class_defined'[c] # class_defined[c]
      <4>1. f.kind = "eval" /\ c = f.iseq
        BY <1>2, <1>6, <3>2
      <4>2. class_defined'[c] = Append(class_defined[c], x)
        BY <1>18, <4>1
      <4>3. class_defined[c] \in Seq(Modules)
        BY <1>1 DEF DefinedOK
      <4> QED BY <1>13, <1>15, <4>2, <4>3, AppendFacts
    <3> QED BY <3>1, <3>2
  <2>3. f.kind \notin {"file", "class"}
    BY <1>6
  <2>4. x \in Modules \cap Opened' /\ Opened \subseteq Opened'
    BY <1>13
  <2> QED BY <1>5, <1>14, <1>17, <1>18, <2>1, <2>2, <2>3, <2>4 DEF Entering
<1>20. DefinedOK(C)'
  <2>1. CASE f.kind = "eval"
    BY <1>1, <1>5, <1>12, <1>13, <1>14, <1>18, <2>1, DefinedEval
  <2>2. CASE f.kind # "eval"
    <3>1. ASSUME NEW c PROVE Evals(stack', c) = Evals(stack, c)
      BY <1>1, <1>5, <1>14, <2>2, EvalsMore DEF Evals
    <3>2. class_defined' = class_defined
      BY <1>2, <1>6, <2>2
    <3> QED BY <1>1, <1>12, <3>1, <3>2, DefinedSame
  <2> QED BY <2>1, <2>2
<1>21. CacheOK(C)'
  BY <1>1, <1>3, <1>12, CacheMore
<1>22. Follows(C, const_table)'
  BY <1>3, <1>12 DEF Follows
<1>23. \A c \in DOMAIN C : c \in DOMAIN B \/ c[1] = f.code[1]
  BY <1>6, <1>12
<1>24. Whole(C)'
  BY <1>3, <1>12, <1>19, <1>20, <1>21, <1>22, <1>23, EnterWhole
<1>25. TablesOK' /\ HierarchyOK'
  BY <1>3, SameTables DEF HierarchyOK
<1> QED BY <1>24, <1>25

(* The text of a class within that of another.                             *)
LEMMA AroundMore ==
  ASSUME NEW b \in Seq(Modules), NEW scope \in Seq(Modules), NEW x \in Modules, Around(b, scope)
  PROVE  Around(Append(b, x), Append(scope, x))
<1>1. /\ Len(b) = Len(scope) + 1 /\ b[1] = "Object" /\ (\A k \in 1 .. Len(scope) : b[k + 1] = scope[k])
      /\ Len(scope) \in Nat
  BY DEF Around
<1>2. /\ Len(Append(b, x)) = Len(b) + 1 /\ Append(b, x)[Len(b) + 1] = x /\ (\A k \in 1 .. Len(b) : Append(b, x)[k] = b[k])
      /\ Len(Append(scope, x)) = Len(scope) + 1 /\ Append(scope, x)[Len(scope) + 1] = x
      /\ \A k \in 1 .. Len(scope) : Append(scope, x)[k] = scope[k]
  BY AppendFacts
<1>3. ASSUME NEW k \in 1 .. Len(scope) + 1 PROVE Append(b, x)[k + 1] = Append(scope, x)[k]
  <2>1. CASE k = Len(scope) + 1
    BY <1>1, <1>2, <2>1
  <2>2. CASE k # Len(scope) + 1
    <3>1. k \in 1 .. Len(scope) /\ k + 1 \in 1 .. Len(b)
      BY <1>1, <2>2
    <3> QED BY <1>1, <1>2, <3>1
  <2> QED BY <2>1, <2>2
<1>4. Append(b, x)[1] = "Object"
  BY <1>1, <1>2
<1> QED BY <1>1, <1>2, <1>3, <1>4 DEF Around

(* The body of a class, which is the constant name of the class around it. *)
LEMMA BodyStep ==
  ASSUME NEW B, Whole(B), Follows(B, const_table)', Top.kind \in {"file", "class"},
         NEW name \in {"A", "M"}, NEW x \in Modules, Body(x, name),
         const_table'[Class][name] = x, x # Absent, x \in Opened', Opened \subseteq Opened',
         \A C : Extends(B, C) => CacheOK(C)'
  PROVE  \E C : Whole(C)'
<1>1. StackOK(B) /\ DefinedOK(B) /\ Follows(B, const_table) /\ MethodsOK(B) /\ stack \in Seq(Frames)
  BY DEF Whole, Known, StackOK
<1>2. PICK p, f : /\ p = Append(Top.code, name)
                  /\ f = Frame("class", p, p, Append(Top.scope, x), Top.plain)
  OBVIOUS
<1>3. /\ class_context' = Append(class_context, x)
      /\ class_defined' = With(class_defined, p, class_context')
      /\ stack' = Append(stack, f)
      /\ UNCHANGED methods
  BY <1>2 DEF Body, Enter, Within
<1>4. /\ f.kind = "class" /\ f.code = p /\ f.iseq = p /\ f.plain = Top.plain
      /\ f.scope = Append(Top.scope, x)
  BY <1>2 DEF Frame
<1>5. /\ Top.code \in DOMAIN B /\ Top.code \in Text /\ Top.scope \in Seq(Modules)
      /\ B[Top.code] = class_context
      /\ Top.plain \in BOOLEAN /\ (Top.plain => Around(B[Top.code], Top.scope))
      /\ \A n \in Word : Evals(stack, Append(Top.code, n)) = 0
  BY <1>1, TopText
<1>6. name \in Word /\ name # "eval"
  BY DEF Word
<1>7. p \in Text /\ p[1] = Top.code[1] /\ ~IsEval(p) /\ Evals(stack, p) = 0 /\ Len(p) = Len(Top.code) + 1 /\ Len(Top.code) \in Nat
  <2>1. /\ Append(Top.code, name) \in Text /\ Append(Top.code, name)[1] = Top.code[1]
        /\ Len(Top.code) \in Nat /\ Len(Append(Top.code, name)) = Len(Top.code) + 1
        /\ IsEval(Append(Top.code, name)) <=> name = "eval"
    BY <1>5, <1>6, Places
  <2> QED BY <1>2, <1>5, <1>6, <2>1
<1>8. B[Top.code] \in Seq(Modules) \ {<<>>} /\ Last(B[Top.code]) = Class
  BY <1>1, <1>5 DEF Follows, Class
<1>9. PICK table : table = const_table'
  OBVIOUS
<1>10. Follows(B, table) /\ table[Class][name] = x
  BY <1>9 DEF Follows
<1>11. Extended(B[Top.code], name, table) = Append(class_context, x)
  BY <1>5, <1>8, <1>10 DEF Extended
<1>12. PICK C : Adds(C, B, p, Append(class_context, x), table)
  <2>1. table[Last(B[Top.code])][name] \in Modules \ {Absent}
    BY <1>8, <1>10
  <2>2. \E C : Adds(C, B, Append(Top.code, name), Extended(B[Top.code], name, table), table)
    BY <1>5, <1>6, <1>10, <2>1, KnownMore
  <2> QED BY <1>2, <1>11, <2>2
<1>13. Follows(C, table) /\ Extends(B, C) /\ DOMAIN C = DOMAIN B \cup {p} /\ C[p] = class_context'
  BY <1>3, <1>12 DEF Adds
<1>14. f \in Frames
  BY <1>2, <1>4, <1>5, <1>7 DEF Frame, Frames
<1>15. DOMAIN class_defined' = DOMAIN class_defined \cup {p}
  BY <1>3 DEF With
<1>16. FrameOK(C, f)'
  <2>1. f.plain => Around(C[p], f.scope)
    BY <1>3, <1>4, <1>5, <1>8, <1>13, AroundMore
  <2> QED BY <1>4, <1>7, <1>13, <1>14, <1>15, <2>1 DEF FrameOK
<1>17. OuterOK(stack, f, Len(stack) + 1)
  <2>1. Len(stack) \in Nat \ {0} /\ Top = stack[Len(stack)]
    BY <1>1, TopFacts
  <2>2. OuterOK(stack, Top, Len(stack))
    BY <1>1, <2>1 DEF StackOK, FrameAt
  <2>3. ASSUME NEW j \in 1 .. Len(stack), stack[j].code[1] = p[1]
        PROVE  stack[j].kind \in {"file", "class"} /\ Len(stack[j].code) < Len(p)
    <3>1. CASE j = Len(stack)
      BY <1>7, <2>1, <3>1
    <3>2. CASE j # Len(stack)
      <4>1. j \in 1 .. Len(stack) - 1
        BY <2>1, <3>2
      <4>2. stack[j].kind \in {"file", "class"} /\ Len(stack[j].code) < Len(Top.code)
        BY <1>7, <2>2, <2>3, <4>1 DEF OuterOK
      <4>3. Len(stack[j].code) \in Nat
        BY <1>1 DEF Frames, Text
      <4> QED BY <1>7, <4>2, <4>3
    <3> QED BY <3>1, <3>2
  <2> QED BY <1>4, <2>1, <2>3 DEF OuterOK
<1>18. Entering(C, f, x)
  <2>1. ASSUME NEW c \in DOMAIN class_defined, EvalsOf(stack, c, Len(stack)) # {}
        PROVE  class_defined'[c] = class_defined[c]
    <3>1. c # p
      <4>1. p[1] = Top.code[1]
        BY <1>7
      <4>2. EvalsOf(stack, p, Len(stack)) = {}
        BY <1>1, <4>1, NoEvals
      <4> QED BY <2>1, <4>2
    <3> QED BY <1>3, <3>1 DEF With
  <2>2. x \in Modules \cap Opened' /\ Opened \subseteq Opened'
    OBVIOUS
  <2>3. class_context' = IF Pushes(f.kind) THEN Append(class_context, x) ELSE class_context
    BY <1>3, <1>4 DEF Pushes
  <2>4. f.kind # "eval" /\ C[f.code] = class_context'
    BY <1>4, <1>13
  <2> QED BY <1>3, <1>14, <1>15, <1>16, <1>17, <2>1, <2>2, <2>3, <2>4 DEF Entering
<1>19. DefinedOK(C)'
  <2>1. class_defined' = With(class_defined, p, C[p])
    BY <1>3, <1>13
  <2>2. ASSUME NEW c PROVE Evals(stack', c) = Evals(stack, c)
    BY <1>1, <1>3, <1>4, <1>14, EvalsMore DEF Evals
  <2>3. C[p] \in Seq(Modules) /\ p \in DOMAIN C
    BY <1>13 DEF Follows
  <2> QED BY <1>1, <1>7, <1>13, <2>1, <2>2, <2>3, DefinedMore
<1>20. CacheOK(C)'
  BY <1>13
<1>21. Follows(C, const_table)'
  BY <1>9, <1>13 DEF Follows
<1>22. \A c \in DOMAIN C : c \in DOMAIN B \/ c[1] = f.code[1]
  BY <1>4, <1>13
<1> QED BY <1>3, <1>13, <1>18, <1>19, <1>20, <1>21, <1>22, EnterWhole

LEMMA DefClassStep ==
  ASSUME TablesOK, HierarchyOK, NEW B, Whole(B), DefClass
  PROVE  TablesOK' /\ HierarchyOK' /\ \E C : Whole(C)'
<1>1. StackOK(B) /\ DefinedOK(B) /\ Follows(B, const_table) /\ CacheOK(B)
  BY DEF Whole, Known
<1>2. Top.kind \in {"file", "class"}
  BY DEF DefClass, Nests
<1>3. Class \in Opened /\ Opened \subseteq Modules
  <2>1. Class \in Opened
    BY <1>1, TopFacts
  <2> QED BY <2>1 DEF Opened, Modules, HierarchyOK
<1>4. Absent \notin Modules /\ "Object" \notin Classes
  BY ConstantsAssumption DEF Modules, Absent
<1>5. CASE \E name \in {"A", "M"} :
              /\ const_table[Class][name] # Absent
              /\ Body(const_table[Class][name], name)
              /\ UNCHANGED <<const_table, superclass, cache>>
  <2>1. PICK name \in {"A", "M"} :
              /\ const_table[Class][name] # Absent
              /\ Body(const_table[Class][name], name)
              /\ UNCHANGED <<const_table, superclass, cache>>
    BY <1>5
  <2>2. PICK x : x = const_table[Class][name]
    OBVIOUS
  <2>3. x \in Opened /\ x # Absent /\ Body(x, name)
    BY <1>3, <2>1, <2>2 DEF TablesOK, Opened
  <2>4. UNCHANGED mixed
    BY <2>3 DEF Body
  <2>5. TablesOK' /\ HierarchyOK'
    BY <2>1, <2>4, SameTables DEF HierarchyOK
  <2>6. x \in Modules /\ const_table'[Class][name] = x /\ x \in Opened' /\ Opened \subseteq Opened'
    <3>1. Opened' = Opened
      BY <2>1 DEF Opened, Made
    <3> QED BY <1>3, <2>1, <2>2, <2>3, <3>1
  <2>7. Follows(B, const_table)'
    BY <1>1, <2>1 DEF Follows
  <2>8. ASSUME NEW C, Extends(B, C) PROVE CacheOK(C)'
    BY <1>1, <2>1, <2>4, <2>8, CacheMore
  <2>9. \E C : Whole(C)'
    BY <1>2, <2>3, <2>6, <2>7, <2>8, BodyStep
  <2> QED BY <2>5, <2>9
<1>6. CASE \E c \in Classes \ Made, s \in {"Object"} \cup Made :
              /\ const_table[Class]["A"] = Absent
              /\ superclass' = With(superclass, c, s)
              /\ SetConst(Class, "A", c)
              /\ Body(c, "A")
  <2>1. PICK c \in Classes \ Made, s \in {"Object"} \cup Made :
              /\ const_table[Class]["A"] = Absent
              /\ superclass' = With(superclass, c, s)
              /\ SetConst(Class, "A", c)
              /\ Body(c, "A")
    BY <1>6
  <2>2. const_table' = [const_table EXCEPT ![Class]["A"] = c] /\ cache' = <<>> /\ UNCHANGED mixed
    BY <2>1 DEF SetConst, Body
  <2>3. /\ Made' = Made \cup {c} /\ superclass'[c] = s
        /\ \A d \in Made : superclass'[d] = superclass[d]
    BY <2>1 DEF With, Made
  <2>4. c \in Modules /\ c # Absent /\ c # "Object"
    BY <1>4, <2>1 DEF Modules
  <2>5. PICK table, new : table = const_table /\ new = const_table'
    OBVIOUS
  <2>6. /\ DOMAIN new = Modules
        /\ \A m \in Modules : /\ DOMAIN new[m] = Names /\ new[m]["M"] = table[m]["M"]
                              /\ new[m]["A"] = IF m = Class THEN c ELSE table[m]["A"]
    BY <2>2, <2>5 DEF TablesOK, Names
  <2>7. TablesOK'
    <3>1. \A m \in Modules : new[m]["A"] \in Made' \cup {Absent} /\ new[m]["M"] \in {"Mixin", Absent}
      BY <2>3, <2>5, <2>6 DEF TablesOK
    <3> QED BY <2>5, <2>6, <3>1 DEF TablesOK
  <2>8. HierarchyOK'
    <3>1. Made' \subseteq Classes /\ mixed' \subseteq Modules
      BY <2>2, <2>3 DEF HierarchyOK
    <3>2. \A d \in Made' : superclass'[d] \in {"Object"} \cup Made'
      BY <2>3 DEF HierarchyOK
    <3>3. ASSUME NEW S \in SUBSET Made', S # {} PROVE \E d \in S : superclass'[d] \notin S
      <4>1. CASE S \ {c} = {}
        <5>1. S = {c} /\ s # c
          BY <2>1, <2>4, <3>3, <4>1
        <5> QED BY <2>3, <5>1
      <4>2. CASE S \ {c} # {}
        <5>1. S \ {c} \in SUBSET Made
          BY <2>3
        <5>2. PICK d \in S \ {c} : superclass[d] \notin S \ {c}
          BY <4>2, <5>1 DEF HierarchyOK
        <5>3. superclass[d] \in {"Object"} \cup Made /\ superclass'[d] = superclass[d]
          BY <2>3, <5>1, <5>2 DEF HierarchyOK
        <5> QED BY <2>1, <2>4, <5>2, <5>3
      <4> QED BY <4>1, <4>2
    <3> QED BY <3>1, <3>2, <3>3 DEF HierarchyOK
  <2>9. c \in Opened' /\ Opened \subseteq Opened'
    BY <2>3 DEF Opened
  <2>10. const_table'[Class]["A"] = c
    BY <1>3, <2>5, <2>6
  <2>11. Follows(B, const_table)'
    <3>1. \A m \in Modules, n \in {"A", "M"} : table[m][n] # Absent => new[m][n] = table[m][n]
      BY <2>1, <2>5, <2>6
    <3>2. Follows(B, new)
      BY <1>1, <2>5, <3>1, KnownSame
    <3> QED BY <2>5, <3>2 DEF Follows
  <2>12. ASSUME NEW C PROVE CacheOK(C)'
    BY <2>2 DEF CacheOK
  <2>13. \E C : Whole(C)'
    BY <1>2, <2>1, <2>4, <2>9, <2>10, <2>11, <2>12, BodyStep
  <2> QED BY <2>7, <2>8, <2>13
<1> QED BY <1>5, <1>6 DEF DefClass

(* A file is run: its places are the first of it.                          *)
LEMMA RunsStep ==
  ASSUME TablesOK, HierarchyOK, NEW B, Whole(B), NEW file \in Files, Runs(file)
  PROVE  TablesOK' /\ HierarchyOK' /\ \E C : Whole(C)'
<1>1. /\ StackOK(B) /\ DefinedOK(B) /\ Follows(B, const_table) /\ CacheOK(B) /\ MethodsOK(B) /\ stack \in Seq(Frames)
      /\ \A c \in DOMAIN B : \E g \in Kept : g.code[1] = c[1]
  BY DEF Whole, Known, StackOK
<1>2. PICK p, f : p = <<file>> /\ f = Frame("file", p, p, <<>>, class_context = <<"Object">>)
  OBVIOUS
<1>3. /\ class_defined' = With(class_defined, p, class_context)
      /\ stack' = Append(stack, f)
      /\ UNCHANGED <<const_table, superclass, mixed, class_context, cache, methods>>
  BY <1>2 DEF Runs, Enter
<1>4. \A g \in Kept : g.code[1] # file
  BY DEF Runs, Kept, File
<1>5. /\ f.kind = "file" /\ f.code = p /\ f.iseq = p /\ f.scope = <<>>
      /\ f.plain = (class_context = <<"Object">>)
  BY <1>2 DEF Frame
<1>6. p \in Text /\ p[1] = file /\ Len(p) = 1 /\ ~IsEval(p)
  BY <1>2 DEF Text, Word, IsEval
<1>7. p \notin DOMAIN B
  BY <1>1, <1>4, <1>6
<1>8. class_context \in Seq(Modules) \ {<<>>}
  <2>1. class_context \in Seq(Opened) \ {<<>>} /\ Opened \subseteq Modules
    BY <1>1, TopFacts DEF Opened, Modules, HierarchyOK
  <2> QED BY <2>1
<1>9. PICK C : C = [c \in DOMAIN B \cup {p} |-> IF c = p THEN class_context ELSE B[c]]
  OBVIOUS
<1>10. DOMAIN C = DOMAIN B \cup {p} /\ C[p] = class_context /\ \A c \in DOMAIN B : C[c] = B[c]
  BY <1>7, <1>9
<1>11. Extends(B, C)
  BY <1>10 DEF Extends
<1>12. Follows(C, const_table)
  <2>1. DOMAIN C \subseteq Text /\ C \in [DOMAIN C -> Seq(Modules) \ {<<>>}]
    BY <1>1, <1>6, <1>8, <1>9, <1>10 DEF Follows
  <2>2. ASSUME NEW c \in Text, NEW n \in Word, Append(c, n) \in DOMAIN C
        PROVE  /\ c \in DOMAIN C
               /\ n \in {"A", "M"} => const_table[Last(C[c])][n] # Absent
               /\ C[Append(c, n)] = Extended(C[c], n, const_table)
    <3>1. Append(c, n) # p
      <4>1. Len(c) \in Nat \ {0} /\ Len(Append(c, n)) = Len(c) + 1
        BY Places
      <4> QED BY <1>6, <4>1
    <3>2. Append(c, n) \in DOMAIN B
      BY <1>10, <2>2, <3>1
    <3>3. /\ c \in DOMAIN B
          /\ n \in {"A", "M"} => const_table[Last(B[c])][n] # Absent
          /\ B[Append(c, n)] = Extended(B[c], n, const_table)
      BY <1>1, <3>2 DEF Follows
    <3> QED BY <1>10, <3>2, <3>3
  <2> QED BY <2>1, <2>2 DEF Follows
<1>13. f \in Frames
  BY <1>2, <1>5, <1>6 DEF Frame, Frames
<1>14. DOMAIN class_defined' = DOMAIN class_defined \cup {p}
  BY <1>3 DEF With
<1>15. FrameOK(C, f)'
  <2>1. f.plain => Around(C[p], f.scope)
    <3>1. Around(<<"Object">>, <<>>)
      BY DEF Around
    <3>2. f.plain => C[p] = <<"Object">> /\ f.scope = <<>>
      BY <1>5, <1>10
    <3> QED BY <3>1, <3>2
  <2> QED BY <1>5, <1>6, <1>10, <1>13, <1>14, <2>1 DEF FrameOK
<1>16. EvalsOf(stack, p, Len(stack)) = {}
  <2>1. ASSUME NEW j \in 1 .. Len(stack), stack[j].iseq = p PROVE FALSE
    <3>1. FrameOK(B, stack[j])
      BY <1>1 DEF StackOK, FrameAt
    <3> QED BY <1>7, <2>1, <3>1 DEF FrameOK
  <2> QED BY <2>1 DEF EvalsOf
<1>17. Entering(C, f, "Object")
  <2>1. OuterOK(stack, f, Len(stack) + 1)
    <3>1. ASSUME NEW j \in 1 .. Len(stack) PROVE stack[j].code[1] # file
      <4>1. stack[j] \in Kept
        BY <1>1 DEF Kept, ToSet
      <4> QED BY <1>4, <4>1
    <3>2. Len(stack) \in Nat
      BY <1>1
    <3> QED BY <1>5, <1>6, <3>1, <3>2 DEF OuterOK
  <2>2. class_context' = IF Pushes(f.kind) THEN Append(class_context, "Object") ELSE class_context
    BY <1>3, <1>5 DEF Pushes
  <2>3. "Object" \in Modules \cap Opened' /\ Opened \subseteq Opened'
    BY <1>3 DEF Modules, Opened, Made
  <2>4. ASSUME NEW c \in DOMAIN class_defined, EvalsOf(stack, c, Len(stack)) # {}
        PROVE  class_defined'[c] = class_defined[c]
    BY <1>3, <1>16, <2>4 DEF With
  <2>5. f.kind # "eval" /\ C[f.code] = class_context'
    BY <1>3, <1>5, <1>10
  <2> QED BY <1>3, <1>13, <1>14, <1>15, <2>1, <2>2, <2>3, <2>4, <2>5 DEF Entering
<1>18. DefinedOK(C)'
  <2>1. class_defined' = With(class_defined, p, C[p])
    BY <1>3, <1>10
  <2>2. ASSUME NEW c PROVE Evals(stack', c) = Evals(stack, c)
    BY <1>1, <1>3, <1>5, <1>13, EvalsMore DEF Evals
  <2>3. C[p] \in Seq(Modules) /\ p \in DOMAIN C
    BY <1>8, <1>10
  <2>4. Evals(stack, p) = 0
    BY <1>16, FS_EmptySet DEF Evals
  <2> QED BY <1>1, <1>11, <2>1, <2>2, <2>3, <2>4, DefinedMore
<1>19. CacheOK(C)'
  BY <1>1, <1>3, <1>11, CacheMore
<1>20. Follows(C, const_table)'
  BY <1>3, <1>12 DEF Follows
<1>21. \A c \in DOMAIN C : c \in DOMAIN B \/ c[1] = f.code[1]
  BY <1>5, <1>10
<1>22. Whole(C)'
  BY <1>3, <1>11, <1>17, <1>18, <1>19, <1>20, <1>21, EnterWhole
<1>23. TablesOK' /\ HierarchyOK'
  BY <1>3, SameTables DEF HierarchyOK
<1> QED BY <1>22, <1>23

----------------------------------------------------------------------------
(* The invariant holds *)

LEMMA InitHolds ==
  ASSUME Init
  PROVE  CInv
<1> DEFINE main == <<"main">>
           B == [c \in {main} |-> <<"Object">>]
           f == Frame("file", main, main, <<>>, TRUE)
<1>1. /\ const_table = [c \in Modules |-> [id \in Names |-> IF c = "Object" /\ id = "M" THEN "Mixin" ELSE Absent]]
      /\ superclass = <<>> /\ mixed = {} /\ cache = <<>> /\ methods = {}
      /\ class_defined = [code \in {main} |-> <<"Object">>]
      /\ class_context = <<"Object">> /\ stack = <<f>>
  BY DEF Init
<1>2. Made = {} /\ DOMAIN cache = {}
  BY <1>1 DEF Made
<1>3. TablesOK
  BY <1>1, <1>2 DEF TablesOK, Names, Absent
<1>4. HierarchyOK
  BY <1>1, <1>2 DEF HierarchyOK
<1>5. main \in Text /\ Len(main) = 1 /\ main[1] = "main" /\ "main" \in Word
  BY DEF Text, Word
<1>6. <<"Object">> \in Seq(Modules) \ {<<>>} /\ "Object" \in Opened /\ "Object" \in Modules
  BY DEF Modules, Opened
<1>7. f \in Frames /\ f.kind = "file" /\ f.code = main /\ f.iseq = main /\ f.scope = <<>> /\ f.plain = TRUE
  BY <1>5 DEF Frames, Frame
<1>8. DOMAIN B = {main} /\ B[main] = <<"Object">> /\ B \in [DOMAIN B -> Seq(Modules) \ {<<>>}]
  BY <1>6
<1>9. Len(stack) = 1 /\ stack[1] = f /\ stack \in Seq(Frames) /\ stack # <<>>
  <2> HIDE DEF f
  <2>1. f \in Frames
    BY <1>7
  <2> QED BY <1>1, <2>1
<1>10. DOMAIN class_defined = {main} /\ class_defined[main] = <<"Object">>
  BY <1>1
<1> HIDE DEF B, f, main
<1>11. Follows(B, const_table)
  <2>1. ASSUME NEW c \in Text, NEW n \in Word PROVE Append(c, n) # main
    <3>1. Len(c) \in Nat \ {0} /\ Len(Append(c, n)) = Len(c) + 1
      BY Places
    <3> QED BY <1>5, <3>1
  <2>2. \A c \in Text, n \in Word : Append(c, n) \notin DOMAIN B
    BY <1>8, <2>1
  <2>3. DOMAIN B \subseteq Text
    BY <1>5, <1>8
  <2> QED BY <1>8, <2>2, <2>3 DEF Follows
<1>12. Known(B)
  <2>1. f \in Kept
    BY <1>9 DEF Kept, ToSet
  <2> QED BY <1>7, <1>8, <1>11, <2>1 DEF Known
<1>13. Height(stack, 1) = 1 /\ \A c : Cardinality(EvalsOf(stack, c, 1)) = 0
  <2>1. Pushing(stack, 1) = {} /\ \A c : EvalsOf(stack, c, 1) = {}
    BY <1>7, <1>9 DEF Pushing, EvalsOf, Pushes
  <2> QED BY <2>1, FS_EmptySet DEF Height
<1>14. FrameOK(B, f)
  <2>1. Around(B[main], <<>>)
    BY <1>8 DEF Around
  <2>2. ~IsEval(main)
    BY <1>5 DEF IsEval
  <2> QED BY <1>7, <1>8, <1>10, <2>1, <2>2 DEF FrameOK
<1>15. StackOK(B)
  <2>1. Opens(B, f, 1)
    BY <1>1, <1>7, <1>8 DEF Opens
  <2>2. OuterOK(stack, f, 1)
    BY DEF OuterOK
  <2>3. FrameAt(B, 1)
    BY <1>7, <1>9, <1>13, <1>14, <2>1, <2>2 DEF FrameAt
  <2>4. class_context \in Seq(Opened) /\ Len(class_context) = 1
    BY <1>1, <1>6
  <2>5. \A i \in 1 .. Len(stack) : i = 1
    BY <1>9
  <2> QED BY <1>9, <1>13, <2>3, <2>4, <2>5 DEF StackOK
<1>16. DefinedOK(B)
  <2>1. Len(<<"Object">>) = 1
    OBVIOUS
  <2> QED BY <1>6, <1>8, <1>9, <1>10, <1>13, <2>1 DEF DefinedOK
<1>17. MethodsOK(B) /\ CacheOK(B)
  BY <1>1, <1>2 DEF MethodsOK, CacheOK
<1> QED BY <1>3, <1>4, <1>12, <1>15, <1>16, <1>17 DEF CInv, Whole

LEMMA StepHolds ==
  ASSUME CInv, [Next]_vars
  PROVE  CInv'
<1>1. TablesOK /\ HierarchyOK
  BY DEF CInv
<1>2. PICK B : Whole(B)
  BY DEF CInv
<1>3. Len(stack) \in Nat \ {0} /\ DOMAIN stack = 1 .. Len(stack)
  BY <1>2, TopFacts DEF Whole, StackOK
<1>4. ASSUME NEW k \in DOMAIN stack, Left(k) PROVE CInv'
  BY <1>1, <1>2, <1>4, LeftStep DEF CInv
<1>5. CASE Refer
  <2>1. CASE Referred(Top.code, Top.iseq) # Absent
    <3>1. /\ cache' = IF FindConstCache(Top.code) \/ Top.kind = "eval" THEN cache
                      ELSE With(cache, Top.code, [val |-> Searched(Top.iseq, "X"), mixed |-> mixed,
                                                  under |-> Class, evaluating |-> Evaluating])
          /\ UNCHANGED <<const_table, superclass, mixed, class_defined, class_context, stack, methods>>
      BY <1>5, <2>1 DEF Refer
    <3>2. Whole(B)'
      BY <1>2, <3>1, ReferStep
    <3>3. mixed' \subseteq Modules /\ UNCHANGED <<const_table, superclass>>
      BY <1>1, <3>1 DEF HierarchyOK
    <3>4. TablesOK' /\ HierarchyOK'
      BY <1>1, <3>3, SameTables
    <3> QED BY <3>2, <3>4 DEF CInv
  <2>2. CASE ~(Referred(Top.code, Top.iseq) # Absent)
    BY <1>4, <1>5, <2>2 DEF Refer
  <2> QED BY <2>1, <2>2
<1>6. CASE Assign
  BY <1>1, <1>2, <1>6, AssignStep DEF CInv
<1>7. CASE Include
  BY <1>1, <1>2, <1>7, IncludeStep DEF CInv
<1>8. CASE DefClass
  BY <1>1, <1>2, <1>8, DefClassStep DEF CInv
<1>9. CASE DefMethod
  BY <1>1, <1>2, <1>9, DefMethodStep DEF CInv
<1>10. CASE Call
  BY <1>1, <1>2, <1>10, CallStep DEF CInv
<1>11. CASE ModuleEval
  BY <1>1, <1>2, <1>11, ModuleEvalStep DEF CInv
<1>12. ASSUME UNCHANGED <<const_table, superclass, mixed, class_defined, class_context, stack, methods, cache>>
       PROVE  CInv'
  <2>1. Follows(B, const_table)' /\ CacheOK(B)'
    <3>1. Follows(B, const_table) /\ CacheOK(B)
      BY <1>2 DEF Whole, Known
    <3>2. \A c \in DOMAIN cache' : c \in DOMAIN cache /\ cache'[c] = cache[c] /\ c \in DOMAIN B
      BY <1>12, <3>1 DEF CacheOK
    <3>3. CacheOK(B)'
      BY <1>12, <3>1, <3>2, CacheSame
    <3>4. Follows(B, const_table')
      BY <1>12, <3>1, Zenon
    <3> QED BY <3>3, <3>4
  <2>2. Whole(B)'
    BY <1>2, <1>12, <2>1, OnlyTables
  <2>3. mixed' \subseteq Modules
    BY <1>1, <1>12 DEF HierarchyOK
  <2>4. TablesOK' /\ HierarchyOK'
    BY <1>1, <1>12, <2>3, SameTables
  <2> QED BY <2>2, <2>4 DEF CInv
<1>13. ASSUME NEW f \in Files, NEW repeat, LoadExec(f, repeat) PROVE CInv'
  <2>1. CASE Runs(f)
    BY <1>1, <1>2, <2>1, RunsStep DEF CInv
  <2>2. CASE Unreadable
    BY <1>4, <2>2 DEF Unreadable
  <2> QED BY <1>12, <1>13, <2>1, <2>2 DEF LoadExec
<1>14. CASE Require
  BY <1>13, <1>14 DEF Require
<1>15. CASE Load
  BY <1>13, <1>15 DEF Load
<1>16. CASE Raise
  <2>1. PICK k \in 1 .. Len(stack) - 1 : Left(k)
    BY <1>16 DEF Raise
  <2>2. k \in DOMAIN stack
    BY <1>3
  <2> QED BY <1>4, <2>1, <2>2
<1>17. CASE Return
  <2>1. Left(Len(stack) - 1) /\ Len(stack) - 1 \in DOMAIN stack
    BY <1>3, <1>17 DEF Return
  <2> QED BY <1>4, <2>1
<1>18. CASE UNCHANGED vars
  BY <1>12, <1>18 DEF vars
<1> QED BY <1>5, <1>6, <1>7, <1>8, <1>9, <1>10, <1>11, <1>14, <1>15, <1>16, <1>17, <1>18 DEF Next

(* Every state that the program can be in has the invariant.              *)
THEOREM Invariant == Spec => []CInv
<1>1. Init => CInv
  BY InitHolds
<1>2. CInv /\ [Next]_vars => CInv'
  BY StepHolds
<1> QED BY <1>1, <1>2, PTL DEF Spec

----------------------------------------------------------------------------
(* The ancestors of a class: itself and those of its superclass. *)

Own(d) == <<d>> \o (IF d \in mixed THEN <<"Mixin">> ELSE <<>>)
UpOf == CHOOSE up : up = [d \in Modules |-> Own(d) \o (IF d \in Made THEN up[superclass[d]] ELSE <<>>)]

LEMMA Join ==
  ASSUME NEW S, NEW s \in Seq(S), NEW t \in Seq(S)
  PROVE  /\ s \o t \in Seq(S) /\ Len(s \o t) = Len(s) + Len(t) /\ Len(s) \in Nat /\ Len(t) \in Nat
         /\ \A k \in 1 .. Len(s) : (s \o t)[k] = s[k]
         /\ \A k \in 1 .. Len(t) : (s \o t)[Len(s) + k] = t[k]
  OBVIOUS

LEMMA OwnFacts ==
  ASSUME NEW d \in Modules
  PROVE  Own(d) \in Seq(Modules) /\ Len(Own(d)) \in Nat \ {0} /\ Own(d)[1] = d /\ Own(d) \o <<>> = Own(d)
<1>1. "Mixin" \in Modules
  BY DEF Modules
<1>2. <<d>> \in Seq(Modules) /\ (IF d \in mixed THEN <<"Mixin">> ELSE <<>>) \in Seq(Modules)
      /\ Len(<<d>>) = 1 /\ <<d>>[1] = d
  BY <1>1
<1>3. Own(d) \in Seq(Modules) /\ Len(Own(d)) \in Nat \ {0} /\ Own(d)[1] = d
  BY <1>2, Join DEF Own
<1> QED BY <1>3

LEMMA AncestorsFacts ==
  ASSUME HierarchyOK
  PROVE  /\ \A d \in Modules : Ancestors(d) \in Seq(Modules)
         /\ \A d \in Modules \ Made : Ancestors(d) = Own(d)
         /\ \A d \in Made : Ancestors(d) = Own(d) \o Ancestors(superclass[d])
<1> DEFINE V == Seq(Modules)
           stop == Modules \ Made
           nxt == [c \in Modules \ stop |-> superclass[c]]
           val == [c \in stop |-> Own(c)]
           step == [p \in (Modules \ stop) \X V |-> Own(p[1]) \o p[2]]
<1>1. /\ Made \subseteq Modules /\ Modules \ stop = Made
      /\ \A c \in Made : superclass[c] \in Modules
  BY DEF HierarchyOK, Modules
<1>2. IsFiniteSet(Modules)
  <2>1. IsFiniteSet(Classes)
    BY ConstantsAssumption
  <2>2. Modules = (Classes \cup {"Mixin"}) \cup {"Object"}
    BY DEF Modules
  <2>3. IsFiniteSet(Classes \cup {"Mixin"})
    BY <2>1, FS_AddElement
  <2> QED BY <2>2, <2>3, FS_AddElement
<1>3. stop \in SUBSET Modules /\ nxt \in [Modules \ stop -> Modules]
  BY <1>1
<1>4. val \in [stop -> V]
  BY OwnFacts
<1>5. \A c \in Modules, v \in V : Own(c) \o v \in V
  <2> SUFFICES ASSUME NEW c \in Modules, NEW v \in V PROVE Own(c) \o v \in V
    OBVIOUS
  <2>1. Own(c) \in V
    BY OwnFacts
  <2> QED BY <2>1, Join
<1>6. step \in [(Modules \ stop) \X V -> V]
  <2> HIDE DEF V
  <2> QED BY <1>1, <1>5
<1>7. LeadsOut(Modules, nxt, stop)
  <2> SUFFICES ASSUME NEW S \in SUBSET (Modules \ stop), S # {} PROVE \E m \in S : nxt[m] \notin S
    BY DEF LeadsOut
  <2>1. PICK m \in S : superclass[m] \notin S
    BY <1>1 DEF HierarchyOK
  <2> QED BY <2>1
<1>8. \A c \in stop : val[c] = Own(c)
  OBVIOUS
<1>9. \A c \in Made, v \in V : nxt[c] = superclass[c] /\ step[c, v] = Own(c) \o v
  BY <1>1
<1> HIDE DEF nxt, val, step, V
<1>10. PICK f : Solves(f, Modules, nxt, val, step, stop, V)
  BY <1>2, <1>3, <1>4, <1>6, <1>7, Recursion
<1>11. /\ f \in [Modules -> V]
       /\ \A d \in Modules : f[d] = IF d \in stop THEN val[d] ELSE step[d, f[nxt[d]]]
  BY <1>10 DEF Solves
<1>12. ASSUME NEW d \in Made PROVE f[d] = Own(d) \o f[superclass[d]]
  <2>1. d \in Modules /\ d \notin stop /\ superclass[d] \in Modules
    BY <1>1
  <2>2. f[d] = step[d, f[nxt[d]]] /\ nxt[d] = superclass[d]
    BY <1>9, <1>11, <2>1
  <2>3. f[superclass[d]] \in V
    BY <1>11, <2>1
  <2> QED BY <1>9, <2>2, <2>3
<1>13. ASSUME NEW d \in Modules \ Made PROVE f[d] = Own(d)
  BY <1>8, <1>11
<1>14. f = [d \in Modules |-> Own(d) \o (IF d \in Made THEN f[superclass[d]] ELSE <<>>)]
  <2>1. ASSUME NEW d \in Modules PROVE f[d] = Own(d) \o (IF d \in Made THEN f[superclass[d]] ELSE <<>>)
    <3>1. CASE d \in Made
      BY <1>12, <3>1
    <3>2. CASE d \notin Made
      BY <1>13, <3>2, OwnFacts
    <3> QED BY <3>1, <3>2
  <2> QED BY <1>11, <2>1
<1>15. UpOf = [d \in Modules |-> Own(d) \o (IF d \in Made THEN UpOf[superclass[d]] ELSE <<>>)]
  BY <1>14 DEF UpOf
<1>16. \A d : Ancestors(d) = UpOf[d]
  BY DEF Ancestors, UpOf, Own
<1>17. \A d \in Modules \ Made : Ancestors(d) = Own(d)
  BY <1>15, <1>16, OwnFacts
<1>18. \A d \in Made : Ancestors(d) = Own(d) \o Ancestors(superclass[d])
  BY <1>1, <1>15, <1>16
<1>19. ASSUME NEW d \in Modules, Ancestors(d) \notin V PROVE FALSE
  <2> DEFINE S == {c \in Modules : Ancestors(c) \notin V}
  <2>1. S \subseteq Made
    BY <1>17, OwnFacts DEF V
  <2>2. S # {}
    BY <1>19
  <2>3. PICK c \in S : superclass[c] \notin S
    <3> HIDE DEF S
    <3> QED BY <2>1, <2>2 DEF HierarchyOK
  <2>4. c \in Made /\ c \in Modules /\ superclass[c] \in Modules
    BY <1>1, <2>1, <2>3
  <2>5. Ancestors(superclass[c]) \in V
    BY <2>3, <2>4
  <2>6. Ancestors(c) \in V
    BY <1>5, <1>18, <2>4, <2>5
  <2> QED BY <2>3, <2>6
<1> QED BY <1>17, <1>18, <1>19 DEF V

(* Every class that was made has Object for an ancestor.                   *)
LEMMA ObjectAbove ==
  ASSUME HierarchyOK, NEW d \in {"Object"} \cup Made
  PROVE  \E i \in 1 .. Len(Ancestors(d)) : Ancestors(d)[i] = "Object"
<1> DEFINE Above(c) == \E i \in 1 .. Len(Ancestors(c)) : Ancestors(c)[i] = "Object"
           S == {c \in Made : ~Above(c)}
<1>1. Made \subseteq Modules /\ "Object" \in Modules \ Made
  BY ConstantsAssumption DEF HierarchyOK, Modules
<1>2. Above("Object")
  <2>1. Ancestors("Object") = Own("Object")
    BY <1>1, AncestorsFacts
  <2> QED BY <1>1, <2>1, OwnFacts
<1>3. S = {}
  <2> SUFFICES ASSUME S # {} PROVE FALSE
    OBVIOUS
  <2>1. PICK c \in S : superclass[c] \notin S
    <3>1. S \in SUBSET Made
      OBVIOUS
    <3> HIDE DEF S
    <3> QED BY <3>1 DEF HierarchyOK
  <2>2. c \in Made /\ ~Above(c) /\ superclass[c] \in {"Object"} \cup Made
    BY <2>1 DEF HierarchyOK
  <2>3. Above(superclass[c])
    BY <1>2, <2>1, <2>2
  <2>4. /\ Ancestors(c) = Own(c) \o Ancestors(superclass[c])
        /\ Own(c) \in Seq(Modules) /\ Ancestors(superclass[c]) \in Seq(Modules)
    <3>1. superclass[c] \in Modules /\ c \in Modules
      BY <1>1, <2>2
    <3> QED BY <2>2, <3>1, AncestorsFacts, OwnFacts
  <2>5. PICK i \in 1 .. Len(Ancestors(superclass[c])) : Ancestors(superclass[c])[i] = "Object"
    BY <2>3
  <2>6. PICK s, t : s = Own(c) /\ t = Ancestors(superclass[c])
    OBVIOUS
  <2>7. /\ s \in Seq(Modules) /\ t \in Seq(Modules) /\ Ancestors(c) = s \o t /\ i \in 1 .. Len(t) /\ t[i] = "Object"
    BY <2>4, <2>5, <2>6
  <2>8. Len(s) + i \in 1 .. Len(s \o t) /\ (s \o t)[Len(s) + i] = "Object"
    BY <2>7, Join
  <2> QED BY <2>2, <2>7, <2>8
<1> QED BY <1>2, <1>3

----------------------------------------------------------------------------
(* The first of a list of modules that has a constant X. *)

FirstAt(s, i) ==
    i \in 1 .. Len(s) /\ const_table[s[i]]["X"] # Absent /\ \A j \in 1 .. i - 1 : const_table[s[j]]["X"] = Absent
None(s) == \A i \in 1 .. Len(s) : const_table[s[i]]["X"] = Absent
In(s) == InFirst(s, "X")

LEMMA FirstFacts ==
  ASSUME NEW s \in Seq(Modules)
  PROVE  /\ None(s) => In(s) = Absent
         /\ ~None(s) => \E i : FirstAt(s, i)
         /\ \A i : FirstAt(s, i) => In(s) = const_table[s[i]]["X"] /\ In(s) # Absent
<1> DEFINE found == {i \in DOMAIN s : s[i] \in Has("X")}
<1>1. /\ DOMAIN s = 1 .. Len(s) /\ Len(s) \in Nat
      /\ \A i \in DOMAIN s : s[i] \in Modules
  OBVIOUS
<1>2. \A i : i \in found <=> i \in 1 .. Len(s) /\ const_table[s[i]]["X"] # Absent
  BY <1>1 DEF Has
<1>3. In(s) = IF found = {} THEN Absent ELSE const_table[s[Min(found)]]["X"]
  BY DEF In, InFirst
<1> HIDE DEF found
<1>4. None(s) => In(s) = Absent
  BY <1>2, <1>3 DEF None
<1>5. ASSUME ~None(s) PROVE \E i : FirstAt(s, i)
  <2>1. found # {} /\ found \in SUBSET Nat
    BY <1>1, <1>2, <1>5 DEF None
  <2>2. PICK i \in found : \A j \in found : i <= j
    BY <2>1, Least
  <2>3. FirstAt(s, i)
    BY <1>1, <1>2, <2>2 DEF FirstAt
  <2> QED BY <2>3
<1>6. ASSUME NEW i, FirstAt(s, i) PROVE In(s) = const_table[s[i]]["X"] /\ In(s) # Absent
  <2>1. i \in found /\ \A j \in found : i <= j
    BY <1>1, <1>2, <1>6 DEF FirstAt
  <2>2. \A j \in found : j \in Nat
    BY <1>1, <1>2
  <2>3. Min(found) = i
    <3>1. PICK x : x = Min(found)
      OBVIOUS
    <3>2. \E y : y \in found /\ \A z \in found : y =< z
      BY <2>1
    <3>3. x \in found /\ \A z \in found : x =< z
      BY <3>1, <3>2, Zenon DEF Min
    <3> QED BY <2>1, <2>2, <3>1, <3>3
  <2> QED BY <1>3, <1>6, <2>1, <2>3 DEF FirstAt
<1> QED BY <1>4, <1>5, <1>6

(* A list within another one, searched before the rest.                    *)
LEMMA InTwo ==
  ASSUME NEW s \in Seq(Modules), NEW t \in Seq(Modules)
  PROVE  In(s \o t) = IF In(s) # Absent THEN In(s) ELSE In(t)
<1> DEFINE u == s \o t
<1>1. /\ u \in Seq(Modules) /\ Len(u) = Len(s) + Len(t) /\ Len(s) \in Nat /\ Len(t) \in Nat
      /\ \A k \in 1 .. Len(s) : u[k] = s[k]
      /\ \A k \in 1 .. Len(t) : u[Len(s) + k] = t[k]
  BY Join
<1>2. \A k \in 1 .. Len(u) : k \in 1 .. Len(s) \/ \E m \in 1 .. Len(t) : k = Len(s) + m /\ u[k] = t[m]
  <2> SUFFICES ASSUME NEW k \in 1 .. Len(u), k \notin 1 .. Len(s)
               PROVE  \E m \in 1 .. Len(t) : k = Len(s) + m /\ u[k] = t[m]
    OBVIOUS
  <2>1. k - Len(s) \in 1 .. Len(t) /\ k = Len(s) + (k - Len(s))
    BY <1>1
  <2> QED BY <1>1, <2>1
<1> HIDE DEF u
<1>3. CASE ~None(s)
  <2>1. PICK i : FirstAt(s, i)
    BY <1>3, FirstFacts
  <2>2. FirstAt(u, i) /\ u[i] = s[i]
    <3>1. i \in 1 .. Len(s) /\ const_table[s[i]]["X"] # Absent
          /\ \A j \in 1 .. i - 1 : const_table[s[j]]["X"] = Absent
      BY <2>1 DEF FirstAt
    <3>2. i \in 1 .. Len(u) /\ u[i] = s[i] /\ \A j \in 1 .. i - 1 : j \in 1 .. Len(s)
      BY <1>1, <3>1
    <3>3. \A j \in 1 .. i - 1 : u[j] = s[j]
      BY <1>1, <3>2
    <3> QED BY <3>1, <3>2, <3>3 DEF FirstAt
  <2>3. In(s) = const_table[s[i]]["X"] /\ In(s) # Absent /\ In(u) = const_table[u[i]]["X"]
    BY <1>1, <2>1, <2>2, FirstFacts
  <2> QED BY <2>2, <2>3 DEF u
<1>4. CASE None(s) /\ ~None(t)
  <2>1. PICK i : FirstAt(t, i)
    BY <1>4, FirstFacts
  <2>2. FirstAt(u, Len(s) + i) /\ u[Len(s) + i] = t[i]
    <3>1. Len(s) + i \in 1 .. Len(u) /\ u[Len(s) + i] = t[i]
      BY <1>1, <2>1 DEF FirstAt
    <3>2. ASSUME NEW j \in 1 .. (Len(s) + i) - 1 PROVE const_table[u[j]]["X"] = Absent
      <4>1. i \in 1 .. Len(t) /\ j \in 1 .. Len(u)
        BY <1>1, <2>1 DEF FirstAt
      <4>2. CASE j \in 1 .. Len(s)
        BY <1>1, <1>4, <4>2 DEF None
      <4>3. CASE j \notin 1 .. Len(s)
        <5>1. PICK m \in 1 .. Len(t) : j = Len(s) + m /\ u[j] = t[m]
          BY <1>2, <4>1, <4>3
        <5>2. m \in 1 .. i - 1
          BY <1>1, <4>1, <5>1
        <5> QED BY <2>1, <5>1, <5>2 DEF FirstAt
      <4> QED BY <4>2, <4>3
    <3> QED BY <2>1, <3>1, <3>2 DEF FirstAt
  <2>3. In(t) = const_table[t[i]]["X"] /\ In(u) = const_table[u[Len(s) + i]]["X"]
    BY <1>1, <2>1, <2>2, FirstFacts
  <2>4. In(s) = Absent
    BY <1>4, FirstFacts
  <2> QED BY <2>2, <2>3, <2>4 DEF u
<1>5. CASE None(s) /\ None(t)
  <2>1. None(u)
    <3> SUFFICES ASSUME NEW k \in 1 .. Len(u) PROVE const_table[u[k]]["X"] = Absent
      BY DEF None
    <3>1. CASE k \in 1 .. Len(s)
      BY <1>1, <1>5, <3>1 DEF None
    <3>2. CASE k \notin 1 .. Len(s)
      <4>1. PICK m \in 1 .. Len(t) : u[k] = t[m]
        BY <1>2, <3>2
      <4> QED BY <1>5, <4>1 DEF None
    <3> QED BY <3>1, <3>2
  <2>2. In(s) = Absent /\ In(t) = Absent /\ In(u) = Absent
    BY <1>1, <1>5, <2>1, FirstFacts
  <2> QED BY <2>2 DEF u
<1> QED BY <1>3, <1>4, <1>5

LEMMA NotIn ==
  ASSUME NEW s \in Seq(Modules)
  PROVE  In(s) = Absent <=> None(s)
  BY FirstFacts

(* Backwards, and behind Object.                                           *)
LEMMA Backwards ==
  ASSUME NEW s \in Seq(Modules)
  PROVE  Reverse(s) \in Seq(Modules) /\ (In(Reverse(s)) = Absent => In(s) = Absent)
<1> DEFINE r == Reverse(s)
<1>1. r \in Seq(Modules) /\ Len(r) = Len(s) /\ Len(s) \in Nat /\ \A i \in 1 .. Len(s) : r[i] = s[(Len(s) - i) + 1]
  BY DEF Reverse
<1> HIDE DEF r
<1>2. ASSUME None(r), NEW i \in 1 .. Len(s) PROVE const_table[s[i]]["X"] = Absent
  <2>1. PICK j : j = (Len(s) - i) + 1
    OBVIOUS
  <2>2. j \in 1 .. Len(r) /\ (Len(s) - j) + 1 = i
    BY <1>1, <2>1
  <2>3. r[j] = s[i]
    BY <1>1, <2>2
  <2> QED BY <1>2, <2>2, <2>3 DEF None
<1>3. None(r) => None(s)
  BY <1>2 DEF None
<1> QED BY <1>1, <1>3, NotIn DEF r

----------------------------------------------------------------------------
(* What a search finds *)

(* In code whose classes d are Object and those of its text: those of the  *)
(* text from within, or Object if there are none.                          *)
LEMMA SearchOut ==
  ASSUME NEW d \in Seq(Modules), NEW scope \in Seq(Modules), Around(d, scope)
  PROVE  /\ Len(d) = Len(scope) + 1 /\ Len(scope) \in Nat
         /\ (IF Len(d) = 1 THEN d ELSE Reverse(Tail(d))) = IF scope = <<>> THEN <<"Object">> ELSE Reverse(scope)
<1>1. /\ Len(d) = Len(scope) + 1 /\ Len(scope) \in Nat /\ d # <<>> /\ Len(d) \in Nat \ {0}
      /\ d[1] = "Object" /\ \A k \in 1 .. Len(scope) : d[k + 1] = scope[k]
  BY DEF Around
<1>2. CASE scope = <<>>
  <2>1. Len(d) = 1 /\ Len(<<"Object">>) = 1 /\ <<"Object">>[1] = "Object" /\ <<"Object">> \in Seq(Modules)
    BY <1>1, <1>2 DEF Modules
  <2>2. \A k \in 1 .. Len(d) : d[k] = <<"Object">>[k]
    BY <1>1, <2>1
  <2>3. d = <<"Object">>
    BY <2>1, <2>2, SeqEqual
  <2> QED BY <1>1, <1>2, <2>1, <2>3
<1>3. CASE scope # <<>>
  <2>1. Len(d) # 1
    BY <1>1, <1>3
  <2>2. /\ Tail(d) \in Seq(Modules) /\ Len(Tail(d)) = Len(d) - 1
        /\ \A k \in 1 .. Len(d) - 1 : Tail(d)[k] = d[k + 1]
    BY <1>1, TailFacts
  <2>3. Len(Tail(d)) = Len(scope) /\ \A k \in 1 .. Len(scope) : Tail(d)[k] = scope[k]
    BY <1>1, <2>2
  <2>4. Tail(d) = scope
    BY <2>2, <2>3, SeqEqual
  <2> QED BY <1>1, <1>3, <2>1, <2>4
<1> QED BY <1>2, <1>3

(* Behind all the ancestors of a class, Object is there already.           *)
LEMMA ObjectLast ==
  ASSUME HierarchyOK, NEW c \in Opened
  PROVE  /\ GetSuperConst(c, "X") = In(Ancestors(c) \o <<"Object">>)
         /\ Ancestors(c) \in Seq(Modules) /\ <<"Object">> \in Seq(Modules)
<1>1. c \in Modules /\ "Object" \in Modules
  BY DEF HierarchyOK, Opened, Modules
<1>2. PICK s : s = Ancestors(c)
  OBVIOUS
<1>3. s \in Seq(Modules) /\ <<"Object">> \in Seq(Modules) /\ Len(<<"Object">>) = 1 /\ <<"Object">>[1] = "Object"
  BY <1>1, <1>2, AncestorsFacts
<1>4. CASE c = "Mixin"
  BY <1>2, <1>3, <1>4 DEF GetSuperConst, In
<1>5. CASE c # "Mixin"
  <2>1. s \o <<>> = s
    BY <1>3
  <2>2. GetSuperConst(c, "X") = In(s)
    BY <1>2, <1>5, <2>1 DEF GetSuperConst, In
  <2>3. CASE In(s) # Absent
    BY <1>2, <1>3, <2>2, <2>3, InTwo
  <2>4. CASE In(s) = Absent
    <3>1. PICK i \in 1 .. Len(s) : s[i] = "Object"
      BY <1>2, <1>5, ObjectAbove DEF Opened
    <3>2. const_table["Object"]["X"] = Absent
      BY <1>3, <2>4, <3>1, NotIn DEF None
    <3>3. None(<<"Object">>)
      BY <1>3, <3>2 DEF None
    <3>4. In(<<"Object">>) = Absent
      BY <1>3, <3>3, NotIn
    <3> QED BY <1>2, <1>3, <2>2, <2>4, <3>4, InTwo
  <2> QED BY <2>3, <2>4
<1> QED BY <1>2, <1>3, <1>4, <1>5

(* Two ways to say what Ruby finds.                                        *)
Outer(scope) == Last(<<"Object">> \o scope)
LEMMA RubyFinds ==
  ASSUME HierarchyOK, NEW scope \in Seq(Modules), NEW c, c = Outer(scope), c \in Opened
  PROVE  In(Reverse(scope) \o Ancestors(c) \o <<"Object">>)
           = IF In(Reverse(scope)) # Absent THEN In(Reverse(scope)) ELSE GetSuperConst(c, "X")
<1>1. PICK r, s, t : r = Reverse(scope) /\ s = Ancestors(c) /\ t = <<"Object">>
  OBVIOUS
<1>2. r \in Seq(Modules) /\ s \in Seq(Modules) /\ t \in Seq(Modules)
  BY <1>1, Backwards, ObjectLast
<1>3. GetSuperConst(c, "X") = In(s \o t)
  BY <1>1, ObjectLast
<1>4. In((r \o s) \o t) = IF In(r \o s) # Absent THEN In(r \o s) ELSE In(t)
  <2>1. r \o s \in Seq(Modules)
    BY <1>2, Join
  <2> QED BY <1>2, <2>1, InTwo
<1>5. In(r \o s) = IF In(r) # Absent THEN In(r) ELSE In(s)
  BY <1>2, InTwo
<1>6. In(s \o t) = IF In(s) # Absent THEN In(s) ELSE In(t)
  BY <1>2, InTwo
<1> QED BY <1>1, <1>3, <1>4, <1>5, <1>6

LEMMA OuterFacts ==
  ASSUME NEW scope \in Seq(Modules)
  PROVE  Outer(scope) = IF scope = <<>> THEN "Object" ELSE scope[Len(scope)]
<1>1. PICK t : t = <<"Object">>
  OBVIOUS
<1>2. t \in Seq(Modules) /\ Len(t) = 1 /\ t[1] = "Object"
  BY <1>1 DEF Modules
<1>3. Len(t \o scope) = 1 + Len(scope) /\ Len(scope) \in Nat
  <2>1. Len(t \o scope) = Len(t) + Len(scope) /\ Len(scope) \in Nat
    BY <1>2, Join
  <2> QED BY <1>2, <2>1
<1>4. CASE scope = <<>>
  BY <1>1, <1>2, <1>3, <1>4, Join DEF Outer, Last
<1>5. CASE scope # <<>>
  <2>1. Len(scope) \in 1 .. Len(scope)
    BY <1>3, <1>5
  <2>2. (t \o scope)[Len(t) + Len(scope)] = scope[Len(scope)]
    BY <1>2, <2>1, Join
  <2> QED BY <1>1, <1>2, <1>3, <1>5, <2>2 DEF Outer, Last
<1> QED BY <1>4, <1>5

(* The code in progress is defined in Object and the classes of its text,  *)
(* a string in the class that it pushed besides; of code that is no method *)
(* and no block, the class of the context is the innermost.                *)
LEMMA TopAround ==
  ASSUME NEW B, Whole(B), HierarchyOK, ~Evaluating, Top.plain
  PROVE  /\ class_defined[Top.iseq] \in Seq(Modules) /\ Top.scope \in Seq(Modules)
         /\ Around(class_defined[Top.iseq], Top.scope)
         /\ Top.kind \in {"file", "class", "eval"} => Class = Outer(Top.scope)
<1>1. StackOK(B) /\ DefinedOK(B) /\ Follows(B, const_table)
  BY DEF Whole, Known
<1>2. PICK c, d, scope : c = Top.iseq /\ d = class_defined[c] /\ scope = Top.scope
  OBVIOUS
<1>3. /\ FrameOK(B, Top) /\ Top \in Frames /\ Class = class_context[Len(class_context)]
      /\ Len(class_context) = Height(stack, Len(stack)) /\ Len(class_context) \in Nat \ {0}
      /\ Len(stack) \in Nat \ {0} /\ Top = stack[Len(stack)] /\ Class \in Modules
  <2>1. Class \in Opened
    BY <1>1, TopFacts
  <2>2. Class \in Modules
    BY <2>1 DEF HierarchyOK, Opened, Modules
  <2> QED BY <1>1, <2>2, TopFacts
<1>4. /\ c \in DOMAIN class_defined /\ c \in DOMAIN B /\ d \in Seq(Modules) /\ scope \in Seq(Modules)
      /\ Len(d) = Len(B[c]) + Cardinality(EvalsOf(stack, c, Len(stack)))
      /\ \A k \in 1 .. Len(B[c]) : d[k] = B[c][k]
      /\ B[c] \in Seq(Modules) \ {<<>>}
  BY <1>1, <1>2, <1>3 DEF FrameOK, DefinedOK, Frames, Follows
<1>5. CASE Top.kind # "eval"
  <2>1. d = B[c] /\ B[c] = B[Top.code]
    BY <1>1, <1>2, <1>5, NotEvaluated
  <2>2. Around(d, scope)
    BY <1>2, <1>3, <1>5, <2>1 DEF FrameOK
  <2>3. ASSUME Top.kind \in {"file", "class"} PROVE Class = Outer(scope)
    <3>1. d = class_context
      BY <1>1, <1>2, <2>1, <2>3, TopText
    <3>2. Class = d[Len(d)] /\ Len(d) = Len(scope) + 1 /\ Len(scope) \in Nat
      BY <1>3, <1>4, <2>2, <3>1 DEF Around
    <3>3. CASE scope = <<>>
      <4>1. Len(d) = 1 /\ d[1] = "Object"
        BY <2>2, <3>2, <3>3 DEF Around
      <4>2. Outer(scope) = "Object"
        BY <1>4, <3>3, OuterFacts
      <4> QED BY <3>2, <4>1, <4>2
    <3>4. CASE scope # <<>>
      <4>1. Len(scope) \in 1 .. Len(scope)
        BY <1>4, <3>2, <3>4
      <4>2. d[Len(scope) + 1] = scope[Len(scope)]
        BY <2>2, <4>1 DEF Around
      <4> QED BY <1>4, <3>2, <3>4, <4>2, OuterFacts
    <3> QED BY <3>3, <3>4
  <2> QED BY <1>2, <1>4, <1>5, <2>2, <2>3
<1>6. CASE Top.kind = "eval"
  <2>1. EvalsOf(stack, c, Len(stack)) = {Len(stack)}
    <3>1. \A j \in 1 .. Len(stack) : j # Len(stack) => j \in 1 .. Len(stack) - 1
      BY <1>3
    <3>2. \A j \in 1 .. Len(stack) - 1 : ~(stack[j].kind = "eval" /\ stack[j].iseq = c)
      BY <1>2 DEF Evaluating
    <3>3. Len(stack) \in 1 .. Len(stack) /\ stack[Len(stack)].kind = "eval" /\ stack[Len(stack)].iseq = c
      BY <1>2, <1>3, <1>6
    <3> QED BY <3>1, <3>2, <3>3 DEF EvalsOf
  <2>2. Cardinality(EvalsOf(stack, c, Len(stack))) = 1
    BY <2>1, FS_Singleton
  <2>3. Evaluates(B, Top, Height(stack, Len(stack)), 1)
    <3>1. FrameAt(B, Len(stack))
      BY <1>1, <1>3 DEF StackOK
    <3> QED BY <1>2, <1>3, <1>6, <2>2, <3>1 DEF FrameAt
  <2>4. PICK t \in Seq(Modules) : /\ scope = Append(t, Class)
                                  /\ Around(B[c], t)
                                  /\ d[Len(B[c]) + 1] = Class
    BY <1>2, <1>3, <2>3 DEF Evaluates
  <2>5. PICK b : b = B[c]
    OBVIOUS
  <2>6. Len(scope) = Len(t) + 1 /\ Len(t) \in Nat /\ scope[Len(t) + 1] = Class
        /\ \A k \in 1 .. Len(t) : scope[k] = t[k]
    BY <1>3, <2>4, AppendFacts
  <2>7. Len(b) = Len(t) + 1 /\ b[1] = "Object" /\ \A k \in 1 .. Len(t) : b[k + 1] = t[k]
    BY <2>4, <2>5 DEF Around
  <2>8. Len(d) = Len(b) + 1 /\ (\A k \in 1 .. Len(b) : d[k] = b[k]) /\ d[Len(b) + 1] = Class
    BY <1>4, <2>2, <2>4, <2>5
  <2>9. Around(d, scope)
    <3>1. Len(d) = Len(scope) + 1 /\ d[1] = "Object"
      BY <2>6, <2>7, <2>8
    <3>2. ASSUME NEW k \in 1 .. Len(scope) PROVE d[k + 1] = scope[k]
      <4>1. CASE k = Len(t) + 1
        BY <2>6, <2>7, <2>8, <4>1
      <4>2. CASE k # Len(t) + 1
        <5>1. k \in 1 .. Len(t) /\ k + 1 \in 1 .. Len(b)
          BY <2>6, <2>7, <4>2
        <5> QED BY <2>6, <2>7, <2>8, <5>1
      <4> QED BY <4>1, <4>2
    <3> QED BY <3>1, <3>2 DEF Around
  <2>10. Class = Outer(scope)
    <3>1. scope # <<>> /\ scope[Len(scope)] = Class
      BY <2>6
    <3> QED BY <1>4, <3>1, OuterFacts
  <2> QED BY <1>2, <1>4, <2>9, <2>10
<1> QED BY <1>5, <1>6

LEMMA CacheRight ==
  ASSUME CInv
  PROVE  CacheTransparent
<1>1. PICK B : Whole(B)
  BY DEF CInv
<1>2. StackOK(B) /\ DefinedOK(B) /\ Follows(B, const_table) /\ CacheOK(B)
  BY <1>1 DEF Whole, Known
<1>3. PICK entry : entry = cache[Top.code]
  OBVIOUS
<1> SUFFICES ASSUME Top.code \in DOMAIN cache, entry.mixed = mixed, entry.under = Class,
                    ~entry.evaluating, ~Evaluating
             PROVE  entry.val = Searched(Top.iseq, "X")
  BY <1>3 DEF CacheTransparent, FindConstCache
<1>4. entry.val = SearchedIn(B[Top.code], Class) /\ ~IsEval(Top.code)
  BY <1>2, <1>3 DEF CacheOK
<1>5. FrameOK(B, Top)
  BY <1>2, TopFacts
<1>6. Top.kind # "eval"
  BY <1>4, <1>5 DEF FrameOK
<1>7. class_defined[Top.iseq] = B[Top.code]
  BY <1>2, <1>6, NotEvaluated
<1> QED BY <1>4, <1>7, SearchedAt

LEMMA SearchRight ==
  ASSUME CInv
  PROVE  SearchesAsRuby
<1>1. PICK B : Whole(B)
  BY DEF CInv
<1> SUFFICES ASSUME Top.plain, ~Evaluating,
                    ~(Top.kind \in {"method", "block"} /\ InFirst(Top.scope, "X") = Absent)
             PROVE  Searched(Top.iseq, "X") = RubySearch
  BY DEF SearchesAsRuby
<1>2. HierarchyOK
  BY DEF CInv
<1>3. PICK d, scope, kind : d = class_defined[Top.iseq] /\ scope = Top.scope /\ kind = Top.kind
  OBVIOUS
<1>4. /\ d \in Seq(Modules) /\ scope \in Seq(Modules) /\ Around(d, scope)
      /\ kind \in {"file", "class", "eval"} => Class = Outer(scope)
  BY <1>1, <1>2, <1>3, TopAround
<1>5. kind \in {"file", "class", "eval", "method", "block"} /\ Class \in Opened
  <2>1. Top \in Frames /\ Class \in Opened
    BY <1>1, TopFacts DEF Whole
  <2> QED BY <1>3, <2>1 DEF Frames
<1>6. PICK first : first = IF scope = <<>> THEN <<"Object">> ELSE Reverse(scope)
  OBVIOUS
<1>7. Searched(Top.iseq, "X") = IF In(first) # Absent THEN In(first) ELSE GetSuperConst(Class, "X")
  <2>1. first = IF Len(d) = 1 THEN d ELSE Reverse(Tail(d))
    BY <1>4, <1>6, SearchOut
  <2> QED BY <1>3, <2>1, SearchedAt DEF SearchedIn, In
<1>8. PICK c : c = Outer(scope)
  OBVIOUS
<1>9. RubySearch = In(Reverse(scope) \o Ancestors(c) \o <<"Object">>)
  BY <1>3, <1>8 DEF RubySearch, Outer, In
<1>10. Reverse(scope) \in Seq(Modules) /\ (In(Reverse(scope)) = Absent => In(scope) = Absent)
  BY <1>4, Backwards
<1>11. CASE scope # <<>>
  <2>1. first = Reverse(scope)
    BY <1>6, <1>11
  <2>2. CASE In(first) # Absent
    <3>1. PICK r, s, t : r = Reverse(scope) /\ s = Ancestors(c) /\ t = <<"Object">>
      OBVIOUS
    <3>2. c \in Modules
      <4>1. c = scope[Len(scope)] /\ Len(scope) \in 1 .. Len(scope)
        BY <1>4, <1>8, <1>11, OuterFacts
      <4> QED BY <1>4, <4>1
    <3>3. r \in Seq(Modules) /\ s \in Seq(Modules) /\ t \in Seq(Modules) /\ r \o s \in Seq(Modules)
      <4>1. r \in Seq(Modules) /\ s \in Seq(Modules) /\ t \in Seq(Modules)
        BY <1>2, <1>10, <3>1, <3>2, AncestorsFacts DEF Modules
      <4> QED BY <4>1, Join
    <3>4. In(r) # Absent /\ In(r \o s) = In(r) /\ In((r \o s) \o t) = In(r)
      <4>1. In(r) # Absent
        BY <2>1, <2>2, <3>1
      <4>2. In(r \o s) = In(r)
        BY <3>3, <4>1, InTwo
      <4> QED BY <3>3, <4>1, <4>2, InTwo
    <3> QED BY <1>7, <1>9, <2>1, <2>2, <3>1, <3>4
  <2>3. CASE In(first) = Absent
    <3>1. In(scope) = Absent
      BY <1>10, <2>1, <2>3
    <3>2. Class = c /\ c \in Opened
      BY <1>3, <1>4, <1>5, <1>8, <3>1 DEF In
    <3> QED BY <1>2, <1>4, <1>7, <1>8, <1>9, <2>1, <2>3, <3>2, RubyFinds
  <2> QED BY <2>2, <2>3
<1>12. CASE scope = <<>>
  <2>1. c = "Object" /\ "Object" \in Opened /\ first = <<"Object">>
    BY <1>4, <1>6, <1>8, <1>12, OuterFacts DEF Opened
  <2>2. In(scope) = Absent /\ In(Reverse(scope)) = Absent
    <3>1. None(scope) /\ None(Reverse(scope))
      BY <1>4, <1>12 DEF None, Reverse
    <3> QED BY <1>4, <1>10, <3>1, NotIn
  <2>3. RubySearch = GetSuperConst("Object", "X")
    BY <1>2, <1>4, <1>8, <1>9, <2>1, <2>2, RubyFinds
  <2>4. CASE In(first) = Absent
    <3>1. Class = "Object"
      BY <1>3, <1>4, <1>5, <1>8, <2>1, <2>2 DEF In
    <3> QED BY <1>7, <2>3, <2>4, <3>1
  <2>5. CASE In(first) # Absent
    <3>1. GetSuperConst("Object", "X") = In(Ancestors("Object") \o <<"Object">>)
      BY <1>2, <2>1, ObjectLast
    <3>2. PICK s, t : s = Ancestors("Object") /\ t = <<"Object">>
      OBVIOUS
    <3>3. s \in Seq(Modules) /\ t \in Seq(Modules) /\ Len(t) = 1 /\ t[1] = "Object"
      BY <1>2, <2>1, <3>2, ObjectLast
    <3>4. const_table["Object"]["X"] # Absent /\ In(t) = const_table["Object"]["X"]
      <4>1. FirstAt(t, 1)
        <5>1. ~None(t)
          BY <2>1, <2>5, <3>2, <3>3, NotIn
        <5>2. PICK i : FirstAt(t, i)
          BY <3>3, <5>1, FirstFacts
        <5>3. i = 1
          BY <3>3, <5>2 DEF FirstAt
        <5> QED BY <5>2, <5>3
      <4> QED BY <3>3, <4>1, FirstFacts DEF FirstAt
    <3>5. s[1] = "Object" /\ Len(s) \in Nat \ {0}
      <4>1. "Object" \in Modules \ Made
        BY <1>2, ConstantsAssumption DEF HierarchyOK, Modules
      <4>2. s = Own("Object")
        BY <1>2, <3>2, <4>1, AncestorsFacts
      <4> QED BY <4>1, <4>2, OwnFacts
    <3>6. In(s) = const_table["Object"]["X"]
      <4>1. FirstAt(s, 1)
        BY <3>4, <3>5 DEF FirstAt
      <4> QED BY <3>3, <3>5, <4>1, FirstFacts
    <3>7. In(s \o t) = In(t)
      BY <3>3, <3>4, <3>6, InTwo
    <3> QED BY <1>7, <2>1, <2>3, <2>5, <3>1, <3>2, <3>7
  <2> QED BY <2>4, <2>5
<1> QED BY <1>11, <1>12

----------------------------------------------------------------------------
(* A reference whose entry is current finds in it what a search would      *)
(* find, whatever the files, the classes and the order of the steps, in    *)
(* all the cases that CacheTransparent does not except.                    *)
THEOREM CacheStays == Spec => []CacheTransparent
<1>1. CInv => CacheTransparent
  BY CacheRight
<1> QED BY <1>1, Invariant, PTL

(* A search (find_const) finds Ruby's constant.  SearchesAsRuby excepts    *)
(* what a method or block does not find in the classes of its text, files  *)
(* run from within a class, and methods evaluating a string further out.   *)
THEOREM SearchesRight == Spec => []SearchesAsRuby
<1>1. CInv => SearchesAsRuby
  BY SearchRight
<1> QED BY <1>1, Invariant, PTL

(* require runs no program a second time: a program that has begun is in   *)
(* source_files, which no step takes anything out of.                      *)
Noted == begun \subseteq source_files
THEOREM RequiresOnce == Spec => RequiredOnce
<1>1. Init => Noted
  BY DEF Init, Noted
<1>2. ASSUME Noted, [Next]_vars PROVE Noted'
  <2>1. CASE UNCHANGED <<begun, source_files>>
    BY <1>2, <2>1 DEF Noted
  <2>2. ASSUME NEW f, NEW repeat, LoadExec(f, repeat) PROVE Noted'
    <3>1. source_files' = source_files \cup {f}
      BY <2>2, Zenon DEF LoadExec
    <3>2. begun' = begun \/ begun' = begun \cup {f}
      BY <2>2 DEF LoadExec, Runs, Unreadable
    <3> QED BY <1>2, <3>1, <3>2 DEF Noted
  <2>3. Refer \/ Assign \/ Include \/ DefClass \/ DefMethod \/ Call \/ ModuleEval \/ Raise \/ Return \/ UNCHANGED vars
          => UNCHANGED <<begun, source_files>>
    BY DEF Refer, Assign, Include, DefClass, Body, DefMethod, Call, ModuleEval, Raise, Return, vars
  <2> QED BY <1>2, <2>1, <2>2, <2>3 DEF Next, Require, Load
<1>3. ASSUME Noted, Require, Len(stack') > Len(stack), StackOK(CHOOSE B : Whole(B)) PROVE begun' # begun
  <2>1. PICK f \in Files : LoadExec(f, FALSE)
    BY <1>3 DEF Require
  <2>2. stack \in Seq(Frames) /\ DOMAIN stack = 1 .. Len(stack) /\ Len(stack) \in Nat
    BY <1>3 DEF StackOK
  <2>3. ~ UNCHANGED stack
    BY <1>3, <2>2
  <2>4. ~ Unreadable
    <3> SUFFICES ASSUME NEW k \in DOMAIN stack, Left(k) PROVE FALSE
      BY DEF Unreadable
    <3>1. stack' = SubSeq(stack, 1, k) /\ k \in 1 .. Len(stack)
      BY <2>2 DEF Left
    <3>2. Len(stack') = k
      BY <2>2, <3>1, PrefixFacts
    <3> QED BY <1>3, <2>2, <3>1, <3>2
  <2>5. f \notin source_files /\ Runs(f)
    BY <2>1, <2>3, <2>4 DEF LoadExec
  <2>6. begun' = begun \cup {f}
    BY <2>5 DEF Runs
  <2> QED BY <1>3, <2>5, <2>6 DEF Noted
<1>4. CInv => StackOK(CHOOSE B : Whole(B))
  <2>1. (\E B : Whole(B)) => Whole(CHOOSE B : Whole(B))
    OBVIOUS
  <2> QED BY <2>1 DEF CInv, Whole
<1>5. Noted /\ CInv => (Require /\ Len(stack') > Len(stack) => begun' # begun)
  BY <1>3, <1>4
<1> QED BY <1>1, <1>2, <1>5, Invariant, PTL DEF Spec, RequiredOnce

=============================================================================
