---------------------------- MODULE SequenceFacts ----------------------------
(***************************************************************************)
(* What the list operations of the models (pop from the front, push, pop   *)
(* from the back, Vec::remove) do to the elements of a list, to its set of *)
(* elements and to the absence of duplicates; induction on numbers, said   *)
(* of sets; recursion along links.                                         *)
(***************************************************************************)
EXTENDS Integers, SequencesExt, SequenceTheorems, FiniteSetTheorems, WellFoundedInduction, TLAPS

(* A set of numbers has a least one.                                       *)
LEMMA Least ==
  ASSUME NEW T \in SUBSET Nat, T # {}
  PROVE  \E n \in T : \A m \in T : n <= m
<1>1. IsWellFoundedOn(OpToRel(<, Nat), Nat)
  BY NatLessThanWellFounded
<1>2. PICK n \in T : \A m \in T : ~ (<<m, n>> \in OpToRel(<, Nat))
  BY <1>1, WFMin
<1>3. \A m \in T : ~ (m < n)
  BY <1>2 DEF OpToRel
<1> QED BY <1>3

(* A set of numbers that has 0, and n + 1 with each n, has them all; so    *)
(* has one up to a bound.                                                  *)
LEMMA Induction ==
  ASSUME NEW S, 0 \in S, \A n \in Nat : n \in S => n + 1 \in S
  PROVE  Nat \subseteq S
<1> SUFFICES ASSUME Nat \ S # {} PROVE FALSE
  OBVIOUS
<1>1. PICK n \in Nat \ S : \A m \in Nat \ S : n <= m
  BY Least
<1>2. n # 0 /\ n - 1 \in Nat /\ n - 1 \notin Nat \ S
  BY <1>1
<1> QED BY <1>1, <1>2

LEMMA InductionTo ==
  ASSUME NEW S, NEW b \in Nat, 0 \in S, \A n \in 0 .. b - 1 : n \in S => n + 1 \in S
  PROVE  0 .. b \subseteq S
<1> DEFINE T == (0 .. b) \ S
<1> SUFFICES ASSUME T # {} PROVE FALSE
  OBVIOUS
<1>1. T \in SUBSET Nat
  OBVIOUS
<1>2. PICK n \in T : \A m \in T : n <= m
  <2> HIDE DEF T
  <2> QED BY <1>1, Least
<1>3. n # 0 /\ n - 1 \in 0 .. b - 1 /\ n - 1 \notin T
  BY <1>2
<1> QED BY <1>3

(* What a recursion on numbers says, some function does: a function of     *)
(* all numbers, of which the recursion up to any bound gives a part.       *)
Counts(F, V, v, step) ==
    /\ F \in [Nat -> V] /\ F[0] = v
    /\ \A k \in Nat : F[k + 1] = step[<<k + 1, F[k]>>]

LEMMA Counting ==
  ASSUME NEW V, NEW v \in V, NEW step \in [Nat \X V -> V]
  PROVE  \E F : Counts(F, V, v, step)
<1> DEFINE Part(f, d) == /\ f \in [0 .. d -> V] /\ f[0] = v
                         /\ \A k \in 0 .. d - 1 : f[k + 1] = step[<<k + 1, f[k]>>]
<1>1. ASSUME NEW d \in Nat, NEW f, Part(f, d), NEW e \in Nat, NEW g, Part(g, e), d <= e
      PROVE  \A k \in 0 .. d : f[k] = g[k]
  <2> DEFINE S == {k \in 0 .. d : f[k] = g[k]}
  <2>1. 0 \in S
    BY <1>1
  <2>2. ASSUME NEW k \in 0 .. d - 1, k \in S PROVE k + 1 \in S
    <3>1. k \in 0 .. e - 1 /\ k + 1 \in 0 .. d /\ f[k] = g[k]
      BY <1>1, <2>2
    <3>2. f[k + 1] = step[<<k + 1, f[k]>>] /\ g[k + 1] = step[<<k + 1, g[k]>>]
      BY <1>1, <3>1
    <3> QED BY <3>1, <3>2
  <2> HIDE DEF S
  <2>3. 0 .. d \subseteq S
    BY <1>1, <2>1, <2>2, InductionTo
  <2> QED BY <2>3 DEF S
<1>2. \A d \in Nat : \E f : Part(f, d)
  <2> DEFINE S == {d \in Nat : \E f : Part(f, d)}
  <2>1. 0 \in S
    <3>1. Part([k \in 0 .. 0 |-> v], 0)
      OBVIOUS
    <3> QED BY <3>1
  <2>2. ASSUME NEW d \in Nat, d \in S PROVE d + 1 \in S
    <3>1. PICK f : Part(f, d)
      BY <2>2
    <3> DEFINE e == [k \in 0 .. d + 1 |-> IF k = d + 1 THEN step[<<d + 1, f[d]>>] ELSE f[k]]
    <3>2. f[d] \in V /\ step[<<d + 1, f[d]>>] \in V
      BY <3>1
    <3>3. e \in [0 .. d + 1 -> V] /\ e[d + 1] = step[<<d + 1, f[d]>>] /\ \A k \in 0 .. d : e[k] = f[k]
      BY <3>1, <3>2
    <3> HIDE DEF e
    <3>4. ASSUME NEW k \in 0 .. d PROVE e[k + 1] = step[<<k + 1, e[k]>>]
      <4>1. e[k] = f[k]
        BY <3>3
      <4>2. CASE k = d
        BY <3>3, <4>1, <4>2
      <4>3. CASE k # d
        <5>1. k \in 0 .. d - 1 /\ k + 1 \in 0 .. d
          BY <4>3
        <5>2. f[k + 1] = step[<<k + 1, f[k]>>] /\ e[k + 1] = f[k + 1]
          BY <3>1, <3>3, <5>1
        <5> QED BY <4>1, <5>2
      <4> QED BY <4>2, <4>3
    <3>5. Part(e, d + 1)
      BY <3>1, <3>3, <3>4
    <3> QED BY <3>5
  <2> HIDE DEF S
  <2>3. Nat \subseteq S
    BY <2>1, <2>2, Induction
  <2> QED BY <2>3 DEF S
<1> DEFINE part == [d \in Nat |-> CHOOSE f : Part(f, d)]
           F == [d \in Nat |-> part[d][d]]
<1>3. \A d \in Nat : Part(part[d], d)
  <2> HIDE DEF Part
  <2> QED BY <1>2
<1> HIDE DEF part
<1>4. \A d \in Nat : part[d + 1][d] = part[d][d]
  <2> SUFFICES ASSUME NEW d \in Nat PROVE part[d + 1][d] = part[d][d]
    OBVIOUS
  <2>1. d + 1 \in Nat /\ d <= d + 1 /\ d \in 0 .. d
    OBVIOUS
  <2>2. Part(part[d], d) /\ Part(part[d + 1], d + 1)
    BY <1>3, <2>1
  <2> HIDE DEF Part
  <2> QED BY <1>1, <2>1, <2>2
<1>5. F \in [Nat -> V] /\ \A d \in Nat : F[d] = part[d][d]
  BY <1>3
<1> HIDE DEF F
<1>6. \A k \in Nat : F[k + 1] = step[<<k + 1, F[k]>>]
  <2> SUFFICES ASSUME NEW k \in Nat PROVE F[k + 1] = step[<<k + 1, F[k]>>]
    OBVIOUS
  <2>1. part[k + 1][k + 1] = step[<<k + 1, part[k + 1][k]>>]
    BY <1>3
  <2> QED BY <1>4, <1>5, <2>1
<1>7. F[0] = v
  BY <1>3, <1>5
<1> QED BY <1>5, <1>6, <1>7 DEF Counts

(* Functions are recursive along nxt: f is right on A.                     *)
Solves(f, A, nxt, val, step, stop, V) ==
    /\ f \in [A -> V]
    /\ stop \subseteq A
    /\ \A m \in A \ stop : nxt[m] \in A
    /\ \A m \in A : f[m] = IF m \in stop THEN val[m] ELSE step[m, f[nxt[m]]]

LeadsOut(D, nxt, stop) == \A S \in SUBSET (D \ stop) : S # {} => \E m \in S : nxt[m] \notin S

LEMMA Recursion ==
  ASSUME NEW D, IsFiniteSet(D), NEW V, NEW stop \in SUBSET D, NEW nxt \in [D \ stop -> D],
         NEW val \in [stop -> V], NEW step \in [(D \ stop) \X V -> V],
         LeadsOut(D, nxt, stop)
  PROVE  \E f : Solves(f, D, nxt, val, step, stop, V)
<1> DEFINE T == {k \in Nat : \E A \in SUBSET D : \E f :
                     Solves(f, A, nxt, val, step, stop, V) /\ Cardinality(D \ A) = k}
<1>1. \A A \in SUBSET D : IsFiniteSet(D \ A) /\ Cardinality(D \ A) \in Nat
  BY FS_Subset, FS_CardinalityType
<1>2. T # {} /\ T \in SUBSET Nat
  <2>1. Solves(val, stop, nxt, val, step, stop, V)
    BY DEF Solves
  <2> QED BY <1>1, <2>1
<1>3. PICK k \in T : \A j \in T : k <= j
  <2> HIDE DEF T
  <2> QED BY <1>2, Least
<1>4. PICK A \in SUBSET D : \E f : Solves(f, A, nxt, val, step, stop, V) /\ Cardinality(D \ A) = k
  BY <1>3
<1>5. PICK f : Solves(f, A, nxt, val, step, stop, V) /\ Cardinality(D \ A) = k
  BY <1>4
<1>6. ASSUME D \ A # {} PROVE FALSE
  <2>1. D \ A \in SUBSET (D \ stop)
    BY <1>5 DEF Solves
  <2>2. PICK m \in D \ A : nxt[m] \notin D \ A
    BY <1>6, <2>1 DEF LeadsOut
  <2>3. m \in D \ stop /\ nxt[m] \in A
    BY <2>1, <2>2
  <2> DEFINE e == [x \in A \cup {m} |-> IF x = m THEN step[m, f[nxt[m]]] ELSE f[x]]
  <2>4. f[nxt[m]] \in V /\ step[m, f[nxt[m]]] \in V
    BY <1>5, <2>3 DEF Solves
  <2>5. e \in [A \cup {m} -> V] /\ e[m] = step[m, f[nxt[m]]] /\ \A x \in A : e[x] = f[x]
    BY <1>5, <2>2, <2>4 DEF Solves
  <2> HIDE DEF e
  <2>6. Solves(e, A \cup {m}, nxt, val, step, stop, V)
    <3>1. \A x \in (A \cup {m}) \ stop : nxt[x] \in A
      BY <1>5, <2>3 DEF Solves
    <3>2. \A x \in A : e[x] = IF x \in stop THEN val[x] ELSE step[x, e[nxt[x]]]
      BY <1>5, <2>5, <3>1 DEF Solves
    <3>3. e[m] = step[m, e[nxt[m]]]
      BY <2>3, <2>5
    <3> QED BY <1>5, <2>3, <2>5, <3>1, <3>2, <3>3 DEF Solves
  <2>7. Cardinality(D \ (A \cup {m})) = k - 1
    <3>1. D \ (A \cup {m}) = (D \ A) \ {m}
      OBVIOUS
    <3>2. IsFiniteSet(D \ A) /\ Cardinality(D \ A) = k
      BY <1>1, <1>5
    <3>3. Cardinality((D \ A) \ {m}) = k - 1
      BY <2>2, <3>2, FS_RemoveElement
    <3> QED BY <3>1, <3>3
  <2>8. A \cup {m} \in SUBSET D /\ k - 1 \in Nat
    BY <1>1, <2>3, <2>7
  <2>9. k - 1 \in T
    BY <2>6, <2>7, <2>8
  <2> HIDE DEF T
  <2> QED BY <1>2, <1>3, <2>9
<1>7. A = D
  BY <1>6
<1> QED BY <1>5, <1>7

(* Sequences put together, one more at the end.                            *)
LEMMA Flattening ==
  ASSUME NEW S, NEW s \in Seq(Seq(S)), NEW x \in Seq(S)
  PROVE  /\ FlattenSeq(s) \in Seq(S) /\ Len(Append(s, x)) = Len(s) + 1
         /\ FlattenSeq(Append(s, x)) = FlattenSeq(s) \o x
<1> DEFINE Next(t, f, i) == IF i = 1 THEN t[i] ELSE f[i - 1] \o t[i]
           Flat(t, f) == f = [i \in 1 .. Len(t) |-> Next(t, f, i)]
           flat(t) == CHOOSE f : Flat(t, f)
           Same(t, u, m) == \A i \in 1 .. m : t[i] = u[i]
<1>1. \A t : FlattenSeq(t) = IF Len(t) = 0 THEN t ELSE flat(t)[Len(t)]
  BY DEF FlattenSeq
<1>2. ASSUME NEW t \in Seq(Seq(S)), t # <<>>
      PROVE  \E f : Flat(t, f) /\ f \in [1 .. Len(t) -> Seq(S)]
  <2> DEFINE D == 1 .. Len(t)
             nxt == [i \in D \ {1} |-> i - 1]
             val == [i \in {1} |-> t[1]]
             step == [z \in (D \ {1}) \X Seq(S) |-> z[2] \o t[z[1]]]
  <2>1. Len(t) \in Nat \ {0} /\ \A i \in 1 .. Len(t) : t[i] \in Seq(S)
    BY <1>2
  <2>2. IsFiniteSet(D) /\ {1} \in SUBSET D /\ nxt \in [D \ {1} -> D] /\ val \in [{1} -> Seq(S)]
    <3>1. IsFiniteSet(D)
      BY <2>1, FS_Interval
    <3>2. {1} \in SUBSET D /\ val \in [{1} -> Seq(S)]
      BY <2>1
    <3>3. nxt \in [D \ {1} -> D]
      BY <2>1
    <3> QED BY <3>1, <3>2, <3>3
  <2>3. step \in [(D \ {1}) \X Seq(S) -> Seq(S)]
    <3>1. ASSUME NEW z \in (D \ {1}) \X Seq(S) PROVE z[2] \o t[z[1]] \in Seq(S)
      BY <2>1
    <3> QED BY <3>1
  <2>4. LeadsOut(D, nxt, {1})
    <3> SUFFICES ASSUME NEW Z \in SUBSET (D \ {1}), Z # {} PROVE \E m \in Z : nxt[m] \notin Z
      BY DEF LeadsOut
    <3>1. Z \in SUBSET Nat
      OBVIOUS
    <3>2. PICK m \in Z : \A k \in Z : m <= k
      BY <3>1, Least
    <3>3. nxt[m] = m - 1 /\ m \in Nat
      OBVIOUS
    <3> QED BY <3>2, <3>3
  <2> HIDE DEF D, nxt, val, step
  <2>5. PICK f : Solves(f, D, nxt, val, step, {1}, Seq(S))
    BY <2>2, <2>3, <2>4, Recursion
  <2>6. f \in [1 .. Len(t) -> Seq(S)]
    BY <2>5 DEF Solves, D
  <2>7. ASSUME NEW i \in 1 .. Len(t) PROVE f[i] = Next(t, f, i)
    <3>1. CASE i = 1
      BY <2>5, <3>1 DEF Solves, D, val
    <3>2. CASE i # 1
      <4>1. i \in D \ {1} /\ f[i] = step[i, f[nxt[i]]] /\ nxt[i] = i - 1
        BY <2>5, <3>2 DEF Solves, D, nxt
      <4>2. i - 1 \in 1 .. Len(t)
        BY <2>1, <3>2
      <4>3. f[i - 1] \in Seq(S)
        BY <2>6, <4>2
      <4>4. step[i, f[i - 1]] = f[i - 1] \o t[i]
        BY <4>1, <4>3 DEF step
      <4> QED BY <3>2, <4>1, <4>4
    <3> QED BY <3>1, <3>2
  <2> QED BY <2>6, <2>7
<1>3. ASSUME NEW t \in Seq(Seq(S)), t # <<>>
      PROVE  Flat(t, flat(t))
  BY <1>2, <1>3
<1>4. ASSUME NEW t \in Seq(Seq(S)), NEW f, Flat(t, f), NEW u \in Seq(Seq(S)), NEW g, Flat(u, g),
             NEW m \in Nat, m <= Len(t), m <= Len(u), Same(t, u, m)
      PROVE  Same(f, g, m)
  <2> DEFINE Z == {i \in 0 .. m : i > 0 => f[i] = g[i]}
  <2>1. 0 \in Z
    BY <1>4
  <2>2. ASSUME NEW i \in 0 .. m - 1, i \in Z PROVE i + 1 \in Z
    <3>1. i + 1 \in 1 .. Len(t) /\ i + 1 \in 1 .. Len(u) /\ i + 1 \in 1 .. m /\ i + 1 - 1 = i
      BY <1>4
    <3>2. f[i + 1] = Next(t, f, i + 1) /\ g[i + 1] = Next(u, g, i + 1)
      BY <1>4, <3>1
    <3>3. t[i + 1] = u[i + 1]
      BY <1>4, <3>1
    <3>4. i > 0 => f[i] = g[i]
      BY <2>2
    <3>5. f[i + 1] = g[i + 1]
      BY <3>1, <3>2, <3>3, <3>4, SMTT(60)
    <3> QED BY <3>1, <3>5
  <2> HIDE DEF Z
  <2>3. 0 .. m \subseteq Z
    BY <2>1, <2>2, InductionTo
  <2> QED BY <2>3 DEF Z
<1>5. ASSUME NEW t \in Seq(Seq(S)), t # <<>>
      PROVE  flat(t) \in [1 .. Len(t) -> Seq(S)]
  <2>1. PICK f : Flat(t, f) /\ f \in [1 .. Len(t) -> Seq(S)]
    BY <1>2, <1>5
  <2>2. Flat(t, flat(t))
    BY <1>3, <1>5
  <2> DEFINE h == flat(t)
  <2> HIDE DEF flat
  <2>3. Len(t) \in Nat /\ Len(t) <= Len(t)
    OBVIOUS
  <2>4. \A i \in 1 .. Len(t) : f[i] = h[i]
    <3>1. Same(t, t, Len(t)) /\ Flat(t, h)
      BY <2>2
    <3> HIDE DEF Flat, h, Same
    <3>2. Same(f, h, Len(t))
      BY <1>4, <2>1, <2>3, <3>1
    <3> QED BY <3>2 DEF Same
  <2>5. h = [i \in 1 .. Len(t) |-> h[i]]
    BY <2>2
  <2> QED BY <2>1, <2>4, <2>5
<1> DEFINE t == Append(s, x)
<1>6. t \in Seq(Seq(S)) /\ t # <<>> /\ Len(s) \in Nat /\ Len(t) = Len(s) + 1 /\ t[Len(s) + 1] = x
      /\ \A i \in 1 .. Len(s) : t[i] = s[i]
  <2>1. PICK Q : Q = Seq(S)
    OBVIOUS
  <2>2. s \in Seq(Q) /\ x \in Q
    BY <2>1
  <2>3. Append(s, x) \in Seq(Q) /\ Append(s, x) # <<>> /\ Len(s) \in Nat /\ Len(Append(s, x)) = Len(s) + 1
        /\ Append(s, x)[Len(s) + 1] = x /\ \A i \in 1 .. Len(s) : Append(s, x)[i] = s[i]
    BY <2>2
  <2> QED BY <2>1, <2>3
<1> HIDE DEF t
<1>7. Flat(t, flat(t)) /\ FlattenSeq(t) = flat(t)[Len(s) + 1]
  <2>1. Flat(t, flat(t))
    BY <1>3, <1>6
  <2> HIDE DEF flat
  <2>2. FlattenSeq(t) = flat(t)[Len(t)]
    BY <1>1, <1>6
  <2> QED BY <1>6, <2>1, <2>2
<1>8. CASE s = <<>>
  <2>1. FlattenSeq(s) = <<>> /\ Len(s) = 0
    BY <1>1, <1>8
  <2>2. flat(t)[1] = t[1] /\ t[1] = x
    BY <1>6, <1>7, <2>1
  <2> QED BY <1>6, <1>7, <2>1, <2>2 DEF t
<1>9. CASE s # <<>>
  <2>1. Len(s) > 0 /\ FlattenSeq(s) = flat(s)[Len(s)] /\ Flat(s, flat(s)) /\ flat(s) \in [1 .. Len(s) -> Seq(S)]
    <3>1. Len(s) > 0 /\ Len(s) # 0
      BY <1>6, <1>9
    <3>2. Flat(s, flat(s)) /\ flat(s) \in [1 .. Len(s) -> Seq(S)]
      BY <1>3, <1>5, <1>9
    <3> HIDE DEF flat, Flat
    <3>3. FlattenSeq(s) = flat(s)[Len(s)]
      BY <1>1, <3>1
    <3> QED BY <3>1, <3>2, <3>3
  <2> DEFINE f == flat(s)
             g == flat(t)
  <2>2. \A i \in 1 .. Len(s) : f[i] = g[i]
    <3>1. PICK m : m = Len(s)
      OBVIOUS
    <3>2. m \in Nat /\ m <= Len(s) /\ m <= Len(t) /\ Same(s, t, m)
      BY <1>6, <3>1
    <3>3. Flat(s, f) /\ Flat(t, g)
      BY <1>7, <2>1
    <3> HIDE DEF f, g, Flat, Same
    <3>4. Same(f, g, m)
      BY <1>4, <1>6, <3>2, <3>3
    <3> QED BY <3>1, <3>4 DEF Same
  <2> HIDE DEF flat
  <2>3. g[Len(s) + 1] = g[Len(s)] \o x
    <3>1. PICK n : n = Len(s) + 1
      OBVIOUS
    <3>2. n \in 1 .. Len(t) /\ n # 1 /\ n - 1 = Len(s)
      BY <1>6, <2>1, <3>1
    <3> HIDE DEF g
    <3>3. g[n] = Next(t, g, n)
      BY <1>7, <3>2 DEF g
    <3> QED BY <1>6, <3>1, <3>2, <3>3
  <2>4. Len(s) \in 1 .. Len(s)
    BY <1>6, <2>1
  <2>5. FlattenSeq(s) = f[Len(s)] /\ f[Len(s)] \in Seq(S) /\ FlattenSeq(t) = g[Len(s) + 1]
    BY <1>7, <2>1, <2>4
  <2>6. g[Len(s) + 1] = f[Len(s)] \o x
    BY <2>2, <2>3, <2>4
  <2> QED BY <1>6, <2>5, <2>6 DEF t
<1> QED BY <1>8, <1>9

(* The elements of a list without its head, in place and as a set.         *)
LEMMA TailFacts ==
  ASSUME NEW S, NEW s \in Seq(S), s # <<>>
  PROVE  /\ Head(s) \in S /\ Tail(s) \in Seq(S)
         /\ Len(Tail(s)) = Len(s) - 1 /\ Len(s) \in Nat \ {0}
         /\ Head(s) = s[1]
         /\ \A k \in 1 .. Len(s) - 1 : Tail(s)[k] = s[k + 1]
  OBVIOUS

LEMMA TailElements ==
  ASSUME NEW S, NEW s \in Seq(S), s # <<>>, IsInjective(s)
  PROVE  /\ IsInjective(Tail(s))
         /\ Range(s) = Range(Tail(s)) \cup {Head(s)}
         /\ Head(s) \notin Range(Tail(s))
<1> DEFINE t == Tail(s)
<1>1. /\ t \in Seq(S) /\ Len(t) = Len(s) - 1 /\ Len(s) \in Nat \ {0}
      /\ Head(s) = s[1] /\ \A k \in 1 .. Len(s) - 1 : t[k] = s[k + 1]
  BY TailFacts
<1> HIDE DEF t
<1>2. IsInjective(t)
  <2>1. ASSUME NEW k \in DOMAIN t, NEW m \in DOMAIN t, t[k] = t[m] PROVE k = m
    <3>1. k \in 1 .. Len(t) /\ m \in 1 .. Len(t)
      BY <1>1
    <3>2. k + 1 \in DOMAIN s /\ m + 1 \in DOMAIN s /\ s[k + 1] = s[m + 1]
      BY <1>1, <2>1, <3>1
    <3>3. k + 1 = m + 1
      BY <3>2 DEF IsInjective
    <3> QED BY <3>1, <3>3
  <2> QED BY <2>1, Zenon DEF IsInjective
<1>3. Head(s) \notin Range(t)
  <2>1. ASSUME NEW k \in 1 .. Len(t), t[k] = Head(s) PROVE FALSE
    <3>1. s[k + 1] = s[1] /\ k + 1 \in DOMAIN s /\ 1 \in DOMAIN s
      BY <1>1, <2>1
    <3> QED BY <3>1 DEF IsInjective
  <2> QED BY <2>1, <1>1 DEF Range
<1>4. ASSUME NEW c \in Range(s)
      PROVE  c \in Range(t) \cup {Head(s)}
  <2>1. PICK k \in 1 .. Len(s) : c = s[k]
    BY DEF Range
  <2>2. CASE k = 1
    BY <2>1, <2>2, <1>1
  <2>3. CASE k # 1
    <3>1. k - 1 \in 1 .. Len(t) /\ t[k - 1] = c
      BY <2>1, <2>3, <1>1
    <3> QED BY <3>1 DEF Range
  <2> QED BY <2>2, <2>3
<1>5. Range(t) \cup {Head(s)} \subseteq Range(s)
  <2>1. \A k \in 1 .. Len(t) : k + 1 \in 1 .. Len(s) /\ t[k] = s[k + 1]
    BY <1>1
  <2> QED BY <2>1, <1>1 DEF Range
<1> QED BY <1>2, <1>3, <1>4, <1>5 DEF t

(* The elements of a list with one more at its end.                        *)
LEMMA AppendFacts ==
  ASSUME NEW S, NEW s \in Seq(S), NEW e \in S
  PROVE  /\ Append(s, e) \in Seq(S)
         /\ Len(Append(s, e)) = Len(s) + 1 /\ Len(s) \in Nat
         /\ Append(s, e)[Len(s) + 1] = e
         /\ \A k \in 1 .. Len(s) : Append(s, e)[k] = s[k]
  OBVIOUS

LEMMA AppendElements ==
  ASSUME NEW S, NEW s \in Seq(S), NEW e \in S
  PROVE  /\ Range(Append(s, e)) = Range(s) \cup {e}
         /\ IsInjective(s) /\ e \notin Range(s) => IsInjective(Append(s, e))
<1> DEFINE t == Append(s, e)
<1>1. /\ t \in Seq(S) /\ Len(t) = Len(s) + 1 /\ Len(s) \in Nat
      /\ t[Len(s) + 1] = e /\ \A k \in 1 .. Len(s) : t[k] = s[k]
  BY AppendFacts
<1> HIDE DEF t
<1>2. ASSUME NEW c \in Range(t) PROVE c \in Range(s) \cup {e}
  <2>1. PICK k \in 1 .. Len(s) + 1 : c = t[k]
    BY <1>1 DEF Range
  <2> QED BY <2>1, <1>1 DEF Range
<1>3. Range(s) \cup {e} \subseteq Range(t)
  <2>1. \A k \in 1 .. Len(s) : k \in 1 .. Len(t) /\ t[k] = s[k]
    BY <1>1
  <2>2. Len(s) + 1 \in 1 .. Len(t)
    BY <1>1
  <2> QED BY <2>1, <2>2, <1>1 DEF Range
<1>4. ASSUME IsInjective(s), e \notin Range(s) PROVE IsInjective(t)
  BY <1>1, <1>4 DEF IsInjective, Range
<1> QED BY <1>2, <1>3, <1>4 DEF t

(* The elements of a list without its last.                                *)
LEMMA FrontFacts ==
  ASSUME NEW S, NEW s \in Seq(S), s # <<>>
  PROVE  /\ Len(s) \in Nat \ {0} /\ Last(s) \in S /\ Last(s) = s[Len(s)]
         /\ Front(s) \in Seq(S) /\ Len(Front(s)) = Len(s) - 1
         /\ \A k \in 1 .. Len(s) - 1 : Front(s)[k] = s[k]
<1>1. Len(s) \in Nat \ {0} /\ \A k \in 1 .. Len(s) : s[k] \in S
  OBVIOUS
<1>2. /\ Front(s) \in Seq(S)
      /\ Len(Front(s)) = IF 1 <= Len(s) - 1 THEN (Len(s) - 1) - 1 + 1 ELSE 0
      /\ \A k \in 1 .. (Len(s) - 1) - 1 + 1 : Front(s)[k] = s[1 + k - 1]
  <2>1. Len(s) - 1 \in Int /\ \A k \in 1 .. Len(s) - 1 : s[k] \in S
    BY <1>1
  <2> QED BY <2>1, SubSeqProperties DEF Front
<1>3. \A k \in 1 .. Len(s) - 1 : /\ k \in 1 .. (Len(s) - 1) - 1 + 1
                                  /\ s[1 + k - 1] = s[k]
  BY <1>1
<1>4. Last(s) = s[Len(s)] /\ Last(s) \in S
  BY <1>1 DEF Last
<1>5. Len(Front(s)) = Len(s) - 1
  <2> DEFINE n == Len(s)  m == Len(Front(s))
  <2>1. n \in Nat \ {0} /\ m = IF 1 <= n - 1 THEN (n - 1) - 1 + 1 ELSE 0
    BY <1>1, <1>2
  <2> HIDE DEF n, m
  <2>2. m = n - 1
    BY <2>1
  <2> QED BY <2>2 DEF n, m
<1> QED BY <1>1, <1>2, <1>3, <1>4, <1>5

LEMMA FrontElements ==
  ASSUME NEW S, NEW s \in Seq(S), s # <<>>, IsInjective(s)
  PROVE  /\ IsInjective(Front(s))
         /\ Range(Front(s)) = Range(s) \ {Last(s)}
         /\ Last(s) \in Range(s)
<1> DEFINE t == Front(s)
<1>1. /\ t \in Seq(S) /\ Len(t) = Len(s) - 1 /\ Len(s) \in Nat \ {0}
      /\ \A k \in 1 .. Len(s) - 1 : t[k] = s[k]
      /\ Last(s) = s[Len(s)]
  BY FrontFacts
<1> HIDE DEF t
<1>2. IsInjective(t) /\ Last(s) \in Range(s)
  BY <1>1 DEF IsInjective, Range
<1>3. ASSUME NEW k \in 1 .. Len(t) PROVE t[k] \in Range(s) \ {Last(s)}
  <2>1. t[k] = s[k] /\ k \in DOMAIN s /\ Len(s) \in DOMAIN s /\ k # Len(s)
    BY <1>1
  <2> QED BY <1>1, <2>1 DEF IsInjective, Range
<1>4. ASSUME NEW c \in Range(s) \ {Last(s)} PROVE c \in Range(t)
  <2>1. PICK k \in 1 .. Len(s) : c = s[k]
    BY DEF Range
  <2>2. k \in 1 .. Len(t) /\ t[k] = c
    BY <2>1, <1>1
  <2> QED BY <1>1, <2>2 DEF Range
<1> QED BY <1>1, <1>2, <1>3, <1>4 DEF t, Range

(* The elements of a list with one removed from the middle.                *)
LEMMA RemoveAtFacts ==
  ASSUME NEW S, NEW s \in Seq(S), NEW k \in 1 .. Len(s)
  PROVE  /\ Len(s) \in Nat
         /\ RemoveAt(s, k) \in Seq(S) /\ Len(RemoveAt(s, k)) = Len(s) - 1
         /\ \A j \in 1 .. Len(s) - 1 :
               RemoveAt(s, k)[j] = IF j < k THEN s[j] ELSE s[j + 1]
<1> DEFINE a == SubSeq(s, 1, k - 1)  b == SubSeq(s, k + 1, Len(s))  t == RemoveAt(s, k)
<1>1. Len(s) \in Nat /\ \A j \in 1 .. Len(s) : s[j] \in S
  OBVIOUS
<1>2. /\ a \in Seq(S) /\ Len(a) = k - 1
      /\ \A j \in 1 .. k - 1 : a[j] = s[j]
  <2>1. 1 \in Int /\ k - 1 \in Int /\ \A j \in 1 .. k - 1 : s[j] \in S
    BY <1>1
  <2>2. /\ a \in Seq(S) /\ Len(a) = IF 1 <= k - 1 THEN (k - 1) - 1 + 1 ELSE 0
        /\ \A j \in 1 .. (k - 1) - 1 + 1 : a[j] = s[1 + j - 1]
    BY <2>1, SubSeqProperties
  <2> HIDE DEF a
  <2> QED BY <2>2
<1>3. /\ b \in Seq(S) /\ Len(b) = Len(s) - k
      /\ \A j \in 1 .. Len(s) - k : b[j] = s[j + k]
  <2>1. k + 1 \in Int /\ Len(s) \in Int /\ \A j \in k + 1 .. Len(s) : s[j] \in S
    BY <1>1
  <2>2. /\ b \in Seq(S) /\ Len(b) = IF k + 1 <= Len(s) THEN Len(s) - (k + 1) + 1 ELSE 0
        /\ \A j \in 1 .. Len(s) - (k + 1) + 1 : b[j] = s[k + 1 + j - 1]
    BY <2>1, SubSeqProperties
  <2> HIDE DEF b
  <2>3. Len(b) = Len(s) - k
    BY <1>1, <2>2
  <2> QED BY <1>1, <2>2, <2>3
<1>4. t = a \o b
  BY DEF RemoveAt
<1> HIDE DEF a, b, t
<1>5. t \in Seq(S) /\ Len(t) = Len(s) - 1
  BY <1>1, <1>2, <1>3, <1>4
<1>6. ASSUME NEW j \in 1 .. Len(s) - 1
      PROVE  t[j] = IF j < k THEN s[j] ELSE s[j + 1]
  <2>1. t[j] = IF j <= Len(a) THEN a[j] ELSE b[j - Len(a)]
    BY <1>1, <1>2, <1>3, <1>4, ConcatProperties
  <2> QED BY <1>1, <1>2, <1>3, <2>1
<1> QED BY <1>1, <1>5, <1>6 DEF t

LEMMA RemoveAtElements ==
  ASSUME NEW S, NEW s \in Seq(S), NEW k \in 1 .. Len(s), IsInjective(s)
  PROVE  /\ IsInjective(RemoveAt(s, k))
         /\ Range(RemoveAt(s, k)) = Range(s) \ {s[k]}
         /\ s[k] \in Range(s)
<1> DEFINE t == RemoveAt(s, k)
<1>1. /\ t \in Seq(S) /\ Len(t) = Len(s) - 1 /\ Len(s) \in Nat
      /\ \A j \in 1 .. Len(s) - 1 : t[j] = IF j < k THEN s[j] ELSE s[j + 1]
  BY RemoveAtFacts
<1> HIDE DEF t
<1>2. ASSUME NEW j \in 1 .. Len(t), NEW m \in 1 .. Len(t), t[j] = t[m] PROVE j = m
  <2> DEFINE f(x) == IF x < k THEN x ELSE x + 1
  <2>1. f(j) \in DOMAIN s /\ f(m) \in DOMAIN s /\ t[j] = s[f(j)] /\ t[m] = s[f(m)]
    BY <1>1
  <2>2. f(j) = f(m)
    BY <1>2, <2>1 DEF IsInjective
  <2> QED BY <1>1, <2>2
<1>3. ASSUME NEW j \in 1 .. Len(t) PROVE t[j] \in Range(s) \ {s[k]}
  <2>1. PICK x \in DOMAIN s : t[j] = s[x] /\ x # k /\ k \in DOMAIN s
    <3>1. j \in 1 .. Len(s) - 1 /\ k \in DOMAIN s /\ j \in DOMAIN s /\ j + 1 \in DOMAIN s
      BY <1>1
    <3>2. CASE j < k
      <4>1. t[j] = s[j] /\ j # k
        BY <1>1, <3>1, <3>2
      <4> QED BY <3>1, <4>1
    <3>3. CASE ~(j < k)
      <4>1. t[j] = s[j + 1] /\ j + 1 # k
        BY <1>1, <3>1, <3>3
      <4> QED BY <3>1, <4>1
    <3> QED BY <3>2, <3>3
  <2> QED BY <2>1 DEF IsInjective, Range
<1>4. ASSUME NEW c \in Range(s) \ {s[k]} PROVE c \in Range(t)
  <2>1. PICK x \in 1 .. Len(s) : c = s[x] /\ x # k
    BY DEF Range
  <2>2. PICK j \in 1 .. Len(t) : t[j] = c
    <3>1. CASE x < k
      BY <1>1, <2>1, <3>1
    <3>2. CASE x > k
      <4>1. x - 1 \in 1 .. Len(t) /\ t[x - 1] = s[x]
        BY <1>1, <3>2
      <4> QED BY <2>1, <4>1
    <3> QED BY <2>1, <3>1, <3>2
  <2> QED BY <1>1, <2>2 DEF Range
<1>5. s[k] \in Range(s)
  BY DEF Range
<1>6. IsInjective(t)
  BY <1>1, <1>2 DEF IsInjective
<1>7. Range(t) \subseteq Range(s) \ {s[k]}
  BY <1>1, <1>3 DEF Range
<1> QED BY <1>4, <1>5, <1>6, <1>7 DEF t

==============================================================================
