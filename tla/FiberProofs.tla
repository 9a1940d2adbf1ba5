----------------------------- MODULE FiberProofs -----------------------------
(***************************************************************************)
(* Native stacks are never shared, for any number of fibers and any        *)
(* program, one that resumes a fiber twice included.  For programs within  *)
(* the gates of Fiber (InnerFibers, NextAndEach and Reenter FALSE) the     *)
(* invariant FiberInv is inductive: control goes back to whoever resumed,  *)
(* a fiber that waits is intact, only the drop of a fiber inside an `each` *)
(* loses stacks, the collector frees no fiber in use, and the whole        *)
(* implements Coroutines.                                                  *)
(***************************************************************************)
EXTENDS Fiber, SequenceFacts, SequenceTheorems, FiniteSetTheorems, TLAPS

(* Stacks are numbered in the order they are allocated in; each one that a *)
(* fiber owns or the store keeps has been allocated.                       *)
StackInv ==
    /\ made \in Nat
    /\ stack \in [F -> Nat]
    /\ \A f \in F : stack[f] <= made
    /\ store \in Seq(1 .. made)
    /\ StackExclusive

-----------------------------------------------------------------------------

LEMMA SeqFacts ==
  ASSUME NEW S, NEW T, S \subseteq T, NEW s \in Seq(S)
  PROVE  s \in Seq(T) /\ Range(s) \subseteq S
<1>1. s \in [1 .. Len(s) -> S]
  BY LenProperties
<1>2. Range(s) \subseteq S
  BY <1>1 DEF Range
<1> QED BY <1>2, SeqMonotonic

LEMMA OrderFacts ==
  ASSUME NEW S, IsFiniteSet(S), NEW s \in SetToSeqs(S)
  PROVE  s \in Seq(S) /\ IsInjective(s) /\ Range(s) \subseteq S
<1> DEFINE n == Cardinality(S)
<1>1. n \in Nat
  BY FS_CardinalityType
<1>2. s \in [1 .. n -> S] /\ \A i, j \in 1 .. n : i # j => s[i] # s[j]
  BY DEF SetToSeqs
<1> HIDE DEF n
<1>3. s \in Seq(S)
  BY <1>1, <1>2
<1> QED BY <1>2, <1>3 DEF IsInjective, Range

(* Two sequences without repetition and with nothing in common.            *)
LEMMA ConcatElements ==
  ASSUME NEW S, NEW s \in Seq(S), NEW t \in Seq(S),
         IsInjective(s), IsInjective(t), Range(s) \cap Range(t) = {}
  PROVE  /\ s \o t \in Seq(S) /\ IsInjective(s \o t)
         /\ Range(s \o t) \subseteq Range(s) \cup Range(t)
<1> DEFINE u == s \o t  m == Len(s)  n == Len(t)
<1>1. /\ u \in Seq(S) /\ Len(u) = m + n /\ m \in Nat /\ n \in Nat
      /\ \A k \in 1 .. m + n : u[k] = IF k <= m THEN s[k] ELSE t[k - m]
  BY ConcatProperties
<1>2. DOMAIN s = 1 .. m /\ DOMAIN t = 1 .. n /\ DOMAIN u = 1 .. m + n
  BY <1>1
<1> HIDE DEF u, m, n
<1>3. \A k \in 1 .. m : u[k] = s[k] /\ u[k] \in Range(s)
  <2>1. \A k \in 1 .. m : u[k] = s[k]
    BY <1>1
  <2> QED BY <2>1, <1>2 DEF Range
<1>4. \A k \in m + 1 .. m + n : u[k] = t[k - m] /\ k - m \in 1 .. n /\ u[k] \in Range(t)
  <2>1. \A k \in m + 1 .. m + n : u[k] = t[k - m] /\ k - m \in 1 .. n
    BY <1>1
  <2>2. \A j \in 1 .. n : t[j] \in Range(t)
    BY <1>2 DEF Range
  <2> QED BY <2>1, <2>2
<1>5. \A k \in 1 .. m + n : k \in 1 .. m \/ k \in m + 1 .. m + n
  BY <1>1
<1>6. ASSUME NEW a \in 1 .. m + n, NEW b \in 1 .. m + n, u[a] = u[b]
      PROVE  a = b
  <2>1. CASE a \in 1 .. m /\ b \in 1 .. m
    BY <2>1, <1>3, <1>6, <1>2 DEF IsInjective
  <2>2. CASE a \in m + 1 .. m + n /\ b \in m + 1 .. m + n
    <3>1. a - m = b - m
      BY <2>2, <1>4, <1>6, <1>2 DEF IsInjective
    <3> QED BY <3>1, <1>1
  <2>3. CASE a \in 1 .. m /\ b \in m + 1 .. m + n
    BY <2>3, <1>3, <1>4, <1>6
  <2>4. CASE a \in m + 1 .. m + n /\ b \in 1 .. m
    BY <2>4, <1>3, <1>4, <1>6
  <2> QED BY <2>1, <2>2, <2>3, <2>4, <1>5
<1>7. Range(u) \subseteq Range(s) \cup Range(t)
  BY <1>2, <1>3, <1>4, <1>5 DEF Range
<1>8. IsInjective(u)
  BY <1>2, <1>6 DEF IsInjective
<1> QED BY <1>1, <1>7, <1>8 DEF u

-----------------------------------------------------------------------------
(* Stack::allocate: the fiber gets a stack that nobody has.                *)

LEMMA InvokeStacks ==
  ASSUME StackInv, NEW f \in F, NEW fr, Invoke(f, fr)
  PROVE  StackInv'
<1>1. /\ store' = StoreLeft /\ made' = MadeLeft
      /\ stack' = [stack EXCEPT ![f] = Popped]
  BY DEF Invoke
<1>2. CASE store = <<>>
  <2>1. /\ store' = <<>> /\ made' = made + 1 /\ made \in Nat
        /\ stack' = [stack EXCEPT ![f] = made + 1]
    BY <1>1, <1>2 DEF StackInv, StoreLeft, MadeLeft, Popped
  <2>2. store' \in Seq(1 .. made') /\ IsInjective(store') /\ Range(store') = {}
    BY <2>1 DEF IsInjective, Range
  <2>3. stack' \in [F -> Nat] /\ \A g \in F : stack'[g] <= made'
    BY <2>1 DEF StackInv
  <2>4. \A g, h \in F : g # h /\ stack'[g] # NoStack => stack'[g] # stack'[h]
    BY <2>1 DEF StackInv, StackExclusive
  <2> QED BY <2>1, <2>2, <2>3, <2>4 DEF StackInv, StackExclusive
<1>3. CASE store # <<>>
  <2>1. /\ store' = Front(store) /\ made' = made
        /\ stack' = [stack EXCEPT ![f] = Last(store)]
    BY <1>1, <1>3 DEF StoreLeft, MadeLeft, Popped
  <2>2. /\ store \in Seq(1 .. made) /\ IsInjective(store) /\ made \in Nat
        /\ stack \in [F -> Nat] /\ \A g \in F : stack[g] <= made
        /\ \A g \in F : stack[g] \notin Range(store)
    BY DEF StackInv, StackExclusive
  <2>3. Front(store) \in Seq(1 .. made) /\ Last(store) \in 1 .. made
    BY <1>3, <2>2, FrontFacts
  <2>4. /\ IsInjective(Front(store)) /\ Last(store) \in Range(store)
        /\ Range(Front(store)) = Range(store) \ {Last(store)}
    BY <1>3, <2>2, FrontElements
  <2>5. \A g, h \in F : g # h /\ stack'[g] # NoStack => stack'[g] # stack'[h]
    BY <2>1, <2>2, <2>4 DEF StackInv, StackExclusive
  <2>6. \A g \in F : stack'[g] \notin Range(store')
    BY <2>1, <2>2, <2>4
  <2>7. stack' \in [F -> Nat] /\ \A g \in F : stack'[g] <= made'
    BY <2>1, <2>2, <2>3
  <2> QED BY <2>1, <2>2, <2>3, <2>4, <2>5, <2>6, <2>7 DEF StackInv, StackExclusive
<1> QED BY <1>2, <1>3

-----------------------------------------------------------------------------
(* Stack::deallocate: the stacks of D go to the store, and nobody has them.*)

LEMMA DeallocateStacks ==
  ASSUME StackInv, NEW D \in SUBSET F, Deallocate(D), made' = made
  PROVE  StackInv'
<1>1. PICK s \in SetToSeqs(Owned(D)) : store' = store \o s
  BY DEF Deallocate
<1>2. stack' = [f \in F |-> IF f \in D THEN NoStack ELSE stack[f]]
  BY DEF Deallocate
<1>3. Owned(D) \subseteq 1 .. made
  BY DEF Owned, StackInv, NoStack
<1>4. IsFiniteSet(Owned(D))
  <2>1. IsFiniteSet(1 .. made)
    BY FS_Interval DEF StackInv
  <2> QED BY <2>1, <1>3, FS_Subset
<1>5. s \in Seq(Owned(D)) /\ IsInjective(s) /\ Range(s) \subseteq Owned(D)
  BY <1>4, OrderFacts
<1>6. s \in Seq(1 .. made)
  BY <1>3, <1>5, SeqFacts
<1>7. Range(store) \cap Owned(D) = {}
  BY DEF Owned, StackInv, StackExclusive
<1>8. /\ store' \in Seq(1 .. made) /\ IsInjective(store')
      /\ Range(store') \subseteq Range(store) \cup Owned(D)
  <2>1. Range(store) \cap Range(s) = {}
    BY <1>5, <1>7
  <2>2. store \in Seq(1 .. made) /\ IsInjective(store)
    BY DEF StackInv, StackExclusive
  <2>3. store \o s \in Seq(1 .. made) /\ IsInjective(store \o s)
        /\ Range(store \o s) \subseteq Range(store) \cup Range(s)
    BY <1>5, <1>6, <2>1, <2>2, ConcatElements
  <2> QED BY <1>1, <1>5, <2>3
<1>9. stack' \in [F -> Nat] /\ \A g \in F : stack'[g] <= made'
  BY <1>2 DEF StackInv, NoStack
<1>10. \A g, h \in F : g # h /\ stack'[g] # NoStack => stack'[g] # stack'[h]
  BY <1>2 DEF StackInv, StackExclusive
<1>11. ASSUME NEW g \in F PROVE stack'[g] \notin Range(store')
  <2>1. Range(store') \subseteq 1 .. made
    BY <1>8, SeqFacts
  <2>2. CASE g \in D
    BY <1>2, <2>1, <2>2 DEF NoStack
  <2>3. CASE g \notin D /\ stack[g] = NoStack
    BY <1>2, <2>1, <2>3 DEF NoStack
  <2>4. CASE g \notin D /\ stack[g] # NoStack
    <3>1. stack[g] \notin Owned(D)
      BY <2>4 DEF Owned, StackInv, StackExclusive
    <3> QED BY <1>2, <1>8, <2>4, <3>1 DEF StackInv, StackExclusive
  <2> QED BY <2>2, <2>3, <2>4
<1> QED BY <1>8, <1>9, <1>10, <1>11 DEF StackInv, StackExclusive

-----------------------------------------------------------------------------

LEMMA SameStacks ==
  ASSUME StackInv, UNCHANGED <<stack, store, made>>
  PROVE  StackInv'
BY DEF StackInv, StackExclusive, IsInjective, Range

(* Every execution of the model keeps the native stacks apart: the one a   *)
(* fiber runs on is no other fiber's and is not in STACK_STORE, where the  *)
(* next fiber would take it from.                                          *)
THEOREM StacksExclusive == Spec => []StackExclusive
<1>1. Init => StackInv
  BY DEF Init, StackInv, StackExclusive, NoStack, IsInjective, Range
<1>2. StackInv /\ [Next]_vars => StackInv'
  <2> SUFFICES ASSUME StackInv, [Next]_vars PROVE StackInv'
    OBVIOUS
  <2>1. CASE \E f \in F, k \in {"Fiber", "Enum"}, B \in SUBSET F : New(f, k, B)
    BY <2>1, SameStacks DEF New, stackVars
  <2>2. ASSUME NEW f \in F, Resume(f) PROVE StackInv'
    <3>1. CASE Invoke(f, frames)
      BY <3>1, InvokeStacks
    <3>2. CASE Switch(f, frames)
      BY <3>2, SameStacks DEF Switch, stackVars
    <3> QED BY <2>2, <3>1, <3>2 DEF Resume
  <2>3. CASE \E f \in F : Forget(f)
    BY <2>3, SameStacks DEF Forget, stackVars
  <2>4. ASSUME NEW e \in F, NEW f \in F, EachStart(e, f) PROVE StackInv'
    BY <2>4, InvokeStacks DEF EachStart
  <2>5. CASE \E f \in F : EachNext(f)
    BY <2>5, SameStacks DEF EachNext, Switch, stackVars
  <2>6. ASSUME NEW f \in F, EachAbort(f) PROVE StackInv'
    BY <2>6, DeallocateStacks DEF EachAbort, Drop
  <2>7. CASE \E V \in SUBSET F : Yield(V)
    BY <2>7, SameStacks DEF Yield
  <2>8. CASE \E V \in SUBSET F : Finish(V)
    <3>1. cpu \in F /\ Deallocate({cpu}) /\ made' = made
      BY <2>8 DEF Finish
    <3> QED BY <3>1, DeallocateStacks
  <2>9. CASE Collect
    <3>1. Deallocate(Heap \ Marked) /\ made' = made /\ Heap \ Marked \subseteq F
      BY <2>9 DEF Collect, Drop, Heap
    <3> QED BY <3>1, DeallocateStacks
  <2>10. CASE \E y \in Exec, r \in F : Pass(y, r)
    BY <2>10, SameStacks DEF Pass, stackVars
  <2>11. CASE UNCHANGED vars
    BY <2>11, SameStacks DEF vars, stackVars
  <2> QED
    BY <2>1, <2>2, <2>3, <2>4, <2>5, <2>6, <2>7, <2>8, <2>9, <2>10, <2>11 DEF Next
<1> QED BY <1>1, <1>2, PTL DEF Spec, StackInv

-----------------------------------------------------------------------------
(* What holds of the executions and of the calls that wait on their stacks.*)

(* The calls that wait on the stack of each execution.                     *)
calls == [x \in Exec |-> Calls(x)]
Depth(x) == Len(calls[x])
Ends(x, op) == calls[x] # <<>> /\ calls[x][Depth(x)].op = op

Running == {f \in F : state[f] = "Running"}
Live == Running \cup {MAIN}

(* Each stack made lies in the store or is that of a fiber that runs or    *)
(* waits, also of one in nobody's hands; these fibers all have a stack.    *)
StacksAccounted ==
    TypeOK /\ 1 .. made = Range(store) \cup {stack[f] : f \in Running}
Stacks ==
    /\ StackInv
    /\ StacksAccounted
    /\ \A f \in F : stack[f] # NoStack <=> state[f] = "Running"

(* The fibers the program can refer to.                                    *)
Known == {f \in F : kind[f] # "Inner" /\ state[f] # "none"}

EachCall(x, k, f) ==
    k \in 1 .. Depth(x) /\ calls[x][k].op = "each" /\ calls[x][k].of = f
Resumes(x, f) == Ends(x, "resume") /\ calls[x][Depth(x)].of = f

(* The k-th call that waits in x.  Only calls of each wait below the last. *)
CallOK(x, k) ==
    LET fr == calls[x][k] IN
    /\ fr.vm = x
    /\ \/ fr.op = "each"
       \/ fr.op \in {"resume", "yield"} /\ k = Depth(x)
    /\ fr.op = "resume" =>
           /\ fr.of \in Active /\ fr.self = fr.of
           /\ main_rsp[fr.of] = [stack |-> StackOf(x), depth |-> k]
    /\ fr.op = "yield" => x \in F /\ fr.self = x /\ rsp[x] = k
CallsOK == \A x \in Live : \A k \in 1 .. Depth(x) : CallOK(x, k)

(* The fiber f of an iteration over e that x does.                         *)
Owner(x, f, e) ==
    /\ kind[f] = "Inner" /\ state[f] = "Running"
    /\ kind[e] = "Enum"
    /\ state[e] # "dropped" => info[f] \subseteq info[e]
    /\ x \in F /\ kind[x] = "Inner" => e \in info[x]
OwnedFrom(x, k) == Owner(x, calls[x][k].of, calls[x][k].self)
Owners ==
    \A x \in Live : \A k \in 1 .. Depth(x) :
        calls[x][k].op = "each" => OwnedFrom(x, k)

(* One call of each owns a fiber.                                          *)
OneEach ==
    \A f \in F : \A x, y \in Live : \A j \in 1 .. Depth(x), k \in 1 .. Depth(y) :
        EachCall(x, j, f) /\ EachCall(y, k, f) => x = y /\ j = k

(* Somebody resumed each fiber that is active, from each when each owns it.*)
Resumed ==
    \A f \in Active : \E y \in Live :
        /\ Resumes(y, f)
        /\ kind[f] = "Inner" => EachCall(y, Depth(y) - 1, f)

(* The execution that has control is the one that waits for nobody.        *)
InControl ==
    /\ cpu \in Live
    /\ \A x \in Live : x = cpu <=> ~Ends(x, "resume") /\ ~Ends(x, "yield")

Kinds ==
    \A f \in F :
        /\ kind[f] = "Inner" => state[f] \in {"Running", "dropped"} /\ hold[f] = {}
        /\ kind[f] = "Enum" => state[f] \in {"Created", "dropped"}
        /\ state[f] = "none" => kind[f] = "Fiber" /\ hold[f] = {}

(* What x has to work with, and that none of it was dropped.               *)
Has(x, g) ==
    \/ g \in Uses(x)
    \/ \E k \in 1 .. Depth(x) : calls[x][k].op = "each" /\ calls[x][k].self = g
Sound(x) == \A g \in F : Has(x, g) => state[g] # "dropped"
References ==
    /\ \A x \in Exec, g \in F : Has(x, g) => g \in Known
    /\ \A x \in {MAIN} \cup Heap : x = MAIN \/ state[x] # "Dead" => Sound(x)
    /\ \A x \in Live, f \in F : Resumes(x, f) /\ kind[f] # "Inner" => f \in Uses(x)

(* Whoever is active was resumed, step by step, from MAIN.                 *)
Chain ==
    \A S \in SUBSET Exec :
        /\ MAIN \in S
        /\ \A f \in Active, y \in Live : Resumes(y, f) /\ y \in S => f \in S
        => Active \subseteq S

Control == CallsOK /\ Owners /\ OneEach /\ Resumed /\ InControl /\ Chain
FiberInv == Stacks /\ Control /\ Kinds /\ References

-----------------------------------------------------------------------------
(* The stacks of the live executions *)

Places == NativeStack \cup {MAIN}

LEMMA OrderElements ==
  ASSUME NEW S, IsFiniteSet(S), NEW s \in SetToSeqs(S)
  PROVE  Range(s) = S
<1> DEFINE n == Cardinality(S)
<1>1. n \in Nat /\ IsFiniteSet(1 .. n) /\ Cardinality(1 .. n) = n
  <2>1. n \in Nat
    BY FS_CardinalityType
  <2> QED BY <2>1, FS_Interval
<1>2. s \in [1 .. n -> S] /\ \A i, j \in 1 .. n : i # j => s[i] # s[j]
  BY DEF SetToSeqs
<1>3. s \in Injection(1 .. n, S)
  <2> HIDE DEF n
  <2> QED BY <1>2 DEF Injection, IsInjective
<1>4. s \in Surjection(1 .. n, S)
  BY <1>1, <1>3, FS_Injection
<1> HIDE DEF n
<1>5. \A x \in S : \E i \in 1 .. n : s[i] = x
  BY <1>4 DEF Surjection
<1> QED BY <1>2, <1>5 DEF Range

LEMMA StackFacts ==
  ASSUME Stacks
  PROVE  /\ calls \in [Exec -> Seq(FrameSet)]
         /\ \A x \in Live : /\ x \in Exec /\ StackOf(x) \in Places /\ StackOf(x) # NoStack
                            /\ StackOf(x) \notin Range(store) /\ calls[x] = frames[StackOf(x)]
         /\ \A x \in Exec \ Live : calls[x] = <<>>
         /\ \A x, y \in Live : StackOf(x) = StackOf(y) => x = y
<1>1. /\ frames \in [Places -> Seq(FrameSet)] /\ stack \in [F -> NativeStack \cup {NoStack}]
      /\ made \in 0 .. Cardinality(F) /\ Cardinality(F) \in Nat
      /\ NativeStack \subseteq Nat \ {0} /\ MAIN \notin Nat /\ NoStack = 0
  <2>1. Cardinality(F) \in Nat
    BY FiberAssumption, FS_CardinalityType
  <2> QED BY <2>1, FiberAssumption DEF Stacks, StacksAccounted, TypeOK, NativeStack, NoStack, Places
<1>2. \A f \in F : f # MAIN
  BY FiberAssumption
<1>3. Range(store) \subseteq Nat
  <2>1. store \in Seq(1 .. made)
    BY DEF Stacks, StackInv
  <2>2. Range(store) \subseteq 1 .. made
    BY <2>1, SeqFacts
  <2> QED BY <1>1, <2>2
<1>4. ASSUME NEW x \in Live
      PROVE  /\ x \in Exec /\ StackOf(x) \in Places /\ StackOf(x) # NoStack
             /\ StackOf(x) \notin Range(store) /\ calls[x] = frames[StackOf(x)]
  <2>1. x \in Exec /\ StackOf(x) \in Places /\ StackOf(x) # NoStack
    BY <1>1, <1>2 DEF Stacks, Live, Running, Exec, StackOf, Places
  <2>2. StackOf(x) \notin Range(store)
    BY <1>1, <1>2, <1>3 DEF Stacks, StackInv, StackExclusive, Live, Running, StackOf
  <2> QED BY <2>1, <2>2 DEF calls, Calls
<1>5. ASSUME NEW x \in Exec \ Live PROVE calls[x] = <<>>
  BY <1>2 DEF Stacks, calls, Calls, Live, Running, Exec, StackOf
<1>6. ASSUME NEW x \in Live, NEW y \in Live, StackOf(x) = StackOf(y) PROVE x = y
  BY <1>1, <1>2, <1>6 DEF Stacks, StackInv, StackExclusive, Live, Running, StackOf
<1>7. calls \in [Exec -> Seq(FrameSet)]
  <2>1. ASSUME NEW x \in Exec PROVE Calls(x) \in Seq(FrameSet)
    <3>1. CASE x \in Live
      <4>1. calls[x] = Calls(x)
        BY <2>1 DEF calls
      <4>2. StackOf(x) \in Places /\ calls[x] = frames[StackOf(x)]
        BY <1>4, <3>1
      <4> QED BY <1>1, <4>1, <4>2
    <3>2. CASE x \notin Live
      <4>1. Calls(x) = <<>>
        BY <1>5, <3>2 DEF calls
      <4> QED BY <4>1
    <3> QED BY <3>1, <3>2
  <2> QED BY <2>1 DEF calls
<1> QED BY <1>4, <1>5, <1>6, <1>7

LEMMA ActiveFacts ==
  ASSUME calls \in [Exec -> Seq(FrameSet)]
  PROVE  /\ Active = {f \in Running : ~Ends(f, "yield")}
         /\ Suspended = {f \in Running : Ends(f, "yield")}
         /\ \A x \in Exec : \A op : Waits(x, op) <=> Ends(x, op)
<1>1. ASSUME NEW x \in Exec, NEW op PROVE Waits(x, op) <=> Ends(x, op)
  BY DEF Waits, Top, Ends, Depth, calls, Last
<1> QED BY <1>1 DEF Active, Suspended, Running, Exec

StackView ==
    /\ calls \in [Exec -> Seq(FrameSet)]
    /\ \A x \in Live : calls[x] = frames[StackOf(x)]
    /\ \A x \in Exec \ Live : calls[x] = <<>>
    /\ Active = {f \in Running : ~Ends(f, "yield")}

LEMMA StackViewHolds ==
  ASSUME Stacks
  PROVE  StackView
BY StackFacts, ActiveFacts DEF StackView

LEMMA StackFactsNext ==
  ASSUME Stacks'
  PROVE  /\ calls' \in [Exec -> Seq(FrameSet)]
         /\ \A x \in Live' : calls'[x] = frames'[StackOf(x)']
         /\ \A x \in Exec \ Live' : calls'[x] = <<>>
         /\ Active' = {f \in Running' : ~Ends(f, "yield")'}
<1>1. (Stacks => StackView)'
  BY StackViewHolds, PTL
<1> QED BY <1>1 DEF StackView, Exec

(* Stack::allocate finds a stack that was not handed out.                  *)
LEMMA PoppedFacts ==
  ASSUME Stacks, NEW f \in F, state[f] # "Running"
  PROVE  /\ Popped \in NativeStack /\ Popped # NoStack
         /\ MadeLeft \in 0 .. Cardinality(F)
         /\ \A x \in Live : StackOf(x) # Popped
<1>1. /\ made \in 0 .. Cardinality(F) /\ Cardinality(F) \in Nat /\ MAIN \notin Nat
      /\ store \in Seq(1 .. made) /\ 1 .. made = Range(store) \cup {stack[g] : g \in Running}
  <2>1. Cardinality(F) \in Nat
    BY FiberAssumption, FS_CardinalityType
  <2> QED BY <2>1, FiberAssumption DEF Stacks, StackInv, StacksAccounted, TypeOK, Running
<1>2. CASE store = <<>>
  <2>1. made < Cardinality(F)
    <3> DEFINE G == F \ {f}
               s == [g \in Running |-> stack[g]]
    <3>1. IsFiniteSet(G) /\ Cardinality(G) = Cardinality(F) - 1
      BY FiberAssumption, FS_RemoveElement
    <3>2. Running \subseteq G
      BY DEF Running
    <3>3. IsFiniteSet(Running) /\ Cardinality(Running) <= Cardinality(G)
      BY <3>1, <3>2, FS_Subset
    <3>4. Range(store) = {}
      BY <1>2 DEF Range
    <3>5. s \in Surjection(Running, 1 .. made)
      <4>1. \A g \in Running : stack[g] \in 1 .. made
        BY <1>1
      <4>2. \A n \in 1 .. made : \E g \in Running : stack[g] = n
        BY <1>1, <3>4
      <4> QED BY <4>1, <4>2 DEF Surjection
    <3>6. Cardinality(1 .. made) <= Cardinality(Running)
      <4> HIDE DEF s
      <4> QED BY <3>3, <3>5, FS_Surjection
    <3>7. Cardinality(1 .. made) = made
      BY <1>1, FS_Interval
    <3>8. Cardinality(Running) \in Nat /\ Cardinality(G) \in Nat
      BY <3>1, <3>3, FS_CardinalityType
    <3> QED BY <1>1, <3>1, <3>3, <3>6, <3>7, <3>8
  <2>2. Popped = made + 1 /\ MadeLeft = made + 1
    BY <1>2 DEF Popped, MadeLeft
  <2>3. \A g \in F : stack[g] <= made /\ stack[g] \in Nat
    BY DEF Stacks, StackInv
  <2> QED BY <1>1, <2>1, <2>2, <2>3 DEF NativeStack, NoStack, Live, Running, StackOf
<1>3. CASE store # <<>>
  <2>1. Popped = Last(store) /\ MadeLeft = made
    BY <1>3 DEF Popped, MadeLeft
  <2>2. Last(store) \in 1 .. made /\ Last(store) \in Range(store)
    <3>1. IsInjective(store)
      BY DEF Stacks, StackInv, StackExclusive
    <3> QED BY <1>1, <1>3, <3>1, FrontFacts, FrontElements
  <2>3. \A x \in Live : StackOf(x) \notin Range(store)
    BY StackFacts
  <2> QED BY <1>1, <2>1, <2>2, <2>3 DEF NativeStack, NoStack
<1> QED BY <1>2, <1>3

(* The fiber runs on the stack that was found for it.                      *)
LEMMA InvokeKeeps ==
  ASSUME Stacks, NEW f \in F, state[f] # "Running", NEW fr, Invoke(f, fr),
         state' = [state EXCEPT ![f] = "Running"], TypeOK'
  PROVE  Stacks'
<1>1. /\ store' = StoreLeft /\ made' = MadeLeft
      /\ stack' = [stack EXCEPT ![f] = Popped]
  BY DEF Invoke
<1>2. /\ state \in [F -> {"none", "Created", "Running", "Dead", "dropped"}]
      /\ stack \in [F -> Nat] /\ made \in Nat /\ store \in Seq(1 .. made)
      /\ 1 .. made = Range(store) \cup {stack[g] : g \in Running}
      /\ \A g \in F : stack[g] # NoStack <=> state[g] = "Running"
  BY DEF Stacks, StackInv, StacksAccounted, TypeOK, Running
<1>3. StackInv'
  BY InvokeStacks DEF Stacks
<1>4. Popped # NoStack
  BY PoppedFacts
<1>5. \A g \in F : stack'[g] # NoStack <=> state'[g] = "Running"
  BY <1>1, <1>2, <1>4
<1>6. 1 .. made' = Range(store') \cup {stack'[g] : g \in Running'}
  <2>1. {stack'[g] : g \in Running'} = {stack[g] : g \in Running} \cup {Popped}
    <3>1. Running' = Running \cup {f} /\ stack'[f] = Popped
      BY <1>1, <1>2 DEF Running
    <3>2. \A g \in Running : stack'[g] = stack[g]
      BY <1>1, <1>2 DEF Running
    <3> QED BY <3>1, <3>2
  <2>2. CASE store = <<>>
    <3>1. store' = <<>> /\ made' = made + 1 /\ Popped = made + 1
      BY <1>1, <2>2 DEF StoreLeft, MadeLeft, Popped
    <3>2. Range(store) = {} /\ Range(store') = {}
      BY <2>2, <3>1 DEF Range
    <3>3. 1 .. made + 1 = (1 .. made) \cup {made + 1}
      BY <1>2
    <3> QED BY <1>2, <2>1, <3>1, <3>2, <3>3
  <2>3. CASE store # <<>>
    <3>1. store' = Front(store) /\ made' = made /\ Popped = Last(store)
      BY <1>1, <2>3 DEF StoreLeft, MadeLeft, Popped
    <3>2. IsInjective(store)
      BY DEF Stacks, StackInv, StackExclusive
    <3>3. Range(Front(store)) = Range(store) \ {Last(store)} /\ Last(store) \in Range(store)
      BY <1>2, <2>3, <3>2, FrontElements
    <3> QED BY <1>2, <2>1, <3>1, <3>3
  <2> QED BY <2>2, <2>3
<1>7. StacksAccounted'
  BY <1>6 DEF StacksAccounted, Running
<1> QED BY <1>3, <1>5, <1>7 DEF Stacks

LEMMA ConcatRange ==
  ASSUME NEW S, NEW s \in Seq(S), NEW t \in Seq(S)
  PROVE  Range(s \o t) = Range(s) \cup Range(t)
<1> DEFINE u == s \o t  m == Len(s)  n == Len(t)
<1>1. /\ u \in Seq(S) /\ Len(u) = m + n /\ m \in Nat /\ n \in Nat
      /\ \A k \in 1 .. m + n : u[k] = IF k <= m THEN s[k] ELSE t[k - m]
  BY ConcatProperties
<1>2. DOMAIN s = 1 .. m /\ DOMAIN t = 1 .. n /\ DOMAIN u = 1 .. m + n
  BY <1>1
<1> HIDE DEF u, m, n
<1>3. \A k \in 1 .. m : k \in 1 .. m + n /\ u[k] = s[k]
  BY <1>1
<1>4. \A k \in 1 .. n : k + m \in 1 .. m + n /\ u[k + m] = t[k]
  BY <1>1
<1>5. \A k \in 1 .. m + n : k \in 1 .. m \/ (k - m \in 1 .. n /\ (k - m) + m = k)
  BY <1>1
<1>6. Range(s) \subseteq Range(u)
  BY <1>2, <1>3 DEF Range
<1>7. Range(t) \subseteq Range(u)
  BY <1>2, <1>4 DEF Range
<1>8. ASSUME NEW c \in Range(u) PROVE c \in Range(s) \cup Range(t)
  <2>1. PICK k \in 1 .. m + n : c = u[k]
    BY <1>2 DEF Range
  <2>2. CASE k \in 1 .. m
    BY <1>2, <1>3, <2>1, <2>2 DEF Range
  <2>3. CASE k - m \in 1 .. n /\ (k - m) + m = k
    <3>1. u[k] = t[k - m]
      BY <1>4, <2>3
    <3> QED BY <1>2, <2>1, <2>3, <3>1 DEF Range
  <2> QED BY <1>5, <2>2, <2>3
<1> QED BY <1>6, <1>7, <1>8 DEF u

(* The stacks of the fibers in D, which end or are dropped, are all kept.  *)
LEMMA DeallocateKeeps ==
  ASSUME Stacks, NEW D \in SUBSET F, Deallocate(D), made' = made, TypeOK',
         \A f \in D : state'[f] # "Running", \A f \in F \ D : state'[f] = state[f]
  PROVE  Stacks'
<1>1. PICK s \in SetToSeqs(Owned(D)) : store' = store \o s
  BY DEF Deallocate
<1>2. stack' = [f \in F |-> IF f \in D THEN NoStack ELSE stack[f]]
  BY DEF Deallocate
<1>3. /\ stack \in [F -> Nat] /\ made \in Nat /\ store \in Seq(1 .. made)
      /\ 1 .. made = Range(store) \cup {stack[g] : g \in Running}
      /\ \A g \in F : stack[g] # NoStack <=> state[g] = "Running"
      /\ \A f \in F : stack[f] <= made
  BY DEF Stacks, StackInv, StacksAccounted, Running
<1>4. StackInv'
  BY DeallocateStacks DEF Stacks
<1>5. \A g \in F : stack'[g] # NoStack <=> state'[g] = "Running"
  BY <1>2, <1>3
<1>6. Owned(D) \subseteq 1 .. made /\ IsFiniteSet(Owned(D))
  <2>1. Owned(D) \subseteq 1 .. made
    BY <1>3 DEF Owned, NoStack
  <2>2. IsFiniteSet(1 .. made)
    BY <1>3, FS_Interval
  <2> QED BY <2>1, <2>2, FS_Subset
<1>7. Range(store') = Range(store) \cup Owned(D)
  <2>1. s \in Seq(Owned(D)) /\ Range(s) = Owned(D)
    BY <1>6, OrderFacts, OrderElements
  <2>2. s \in Seq(1 .. made)
    BY <1>6, <2>1, SeqFacts
  <2> QED BY <1>1, <1>3, <2>1, <2>2, ConcatRange
<1>8. {stack[g] : g \in Running} = Owned(D) \cup {stack'[g] : g \in Running'}
  <2>1. Running' = Running \ D
    BY DEF Running
  <2>2. \A g \in Running' : stack'[g] = stack[g]
    BY <1>2, <2>1 DEF Running
  <2>3. \A g \in F : g \in Running <=> stack[g] # NoStack
    BY <1>3 DEF Running
  <2>4. {stack'[g] : g \in Running'} = {stack[g] : g \in Running'}
    BY <2>2
  <2>5. Owned(D) = {stack[g] : g \in Running \cap D}
    BY <2>3 DEF Owned, Running
  <2> QED BY <2>1, <2>4, <2>5
<1>9. StacksAccounted'
  BY <1>3, <1>7, <1>8 DEF StacksAccounted, Running
<1> QED BY <1>4, <1>5, <1>9 DEF Stacks

-----------------------------------------------------------------------------
(* The context switch, seen from the calls that wait on each stack *)

LEMMA FrameFacts ==
  ASSUME NEW x \in Exec, NEW f \in F, NEW e \in F,
         NEW op \in {"entry", "resume", "yield", "each"}
  PROVE  /\ Frame(op, x, f, e) \in FrameSet
         /\ Frame(op, x, f, e).op = op /\ Frame(op, x, f, e).vm = x
         /\ Frame(op, x, f, e).of = f /\ Frame(op, x, f, e).self = e
BY DEF Frame, FrameSet

Cut(s, n) == SubSeq(s, 1, n)

LEMMA CutFacts ==
  ASSUME NEW S, NEW s \in Seq(S), NEW n \in 0 .. Len(s)
  PROVE  /\ Cut(s, n) \in Seq(S) /\ Len(Cut(s, n)) = n
         /\ \A k \in 1 .. n : k \in 1 .. Len(s) /\ Cut(s, n)[k] = s[k]
<1>1. Len(s) \in Nat /\ n \in Nat /\ 1 .. n \subseteq 1 .. Len(s)
  OBVIOUS
<1>2. \A k \in 1 .. n : s[k] \in S
  BY <1>1
<1>3. /\ Cut(s, n) \in Seq(S)
      /\ Len(Cut(s, n)) = IF 1 <= n THEN n - 1 + 1 ELSE 0
      /\ \A k \in 1 .. n - 1 + 1 : Cut(s, n)[k] = s[1 + k - 1]
  <2>1. 1 \in Int /\ n \in Int
    BY <1>1
  <2> QED BY <1>2, <2>1, SubSeqProperties DEF Cut
<1>4. (IF 1 <= n THEN n - 1 + 1 ELSE 0) = n
  BY <1>1
<1>5. \A k \in 1 .. n : k \in 1 .. n - 1 + 1 /\ 1 + k - 1 = k
  BY <1>1
<1> QED BY <1>1, <1>3, <1>4, <1>5

EnteredFrames(f, fr, s, d) ==
    /\ frames' \in [Places -> Seq(FrameSet)]
    /\ frames'[StackOf(cpu)] = Append(fr[StackOf(cpu)], Frame("resume", cpu, f, f))
    /\ d \in 1 .. Len(fr[s]) /\ frames'[s] = Cut(fr[s], d - 1)
    /\ d = 1 => frames'[s] = <<>>
    /\ cpu' = fr[s][d].vm
    /\ \A t \in Places \ {s, StackOf(cpu)} : frames'[t] = fr[t]
    /\ main_rsp' = [main_rsp EXCEPT ![f] =
           [stack |-> StackOf(cpu), depth |-> Len(fr[StackOf(cpu)]) + 1]]

LEMMA EnterFrames ==
  ASSUME NEW fr \in [Places -> Seq(FrameSet)], NEW f \in F, NEW s \in Places, NEW d \in Nat,
         cpu \in Exec, StackOf(cpu) \in Places, s # StackOf(cpu), EnterFiber(f, fr, s, d)
  PROVE  EnteredFrames(f, fr, s, d)
<1> DEFINE c == StackOf(cpu)
           new == Frame("resume", cpu, f, f)
           saved == [fr EXCEPT ![c] = Append(@, new)]
<1>1. /\ main_rsp' = [main_rsp EXCEPT ![f] = [stack |-> c, depth |-> Len(saved[c])]]
      /\ d \in 1 .. Len(saved[s])
      /\ frames' = [saved EXCEPT ![s] = Cut(@, d - 1)]
      /\ cpu' = saved[s][d].vm
  BY DEF EnterFiber, JumpTo, Push, ReturnPoint, Cut
<1>2. new \in FrameSet
  BY FrameFacts
<1> HIDE DEF new
<1>3. /\ fr[c] \in Seq(FrameSet) /\ fr[s] \in Seq(FrameSet)
      /\ Append(fr[c], new) \in Seq(FrameSet) /\ Len(Append(fr[c], new)) = Len(fr[c]) + 1
  BY <1>2, AppendFacts
<1>4. /\ saved \in [Places -> Seq(FrameSet)] /\ saved[c] = Append(fr[c], new)
      /\ \A t \in Places \ {c} : saved[t] = fr[t]
  BY <1>3
<1> HIDE DEF saved, c
<1>5. d \in 1 .. Len(fr[s]) /\ saved[s] = fr[s]
  BY <1>1, <1>4 DEF c
<1>6. Cut(fr[s], d - 1) \in Seq(FrameSet)
  <2>1. d - 1 \in 0 .. Len(fr[s])
    BY <1>3, <1>5
  <2> QED BY <1>3, <2>1, CutFacts
<1>7. /\ frames' \in [Places -> Seq(FrameSet)] /\ frames'[s] = Cut(fr[s], d - 1)
      /\ \A t \in Places \ {s} : frames'[t] = saved[t]
  BY <1>1, <1>4, <1>5, <1>6
<1>8. ASSUME d = 1 PROVE frames'[s] = <<>>
  <2>1. frames'[s] \in Seq(FrameSet) /\ Len(frames'[s]) = 0
    <3>1. d - 1 \in 0 .. Len(fr[s])
      BY <1>3, <1>5
    <3>2. Len(Cut(fr[s], d - 1)) = d - 1 /\ Cut(fr[s], d - 1) \in Seq(FrameSet)
      BY <1>3, <3>1, CutFacts
    <3> QED BY <1>7, <1>8, <3>2
  <2> QED BY <2>1
<1> QED BY <1>1, <1>3, <1>4, <1>5, <1>7, <1>8 DEF c, new, EnteredFrames

LeftFrames(f, s, c, extra) ==
    /\ frames' \in [Places -> Seq(FrameSet)]
    /\ frames'[s] = Append(frames[s], Frame("yield", f, f, f))
    /\ frames'[c] = Cut(frames[c], Len(frames[c]) - extra - 1)
    /\ cpu' = frames[c][Len(frames[c]) - extra].vm
    /\ \A t \in Places \ {s, c} : frames'[t] = frames[t]
    /\ rsp' = [rsp EXCEPT ![f] = Len(frames[s]) + 1]
    /\ main_rsp' = main_rsp

LEMMA LeaveFrames ==
  ASSUME frames \in [Places -> Seq(FrameSet)], NEW f \in F, NEW s \in Places,
         NEW extra \in {0, 1}, NEW c \in Places, c # s,
         main_rsp[f] = [stack |-> c, depth |-> Len(frames[c])],
         extra < Len(frames[c]), rsp \in [F -> Nat], LeaveFiber(f, s, extra)
  PROVE  LeftFrames(f, s, c, extra)
<1> DEFINE new == Frame("yield", f, f, f)
           saved == [frames EXCEPT ![s] = Append(@, new)]
           n == Len(frames[c])
           kept == [saved EXCEPT ![c] = Cut(@, n - extra)]
<1>0. main_rsp[f].stack = c /\ main_rsp[f].depth = n
  OBVIOUS
<1>1. /\ rsp' = [rsp EXCEPT ![f] = Len(saved[s])]
      /\ n - extra \in 1 .. Len(kept[c])
      /\ frames' = [kept EXCEPT ![c] = Cut(@, n - extra - 1)]
      /\ cpu' = kept[c][n - extra].vm
      /\ main_rsp' = main_rsp
  BY <1>0, Zenon DEF LeaveFiber, JumpTo, SavedRsp, Cut
<1>2. new \in FrameSet
  BY FrameFacts DEF Exec
<1> HIDE DEF new
<1>3. /\ frames[s] \in Seq(FrameSet) /\ frames[c] \in Seq(FrameSet)
      /\ n \in Nat /\ n # 0 /\ extra < n
      /\ Append(frames[s], new) \in Seq(FrameSet)
      /\ Len(Append(frames[s], new)) = Len(frames[s]) + 1
  BY <1>2, AppendFacts
<1>4. /\ saved \in [Places -> Seq(FrameSet)] /\ saved[s] = Append(frames[s], new)
      /\ \A t \in Places \ {s} : saved[t] = frames[t]
  BY <1>3
<1> DEFINE half == Cut(frames[c], n - extra)
           rest == Cut(frames[c], n - extra - 1)
<1>5. /\ half \in Seq(FrameSet) /\ Len(half) = n - extra
      /\ \A k \in 1 .. n - extra : half[k] = frames[c][k]
  <2> PICK m : m = n - extra
    OBVIOUS
  <2>1. m \in 0 .. Len(frames[c])
    BY <1>3
  <2>2. frames[c] \in Seq(FrameSet)
    BY <1>3
  <2>3. /\ Cut(frames[c], m) \in Seq(FrameSet) /\ Len(Cut(frames[c], m)) = m
        /\ \A k \in 1 .. m : Cut(frames[c], m)[k] = frames[c][k]
    <3> HIDE DEF n
    <3> QED BY <2>1, <2>2, CutFacts
  <2> QED BY <2>3
<1>6. /\ rest \in Seq(FrameSet) /\ Len(rest) = n - extra - 1
      /\ \A k \in 1 .. n - extra - 1 : rest[k] = frames[c][k]
  <2> PICK m : m = n - extra - 1
    OBVIOUS
  <2>1. m \in 0 .. Len(frames[c])
    BY <1>3
  <2>2. frames[c] \in Seq(FrameSet)
    BY <1>3
  <2>3. /\ Cut(frames[c], m) \in Seq(FrameSet) /\ Len(Cut(frames[c], m)) = m
        /\ \A k \in 1 .. m : Cut(frames[c], m)[k] = frames[c][k]
    <3> HIDE DEF n
    <3> QED BY <2>1, <2>2, CutFacts
  <2> QED BY <2>3
<1>7. Cut(half, n - extra - 1) = rest
  <2> DEFINE cut == Cut(half, n - extra - 1)
  <2>1. n - extra - 1 \in 0 .. n - extra
    BY <1>3
  <2>2. /\ cut \in Seq(FrameSet) /\ Len(cut) = n - extra - 1
        /\ \A k \in 1 .. n - extra - 1 : k \in 1 .. n - extra /\ cut[k] = half[k]
    <3> HIDE DEF half, n
    <3>1. n - extra - 1 \in 0 .. Len(half)
      BY <1>5, <2>1
    <3>2. /\ cut \in Seq(FrameSet) /\ Len(cut) = n - extra - 1
          /\ \A k \in 1 .. n - extra - 1 : k \in 1 .. Len(half) /\ cut[k] = half[k]
      BY <1>5, <3>1, CutFacts
    <3> QED BY <1>5, <3>2
  <2> HIDE DEF cut, half, rest, n
  <2>3. \A k \in 1 .. Len(cut) : cut[k] = rest[k]
    BY <1>5, <1>6, <2>2
  <2>4. Len(cut) = Len(rest)
    BY <1>6, <2>2
  <2> QED BY <1>6, <2>2, <2>3, <2>4, SeqEqual DEF cut
<1> HIDE DEF half, rest, n
<1>8. /\ kept \in [Places -> Seq(FrameSet)] /\ kept[c] = half
      /\ \A t \in Places \ {c} : kept[t] = saved[t]
  BY <1>4, <1>5 DEF half
<1> HIDE DEF kept
<1>9. frames' = [kept EXCEPT ![c] = rest]
  BY <1>1, <1>7, <1>8
<1>10. /\ frames' \in [Places -> Seq(FrameSet)] /\ frames'[c] = rest
       /\ \A t \in Places \ {c} : frames'[t] = kept[t]
  BY <1>6, <1>8, <1>9
<1>11. cpu' = frames[c][n - extra].vm
  <2>1. n - extra \in 1 .. n - extra
    BY <1>3
  <2> QED BY <1>1, <1>5, <1>8, <2>1
<1>12. rsp' = [rsp EXCEPT ![f] = Len(frames[s]) + 1]
  BY <1>1, <1>3, <1>4
<1> HIDE DEF saved
<1>13. frames'[s] = Append(frames[s], new)
  BY <1>4, <1>8, <1>10
<1>14. \A t \in Places \ {s, c} : frames'[t] = frames[t]
  BY <1>4, <1>8, <1>10
<1> QED BY <1>1, <1>10, <1>11, <1>12, <1>13, <1>14 DEF new, rest, n, LeftFrames

-----------------------------------------------------------------------------
(* Control is given *)

Typed ==
    /\ kind \in [F -> {"Fiber", "Enum", "Inner"}]
    /\ state \in [F -> {"none", "Created", "Running", "Dead", "dropped"}]
    /\ info \in [F -> SUBSET F]
    /\ hold \in [Exec -> SUBSET F]

(* The execution in control enters f; P are its calls before that.         *)
Entered(f, P) ==
    /\ f \in F /\ cpu \in Live /\ f # cpu /\ f # MAIN
    /\ Running' = Running \cup {f}
    /\ \A x \in Live : StackOf(x)' = StackOf(x)
    /\ P \in Seq(FrameSet)
    /\ calls'[cpu] = Append(P, Frame("resume", cpu, f, f))
    /\ calls'[f] = IF f \in Running THEN Cut(calls[f], Depth(f) - 1) ELSE <<>>
    /\ \A x \in Exec \ {cpu, f} : calls'[x] = calls[x]
    /\ cpu' = f
    /\ main_rsp' = [main_rsp EXCEPT ![f] = [stack |-> StackOf(cpu), depth |-> Len(P) + 1]]
    /\ \A x \in F \ {f} : rsp'[x] = rsp[x]

LEMMA EnterTypes ==
  ASSUME Stacks, NEW f \in F, NEW n \in Nat, cpu \in Live, cpu' = f, Typed',
         frames' \in [Places -> Seq(FrameSet)],
         main_rsp' = [main_rsp EXCEPT ![f] = [stack |-> StackOf(cpu), depth |-> n]],
         rsp' \in [F -> Nat], stack' \in [F -> NativeStack \cup {NoStack}],
         store' \in Seq(NativeStack), made' \in 0 .. Cardinality(F)
  PROVE  TypeOK'
<1>1. StackOf(cpu) \in Places
  BY StackFacts
<1>2. main_rsp' \in [F -> [stack : NativeStack \cup {MAIN, NoStack}, depth : Nat]]
  BY <1>1 DEF Stacks, StacksAccounted, TypeOK, Places
<1> QED BY <1>2 DEF TypeOK, Typed, Places, Exec

LEMMA InvokeStep ==
  ASSUME Stacks, NEW f \in F, state[f] # "Running", cpu \in Live,
         NEW fr \in [Places -> Seq(FrameSet)], \A t \in Places \ {StackOf(cpu)} : fr[t] = frames[t],
         Invoke(f, fr), state' = [state EXCEPT ![f] = "Running"], Typed'
  PROVE  Stacks' /\ Entered(f, fr[StackOf(cpu)])
<1> DEFINE s == Popped
           c == StackOf(cpu)
           one == <<Frame("entry", f, f, f)>>
           init == [fr EXCEPT ![s] = one]
           P == fr[c]
<1>1. /\ store' = StoreLeft /\ made' = MadeLeft /\ stack' = [stack EXCEPT ![f] = s]
      /\ rsp' = [rsp EXCEPT ![f] = 1] /\ EnterFiber(f, init, s, 1)
  BY DEF Invoke
<1>2. /\ s \in NativeStack /\ s # NoStack /\ s # c /\ s \in Places /\ c \in Places
      /\ cpu \in Exec /\ cpu # f /\ f # MAIN
      /\ \A x \in Live : StackOf(x) # s /\ x # f
  BY PoppedFacts, StackFacts, FiberAssumption DEF Places, Live, Running
<1>3. Frame("entry", f, f, f) \in FrameSet /\ Frame("entry", f, f, f).vm = f
  BY FrameFacts DEF Exec
<1>4. one \in Seq(FrameSet) /\ Len(one) = 1 /\ one[1].vm = f
  BY <1>3
<1> HIDE DEF one
<1>5. /\ init \in [Places -> Seq(FrameSet)] /\ init[s] = one
      /\ \A t \in Places \ {s} : init[t] = fr[t]
  BY <1>2, <1>4
<1> HIDE DEF init, s
<1>6. /\ frames' \in [Places -> Seq(FrameSet)]
      /\ frames'[c] = Append(P, Frame("resume", cpu, f, f))
      /\ frames'[s] = <<>> /\ cpu' = f
      /\ \A t \in Places \ {s, c} : frames'[t] = fr[t]
      /\ main_rsp' = [main_rsp EXCEPT ![f] = [stack |-> c, depth |-> Len(P) + 1]]
  <2>1. init[c] = P /\ init[s][1].vm = f
    BY <1>2, <1>4, <1>5
  <2>2. rsp'[f] = 1
    BY <1>1 DEF Stacks, StacksAccounted, TypeOK
  <2>3. EnterFiber(f, init, s, rsp'[f]) /\ rsp'[f] \in Nat
    BY <1>1, <2>2
  <2>4. EnteredFrames(f, init, s, rsp'[f])
    BY <1>2, <1>5, <2>3, EnterFrames
  <2>5. /\ frames'[c] = Append(init[c], Frame("resume", cpu, f, f))
        /\ frames' \in [Places -> Seq(FrameSet)]
        /\ frames'[s] = <<>> /\ cpu' = init[s][rsp'[f]].vm
        /\ \A t \in Places \ {s, c} : frames'[t] = init[t]
        /\ main_rsp' = [main_rsp EXCEPT ![f] = [stack |-> c, depth |-> Len(init[c]) + 1]]
    BY <2>2, <2>4 DEF EnteredFrames
  <2> QED BY <1>5, <2>1, <2>2, <2>5
<1>8. Stacks'
  <2>1. /\ rsp' \in [F -> Nat] /\ stack' \in [F -> NativeStack \cup {NoStack}]
        /\ made' \in 0 .. Cardinality(F)
    <3>1. rsp \in [F -> Nat] /\ stack \in [F -> NativeStack \cup {NoStack}]
      BY DEF Stacks, StacksAccounted, TypeOK
    <3> QED BY <1>1, <1>2, <3>1, PoppedFacts
  <2>2. store' \in Seq(NativeStack)
    <3>1. store \in Seq(NativeStack)
      BY DEF Stacks, StacksAccounted, TypeOK
    <3> QED BY <1>1, <3>1, FrontFacts DEF StoreLeft
  <2>3. Len(P) + 1 \in Nat
    <3>1. P \in Seq(FrameSet)
      BY <1>2
    <3> QED BY <3>1
  <2>4. TypeOK'
    BY <1>6, <2>1, <2>2, <2>3, EnterTypes
  <2> QED BY <2>4, InvokeKeeps
<1>9. Running' = Running \cup {f} /\ f \notin Running
  BY DEF Running, Stacks, StacksAccounted, TypeOK
<1>10. (\A x \in Live : StackOf(x)' = StackOf(x)) /\ StackOf(f)' = s
  <2>1. stack \in [F -> NativeStack \cup {NoStack}]
    BY DEF Stacks, StacksAccounted, TypeOK
  <2> QED BY <1>1, <1>2, <2>1 DEF StackOf, Live, Running
<1>11. /\ \A x \in Live' : calls'[x] = frames'[StackOf(x)']
       /\ \A x \in Exec \ Live' : calls'[x] = <<>>
  BY <1>8, StackFactsNext
<1>12. Live' = Live \cup {f}
  BY <1>9 DEF Live
<1>13. calls'[cpu] = Append(P, Frame("resume", cpu, f, f)) /\ calls'[f] = <<>>
  BY <1>6, <1>10, <1>11, <1>12
<1>14. ASSUME NEW x \in Exec \ {cpu, f} PROVE calls'[x] = calls[x]
  <2>1. CASE x \in Live
    <3>1. StackOf(x) \in Places \ {s, c} /\ calls[x] = frames[StackOf(x)]
      BY <1>2, <2>1, StackFacts
    <3>2. calls'[x] = frames'[StackOf(x)'] /\ StackOf(x)' = StackOf(x)
      BY <1>10, <1>11, <1>12, <2>1
    <3> QED BY <1>6, <3>1, <3>2
  <2>2. CASE x \notin Live
    BY <1>11, <1>12, <2>2, StackFacts
  <2> QED BY <2>1, <2>2
<1>15. P \in Seq(FrameSet)
  BY <1>2
<1> HIDE DEF P
<1>16. \A x \in F \ {f} : rsp'[x] = rsp[x]
  BY <1>1 DEF Stacks, StacksAccounted, TypeOK
<1> QED BY <1>2, <1>6, <1>8, <1>9, <1>10, <1>13, <1>14, <1>15, <1>16 DEF Entered, P

(* A fiber that waits is where it left off.                                *)
LEMMA SwitchStep ==
  ASSUME Stacks, CallsOK, InControl, Typed', ~Reenter,
         NEW f \in F, Switch(f, frames), state' = state
  PROVE  Stacks' /\ Entered(f, calls[cpu])
<1> DEFINE c == StackOf(cpu)
           s == stack[f]
<1>1. /\ f \in Suspended /\ EnterFiber(f, frames, s, rsp[f])
      /\ stack' = stack /\ rsp' = rsp /\ store' = store /\ made' = made
  BY DEF Switch, stackVars
<1>2. /\ calls \in [Exec -> Seq(FrameSet)] /\ frames \in [Places -> Seq(FrameSet)]
      /\ f # MAIN
  BY StackFacts, FiberAssumption DEF Stacks, StacksAccounted, TypeOK, Places
<1>3. f \in Running /\ Ends(f, "yield")
  BY <1>1, <1>2, ActiveFacts
<1>4. /\ f \in Live /\ cpu \in Live /\ f # cpu /\ cpu \in Exec
      /\ StackOf(f) = s /\ s \in Places /\ c \in Places /\ s # c
      /\ calls[f] = frames[s] /\ calls[cpu] = frames[c]
  BY <1>2, <1>3, StackFacts DEF InControl, Live, StackOf
<1>5. Depth(f) \in Nat /\ Depth(f) \in 1 .. Depth(f) /\ calls[f][Depth(f)].op = "yield"
  <2>1. calls[f] \in Seq(FrameSet) /\ calls[f] # <<>>
    BY <1>2, <1>3, <1>4 DEF Ends
  <2> QED BY <1>3, <2>1 DEF Ends, Depth
<1>6. rsp[f] = Depth(f) /\ calls[f][Depth(f)].vm = f
  <2>1. CallOK(f, Depth(f))
    BY <1>4, <1>5 DEF CallsOK
  <2> QED BY <1>5, <2>1 DEF CallOK
<1>7. /\ frames' \in [Places -> Seq(FrameSet)]
      /\ frames'[c] = Append(frames[c], Frame("resume", cpu, f, f))
      /\ frames'[s] = Cut(frames[s], rsp[f] - 1) /\ cpu' = frames[s][rsp[f]].vm
      /\ \A t \in Places \ {s, c} : frames'[t] = frames[t]
      /\ main_rsp' = [main_rsp EXCEPT ![f] = [stack |-> c, depth |-> Len(frames[c]) + 1]]
  <2>1. rsp[f] \in Nat
    BY DEF Stacks, StacksAccounted, TypeOK
  <2>2. EnteredFrames(f, frames, s, rsp[f])
    BY <1>1, <1>2, <1>4, <2>1, EnterFrames
  <2> QED BY <2>2 DEF EnteredFrames
<1>8. cpu' = f
  BY <1>4, <1>6, <1>7
<1>9. Stacks'
  <2>1. /\ rsp \in [F -> Nat] /\ stack \in [F -> NativeStack \cup {NoStack}]
        /\ made \in 0 .. Cardinality(F) /\ store \in Seq(NativeStack)
    BY DEF Stacks, StacksAccounted, TypeOK
  <2>2. Len(frames[c]) + 1 \in Nat
    <3>1. frames[c] \in Seq(FrameSet)
      BY <1>2, <1>4
    <3> QED BY <3>1
  <2>3. TypeOK'
    BY <1>1, <1>4, <1>7, <1>8, <2>1, <2>2, EnterTypes
  <2>4. StackInv'
    BY <1>1, SameStacks DEF Stacks
  <2> QED BY <1>1, <2>3, <2>4 DEF Stacks, StacksAccounted, Running
<1>10. Running' = Running \cup {f} /\ Live' = Live
  BY <1>3 DEF Running, Live
<1>11. \A x \in Exec : StackOf(x)' = StackOf(x)
  BY <1>1 DEF StackOf
<1>12. /\ \A x \in Live' : calls'[x] = frames'[StackOf(x)']
       /\ \A x \in Exec \ Live' : calls'[x] = <<>>
  BY <1>9, StackFactsNext
<1>13. /\ calls'[cpu] = Append(calls[cpu], Frame("resume", cpu, f, f))
       /\ calls'[f] = Cut(calls[f], Depth(f) - 1)
  <2>1. calls'[cpu] = frames'[c] /\ calls'[f] = frames'[s]
    BY <1>4, <1>10, <1>11, <1>12 DEF Exec
  <2> QED BY <1>4, <1>6, <1>7, <2>1
<1>14. ASSUME NEW x \in Exec \ {cpu, f} PROVE calls'[x] = calls[x]
  <2>1. CASE x \in Live
    <3>1. StackOf(x) \in Places \ {s, c} /\ calls[x] = frames[StackOf(x)]
      BY <1>4, <2>1, StackFacts
    <3>2. calls'[x] = frames'[StackOf(x)'] /\ StackOf(x)' = StackOf(x)
      BY <1>10, <1>11, <1>12, <2>1
    <3> QED BY <1>7, <3>1, <3>2
  <2>2. CASE x \notin Live
    BY <1>10, <1>12, <2>2, StackFacts
  <2> QED BY <2>1, <2>2
<1>15. calls[cpu] \in Seq(FrameSet) /\ \A x \in Live : x \in Exec
  BY <1>2, <1>4, StackFacts
<1>16. main_rsp' = [main_rsp EXCEPT ![f] = [stack |-> c, depth |-> Len(calls[cpu]) + 1]]
  BY <1>4, <1>7
<1> QED
  BY <1>1, <1>2, <1>3, <1>4, <1>8, <1>9, <1>10, <1>11, <1>13, <1>14, <1>15, <1>16 DEF Entered

-----------------------------------------------------------------------------
(* Control is given back *)

LEMMA DepthFacts ==
  ASSUME calls \in [Exec -> Seq(FrameSet)], NEW x \in Exec
  PROVE  /\ Depth(x) \in Nat /\ calls[x] \in Seq(FrameSet)
         /\ \A k \in 1 .. Depth(x) : calls[x][k] \in FrameSet
         /\ calls[x] # <<>> => Depth(x) \in 1 .. Depth(x) /\ Depth(x) # 0
         /\ \A k \in 1 .. Depth(x) : /\ calls[x][k].op \in {"entry", "resume", "yield", "each"}
                                     /\ calls[x][k].of \in F /\ calls[x][k].self \in F
<1>1. calls[x] \in Seq(FrameSet)
  OBVIOUS
<1>2. \A k \in 1 .. Len(calls[x]) : calls[x][k] \in FrameSet
  BY <1>1
<1>3. \A c \in FrameSet : c.op \in {"entry", "resume", "yield", "each"} /\ c.of \in F /\ c.self \in F
  BY DEF FrameSet
<1>4. Len(calls[x]) \in Nat /\ (calls[x] # <<>> => Len(calls[x]) # 0)
  BY <1>1
<1> QED BY <1>1, <1>2, <1>3, <1>4 DEF Depth

LEMMA Resumer ==
  ASSUME Stacks, CallsOK, Resumed, InControl, cpu \in F
  PROVE  /\ cpu \in Active /\ cpu \in Running
         /\ \E y \in Live :
                /\ y # cpu /\ Resumes(y, cpu)
                /\ kind[cpu] = "Inner" => EachCall(y, Depth(y) - 1, cpu)
                /\ main_rsp[cpu] = [stack |-> StackOf(y), depth |-> Depth(y)]
<1>1. calls \in [Exec -> Seq(FrameSet)] /\ \A x \in Live : x \in Exec
  BY StackFacts
<1>2. cpu \in Active /\ cpu \in Running
  <2>1. cpu \in Running /\ ~Ends(cpu, "yield")
    BY FiberAssumption DEF InControl, Live
  <2> QED BY <1>1, <2>1, ActiveFacts
<1>3. PICK y \in Live : /\ Resumes(y, cpu)
                        /\ kind[cpu] = "Inner" => EachCall(y, Depth(y) - 1, cpu)
  BY <1>2 DEF Resumed
<1>4. y # cpu
  BY <1>3 DEF InControl, Resumes
<1>5. Depth(y) \in 1 .. Depth(y)
  BY <1>1, <1>3, DepthFacts DEF Resumes, Ends
<1>6. main_rsp[cpu] = [stack |-> StackOf(y), depth |-> Depth(y)]
  <2>1. CallOK(y, Depth(y)) /\ calls[y][Depth(y)].op = "resume" /\ calls[y][Depth(y)].of = cpu
    BY <1>3, <1>5 DEF CallsOK, Resumes, Ends
  <2> QED BY <2>1 DEF CallOK
<1> QED BY <1>2, <1>3, <1>4, <1>6

(* The execution in control leaves, y is the one that resumed it.          *)
Left(y, extra) ==
    LET f == cpu IN
    /\ f \in F /\ f \in Active /\ y \in Live /\ y # f /\ Resumes(y, f) /\ f # MAIN
    /\ kind[f] = "Inner" => EachCall(y, Depth(y) - 1, f)
    /\ extra \in {0, 1}
    /\ extra = 1 => kind[f] = "Inner"
    /\ calls'[y] = Cut(calls[y], Depth(y) - extra - 1)
    /\ \A x \in Exec \ {f, y} : calls'[x] = calls[x]
    /\ \A x \in Live \ {f} : StackOf(x)' = StackOf(x)
    /\ cpu' = y
    /\ main_rsp' = main_rsp
    /\ \A x \in F \ {f} : rsp'[x] = rsp[x]

LEMMA LeaveStep ==
  ASSUME Stacks, CallsOK, Resumed, InControl, NEW f \in F, f = cpu,
         NEW extra \in {0, 1}, extra = 1 => kind[f] = "Inner", LeaveFiber(f, stack[f], extra),
         Running' \subseteq Running, Running \ {f} \subseteq Running',
         (cpu' \in Live /\ frames' \in [Places -> Seq(FrameSet)] /\ rsp' \in [F -> Nat]
             /\ main_rsp' = main_rsp) => Stacks',
         \A g \in F \ {f} : stack'[g] = stack[g]
  PROVE  /\ Stacks' /\ \E y \in Live : Left(y, extra)
         /\ f \in Running' /\ stack' = stack =>
                calls'[f] = Append(calls[f], Frame("yield", f, f, f))
         /\ rsp'[f] = Depth(f) + 1
<1> DEFINE s == stack[f]
<1>1. /\ calls \in [Exec -> Seq(FrameSet)] /\ frames \in [Places -> Seq(FrameSet)]
      /\ rsp \in [F -> Nat] /\ f # MAIN /\ \A x \in Live : x \in Exec
  BY StackFacts, FiberAssumption DEF Stacks, StacksAccounted, TypeOK, Places
<1>2. PICK y \in Live :
          /\ y # f /\ Resumes(y, f)
          /\ kind[f] = "Inner" => EachCall(y, Depth(y) - 1, f)
          /\ main_rsp[f] = [stack |-> StackOf(y), depth |-> Depth(y)]
  BY Resumer
<1>3. f \in Active /\ f \in Live
  BY Resumer DEF Live
<1> DEFINE c == StackOf(y)
<1>4. /\ s = StackOf(f) /\ s \in Places /\ c \in Places /\ c # s
      /\ calls[f] = frames[s] /\ calls[y] = frames[c]
  BY <1>1, <1>2, <1>3, StackFacts DEF StackOf
<1>5. /\ Depth(y) = Len(frames[c]) /\ Depth(f) = Len(frames[s])
      /\ Depth(y) \in Nat /\ Depth(y) # 0 /\ extra < Depth(y)
  <2>1. Depth(y) \in Nat /\ Depth(y) # 0
    BY <1>1, <1>2, DepthFacts DEF Resumes, Ends
  <2>2. CASE extra = 0
    BY <1>4, <2>1, <2>2 DEF Depth
  <2>3. CASE extra = 1
    <3>1. Depth(y) - 1 \in 1 .. Depth(y)
      BY <1>2, <2>3 DEF EachCall
    <3> QED BY <1>4, <2>1, <2>3, <3>1 DEF Depth
  <2> QED BY <2>2, <2>3
<1> HIDE DEF c, s
<1>6. /\ frames' \in [Places -> Seq(FrameSet)]
      /\ frames'[s] = Append(frames[s], Frame("yield", f, f, f))
      /\ frames'[c] = Cut(frames[c], Len(frames[c]) - extra - 1)
      /\ cpu' = frames[c][Len(frames[c]) - extra].vm
      /\ \A t \in Places \ {s, c} : frames'[t] = frames[t]
      /\ rsp' = [rsp EXCEPT ![f] = Len(frames[s]) + 1]
      /\ main_rsp' = main_rsp
  <2>1. main_rsp[f] = [stack |-> c, depth |-> Len(frames[c])] /\ extra < Len(frames[c])
    BY <1>2, <1>5 DEF c
  <2>2. LeaveFiber(f, s, extra)
    BY DEF s
  <2>3. LeftFrames(f, s, c, extra)
    BY <1>1, <1>4, <2>1, <2>2, LeaveFrames
  <2> QED BY <2>3 DEF LeftFrames
<1>7. cpu' = y
  <2>1. Depth(y) - extra \in 1 .. Depth(y)
    BY <1>5
  <2>2. CallOK(y, Depth(y) - extra)
    BY <2>1 DEF CallsOK
  <2> QED BY <1>4, <1>5, <1>6, <2>2 DEF CallOK
<1>8. Stacks'
  <2>1. rsp' \in [F -> Nat]
    <3>1. Len(frames[s]) + 1 \in Nat
      <4>1. frames[s] \in Seq(FrameSet)
        BY <1>1, <1>4
      <4> QED BY <4>1
    <3> QED BY <1>1, <1>6, <3>1
  <2> QED BY <1>6, <1>7, <2>1
<1>9. /\ \A x \in Live' : calls'[x] = frames'[StackOf(x)']
      /\ \A x \in Exec \ Live' : calls'[x] = <<>>
  BY <1>8, StackFactsNext
<1>10. Live' \subseteq Live /\ Live \ {f} \subseteq Live'
  BY DEF Live
<1>11. \A x \in Live \ {f} : StackOf(x)' = StackOf(x)
  BY DEF StackOf, Live, Running
<1>12. calls'[y] = Cut(calls[y], Depth(y) - extra - 1)
  <2>1. y \in Live' /\ StackOf(y)' = c
    BY <1>2, <1>10, <1>11 DEF c
  <2> QED BY <1>4, <1>5, <1>6, <1>9, <2>1
<1>13. ASSUME NEW x \in Exec \ {f, y} PROVE calls'[x] = calls[x]
  <2>1. CASE x \in Live
    <3>1. StackOf(x) \in Places \ {s, c} /\ calls[x] = frames[StackOf(x)]
      BY <1>2, <1>3, <1>4, <2>1, StackFacts DEF c
    <3>2. x \in Live' /\ StackOf(x)' = StackOf(x)
      BY <1>10, <1>11, <2>1
    <3> QED BY <1>6, <1>9, <3>1, <3>2
  <2>2. CASE x \notin Live
    BY <1>9, <1>10, <2>2, StackFacts
  <2> QED BY <2>1, <2>2
<1>14. ASSUME f \in Running', stack' = stack
       PROVE  calls'[f] = Append(calls[f], Frame("yield", f, f, f))
  <2>1. f \in Live' /\ StackOf(f)' = s
    BY <1>1, <1>14 DEF Live, StackOf, s
  <2> QED BY <1>4, <1>6, <1>9, <2>1
<1>15. rsp'[f] = Depth(f) + 1 /\ \A x \in F \ {f} : rsp'[x] = rsp[x]
  BY <1>1, <1>5, <1>6
<1>16. Left(y, extra)
  BY <1>1, <1>2, <1>3, <1>6, <1>7, <1>11, <1>12, <1>13, <1>15 DEF Left
<1> QED BY <1>8, <1>14, <1>15, <1>16

-----------------------------------------------------------------------------
(* Fibers are dropped, or nothing happens to the stacks *)

LEMMA DropStep ==
  ASSUME Stacks, NEW D \in SUBSET F, Deallocate(D), made' = made, TypeOK',
         \A f \in D : state'[f] # "Running", \A f \in F \ D : state'[f] = state[f]
  PROVE  /\ Stacks' /\ Running' = Running \ D
         /\ \A x \in Live \ D : StackOf(x)' = StackOf(x) /\ calls'[x] = frames'[StackOf(x)]
         /\ \A x \in Exec \ (Live \ D) : calls'[x] = <<>>
<1>1. Stacks'
  BY DeallocateKeeps
<1>2. Running' = Running \ D
  BY DEF Running
<1>3. MAIN \notin F
  BY FiberAssumption
<1>4. Live' = Live \ D
  BY <1>2, <1>3 DEF Live
<1>5. \A x \in Live \ D : StackOf(x)' = StackOf(x)
  <2>1. \A f \in F \ D : stack'[f] = stack[f]
    BY DEF Deallocate
  <2> QED BY <2>1 DEF StackOf, Live, Running
<1>6. /\ \A x \in Live' : calls'[x] = frames'[StackOf(x)']
      /\ \A x \in Exec \ Live' : calls'[x] = <<>>
  BY <1>1, StackFactsNext
<1> QED BY <1>1, <1>2, <1>4, <1>5, <1>6

LEMMA QuietStep ==
  ASSUME Stacks, TypeOK', Running' = Running, UNCHANGED <<stackVars, switchVars>>
  PROVE  Stacks' /\ calls' = calls /\ \A x \in Exec : StackOf(x)' = StackOf(x)
<1>1. Stacks'
  <2>1. StackInv'
    BY SameStacks DEF Stacks, stackVars
  <2>2. \A f \in F : state'[f] = "Running" <=> state[f] = "Running"
    BY DEF Running
  <2> QED BY <2>1, <2>2 DEF Stacks, StacksAccounted, Running, stackVars
<1>2. \A x \in Exec : StackOf(x)' = StackOf(x)
  BY DEF StackOf, stackVars
<1>3. \A x \in Exec : Calls(x)' = Calls(x)
  BY <1>2 DEF Calls, stackVars, switchVars
<1>4. calls' = calls
  BY <1>3 DEF calls, Exec
<1> QED BY <1>1, <1>2, <1>4

-----------------------------------------------------------------------------
(* The order in which executions wait for one another *)

(* The calls of the execution c that enters a fiber f, and of the fiber.   *)
LEMMA EnterCalls ==
  ASSUME Stacks, Stacks', Control, NEW c, c = cpu, NEW f, NEW P, Entered(f, P), f \notin Active,
         \/ P = calls[c]
         \/ f \notin Running /\ \E e \in F : P = Append(calls[c], Frame("each", c, f, e))
  PROVE  /\ Live' = Live \cup {f} /\ c \in Live' /\ f \in Live' /\ c \in Exec
         /\ Depth(c)' = Len(P) + 1 /\ Len(P) \in Nat
         /\ calls'[c][Len(P) + 1] = Frame("resume", c, f, f)
         /\ \A k \in 1 .. Depth(c) : calls[c][k].op = "each"
         /\ \A k \in 1 .. Depth(f)' : calls'[f][k].op = "each"
         /\ \A x \in Live' : \A k \in 1 .. Depth(x)' :
                \/ x \in Live /\ k \in 1 .. Depth(x) /\ calls'[x][k] = calls[x][k]
                \/ x = c /\ k = Len(P) + 1
                \/ /\ x = c /\ k = Len(P) /\ f \notin Running
                   /\ calls'[x][k].op = "each" /\ calls'[x][k].of = f /\ calls'[x][k].vm = c
<1>1. /\ calls \in [Exec -> Seq(FrameSet)] /\ calls' \in [Exec -> Seq(FrameSet)]
      /\ \A x \in Live : x \in Exec
  BY StackFacts, StackFactsNext
<1>2. /\ f \in F /\ c \in Live /\ c \in Exec /\ f # c
      /\ Running' = Running \cup {f} /\ P \in Seq(FrameSet)
      /\ calls'[c] = Append(P, Frame("resume", c, f, f))
      /\ calls'[f] = IF f \in Running THEN Cut(calls[f], Depth(f) - 1) ELSE <<>>
      /\ \A x \in Exec \ {c, f} : calls'[x] = calls[x]
  BY <1>1 DEF Entered
<1>3. Live' = Live \cup {f} /\ f \in Exec
  BY <1>2 DEF Live, Exec
<1>4. /\ Len(P) \in Nat /\ Len(calls'[c]) = Len(P) + 1
      /\ calls'[c][Len(P) + 1] = Frame("resume", c, f, f)
      /\ \A k \in 1 .. Len(P) : calls'[c][k] = P[k]
  <2>1. Frame("resume", c, f, f) \in FrameSet
    BY <1>2, FrameFacts
  <2> QED BY <1>2, <2>1, AppendFacts
<1>5. \A x : Depth(x) = Len(calls[x]) /\ Depth(x)' = Len(calls'[x])
  BY DEF Depth
<1>6. ASSUME NEW k \in 1 .. Depth(c) PROVE calls[c][k].op = "each"
  <2>1. CallOK(c, k)
    BY <1>2 DEF Control, CallsOK
  <2>2. ~Ends(c, "resume") /\ ~Ends(c, "yield")
    BY <1>2 DEF Control, InControl
  <2>3. CASE calls[c][k].op \in {"resume", "yield"} /\ k = Depth(c)
    <3>1. calls[c] # <<>>
      BY <1>5
    <3> QED BY <2>2, <2>3, <3>1 DEF Ends
  <2> QED BY <2>1, <2>3 DEF CallOK
<1>7. ASSUME NEW k \in 1 .. Depth(c)'
      PROVE  \/ k \in 1 .. Depth(c) /\ calls'[c][k] = calls[c][k]
             \/ k = Len(P) + 1
             \/ /\ k = Len(P) /\ f \notin Running
                /\ calls'[c][k].op = "each" /\ calls'[c][k].of = f /\ calls'[c][k].vm = c
  <2>1. k \in 1 .. Len(P) + 1
    BY <1>4, <1>5
  <2>2. CASE P = calls[c]
    BY <1>4, <1>5, <2>1, <2>2
  <2>3. CASE f \notin Running /\ \E e \in F : P = Append(calls[c], Frame("each", c, f, e))
    <3>1. PICK e \in F : P = Append(calls[c], Frame("each", c, f, e))
      BY <2>3
    <3> DEFINE new == Frame("each", c, f, e)
    <3>2. new \in FrameSet /\ new.op = "each" /\ new.of = f /\ new.vm = c
      BY <1>2, FrameFacts
    <3> HIDE DEF new
    <3>3. calls[c] \in Seq(FrameSet)
      BY <1>1, <1>2
    <3>4. /\ Len(P) = Len(calls[c]) + 1 /\ Len(calls[c]) \in Nat
          /\ P[Len(calls[c]) + 1] = new
          /\ \A j \in 1 .. Len(calls[c]) : P[j] = calls[c][j]
      BY <3>1, <3>2, <3>3, AppendFacts DEF new
    <3>5. CASE k = Len(P)
      <4>1. calls'[c][k] = new
        BY <1>4, <3>4, <3>5
      <4> QED BY <2>3, <3>2, <3>5, <4>1
    <3>6. CASE k # Len(P) /\ k # Len(P) + 1
      <4>1. k \in 1 .. Len(calls[c]) /\ k \in 1 .. Len(P)
        BY <2>1, <3>4, <3>6
      <4>2. calls'[c][k] = calls[c][k]
        BY <1>4, <3>4, <4>1
      <4> QED BY <1>5, <4>1, <4>2
    <3> QED BY <3>5, <3>6
  <2> QED BY <2>2, <2>3
<1>8. ASSUME NEW k \in 1 .. Depth(f)'
      PROVE  /\ f \in Live /\ k \in 1 .. Depth(f) /\ calls'[f][k] = calls[f][k]
             /\ calls[f][k].op = "each"
  <2>1. f \in Running
    <3>1. SUFFICES ASSUME f \notin Running PROVE FALSE
      OBVIOUS
    <3>2. Depth(f)' = 0
      BY <1>2, <1>5, <3>1
    <3> QED BY <3>2
  <2>2. Ends(f, "yield") /\ f \in Live
    BY <1>1, <2>1, ActiveFacts DEF Live
  <2>3. Depth(f) \in Nat /\ Depth(f) # 0 /\ calls[f] \in Seq(FrameSet)
    BY <1>1, <1>3, <2>2, DepthFacts DEF Ends
  <2>4. calls'[f] = Cut(calls[f], Depth(f) - 1) /\ Depth(f) - 1 \in 0 .. Len(calls[f])
    BY <1>2, <1>5, <2>1, <2>3
  <2>5. /\ Len(calls'[f]) = Depth(f) - 1
        /\ \A j \in 1 .. Depth(f) - 1 : calls'[f][j] = calls[f][j]
    <3> DEFINE n == Depth(f) - 1
    <3>1. n \in 0 .. Len(calls[f]) /\ calls'[f] = Cut(calls[f], n)
      BY <2>4
    <3> HIDE DEF n
    <3>2. Len(calls'[f]) = n /\ \A j \in 1 .. n : calls'[f][j] = calls[f][j]
      BY <2>3, <3>1, CutFacts
    <3> QED BY <3>2 DEF n
  <2>6. k \in 1 .. Depth(f) - 1 /\ k \in 1 .. Depth(f) /\ k # Depth(f)
    BY <1>5, <2>3, <2>5
  <2>7. CallOK(f, k)
    BY <2>2, <2>6 DEF Control, CallsOK
  <2> QED BY <2>2, <2>5, <2>6, <2>7 DEF CallOK
<1>9. ASSUME NEW x \in Live', x # c, x # f, NEW k \in 1 .. Depth(x)'
      PROVE  x \in Live /\ k \in 1 .. Depth(x) /\ calls'[x][k] = calls[x][k]
  BY <1>1, <1>2, <1>3, <1>5, <1>9
<1>10. \A k \in 1 .. Depth(f)' : calls'[f][k].op = "each"
  BY <1>8
<1>11. \A x \in Live' : \A k \in 1 .. Depth(x)' :
           \/ x \in Live /\ k \in 1 .. Depth(x) /\ calls'[x][k] = calls[x][k]
           \/ x = c /\ k = Len(P) + 1
           \/ /\ x = c /\ k = Len(P) /\ f \notin Running
              /\ calls'[x][k].op = "each" /\ calls'[x][k].of = f /\ calls'[x][k].vm = c
  <2> TAKE x \in Live'
  <2> TAKE k \in 1 .. Depth(x)'
  <2>1. CASE x = c
    BY <1>2, <1>7, <2>1
  <2>2. CASE x = f
    BY <1>8, <2>2
  <2>3. CASE x # c /\ x # f
    BY <1>9, <2>3
  <2> QED BY <2>1, <2>2, <2>3
<1> QED BY <1>2, <1>3, <1>4, <1>5, <1>6, <1>10, <1>11

LEMMA EnterControl ==
  ASSUME Stacks, Stacks', Control, Owners', NEW c, c = cpu, NEW f, NEW P, Entered(f, P),
         f \notin Active,
         \/ P = calls[c]
         \/ f \notin Running /\ \E e \in F : P = Append(calls[c], Frame("each", c, f, e)),
         \A g \in Running \ {f} : kind'[g] = kind[g],
         kind'[f] = "Inner" => P # <<>> /\ P[Len(P)].op = "each" /\ P[Len(P)].of = f
  PROVE  Control'
<1>1. /\ calls \in [Exec -> Seq(FrameSet)] /\ calls' \in [Exec -> Seq(FrameSet)]
      /\ \A x \in Live : x \in Exec
  BY StackFacts, StackFactsNext
<1>2. /\ f \in F /\ c \in Live /\ c \in Exec /\ f # c /\ f # MAIN
      /\ Running' = Running \cup {f} /\ P \in Seq(FrameSet)
      /\ \A x \in Exec \ {c, f} : calls'[x] = calls[x]
      /\ \A x \in Live : StackOf(x)' = StackOf(x)
      /\ main_rsp' = [main_rsp EXCEPT ![f] = [stack |-> StackOf(c), depth |-> Len(P) + 1]]
      /\ \A x \in F \ {f} : rsp'[x] = rsp[x]
      /\ cpu' = f
  BY <1>1 DEF Entered
<1>3. /\ Live' = Live \cup {f} /\ c \in Live' /\ f \in Live'
      /\ Depth(c)' = Len(P) + 1 /\ Len(P) \in Nat
      /\ calls'[c][Len(P) + 1] = Frame("resume", c, f, f)
      /\ \A k \in 1 .. Depth(c) : calls[c][k].op = "each"
      /\ \A k \in 1 .. Depth(f)' : calls'[f][k].op = "each"
      /\ \A x \in Live' : \A k \in 1 .. Depth(x)' :
                \/ x \in Live /\ k \in 1 .. Depth(x) /\ calls'[x][k] = calls[x][k]
                \/ x = c /\ k = Len(P) + 1
                \/ /\ x = c /\ k = Len(P) /\ f \notin Running
                   /\ calls'[x][k].op = "each" /\ calls'[x][k].of = f /\ calls'[x][k].vm = c
  BY EnterCalls
<1>4. /\ calls'[c][Len(P) + 1].op = "resume" /\ calls'[c][Len(P) + 1].of = f
      /\ calls'[c][Len(P) + 1].self = f /\ calls'[c][Len(P) + 1].vm = c
  BY <1>2, <1>3, FrameFacts
<1>5. \A x : Depth(x) = Len(calls[x]) /\ Depth(x)' = Len(calls'[x])
  BY DEF Depth
<1>6. calls'[c] # <<>> /\ Resumes(c, f)' /\ Ends(c, "resume")' /\ ~Ends(c, "yield")'
  <2>1. calls'[c] # <<>>
    BY <1>3, <1>5
  <2> QED BY <1>3, <1>4, <2>1 DEF Resumes, Ends
<1>7. ~Ends(f, "resume")' /\ ~Ends(f, "yield")'
  <2>1. SUFFICES ASSUME calls'[f] # <<>> PROVE calls'[f][Depth(f)'].op = "each"
    BY DEF Ends
  <2>2. f \in Exec /\ Depth(f)' \in 1 .. Depth(f)'
    <3>1. f \in Exec /\ calls'[f] \in Seq(FrameSet)
      BY <1>1, <1>2 DEF Exec
    <3> QED BY <1>5, <2>1, <3>1
  <2> QED BY <1>3, <2>2
<1>8. \A x \in Exec \ {c, f} : \A op : /\ Ends(x, op)' <=> Ends(x, op)
                                   /\ Depth(x)' = Depth(x)
                                   /\ \A g : Resumes(x, g)' <=> Resumes(x, g)
  BY <1>2, <1>5 DEF Ends, Resumes
<1>9. ~Ends(c, "resume") /\ ~Ends(c, "yield")
  BY <1>2 DEF Control, InControl
<1>10. Active' = Active \cup {f}
  <2>1. Active = {g \in Running : ~Ends(g, "yield")}
    BY <1>1, ActiveFacts
  <2>2. Active' = {g \in Running' : ~Ends(g, "yield")'}
    BY StackFactsNext
  <2>3. \A g \in Running : g # f => (Ends(g, "yield")' <=> Ends(g, "yield"))
    BY <1>1, <1>6, <1>8, <1>9 DEF Live
  <2> QED BY <1>2, <1>7, <2>1, <2>2, <2>3
<1>11. CallsOK'
  <2> SUFFICES ASSUME NEW x \in Live', NEW k \in 1 .. Depth(x)' PROVE CallOK(x, k)'
    BY DEF CallsOK
  <2>1. CASE x \in Live /\ k \in 1 .. Depth(x) /\ calls'[x][k] = calls[x][k]
    <3>1. CallOK(x, k)
      BY <2>1 DEF Control, CallsOK
    <3>2. CASE calls'[x][k].op = "each"
      BY <2>1, <3>1, <3>2 DEF CallOK
    <3>3. CASE calls'[x][k].op # "each"
      <4>1. x # c
        BY <1>3, <2>1, <3>3
      <4>2. x # f
        BY <1>3, <3>3
      <4>3. x \in Exec /\ Depth(x)' = Depth(x)
        BY <1>1, <1>8, <2>1, <4>1, <4>2
      <4>4. ASSUME calls[x][k].op = "resume"
            PROVE  LET g == calls[x][k].of IN
                   g \in Active' /\ main_rsp'[g] = main_rsp[g] /\ StackOf(x)' = StackOf(x)
        <5>1. calls[x][k].of \in Active /\ calls[x][k].of # f
          BY <3>1, <4>4 DEF CallOK
        <5>2. \A g : g # f => main_rsp'[g] = main_rsp[g]
          BY <1>2 DEF Stacks, StacksAccounted, TypeOK
        <5> QED BY <1>2, <1>10, <2>1, <5>1, <5>2
      <4>5. ASSUME calls[x][k].op = "yield" PROVE rsp'[x] = rsp[x]
        <5>1. x \in F
          BY <3>1, <4>5 DEF CallOK
        <5> QED BY <1>2, <4>2, <5>1
      <4> QED BY <2>1, <3>1, <3>3, <4>3, <4>4, <4>5 DEF CallOK
    <3> QED BY <3>2, <3>3
  <2>2. CASE x = c /\ k = Len(P) + 1
    <3>1. f \in Active' /\ k = Depth(x)'
      BY <1>3, <1>10, <2>2
    <3>2. main_rsp'[f] = [stack |-> StackOf(x)', depth |-> k]
      <4>1. StackOf(x)' = StackOf(c)
        BY <1>2, <2>2
      <4> QED BY <1>2, <2>2, <4>1 DEF Stacks, StacksAccounted, TypeOK
    <3> QED BY <1>4, <2>2, <3>1, <3>2 DEF CallOK
  <2>3. CASE /\ x = c /\ k = Len(P) /\ f \notin Running
             /\ calls'[x][k].op = "each" /\ calls'[x][k].of = f /\ calls'[x][k].vm = c
    BY <2>3 DEF CallOK
  <2> QED BY <1>3, <2>1, <2>2, <2>3
<1>12. OneEach'
  <2> SUFFICES ASSUME NEW g \in F, NEW x \in Live', NEW y \in Live',
                      NEW j \in 1 .. Depth(x)', NEW k \in 1 .. Depth(y)',
                      EachCall(x, j, g)', EachCall(y, k, g)'
               PROVE  x = y /\ j = k
    BY DEF OneEach
  <2>1. calls'[x][j].op = "each" /\ calls'[x][j].of = g /\ calls'[y][k].op = "each" /\ calls'[y][k].of = g
    BY DEF EachCall
  <2>2. ASSUME NEW z \in Live, NEW i \in 1 .. Depth(z), calls[z][i].op = "each", calls[z][i].of = g,
               f \notin Running, g = f
        PROVE  FALSE
    <3>1. state[g] = "Running"
      BY <2>2 DEF Control, Owners, OwnedFrom, Owner
    <3> QED BY <2>2, <3>1 DEF Running
  <2> DEFINE Old(z, i) == z \in Live /\ i \in 1 .. Depth(z) /\ calls'[z][i] = calls[z][i]
             Entering(z, i) == z = c /\ i = Len(P) /\ f \notin Running /\ calls'[z][i].of = f
  <2>3. (Old(x, j) \/ Entering(x, j)) /\ (Old(y, k) \/ Entering(y, k))
    BY <1>3, <1>4, <2>1
  <2>4. CASE Old(x, j) /\ Old(y, k)
    <3>1. EachCall(x, j, g) /\ EachCall(y, k, g)
      BY <2>1, <2>4 DEF EachCall
    <3> QED BY <2>4, <3>1 DEF Control, OneEach
  <2>5. CASE Old(x, j) /\ Entering(y, k)
    BY <2>1, <2>2, <2>5
  <2>6. CASE Entering(x, j) /\ Old(y, k)
    BY <2>1, <2>2, <2>6
  <2>7. CASE Entering(x, j) /\ Entering(y, k)
    BY <2>7
  <2> QED BY <2>3, <2>4, <2>5, <2>6, <2>7
<1>13. Resumed'
  <2>1. ASSUME kind'[f] = "Inner" PROVE EachCall(c, Depth(c) - 1, f)'
    <3>1. P # <<>> /\ P[Len(P)].op = "each" /\ P[Len(P)].of = f
      BY <2>1
    <3>2. Len(P) \in 1 .. Len(P) /\ Len(P) \in 1 .. Len(P) + 1 /\ Depth(c)' - 1 = Len(P)
      BY <1>2, <1>3, <3>1
    <3>3. calls'[c][Len(P)] = P[Len(P)]
      <4>1. Frame("resume", c, f, f) \in FrameSet
        BY <1>2, FrameFacts
      <4>2. calls'[c] = Append(P, Frame("resume", c, f, f))
        BY DEF Entered
      <4> QED BY <1>2, <3>2, <4>1, <4>2, AppendFacts
    <3> QED BY <1>3, <3>1, <3>2, <3>3 DEF EachCall
  <2>2. ASSUME NEW g \in Active, g # f
        PROVE  \E y \in Live' : Resumes(y, g)' /\ (kind'[g] = "Inner" => EachCall(y, Depth(y) - 1, g)')
    <3>1. PICK y \in Live : /\ Resumes(y, g)
                            /\ kind[g] = "Inner" => EachCall(y, Depth(y) - 1, g)
      BY <2>2 DEF Control, Resumed
    <3>2. y # c
      BY <1>9, <3>1 DEF Resumes
    <3>3. y # f
      <4>1. SUFFICES ASSUME y = f PROVE FALSE
        OBVIOUS
      <4>2. f \in Running
        BY <1>2, <3>1, <4>1 DEF Live
      <4>3. Ends(f, "yield")
        BY <1>1, <4>2, ActiveFacts
      <4> QED BY <3>1, <4>1, <4>3 DEF Resumes, Ends
    <3>4. calls'[y] = calls[y] /\ Depth(y)' = Depth(y) /\ Resumes(y, g)' /\ y \in Live'
      BY <1>1, <1>2, <1>3, <1>8, <3>1, <3>2, <3>3
    <3>5. kind'[g] = kind[g]
      <4>1. g \in Running
        BY <1>1, ActiveFacts
      <4> QED BY <2>2, <4>1
    <3> QED BY <3>1, <3>4, <3>5 DEF EachCall
  <2> QED BY <1>3, <1>6, <1>10, <2>1, <2>2 DEF Resumed
<1>14. InControl'
  <2>1. ASSUME NEW x \in Live' PROVE x = f <=> ~Ends(x, "resume")' /\ ~Ends(x, "yield")'
    <3>1. CASE x = f
      BY <1>7, <3>1
    <3>2. CASE x = c
      BY <1>2, <1>6, <3>2
    <3>3. CASE x # f /\ x # c
      <4>1. x \in Live /\ x \in Exec
        BY <1>1, <1>3, <3>3
      <4> QED BY <1>8, <3>3, <4>1 DEF Control, InControl
    <3> QED BY <3>1, <3>2, <3>3
  <2> QED BY <1>2, <1>3, <2>1 DEF InControl
<1>15. Chain'
  <2>1. ASSUME NEW S \in SUBSET Exec, MAIN \in S,
               \A g \in Active', y \in Live' : Resumes(y, g)' /\ y \in S => g \in S
        PROVE  Active' \subseteq S
    <3>1. ASSUME NEW g \in Active, NEW y \in Live, Resumes(y, g), y \in S PROVE g \in S
      <4>1. y # c
        BY <1>9, <3>1 DEF Resumes
      <4>2. CASE y = f
        <5>1. f \in Running /\ f \notin Active
          BY <1>2, <3>1, <4>2 DEF Live
        <5>2. Ends(f, "yield")
          BY <1>1, <5>1, ActiveFacts
        <5> QED BY <3>1, <4>2, <5>2 DEF Resumes, Ends
      <4>3. CASE y # f
        <5>1. Resumes(y, g)' /\ y \in Live' /\ g \in Active'
          BY <1>1, <1>3, <1>8, <1>10, <3>1, <4>1, <4>3
        <5> QED BY <2>1, <3>1, <5>1
      <4> QED BY <4>2, <4>3
    <3>2. Active \subseteq S
      BY <2>1, <3>1 DEF Control, Chain
    <3>3. c \in S
      <4>1. CASE c = MAIN
        BY <2>1, <4>1
      <4>2. CASE c # MAIN
        <5>1. c \in Running /\ ~Ends(c, "yield")
          BY <1>2, <1>9, <4>2 DEF Live
        <5>2. c \in Active
          BY <1>1, <5>1, ActiveFacts
        <5> QED BY <3>2, <5>2
      <4> QED BY <4>1, <4>2
    <3>4. f \in S
      BY <1>3, <1>6, <1>10, <2>1, <3>3
    <3> QED BY <1>10, <3>2, <3>4
  <2> QED BY <2>1 DEF Chain, Exec
<1> QED BY <1>11, <1>12, <1>13, <1>14, <1>15 DEF Control

LEMMA LeaveControl ==
  ASSUME Stacks, Stacks', Control, Owners', NEW f, f = cpu, NEW y, NEW extra, Left(y, extra),
         kind' = kind,
         \/ /\ extra = 0 /\ Running' = Running /\ rsp'[f] = Depth(f) + 1
            /\ calls'[f] = Append(calls[f], Frame("yield", f, f, f))
         \/ Running' = Running \ {f}
  PROVE  Control'
<1> DEFINE Stays == /\ extra = 0 /\ Running' = Running /\ rsp'[f] = Depth(f) + 1
                    /\ calls'[f] = Append(calls[f], Frame("yield", f, f, f))
           n == Depth(y) - extra - 1
<1>1. /\ calls \in [Exec -> Seq(FrameSet)] /\ calls' \in [Exec -> Seq(FrameSet)]
      /\ \A x \in Live : x \in Exec
      /\ \A x \in Exec \ Live' : calls'[x] = <<>>
  BY StackFacts, StackFactsNext
<1>2. /\ f \in F /\ f \in Active /\ y \in Live /\ y \in Exec /\ y # f /\ Resumes(y, f) /\ f # MAIN
      /\ extra \in {0, 1}
      /\ calls'[y] = Cut(calls[y], n)
      /\ \A x \in Exec \ {f, y} : calls'[x] = calls[x]
      /\ \A x \in Live \ {f} : StackOf(x)' = StackOf(x)
      /\ cpu' = y /\ main_rsp' = main_rsp
      /\ \A x \in F \ {f} : rsp'[x] = rsp[x]
  BY <1>1 DEF Left
<1>3. extra = 1 => Depth(y) - 1 \in 1 .. Depth(y)
  BY DEF Left, EachCall
<1>4. \A x : Depth(x) = Len(calls[x]) /\ Depth(x)' = Len(calls'[x])
  BY DEF Depth
<1>5. f \in Running /\ ~Ends(f, "yield") /\ f \in Exec /\ f \in Live
  BY <1>1, <1>2, ActiveFacts DEF Live, Exec
<1>6. ~Ends(f, "resume")
  BY <1>5 DEF Control, InControl
<1>7. Depth(y) \in Nat /\ Depth(y) \in 1 .. Depth(y) /\ calls[y] \in Seq(FrameSet)
  BY <1>1, <1>2, DepthFacts DEF Resumes, Ends
<1>8. /\ n \in 0 .. Depth(y) - 1 /\ Depth(y)' = n
      /\ \A k \in 1 .. n : /\ k \in 1 .. Depth(y) /\ calls'[y][k] = calls[y][k]
                           /\ calls[y][k].op = "each"
  <2>1. n \in 0 .. Depth(y) - 1 /\ n \in 0 .. Len(calls[y])
    BY <1>2, <1>3, <1>4, <1>7
  <2> HIDE DEF n
  <2>2. Len(calls'[y]) = n /\ \A k \in 1 .. n : k \in 1 .. Len(calls[y]) /\ calls'[y][k] = calls[y][k]
    BY <1>2, <1>7, <2>1, CutFacts
  <2>3. \A k \in 1 .. n : calls[y][k].op = "each"
    <3> SUFFICES ASSUME NEW k \in 1 .. n PROVE calls[y][k].op = "each"
      OBVIOUS
    <3>1. k \in 1 .. Depth(y) /\ k # Depth(y)
      BY <1>7, <2>1
    <3>2. CallOK(y, k)
      BY <1>2, <3>1 DEF Control, CallsOK
    <3> QED BY <3>1, <3>2 DEF CallOK
  <2> QED BY <1>4, <2>1, <2>2, <2>3
<1> HIDE DEF n
<1>9. \A k \in 1 .. Depth(f) : calls[f][k].op = "each"
  <2> SUFFICES ASSUME NEW k \in 1 .. Depth(f), calls[f][k].op # "each" PROVE FALSE
    OBVIOUS
  <2>1. CallOK(f, k)
    BY <1>5 DEF Control, CallsOK
  <2>2. k = Depth(f) /\ calls[f][k].op \in {"resume", "yield"} /\ calls[f] # <<>>
    BY <1>4, <2>1 DEF CallOK
  <2> QED BY <1>5, <1>6, <2>2 DEF Ends
<1>10. ASSUME Stays
       PROVE  /\ Depth(f)' = Depth(f) + 1 /\ Depth(f) \in Nat
              /\ \A k \in 1 .. Depth(f) : calls'[f][k] = calls[f][k]
              /\ LET fr == calls'[f][Depth(f) + 1] IN
                 fr.op = "yield" /\ fr.vm = f /\ fr.self = f
              /\ Ends(f, "yield")' /\ ~Ends(f, "resume")'
  <2> DEFINE new == Frame("yield", f, f, f)
  <2>1. new \in FrameSet /\ new.op = "yield" /\ new.vm = f /\ new.self = f
    BY <1>2, <1>5, FrameFacts
  <2> HIDE DEF new
  <2>2. calls'[f] = Append(calls[f], new) /\ calls[f] \in Seq(FrameSet)
    BY <1>1, <1>5, <1>10 DEF new
  <2>3. /\ Len(calls'[f]) = Len(calls[f]) + 1 /\ Len(calls[f]) \in Nat
        /\ calls'[f][Len(calls[f]) + 1] = new
        /\ \A k \in 1 .. Len(calls[f]) : calls'[f][k] = calls[f][k]
    BY <2>1, <2>2, AppendFacts
  <2>4. calls'[f] # <<>>
    BY <2>3
  <2> QED BY <1>4, <2>1, <2>3, <2>4 DEF Ends
<1>11. Live' \subseteq Live /\ Live \ {f} \subseteq Live' /\ (~Stays => f \notin Live')
  BY <1>2 DEF Live
<1>12. ASSUME NEW x \in Live', NEW k \in 1 .. Depth(x)'
       PROVE  \/ /\ x \in Live /\ k \in 1 .. Depth(x) /\ calls'[x][k] = calls[x][k]
                 /\ x \in {f, y} => calls[x][k].op = "each"
              \/ /\ Stays /\ x = f /\ k = Depth(x)' /\ rsp'[x] = k
                 /\ calls'[x][k].op = "yield" /\ calls'[x][k].vm = x /\ calls'[x][k].self = x
  <2>1. CASE x = y
    BY <1>2, <1>8, <2>1
  <2>2. CASE x = f
    <3>1. Stays
      BY <1>11, <2>2
    <3>2. k \in 1 .. Depth(f) + 1 /\ (k \in 1 .. Depth(f) \/ k = Depth(f) + 1)
      BY <1>10, <2>2, <3>1
    <3> QED BY <1>5, <1>9, <1>10, <2>2, <3>1, <3>2
  <2>3. CASE x # f /\ x # y
    BY <1>1, <1>2, <1>4, <1>11, <2>3
  <2> QED BY <2>1, <2>2, <2>3
<1>13. \A x \in Exec \ {f, y} : \A op : /\ Ends(x, op)' <=> Ends(x, op)
                                    /\ Depth(x)' = Depth(x)
                                    /\ \A g : Resumes(x, g)' <=> Resumes(x, g)
  BY <1>2, <1>4 DEF Ends, Resumes
<1>14. ~Ends(y, "resume")' /\ ~Ends(y, "yield")'
  <2>1. SUFFICES ASSUME calls'[y] # <<>> PROVE calls'[y][Depth(y)'].op = "each"
    BY DEF Ends
  <2>2. n \in 1 .. n
    <3>1. calls'[y] \in Seq(FrameSet)
      BY <1>1, <1>2
    <3> QED BY <1>4, <1>8, <2>1, <3>1
  <2> QED BY <1>8, <2>2
<1>15. ~Ends(y, "yield")
  BY <1>2 DEF Resumes, Ends
<1>16. Active' = Active \ {f}
  <2>1. Active = {g \in Running : ~Ends(g, "yield")}
    BY <1>1, ActiveFacts
  <2>2. Active' = {g \in Running' : ~Ends(g, "yield")'}
    BY StackFactsNext
  <2>3. \A g \in Running : g # f => (Ends(g, "yield")' <=> Ends(g, "yield"))
    BY <1>1, <1>13, <1>14, <1>15 DEF Live
  <2>4. Running \ {f} \subseteq Running' /\ Running' \subseteq Running
    OBVIOUS
  <2>5. f \notin Active'
    BY <1>10, <2>2
  <2> QED BY <2>1, <2>2, <2>3, <2>4, <2>5
<1> HIDE DEF Stays
<1>17. ASSUME NEW x \in Live, x # y PROVE ~Resumes(x, f)
  <2>1. SUFFICES ASSUME Resumes(x, f) PROVE FALSE
    OBVIOUS
  <2>2. Depth(x) \in 1 .. Depth(x)
    BY <1>1, <2>1, DepthFacts DEF Resumes, Ends
  <2>3. CallOK(x, Depth(x)) /\ CallOK(y, Depth(y))
    BY <1>2, <1>7, <2>2 DEF Control, CallsOK
  <2>4. /\ main_rsp[f] = [stack |-> StackOf(x), depth |-> Depth(x)]
        /\ main_rsp[f] = [stack |-> StackOf(y), depth |-> Depth(y)]
    BY <1>2, <2>1, <2>3 DEF CallOK, Resumes, Ends
  <2>5. StackOf(x) = StackOf(y)
    BY <2>4
  <2> QED BY <1>2, <1>17, <2>5, StackFacts
<1>18. CallsOK'
  <2> SUFFICES ASSUME NEW x \in Live', NEW k \in 1 .. Depth(x)' PROVE CallOK(x, k)'
    BY DEF CallsOK
  <2>1. CASE /\ x \in Live /\ k \in 1 .. Depth(x) /\ calls'[x][k] = calls[x][k]
             /\ x \in {f, y} => calls[x][k].op = "each"
    <3>1. CallOK(x, k)
      BY <2>1 DEF Control, CallsOK
    <3>2. CASE calls'[x][k].op = "each"
      BY <2>1, <3>1, <3>2 DEF CallOK
    <3>3. CASE calls'[x][k].op # "each"
      <4>1. x # f /\ x # y
        BY <2>1, <3>3
      <4>2. x \in Exec /\ Depth(x)' = Depth(x) /\ StackOf(x)' = StackOf(x)
        BY <1>1, <1>2, <1>13, <2>1, <4>1
      <4>3. ASSUME calls[x][k].op = "resume" PROVE calls[x][k].of \in Active'
        <5>1. calls[x][k].of \in Active /\ k = Depth(x)
          BY <3>1, <4>3 DEF CallOK
        <5>2. Ends(x, "resume")
          BY <1>4, <2>1, <4>3, <5>1 DEF Ends
        <5>3. calls[x][k].of # f
          BY <1>17, <2>1, <4>1, <5>1, <5>2 DEF Resumes
        <5> QED BY <1>16, <5>1, <5>3
      <4>4. ASSUME calls[x][k].op = "yield" PROVE rsp'[x] = rsp[x]
        <5>1. x \in F
          BY <3>1, <4>4 DEF CallOK
        <5> QED BY <1>2, <4>1, <5>1
      <4> QED BY <1>2, <2>1, <3>1, <3>3, <4>2, <4>3, <4>4 DEF CallOK
    <3> QED BY <3>2, <3>3
  <2>2. CASE /\ Stays /\ x = f /\ k = Depth(x)' /\ rsp'[x] = k
             /\ calls'[x][k].op = "yield" /\ calls'[x][k].vm = x /\ calls'[x][k].self = x
    BY <1>2, <2>2 DEF CallOK
  <2> QED BY <1>12, <2>1, <2>2
<1>19. OneEach'
  <2> SUFFICES ASSUME NEW g \in F, NEW x \in Live', NEW z \in Live',
                      NEW j \in 1 .. Depth(x)', NEW k \in 1 .. Depth(z)',
                      EachCall(x, j, g)', EachCall(z, k, g)'
               PROVE  x = z /\ j = k
    BY DEF OneEach
  <2>1. calls'[x][j].op = "each" /\ calls'[x][j].of = g /\ calls'[z][k].op = "each" /\ calls'[z][k].of = g
    BY DEF EachCall
  <2>2. /\ x \in Live /\ j \in 1 .. Depth(x) /\ calls'[x][j] = calls[x][j]
        /\ z \in Live /\ k \in 1 .. Depth(z) /\ calls'[z][k] = calls[z][k]
    BY <1>12, <2>1
  <2>3. EachCall(x, j, g) /\ EachCall(z, k, g)
    BY <2>1, <2>2 DEF EachCall
  <2> QED BY <2>2, <2>3 DEF Control, OneEach
<1>20. Resumed'
  <2>1. ASSUME NEW g \in Active, g # f
        PROVE  \E z \in Live' : Resumes(z, g)' /\ (kind'[g] = "Inner" => EachCall(z, Depth(z) - 1, g)')
    <3>1. PICK z \in Live : /\ Resumes(z, g)
                            /\ kind[g] = "Inner" => EachCall(z, Depth(z) - 1, g)
      BY <2>1 DEF Control, Resumed
    <3>2. z # f /\ z # y
      BY <1>2, <1>6, <2>1, <3>1 DEF Resumes
    <3>3. calls'[z] = calls[z] /\ Depth(z)' = Depth(z) /\ Resumes(z, g)' /\ z \in Live'
      BY <1>1, <1>2, <1>11, <1>13, <3>1, <3>2
    <3> QED BY <3>1, <3>3 DEF EachCall
  <2> QED BY <1>16, <2>1 DEF Resumed
<1>21. InControl'
  <2>1. ASSUME NEW x \in Live' PROVE x = y <=> ~Ends(x, "resume")' /\ ~Ends(x, "yield")'
    <3>1. CASE x = y
      BY <1>14, <3>1
    <3>2. CASE x = f
      BY <1>2, <1>10, <1>11, <3>2
    <3>3. CASE x # f /\ x # y
      BY <1>1, <1>2, <1>11, <1>13, <3>3 DEF Control, InControl
    <3> QED BY <3>1, <3>2, <3>3
  <2> QED BY <1>2, <1>11, <2>1 DEF InControl
<1>22. Chain'
  <2>1. ASSUME NEW S \in SUBSET Exec, MAIN \in S,
               \A g \in Active', z \in Live' : Resumes(z, g)' /\ z \in S => g \in S
        PROVE  Active' \subseteq S
    <3> DEFINE T == S \cup {f}
    <3>1. ASSUME NEW g \in Active, NEW z \in Live, Resumes(z, g), z \in T PROVE g \in T
      <4>1. SUFFICES ASSUME g # f PROVE g \in S
        OBVIOUS
      <4>2. z # f /\ z # y
        BY <1>2, <1>6, <3>1, <4>1 DEF Resumes
      <4>3. Resumes(z, g)' /\ z \in Live' /\ g \in Active' /\ z \in S
        BY <1>1, <1>11, <1>13, <1>16, <3>1, <4>1, <4>2
      <4> QED BY <2>1, <4>3
    <3>2. T \in SUBSET Exec /\ MAIN \in T
      BY <1>5, <2>1
    <3>3. Active \subseteq T
      <4> HIDE DEF T
      <4> QED BY <3>1, <3>2 DEF Control, Chain
    <3> QED BY <1>16, <3>3
  <2> QED BY <2>1 DEF Chain, Exec
<1> QED BY <1>18, <1>19, <1>20, <1>21, <1>22 DEF Control

(* Fibers that are dropped hold up nobody; an each may have returned.      *)
LEMMA DropControl ==
  ASSUME Stacks, Stacks', Control, Owners', NEW c, c = cpu, NEW D \in SUBSET F,
         D \cap Active = {}, UNCHANGED <<cpu, main_rsp, rsp>>, Running' = Running \ D,
         \A g \in Active : kind'[g] = kind[g],
         \A x \in Live \ D : StackOf(x)' = StackOf(x),
         \A x \in D : calls'[x] = <<>>,
         \A x \in Exec \ (D \cup {c}) : calls'[x] = calls[x],
         \/ calls'[c] = calls[c]
         \/ calls[c] # <<>> /\ calls'[c] = Cut(calls[c], Depth(c) - 1)
  PROVE  Control'
<1>1. /\ calls \in [Exec -> Seq(FrameSet)] /\ calls' \in [Exec -> Seq(FrameSet)]
      /\ \A x \in Live : x \in Exec
  BY StackFacts, StackFactsNext
<1>2. /\ c \in Live /\ c \in Exec /\ ~Ends(c, "resume") /\ ~Ends(c, "yield")
  BY <1>1 DEF Control, InControl
<1>3. MAIN \notin D /\ c \notin D
  <2>1. MAIN \notin D
    BY FiberAssumption
  <2>2. CASE c \in F
    <3>1. c \in Running
      BY <1>2, <2>2, FiberAssumption DEF Live
    <3>2. c \in Active
      BY <1>1, <1>2, <3>1, ActiveFacts
    <3> QED BY <2>1, <3>2
  <2>3. CASE c \notin F
    BY <2>1, <2>3
  <2> QED BY <2>2, <2>3
<1>4. Live' = Live \ D
  BY <1>3 DEF Live
<1>5. \A x : Depth(x) = Len(calls[x]) /\ Depth(x)' = Len(calls'[x])
  BY DEF Depth
<1>6. \A k \in 1 .. Depth(c) : calls[c][k].op = "each"
  <2> SUFFICES ASSUME NEW k \in 1 .. Depth(c), calls[c][k].op # "each" PROVE FALSE
    OBVIOUS
  <2>1. CallOK(c, k)
    BY <1>2 DEF Control, CallsOK
  <2>2. k = Depth(c) /\ calls[c][k].op \in {"resume", "yield"} /\ calls[c] # <<>>
    BY <1>5, <2>1 DEF CallOK
  <2> QED BY <1>2, <2>2 DEF Ends
<1>7. \A k \in 1 .. Depth(c)' : k \in 1 .. Depth(c) /\ calls'[c][k] = calls[c][k]
  <2>1. CASE calls'[c] = calls[c]
    BY <1>5, <2>1
  <2>2. CASE calls[c] # <<>> /\ calls'[c] = Cut(calls[c], Depth(c) - 1)
    <3> DEFINE n == Depth(c) - 1
    <3>1. calls[c] \in Seq(FrameSet) /\ n \in 0 .. Len(calls[c]) /\ calls'[c] = Cut(calls[c], n)
      BY <1>1, <1>2, <1>5, <2>2, DepthFacts
    <3> HIDE DEF n
    <3>2. Len(calls'[c]) = n /\ \A k \in 1 .. n : k \in 1 .. Len(calls[c]) /\ calls'[c][k] = calls[c][k]
      BY <3>1, CutFacts
    <3> QED BY <1>5, <3>2
  <2> QED BY <2>1, <2>2
<1>8. ~Ends(c, "resume")' /\ ~Ends(c, "yield")'
  <2>1. SUFFICES ASSUME calls'[c] # <<>> PROVE calls'[c][Depth(c)'].op = "each"
    BY DEF Ends
  <2>2. Depth(c)' \in 1 .. Depth(c)'
    <3>1. calls'[c] \in Seq(FrameSet)
      BY <1>1, <1>2
    <3> QED BY <1>5, <2>1, <3>1
  <2> QED BY <1>6, <1>7, <2>2
<1>9. \A x \in Live' \ {c} : \A op : /\ Ends(x, op)' <=> Ends(x, op)
                                 /\ Depth(x)' = Depth(x) /\ calls'[x] = calls[x]
                                 /\ \A g : Resumes(x, g)' <=> Resumes(x, g)
  BY <1>1, <1>4, <1>5 DEF Ends, Resumes
<1>10. \A x \in D : ~Ends(x, "resume")
  <2> SUFFICES ASSUME NEW x \in D, Ends(x, "resume") PROVE FALSE
    OBVIOUS
  <2>1. CASE x \in Running
    <3>1. Ends(x, "yield")
      BY <1>1, <2>1, ActiveFacts
    <3> QED BY <3>1 DEF Ends
  <2>2. CASE x \notin Running
    <3>1. calls[x] = <<>>
      BY <1>3, <2>2, StackFacts DEF Live, Exec
    <3> QED BY <3>1 DEF Ends
  <2> QED BY <2>1, <2>2
<1>11. Active' = Active
  <2>1. Active = {g \in Running : ~Ends(g, "yield")}
    BY <1>1, ActiveFacts
  <2>2. Active' = {g \in Running' : ~Ends(g, "yield")'}
    BY StackFactsNext
  <2>3. \A g \in Running \ D : Ends(g, "yield")' <=> Ends(g, "yield")
    BY <1>2, <1>4, <1>8, <1>9 DEF Live
  <2> QED BY <2>1, <2>2, <2>3
<1>12. ASSUME NEW x \in Live', NEW k \in 1 .. Depth(x)'
       PROVE  /\ x \in Live /\ k \in 1 .. Depth(x) /\ calls'[x][k] = calls[x][k]
              /\ calls[x][k].op = "each" \/ x # c
  <2>1. CASE x = c
    BY <1>2, <1>6, <1>7, <2>1
  <2>2. CASE x # c
    BY <1>4, <1>9, <2>2
  <2> QED BY <2>1, <2>2
<1>13. CallsOK'
  <2> SUFFICES ASSUME NEW x \in Live', NEW k \in 1 .. Depth(x)' PROVE CallOK(x, k)'
    BY DEF CallsOK
  <2>1. /\ x \in Live /\ k \in 1 .. Depth(x) /\ calls'[x][k] = calls[x][k]
        /\ calls[x][k].op = "each" \/ x # c
    BY <1>12
  <2>2. CallOK(x, k)
    BY <2>1 DEF Control, CallsOK
  <2>3. CASE calls[x][k].op = "each"
    BY <2>1, <2>2, <2>3 DEF CallOK
  <2>4. CASE x # c
    <3>1. Depth(x)' = Depth(x) /\ StackOf(x)' = StackOf(x)
      BY <1>4, <1>9, <2>1, <2>4
    <3> QED BY <1>11, <2>1, <2>2, <3>1 DEF CallOK
  <2> QED BY <2>1, <2>3, <2>4
<1>14. OneEach'
  <2> SUFFICES ASSUME NEW g \in F, NEW x \in Live', NEW z \in Live',
                      NEW j \in 1 .. Depth(x)', NEW k \in 1 .. Depth(z)',
                      EachCall(x, j, g)', EachCall(z, k, g)'
               PROVE  x = z /\ j = k
    BY DEF OneEach
  <2>1. calls'[x][j].op = "each" /\ calls'[x][j].of = g /\ calls'[z][k].op = "each" /\ calls'[z][k].of = g
    BY DEF EachCall
  <2>2. /\ x \in Live /\ j \in 1 .. Depth(x) /\ calls'[x][j] = calls[x][j]
        /\ z \in Live /\ k \in 1 .. Depth(z) /\ calls'[z][k] = calls[z][k]
    BY <1>12
  <2>3. EachCall(x, j, g) /\ EachCall(z, k, g)
    BY <2>1, <2>2 DEF EachCall
  <2> QED BY <2>2, <2>3 DEF Control, OneEach
<1>15. \A g \in Active, z \in Live : Resumes(z, g) => z # c /\ z \in Live'
  BY <1>2, <1>4, <1>10 DEF Resumes
<1>16. Resumed'
  <2>1. ASSUME NEW g \in Active
        PROVE  \E z \in Live' : Resumes(z, g)' /\ (kind'[g] = "Inner" => EachCall(z, Depth(z) - 1, g)')
    <3>1. PICK z \in Live : /\ Resumes(z, g)
                            /\ kind[g] = "Inner" => EachCall(z, Depth(z) - 1, g)
      BY <2>1 DEF Control, Resumed
    <3>2. calls'[z] = calls[z] /\ Depth(z)' = Depth(z) /\ Resumes(z, g)' /\ z \in Live'
      BY <1>9, <1>15, <3>1
    <3> QED BY <3>1, <3>2 DEF EachCall
  <2> QED BY <1>11, <2>1 DEF Resumed
<1>17. InControl'
  <2>1. ASSUME NEW x \in Live' PROVE x = c <=> ~Ends(x, "resume")' /\ ~Ends(x, "yield")'
    <3>1. CASE x = c
      BY <1>8, <3>1
    <3>2. CASE x # c
      BY <1>4, <1>9, <3>2 DEF Control, InControl
    <3> QED BY <3>1, <3>2
  <2> QED BY <1>2, <1>3, <1>4, <2>1 DEF InControl
<1>18. Chain'
  <2>1. ASSUME NEW S \in SUBSET Exec, MAIN \in S,
               \A g \in Active', z \in Live' : Resumes(z, g)' /\ z \in S => g \in S
        PROVE  Active' \subseteq S
    <3>1. ASSUME NEW g \in Active, NEW z \in Live, Resumes(z, g), z \in S PROVE g \in S
      <4>1. Resumes(z, g)' /\ z \in Live' /\ g \in Active'
        BY <1>9, <1>11, <1>15, <3>1
      <4> QED BY <2>1, <3>1, <4>1
    <3>2. Active \subseteq S
      BY <2>1, <3>1 DEF Control, Chain
    <3> QED BY <1>11, <3>2
  <2> QED BY <2>1 DEF Chain, Exec
<1> QED BY <1>13, <1>14, <1>16, <1>17, <1>18 DEF Control

(* A step on which the stacks do not change.                               *)
LEMMA QuietControl ==
  ASSUME Stacks, Stacks', Control, Owners', UNCHANGED switchVars, UNCHANGED stackVars,
         Running' = Running, calls' = calls, \A x \in Exec : StackOf(x)' = StackOf(x),
         \A g \in Active : kind'[g] = kind[g]
  PROVE  Control'
<1>1. cpu' = cpu /\ main_rsp' = main_rsp /\ rsp' = rsp
  BY DEF switchVars, stackVars
<1>2. \A x \in Live : x \in Exec
  BY StackFacts
<1>3. /\ {} \in SUBSET F /\ {} \cap Active = {} /\ Running' = Running \ {}
      /\ \A x \in Live \ {} : StackOf(x)' = StackOf(x)
      /\ \A x \in {} : calls'[x] = <<>>
      /\ \A x \in Exec \ ({} \cup {cpu}) : calls'[x] = calls[x]
      /\ calls'[cpu] = calls[cpu]
  BY <1>2
<1> QED BY <1>1, <1>3, DropControl

-----------------------------------------------------------------------------
(* What the executions refer to, and what iterations belong to *)

(* No fiber comes back to life or becomes another kind of object, and what *)
(* an iteration refers to does not change while it runs.                   *)
Evolves ==
    \A h \in F : state[h] # "none" =>
        /\ kind'[h] = kind[h] /\ state'[h] # "none"
        /\ state'[h] # "dropped" =>
               /\ state[h] # "dropped" /\ info[h] \subseteq info'[h]
               /\ kind[h] = "Inner" => info'[h] = info[h]

(* A call of each goes on waiting, but in a fiber that is dropped, and for *)
(* one.                                                                    *)
EachesKept ==
    \A y \in Exec : \A k \in 1 .. Depth(y) : calls[y][k].op = "each" =>
        \/ y \in Gone \/ calls[y][k].of \in Gone
        \/ k \in 1 .. Depth(y)' /\ calls'[y][k] = calls[y][k]

(* The k-th call of x waited in x before the step.                         *)
Kept(x, k) == x \in Live /\ k \in 1 .. Depth(x) /\ calls'[x][k] = calls[x][k]

LEMMA OwnerKept ==
  ASSUME Kinds, Evolves, NEW x, NEW g \in F, NEW e \in F, Owner(x, g, e), state'[g] = "Running",
         x \in F => state[x] = "Running" /\ state'[x] = "Running"
  PROVE  Owner(x, g, e)'
<1>1. /\ kind[g] = "Inner" /\ state[g] = "Running" /\ kind[e] = "Enum"
      /\ state[e] # "dropped" => info[g] \subseteq info[e]
      /\ x \in F /\ kind[x] = "Inner" => e \in info[x]
  BY DEF Owner
<1>2. state[e] \in {"Created", "dropped"}
  BY <1>1 DEF Kinds
<1>3. kind'[g] = "Inner" /\ info'[g] = info[g] /\ kind'[e] = "Enum"
  BY <1>1, <1>2 DEF Evolves
<1>4. state'[e] # "dropped" => info'[g] \subseteq info'[e]
  BY <1>1, <1>2, <1>3 DEF Evolves
<1>5. x \in F /\ kind'[x] = "Inner" => e \in info'[x]
  BY <1>1 DEF Evolves
<1> QED BY <1>3, <1>4, <1>5 DEF Owner

LEMMA OwnedAfter ==
  ASSUME NEW x, NEW k, NEW g, NEW e, calls'[x][k].of = g, calls'[x][k].self = e, Owner(x, g, e)'
  PROVE  OwnedFrom(x, k)'
BY DEF OwnedFrom, Owner

(* The program can refer to g after the step.                              *)
Usable(g) == g \in Known' /\ state'[g] # "dropped"

(* What a step has to leave alone for the references to stay sound: D are  *)
(* the fibers it drops.                                                    *)
LEMMA Carry ==
  ASSUME Stacks, Stacks', CallsOK, Owners, Kinds, References, Evolves, NEW D \in SUBSET F,
         \A x \in Live' : \A k \in 1 .. Depth(x)' : calls'[x][k].op = "each" =>
             \/ Kept(x, k) /\ state'[calls[x][k].of] = "Running"
             \/ OwnedFrom(x, k)' /\ calls'[x][k].self \in Uses(x)',
         \A x \in Live' : \A k \in 1 .. Depth(x)' : calls'[x][k].op = "resume" =>
             \/ Kept(x, k) /\ Uses(x) \subseteq Uses(x)'
             \/ calls'[x][k].of \in Uses(x)' \/ kind'[calls'[x][k].of] = "Inner",
         \A x \in Exec : \A g \in F : g \in Uses(x)' =>
             g \in Uses(x) \/ Usable(g),
         \A g \in F : state'[g] = "dropped" => state[g] = "dropped" \/ g \in D,
         \A x \in Heap' : state'[x] # "Dead" =>
             \/ (x \in Heap /\ state[x] # "Dead")
             \/ \A g \in F : Has(x, g)' => state'[g] # "dropped",
         \A x \in {MAIN} \cup Heap', g \in D :
             x = MAIN \/ state'[x] # "Dead" => ~(Has(x, g) /\ Has(x, g)')
  PROVE  Owners' /\ References'
<1>1. /\ calls \in [Exec -> Seq(FrameSet)] /\ calls' \in [Exec -> Seq(FrameSet)]
      /\ \A x \in Live : x \in Exec
      /\ \A x \in Exec \ Live' : calls'[x] = <<>>
  BY StackFacts, StackFactsNext
<1>2. \A x : Depth(x) = Len(calls[x]) /\ Depth(x)' = Len(calls'[x])
  BY DEF Depth
<1>3. \A x \in Live' : x \in Exec /\ (x \in F => state'[x] = "Running")
  BY FiberAssumption DEF Live, Running, Exec
<1>4. \A x \in Live : x \in F => state[x] = "Running"
  BY FiberAssumption DEF Live, Running
<1>5. \A x \in Live : \A k \in 1 .. Depth(x) : calls[x][k].of \in F /\ calls[x][k].self \in F
  BY <1>1, DepthFacts
<1>6. \A x \in Live' : \A k \in 1 .. Depth(x)' : calls'[x][k].of \in F /\ calls'[x][k].self \in F
  <2> SUFFICES ASSUME NEW x \in Live', NEW k \in 1 .. Depth(x)'
               PROVE  calls'[x][k].of \in F /\ calls'[x][k].self \in F
    OBVIOUS
  <2>1. calls'[x] \in Seq(FrameSet) /\ k \in 1 .. Len(calls'[x])
    BY <1>1, <1>2, <1>3
  <2>2. calls'[x][k] \in FrameSet
    BY <2>1
  <2> QED BY <2>2 DEF FrameSet
<1>7. Owners'
  <2> SUFFICES ASSUME NEW x \in Live', NEW k \in 1 .. Depth(x)', calls'[x][k].op = "each"
               PROVE  OwnedFrom(x, k)'
    BY DEF Owners
  <2>1. CASE Kept(x, k) /\ state'[calls[x][k].of] = "Running"
    <3>1. OwnedFrom(x, k) /\ calls'[x][k] = calls[x][k]
      BY <2>1 DEF Kept, Owners
    <3>2. PICK g \in F, e \in F : g = calls[x][k].of /\ e = calls[x][k].self
      BY <1>5, <2>1 DEF Kept
    <3>3. /\ Owner(x, g, e) /\ state'[g] = "Running" /\ calls'[x][k].of = g /\ calls'[x][k].self = e
          /\ x \in F => state[x] = "Running" /\ state'[x] = "Running"
      BY <1>3, <1>4, <2>1, <3>1, <3>2 DEF OwnedFrom, Kept
    <3>4. Owner(x, g, e)'
      BY <3>3, OwnerKept
    <3> QED BY <3>3, <3>4, OwnedAfter
  <2> QED BY <2>1
<1>8. Known \subseteq Known'
  BY DEF Known, Evolves
<1>9. ASSUME NEW x \in Exec, NEW g \in F, Has(x, g)'
      PROVE  Has(x, g) \/ Usable(g)
  <2>1. ASSUME g \in Uses(x)' PROVE Has(x, g) \/ Usable(g)
    BY <2>1 DEF Has, Usable
  <2>2. ASSUME NEW k \in 1 .. Depth(x)', calls'[x][k].op = "each", calls'[x][k].self = g
        PROVE  Has(x, g) \/ Usable(g)
    <3>1. x \in Live'
      BY <1>1, <1>2, <2>2
    <3>2. CASE Kept(x, k)
      BY <2>2, <3>2 DEF Kept, Has
    <3>3. CASE g \in Uses(x)'
      BY <2>1, <3>3
    <3> QED BY <2>2, <3>1, <3>2, <3>3
  <2> QED BY <1>9, <2>1, <2>2 DEF Has
<1>10. \A x \in Exec, g \in F : Has(x, g)' => g \in Known'
  BY <1>8, <1>9 DEF References, Usable
<1>11. ASSUME NEW x \in {MAIN} \cup Heap', x = MAIN \/ state'[x] # "Dead"
       PROVE  Sound(x)'
  <2> SUFFICES ASSUME NEW g \in F, Has(x, g)', state'[g] = "dropped" PROVE FALSE
    BY DEF Sound
  <2>1. x \in Exec
    BY DEF Exec, Heap
  <2>2. Has(x, g) /\ g \notin D /\ state[g] = "dropped"
    BY <1>9, <1>11, <2>1 DEF Usable
  <2>3. x = MAIN \/ (x \in Heap /\ state[x] # "Dead")
    BY <1>11
  <2>4. Sound(x)
    BY <2>3 DEF References
  <2> QED BY <2>2, <2>4 DEF Sound
<1>12. ASSUME NEW x \in Live', NEW g \in F, Resumes(x, g)', kind'[g] # "Inner"
       PROVE  g \in Uses(x)'
  <2>1. /\ x \in Exec /\ Depth(x)' \in 1 .. Depth(x)'
        /\ calls'[x][Depth(x)'].op = "resume" /\ calls'[x][Depth(x)'].of = g
    <3>1. calls'[x] \in Seq(FrameSet) /\ calls'[x] # <<>>
      BY <1>1, <1>3, <1>12 DEF Resumes, Ends
    <3> QED BY <1>2, <1>3, <1>12, <3>1 DEF Resumes, Ends
  <2> DEFINE k == Depth(x)'
  <2> HIDE DEF k
  <2>2. k \in 1 .. Depth(x)' /\ calls'[x][k].op = "resume" /\ calls'[x][k].of = g
    BY <2>1 DEF k
  <2>3. CASE Kept(x, k) /\ Uses(x) \subseteq Uses(x)'
    <3>1. x \in Live /\ k \in 1 .. Depth(x) /\ calls[x][k].op = "resume" /\ calls[x][k].of = g
      BY <2>2, <2>3 DEF Kept
    <3>2. CallOK(x, k) /\ calls[x] # <<>>
      BY <1>2, <3>1 DEF CallsOK
    <3>3. k = Depth(x)
      BY <3>1, <3>2 DEF CallOK
    <3>4. Resumes(x, g)
      BY <3>1, <3>2, <3>3 DEF Resumes, Ends
    <3>5. kind[g] # "Inner"
      <4>1. g \in Active
        BY <3>1, <3>2 DEF CallOK
      <4>2. state[g] = "Running"
        BY <4>1 DEF Active
      <4> QED BY <1>12, <4>2 DEF Evolves
    <3> QED BY <2>3, <3>1, <3>4, <3>5 DEF References
  <2> QED BY <1>12, <2>2, <2>3
<1>13. References'
  BY <1>10, <1>11, <1>12, FiberAssumption DEF References, Exec
<1> QED BY <1>7, <1>13


(* What the fiber of an iteration refers to the enumerator refers to.      *)
LEMMA InnerFacts ==
  ASSUME Stacks, Owners, Kinds, References, NEW y \in Live, NEW k \in 1 .. Depth(y),
         calls[y][k].op = "each", Sound(y), NEW f, f = calls[y][k].of
  PROVE  /\ f \in F /\ kind[f] = "Inner" /\ Sound(f)
         /\ \E e \in Heap : /\ Has(y, e) /\ state[e] = "Created" /\ info[f] \subseteq Uses(e)
                            /\ \A g \in F : Has(f, g) => g \in info[f]
<1>1. /\ calls \in [Exec -> Seq(FrameSet)] /\ y \in Exec
      /\ \A x \in Exec \ Live : calls[x] = <<>>
  BY StackFacts
<1>2. PICK e \in F : e = calls[y][k].self
  BY <1>1, DepthFacts
<1>3. f \in F /\ Owner(y, f, e)
  BY <1>1, <1>2, DepthFacts DEF Owners, OwnedFrom
<1>4. kind[f] = "Inner" /\ state[f] = "Running" /\ kind[e] = "Enum"
  BY <1>3 DEF Owner
<1>5. Has(y, e)
  BY <1>2 DEF Has
<1>6. state[e] = "Created" /\ e \in Heap
  BY <1>4, <1>5 DEF Sound, Kinds, Heap
<1>7. info[f] \subseteq info[e]
  BY <1>3, <1>6 DEF Owner
<1>8. f \in Live /\ f \in Exec /\ hold[f] = {}
  BY <1>3, <1>4 DEF Live, Running, Exec, Kinds
<1>9. ASSUME NEW g \in F, Has(f, g) PROVE g \in info[f]
  <2>1. CASE g \in Uses(f)
    BY <1>8, <2>1 DEF Uses
  <2>2. ASSUME NEW i \in 1 .. Depth(f), calls[f][i].op = "each", calls[f][i].self = g
        PROVE  g \in info[f]
    <3>1. OwnedFrom(f, i)
      BY <1>8, <2>2 DEF Owners
    <3> QED BY <1>3, <1>4, <2>2, <3>1 DEF OwnedFrom, Owner
  <2> QED BY <1>9, <2>1, <2>2 DEF Has
<1>10. Sound(e)
  BY <1>6 DEF References
<1>11. Sound(f)
  BY <1>7, <1>9, <1>10 DEF Sound, Has, Uses
<1>12. info[f] \subseteq Uses(e)
  BY <1>7, <1>6 DEF Uses
<1> QED BY <1>3, <1>4, <1>5, <1>6, <1>9, <1>11, <1>12

(* A fiber is resumed by one execution; from each when each owns it.       *)
LEMMA ResumerFacts ==
  ASSUME Stacks, CallsOK, Resumed, NEW f \in Active, NEW y \in Live, Resumes(y, f)
  PROVE  kind[f] = "Inner" => EachCall(y, Depth(y) - 1, f)
<1>1. PICK z \in Live : Resumes(z, f) /\ (kind[f] = "Inner" => EachCall(z, Depth(z) - 1, f))
  BY DEF Resumed
<1>2. ASSUME NEW x \in Live, Resumes(x, f) PROVE main_rsp[f].stack = StackOf(x)
  <2>1. x \in Exec /\ calls \in [Exec -> Seq(FrameSet)]
    BY StackFacts
  <2>2. Depth(x) \in 1 .. Depth(x) /\ calls[x][Depth(x)].op = "resume" /\ calls[x][Depth(x)].of = f
    BY <1>2, <2>1, DepthFacts DEF Resumes, Ends
  <2>3. CallOK(x, Depth(x))
    BY <2>2 DEF CallsOK
  <2> QED BY <2>2, <2>3 DEF CallOK
<1>3. StackOf(y) = StackOf(z)
  BY <1>1, <1>2
<1>4. y = z
  BY <1>3, StackFacts
<1> QED BY <1>1, <1>4

(* Whoever is active works with nothing the collector has freed.           *)
LEMMA ActiveSound ==
  ASSUME Stacks, Control, Kinds, References
  PROVE  \A x \in Active \cup {MAIN} : Sound(x)
<1> DEFINE S == {x \in Exec : Sound(x)}
<1>1. Sound(MAIN)
  BY DEF References
<1>2. ASSUME NEW f \in Active, NEW y \in Live, Resumes(y, f), Sound(y) PROVE Sound(f)
  <2>1. f \in F /\ state[f] = "Running"
    BY DEF Active
  <2>2. CASE kind[f] # "Inner"
    <3>1. f \in Heap
      BY <2>1, <2>2 DEF Heap
    <3> QED BY <2>1, <3>1 DEF References
  <2>3. CASE kind[f] = "Inner"
    <3>1. EachCall(y, Depth(y) - 1, f)
      BY <1>2, <2>3, ResumerFacts DEF Control
    <3> DEFINE k == Depth(y) - 1
    <3>2. k \in 1 .. Depth(y) /\ calls[y][k].op = "each" /\ f = calls[y][k].of
      BY <3>1 DEF EachCall
    <3> HIDE DEF k
    <3> QED BY <1>2, <3>2, InnerFacts DEF Control
  <2> QED BY <2>2, <2>3
<1>3. /\ S \in SUBSET Exec /\ MAIN \in S
      /\ \A f \in Active, y \in Live : Resumes(y, f) /\ y \in S => f \in S
  BY <1>1, <1>2 DEF Exec, Active
<1> HIDE DEF S
<1>4. Active \subseteq S
  BY <1>3 DEF Control, Chain
<1> QED BY <1>1, <1>4 DEF S

LEMMA InControlFacts ==
  ASSUME Stacks, Control, Kinds, References
  PROVE  /\ cpu \in Exec /\ cpu \in Live /\ (cpu \in F => state[cpu] = "Running" /\ cpu \in Active)
         /\ \A g \in F : Has(cpu, g) => g \in Known /\ state[g] # "dropped"
         /\ \A g \in F : g \in Uses(cpu) => g \in Known /\ state[g] # "dropped"
         /\ \A k \in 1 .. Depth(cpu) : calls[cpu][k].op = "each"
<1>1. cpu \in Live /\ ~Ends(cpu, "yield") /\ cpu \in Exec
  BY StackFacts DEF Control, InControl
<1>2. cpu \in F => state[cpu] = "Running" /\ cpu \in Active
  <2>1. Active = {f \in Running : ~Ends(f, "yield")}
    BY StackFacts, ActiveFacts
  <2> QED BY <1>1, <2>1, FiberAssumption DEF Live, Running
<1>3. Sound(cpu)
  <2>1. cpu \in Active \cup {MAIN}
    BY <1>1, <1>2 DEF Exec
  <2> QED BY <2>1, ActiveSound
<1>4. \A g \in F : Has(cpu, g) => g \in Known /\ state[g] # "dropped"
  BY <1>1, <1>3 DEF Sound, References
<1>5. \A k \in 1 .. Depth(cpu) : calls[cpu][k].op = "each"
  <2> SUFFICES ASSUME NEW k \in 1 .. Depth(cpu), calls[cpu][k].op # "each" PROVE FALSE
    OBVIOUS
  <2>1. CallOK(cpu, k)
    BY <1>1 DEF Control, CallsOK
  <2>2. k = Depth(cpu) /\ calls[cpu][k].op \in {"resume", "yield"}
    BY <2>1 DEF CallOK
  <2>3. calls[cpu] # <<>>
    BY DEF Depth
  <2> QED BY <1>1, <2>2, <2>3 DEF Ends, Control, InControl
<1> QED BY <1>1, <1>2, <1>4, <1>5 DEF Has


-----------------------------------------------------------------------------
(* The executions as Coroutines sees them *)

LEMMA Types ==
  ASSUME Stacks
  PROVE  Typed /\ TypeOK /\ MAIN \notin F /\ Live = Running \cup {MAIN} /\ Live \subseteq Exec
BY StackFacts, FiberAssumption DEF Stacks, StacksAccounted, TypeOK, Typed, Live


Back == [f \in Active |-> frames[main_rsp[f].stack][main_rsp[f].depth].vm]
Phase == [f \in F |-> CASE state[f] = "none" -> "unborn"
                        [] state[f] \in {"Created", "Running"} -> "live"
                        [] OTHER -> "over"]

LEMMA MapsResume ==
  ASSUME NEW f, Phase[f] # "over", f \notin DOMAIN Back,
         Phase' = [Phase EXCEPT ![f] = "live"],
         Back' = [g \in DOMAIN Back \cup {f} |-> IF g = f THEN cpu ELSE Back[g]],
         cpu' = f
  PROVE  C!Resume(f)
BY DEF C!Resume, C!InChain, Back, Phase

LEMMA MapsLeave ==
  ASSUME cpu \in DOMAIN Back, cpu' = Back[cpu],
         Back' = [g \in DOMAIN Back \ {cpu} |-> Back[g]]
  PROVE  /\ Phase' = Phase => C!Yield
         /\ Phase' = [Phase EXCEPT ![cpu] = "over"] => C!End
BY DEF C!Yield, C!End, C!InChain, C!Without, Back, Phase

LEMMA MapsDiscard ==
  ASSUME NEW D, D \cap DOMAIN Back = {}, cpu' = cpu, Back' = Back,
         Phase' = [f \in F |-> IF f \in D THEN "over" ELSE Phase[f]]
  PROVE  C!Discard(D)
BY DEF C!Discard, C!InChain, Back, Phase

LEMMA MapsCreate ==
  ASSUME NEW f, Phase[f] = "unborn", cpu' = cpu, Back' = Back,
         Phase' = [Phase EXCEPT ![f] = "live"]
  PROVE  C!Create(f)
BY DEF C!Create, Back, Phase

LEMMA MapsStutter ==
  ASSUME cpu' = cpu, Back' = Back, Phase' = Phase
  PROVE  UNCHANGED C!vars
BY DEF C!vars, Back, Phase

(* An active fiber goes back to the execution that resumed it.             *)
BackView ==
    /\ DOMAIN Back = Active
    /\ \A f \in Active : \E y \in Live : Resumes(y, f) /\ Back[f] = y
    /\ \A f \in Active, y \in Live : Resumes(y, f) => Back[f] = y
    /\ cpu \in Live /\ ~Ends(cpu, "resume") /\ (cpu \in F => cpu \in Active)

LEMMA BackViewHolds ==
  ASSUME FiberInv
  PROVE  BackView
<1>1. /\ Stacks /\ Control /\ calls \in [Exec -> Seq(FrameSet)]
      /\ \A x \in Live : calls[x] = frames[StackOf(x)] /\ x \in Exec
  BY StackFacts DEF FiberInv
<1>2. ASSUME NEW f \in Active, NEW y \in Live, Resumes(y, f) PROVE Back[f] = y
  <2>1. Depth(y) \in 1 .. Depth(y) /\ calls[y] = frames[StackOf(y)]
    BY <1>1, <1>2, DepthFacts DEF Resumes, Ends
  <2>2. CallOK(y, Depth(y)) /\ calls[y][Depth(y)].op = "resume" /\ calls[y][Depth(y)].of = f
    BY <1>1, <1>2, <2>1 DEF Control, CallsOK, Resumes, Ends
  <2>3. main_rsp[f] = [stack |-> StackOf(y), depth |-> Depth(y)] /\ calls[y][Depth(y)].vm = y
    BY <2>2 DEF CallOK
  <2>4. main_rsp[f].stack = StackOf(y) /\ main_rsp[f].depth = Depth(y)
    BY <2>3
  <2> QED BY <2>1, <2>3, <2>4 DEF Back
<1>3. \A f \in Active : \E y \in Live : Resumes(y, f)
  BY <1>1 DEF Control, Resumed
<1>4. DOMAIN Back = Active
  BY DEF Back
<1>5. cpu \in Live /\ ~Ends(cpu, "resume") /\ (cpu \in F => cpu \in Active)
  BY <1>1, InControlFacts DEF FiberInv, Control, InControl
<1> QED BY <1>2, <1>3, <1>4, <1>5 DEF BackView

LEMMA BackViewNext ==
  ASSUME FiberInv'
  PROVE  /\ DOMAIN Back' = Active' /\ Active' = {f \in Running' : ~Ends(f, "yield")'}
         /\ \A f \in Active' : \A y \in Live' : Resumes(y, f)' => Back'[f] = y
         /\ cpu' \in F => cpu' \in Active'
         /\ Back' = [f \in Active' |-> Back'[f]]
<1>1. (FiberInv => BackView)'
  BY BackViewHolds, PTL
<1>2. Stacks'
  BY DEF FiberInv
<1>3. Active' = {f \in Running' : ~Ends(f, "yield")'}
  BY <1>2, StackFactsNext
<1>4. Back' = [f \in Active' |-> Back'[f]]
  BY DEF Back
<1> QED BY <1>1, <1>3, <1>4 DEF BackView

LEMMA BackKept ==
  ASSUME FiberInv, FiberInv', NEW g \in Active, g \in Active',
         \A z \in Live : Resumes(z, g) => z \in Live' /\ calls'[z] = calls[z]
  PROVE  Back'[g] = Back[g]
<1>1. PICK y \in Live : Resumes(y, g) /\ Back[g] = y
  BY BackViewHolds DEF BackView
<1>2. y \in Live' /\ calls'[y] = calls[y]
  BY <1>1
<1>3. Resumes(y, g)'
  BY <1>1, <1>2 DEF Resumes, Ends, Depth
<1> QED BY <1>1, <1>2, <1>3, BackViewNext

(* Who is active after the stacks of some executions changed.              *)
LEMMA ActiveNext ==
  ASSUME FiberInv, FiberInv', NEW x \in F, calls'[x] = calls[x],
         x \in Running' <=> x \in Running
  PROVE  x \in Active' <=> x \in Active
<1>1. Active = {f \in Running : ~Ends(f, "yield")} /\ Active' = {f \in Running' : ~Ends(f, "yield")'}
  BY BackViewNext, StackViewHolds DEF FiberInv, StackView
<1>2. Ends(x, "yield")' <=> Ends(x, "yield")
  BY DEF Ends, Depth
<1> QED BY <1>1, <1>2

LEMMA EnterMaps ==
  ASSUME FiberInv, FiberInv', NEW f, NEW P, Entered(f, P), f \notin Active,
         state[f] \in {"none", "Created", "Running"}, state' = [state EXCEPT ![f] = "Running"]
  PROVE  C!Resume(f)
<1>1. PICK c : c = cpu
  OBVIOUS
<1>2. /\ f \in F /\ c \in Live /\ f # c /\ cpu' = f /\ P \in Seq(FrameSet)
      /\ Running' = Running \cup {f}
      /\ calls'[c] = Append(P, Frame("resume", c, f, f))
      /\ \A x \in Exec \ {c, f} : calls'[x] = calls[x]
  BY <1>1 DEF Entered
<1>3. /\ Typed /\ Live = Running \cup {MAIN} /\ Live \subseteq Exec /\ c \in Exec
      /\ Live' = Live \cup {f} /\ MAIN \notin F
  BY <1>2, Types DEF FiberInv, Live
<1>4. Frame("resume", c, f, f) \in FrameSet /\ Frame("resume", c, f, f).op = "resume" /\ Frame("resume", c, f, f).of = f
  BY <1>2, <1>3, FrameFacts
<1>5. calls'[c] # <<>> /\ calls'[c][Len(calls'[c])] = Frame("resume", c, f, f)
  BY <1>2, <1>4, AppendFacts
<1>6. Resumes(c, f)' /\ ~Ends(c, "yield")'
  BY <1>4, <1>5 DEF Resumes, Ends, Depth
<1>7. \A z \in Live : \A g : Resumes(z, g) => z # c /\ z # f
  <2> SUFFICES ASSUME NEW z \in Live, NEW g, Resumes(z, g) PROVE z # c /\ z # f
    OBVIOUS
  <2>1. z # c
    BY <1>1, BackViewHolds DEF BackView, Resumes
  <2>2. Active = {x \in Running : ~Ends(x, "yield")} /\ ~Ends(z, "yield")
    BY StackViewHolds DEF FiberInv, StackView, Resumes, Ends
  <2> QED BY <1>2, <1>3, <2>1, <2>2
<1>8. Active' = Active \cup {f} /\ Active \subseteq F
  <2>1. f \in Active' /\ Active' \subseteq F /\ Active \subseteq F
    BY <1>2, BackViewNext DEF Active
  <2>2. ASSUME NEW x \in F, x # f PROVE x \in Active' <=> x \in Active
    <3>1. CASE x = c
      <4>1. x \in Active
        BY <1>1, <2>2, <3>1, BackViewHolds DEF BackView
      <4>2. x \in Active'
        BY <1>2, <1>3, <1>6, <2>2, <3>1, BackViewNext
      <4> QED BY <4>1, <4>2
    <3>2. CASE x # c
      BY <1>2, <2>2, <3>2, ActiveNext DEF Exec
    <3> QED BY <3>1, <3>2
  <2> QED BY <2>1, <2>2
<1>9. ASSUME NEW g \in Active PROVE Back'[g] = Back[g]
  BY <1>2, <1>3, <1>7, <1>8, BackKept
<1>10. Back'[f] = c
  BY <1>3, <1>6, <1>8, BackViewNext, <1>2
<1>11. DOMAIN Back = Active /\ Back' = [g \in Active' |-> Back'[g]]
  BY BackViewHolds, BackViewNext DEF BackView
<1>12. Back' = [g \in DOMAIN Back \cup {f} |-> IF g = f THEN cpu ELSE Back[g]]
  <2> DEFINE R == [g \in Active \cup {f} |-> IF g = f THEN c ELSE Back[g]]
  <2>1. \A g \in Active \cup {f} : Back'[g] = IF g = f THEN c ELSE Back[g]
    BY <1>9, <1>10
  <2> HIDE DEF Back
  <2>2. Back' = [g \in Active \cup {f} |-> IF g = f THEN c ELSE Back[g]]
    BY <1>8, <1>11, <2>1
  <2> QED BY <1>1, <1>11, <2>2
<1>13. Phase[f] # "over" /\ Phase' = [Phase EXCEPT ![f] = "live"]
  BY <1>2, <1>3 DEF Phase, Typed
<1> QED BY <1>2, <1>11, <1>12, <1>13, MapsResume

-----------------------------------------------------------------------------
(* Each operation keeps the invariant *)

LEMMA DropMaps ==
  ASSUME FiberInv, FiberInv', NEW c, c = cpu, cpu' = c, NEW D \in SUBSET F, D \cap Active = {},
         Running' = Running \ D, \A x \in Exec \ (D \cup {c}) : calls'[x] = calls[x]
  PROVE  Active' = Active /\ Back' = Back
<1>1. /\ Live = Running \cup {MAIN} /\ Live \subseteq Exec /\ MAIN \notin F
      /\ Live' = Running' \cup {MAIN} /\ Stacks
  BY Types DEF Live, FiberInv
<1>2. Active = {x \in Running : ~Ends(x, "yield")} /\ Active' = {x \in Running' : ~Ends(x, "yield")'}
  BY BackViewNext, StackViewHolds, <1>1 DEF StackView
<1>3. Active' = Active
  <2>1. Active \subseteq F \ D /\ Active' \subseteq F \ D
    BY <1>2 DEF Running
  <2>2. ASSUME NEW x \in F \ D PROVE x \in Active' <=> x \in Active
    <3>1. CASE x = c
      BY <2>2, <3>1, BackViewHolds, BackViewNext DEF BackView
    <3>2. CASE x # c
      BY <2>2, <3>2, ActiveNext DEF Exec
    <3> QED BY <3>1, <3>2
  <2> QED BY <2>1, <2>2
<1>4. ASSUME NEW g \in Active PROVE Back'[g] = Back[g]
  <2>1. \A z \in Live : Resumes(z, g) => z \notin D /\ z # c
    <3> SUFFICES ASSUME NEW z \in Live, Resumes(z, g) PROVE z \notin D /\ z # c
      OBVIOUS
    <3>1. z # c
      BY BackViewHolds DEF BackView, Resumes
    <3>2. z \in Active \cup {MAIN}
      BY <1>1, <1>2 DEF Resumes, Ends
    <3> QED BY <1>1, <3>1, <3>2
  <2>2. \A z \in Live : Resumes(z, g) => z \in Live' /\ calls'[z] = calls[z]
    BY <1>1, <2>1
  <2> QED BY <1>3, <2>2, BackKept
<1>5. DOMAIN Back = Active /\ Back' = [g \in Active' |-> Back'[g]] /\ Back = [g \in Active |-> Back[g]]
  BY BackViewHolds, BackViewNext DEF BackView, Back
<1>6. Back' = Back
  <2> HIDE DEF Back
  <2> QED BY <1>3, <1>4, <1>5
<1> QED BY <1>3, <1>6

LEMMA QuietKeeps ==
  ASSUME FiberInv, TypeOK', Running' = Running, UNCHANGED <<stackVars, switchVars>>,
         Evolves, Kinds',
         \A x \in Exec : \A g \in F : g \in Uses(x)' => g \in Uses(x) \/ Usable(g),
         \A x \in Live : x # cpu => Uses(x) \subseteq Uses(x)',
         \A g \in F : state'[g] = "dropped" => state[g] = "dropped",
         \A x \in Heap' : state'[x] # "Dead" =>
             \/ (x \in Heap /\ state[x] # "Dead")
             \/ calls[x] = <<>> /\ \A g \in F : g \in Uses(x)' => state'[g] # "dropped"
  PROVE  FiberInv' /\ Back' = Back /\ cpu' = cpu /\ EachesKept
<1>1. Stacks /\ Control /\ Kinds /\ References
  BY DEF FiberInv
<1>2. /\ Stacks' /\ calls' = calls /\ \A x \in Exec : StackOf(x)' = StackOf(x)
  BY <1>1, QuietStep
<1>3. Live' = Live /\ \A x : Depth(x)' = Depth(x)
  BY <1>2 DEF Live, Depth
<1>4. ASSUME NEW x \in Live', NEW k \in 1 .. Depth(x)'
      PROVE  /\ Kept(x, k)
             /\ calls'[x][k].op = "each" => state'[calls[x][k].of] = "Running"
             /\ calls'[x][k].op = "resume" => Uses(x) \subseteq Uses(x)'
  <2>1. Kept(x, k)
    BY <1>2, <1>3 DEF Kept
  <2>2. ASSUME calls'[x][k].op = "each" PROVE state'[calls[x][k].of] = "Running"
    <3>1. OwnedFrom(x, k)
      BY <1>1, <1>2, <2>1, <2>2 DEF Kept, Control, Owners
    <3>2. calls[x][k].of \in F
      BY <1>1, <2>1, StackFacts, DepthFacts DEF Kept
    <3> QED BY <3>1, <3>2 DEF OwnedFrom, Owner, Running
  <2>3. ASSUME calls'[x][k].op = "resume" PROVE x # cpu
    BY <1>1, <1>2, <2>1, <2>3, InControlFacts DEF Kept
  <2> QED BY <1>3, <2>1, <2>2, <2>3
<1>5. ASSUME NEW x \in Heap', state'[x] # "Dead"
      PROVE  \/ (x \in Heap /\ state[x] # "Dead")
             \/ \A g \in F : Has(x, g)' => state'[g] # "dropped"
  <2>1. CASE calls[x] = <<>> /\ \A g \in F : g \in Uses(x)' => state'[g] # "dropped"
    <3>1. Depth(x)' = 0
      BY <1>2, <2>1 DEF Depth
    <3> QED BY <2>1, <3>1 DEF Has
  <2> QED BY <1>5, <2>1
<1>6. Owners' /\ References'
  <2> DEFINE D == {}
  <2>1. /\ D \in SUBSET F
        /\ \A g \in F : state'[g] = "dropped" => state[g] = "dropped" \/ g \in D
        /\ \A x \in {MAIN} \cup Heap', g \in D :
               x = MAIN \/ state'[x] # "Dead" => ~(Has(x, g) /\ Has(x, g)')
    OBVIOUS
  <2> HIDE DEF D
  <2>2. CallsOK /\ Owners
    BY <1>1 DEF Control
  <2> QED BY <1>1, <1>2, <1>4, <1>5, <2>1, <2>2, Carry
<1>7. \A g \in Active : kind'[g] = kind[g]
  BY DEF Active, Evolves
<1>8. Control'
  BY <1>1, <1>2, <1>6, <1>7, QuietControl
<1>9. FiberInv' /\ cpu' = cpu
  BY <1>2, <1>6, <1>8 DEF FiberInv, switchVars
<1>10. Back' = Back
  <2>1. /\ {} \in SUBSET F /\ {} \cap Active = {} /\ Running' = Running \ {}
        /\ \A x \in Exec \ ({} \cup {cpu}) : calls'[x] = calls[x]
    BY <1>2
  <2> QED BY <1>9, <2>1, DropMaps
<1>11. EachesKept
  BY <1>2, <1>3 DEF EachesKept
<1> QED BY <1>9, <1>10, <1>11


LEMMA NewKeeps ==
  ASSUME FiberInv, ~InnerFibers,
         NEW f \in F, NEW k \in {"Fiber", "Enum"}, NEW B \in SUBSET F, New(f, k, B)
  PROVE  FiberInv' /\ C!Create(f) /\ EachesKept
<1>1. /\ Typed /\ TypeOK /\ MAIN \notin F /\ Live = Running \cup {MAIN} /\ cpu \in Exec /\ cpu \in Live
      /\ Live \subseteq Exec /\ (cpu \in F => state[cpu] = "Running")
      /\ \A g \in F : g \in Uses(cpu) => g \in Known /\ state[g] # "dropped"
      /\ Stacks /\ Kinds /\ References
  BY Types, InControlFacts DEF FiberInv
<1>2. /\ state[f] = "none" /\ B \subseteq Uses(cpu)
      /\ hold' = [hold EXCEPT ![cpu] = @ \cup {f}]
      /\ kind' = [kind EXCEPT ![f] = k]
      /\ state' = [state EXCEPT ![f] = "Created"]
      /\ info' = [info EXCEPT ![f] = B]
      /\ UNCHANGED <<stackVars, switchVars>>
      /\ cpu \in F => kind[cpu] # "Inner"
  BY DEF New, Keep, MayKeep
<1>3. TypeOK'
  <2>1. Typed'
    BY <1>1, <1>2 DEF Typed
  <2> QED BY <1>1, <1>2, <2>1 DEF TypeOK, Typed, stackVars, switchVars
<1>4. Running' = Running
  BY <1>1, <1>2 DEF Running, Typed
<1>5. Evolves
  BY <1>1, <1>2 DEF Evolves, Typed
<1>6. kind[f] = "Fiber" /\ hold[f] = {} /\ f \notin Live /\ f # cpu /\ f \in Exec
  BY <1>1, <1>2 DEF Kinds, Running, Exec
<1>7. Kinds'
  <2>1. /\ k # "Inner"
        /\ \A g \in F \ {f} :
              kind'[g] = kind[g] /\ state'[g] = state[g] /\ (g # cpu => hold'[g] = hold[g])
    BY <1>1, <1>2 DEF Typed, Exec
  <2>2. cpu \in F => kind[cpu] # "Inner" /\ state[cpu] # "none"
    BY <1>1, <1>2
  <2>3. kind'[f] = k /\ state'[f] = "Created"
    BY <1>1, <1>2 DEF Typed
  <2> QED BY <1>1, <2>1, <2>2, <2>3 DEF Kinds
<1>8. Usable(f)
  BY <1>1, <1>2 DEF Usable, Known, Typed
<1>9. /\ Uses(f)' = B
      /\ \A x \in Exec \ {f} : Uses(x)' = IF x = cpu THEN Uses(x) \cup {f} ELSE Uses(x)
  <2>1. Uses(f)' = B
    BY <1>1, <1>2, <1>6 DEF Uses, Typed
  <2>2. ASSUME NEW x \in Exec \ {f} PROVE Uses(x)' = IF x = cpu THEN Uses(x) \cup {f} ELSE Uses(x)
    BY <1>1, <1>2 DEF Uses, Typed
  <2> QED BY <2>1, <2>2
<1>10. \A g \in B : Usable(g)
  BY <1>1, <1>2 DEF Usable, Known, Typed
<1>11. \A x \in Exec : \A g \in F : g \in Uses(x)' => g \in Uses(x) \/ Usable(g)
  BY <1>8, <1>9, <1>10
<1>12. \A x \in Live : x # cpu => Uses(x) \subseteq Uses(x)'
  BY <1>1, <1>6, <1>9
<1>13. \A g \in F : state'[g] = "dropped" => state[g] = "dropped"
  BY <1>1, <1>2 DEF Typed
<1>14. ASSUME NEW x \in Heap', state'[x] # "Dead"
       PROVE  \/ (x \in Heap /\ state[x] # "Dead")
              \/ calls[x] = <<>> /\ \A g \in F : g \in Uses(x)' => state'[g] # "dropped"
  <2>1. CASE x = f
    <3>1. calls[f] = <<>>
      BY <1>1, <1>6, StackFacts
    <3> QED BY <1>9, <1>10, <2>1, <3>1 DEF Usable
  <2>2. CASE x # f
    BY <1>1, <1>2, <1>14, <2>2 DEF Heap, Typed
  <2> QED BY <2>1, <2>2
<1>15. FiberInv' /\ Back' = Back /\ cpu' = cpu /\ EachesKept
  BY <1>2, <1>3, <1>4, <1>5, <1>7, <1>11, <1>12, <1>13, <1>14, QuietKeeps
<1>16. Phase[f] = "unborn" /\ Phase' = [Phase EXCEPT ![f] = "live"]
  BY <1>1, <1>2 DEF Phase, Typed
<1> QED BY <1>15, <1>16, MapsCreate

LEMMA PassKeeps ==
  ASSUME FiberInv, ~InnerFibers, NEW y \in Exec, NEW r \in F, Pass(y, r)
  PROVE  FiberInv' /\ UNCHANGED C!vars /\ EachesKept
<1>1. /\ Typed /\ TypeOK /\ MAIN \notin F /\ Live = Running \cup {MAIN} /\ cpu \in Exec /\ cpu \in Live
      /\ Live \subseteq Exec /\ (cpu \in F => state[cpu] = "Running")
      /\ \A g \in F : g \in Uses(cpu) => g \in Known /\ state[g] # "dropped"
      /\ Stacks /\ Kinds /\ References
  BY Types, InControlFacts DEF FiberInv
<1>2. /\ kind' = kind /\ state' = state /\ UNCHANGED <<stackVars, switchVars>> /\ y # cpu
      /\ \/ y = MAIN /\ hold' = [hold EXCEPT ![MAIN] = @ \cup {r}] /\ info' = info
         \/ y \in Heap /\ info' = [info EXCEPT ![y] = @ \cup {r}] /\ hold' = hold
  BY DEF Pass, Keep
<1>3. TypeOK'
  <2>1. Typed'
    BY <1>1, <1>2 DEF Typed, Heap, Exec
  <2> QED BY <1>1, <1>2, <2>1 DEF TypeOK, Typed, stackVars, switchVars
<1>4. Running' = Running /\ Heap' = Heap /\ Known' = Known
  BY <1>2 DEF Running, Heap, Known
<1>5. Evolves
  BY <1>1, <1>2 DEF Evolves, Typed, Heap
<1>6. Kinds'
  BY <1>1, <1>2 DEF Kinds, Typed, Exec
<1>7. Usable(r)
  <2>1. r \in Uses(cpu)
    BY DEF Pass
  <2> QED BY <1>1, <1>2, <1>4, <2>1 DEF Usable
<1>8. Uses(y)' = Uses(y) \cup {r} /\ \A x \in Exec \ {y} : Uses(x)' = Uses(x)
  BY <1>1, <1>2 DEF Uses, Typed, Heap, Exec
<1>9. \A x \in Exec : \A g \in F : g \in Uses(x)' => g \in Uses(x) \/ Usable(g)
  BY <1>7, <1>8
<1>10. \A x \in Live : x # cpu => Uses(x) \subseteq Uses(x)'
  BY <1>1, <1>8
<1>11. \A g \in F : state'[g] = "dropped" => state[g] = "dropped"
  BY <1>2
<1>12. \A x \in Heap' : state'[x] # "Dead" =>
           \/ (x \in Heap /\ state[x] # "Dead")
           \/ calls[x] = <<>> /\ \A g \in F : g \in Uses(x)' => state'[g] # "dropped"
  BY <1>2, <1>4
<1>13. FiberInv' /\ Back' = Back /\ cpu' = cpu /\ EachesKept
  BY <1>2, <1>3, <1>4, <1>5, <1>6, <1>9, <1>10, <1>11, <1>12, QuietKeeps
<1>14. Phase' = Phase
  BY <1>2 DEF Phase
<1> QED BY <1>13, <1>14, MapsStutter

(* A value is forgotten, or nothing changes.                               *)
LEMMA ForgetKeeps ==
  ASSUME FiberInv, NEW R \in SUBSET F,
         hold' = [hold EXCEPT ![cpu] = @ \ R],
         UNCHANGED <<kind, state, stackVars, switchVars, info>>
  PROVE  FiberInv' /\ UNCHANGED C!vars /\ EachesKept
<1>1. /\ Typed /\ TypeOK /\ MAIN \notin F /\ Live = Running \cup {MAIN} /\ cpu \in Exec /\ cpu \in Live
      /\ Live \subseteq Exec /\ Stacks /\ Kinds /\ References
  BY Types, InControlFacts DEF FiberInv
<1>2. TypeOK'
  <2>1. Typed'
    BY <1>1 DEF Typed
  <2> QED BY <1>1, <2>1 DEF TypeOK, Typed, stackVars, switchVars
<1>3. Running' = Running /\ Heap' = Heap
  BY DEF Running, Heap
<1>4. Evolves
  BY DEF Evolves
<1>5. Kinds'
  BY <1>1 DEF Kinds, Typed, Exec
<1>6. \A x \in Exec : Uses(x)' \subseteq Uses(x) /\ (x # cpu => Uses(x)' = Uses(x))
  BY <1>1 DEF Uses, Typed
<1>7. \A x \in Exec : \A g \in F : g \in Uses(x)' => g \in Uses(x) \/ Usable(g)
  BY <1>6
<1>8. \A x \in Live : x # cpu => Uses(x) \subseteq Uses(x)'
  BY <1>1, <1>6
<1>9. \A x \in Heap' : state'[x] # "Dead" =>
          \/ (x \in Heap /\ state[x] # "Dead")
          \/ calls[x] = <<>> /\ \A g \in F : g \in Uses(x)' => state'[g] # "dropped"
  BY <1>3
<1>10. FiberInv' /\ Back' = Back /\ cpu' = cpu /\ EachesKept
  BY <1>2, <1>3, <1>4, <1>5, <1>7, <1>8, <1>9, QuietKeeps
<1>11. Phase' = Phase
  BY DEF Phase
<1> QED BY <1>10, <1>11, MapsStutter


(* Control goes to f, for the call of resume or each that c makes.         *)
LEMMA EnterKeeps ==
  ASSUME FiberInv, Stacks', NEW c, c = cpu, NEW f, NEW P, Entered(f, P), f \notin Active,
         Evolves, Kinds', state' = [state EXCEPT ![f] = "Running"], hold' = hold,
         \A g \in F \ {f} : info'[g] = info[g],
         \A g \in Running \ {f} : kind'[g] = kind[g],
         \/ state[f] \in {"Created", "Running"} /\ info'[f] = info[f] /\ P = calls[c]
         \/ /\ state[f] = "none" /\ kind'[f] = "Inner" /\ \A g \in info'[f] : Usable(g)
            /\ \E e \in Uses(c) : e \in F /\ Owner(c, f, e)' /\ P = Append(calls[c], Frame("each", c, f, e)),
         kind'[f] = "Inner" => P # <<>> /\ P[Len(P)].op = "each" /\ P[Len(P)].of = f,
         f \in Uses(c) \/ kind'[f] = "Inner"
  PROVE  FiberInv' /\ C!Resume(f) /\ EachesKept
<1>1. /\ Typed /\ TypeOK /\ MAIN \notin F /\ Live = Running \cup {MAIN} /\ c \in Exec /\ c \in Live
      /\ Stacks /\ Kinds /\ References /\ Control /\ calls \in [Exec -> Seq(FrameSet)]
      /\ Live \subseteq Exec
  BY Types, InControlFacts, StackFacts DEF FiberInv
<1>2. /\ f \in F /\ f # c /\ P \in Seq(FrameSet) /\ calls'[c] = Append(P, Frame("resume", c, f, f))
  BY <1>1 DEF Entered
<1> DEFINE A == state[f] \in {"Created", "Running"} /\ info'[f] = info[f] /\ P = calls[c]
           B(e) == /\ state[f] = "none" /\ kind'[f] = "Inner" /\ \A g \in info'[f] : Usable(g)
                   /\ Owner(c, f, e)' /\ P = Append(calls[c], Frame("each", c, f, e))
<1>3. A \/ \E e \in F : B(e) /\ e \in Uses(c)
  OBVIOUS
<1>4. /\ Live' = Live \cup {f} /\ c \in Live' /\ f \in Live'
      /\ Depth(c)' = Len(P) + 1 /\ Len(P) \in Nat
      /\ calls'[c][Len(P) + 1] = Frame("resume", c, f, f)
      /\ \A x \in Live' : \A k \in 1 .. Depth(x)' :
                \/ x \in Live /\ k \in 1 .. Depth(x) /\ calls'[x][k] = calls[x][k]
                \/ x = c /\ k = Len(P) + 1
                \/ /\ x = c /\ k = Len(P) /\ f \notin Running
                   /\ calls'[x][k].op = "each" /\ calls'[x][k].of = f /\ calls'[x][k].vm = c
  <2>1. \/ P = calls[c]
        \/ f \notin Running /\ \E e \in F : P = Append(calls[c], Frame("each", c, f, e))
    BY <1>3 DEF Running
  <2> QED BY <1>1, <2>1, EnterCalls
<1>5. \A x \in Exec : /\ x # f \/ A => Uses(x)' = Uses(x)
                      /\ x = f /\ ~A => Uses(x)' = info'[f]
  BY <1>1, <1>2, <1>3 DEF Uses, Kinds
<1>6. f \in Live => A
  BY <1>1, <1>2, <1>3 DEF Running
<1>7. \A x \in Live : Uses(x)' = Uses(x)
  BY <1>1, <1>5, <1>6
<1>8. ASSUME NEW k \in 1 .. Len(P), k \in 1 .. Depth(c)' PROVE calls'[c][k] = P[k]
  BY <1>1, <1>2, FrameFacts
<1>9. ASSUME NEW x \in Live', NEW k \in 1 .. Depth(x)', calls'[x][k].op = "each"
      PROVE  \/ Kept(x, k) /\ state'[calls[x][k].of] = "Running"
             \/ OwnedFrom(x, k)' /\ calls'[x][k].self \in Uses(x)'
  <2>1. CASE Kept(x, k)
    <3>1. OwnedFrom(x, k)
      BY <1>1, <1>9, <2>1 DEF Kept, Control, Owners
    <3>2. calls[x][k].of \in F
      BY <1>1, <2>1, DepthFacts DEF Kept
    <3>3. state[calls[x][k].of] = "Running"
      BY <3>1 DEF OwnedFrom, Owner
    <3> QED BY <1>1, <2>1, <3>2, <3>3 DEF Typed
  <2>2. CASE x = c /\ k = Len(P) + 1
    BY <1>4, <1>9, <2>2, FrameFacts, <1>1, <1>2
  <2>3. CASE /\ x = c /\ k = Len(P) /\ calls'[x][k].of = f
    <3>1. calls'[c][k] = P[k]
      BY <1>4, <1>8, <2>3
    <3>2. CASE A
      BY <1>1, <1>4, <2>1, <2>3, <3>1, <3>2 DEF Kept, Depth
    <3>3. ASSUME NEW e \in F, B(e), e \in Uses(c)
          PROVE  OwnedFrom(x, k)' /\ calls'[x][k].self \in Uses(x)'
      <4>1. Frame("each", c, f, e) \in FrameSet /\ Frame("each", c, f, e).self = e
        BY <1>1, <1>2, FrameFacts
      <4>2. calls[c] \in Seq(FrameSet) /\ P = Append(calls[c], Frame("each", c, f, e))
        BY <1>1, <3>3
      <4>3. P[Len(P)] = Frame("each", c, f, e)
        BY <4>1, <4>2, AppendFacts
      <4>4. calls'[x][k].of = f /\ calls'[x][k].self = e
        BY <2>3, <3>1, <4>1, <4>3
      <4>5. Owner(x, f, e)'
        BY <2>3, <3>3
      <4>6. OwnedFrom(x, k)'
        BY <4>4, <4>5, OwnedAfter
      <4> QED BY <1>1, <1>7, <2>3, <3>3, <4>4, <4>6
    <3> QED BY <1>3, <3>2, <3>3
  <2> QED BY <1>4, <2>1, <2>2, <2>3 DEF Kept
<1>10. ASSUME NEW x \in Live', NEW k \in 1 .. Depth(x)', calls'[x][k].op = "resume"
       PROVE  \/ Kept(x, k) /\ Uses(x) \subseteq Uses(x)'
              \/ calls'[x][k].of \in Uses(x)' \/ kind'[calls'[x][k].of] = "Inner"
  <2>1. CASE Kept(x, k)
    BY <1>7, <2>1 DEF Kept
  <2>2. CASE x = c /\ k = Len(P) + 1
    <3>1. calls'[x][k].of = f
      BY <1>1, <1>2, <1>4, <2>2, FrameFacts
    <3> QED BY <1>1, <1>7, <2>2, <3>1
  <2> QED BY <1>4, <1>10, <2>1, <2>2 DEF Kept
<1>11. \A x \in Exec : \A g \in F : g \in Uses(x)' => g \in Uses(x) \/ Usable(g)
  BY <1>3, <1>5
<1>12. ASSUME NEW x \in Heap', state'[x] # "Dead" PROVE x \in Heap /\ state[x] # "Dead"
  <2>1. CASE x = f
    BY <1>1, <1>2, <1>3, <1>12, <2>1 DEF Heap, Evolves
  <2>2. CASE x # f
    BY <1>1, <1>2, <1>12, <2>2 DEF Heap, Evolves, Typed
  <2> QED BY <2>1, <2>2
<1>13. Owners' /\ References'
  <2> DEFINE D == {}
  <2>1. /\ D \in SUBSET F
        /\ \A g \in F : state'[g] = "dropped" => state[g] = "dropped" \/ g \in D
        /\ \A x \in {MAIN} \cup Heap', g \in D :
               x = MAIN \/ state'[x] # "Dead" => ~(Has(x, g) /\ Has(x, g)')
    BY <1>1, <1>2 DEF Typed
  <2> HIDE DEF D
  <2>2. CallsOK /\ Owners
    BY <1>1 DEF Control
  <2>3. \A x \in Heap' : state'[x] # "Dead" =>
            \/ (x \in Heap /\ state[x] # "Dead")
            \/ \A g \in F : Has(x, g)' => state'[g] # "dropped"
    BY <1>12
  <2> QED BY <1>1, <1>9, <1>10, <1>11, <2>1, <2>2, <2>3, Carry
<1>14. Control'
  <2>1. \/ P = calls[c]
        \/ f \notin Running /\ \E e \in F : P = Append(calls[c], Frame("each", c, f, e))
    BY <1>3 DEF Running
  <2> QED BY <1>1, <1>13, <2>1, EnterControl
<1>15. FiberInv'
  BY <1>13, <1>14 DEF FiberInv
<1>16. C!Resume(f)
  BY <1>15, EnterMaps
<1>17. EachesKept
  <2> SUFFICES ASSUME NEW x \in Exec, NEW k \in 1 .. Depth(x), calls[x][k].op = "each"
               PROVE  k \in 1 .. Depth(x)' /\ calls'[x][k] = calls[x][k]
    BY DEF EachesKept
  <2>1. /\ calls[x] \in Seq(FrameSet) /\ k \in 1 .. Len(calls[x]) /\ x \in Live
        /\ Depth(x)' = Len(calls'[x])
    BY <1>1, StackFacts DEF Depth
  <2>2. CASE x = c
    <3>1. k \in 1 .. Len(P) /\ P[k] = calls[c][k]
      <4>1. CASE A
        BY <2>1, <2>2, <4>1
      <4>2. ASSUME NEW e \in F, B(e) PROVE k \in 1 .. Len(P) /\ P[k] = calls[c][k]
        <5>1. Frame("each", c, f, e) \in FrameSet
          BY <1>1, <1>2, FrameFacts
        <5>2. calls[c] \in Seq(FrameSet) /\ k \in 1 .. Len(calls[c])
          BY <2>1, <2>2
        <5> DEFINE one == Frame("each", c, f, e)
        <5> HIDE DEF one
        <5>3. P = Append(calls[c], one)
          BY <4>2 DEF one
        <5> QED BY <5>1, <5>2, <5>3 DEF one
      <4> QED BY <1>3, <4>1, <4>2
    <3>2. k \in 1 .. Depth(c)'
      BY <1>4, <3>1
    <3> QED BY <1>8, <2>2, <3>1, <3>2
  <2>3. CASE x = f
    <3>1. x \in Running /\ Ends(f, "yield")
      BY <1>1, <1>2, <2>1, <2>3, ActiveFacts DEF Live
    <3>2. /\ k # Depth(f) /\ Depth(f) = Len(calls[f])
          /\ calls'[f] = Cut(calls[f], Depth(f) - 1)
      BY <2>3, <3>1 DEF Ends, Depth, Entered
    <3>3. Depth(f) - 1 \in 0 .. Len(calls[f]) /\ k \in 1 .. Depth(f) - 1
      BY <2>1, <2>3, <3>2
    <3>4. Len(calls'[f]) = Depth(f) - 1 /\ calls'[f][k] = calls[f][k]
      <4> PICK n : n = Depth(f) - 1
        OBVIOUS
      <4>1. calls[f] \in Seq(FrameSet) /\ n \in 0 .. Len(calls[f]) /\ k \in 1 .. n
        BY <2>1, <2>3, <3>3
      <4>2. Len(Cut(calls[f], n)) = n /\ Cut(calls[f], n)[k] = calls[f][k]
        BY <4>1, CutFacts
      <4> QED BY <3>2, <4>2
    <3> QED BY <2>1, <2>3, <3>3, <3>4
  <2>4. CASE x # c /\ x # f
    BY <1>1, <2>1, <2>4 DEF Entered
  <2> QED BY <2>2, <2>3, <2>4
<1> QED BY <1>15, <1>16, <1>17


LEMMA ResumeKeeps ==
  ASSUME FiberInv, ~NextAndEach, ~Reenter, NEW f \in F, Resume(f)
  PROVE  FiberInv' /\ C!Resume(f) /\ EachesKept
<1>1. /\ Typed /\ TypeOK /\ MAIN \notin F /\ cpu \in Exec /\ cpu \in Live /\ Live \subseteq Exec
      /\ Stacks /\ Kinds /\ References /\ Control /\ calls \in [Exec -> Seq(FrameSet)]
      /\ calls[cpu] = frames[StackOf(cpu)] /\ frames \in [Places -> Seq(FrameSet)]
  BY Types, InControlFacts, StackFacts DEF FiberInv, TypeOK, Places
<1>2. /\ f \in Uses(cpu) /\ f \in Heap /\ kind[f] = "Fiber"
      /\ state' = [state EXCEPT ![f] = "Running"] /\ kind' = kind /\ info' = info /\ hold' = hold
      /\ \/ state[f] = "Created" /\ Invoke(f, frames)
         \/ state[f] = "Running" /\ Switch(f, frames)
  BY <1>1 DEF Resume, Heap, Typed
<1>3. Typed' /\ Evolves /\ Kinds'
  <2>1. Typed'
    BY <1>1, <1>2 DEF Typed
  <2>2. Evolves
    BY <1>1, <1>2 DEF Typed, Evolves, Heap
  <2>3. Kinds'
    BY <1>1, <1>2 DEF Typed, Kinds, Heap
  <2> QED BY <2>1, <2>2, <2>3
<1>4. Stacks' /\ Entered(f, calls[cpu]) /\ f \notin Active /\ state[f] \in {"Created", "Running"}
  <2>1. CASE state[f] = "Created" /\ Invoke(f, frames)
    <3>1. Stacks' /\ Entered(f, frames[StackOf(cpu)])
      BY <1>1, <1>2, <1>3, <2>1, InvokeStep
    <3> QED BY <1>1, <2>1, <3>1 DEF Active
  <2>2. CASE state[f] = "Running" /\ Switch(f, frames)
    <3>1. state' = state
      BY <1>1, <1>2, <2>2 DEF Typed
    <3>2. Stacks' /\ Entered(f, calls[cpu])
      BY <1>1, <1>3, <2>2, <3>1, SwitchStep DEF Control
    <3> QED BY <2>2, <3>2 DEF Switch, Active
  <2> QED BY <1>2, <2>1, <2>2
<1>5. kind'[f] # "Inner" /\ (\A g \in F \ {f} : info'[g] = info[g]) /\ info'[f] = info[f]
      /\ \A g \in Running \ {f} : kind'[g] = kind[g]
  BY <1>2
<1> QED BY <1>2, <1>3, <1>4, <1>5, EnterKeeps

(* The call of each that the execution in control is in.                   *)
LEMMA EachFacts ==
  ASSUME FiberInv, NEW f \in F, Waits(cpu, "each"), Top(cpu).of = f
  PROVE  /\ calls[cpu] # <<>> /\ Depth(cpu) \in 1 .. Depth(cpu) /\ EachCall(cpu, Depth(cpu), f)
         /\ kind[f] = "Inner" /\ state[f] = "Running" /\ f \notin Active
<1>1. /\ Stacks /\ Control /\ cpu \in Exec /\ cpu \in Live /\ calls \in [Exec -> Seq(FrameSet)]
  BY InControlFacts, StackFacts DEF FiberInv
<1>2. calls[cpu] # <<>> /\ calls[cpu][Depth(cpu)].op = "each" /\ calls[cpu][Depth(cpu)].of = f
  BY <1>1 DEF Waits, Top, Last, calls, Depth
<1>3. Depth(cpu) \in 1 .. Depth(cpu) /\ Depth(cpu) \in Nat
  BY <1>1, <1>2, DepthFacts
<1>4. OwnedFrom(cpu, Depth(cpu)) /\ EachCall(cpu, Depth(cpu), f)
  BY <1>1, <1>2, <1>3 DEF Control, Owners, EachCall
<1>5. kind[f] = "Inner" /\ state[f] = "Running"
  BY <1>2, <1>4 DEF OwnedFrom, Owner
<1>6. ASSUME f \in Active PROVE FALSE
  <2>1. PICK y \in Live : EachCall(y, Depth(y) - 1, f)
    BY <1>1, <1>5, <1>6 DEF Control, Resumed
  <2> DEFINE k == Depth(y) - 1
  <2>2. k \in 1 .. Depth(y) /\ EachCall(y, k, f)
    BY <2>1 DEF EachCall
  <2>3. k # Depth(y)
    <3>1. Depth(y) \in Nat
      BY <1>1, StackFacts, DepthFacts
    <3> QED BY <3>1
  <2> HIDE DEF k
  <2>4. y = cpu /\ k = Depth(cpu)
    BY <1>1, <1>3, <1>4, <2>2 DEF Control, OneEach
  <2> QED BY <2>3, <2>4
<1> QED BY <1>2, <1>3, <1>4, <1>5, <1>6

LEMMA EachNextKeeps ==
  ASSUME FiberInv, ~Reenter, NEW f \in F, EachNext(f)
  PROVE  FiberInv' /\ C!Resume(f) /\ EachesKept
<1>1. /\ Typed /\ TypeOK /\ MAIN \notin F /\ cpu \in Exec /\ cpu \in Live /\ Live \subseteq Exec
      /\ Stacks /\ Kinds /\ References /\ Control
  BY Types, InControlFacts DEF FiberInv
<1>2. /\ calls[cpu] # <<>> /\ EachCall(cpu, Depth(cpu), f) /\ f \notin Active
      /\ kind[f] = "Inner" /\ state[f] = "Running"
      /\ Switch(f, frames) /\ state' = state /\ kind' = kind /\ info' = info /\ hold' = hold
  BY EachFacts DEF EachNext
<1>3. Typed' /\ Evolves /\ Kinds' /\ state' = [state EXCEPT ![f] = "Running"]
  BY <1>1, <1>2 DEF Typed, Evolves, Kinds
<1>4. Stacks' /\ Entered(f, calls[cpu])
  BY <1>1, <1>2, <1>3, SwitchStep DEF Control
<1>5. /\ calls[cpu][Len(calls[cpu])].op = "each" /\ calls[cpu][Len(calls[cpu])].of = f
      /\ kind'[f] = "Inner" /\ info'[f] = info[f] /\ state[f] \in {"Created", "Running"}
      /\ \A g \in F \ {f} : info'[g] = info[g]
      /\ \A g \in Running \ {f} : kind'[g] = kind[g]
  BY <1>2 DEF EachCall, Depth
<1> QED BY <1>2, <1>3, <1>4, <1>5, EnterKeeps

LEMMA EachStartKeeps ==
  ASSUME FiberInv, NEW e \in F, NEW f \in F, EachStart(e, f)
  PROVE  FiberInv' /\ C!Resume(f) /\ EachesKept
<1>1. /\ Typed /\ TypeOK /\ MAIN \notin F /\ cpu \in Exec /\ cpu \in Live /\ Live \subseteq Exec
      /\ Stacks /\ Kinds /\ References /\ Control /\ calls \in [Exec -> Seq(FrameSet)]
      /\ calls[cpu] = frames[StackOf(cpu)] /\ frames \in [Places -> Seq(FrameSet)]
      /\ StackOf(cpu) \in Places
      /\ \A g \in F : Has(cpu, g) => g \in Known /\ state[g] # "dropped"
      /\ Live = Running \cup {MAIN}
  BY Types, InControlFacts, StackFacts DEF FiberInv, TypeOK, Places
<1> DEFINE one == Frame("each", cpu, f, e)
           fr == Push(frames, cpu, one)
           P == Append(calls[cpu], one)
<1>2. /\ e \in Uses(cpu) /\ e \in Heap /\ kind[e] = "Enum" /\ state[f] = "none"
      /\ kind' = [kind EXCEPT ![f] = "Inner"]
      /\ state' = [state EXCEPT ![f] = "Running"]
      /\ info' = [info EXCEPT ![f] = info[e]] /\ hold' = hold
      /\ Invoke(f, fr)
  BY DEF EachStart
<1>3. e # f /\ hold[f] = {} /\ state[e] = "Created" /\ f # cpu /\ f \notin Live
  <2>1. kind[f] = "Fiber" /\ hold[f] = {}
    BY <1>1, <1>2 DEF Kinds
  <2>2. state[e] = "Created"
    BY <1>2 DEF Heap, FiberInv, Kinds
  <2>3. f \notin Live
    BY <1>1, <1>2 DEF Running
  <2> QED BY <1>1, <1>2, <2>1, <2>2, <2>3
<1>4. Typed' /\ Evolves /\ Kinds'
  <2>1. Typed'
    BY <1>1, <1>2 DEF Typed
  <2>2. Evolves
    BY <1>1, <1>2 DEF Typed, Evolves
  <2>3. \A g \in F \ {f} : kind'[g] = kind[g] /\ state'[g] = state[g]
    BY <1>1, <1>2 DEF Typed
  <2>4. kind'[f] = "Inner" /\ state'[f] = "Running"
    BY <1>1, <1>2 DEF Typed
  <2>5. Kinds'
    BY <1>1, <1>2, <1>3, <2>3, <2>4 DEF Kinds
  <2> QED BY <2>1, <2>2, <2>5
<1>5. one \in FrameSet /\ one.op = "each" /\ one.of = f
  BY <1>1, FrameFacts
<1>6. /\ fr \in [Places -> Seq(FrameSet)] /\ fr[StackOf(cpu)] = P
      /\ \A t \in Places \ {StackOf(cpu)} : fr[t] = frames[t]
  <2> HIDE DEF one
  <2> QED BY <1>1, <1>5 DEF Push
<1>7. P # <<>> /\ P[Len(P)] = one
  <2>1. calls[cpu] \in Seq(FrameSet)
    BY <1>1
  <2> HIDE DEF one
  <2> QED BY <1>5, <2>1, AppendFacts
<1>8. Stacks' /\ Entered(f, P)
  <2> HIDE DEF one, fr, P
  <2>1. state[f] # "Running"
    BY <1>2
  <2> QED BY <1>1, <1>2, <1>4, <1>6, <2>1, InvokeStep
<1>9. \A g \in info'[f] : Usable(g)
  <2> SUFFICES ASSUME NEW g \in info[e] PROVE Usable(g)
    BY <1>1, <1>2 DEF Typed
  <2>1. g \in F /\ Has(e, g)
    BY <1>1 DEF Typed, Has, Uses
  <2>2. Sound(e) /\ e \in Exec
    BY <1>1, <1>2, <1>3 DEF References, Exec
  <2>3. g \in Known /\ state[g] # "dropped"
    BY <1>1, <2>1, <2>2 DEF References, Sound
  <2>4. g # f
    BY <1>2, <2>3 DEF Known
  <2> QED BY <1>1, <1>2, <2>1, <2>3, <2>4 DEF Usable, Known, Typed
<1>10. PICK c : c = cpu
  OBVIOUS
<1>11. Owner(c, f, e)'
  <2>1. kind'[f] = "Inner" /\ state'[f] = "Running" /\ kind'[e] = "Enum" /\ info'[f] = info'[e]
    BY <1>1, <1>2, <1>3 DEF Typed
  <2>2. ASSUME c \in F, kind'[c] = "Inner" PROVE e \in info'[c]
    <3>1. kind[c] = "Inner" /\ hold[c] = {} /\ info'[c] = info[c]
      BY <1>1, <1>2, <1>3, <1>10, <2>2 DEF Kinds, Typed
    <3> QED BY <1>2, <1>10, <2>2, <3>1 DEF Uses
  <2> QED BY <2>1, <2>2 DEF Owner
<1>12. /\ kind'[f] = "Inner" /\ f \notin Active
       /\ \A g \in F \ {f} : info'[g] = info[g]
       /\ \A g \in Running \ {f} : kind'[g] = kind[g]
  BY <1>1, <1>2 DEF Typed, Active, Running
<1>13. P # <<>> /\ P[Len(P)].op = "each" /\ P[Len(P)].of = f
  BY <1>5, <1>7
<1>14. \E x \in Uses(c) : x \in F /\ Owner(c, f, x)' /\ P = Append(calls[c], Frame("each", c, f, x))
  BY <1>2, <1>10, <1>11
<1> HIDE DEF P
<1> QED BY <1>2, <1>4, <1>8, <1>9, <1>10, <1>12, <1>13, <1>14, EnterKeeps


LEMMA LeaveMaps ==
  ASSUME FiberInv, FiberInv', NEW f, f = cpu, NEW y, NEW extra, Left(y, extra),
         \A g \in F \ {f} : state'[g] = state[g],
         \/ /\ Running' = Running /\ state'[f] = state[f]
            /\ calls'[f] = Append(calls[f], Frame("yield", f, f, f))
         \/ Running' = Running \ {f} /\ state'[f] \in {"Dead", "dropped"}
  PROVE  C!Yield \/ C!End
<1>1. /\ f \in F /\ f \in Active /\ y \in Live /\ y # f /\ Resumes(y, f) /\ cpu' = y
      /\ \A x \in Exec \ {f, y} : calls'[x] = calls[x]
      /\ Live = Running \cup {MAIN} /\ Live \subseteq Exec /\ MAIN \notin F
      /\ Live' = Running' \cup {MAIN} /\ Stacks
      /\ calls \in [Exec -> Seq(FrameSet)]
  BY Types, StackFacts DEF Left, Live, FiberInv
<1>2. \A g \in F \ {f} : calls'[g] = calls[g] \/ g = y
  BY <1>1 DEF Exec
<1>3. \A z \in Live : \A g \in Active \ {f} : Resumes(z, g) => z # f /\ z # y
  <2> SUFFICES ASSUME NEW z \in Live, NEW g \in Active \ {f}, Resumes(z, g) PROVE z # f /\ z # y
    OBVIOUS
  <2>1. z # f
    BY BackViewHolds DEF BackView, Resumes
  <2>2. z # y
    BY <1>1 DEF Resumes
  <2> QED BY <2>1, <2>2
<1>4. Active' = Active \ {f}
  <2>1. Active = {x \in Running : ~Ends(x, "yield")} /\ Active' = {x \in Running' : ~Ends(x, "yield")'}
    BY BackViewNext, StackViewHolds, <1>1 DEF StackView
  <2>2. f \notin Active'
    <3>1. CASE calls'[f] = Append(calls[f], Frame("yield", f, f, f))
      <4>1. /\ Frame("yield", f, f, f) \in FrameSet /\ calls[f] \in Seq(FrameSet)
            /\ Frame("yield", f, f, f).op = "yield"
        BY <1>1, FrameFacts DEF Exec
      <4>2. calls'[f] # <<>> /\ calls'[f][Len(calls'[f])].op = "yield"
        BY <3>1, <4>1, AppendFacts
      <4> QED BY <2>1, <4>2 DEF Ends, Depth
    <3>2. CASE Running' = Running \ {f}
      BY <2>1, <3>2
    <3> QED BY <3>1, <3>2
  <2>3. ASSUME NEW x \in F, x # f PROVE x \in Active' <=> x \in Active
    <3>1. CASE x = y
      <4>1. x \in Active
        BY <1>1, <2>1, <2>3, <3>1 DEF Resumes, Ends
      <4>2. x \in Active'
        BY <1>1, <2>3, <3>1, BackViewNext
      <4> QED BY <4>1, <4>2
    <3>2. CASE x # y
      <4>1. calls'[x] = calls[x] /\ (x \in Running' <=> x \in Running)
        BY <1>1, <1>2, <2>3, <3>2
      <4> QED BY <4>1, ActiveNext
    <3> QED BY <3>1, <3>2
  <2>4. Active \subseteq F /\ Active' \subseteq F
    BY <2>1 DEF Running
  <2> QED BY <2>2, <2>3, <2>4
<1>5. ASSUME NEW g \in Active \ {f} PROVE Back'[g] = Back[g]
  <2>1. \A z \in Live : Resumes(z, g) => z \in Live' /\ calls'[z] = calls[z]
    BY <1>1, <1>3
  <2> QED BY <1>4, <2>1, BackKept
<1>6. DOMAIN Back = Active /\ Back' = [g \in Active' |-> Back'[g]] /\ Back[f] = y
  BY <1>1, BackViewHolds, BackViewNext DEF BackView
<1>7. Back' = [g \in DOMAIN Back \ {cpu} |-> Back[g]]
  <2> HIDE DEF Back
  <2> QED BY <1>4, <1>5, <1>6
<1>8. Phase' = Phase \/ Phase' = [Phase EXCEPT ![f] = "over"]
  <2>1. CASE state'[f] = state[f]
    <3>1. \A g \in F : state'[g] = state[g]
      BY <2>1
    <3> QED BY <3>1 DEF Phase
  <2>2. CASE state'[f] \in {"Dead", "dropped"}
    BY <1>1, <2>2 DEF Phase
  <2> QED BY <2>1, <2>2
<1> QED BY <1>1, <1>6, <1>7, <1>8, MapsLeave

(* Control goes back to y; it is given the fibers in V.                    *)
LEMMA LeaveKeeps ==
  ASSUME FiberInv, Stacks', NEW f, f = cpu, NEW y, NEW extra, Left(y, extra),
         Evolves, Kinds', kind' = kind, NEW V \in SUBSET F, V \subseteq Uses(f),
         \A g \in F \ {f} : state'[g] = state[g],
         \/ /\ extra = 0 /\ Running' = Running /\ rsp'[f] = Depth(f) + 1 /\ state'[f] = state[f]
            /\ calls'[f] = Append(calls[f], Frame("yield", f, f, f))
         \/ /\ Running' = Running \ {f} /\ calls[f] = <<>>
            /\ IF kind[f] = "Inner" THEN extra = 1 /\ state'[f] = "dropped" ELSE state'[f] = "Dead",
         \A x \in Exec : Uses(x)' \subseteq Uses(x) \cup V,
         \A x \in Live \ {f} : Uses(x) \subseteq Uses(x)'
  PROVE  FiberInv' /\ (C!Yield \/ C!End) /\ EachesKept
<1>1. /\ Typed /\ TypeOK /\ MAIN \notin F /\ Live = Running \cup {MAIN} /\ f \in Exec /\ f \in Live
      /\ Stacks /\ Kinds /\ References /\ Control /\ calls \in [Exec -> Seq(FrameSet)]
      /\ Live \subseteq Exec
      /\ calls' \in [Exec -> Seq(FrameSet)]
      /\ \A x \in Exec \ Live' : calls'[x] = <<>>
      /\ \A g \in Uses(f) : g \in F => g \in Known /\ state[g] # "dropped"
      /\ \A k \in 1 .. Depth(f) : calls[f][k].op = "each"
  BY Types, InControlFacts, StackFacts, StackFactsNext DEF FiberInv
<1>2. /\ f \in F /\ y \in Live /\ y # f /\ Resumes(y, f) /\ extra \in {0, 1}
      /\ kind[f] = "Inner" => EachCall(y, Depth(y) - 1, f)
      /\ calls'[y] = Cut(calls[y], Depth(y) - extra - 1)
      /\ \A x \in Exec \ {f, y} : calls'[x] = calls[x]
  BY <1>1 DEF Left
<1> DEFINE Stays == /\ extra = 0 /\ Running' = Running /\ state'[f] = state[f]
                    /\ calls'[f] = Append(calls[f], Frame("yield", f, f, f))
           Ends1 == /\ Running' = Running \ {f} /\ calls[f] = <<>>
                    /\ IF kind[f] = "Inner" THEN extra = 1 /\ state'[f] = "dropped" ELSE state'[f] = "Dead"
           n == Depth(y) - extra - 1
<1>3. Stays \/ Ends1
  OBVIOUS
<1>4. state[f] = "Running"
  BY <1>1, <1>2 DEF Running
<1>5. \A x : Depth(x) = Len(calls[x]) /\ Depth(x)' = Len(calls'[x])
  BY DEF Depth
<1>6. n \in 0 .. Len(calls[y]) /\ calls[y] \in Seq(FrameSet)
  <2>1. Depth(y) \in Nat /\ Depth(y) # 0 /\ calls[y] \in Seq(FrameSet)
    BY <1>1, <1>2, DepthFacts DEF Resumes, Ends
  <2>2. kind[f] = "Inner" => Depth(y) - 1 \in 1 .. Depth(y)
    BY <1>2 DEF EachCall
  <2>3. extra = 1 => kind[f] = "Inner"
    BY DEF Left
  <2> QED BY <1>2, <1>5, <2>1, <2>2, <2>3
<1>7. \A k \in 1 .. Depth(y)' : Kept(y, k) /\ k <= n
  <2> HIDE DEF n
  <2>1. calls'[y] = Cut(calls[y], n)
    BY <1>2 DEF n
  <2>2. Len(calls'[y]) = n /\ \A k \in 1 .. n : k \in 1 .. Len(calls[y]) /\ calls'[y][k] = calls[y][k]
    BY <1>6, <2>1, CutFacts
  <2> QED BY <1>2, <1>5, <1>6, <2>2 DEF Kept
<1>8. ASSUME NEW x \in Live', NEW k \in 1 .. Depth(x)' PROVE Kept(x, k) \/ (x = f /\ calls'[x][k].op = "yield")
  <2>1. CASE x = y
    BY <1>7, <2>1
  <2>2. CASE x = f
    <3>1. Stays
      BY <1>1, <1>2, <1>3, <2>2 DEF Live
    <3> DEFINE one == Frame("yield", f, f, f)
    <3>2. calls[f] \in Seq(FrameSet) /\ one \in FrameSet /\ one.op = "yield" /\ calls'[f] = Append(calls[f], one)
      BY <1>1, <1>2, <3>1, FrameFacts
    <3> HIDE DEF one
    <3>3. k \in 1 .. Len(calls[f]) + 1
      BY <1>5, <2>2, <3>2
    <3>4. k \in 1 .. Len(calls[f]) => calls'[f][k] = calls[f][k]
      BY <3>2
    <3>5. k = Len(calls[f]) + 1 => calls'[f][k] = one
      BY <3>2
    <3>6. k \in 1 .. Len(calls[f]) \/ k = Len(calls[f]) + 1
      BY <3>2, <3>3
    <3> QED BY <1>1, <1>5, <2>2, <3>2, <3>4, <3>5, <3>6 DEF Kept
  <2>3. CASE x # f /\ x # y
    <3>1. x \in Live
      BY <1>1, <1>3, <2>3 DEF Live
    <3> QED BY <1>1, <1>2, <1>5, <2>3, <3>1 DEF Kept
  <2> QED BY <2>1, <2>2, <2>3
<1>9. ASSUME NEW x \in Live', NEW k \in 1 .. Depth(x)', calls'[x][k].op = "each"
      PROVE  Kept(x, k) /\ state'[calls[x][k].of] = "Running"
  <2>1. Kept(x, k)
    BY <1>8, <1>9
  <2>2. PICK g \in F : g = calls[x][k].of
    BY <1>1, <2>1, DepthFacts DEF Kept
  <2>3. OwnedFrom(x, k) /\ EachCall(x, k, g)
    BY <1>1, <1>9, <2>1, <2>2 DEF Kept, Control, Owners, EachCall
  <2>4. state[g] = "Running" /\ kind[g] = "Inner"
    BY <2>2, <2>3 DEF OwnedFrom, Owner
  <2>5. CASE g # f
    BY <2>1, <2>2, <2>4, <2>5
  <2>6. CASE Stays
    BY <2>1, <2>2, <2>4, <2>6
  <2>7. CASE g = f /\ Ends1
    <3>1. EachCall(y, Depth(y) - 1, f) /\ extra = 1
      BY <1>2, <2>4, <2>7
    <3> DEFINE j == Depth(y) - 1
    <3>2. j \in 1 .. Depth(y) /\ EachCall(y, j, f) /\ ~(j <= n)
      <4>1. j \in 1 .. Depth(y)
        BY <3>1 DEF EachCall
      <4> QED BY <1>5, <1>6, <3>1, <4>1
    <3> HIDE DEF j
    <3>3. x = y /\ k = j
      BY <1>1, <1>2, <2>1, <2>3, <2>7, <3>2 DEF Control, OneEach, Kept
    <3> QED BY <1>7, <3>2, <3>3
  <2> QED BY <1>3, <2>5, <2>6, <2>7
<1>10. ASSUME NEW x \in Live', NEW k \in 1 .. Depth(x)', calls'[x][k].op = "resume"
       PROVE  Kept(x, k) /\ Uses(x) \subseteq Uses(x)'
  <2>1. Kept(x, k)
    BY <1>8, <1>10
  <2>2. x # f
    BY <1>1, <1>10, <2>1 DEF Kept
  <2> QED BY <2>1, <2>2 DEF Kept
<1>11. \A g \in V : Usable(g)
  <2> SUFFICES ASSUME NEW g \in V PROVE Usable(g)
    OBVIOUS
  <2>1. g \in Known /\ state[g] # "dropped"
    BY <1>1
  <2>2. CASE g # f
    BY <2>1, <2>2 DEF Usable, Known
  <2>3. CASE g = f
    BY <1>3, <1>4, <2>1, <2>3 DEF Usable, Known
  <2> QED BY <2>2, <2>3
<1>12. \A x \in Exec : \A g \in F : g \in Uses(x)' => g \in Uses(x) \/ Usable(g)
  BY <1>11
<1>13. \A x \in Heap' : state'[x] # "Dead" =>
           \/ (x \in Heap /\ state[x] # "Dead")
           \/ \A g \in F : Has(x, g)' => state'[g] # "dropped"
  BY <1>3, <1>4 DEF Heap
<1>14. Owners' /\ References'
  <2> DEFINE D == {g \in {f} : state'[g] = "dropped"}
  <2>1. D \in SUBSET F /\ \A g \in F : state'[g] = "dropped" => state[g] = "dropped" \/ g \in D
    BY <1>2
  <2>2. ASSUME NEW x \in {MAIN} \cup Heap', NEW g \in D, Has(x, g) PROVE FALSE
    <3>1. kind[f] = "Inner" /\ g = f
      BY <1>3, <1>4
    <3>2. x \in Exec
      BY DEF Exec, Heap
    <3> QED BY <1>1, <1>2, <2>2, <3>1, <3>2 DEF References, Known
  <2>3. \A x \in {MAIN} \cup Heap', g \in D :
            x = MAIN \/ state'[x] # "Dead" => ~(Has(x, g) /\ Has(x, g)')
    BY <2>2
  <2> HIDE DEF D
  <2>4. CallsOK /\ Owners
    BY <1>1 DEF Control
  <2> QED BY <1>1, <1>9, <1>10, <1>12, <1>13, <2>1, <2>3, <2>4, Carry
<1>15. Control'
  <2>1. \/ /\ extra = 0 /\ Running' = Running /\ rsp'[f] = Depth(f) + 1
           /\ calls'[f] = Append(calls[f], Frame("yield", f, f, f))
        \/ Running' = Running \ {f}
    BY <1>3
  <2> QED BY <1>1, <1>14, <2>1, LeaveControl
<1>16. FiberInv'
  BY <1>14, <1>15 DEF FiberInv
<1>17. \/ /\ Running' = Running /\ state'[f] = state[f]
          /\ calls'[f] = Append(calls[f], Frame("yield", f, f, f))
       \/ Running' = Running \ {f} /\ state'[f] \in {"Dead", "dropped"}
  BY <1>3
<1>18. C!Yield \/ C!End
  BY <1>16, <1>17, LeaveMaps
<1>19. EachesKept
  <2> SUFFICES ASSUME NEW x \in Exec, NEW k \in 1 .. Depth(x), calls[x][k].op = "each",
                      calls[x][k].of \notin Gone
               PROVE  k \in 1 .. Depth(x)' /\ calls'[x][k] = calls[x][k]
    BY DEF EachesKept
  <2>1. /\ calls[x] \in Seq(FrameSet) /\ k \in 1 .. Len(calls[x]) /\ x \in Live
    BY <1>1, <1>5, StackFacts
  <2>2. CASE x = f
    <3> DEFINE one == Frame("yield", f, f, f)
    <3>1. calls'[f] = Append(calls[f], one)
      BY <1>3, <2>1, <2>2
    <3>2. one \in FrameSet /\ calls[f] \in Seq(FrameSet)
      BY <1>1, <1>2, FrameFacts
    <3> HIDE DEF one
    <3>3. Len(calls'[f]) = Len(calls[f]) + 1 /\ calls'[f][k] = calls[f][k]
      BY <2>1, <2>2, <3>1, <3>2
    <3> QED BY <1>5, <2>1, <2>2, <3>3
  <2>3. CASE x = y
    <3>1. k # Depth(y)
      BY <1>2, <2>3 DEF Resumes, Ends
    <3>2. extra = 1 => k # Depth(y) - 1
      <4> SUFFICES ASSUME extra = 1, k = Depth(y) - 1 PROVE FALSE
        OBVIOUS
      <4>1. kind[f] = "Inner" /\ Ends1
        BY <1>3 DEF Left
      <4>2. calls[y][k].of = f
        BY <1>2, <4>1 DEF EachCall
      <4>3. f \in Gone
        BY <1>2, <1>4, <4>1 DEF Gone
      <4> QED BY <2>3, <4>2, <4>3
    <3>3. k \in 1 .. n
      BY <1>2, <1>5, <2>1, <2>3, <3>1, <3>2
    <3> HIDE DEF n
    <3>4. calls'[y] = Cut(calls[y], n)
      BY <1>2 DEF n
    <3>5. Len(Cut(calls[y], n)) = n /\ Cut(calls[y], n)[k] = calls[y][k]
      <4>1. calls[y] \in Seq(FrameSet) /\ n \in 0 .. Len(calls[y])
        BY <1>6
      <4>2. Len(Cut(calls[y], n)) = n /\ \A j \in 1 .. n : Cut(calls[y], n)[j] = calls[y][j]
        BY <4>1, CutFacts, SMTT(30)
      <4> QED BY <3>3, <4>2
    <3> QED BY <1>5, <2>3, <3>3, <3>4, <3>5
  <2>4. CASE x # f /\ x # y
    BY <1>2, <1>5, <2>1, <2>4
  <2> QED BY <2>2, <2>3, <2>4
<1> QED BY <1>16, <1>18, <1>19


LEMMA YieldKeeps ==
  ASSUME FiberInv, ~InnerFibers, NEW V \in SUBSET F, Yield(V)
  PROVE  FiberInv' /\ (C!Yield \/ C!End) /\ EachesKept
<1>1. /\ Typed /\ TypeOK /\ MAIN \notin F /\ cpu \in Exec /\ cpu \in Live /\ Live \subseteq Exec
      /\ Live = Running \cup {MAIN} /\ Stacks /\ Kinds /\ References /\ Control
  BY Types, InControlFacts DEF FiberInv
<1>2. /\ kind' = kind /\ state' = state /\ stack' = stack /\ store' = store
      /\ made' = made /\ info' = info
      /\ cpu \in F /\ V \subseteq Uses(cpu) /\ LeaveFiber(cpu, stack[cpu], 0)
      /\ hold' = [hold EXCEPT ![cpu'] = @ \cup V]
      /\ V # {} /\ cpu' \in F => kind[cpu'] # "Inner"
  BY DEF Yield, Keep, MayKeep
<1>3. PICK f \in F : f = cpu
  BY <1>2
<1>4. ASSUME cpu' \in Live, frames' \in [Places -> Seq(FrameSet)], rsp' \in [F -> Nat],
             main_rsp' = main_rsp
      PROVE  Stacks'
  <2>1. hold' \in [Exec -> SUBSET F]
    BY <1>1, <1>2 DEF Typed
  <2>2. TypeOK'
    BY <1>1, <1>2, <1>4, <2>1 DEF TypeOK, Places, Exec
  <2>3. StackInv'
    BY <1>1, <1>2, SameStacks DEF Stacks
  <2>4. StacksAccounted'
    BY <1>1, <1>2, <2>2 DEF Stacks, StacksAccounted, Running
  <2> QED BY <1>1, <1>2, <2>3, <2>4 DEF Stacks
<1>5. Running' = Running /\ Running' \subseteq Running /\ Running \ {f} \subseteq Running'
  BY <1>2 DEF Running
<1>6. /\ Stacks' /\ \E y \in Live : Left(y, 0)
      /\ calls'[f] = Append(calls[f], Frame("yield", f, f, f))
      /\ rsp'[f] = Depth(f) + 1
  <2>1. 0 \in {0, 1} /\ f \in Running' /\ \A g \in F \ {f} : stack'[g] = stack[g]
    BY <1>1, <1>2, <1>3, <1>5
  <2>2. LeaveFiber(f, stack[f], 0) /\ CallsOK /\ Resumed /\ InControl
    BY <1>1, <1>2, <1>3 DEF Control
  <2> QED BY <1>1, <1>2, <1>3, <1>4, <1>5, <2>1, <2>2, LeaveStep
<1>7. PICK y \in Live : Left(y, 0)
  BY <1>6
<1>8. cpu' = y /\ y \in Exec /\ hold' = [hold EXCEPT ![y] = @ \cup V]
  BY <1>1, <1>2, <1>7 DEF Left
<1>9. Evolves
  BY <1>2 DEF Evolves
<1>10. Kinds'
  <2>1. y \in F => state[y] = "Running" /\ (V # {} => kind[y] # "Inner")
    BY <1>1, <1>2, <1>8 DEF Running
  <2>2. ASSUME NEW g \in F, g # y \/ V = {} PROVE hold'[g] = hold[g]
    BY <1>1, <1>8, <2>2 DEF Typed, Exec
  <2> QED BY <1>1, <1>2, <2>1, <2>2 DEF Kinds
<1>11. \A x \in Exec : Uses(x)' \subseteq Uses(x) \cup V /\ Uses(x) \subseteq Uses(x)'
  BY <1>1, <1>2, <1>8 DEF Uses, Typed
<1>12. /\ \A x \in Exec : Uses(x)' \subseteq Uses(x) \cup V
       /\ \A x \in Live \ {f} : Uses(x) \subseteq Uses(x)'
       /\ V \subseteq Uses(f) /\ state'[f] = state[f] /\ \A g \in F \ {f} : state'[g] = state[g]
  BY <1>1, <1>2, <1>3, <1>11
<1> QED BY <1>2, <1>3, <1>5, <1>6, <1>7, <1>9, <1>10, <1>12, LeaveKeeps

LEMMA DropTypes ==
  ASSUME Stacks, NEW D \in SUBSET F, Deallocate(D), made' = made
  PROVE  store' \in Seq(NativeStack) /\ stack' \in [F -> NativeStack \cup {NoStack}]
<1>1. made \in 0 .. Cardinality(F) /\ stack \in [F -> NativeStack \cup {NoStack}]
  BY DEF Stacks, StacksAccounted, TypeOK
<1>2. store' \in Seq(1 .. made)
  BY DeallocateStacks DEF Stacks, StackInv
<1>3. 1 .. made \subseteq NativeStack
  <2>1. Cardinality(F) \in Nat
    BY FiberAssumption, FS_CardinalityType
  <2> QED BY <1>1, <2>1 DEF NativeStack
<1>4. store' \in Seq(NativeStack)
  BY <1>2, <1>3, SeqFacts
<1> QED BY <1>1, <1>4 DEF Deallocate

LEMMA FinishKeeps ==
  ASSUME FiberInv, ~InnerFibers, NEW V \in SUBSET F, Finish(V)
  PROVE  FiberInv' /\ (C!Yield \/ C!End) /\ EachesKept
<1>1. /\ Typed /\ TypeOK /\ MAIN \notin F /\ cpu \in Exec /\ cpu \in Live /\ Live \subseteq Exec
      /\ Live = Running \cup {MAIN} /\ Stacks /\ Kinds /\ References /\ Control
  BY Types, InControlFacts DEF FiberInv
<1>2. PICK f \in F : f = cpu
  BY DEF Finish
<1> DEFINE inner == kind[f] = "Inner"
           extra == IF inner THEN 1 ELSE 0
<1>3. /\ kind' = kind /\ made' = made /\ Deallocate({f}) /\ LeaveFiber(f, stack[f], extra)
      /\ V \subseteq Uses(f)
      /\ state' = [state EXCEPT ![f] = EndState(f)]
      /\ info' = IF inner THEN Emptied({f}, info) ELSE info
      /\ hold' = [hold EXCEPT ![cpu'] = @ \cup V, ![f] = {}]
      /\ V # {} /\ cpu' \in F => kind[cpu'] # "Inner"
  BY <1>2 DEF Finish, KeepAll, MayKeep, Uses
<1>4. EndState(f) = IF inner THEN "dropped" ELSE "Dead"
  BY DEF EndState
<1>5. /\ state'[f] = IF inner THEN "dropped" ELSE "Dead"
      /\ \A g \in F \ {f} : state'[g] = state[g]
      /\ state' \in [F -> {"none", "Created", "Running", "Dead", "dropped"}]
      /\ state[f] = "Running"
  BY <1>1, <1>2, <1>3, <1>4 DEF Typed, Running
<1>6. Running' = Running \ {f} /\ Running' \subseteq Running /\ Running \ {f} \subseteq Running'
  BY <1>5 DEF Running
<1>7. info' \in [F -> SUBSET F] /\ \A g \in F : g # f \/ ~inner => info'[g] = info[g]
  BY <1>1, <1>3 DEF Typed, Emptied
<1>8. info'[f] \subseteq info[f]
  BY <1>1, <1>3 DEF Typed, Emptied
<1>9. ASSUME cpu' \in Live, frames' \in [Places -> Seq(FrameSet)], rsp' \in [F -> Nat],
             main_rsp' = main_rsp
      PROVE  Stacks'
  <2>1. hold' \in [Exec -> SUBSET F]
    BY <1>1, <1>3 DEF Typed
  <2>2. store' \in Seq(NativeStack) /\ stack' \in [F -> NativeStack \cup {NoStack}]
    BY <1>1, <1>3, DropTypes
  <2>3. TypeOK'
    BY <1>1, <1>3, <1>5, <1>7, <1>9, <2>1, <2>2 DEF TypeOK, Places, Exec
  <2>4. /\ \A g \in {f} : state'[g] # "Running"
        /\ \A g \in F \ {f} : state'[g] = state[g] /\ {f} \in SUBSET F
    BY <1>5
  <2> QED BY <1>1, <1>3, <2>3, <2>4, DeallocateKeeps
<1>10. \A g \in F \ {f} : stack'[g] = stack[g]
  BY <1>3 DEF Deallocate
<1>11. Stacks' /\ \E y \in Live : Left(y, extra)
  <2>1. extra \in {0, 1} /\ (extra = 1 => kind[f] = "Inner")
    OBVIOUS
  <2>2. LeaveFiber(f, stack[f], extra) /\ CallsOK /\ Resumed /\ InControl
    BY <1>1, <1>3 DEF Control
  <2> HIDE DEF extra
  <2> QED BY <1>1, <1>2, <1>6, <1>9, <1>10, <2>1, <2>2, LeaveStep
<1>12. PICK y \in Live : Left(y, extra)
  BY <1>11
<1>13. cpu' = y /\ y \in Exec /\ y # f /\ hold' = [hold EXCEPT ![y] = @ \cup V, ![f] = {}]
  BY <1>1, <1>2, <1>3, <1>12 DEF Left
<1>14. /\ hold'[f] = {} /\ hold'[y] = hold[y] \cup V
       /\ \A x \in Exec \ {f, y} : hold'[x] = hold[x]
  BY <1>1, <1>13 DEF Typed, Exec
<1>15. Evolves
  BY <1>3, <1>5, <1>7 DEF Evolves
<1>16. Kinds'
  <2>1. y \in F => state[y] = "Running" /\ (V # {} => kind[y] # "Inner")
    BY <1>1, <1>3, <1>13 DEF Running
  <2>2. \A g \in F \ {f} : g # y \/ V = {} => hold'[g] = hold[g]
    BY <1>14 DEF Exec
  <2>3. kind[f] # "Enum"
    BY <1>1, <1>5 DEF Kinds
  <2>4. /\ kind' = kind /\ state'[f] \in {"dropped", "Dead"} /\ hold'[f] = {}
        /\ (kind[f] = "Inner" => state'[f] = "dropped") /\ \A g \in F \ {f} : state'[g] = state[g]
    BY <1>3, <1>5, <1>14
  <2>5. CASE y \in F /\ V # {}
    <3>1. \A g \in F : kind[g] = "Inner" => g # y
      BY <2>1, <2>5
    <3> QED BY <1>1, <2>1, <2>2, <2>3, <2>4, <3>1 DEF Kinds
  <2> QED BY <1>1, <2>1, <2>2, <2>3, <2>4, <2>5 DEF Kinds
<1>17. \A x \in Exec : Uses(x)' \subseteq Uses(x) \cup V
  <2> SUFFICES ASSUME NEW x \in Exec PROVE Uses(x)' \subseteq Uses(x) \cup V
    OBVIOUS
  <2>1. hold'[x] \subseteq hold[x] \cup V
    BY <1>14
  <2>2. x \in F => info'[x] \subseteq info[x]
    BY <1>7, <1>8
  <2> QED BY <2>1, <2>2 DEF Uses
<1>18. \A x \in Live \ {f} : Uses(x) \subseteq Uses(x)'
  <2> SUFFICES ASSUME NEW x \in Live \ {f} PROVE Uses(x) \subseteq Uses(x)'
    OBVIOUS
  <2>1. hold[x] \subseteq hold'[x]
    BY <1>1, <1>14
  <2>2. x \in F => info'[x] = info[x]
    BY <1>7
  <2> QED BY <2>1, <2>2 DEF Uses
<1>19. IF kind[f] = "Inner" THEN extra = 1 /\ state'[f] = "dropped" ELSE state'[f] = "Dead"
  BY <1>5
<1>20. PICK n : n = extra
  OBVIOUS
<1>21. Left(y, n) /\ IF kind[f] = "Inner" THEN n = 1 /\ state'[f] = "dropped" ELSE state'[f] = "Dead"
  BY <1>12, <1>19, <1>20
<1>22. Stacks' /\ kind' = kind /\ V \subseteq Uses(f)
  BY <1>3, <1>11
<1>23. calls[f] = <<>>
  <2>1. frames[stack[f]] = <<>> /\ f \in Live /\ f # MAIN
    BY <1>1, <1>2 DEF Finish
  <2> QED BY <1>1, <2>1, StackFacts DEF StackOf
<1> QED BY <1>2, <1>5, <1>6, <1>15, <1>16, <1>17, <1>18, <1>21, <1>22, <1>23, LeaveKeeps


(* The fibers in D are dropped; the last call of each in c may return.     *)
LEMMA DropKeeps ==
  ASSUME FiberInv, NEW c, c = cpu, NEW D \in SUBSET F, Drop(D), D \cap Active = {},
         UNCHANGED <<kind, rsp, made, main_rsp, cpu>>,
         frames' \in [Places -> Seq(FrameSet)],
         \A t \in Places \ {StackOf(c)} : frames'[t] = frames[t],
         NEW n \in 0 .. Depth(c), n = Depth(c) \/ (calls[c] # <<>> /\ n = Depth(c) - 1 /\ calls[c][Depth(c)].of \in D),
         frames'[StackOf(c)] = Cut(calls[c], n),
         \A x \in Live : \A k \in 1 .. Depth(x) :
             calls[x][k].op = "each" /\ calls[x][k].of \in D => x = c /\ k = n + 1,
         \A x \in {MAIN} \cup (Heap \ D), g \in D : x = MAIN \/ state[x] # "Dead" => ~Has(x, g)
  PROVE  FiberInv' /\ C!Discard(D) /\ EachesKept
<1>1. /\ Typed /\ TypeOK /\ MAIN \notin F /\ Live = Running \cup {MAIN} /\ c \in Exec /\ c \in Live
      /\ Stacks /\ Kinds /\ References /\ Control /\ calls \in [Exec -> Seq(FrameSet)]
      /\ Live \subseteq Exec
      /\ c \in F => c \in Active
      /\ \A k \in 1 .. Depth(c) : calls[c][k].op = "each"
  BY Types, InControlFacts, StackFacts DEF FiberInv
<1>2. /\ state' = [f \in F |-> IF f \in D THEN "dropped" ELSE state[f]]
      /\ info' = Emptied(D, info) /\ hold' = Emptied(D, hold) /\ Deallocate(D)
  BY DEF Drop
<1>3. /\ \A g \in D : state'[g] = "dropped" /\ info'[g] = {} /\ hold'[g] = {}
      /\ \A g \in F \ D : state'[g] = state[g] /\ info'[g] = info[g]
      /\ \A x \in Exec \ D : hold'[x] = hold[x]
      /\ D \subseteq Exec
  BY <1>1, <1>2 DEF Emptied, Typed, Exec
<1>4. Typed'
  BY <1>1, <1>2 DEF Typed, Emptied
<1>5. TypeOK'
  <2>1. store' \in Seq(NativeStack) /\ stack' \in [F -> NativeStack \cup {NoStack}]
    BY <1>1, <1>2, DropTypes
  <2> QED BY <1>1, <1>4, <2>1 DEF TypeOK, Typed, Places
<1>6. c \notin D
  BY <1>1
<1>7. /\ Stacks' /\ Running' = Running \ D
      /\ \A x \in Live \ D : StackOf(x)' = StackOf(x) /\ calls'[x] = frames'[StackOf(x)]
      /\ \A x \in Exec \ (Live \ D) : calls'[x] = <<>>
  <2>1. /\ \A f \in D : state'[f] # "Running"
        /\ \A f \in F \ D : state'[f] = state[f]
    BY <1>3
  <2> QED BY <1>1, <1>2, <1>5, <2>1, DropStep
<1>8. Live' = Live \ D
  BY <1>1, <1>7 DEF Live
<1>9. \A x \in Exec \ (D \cup {c}) : calls'[x] = calls[x]
  <2> SUFFICES ASSUME NEW x \in Exec \ (D \cup {c}) PROVE calls'[x] = calls[x]
    OBVIOUS
  <2>1. CASE x \in Live
    <3>1. StackOf(x) \in Places /\ StackOf(x) # StackOf(c) /\ calls[x] = frames[StackOf(x)]
      BY <1>1, <2>1, StackFacts
    <3> QED BY <1>7, <2>1, <3>1
  <2>2. CASE x \notin Live
    BY <1>1, <1>7, <2>2, StackFacts
  <2> QED BY <2>1, <2>2
<1>10. /\ calls[c] \in Seq(FrameSet) /\ n \in 0 .. Len(calls[c]) /\ calls'[c] = Cut(calls[c], n)
       /\ Len(calls'[c]) = n /\ \A k \in 1 .. n : k \in 1 .. Len(calls[c]) /\ calls'[c][k] = calls[c][k]
  <2>1. calls[c] \in Seq(FrameSet) /\ n \in 0 .. Len(calls[c]) /\ calls'[c] = Cut(calls[c], n)
    BY <1>1, <1>6, <1>7 DEF Depth
  <2>2. /\ Len(Cut(calls[c], n)) = n
        /\ \A k \in 1 .. n : k \in 1 .. Len(calls[c]) /\ Cut(calls[c], n)[k] = calls[c][k]
    BY <2>1, CutFacts
  <2> QED BY <2>1, <2>2
<1>11. \A x : Depth(x) = Len(calls[x]) /\ Depth(x)' = Len(calls'[x])
  BY DEF Depth
<1>12. ASSUME NEW x \in Live', NEW k \in 1 .. Depth(x)'
       PROVE  x \notin D /\ Kept(x, k) /\ (x = c => k \in 1 .. n)
  <2>1. CASE x = c
    BY <1>1, <1>6, <1>10, <1>11, <2>1 DEF Kept
  <2>2. CASE x # c
    BY <1>1, <1>8, <1>9, <1>11, <2>2 DEF Kept
  <2> QED BY <2>1, <2>2
<1>13. Evolves
  <2>1. kind' = kind
    OBVIOUS
  <2> QED BY <1>3, <2>1, ZenonT(60) DEF Evolves
<1>14. Kinds'
  BY <1>1, <1>3, SMTT(60) DEF Kinds, Exec
<1>15. \A x \in Exec : Uses(x)' \subseteq Uses(x) /\ (x \notin D => Uses(x)' = Uses(x))
  BY <1>3 DEF Uses
<1>16. ASSUME NEW x \in Live', NEW k \in 1 .. Depth(x)', calls'[x][k].op = "each"
       PROVE  Kept(x, k) /\ state'[calls[x][k].of] = "Running"
  <2>1. Kept(x, k) /\ (x = c => k \in 1 .. n)
    BY <1>12
  <2>2. PICK g \in F : g = calls[x][k].of
    BY <1>1, <2>1, DepthFacts DEF Kept
  <2>3. OwnedFrom(x, k)
    BY <1>1, <1>16, <2>1, <2>2 DEF Kept, Control, Owners
  <2>4. state[g] = "Running"
    BY <2>2, <2>3 DEF OwnedFrom, Owner
  <2>5. g \notin D
    BY <1>16, <2>1, <2>2 DEF Kept
  <2> QED BY <1>3, <2>1, <2>2, <2>4, <2>5
<1>17. \A x \in Live' : \A k \in 1 .. Depth(x)' : calls'[x][k].op = "resume" =>
           Kept(x, k) /\ Uses(x) \subseteq Uses(x)'
  BY <1>1, <1>8, <1>12, <1>15
<1>18. Owners' /\ References'
  <2>1. \A g \in F : state'[g] = "dropped" => state[g] = "dropped" \/ g \in D
    BY <1>3
  <2>2. \A x \in Heap' : x \in Heap \ D /\ state'[x] = state[x]
    BY <1>3 DEF Heap
  <2>3. \A x \in {MAIN} \cup Heap', g \in D :
            x = MAIN \/ state'[x] # "Dead" => ~(Has(x, g) /\ Has(x, g)')
    BY <2>2
  <2>4. \A x \in Heap' : state'[x] # "Dead" =>
           \/ (x \in Heap /\ state[x] # "Dead")
           \/ \A g \in F : Has(x, g)' => state'[g] # "dropped"
    BY <2>2
  <2>5. CallsOK /\ Owners
    BY <1>1 DEF Control
  <2>6. \A x \in Exec : \A g \in F : g \in Uses(x)' => g \in Uses(x) \/ Usable(g)
    BY <1>15
  <2> QED BY <1>1, <1>7, <1>13, <1>16, <1>17, <2>1, <2>3, <2>4, <2>5, <2>6, Carry, ZenonT(60)
<1>19. Control'
  <2>1. calls'[c] = calls[c] \/ (calls[c] # <<>> /\ calls'[c] = Cut(calls[c], Depth(c) - 1))
    <3>1. CASE n = Depth(c)
      <4>1. Cut(calls[c], Len(calls[c])) = calls[c]
        BY <1>10 DEF Cut
      <4> QED BY <1>10, <1>11, <3>1, <4>1
    <3>2. CASE calls[c] # <<>> /\ n = Depth(c) - 1
      BY <1>10, <3>2
    <3> QED BY <3>1, <3>2
  <2>2. /\ \A x \in Live \ D : StackOf(x)' = StackOf(x)
        /\ \A x \in D : calls'[x] = <<>>
        /\ \A g \in Active : kind'[g] = kind[g]
    BY <1>3, <1>7
  <2> QED BY <1>1, <1>7, <1>9, <1>18, <2>1, <2>2, DropControl
<1>20. FiberInv'
  BY <1>7, <1>14, <1>18, <1>19 DEF FiberInv
<1>21. Back' = Back /\ cpu' = cpu /\ DOMAIN Back = Active
  BY <1>7, <1>9, <1>20, DropMaps, BackViewHolds DEF BackView
<1>22. Phase' = [f \in F |-> IF f \in D THEN "over" ELSE Phase[f]]
  BY <1>3 DEF Phase
<1>23. C!Discard(D)
  BY <1>21, <1>22, MapsDiscard
<1>24. EachesKept
  <2> SUFFICES ASSUME NEW x \in Exec \ Gone, NEW k \in 1 .. Depth(x), calls[x][k].op = "each",
                      calls[x][k].of \notin Gone
               PROVE  k \in 1 .. Depth(x)' /\ calls'[x][k] = calls[x][k]
    BY DEF EachesKept
  <2>1. /\ calls[x] \in Seq(FrameSet) /\ k \in 1 .. Len(calls[x]) /\ x \in Live
    BY <1>1, <1>11, StackFacts
  <2>2. \A g \in Running \cap D : g \in Gone
    BY <1>3 DEF Gone, Running
  <2>3. x \notin D
    BY <1>1, <2>1, <2>2
  <2>4. calls[x][k].of \notin D
    <3>1. calls[x][k].of \in F
      BY <1>1, <1>11, <2>1, DepthFacts
    <3>2. calls[x][k].of \in Running
      <4>1. OwnedFrom(x, k)
        BY <1>1, <2>1 DEF Control, Owners
      <4> QED BY <3>1, <4>1 DEF OwnedFrom, Owner, Running
    <3> QED BY <2>2, <3>2
  <2>5. CASE x = c
    <3>1. k \in 1 .. n
      BY <1>11, <2>1, <2>4, <2>5
    <3> QED BY <1>10, <1>11, <2>5, <3>1
  <2>6. CASE x # c
    BY <1>9, <1>11, <2>1, <2>3, <2>6
  <2> QED BY <2>5, <2>6
<1> QED BY <1>20, <1>23, <1>24

LEMMA EachAbortKeeps ==
  ASSUME FiberInv, NEW f \in F, EachAbort(f)
  PROVE  FiberInv' /\ C!Discard({f}) /\ EachesKept
<1>1. /\ MAIN \notin F /\ Stacks /\ References /\ Control /\ calls \in [Exec -> Seq(FrameSet)]
      /\ cpu \in Exec /\ cpu \in Live /\ calls[cpu] = frames[StackOf(cpu)]
      /\ StackOf(cpu) \in Places /\ frames \in [Places -> Seq(FrameSet)]
  BY Types, InControlFacts, StackFacts DEF FiberInv, TypeOK, Places
<1>2. /\ calls[cpu] # <<>> /\ Depth(cpu) \in 1 .. Depth(cpu) /\ EachCall(cpu, Depth(cpu), f)
      /\ kind[f] = "Inner" /\ state[f] = "Running" /\ f \notin Active
      /\ frames' = [frames EXCEPT ![StackOf(cpu)] = Front(@)] /\ Drop({f})
      /\ UNCHANGED <<kind, rsp, made, main_rsp, cpu>>
  BY EachFacts DEF EachAbort
<1>3. PICK c : c = cpu
  OBVIOUS
<1>4. PICK n \in Nat : n = Depth(cpu) - 1
  BY <1>2
<1>5. Front(calls[cpu]) = Cut(calls[cpu], n)
  BY <1>4 DEF Front, Cut, Depth
<1>6. Cut(calls[cpu], n) \in Seq(FrameSet)
  <2>1. calls[cpu] \in Seq(FrameSet) /\ n \in 0 .. Len(calls[cpu])
    BY <1>1, <1>2, <1>4 DEF Depth
  <2> QED BY <2>1, CutFacts
<1>7. /\ frames' \in [Places -> Seq(FrameSet)]
      /\ \A t \in Places \ {StackOf(c)} : frames'[t] = frames[t]
      /\ frames'[StackOf(c)] = Cut(calls[c], n)
  BY <1>1, <1>2, <1>3, <1>5, <1>6
<1>8. ASSUME NEW x \in Live, NEW k \in 1 .. Depth(x), calls[x][k].op = "each", calls[x][k].of \in {f}
      PROVE  x = c /\ k = n + 1
  <2>1. EachCall(x, k, f)
    BY <1>8 DEF EachCall
  <2>2. x = cpu /\ k = Depth(cpu)
    BY <1>1, <1>2, <2>1 DEF Control, OneEach
  <2> QED BY <1>3, <1>4, <2>2
<1>9. \A x \in {MAIN} \cup (Heap \ {f}), g \in {f} : ~Has(x, g)
  BY <1>2 DEF References, Known, Heap, Exec, FiberInv
<1>10. /\ n \in 0 .. Depth(c) /\ calls[c] # <<>> /\ n = Depth(c) - 1 /\ calls[c][Depth(c)].of \in {f}
       /\ {f} \in SUBSET F /\ {f} \cap Active = {}
  BY <1>2, <1>3, <1>4 DEF EachCall
<1> QED BY <1>2, <1>3, <1>7, <1>8, <1>9, <1>10, DropKeeps

-----------------------------------------------------------------------------
(* The collector *)

LEMMA MarkedFacts ==
  /\ Marked \subseteq Heap
  /\ Refs(MAIN) \cap Heap \subseteq Marked
  /\ \A g \in Marked : MarkedBy(g) \cap Heap \subseteq Marked
BY DEF Marked

LEMMA HasRefs ==
  ASSUME calls \in [Exec -> Seq(FrameSet)], NEW x \in Exec, NEW g \in F, Has(x, g)
  PROVE  g \in Refs(x)
<1>1. CASE g \in Uses(x)
  BY <1>1 DEF Refs
<1>2. ASSUME NEW k \in 1 .. Depth(x), calls[x][k].op = "each", calls[x][k].self = g
      PROVE  g \in Refs(x)
  <2>1. calls[x] = Calls(x) /\ calls[x] \in Seq(FrameSet)
    BY DEF calls
  <2>2. k \in DOMAIN calls[x]
    BY <2>1 DEF Depth
  <2>3. calls[x][k] \in Range(calls[x])
    BY <2>2 DEF Range
  <2> QED BY <1>2, <2>1, <2>3 DEF Refs
<1> QED BY <1>1, <1>2 DEF Has

(* The collector finds whoever is active, and what they work with.         *)
LEMMA ActiveMarked ==
  ASSUME FiberInv
  PROVE  Active \cap Heap \subseteq Marked
<1> DEFINE S == {x \in Exec : /\ x \in Heap => x \in Marked
                             /\ \A g \in Heap : Has(x, g) => g \in Marked}
<1>1. /\ Stacks /\ Kinds /\ References /\ Control /\ calls \in [Exec -> Seq(FrameSet)]
      /\ MAIN \notin F /\ Live \subseteq Exec
      /\ Active = {f \in Running : ~Ends(f, "yield")}
  BY Types, StackFacts, ActiveFacts DEF FiberInv
<1>2. Heap \subseteq F /\ Heap \subseteq Exec /\ MAIN \in Exec
  BY DEF Heap, Exec
<1>3. ASSUME NEW x \in Marked, state[x] # "Dead", NEW g \in Heap, Has(x, g) PROVE g \in Marked
  <2>1. x \in Exec /\ g \in F /\ MarkedBy(x) = Refs(x)
    BY <1>2, <1>3, MarkedFacts DEF MarkedBy
  <2>2. g \in Refs(x)
    BY <1>1, <1>3, <2>1, HasRefs
  <2> QED BY <2>1, <2>2, MarkedFacts
<1>4. MAIN \in S
  <2>1. \A g \in Heap : Has(MAIN, g) => g \in Marked
    BY <1>1, <1>2, HasRefs, MarkedFacts
  <2> QED BY <1>1, <1>2, <2>1
<1>5. ASSUME NEW f \in Active, NEW y \in Live, Resumes(y, f), y \in S PROVE f \in S
  <2>1. f \in F /\ state[f] = "Running" /\ f \in Exec
    BY DEF Active, Exec
  <2>2. CASE kind[f] # "Inner"
    <3>1. f \in Heap
      BY <2>1, <2>2 DEF Heap
    <3>2. Has(y, f)
      BY <1>1, <1>5, <2>1, <2>2 DEF References, Has
    <3>3. f \in Marked
      BY <1>5, <3>1, <3>2
    <3> QED BY <1>3, <2>1, <3>3
  <2>3. CASE kind[f] = "Inner"
    <3>1. EachCall(y, Depth(y) - 1, f)
      BY <1>1, <1>5, <2>3, ResumerFacts DEF Control
    <3>2. Sound(y)
      <4>1. ~Ends(y, "yield")
        BY <1>5 DEF Resumes, Ends
      <4>2. y \in Active \cup {MAIN}
        BY <1>1, <4>1 DEF Live
      <4> QED BY <1>1, <4>2, ActiveSound
    <3> DEFINE k == Depth(y) - 1
    <3>3. k \in 1 .. Depth(y) /\ calls[y][k].op = "each" /\ f = calls[y][k].of
      BY <3>1 DEF EachCall
    <3> HIDE DEF k
    <3>4. PICK e \in Heap : /\ Has(y, e) /\ state[e] = "Created" /\ info[f] \subseteq Uses(e)
                            /\ \A g \in F : Has(f, g) => g \in info[f]
      BY <1>1, <3>2, <3>3, InnerFacts DEF Control
    <3>5. e \in Marked
      BY <1>5, <3>4
    <3>6. \A g \in Heap : Has(f, g) => g \in Marked
      BY <1>2, <1>3, <3>4, <3>5 DEF Has
    <3>7. f \notin Heap
      BY <2>3 DEF Heap
    <3> QED BY <2>1, <3>6, <3>7
  <2> QED BY <2>2, <2>3
<1>6. S \in SUBSET Exec
  OBVIOUS
<1> HIDE DEF S
<1>7. Active \subseteq S
  BY <1>1, <1>4, <1>5, <1>6 DEF Control, Chain
<1> QED BY <1>7 DEF S

LEMMA CollectKeeps ==
  ASSUME FiberInv, Collect
  PROVE  FiberInv' /\ EachesKept /\ \E D \in SUBSET F : C!Discard(D)
<1> PICK D : D = Heap \ Marked
  OBVIOUS
<1>1. /\ MAIN \notin F /\ Stacks /\ References /\ Control /\ calls \in [Exec -> Seq(FrameSet)]
      /\ cpu \in Exec /\ cpu \in Live /\ calls[cpu] = frames[StackOf(cpu)]
      /\ StackOf(cpu) \in Places /\ frames \in [Places -> Seq(FrameSet)]
  BY Types, InControlFacts, StackFacts DEF FiberInv, TypeOK, Places
<1>2. /\ Drop(D) /\ D \in SUBSET F /\ UNCHANGED <<kind, rsp, made, main_rsp, cpu>> /\ frames' = frames
  BY DEF Collect, switchVars, Heap
<1>3. D \cap Active = {}
  BY ActiveMarked
<1>4. PICK c : c = cpu
  OBVIOUS
<1>5. PICK n \in Nat : n = Depth(c)
  BY <1>1, <1>4, DepthFacts
<1>6. Cut(calls[c], n) = calls[c]
  BY <1>1, <1>4, <1>5 DEF Cut, Depth
<1>7. ASSUME NEW x \in Live, NEW k \in 1 .. Depth(x), calls[x][k].op = "each", calls[x][k].of \in D
      PROVE  FALSE
  <2>1. OwnedFrom(x, k)
    BY <1>1, <1>7 DEF Control, Owners
  <2> QED BY <1>7, <2>1 DEF OwnedFrom, Owner, Heap
<1>8. ASSUME NEW x \in {MAIN} \cup (Heap \ D), NEW g \in D, x = MAIN \/ state[x] # "Dead", Has(x, g)
      PROVE  FALSE
  <2>1. x \in Exec /\ g \in F /\ g \in Heap /\ g \notin Marked
    BY <1>2 DEF Exec, Heap
  <2>2. g \in Refs(x)
    BY <1>1, <1>8, <2>1, HasRefs
  <2>3. CASE x = MAIN
    BY <2>1, <2>2, <2>3, MarkedFacts
  <2>4. CASE x # MAIN
    <3>1. x \in Marked /\ MarkedBy(x) = Refs(x)
      BY <1>8, <2>4 DEF MarkedBy
    <3> QED BY <2>1, <2>2, <3>1, MarkedFacts
  <2> QED BY <2>3, <2>4
<1>9. /\ frames' \in [Places -> Seq(FrameSet)]
      /\ \A t \in Places \ {StackOf(c)} : frames'[t] = frames[t]
      /\ frames'[StackOf(c)] = Cut(calls[c], n)
      /\ n \in 0 .. Depth(c) /\ n = Depth(c)
  BY <1>1, <1>2, <1>4, <1>5, <1>6
<1>10. FiberInv' /\ C!Discard(D) /\ EachesKept
  BY <1>2, <1>3, <1>4, <1>7, <1>8, <1>9, DropKeeps
<1> QED BY <1>2, <1>10

-----------------------------------------------------------------------------
(* The invariant *)

LEMMA FiberInit == Init => FiberInv
<1> SUFFICES ASSUME Init PROVE FiberInv
  OBVIOUS
<1>1. MAIN \notin F /\ MAIN # NoStack /\ Cardinality(F) \in Nat
  BY FiberAssumption, FS_CardinalityType DEF NoStack
<1>2. calls = [x \in Exec |-> <<>>]
  BY <1>1 DEF Init, calls, Calls, StackOf, Exec
<1>3. Running = {} /\ Live = {MAIN} /\ Active = {} /\ Heap = {} /\ cpu = MAIN
  BY DEF Init, Running, Live, Active, Heap
<1>4. Depth(MAIN) = 0 /\ \A x \in Exec : Depth(x) = 0 /\ \A op : ~Ends(x, op)
  BY <1>2 DEF Depth, Ends, Exec
<1>5. Stacks
  <2>1. StackInv
    BY DEF Init, StackInv, StackExclusive, NoStack, IsInjective, Range
  <2>2. TypeOK
    BY <1>1 DEF Init, TypeOK, Exec, NoStack
  <2>3. StacksAccounted
    BY <2>2 DEF Init, StacksAccounted, Running, Range
  <2> QED BY <2>1, <2>3 DEF Stacks, Init
<1>6. Control
  BY <1>3, <1>4 DEF Control, CallsOK, Owners, OneEach, Resumed, InControl, Chain, EachCall, Exec
<1>7. Kinds
  BY DEF Kinds, Init, Exec
<1>8. References
  <2>1. \A x \in Exec, g \in F : ~Has(x, g)
    BY <1>4 DEF Has, Uses, Init
  <2> QED BY <1>3, <1>4, <2>1 DEF References, Sound, Resumes, Exec
<1> QED BY <1>5, <1>6, <1>7, <1>8 DEF FiberInv

(* Every step keeps the invariant and is one of Coroutines, or none of it; *)
(* only one that gives control to a fiber makes it run.                    *)
LEMMA FiberNext ==
  ASSUME ~InnerFibers, ~NextAndEach, ~Reenter, FiberInv, [Next]_vars
  PROVE  /\ FiberInv' /\ EachesKept /\ [C!Next]_(C!vars)
         /\ Running' \subseteq Running \cup {cpu'}
<1> DEFINE Keeps == FiberInv' /\ EachesKept /\ Running' \subseteq Running \cup {cpu'}
<1>1. ASSUME NEW f \in F, NEW k \in {"Fiber", "Enum"}, NEW B \in SUBSET F, New(f, k, B)
      PROVE  Keeps /\ C!Next
  <2>1. FiberInv' /\ C!Create(f) /\ EachesKept
    BY <1>1, NewKeeps
  <2>2. Running' \subseteq Running
    BY <1>1, Types DEF New, Running, FiberInv, Typed
  <2> QED BY <2>1, <2>2 DEF C!Next
<1>2. ASSUME NEW f \in F, Resume(f) \/ EachNext(f) \/ \E e \in F : EachStart(e, f)
      PROVE  Keeps /\ C!Next
  <2>1. FiberInv' /\ C!Resume(f) /\ EachesKept
    BY <1>2, ResumeKeeps, EachNextKeeps, EachStartKeeps
  <2>2. cpu' = f
    BY <2>1 DEF C!Resume
  <2>3. Running' \subseteq Running \cup {f}
    BY <1>2, Types DEF Resume, EachNext, EachStart, Running, FiberInv, Typed
  <2> QED BY <2>1, <2>2, <2>3 DEF C!Next
<1>3. ASSUME NEW f \in F, EachAbort(f) PROVE Keeps /\ C!Next
  <2>1. FiberInv' /\ C!Discard({f}) /\ EachesKept
    BY <1>3, EachAbortKeeps
  <2>2. Running' \subseteq Running
    BY <1>3 DEF EachAbort, Drop, Running
  <2> QED BY <2>1, <2>2 DEF C!Next
<1>4. ASSUME NEW r \in F, Forget(r) PROVE Keeps /\ UNCHANGED C!vars
  <2>1. FiberInv' /\ UNCHANGED C!vars /\ EachesKept
    BY <1>4, ForgetKeeps DEF Forget
  <2>2. Running' \subseteq Running
    BY <1>4 DEF Forget, Running
  <2> QED BY <2>1, <2>2
<1>5. ASSUME NEW V \in SUBSET F, Yield(V) \/ Finish(V) PROVE Keeps /\ C!Next
  <2>1. FiberInv' /\ (C!Yield \/ C!End) /\ EachesKept
    BY <1>5, YieldKeeps, FinishKeeps
  <2>2. Running' \subseteq Running
    BY <1>5, Types DEF Yield, Finish, EndState, Running, FiberInv, Typed
  <2> QED BY <2>1, <2>2 DEF C!Next
<1>6. ASSUME Collect PROVE Keeps /\ C!Next
  <2>1. FiberInv' /\ EachesKept /\ \E D \in SUBSET F : C!Discard(D)
    BY <1>6, CollectKeeps
  <2>2. Running' \subseteq Running
    BY <1>6 DEF Collect, Drop, Running
  <2> QED BY <2>1, <2>2 DEF C!Next
<1>7. ASSUME NEW y \in Exec, NEW r \in F, Pass(y, r) PROVE Keeps /\ UNCHANGED C!vars
  <2>1. FiberInv' /\ UNCHANGED C!vars /\ EachesKept
    BY <1>7, PassKeeps
  <2>2. Running' \subseteq Running
    BY <1>7 DEF Pass, Running
  <2> QED BY <2>1, <2>2
<1>8. ASSUME UNCHANGED vars PROVE Keeps /\ UNCHANGED C!vars
  <2>1. {} \in SUBSET F /\ hold' = [hold EXCEPT ![cpu] = @ \ {}]
    BY <1>8, Types DEF vars, FiberInv, Typed
  <2>2. FiberInv' /\ UNCHANGED C!vars /\ EachesKept
    BY <1>8, <2>1, ForgetKeeps DEF vars
  <2>3. Running' \subseteq Running
    BY <1>8 DEF vars, Running
  <2> QED BY <2>2, <2>3
<1> QED BY <1>1, <1>2, <1>3, <1>4, <1>5, <1>6, <1>7, <1>8 DEF Next

LEMMA FiberAlways ==
  ASSUME ~InnerFibers, ~NextAndEach, ~Reenter
  PROVE  Spec => []FiberInv
<1>1. FiberInv /\ [Next]_vars => FiberInv'
  BY FiberNext
<1> QED BY <1>1, FiberInit, PTL DEF Spec

(* Control goes back where it came from: for any number of fibers, while   *)
(* fibers and enumerators are used as the gates say, each fiber that is    *)
(* active finds the call of resume that entered it on top of the stack of  *)
(* its resumer.                                                            *)
THEOREM FibersReturn ==
  ASSUME ~InnerFibers, ~NextAndEach, ~Reenter
  PROVE  Spec => []ReturnsToResumer
<1>1. FiberInv => ReturnsToResumer
  <2> SUFFICES ASSUME FiberInv, NEW f \in Active
               PROVE  LET p == main_rsp[f] IN
                      /\ p.stack \in NativeStack \cup {MAIN}
                      /\ frames[p.stack] # <<>> /\ p.depth = Len(frames[p.stack])
                      /\ Last(frames[p.stack]).op = "resume" /\ Last(frames[p.stack]).of = f
                      /\ p.stack = StackOf(Last(frames[p.stack]).vm)
    BY DEF ReturnsToResumer
  <2>1. Stacks /\ Control /\ calls \in [Exec -> Seq(FrameSet)]
    BY StackFacts DEF FiberInv
  <2>2. PICK y \in Live : Resumes(y, f)
    BY <2>1 DEF Control, Resumed
  <2>3. /\ y \in Exec /\ StackOf(y) \in Places /\ calls[y] = frames[StackOf(y)]
        /\ Depth(y) \in 1 .. Depth(y)
    BY <2>1, <2>2, StackFacts, DepthFacts DEF Resumes, Ends
  <2>4. CallOK(y, Depth(y))
    BY <2>1, <2>3 DEF Control, CallsOK
  <2>5. /\ calls[y] # <<>> /\ calls[y][Depth(y)].op = "resume" /\ calls[y][Depth(y)].of = f
        /\ calls[y][Depth(y)].vm = y
        /\ main_rsp[f] = [stack |-> StackOf(y), depth |-> Depth(y)]
    BY <2>2, <2>4 DEF Resumes, Ends, CallOK
  <2>6. main_rsp[f].stack = StackOf(y) /\ main_rsp[f].depth = Depth(y)
    BY <2>5
  <2> QED BY <2>3, <2>5, <2>6 DEF Places, Last, Depth
<1> QED BY <1>1, FiberAlways, PTL

(* A fiber that waits is resumed where it left off, whatever ran since.    *)
THEOREM FibersIntact ==
  ASSUME ~InnerFibers, ~NextAndEach, ~Reenter
  PROVE  Spec => []SuspendedIntact
<1>1. FiberInv => SuspendedIntact
  <2> SUFFICES ASSUME FiberInv, NEW f \in Suspended
               PROVE  rsp[f] = Len(frames[stack[f]]) /\ Top(f).vm = f
    BY Types DEF SuspendedIntact, FiberInv
  <2>1. Stacks /\ Control /\ calls \in [Exec -> Seq(FrameSet)]
    BY StackFacts DEF FiberInv
  <2>2. f \in Running /\ Ends(f, "yield") /\ f \in Exec /\ f \in Live /\ f # MAIN /\ f \in F
    BY <2>1, ActiveFacts, FiberAssumption DEF Exec, Live, Running
  <2>3. calls[f] = frames[stack[f]] /\ Depth(f) \in 1 .. Depth(f)
    BY <2>1, <2>2, StackFacts, DepthFacts DEF Ends, StackOf
  <2>4. CallOK(f, Depth(f)) /\ calls[f] # <<>> /\ calls[f][Depth(f)].op = "yield"
    BY <2>1, <2>2, <2>3 DEF Control, CallsOK, Ends
  <2>5. rsp[f] = Depth(f) /\ calls[f][Depth(f)].vm = f
    BY <2>4 DEF CallOK
  <2> QED BY <2>2, <2>3, <2>4, <2>5 DEF Depth, Top, Last, calls
<1> QED BY <1>1, FiberAlways, PTL

-----------------------------------------------------------------------------
(* What stays in the hands of the program *)

LEMMA OwnedCalls ==
  ASSUME Stacks
  PROVE  \A x \in Exec : \A f : f \in OwnedBy(x) <=> \E k \in 1 .. Depth(x) : EachCall(x, k, f)
<1> SUFFICES ASSUME NEW x \in Exec, NEW f
             PROVE  f \in OwnedBy(x) <=> \E k \in 1 .. Depth(x) : EachCall(x, k, f)
  OBVIOUS
<1>1. calls[x] = Calls(x) /\ calls[x] \in Seq(FrameSet)
  BY StackFacts DEF calls
<1>2. Range(calls[x]) = {calls[x][k] : k \in 1 .. Depth(x)}
  BY <1>1 DEF Range, Depth
<1> QED BY <1>1, <1>2 DEF OwnedBy, EachCall

(* What an execution owns that may run again may run again, and so may all *)
(* that are active.                                                        *)
HandsView ==
    /\ \A x \in Exec : \A f : f \in OwnedBy(x) <=> \E k \in 1 .. Depth(x) : EachCall(x, k, f)
    /\ \A x \in Exec : OwnedBy(x) \subseteq Inner
    /\ \A x \in MayRun : OwnedBy(x) \subseteq MayRun
    /\ Active \cup {MAIN} \subseteq MayRun
    /\ MayRun \subseteq Exec
    /\ cpu \in Active \cup {MAIN}

LEMMA WithinClosed ==
  ASSUME NEW D \in SUBSET Exec, \A x \in Exec : OwnedBy(x) \subseteq Inner
  PROVE  /\ Within(D) \subseteq Inner
         /\ \A x \in D \cup Within(D) : OwnedBy(x) \subseteq Within(D)
<1>1. ASSUME NEW x \in D \cup Within(D), NEW f \in OwnedBy(x),
             NEW S \in SUBSET Inner, \A y \in D \cup S : OwnedBy(y) \subseteq S
      PROVE  f \in S
  BY <1>1 DEF Within
<1>2. \A x \in D \cup Within(D) : OwnedBy(x) \subseteq Inner
  BY DEF Within, Inner, Exec
<1> QED BY <1>1, <1>2 DEF Within

LEMMA HandsHold ==
  ASSUME FiberInv
  PROVE  HandsView
<1>1. /\ Stacks /\ Control /\ Kinds /\ References /\ calls \in [Exec -> Seq(FrameSet)]
      /\ \A x \in Exec \ Live : calls[x] = <<>>
      /\ MAIN \notin F /\ cpu \in Exec /\ (cpu \in F => cpu \in Active)
  BY Types, StackFacts, InControlFacts DEF FiberInv
<1>2. \A x \in Exec : \A f : f \in OwnedBy(x) <=> \E k \in 1 .. Depth(x) : EachCall(x, k, f)
  BY <1>1, OwnedCalls
<1>3. ASSUME NEW x \in Exec, NEW f \in OwnedBy(x) PROVE f \in Inner
  <2>1. PICK k \in 1 .. Depth(x) : EachCall(x, k, f)
    BY <1>2, <1>3
  <2>2. x \in Live
    BY <1>1 DEF Depth
  <2>3. OwnedFrom(x, k) /\ f = calls[x][k].of /\ f \in F
    BY <1>1, <2>1, <2>2, DepthFacts DEF EachCall, Control, Owners
  <2> QED BY <2>3 DEF OwnedFrom, Owner, Inner
<1> DEFINE D == {MAIN} \cup Heap
<1>4. D \in SUBSET Exec
  BY DEF Exec, Heap
<1>5. MayRun \subseteq Exec /\ \A x \in MayRun : OwnedBy(x) \subseteq MayRun
  BY <1>3, <1>4, WithinClosed DEF MayRun, Inner, Exec
<1>6. ASSUME NEW f \in Active, NEW y \in Live, Resumes(y, f), y \in MayRun PROVE f \in MayRun
  <2>1. f \in F /\ state[f] = "Running"
    BY DEF Active
  <2>2. CASE kind[f] # "Inner"
    BY <2>1, <2>2 DEF Heap, MayRun
  <2>3. CASE kind[f] = "Inner"
    <3>1. EachCall(y, Depth(y) - 1, f)
      BY <1>1, <1>6, <2>3, ResumerFacts DEF Control
    <3>2. \E k \in 1 .. Depth(y) : EachCall(y, k, f)
      BY <3>1 DEF EachCall
    <3> QED BY <1>2, <1>5, <1>6, <3>2
  <2> QED BY <2>2, <2>3
<1>7. MAIN \in MayRun /\ MayRun \in SUBSET Exec
  BY <1>5 DEF MayRun
<1>8. Active \subseteq MayRun
  BY <1>1, <1>6, <1>7 DEF Control, Chain
<1> QED BY <1>1, <1>2, <1>3, <1>5, <1>7, <1>8 DEF HandsView, Exec

(* A fiber that may run again may do so after the step, unless it is among *)
(* the dropped or inside one of them.                                      *)
LEMMA MayRunKept ==
  ASSUME Heap \subseteq Heap' \cup Gone, HandsView, HandsView', EachesKept, NEW f \in F \cap MayRun
  PROVE  f \in MayRun' \cup Gone \cup Within(Gone)
<1> DEFINE R == MayRun' \cup Gone \cup Within(Gone)
           T == {x \in Inner : x \in R}
<1>2. {MAIN} \cup Heap \subseteq R
  BY DEF MayRun
<1>3. Gone \in SUBSET Exec /\ Within(Gone) \subseteq Inner
      /\ \A x \in Gone \cup Within(Gone) : OwnedBy(x) \subseteq Within(Gone)
  <2>1. Gone \in SUBSET Exec
    BY DEF Gone, Exec
  <2> QED BY <2>1, WithinClosed DEF HandsView
<1>4. ASSUME NEW x \in R, NEW g \in OwnedBy(x), x \in Exec PROVE g \in T
  <2>1. g \in Inner
    BY <1>4 DEF HandsView
  <2>2. CASE x \in Gone \cup Within(Gone)
    BY <1>3, <2>1, <2>2
  <2>3. CASE x \in MayRun' /\ x \notin Gone
    <3>1. PICK k \in 1 .. Depth(x) : EachCall(x, k, g)
      BY <1>4 DEF HandsView
    <3>2. CASE g \in Gone
      BY <2>1, <3>2
    <3>3. CASE g \notin Gone
      <4>1. EachCall(x, k, g)'
        BY <1>4, <2>3, <3>1, <3>3 DEF EachCall, EachesKept
      <4>2. k \in 1 .. Depth(x)'
        BY <4>1 DEF EachCall
      <4>3. g \in OwnedBy(x)'
        BY <1>4, <4>1, <4>2 DEF HandsView
      <4> QED BY <2>1, <2>3, <4>3 DEF HandsView
    <3> QED BY <3>2, <3>3
  <2> QED BY <1>4, <2>2, <2>3
<1>5. T \in SUBSET Inner /\ \A x \in {MAIN} \cup Heap \cup T : OwnedBy(x) \subseteq T
  <2>1. {MAIN} \cup Heap \cup T \subseteq R \cap Exec
    BY <1>2 DEF Exec, Heap, Inner
  <2> QED BY <1>4, <2>1
<1> HIDE DEF T
<1>6. f \in {MAIN} \cup Heap \cup T
  BY <1>5 DEF MayRun, Within
<1> QED BY <1>2, <1>6 DEF T

(* An object of the heap stays one until it is dropped.                    *)
LEMMA HeapKept ==
  ASSUME Typed, [Next]_vars
  PROVE  Heap \subseteq Heap' \cup Gone
<1> DEFINE Kept1 == \A f \in F : state[f] \in {"Created", "Running", "Dead"} /\ kind[f] # "Inner" =>
                 kind'[f] = kind[f] /\ state'[f] \in {"Created", "Running", "Dead", "dropped"}
<1>1. Kept1
  <2>1. CASE \/ \E f \in F, k \in {"Fiber", "Enum"}, B \in SUBSET F : New(f, k, B)
             \/ \E e, f \in F : EachStart(e, f)
    BY <2>1 DEF New, EachStart, Typed
  <2>2. CASE \/ \E f \in F : Resume(f) \/ EachNext(f) \/ Forget(f)
             \/ \E V \in SUBSET F : Yield(V)
             \/ \E y \in Exec, r \in F : Pass(y, r)
             \/ UNCHANGED vars
    BY <2>2 DEF Resume, EachNext, Forget, Yield, Pass, vars, Typed
  <2>3. CASE Collect \/ \E f \in F : EachAbort(f)
    BY <2>3 DEF Collect, EachAbort, Drop
  <2>4. CASE \E V \in SUBSET F : Finish(V)
    BY <2>4 DEF Finish, EndState, Typed
  <2> QED BY <2>1, <2>2, <2>3, <2>4 DEF Next
<1> QED BY <1>1 DEF Heap, Gone

(* Stacks are made one after the other, and a fiber keeps the one it has.  *)
LEMMA StackOwnersKept ==
  ASSUME Stacks, [Next]_vars
  PROVE  /\ made' \in Nat => made <= made'
         /\ \A f \in Running \cap Running' : stack'[f] = stack[f]
<1>1. Typed /\ made \in Nat /\ stack \in [F -> NativeStack \cup {NoStack}]
  BY Types DEF Stacks, StackInv, StacksAccounted, TypeOK
<1> DEFINE Same == made' = made /\ stack' = stack
           Freed(D) == made' = made /\ Deallocate(D) /\ D \cap Running' = {}
           Given(f, fr) == Invoke(f, fr) /\ f \notin Running
<1>2. ASSUME Same PROVE /\ made' \in Nat => made <= made'
                        /\ \A f \in Running \cap Running' : stack'[f] = stack[f]
  BY <1>1, <1>2
<1>3. ASSUME NEW D \in SUBSET F, Freed(D)
      PROVE  /\ made' \in Nat => made <= made'
             /\ \A f \in Running \cap Running' : stack'[f] = stack[f]
  BY <1>1, <1>3 DEF Deallocate, Running
<1>4. ASSUME NEW f \in F, NEW fr, Given(f, fr)
      PROVE  /\ made' \in Nat => made <= made'
             /\ \A g \in Running \cap Running' : stack'[g] = stack[g]
  BY <1>1, <1>4 DEF Invoke, MadeLeft, Running
<1>5. CASE \E f \in F : (Resume(f) /\ Switch(f, frames)) \/ EachNext(f) \/ Forget(f)
  <2>1. Same
    BY <1>5 DEF Switch, EachNext, Forget, stackVars
  <2> QED BY <1>2, <2>1
<1>6. CASE \/ \E f \in F, k \in {"Fiber", "Enum"}, B \in SUBSET F : New(f, k, B)
           \/ \E V \in SUBSET F : Yield(V)
           \/ \E y \in Exec, r \in F : Pass(y, r)
           \/ UNCHANGED vars
  <2>1. Same
    BY <1>6 DEF New, Yield, Pass, vars, stackVars
  <2> QED BY <1>2, <2>1
<1>7. ASSUME NEW f \in F, Resume(f), ~Switch(f, frames)
      PROVE  /\ made' \in Nat => made <= made'
             /\ \A g \in Running \cap Running' : stack'[g] = stack[g]
  <2>1. Given(f, frames)
    BY <1>7 DEF Resume, Running
  <2> QED BY <1>4, <2>1
<1>8. ASSUME NEW e \in F, NEW f \in F, EachStart(e, f)
      PROVE  /\ made' \in Nat => made <= made'
             /\ \A g \in Running \cap Running' : stack'[g] = stack[g]
  <2>1. Given(f, Push(frames, cpu, Frame("each", cpu, f, e)))
    BY <1>8 DEF EachStart, Running
  <2> QED BY <1>4, <2>1
<1>9. ASSUME NEW f \in F, EachAbort(f)
      PROVE  /\ made' \in Nat => made <= made'
             /\ \A g \in Running \cap Running' : stack'[g] = stack[g]
  <2>1. Freed({f})
    BY <1>9 DEF EachAbort, Drop, Running
  <2> QED BY <1>3, <2>1
<1>10. ASSUME NEW V \in SUBSET F, Finish(V)
       PROVE  /\ made' \in Nat => made <= made'
              /\ \A g \in Running \cap Running' : stack'[g] = stack[g]
  <2>1. cpu \in F /\ Freed({cpu})
    BY <1>1, <1>10 DEF Finish, EndState, Running, Typed
  <2> QED BY <1>3, <2>1
<1>11. CASE Collect
  <2>1. Heap \ Marked \in SUBSET F /\ Freed(Heap \ Marked)
    BY <1>11 DEF Collect, Drop, Running, Heap
  <2> QED BY <1>3, <2>1
<1> QED BY <1>5, <1>6, <1>7, <1>8, <1>9, <1>10, <1>11 DEF Next

(* A native stack that STACK_STORE keeps, or a fiber that the program can  *)
(* still resume, stays so kept through every step, and one just made is:   *)
(* Stack::allocate, deallocate and the ends of fibers lose none.  Only the *)
(* drop of a fiber inside an `each` does, and only of what it iterates     *)
(* with.                                                                   *)
THEOREM StacksKept ==
  ASSUME ~InnerFibers, ~NextAndEach, ~Reenter
  PROVE  Spec => NoStackLost
<1> DEFINE Step == (InHand \cup made + 1 .. made') \ InHand' \subseteq {stack[f] : f \in Within(Gone)}
<1>1. ASSUME FiberInv, [Next]_vars PROVE Step
  <2>1. FiberInv' /\ EachesKept /\ Running' \subseteq Running \cup {cpu'}
    BY <1>1, FiberNext
  <2>2. HandsView /\ HandsView'
    <3>1. (FiberInv => HandsView)'
      BY HandsHold, PTL
    <3> QED BY <1>1, <2>1, <3>1, HandsHold
  <2>3. Stacks /\ Stacks' /\ Typed /\ Typed' /\ MAIN \notin F
    <3>1. (Stacks => Typed)'
      BY Types, PTL
    <3> QED BY <1>1, <2>1, <3>1, Types DEF FiberInv
  <2>4. /\ made \in Nat /\ made' \in Nat /\ made <= made' /\ StackExclusive
        /\ \A f \in F : stack[f] <= made /\ stack[f] \in Nat
        /\ \A s \in Range(store) : s \in 1 .. made
        /\ \A f \in Running \cap Running' : stack'[f] = stack[f]
        /\ 1 .. made' = Range(store') \cup {stack'[f] : f \in Running'}
        /\ 1 .. made = Range(store) \cup {stack[f] : f \in Running}
    <3>1. made \in Nat /\ made' \in Nat
      BY <2>3 DEF Stacks, StackInv
    <3>2. made <= made' /\ \A f \in Running \cap Running' : stack'[f] = stack[f]
      BY <1>1, <2>3, <3>1, StackOwnersKept
    <3> QED BY <2>3, <3>1, <3>2 DEF Stacks, StackInv, StacksAccounted
  <2>5. Heap \subseteq Heap' \cup Gone
    BY <1>1, <2>3, HeapKept
  <2> SUFFICES ASSUME NEW s \in InHand \cup made + 1 .. made', s \notin InHand'
               PROVE  s \in {stack[f] : f \in Within(Gone)}
    OBVIOUS
  <2>6. s \in 1 .. made' /\ s \notin Range(store')
    BY <2>4 DEF InHand, Running
  <2>7. PICK h \in Running' : s = stack'[h]
    BY <2>4, <2>6
  <2>8. h \in F /\ state'[h] = "Running" /\ h \notin MayRun'
    BY <2>7 DEF Running, InHand
  <2>9. h \in Running
    <3>1. cpu' \in F => cpu' \in MayRun'
      BY <2>2, <2>3 DEF HandsView
    <3> QED BY <2>1, <2>7, <2>8, <3>1
  <2>10. s = stack[h] /\ s <= made /\ s # NoStack /\ s \notin Range(store)
    BY <2>3, <2>4, <2>6, <2>7, <2>8, <2>9 DEF StackExclusive, NoStack
  <2>11. h \in MayRun
    <3>1. PICK f \in F \cap MayRun : s = stack[f]
      BY <2>4, <2>10 DEF InHand
    <3>2. f = h
      BY <2>4, <2>8, <2>10, <3>1 DEF StackExclusive
    <3> QED BY <3>1, <3>2
  <2>12. h \notin Gone
    BY <2>8 DEF Gone
  <2>13. h \in Within(Gone)
    BY <2>1, <2>2, <2>3, <2>5, <2>8, <2>11, <2>12, MayRunKept
  <2> QED BY <2>10, <2>13
<1>2. FiberInv /\ [Next]_vars => [Step]_vars
  BY <1>1
<1> QED BY <1>2, FiberAlways, PTL DEF Spec, NoStackLost

(* The collector frees no fiber that an execution which may still run      *)
(* refers to, by its variables, its FiberKind or a native call it waits in.*)
THEOREM FibersSound ==
  ASSUME ~InnerFibers, ~NextAndEach, ~Reenter
  PROVE  Spec => []NoDangling
<1>1. FiberInv => NoDangling
  <2> SUFFICES ASSUME FiberInv PROVE NoDangling
    OBVIOUS
  <2> DEFINE S == {x \in Exec : x = MAIN \/ state[x] # "Dead" => Sound(x)}
  <2>1. /\ Stacks /\ Control /\ Kinds /\ References /\ calls \in [Exec -> Seq(FrameSet)]
        /\ \A x \in Exec \ Live : calls[x] = <<>>
        /\ MAIN \notin F /\ Live = Running \cup {MAIN}
    BY Types, StackFacts DEF FiberInv
  <2>2. {MAIN} \cup Heap \subseteq S
    BY <2>1 DEF References, Exec, Heap
  <2>3. ASSUME NEW y \in S, NEW f \in OwnedBy(y) PROVE f \in S
    <3>1. y \in Exec /\ calls[y] = Calls(y) /\ calls[y] \in Seq(FrameSet)
      BY <2>1 DEF calls
    <3>2. PICK c \in Range(calls[y]) : c.op = "each" /\ c.of = f
      BY <2>3, <3>1 DEF OwnedBy
    <3>3. PICK k \in 1 .. Depth(y) : c = calls[y][k]
      BY <3>1, <3>2 DEF Range, Depth
    <3>4. y \in Live
      BY <2>1, <3>1, <3>3 DEF Depth
    <3>5. Sound(y)
      BY <2>1, <3>4 DEF Running
    <3>6. Sound(f) /\ f \in F
      BY <2>1, <3>2, <3>3, <3>4, <3>5, InnerFacts DEF Control
    <3> QED BY <3>6 DEF Exec
  <2>4. MayRun \subseteq S
    <3>1. S \in SUBSET Exec /\ \A y \in S : OwnedBy(y) \subseteq S
      BY <2>3
    <3> HIDE DEF S
    <3> DEFINE T == S \cap Inner
    <3>2. \A x \in Exec : OwnedBy(x) \subseteq Inner
      BY HandsHold DEF HandsView
    <3>3. T \in SUBSET Inner /\ \A x \in ({MAIN} \cup Heap) \cup T : OwnedBy(x) \subseteq T
      BY <2>2, <3>1, <3>2
    <3> HIDE DEF T
    <3>4. Within({MAIN} \cup Heap) \subseteq T
      BY <3>3 DEF Within
    <3> QED BY <2>2, <3>4 DEF MayRun, T
  <2>5. ASSUME NEW x \in MayRun, x = MAIN \/ state[x] # "Dead", NEW g \in Refs(x)
        PROVE  state[g] # "dropped"
    <3>1. x \in Exec /\ Sound(x) /\ calls[x] = Calls(x) /\ calls[x] \in Seq(FrameSet)
      BY <2>1, <2>4, <2>5 DEF calls
    <3>2. CASE g \in Uses(x)
      <4>1. g \in F
        BY <2>1, <3>1, <3>2, Types DEF Uses, Typed
      <4> QED BY <3>1, <3>2, <4>1 DEF Sound, Has
    <3>3. ASSUME NEW c \in Range(calls[x]), g = c.self PROVE state[g] # "dropped"
      <4>1. PICK k \in 1 .. Depth(x) : c = calls[x][k]
        BY <3>1, <3>3 DEF Range, Depth
      <4>2. x \in Live
        BY <2>1, <3>1, <4>1 DEF Depth
      <4>3. CallOK(x, k) /\ g \in F
        BY <2>1, <3>1, <3>3, <4>1, <4>2, DepthFacts DEF Control, CallsOK
      <4>4. CASE c.op = "each"
        BY <3>1, <3>3, <4>1, <4>3, <4>4 DEF Sound, Has
      <4>5. CASE c.op = "resume"
        BY <3>3, <4>1, <4>3, <4>5 DEF CallOK, Active
      <4>6. CASE c.op = "yield"
        BY <2>1, <3>3, <4>1, <4>2, <4>3, <4>6 DEF CallOK, Running
      <4> QED BY <4>1, <4>3, <4>4, <4>5, <4>6 DEF CallOK
    <3> QED BY <2>5, <3>1, <3>2, <3>3 DEF Refs
  <2> QED BY <2>5 DEF NoDangling
<1> QED BY <1>1, FiberAlways, PTL

(* The context switches, the native stacks and the collector implement     *)
(* what Coroutines promises the program.                                   *)
THEOREM FibersAreCoroutines ==
  ASSUME ~InnerFibers, ~NextAndEach, ~Reenter
  PROVE  Spec => ControlSpec
<1>1. Init => C!Init
  <2> SUFFICES ASSUME Init PROVE C!Init
    OBVIOUS
  <2>1. Active = {}
    BY DEF Init, Active
  <2>2. /\ Back = [f \in {} |-> MAIN] /\ Phase = [f \in F |-> "unborn"] /\ cpu = MAIN
    BY <2>1 DEF Init, Back, Phase
  <2> QED BY <2>2 DEF C!Init, Back, Phase
<1>2. FiberInv /\ [Next]_vars => [C!Next]_(C!vars)
  BY FiberNext
<1>3. Spec => []FiberInv
  BY FiberAlways
<1> QED BY <1>1, <1>2, <1>3, PTL DEF Spec, ControlSpec, C!Spec

-----------------------------------------------------------------------------
(* Control that is given back, over and over, arrives in MAIN *)

Leads(c, b) == \A S \in SUBSET Exec : c \in S /\ (\A f \in S \cap DOMAIN b : b[f] \in S) => MAIN \in S
ChainOK(c, b) == c \in Exec /\ DOMAIN b \subseteq F /\ (\A f \in DOMAIN b : b[f] \in Exec) /\ Leads(c, b)

LEMMA ChainLonger ==
  ASSUME NEW c, NEW b, ChainOK(c, b), NEW f \in F, f \notin DOMAIN b,
         NEW d, d = [g \in DOMAIN b \cup {f} |-> IF g = f THEN c ELSE b[g]]
  PROVE  ChainOK(f, d)
<1>1. /\ DOMAIN d = DOMAIN b \cup {f} /\ d[f] = c /\ \A g \in DOMAIN b : d[g] = b[g]
      /\ f \in Exec
  BY DEF Exec
<1>2. ASSUME NEW S \in SUBSET Exec, f \in S, \A g \in S \cap DOMAIN d : d[g] \in S
      PROVE  MAIN \in S
  <2>1. c \in S /\ \A g \in S \cap DOMAIN b : b[g] \in S
    BY <1>1, <1>2
  <2> QED BY <2>1 DEF ChainOK, Leads
<1> QED BY <1>1, <1>2 DEF ChainOK, Leads

LEMMA ChainShorter ==
  ASSUME NEW c, NEW b, ChainOK(c, b), c \in DOMAIN b, NEW d, d = [g \in DOMAIN b \ {c} |-> b[g]]
  PROVE  ChainOK(b[c], d)
<1>1. DOMAIN d = DOMAIN b \ {c} /\ (\A g \in DOMAIN d : d[g] = b[g]) /\ b[c] \in Exec /\ c # MAIN
  BY FiberAssumption DEF ChainOK
<1>2. ASSUME NEW S \in SUBSET Exec, b[c] \in S, \A g \in S \cap DOMAIN d : d[g] \in S
      PROVE  MAIN \in S
  <2>1. S \cup {c} \in SUBSET Exec /\ \A g \in (S \cup {c}) \cap DOMAIN b : b[g] \in S \cup {c}
    BY <1>1, <1>2 DEF ChainOK
  <2>2. MAIN \in S \cup {c}
    BY <2>1 DEF ChainOK, Leads
  <2> QED BY <1>1, <2>2
<1> QED BY <1>1, <1>2 DEF ChainOK, Leads

(* Whatever hands control around as Coroutines says, the chain of fibers   *)
(* that wait for one another has no cycle: it ends in MAIN.                *)
THEOREM ChainEnds == ControlSpec => []C!ChainEndsInMain
<1>1. C!Init => ChainOK(cpu, Back)
  <2> SUFFICES ASSUME C!Init PROVE ChainOK(cpu, Back)
    OBVIOUS
  <2>1. cpu = MAIN /\ Back = [f \in {} |-> MAIN]
    BY DEF C!Init, Back
  <2> QED BY <2>1 DEF ChainOK, Leads, Exec
<1>2. ChainOK(cpu, Back) /\ [C!Next]_(C!vars) => ChainOK(cpu, Back)'
  <2> SUFFICES ASSUME ChainOK(cpu, Back), [C!Next]_(C!vars) PROVE ChainOK(cpu', Back')
    OBVIOUS
  <2>1. CASE cpu' = cpu /\ Back' = Back
    BY <2>1
  <2>2. ASSUME NEW f \in F, C!Resume(f) PROVE ChainOK(cpu', Back')
    <3>1. /\ f \notin DOMAIN Back /\ cpu' = f
          /\ Back' = [g \in DOMAIN Back \cup {f} |-> IF g = f THEN cpu ELSE Back[g]]
      BY <2>2 DEF C!Resume, C!InChain, Back
    <3> QED BY <3>1, ChainLonger
  <2>3. CASE C!Yield \/ C!End
    <3>1. cpu \in DOMAIN Back /\ cpu' = Back[cpu] /\ Back' = [g \in DOMAIN Back \ {cpu} |-> Back[g]]
      BY <2>3 DEF C!Yield, C!End, C!InChain, C!Without, Back
    <3> QED BY <3>1, ChainShorter
  <2>4. ASSUME NEW f, C!Create(f) PROVE cpu' = cpu /\ Back' = Back
    BY <2>4 DEF C!Create, Back
  <2>5. ASSUME NEW D, C!Discard(D) PROVE cpu' = cpu /\ Back' = Back
    BY <2>5 DEF C!Discard, Back
  <2>6. CASE UNCHANGED C!vars
    <3>1. cpu' = cpu /\ Back' = Back
      BY <2>6 DEF C!vars, Back
    <3> QED BY <2>1, <3>1
  <2> QED BY <2>1, <2>2, <2>3, <2>4, <2>5, <2>6 DEF C!Next
<1>3. ChainOK(cpu, Back) => C!ChainEndsInMain
  BY DEF ChainOK, Leads, Back, Exec, C!ChainEndsInMain, C!Exec, C!InChain
<1> QED BY <1>1, <1>2, <1>3, PTL DEF ControlSpec, C!Spec

(* So it does in the program: resumed fibers, the native stacks they left  *)
(* and the return points on them lead back to MAIN.                        *)
THEOREM FibersLeadBack ==
  ASSUME ~InnerFibers, ~NextAndEach, ~Reenter
  PROVE  Spec => []C!ChainEndsInMain
<1>1. Spec => ControlSpec
  BY FibersAreCoroutines
<1>2. ControlSpec => []C!ChainEndsInMain
  BY ChainEnds
<1> QED BY <1>1, <1>2, PTL

=============================================================================
