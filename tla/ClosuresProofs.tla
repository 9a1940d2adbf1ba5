---------------------------- MODULE ClosuresProofs ----------------------------
(***************************************************************************)
(* Contexts on the stack and on the heap, for any number of calls, values  *)
(* and nested blocks: every pointer that is followed leads to a context    *)
(* that is there, the move to the heap finds what it looks for, and        *)
(* variables are those of lexical scoping.                                 *)
(***************************************************************************)
EXTENDS Closures, SequenceFacts, TLAPS

Frame(n) == <<n, "stack">>
Copy(n) == <<n, "heap">>
Call0 == 1 .. MaxCalls
Address0 == Address \cup {NONE}

LEMMA Addresses ==
  /\ \A n \in Call0 : /\ Frame(n) \in Address /\ Copy(n) \in Address /\ Frame(n) # Copy(n)
                      /\ OnStack(Frame(n)) /\ ~OnStack(Copy(n)) /\ HeapOf(Frame(n)) = Copy(n)
                      /\ Frame(n)[1] = n /\ Copy(n)[1] = n /\ HeapOf(Copy(n)) = Copy(n)
  /\ \A c \in Address : /\ c[1] \in Call0 /\ c[1] \in Nat \ {0} /\ HeapOf(c) = Copy(c[1])
                        /\ OnStack(c) => c = Frame(c[1])
                        /\ ~OnStack(c) => c = Copy(c[1])
  /\ NONE \notin Address /\ NONE[1] = 0 /\ ~OnStack(NONE)
<1>1. MaxCalls \in Nat \ {0}
  BY ClosuresAssumption
<1>2. \A n \in Call0 : n \in Nat \ {0}
  BY <1>1 DEF Call0
<1>3. \A c \in Address : \E n \in Call0 : c = Frame(n) \/ c = Copy(n)
  BY DEF Address, Call0, Frame, Copy
<1>4. \A n \in Call0 : /\ Frame(n) \in Address /\ Copy(n) \in Address /\ Frame(n) # Copy(n)
                       /\ OnStack(Frame(n)) /\ ~OnStack(Copy(n)) /\ HeapOf(Frame(n)) = Copy(n)
                       /\ Frame(n)[1] = n /\ Copy(n)[1] = n /\ HeapOf(Copy(n)) = Copy(n)
  BY DEF Address, Call0, Frame, Copy, OnStack, HeapOf
<1>5. NONE \notin Address /\ NONE[1] = 0 /\ ~OnStack(NONE)
  BY DEF Address, NONE, OnStack
<1> QED BY <1>2, <1>3, <1>4, <1>5

(* Two frames of the same number are one.                                  *)
LEMMA FrameOf ==
  ASSUME NEW c \in Address, NEW d \in Address, OnStack(c), OnStack(d), c[1] = d[1]
  PROVE  c = d
BY Addresses

-----------------------------------------------------------------------------
(* The scopes of a context *)

(* Every context has an outer one, or none.                                *)
Outers == \A c \in Address : ctx[c].outer \in Address0

LEMMA UpFacts ==
  ASSUME Outers, NEW c \in Address0
  PROVE  /\ Up(c, 0) = c
         /\ \A d \in Nat : /\ Up(c, d) \in Address0
                           /\ Up(c, d + 1) = IF Up(c, d) = NONE THEN NONE ELSE ctx[Up(c, d)].outer
<1> DEFINE out(m) == IF m = NONE THEN NONE ELSE ctx[m].outer
           step == [p \in Nat \X Address0 |-> out(p[2])]
<1>1. \A m \in Address0 : out(m) \in Address0
  BY DEF Outers, Address0
<1>2. step \in [Nat \X Address0 -> Address0] /\ \A k \in Nat, m \in Address0 : step[<<k, m>>] = out(m)
  BY <1>1
<1> HIDE DEF step
<1>3. PICK F : Counts(F, Address0, c, step)
  BY <1>2, Counting
<1>4. /\ F \in [Nat -> Address0] /\ F[0] = c
      /\ \A k \in Nat : F[k + 1] = out(F[k])
  <2>1. F \in [Nat -> Address0] /\ F[0] = c /\ \A k \in Nat : F[k + 1] = step[<<k + 1, F[k]>>]
    BY <1>3 DEF Counts
  <2>2. ASSUME NEW k \in Nat PROVE F[k + 1] = out(F[k])
    <3>1. k + 1 \in Nat /\ F[k] \in Address0
      BY <2>1
    <3>2. F[k + 1] = step[<<k + 1, F[k]>>] /\ step[<<k + 1, F[k]>>] = out(F[k])
      BY <1>2, <2>1, <3>1
    <3> QED BY <3>2
  <2> QED BY <2>1, <2>2
<1>5. \A d \in Nat : Up(c, d) = F[d]
  <2> SUFFICES ASSUME NEW d \in Nat PROVE Up(c, d) = F[d]
    OBVIOUS
  <2> DEFINE Sol(f) == f = [k \in 0 .. d |-> IF k = 0 THEN c ELSE IF f[k - 1] = NONE THEN NONE ELSE ctx[f[k - 1]].outer]
  <2>1. Sol([k \in 0 .. d |-> F[k]])
    <3>1. \A k \in 0 .. d : k # 0 => k - 1 \in 0 .. d /\ F[k] = out(F[k - 1])
      BY <1>4
    <3> QED BY <1>4, <3>1
  <2>2. PICK f : f = CHOOSE x : Sol(x)
    OBVIOUS
  <2>3. Sol(f)
    <3> HIDE DEF Sol
    <3> QED BY <2>1, <2>2
  <2>4. Up(c, d) = f[d]
    BY <2>2 DEF Up
  <2> DEFINE S == {k \in 0 .. d : f[k] = F[k]}
  <2>5. 0 \in S
    BY <1>4, <2>3
  <2>6. ASSUME NEW k \in 0 .. d - 1, k \in S PROVE k + 1 \in S
    <3>1. k + 1 \in 0 .. d /\ k + 1 # 0 /\ (k + 1) - 1 = k /\ f[k] = F[k] /\ k \in Nat
      BY <2>6
    <3>2. f[k + 1] = out(f[k])
      BY <2>3, <3>1
    <3> QED BY <1>4, <3>1, <3>2
  <2> HIDE DEF S
  <2>7. 0 .. d \subseteq S
    BY <2>5, <2>6, InductionTo
  <2> QED BY <2>4, <2>7 DEF S
<1> QED BY <1>4, <1>5

(* The way outwards from c is d scopes long, through ever older contexts.  *)
Lower == \A c \in Address : ctx[c].outer \in Address0 /\ ctx[c].outer[1] < c[1]

Scoped(c, D) ==
    /\ D \in 0 .. MaxCalls
    /\ \A d \in 0 .. D : Up(c, d) \in Address
    /\ \A d \in Nat : d > D => Up(c, d) = NONE
    /\ \A d \in 0 .. D - 1 : Up(c, d + 1) = ctx[Up(c, d)].outer
    /\ ctx[Up(c, D)].outer = NONE
    /\ \A d, e \in 0 .. D : d < e => Up(c, e)[1] < Up(c, d)[1]

LEMMA ScopedFacts ==
  ASSUME Lower, NEW c \in Address
  PROVE  \E D : Scoped(c, D)
<1>1. /\ Up(c, 0) = c
      /\ \A d \in Nat : /\ Up(c, d) \in Address0
                        /\ Up(c, d + 1) = IF Up(c, d) = NONE THEN NONE ELSE ctx[Up(c, d)].outer
  BY UpFacts DEF Lower, Outers, Address0
<1>2. PICK U : U = [d \in Nat |-> Up(c, d)]
  OBVIOUS
<1>3. U \in [Nat -> Address0] /\ \A d \in Nat : U[d] = Up(c, d)
  BY <1>1, <1>2
<1>4. /\ U[0] = c
      /\ \A d \in Nat : U[d + 1] = IF U[d] = NONE THEN NONE ELSE ctx[U[d]].outer
  <2>1. \A d \in Nat : d + 1 \in Nat
    OBVIOUS
  <2> QED BY <1>1, <1>3, <2>1
<1>5. MaxCalls \in Nat \ {0} /\ NONE \notin Address /\ NONE[1] = 0
  BY ClosuresAssumption, Addresses
<1>6. \A m \in Address0 : m[1] \in 0 .. MaxCalls /\ (m # NONE => m \in Address /\ m[1] # 0)
  BY <1>5, Addresses DEF Address0, Call0
<1>7. \A d \in Nat : U[d] # NONE => U[d + 1][1] < U[d][1]
  <2> SUFFICES ASSUME NEW d \in Nat, U[d] # NONE PROVE U[d + 1][1] < U[d][1]
    OBVIOUS
  <2>1. U[d] \in Address /\ U[d + 1] = ctx[U[d]].outer
    BY <1>3, <1>4, <1>6
  <2> QED BY <2>1 DEF Lower
<1>8. \A d \in Nat : U[d] = NONE => U[d + 1] = NONE
  BY <1>4
<1>9. \A d \in Nat : U[d] # NONE => U[d][1] + d <= MaxCalls
  <2> DEFINE S == {d \in Nat : U[d] # NONE => U[d][1] + d <= MaxCalls}
  <2>1. 0 \in S
    BY <1>3, <1>5, <1>6
  <2>2. ASSUME NEW d \in Nat, d \in S PROVE d + 1 \in S
    <3>1. CASE U[d] = NONE
      BY <1>8, <3>1
    <3>2. CASE U[d] # NONE
      <4>1. U[d][1] + d <= MaxCalls /\ U[d + 1][1] < U[d][1]
        BY <1>7, <2>2, <3>2
      <4>2. U[d][1] \in Nat /\ U[d + 1][1] \in Nat
        BY <1>3, <1>5, <1>6
      <4>3. U[d + 1][1] + (d + 1) <= MaxCalls
        BY <1>5, <4>1, <4>2
      <4> QED BY <4>3
    <3> QED BY <3>1, <3>2
  <2> HIDE DEF S
  <2>3. Nat \subseteq S
    BY <2>1, <2>2, Induction
  <2> QED BY <2>3 DEF S
<1>10. \E d \in Nat : U[d] = NONE
  <2>1. MaxCalls + 1 \in Nat
    BY <1>5
  <2>2. U[MaxCalls + 1][1] \in Nat
    BY <1>3, <1>6, <2>1
  <2>3. U[MaxCalls + 1] = NONE
    BY <1>5, <1>9, <2>1, <2>2
  <2> QED BY <2>1, <2>3
<1>11. PICK b \in Nat : U[b] = NONE /\ \A d \in Nat : U[d] = NONE => b <= d
  <2> DEFINE T == {d \in Nat : U[d] = NONE}
  <2>1. T # {} /\ T \in SUBSET Nat
    BY <1>10
  <2> HIDE DEF T
  <2>2. \E b \in T : \A d \in T : b <= d
    BY <2>1, Least
  <2> QED BY <2>2 DEF T
<1>12. PICK D : D = b - 1
  OBVIOUS
<1>13. D \in Nat /\ b = D + 1 /\ U[D] # NONE
  <2>1. b # 0
    BY <1>4, <1>5, <1>11
  <2>2. D \in Nat /\ b = D + 1 /\ ~(b <= D)
    BY <1>12, <2>1
  <2> QED BY <1>11, <2>2
<1>14. \A d \in 0 .. D : U[d] # NONE /\ U[d] \in Address
  <2> SUFFICES ASSUME NEW d \in 0 .. D PROVE U[d] # NONE /\ U[d] \in Address
    OBVIOUS
  <2>1. d \in Nat /\ ~(b <= d)
    BY <1>13
  <2> QED BY <1>3, <1>6, <1>11, <2>1
<1>15. \A d \in Nat : d > D => U[d] = NONE
  <2> DEFINE S == {n \in Nat : U[b + n] = NONE}
  <2>1. 0 \in S
    BY <1>11
  <2>2. ASSUME NEW n \in Nat, n \in S PROVE n + 1 \in S
    <3>1. b + n \in Nat /\ (b + n) + 1 = b + (n + 1)
      OBVIOUS
    <3> QED BY <1>8, <2>2, <3>1
  <2> HIDE DEF S
  <2>3. Nat \subseteq S
    BY <2>1, <2>2, Induction
  <2>4. ASSUME NEW d \in Nat, d > D PROVE U[d] = NONE
    <3>1. d - b \in Nat /\ b + (d - b) = d
      BY <1>13, <2>4
    <3> QED BY <2>3, <3>1 DEF S
  <2> QED BY <2>4
<1>16. \A d, e \in 0 .. D : d < e => U[e][1] < U[d][1]
  <2> SUFFICES ASSUME NEW d \in 0 .. D PROVE \A e \in 0 .. D : d < e => U[e][1] < U[d][1]
    OBVIOUS
  <2> DEFINE S == {n \in 0 .. D : d < n => U[n][1] < U[d][1]}
  <2>1. 0 \in S
    BY <1>13
  <2>2. ASSUME NEW n \in 0 .. D - 1, n \in S PROVE n + 1 \in S
    <3>1. n \in Nat /\ n \in 0 .. D /\ n + 1 \in 0 .. D
      BY <1>13
    <3>2. U[n + 1][1] < U[n][1] /\ U[n + 1][1] \in Nat /\ U[n][1] \in Nat /\ U[d][1] \in Nat
      BY <1>3, <1>6, <1>7, <1>14, <3>1
    <3>3. ASSUME d < n + 1 PROVE U[n + 1][1] < U[d][1]
      <4>1. d < n \/ d = n
        BY <3>1, <3>3
      <4> QED BY <2>2, <3>2, <4>1
    <3> QED BY <3>1, <3>3
  <2> HIDE DEF S
  <2>3. 0 .. D \subseteq S
    BY <1>13, <2>1, <2>2, InductionTo
  <2> QED BY <2>3 DEF S
<1>17. D \in 0 .. MaxCalls
  BY <1>3, <1>5, <1>6, <1>9, <1>13
<1>18. \A d \in 0 .. D - 1 : U[d + 1] = ctx[U[d]].outer
  BY <1>4, <1>13, <1>14
<1>19. ctx[U[D]].outer = NONE
  BY <1>4, <1>11, <1>13
<1>20. \A d \in 0 .. D : d \in Nat
  BY <1>13
<1>21. \A d \in 0 .. D - 1 : d \in Nat /\ d + 1 \in Nat
  BY <1>13
<1> QED BY <1>3, <1>13, <1>14, <1>15, <1>16, <1>17, <1>18, <1>19, <1>20, <1>21 DEF Scoped

LEMMA ScopesFacts ==
  ASSUME Lower, NEW c \in Address, NEW D, Scoped(c, D)
  PROVE  /\ Up(c, 0) = c
         /\ Scopes(c) = {Up(c, d) : d \in 0 .. D}
         /\ MethodContext(c) = Up(c, D)
<1>1. Up(c, 0) = c
  BY UpFacts DEF Lower, Outers, Address0
<1>2. MaxCalls \in Nat /\ NONE \notin Address
  BY ClosuresAssumption, Addresses
<1>3. Scopes(c) = {Up(c, d) : d \in 0 .. D}
  <2>1. \A d \in 0 .. MaxCalls : d \in Nat /\ (d \in 0 .. D \/ Up(c, d) = NONE)
    BY <1>2 DEF Scoped
  <2>2. \A d \in 0 .. D : d \in 0 .. MaxCalls /\ Up(c, d) # NONE
    BY <1>2 DEF Scoped
  <2> QED BY <2>1, <2>2 DEF Scopes
<1>4. \A m \in Scopes(c) : ctx[m].outer = NONE => m = Up(c, D)
  <2> SUFFICES ASSUME NEW d \in 0 .. D, ctx[Up(c, d)].outer = NONE PROVE d = D
    BY <1>3
  <2>1. ASSUME d # D PROVE FALSE
    <3>1. d \in 0 .. D - 1 /\ d + 1 \in 0 .. D
      BY <1>2, <2>1 DEF Scoped
    <3> QED BY <1>2, <3>1 DEF Scoped
  <2> QED BY <2>1
<1>5. Up(c, D) \in Scopes(c) /\ ctx[Up(c, D)].outer = NONE
  <2>1. D \in 0 .. D
    BY <1>2 DEF Scoped
  <2> QED BY <1>3, <2>1 DEF Scoped
<1>6. MethodContext(c) = Up(c, D)
  <2> HIDE DEF Scopes
  <2> QED BY <1>4, <1>5 DEF MethodContext
<1> QED BY <1>1, <1>3, <1>6

-----------------------------------------------------------------------------
(* The inductive invariant *)

(* The contexts in use on the heap, and those of native calls in progress: *)
(* all, those that run, and those not moved.                               *)
Copies == {Copy(n) : n \in {n \in Call0 : ctx[Frame(n)].moved}}
Held == {ctl[k].at : k \in DOMAIN ctl} \ {NONE}
Runs == {ctl[k].at : k \in {k \in DOMAIN ctl : ctl[k].op = "run"}}
Unmoved == {c \in Held : OnStack(c) /\ ~ctx[c].moved}

(* A context refers to older ones; what is on the heap refers to the heap. *)
Aged(n) ==
    LET f == ctx[Frame(n)] IN
    /\ n > calls => f = Unused
    /\ f.outer[1] < n /\ f.block[1] < n
    /\ f.outer # NONE => f.block = NONE
Copied0(n) ==
    LET f == ctx[Frame(n)]  c == ctx[Copy(n)] IN
    /\ ~f.moved => c = Unused
    /\ f.moved => /\ c.live /\ c.moved
                  /\ c.outer[1] = f.outer[1] /\ c.outer \in Copies \cup {NONE}
                  /\ c.block = f.block /\ c.block \in Copies \cup {NONE}
Contexts ==
    /\ \A n \in Call0 : Aged(n) /\ Copied0(n)
    /\ procs \subseteq Copies /\ enums \subseteq Copies

(* A call runs a context where it is; a builtin was called by the context  *)
(* its block refers to.                                                    *)
RightAt(e) ==
    /\ e.at # NONE => e.at[1] <= calls /\ ctx[Frame(e.at[1])].live
    /\ e.op = "run" => e.at \in Address /\ e.blk = NONE
    /\ e.op = "run" => e.at \in Copies \/ (OnStack(e.at) /\ ~ctx[e.at].moved)
    /\ e.op = "each" => e.at = NONE \/ OnStack(e.at)
    /\ e.op = "native" => e.at = NONE
CalledBy(k) ==
    ctl[k].op # "run" => /\ ctl[k].blk \in Address /\ (OnStack(ctl[k].blk) \/ ctl[k].blk \in Copies)
                         /\ k > 1 /\ ctl[k - 1].op = "run" /\ ctl[k - 1].at[1] = ctl[k].blk[1]
Frames == \A k \in DOMAIN ctl : RightAt(ctl[k]) /\ CalledBy(k)

(* Later calls have later contexts, but for an iteration and its block.    *)
Later(j, k) ==
    \/ ctl[j].at[1] < ctl[k].at[1]
    \/ ctl[j].at[1] = ctl[k].at[1] /\ k = j + 1 /\ ctl[j].op = "each" /\ ctl[k].op = "run"
Ordered ==
    \A j, k \in DOMAIN ctl : (j < k /\ ctl[j].at # NONE /\ ctl[k].at # NONE) => Later(j, k)

(* The contexts that a context on the stack refers to are in progress.     *)
Below ==
    \A x \in Unmoved :
        /\ ctx[x].outer \in Copies \cup Runs \cup {NONE}
        /\ \/ ctx[x].block \in Copies \cup {NONE}
           \/ OnStack(ctx[x].block) /\ \E c \in Runs : c[1] = ctx[x].block[1]

(* The contexts between one and its outer one have outer ones in between;  *)
(* there are none between a method and its block.                          *)
NestedIn(x, y) ==
    LET o == ctx[x].outer  b == ctx[x].block IN
    /\ (OnStack(o) /\ o[1] < y[1] /\ y[1] < x[1] /\ OnStack(ctx[y].outer)) => o[1] < ctx[y].outer[1]
    /\ OnStack(b) => ~(b[1] < y[1] /\ y[1] < x[1])
Nested == \A x, y \in Unmoved : NestedIn(x, y)

ContextInv == TypeOK /\ Contexts /\ Frames /\ Ordered /\ Below /\ Nested

-----------------------------------------------------------------------------
(* What follows from it *)

LEMMA Typed ==
  ASSUME TypeOK
  PROVE  /\ calls \in Call0 /\ calls \in Nat /\ ctl \in Seq(Call) /\ Len(ctl) \in Nat /\ DOMAIN ctl = 1 .. Len(ctl)
         /\ \A k \in DOMAIN ctl : /\ ctl[k].op \in {"run", "each", "native"}
                                  /\ ctl[k].at \in Address0 /\ ctl[k].blk \in Address0
         /\ \A c \in Address : /\ ctx[c].outer \in Address0 /\ ctx[c].block \in Address0
                               /\ ctx[c].live \in BOOLEAN /\ ctx[c].moved \in BOOLEAN
                               /\ ctx[c].lvar \in Val \cup {Uninit}
                               /\ ctx[c] \in Context
<1>1. MaxCalls \in Nat
  BY ClosuresAssumption
<1>2. calls \in Call0 /\ calls \in Nat /\ ctl \in Seq(Call) /\ Len(ctl) \in Nat /\ DOMAIN ctl = 1 .. Len(ctl)
  BY <1>1 DEF TypeOK, Call0
<1>3. \A k \in DOMAIN ctl : ctl[k] \in Call
  BY <1>2
<1>4. \A c \in Address : ctx[c] \in Context
  BY DEF TypeOK
<1> QED BY <1>2, <1>3, <1>4 DEF Call, Context, Address0

LEMMA CopiesFacts ==
  ASSUME TypeOK, Contexts
  PROVE  /\ Copies \subseteq Address /\ NONE \notin Copies
         /\ \A c \in Copies : /\ ~OnStack(c) /\ c = Copy(c[1]) /\ c[1] \in Call0 /\ c[1] <= calls
                              /\ ctx[c].live /\ ctx[c].moved
                              /\ ctx[c].outer \in Copies \cup {NONE}
                              /\ ctx[c].block \in Copies \cup {NONE}
                              /\ ctx[Frame(c[1])].moved
         /\ \A n \in Call0 : ctx[Frame(n)].moved <=> Copy(n) \in Copies
<1>1. Copies \subseteq Address /\ NONE \notin Copies
  BY Addresses DEF Copies
<1>2. ASSUME NEW n \in Call0, ctx[Frame(n)].moved
      PROVE  n <= calls
  <2>1. Aged(n)
    BY DEF Contexts
  <2>2. n \in Nat /\ calls \in Nat
    BY Typed, ClosuresAssumption DEF Call0
  <2>3. ~Unused.moved
    BY DEF Unused
  <2> QED BY <1>2, <2>1, <2>2, <2>3 DEF Aged
<1>3. ASSUME NEW c \in Copies
      PROVE  /\ ~OnStack(c) /\ c = Copy(c[1]) /\ c[1] \in Call0 /\ c[1] <= calls
             /\ ctx[c].live /\ ctx[c].moved
             /\ ctx[c].outer \in Copies \cup {NONE}
             /\ ctx[c].block \in Copies \cup {NONE}
             /\ ctx[Frame(c[1])].moved
  <2>1. PICK n \in Call0 : c = Copy(n) /\ ctx[Frame(n)].moved
    BY DEF Copies
  <2>2. Copied0(n)
    BY DEF Contexts
  <2>3. c[1] = n /\ ~OnStack(c)
    BY <2>1, Addresses
  <2> QED BY <1>2, <2>1, <2>2, <2>3 DEF Copied0
<1>4. ASSUME NEW n \in Call0 PROVE ctx[Frame(n)].moved <=> Copy(n) \in Copies
  <2>1. \A m \in Call0 : Copy(m) = Copy(n) => m = n
    BY Addresses
  <2> QED BY <2>1 DEF Copies
<1> QED BY <1>1, <1>3, <1>4

(* What each context in use is, and what it refers to.                     *)
LEMMA HeldFacts ==
  ASSUME ContextInv
  PROVE  /\ Held \subseteq Address /\ Runs \subseteq Held /\ Unmoved \subseteq Held
         /\ \A c \in Held : /\ c[1] \in Call0 /\ c[1] <= calls /\ ctx[Frame(c[1])].live
                            /\ OnStack(c) => c = Frame(c[1])
         /\ \A c \in Runs : c \in Copies \cup Unmoved
         /\ \A c \in Unmoved : OnStack(c) /\ ~ctx[c].moved
<1>1. Held \subseteq Address
  BY Typed DEF ContextInv, Held, Address0
<1>2. \A k \in DOMAIN ctl : ctl[k].op = "run" => ctl[k].at \in Address /\ (ctl[k].at \in Copies \/ (OnStack(ctl[k].at) /\ ~ctx[ctl[k].at].moved))
  BY DEF ContextInv, Frames, RightAt
<1>3. Runs \subseteq Held
  BY <1>2, Addresses DEF Runs, Held
<1>4. \A c \in Held : c[1] <= calls /\ ctx[Frame(c[1])].live
  BY DEF ContextInv, Frames, RightAt, Held
<1>5. \A c \in Runs : c \in Copies \cup Unmoved
  BY <1>2, <1>3 DEF Runs, Unmoved
<1> QED BY <1>1, <1>3, <1>4, <1>5, Addresses DEF Unmoved

LEMMA InvLower ==
  ASSUME ContextInv
  PROVE  Lower /\ \A c \in Address : ctx[c].block[1] < c[1]
<1>1. \A c \in Address : ctx[c].outer \in Address0
  BY Typed DEF ContextInv
<1>2. ASSUME NEW c \in Address PROVE ctx[c].outer[1] < c[1] /\ ctx[c].block[1] < c[1]
  <2>1. PICK n \in Call0 : n = c[1] /\ (c = Frame(n) \/ c = Copy(n))
    BY Addresses
  <2>2. Aged(n) /\ Copied0(n)
    BY DEF ContextInv, Contexts
  <2>3. Unused.outer[1] < n /\ Unused.block[1] < n
    BY <2>1, Addresses, ClosuresAssumption DEF Unused, Call0
  <2> QED BY <2>1, <2>2, <2>3 DEF Aged, Copied0
<1> QED BY <1>1, <1>2 DEF Lower

-----------------------------------------------------------------------------
(* A call with a context of its own *)

(* What a new context, later than all others, may refer to.                *)
Admitted(o, b) ==
    /\ o \in Address0 /\ b \in Address0
    /\ o # NONE => b = NONE
    /\ \/ o \in Copies \cup {NONE}
       \/ /\ o \in Runs
          /\ \A y \in Unmoved : (o[1] < y[1] /\ OnStack(ctx[y].outer)) => o[1] < ctx[y].outer[1]
    /\ \/ b \in Copies \cup {NONE}
       \/ OnStack(b) /\ (\E c \in Runs : c[1] = b[1]) /\ \A y \in Unmoved : ~(b[1] < y[1])

(* The calls in progress then; an iteration notes the context it made.     *)
Entering(n, o, b) ==
    /\ n = calls + 1 /\ n \in Call0 /\ calls' = n
    /\ ctx' = [ctx EXCEPT ![Frame(n)] =
                 [live |-> TRUE, outer |-> o, block |-> b, moved |-> FALSE, lvar |-> Uninit]]
    /\ procs' = procs /\ enums' = enums
    /\ ctl' \in Seq(Call) /\ Len(ctl') = Len(ctl) + 1 /\ Len(ctl') <= MaxDepth + 1
    /\ ctl'[Len(ctl) + 1] = Run(Frame(n))
    /\ \A k \in 1 .. Len(ctl) :
          \/ ctl'[k] = ctl[k]
          \/ /\ k = Len(ctl) /\ ctl[k].op = "each" /\ ctl[k].at = NONE
             /\ ctl'[k] = Builtin("each", ctl[k].blk, Frame(n))

LEMMA EnterKeeps ==
  ASSUME ContextInv, NEW n, NEW o, NEW b, Admitted(o, b), Entering(n, o, b)
  PROVE  ContextInv'
<1>0. PICK K : K = Len(ctl)
  OBVIOUS
<1>1. /\ n \in Call0 /\ n = calls + 1 /\ calls' = n /\ calls \in Nat /\ n \in Nat
      /\ Frame(n) \in Address /\ OnStack(Frame(n)) /\ Frame(n)[1] = n /\ o \in Address0 /\ b \in Address0
  <2>1. calls \in Nat
    BY Typed DEF ContextInv
  <2>2. n = calls + 1 /\ n \in Call0 /\ calls' = n
    BY DEF Entering
  <2>3. o \in Address0 /\ b \in Address0
    BY DEF Admitted
  <2> QED BY <2>1, <2>2, <2>3, Addresses
<1>2. /\ K \in Nat /\ DOMAIN ctl = 1 .. K /\ DOMAIN ctl' = 1 .. K + 1
      /\ ctl'[K + 1].op = "run" /\ ctl'[K + 1].at = Frame(n) /\ ctl'[K + 1].blk = NONE
  <2>1. K \in Nat /\ DOMAIN ctl = 1 .. K
    BY <1>0, Typed DEF ContextInv
  <2>2. ctl' \in Seq(Call) /\ Len(ctl') = K + 1 /\ ctl'[K + 1] = Run(Frame(n))
    BY <1>0 DEF Entering
  <2> QED BY <2>1, <2>2 DEF Run
<1>3. PICK new : new = [live |-> TRUE, outer |-> o, block |-> b, moved |-> FALSE, lvar |-> Uninit]
  OBVIOUS
<1>4. /\ new \in Context /\ new.live /\ new.outer = o /\ new.block = b /\ ~new.moved
  BY <1>1, <1>3 DEF Context, Address0
<1>5. /\ ctx' \in [Address -> Context] /\ ctx'[Frame(n)] = new
      /\ \A c \in Address : c # Frame(n) => ctx'[c] = ctx[c]
  <2>1. ctx \in [Address -> Context] /\ ctx' = [ctx EXCEPT ![Frame(n)] = new]
    BY <1>3 DEF Entering, ContextInv, TypeOK
  <2> QED BY <1>1, <1>4, <2>1
<1>6. ctx[Frame(n)] = Unused /\ ~Unused.moved
  <2>1. n > calls /\ Aged(n)
    BY <1>1 DEF ContextInv, Contexts
  <2> QED BY <2>1 DEF Aged, Unused
<1>7. \A c \in Address : ctx'[c].moved = ctx[c].moved
  <2>1. ctx[Frame(n)].moved = ctx'[Frame(n)].moved
    BY <1>3, <1>5, <1>6 DEF Unused
  <2> QED BY <1>5, <2>1
<1>8. Copies' = Copies
  <2>1. \A m \in Call0 : ctx'[Frame(m)].moved = ctx[Frame(m)].moved
    BY <1>7, Addresses
  <2> QED BY <2>1 DEF Copies
<1>9. \A k \in 1 .. K :
         /\ ctl'[k].op = ctl[k].op /\ ctl'[k].blk = ctl[k].blk
         /\ \/ ctl'[k].at = ctl[k].at
            \/ k = K /\ ctl[k].op = "each" /\ ctl[k].at = NONE /\ ctl'[k].at = Frame(n)
  <2> SUFFICES ASSUME NEW k \in 1 .. K
               PROVE  /\ ctl'[k].op = ctl[k].op /\ ctl'[k].blk = ctl[k].blk
                      /\ \/ ctl'[k].at = ctl[k].at
                         \/ k = K /\ ctl[k].op = "each" /\ ctl[k].at = NONE /\ ctl'[k].at = Frame(n)
    OBVIOUS
  <2>1. CASE ctl'[k] = ctl[k]
    BY <2>1
  <2>2. CASE k = K /\ ctl[k].op = "each" /\ ctl[k].at = NONE /\ ctl'[k] = Builtin("each", ctl[k].blk, Frame(n))
    BY <2>2 DEF Builtin
  <2> QED BY <1>0, <2>1, <2>2 DEF Entering
<1>10. /\ Frame(n) \notin Held /\ Copy(n) \notin Copies
       /\ \A c \in Held : c[1] < n /\ c \in Address /\ c # Frame(n) /\ ctx'[c] = ctx[c]
  <2>1. \A c \in Held : c[1] \in Nat /\ c[1] <= calls /\ c \in Address
    BY HeldFacts, Addresses
  <2>2. \A c \in Held : c[1] < n
    BY <1>1, <2>1
  <2>3. Copy(n) \notin Copies
    BY <1>1, <1>6, CopiesFacts DEF ContextInv
  <2> QED BY <1>1, <1>5, <2>1, <2>2, <2>3
<1>11. /\ Held' \subseteq Held \cup {Frame(n)} /\ Unmoved' \subseteq Unmoved \cup {Frame(n)}
       /\ Runs \subseteq Runs'
  <2>1. Held' \subseteq Held \cup {Frame(n)}
    <3>1. ASSUME NEW k \in 1 .. K + 1, ctl'[k].at # NONE PROVE ctl'[k].at \in Held \cup {Frame(n)}
      <4>1. CASE k = K + 1
        BY <1>2, <4>1
      <4>2. CASE k \in 1 .. K
        BY <1>2, <1>9, <3>1, <4>2 DEF Held
      <4> QED BY <1>2, <4>1, <4>2
    <3> QED BY <1>2, <3>1 DEF Held
  <2>2. Runs \subseteq Runs'
    <3>1. ASSUME NEW k \in 1 .. K, ctl[k].op = "run" PROVE k \in DOMAIN ctl' /\ ctl'[k].op = "run" /\ ctl'[k].at = ctl[k].at
      BY <1>2, <1>9, <3>1
    <3> QED BY <1>2, <3>1 DEF Runs
  <2>3. Unmoved' \subseteq Unmoved \cup {Frame(n)}
    BY <1>10, <2>1 DEF Unmoved, OnStack
  <2> QED BY <2>1, <2>2, <2>3
<1>12. TypeOK'
  BY <1>1, <1>5 DEF Entering, ContextInv, TypeOK, Call0
<1>13. Contexts'
  <2>1. ASSUME NEW m \in Call0 PROVE Aged(m)'
    <3>1. CASE m = n
      <4>1. o[1] < n /\ b[1] < n
        <5>1. \A c \in Copies \cup Runs \cup {NONE} : c[1] < n
          BY <1>1, <1>10, CopiesFacts, HeldFacts, Addresses DEF ContextInv
        <5> QED BY <5>1 DEF Admitted
      <4> QED BY <1>1, <1>4, <1>5, <3>1, <4>1 DEF Aged, Admitted
    <3>2. CASE m # n
      <4>1. ctx'[Frame(m)] = ctx[Frame(m)] /\ Aged(m)
        BY <1>1, <1>5, <3>2, Addresses DEF ContextInv, Contexts
      <4>2. m > calls' => m > calls
        BY <1>1, ClosuresAssumption DEF Call0
      <4> QED BY <4>1, <4>2 DEF Aged
    <3> QED BY <3>1, <3>2
  <2>2. ASSUME NEW m \in Call0 PROVE Copied0(m)'
    <3>1. ctx'[Copy(m)] = ctx[Copy(m)] /\ Copied0(m)
      BY <1>1, <1>5, Addresses DEF ContextInv, Contexts
    <3>2. CASE m = n
      BY <1>1, <1>4, <1>5, <1>6, <3>1, <3>2 DEF Copied0
    <3>3. CASE m # n
      <4>1. ctx'[Frame(m)] = ctx[Frame(m)]
        BY <1>1, <1>5, <3>3, Addresses
      <4> QED BY <1>8, <3>1, <4>1 DEF Copied0
    <3> QED BY <3>2, <3>3
  <2> QED BY <1>8, <2>1, <2>2 DEF Contexts, Entering, ContextInv
<1>14. Frames'
  <2>1. ASSUME NEW k \in 1 .. K PROVE RightAt(ctl[k])' /\ CalledBy(k)'
    <3>1. RightAt(ctl[k]) /\ CalledBy(k) /\ ctl[k].at \in Address0 /\ ctl[k].blk \in Address0
      BY <1>2, Typed DEF ContextInv, Frames
    <3>2. CalledBy(k)'
      <4>1. CASE ctl[k].op = "run"
        BY <1>9, <4>1 DEF CalledBy
      <4>2. CASE ctl[k].op # "run"
        <5>1. k > 1 /\ ctl[k - 1].op = "run"
          BY <3>1, <4>2 DEF CalledBy
        <5>2. k - 1 \in 1 .. K
          BY <1>2, <5>1
        <5>3. ctl'[k - 1].op = "run" /\ ctl'[k - 1].at = ctl[k - 1].at
          BY <1>9, <5>1, <5>2
        <5> QED BY <1>8, <1>9, <3>1, <4>2, <5>3 DEF CalledBy
      <4> QED BY <4>1, <4>2
    <3>3. RightAt(ctl[k])'
      <4>1. CASE ctl'[k].at = ctl[k].at
        <5>1. ASSUME ctl[k].at # NONE
              PROVE  /\ ctl[k].at \in Held /\ ctl[k].at[1] <= calls'
                     /\ ctx'[Frame(ctl[k].at[1])] = ctx[Frame(ctl[k].at[1])] /\ ctx'[ctl[k].at] = ctx[ctl[k].at]
          <6>1. ctl[k].at \in Held
            BY <1>2, <5>1 DEF Held
          <6>2. ctl[k].at[1] < n /\ ctl[k].at[1] \in Call0
            BY <1>10, <6>1, HeldFacts
          <6>3. Frame(ctl[k].at[1]) # Frame(n) /\ Frame(ctl[k].at[1]) \in Address
            BY <1>1, <6>2, Addresses
          <6> QED BY <1>1, <1>5, <1>10, <3>1, <6>1, <6>2, <6>3, ClosuresAssumption DEF RightAt, Call0
        <5>2. ctl[k].op = "run" => ctl[k].at # NONE
          BY <3>1, Addresses DEF RightAt
        <5> QED BY <1>8, <1>9, <3>1, <4>1, <5>1, <5>2 DEF RightAt
      <4>2. CASE ctl[k].op = "each" /\ ctl'[k].at = Frame(n)
        <5>1. ctl'[k].op = "each" /\ calls' = n /\ n <= n
          BY <1>1, <1>9, <4>2
        <5> QED BY <1>1, <1>4, <1>5, <4>2, <5>1 DEF RightAt
      <4> QED BY <1>9, <4>1, <4>2
    <3> QED BY <3>2, <3>3
  <2>2. RightAt(ctl[K + 1])' /\ CalledBy(K + 1)'
    <3>1. PICK e : e = ctl'[K + 1]
      OBVIOUS
    <3>2. e.op = "run" /\ e.at = Frame(n) /\ e.blk = NONE /\ e.at[1] = n
      BY <1>1, <1>2, <3>1
    <3>3. ctx'[Frame(n)].live /\ ~ctx'[Frame(n)].moved /\ calls' = n /\ n <= n
      BY <1>1, <1>4, <1>5
    <3>4. RightAt(ctl[K + 1])'
      BY <1>1, <3>1, <3>2, <3>3 DEF RightAt
    <3> QED BY <3>1, <3>2, <3>4 DEF CalledBy
  <2>3. ASSUME NEW k \in DOMAIN ctl' PROVE RightAt(ctl[k])' /\ CalledBy(k)'
    <3>1. k \in 1 .. K \/ k = K + 1
      BY <1>2
    <3> QED BY <2>1, <2>2, <3>1
  <2> QED BY <2>3 DEF Frames
<1>15. Ordered'
  <2>1. \A k \in 1 .. K : ctl[k].at # NONE => ctl[k].at[1] < n
    BY <1>2, <1>10 DEF Held
  <2> SUFFICES ASSUME NEW j \in 1 .. K + 1, NEW k \in 1 .. K + 1, j < k, ctl'[j].at # NONE, ctl'[k].at # NONE
               PROVE  Later(j, k)'
    BY <1>2 DEF Ordered
  <2>2. j \in 1 .. K
    BY <1>2
  <2>3. CASE k = K + 1
    <3>1. CASE ctl'[j].at = ctl[j].at
      BY <1>1, <1>2, <2>1, <2>2, <2>3, <3>1 DEF Later
    <3>2. CASE j = K /\ ctl'[j].op = "each" /\ ctl'[j].at = Frame(n)
      BY <1>1, <1>2, <2>3, <3>2 DEF Later
    <3> QED BY <1>9, <2>2, <3>1, <3>2
  <2>4. CASE k \in 1 .. K
    <3>1. j # K /\ ctl'[j].at = ctl[j].at
      <4>1. j # K
        BY <1>2, <2>4
      <4> QED BY <1>9, <2>2, <4>1
    <3>2. CASE ctl'[k].at = ctl[k].at
      <4>1. Later(j, k)
        BY <1>2, <2>2, <2>4, <3>1, <3>2 DEF ContextInv, Ordered
      <4> QED BY <1>9, <2>2, <2>4, <3>1, <3>2, <4>1 DEF Later
    <3>3. CASE ctl'[k].at = Frame(n)
      BY <1>1, <2>1, <2>2, <3>1, <3>3 DEF Later
    <3> QED BY <1>9, <2>4, <3>2, <3>3
  <2> QED BY <1>2, <2>3, <2>4
<1>16. Below'
  <2> SUFFICES ASSUME NEW x \in Unmoved'
               PROVE  /\ ctx'[x].outer \in Copies' \cup Runs' \cup {NONE}
                      /\ \/ ctx'[x].block \in Copies' \cup {NONE}
                         \/ OnStack(ctx'[x].block) /\ \E c \in Runs' : c[1] = ctx'[x].block[1]
    BY DEF Below, OnStack
  <2>1. CASE x \in Unmoved
    <3>1. ctx'[x] = ctx[x] /\ x \in Address
      BY <1>10, <2>1, HeldFacts
    <3>2. /\ ctx[x].outer \in Copies \cup Runs \cup {NONE}
          /\ \/ ctx[x].block \in Copies \cup {NONE}
             \/ OnStack(ctx[x].block) /\ \E c \in Runs : c[1] = ctx[x].block[1]
      BY <2>1 DEF ContextInv, Below
    <3> QED BY <1>8, <1>11, <3>1, <3>2
  <2>2. CASE x = Frame(n)
    <3>1. ctx'[x].outer = o /\ ctx'[x].block = b
      BY <1>4, <1>5, <2>2
    <3> QED BY <1>1, <1>8, <1>11, <3>1 DEF Admitted
  <2> QED BY <1>11, <2>1, <2>2
<1>17. Nested'
  <2> SUFFICES ASSUME NEW x \in Unmoved', NEW y \in Unmoved' PROVE NestedIn(x, y)'
    BY DEF Nested
  <2>1. CASE x \in Unmoved /\ y \in Unmoved
    <3>1. ctx'[x] = ctx[x] /\ ctx'[y] = ctx[y] /\ NestedIn(x, y)
      BY <1>10, <2>1, HeldFacts DEF ContextInv, Nested
    <3> QED BY <3>1 DEF NestedIn, OnStack
  <2>2. CASE y = Frame(n)
    <3>1. x[1] \in Nat /\ x[1] <= n
      BY <1>1, <1>10, <1>11, HeldFacts, Addresses
    <3>2. ~(y[1] < x[1])
      BY <1>1, <2>2, <3>1
    <3> QED BY <3>2 DEF NestedIn
  <2>3. CASE x = Frame(n) /\ y \in Unmoved
    <3>1. ctx'[x].outer = o /\ ctx'[x].block = b /\ ctx'[y] = ctx[y]
      BY <1>4, <1>5, <1>10, <2>3, HeldFacts
    <3>2. o \in Copies \cup {NONE} => ~OnStack(o)
      BY CopiesFacts, Addresses DEF ContextInv
    <3>3. b \in Copies \cup {NONE} => ~OnStack(b)
      BY CopiesFacts, Addresses DEF ContextInv
    <3> QED BY <2>3, <3>1, <3>2, <3>3 DEF NestedIn, Admitted, OnStack
  <2> QED BY <1>11, <2>1, <2>2, <2>3
<1> QED BY <1>12, <1>13, <1>14, <1>15, <1>16, <1>17 DEF ContextInv

-----------------------------------------------------------------------------
(* The latest call, and the scopes it sees *)

LEMMA TopFacts ==
  ASSUME ContextInv, ctl # <<>>
  PROVE  /\ Len(ctl) \in DOMAIN ctl /\ top = ctl[Len(ctl)] /\ Len(ctl) \in Nat \ {0}
         /\ RightAt(top) /\ CalledBy(Len(ctl))
         /\ top.at # NONE => top.at \in Held /\ \A y \in Held : y[1] <= top.at[1]
         /\ top.op = "run" => top.at \in Runs
<1>1. Len(ctl) \in DOMAIN ctl /\ top = ctl[Len(ctl)] /\ Len(ctl) \in Nat \ {0}
  <2>1. ctl \in Seq(Call) /\ DOMAIN ctl = 1 .. Len(ctl) /\ Len(ctl) \in Nat
    BY Typed DEF ContextInv
  <2>2. Len(ctl) # 0
    BY <2>1
  <2> QED BY <2>1, <2>2 DEF top, Last
<1>2. RightAt(top) /\ CalledBy(Len(ctl))
  BY <1>1 DEF ContextInv, Frames
<1>3. ASSUME top.at # NONE, NEW y \in Held PROVE y[1] <= top.at[1]
  <2>1. PICK k \in DOMAIN ctl : y = ctl[k].at /\ y # NONE
    BY DEF Held
  <2>2. k <= Len(ctl) /\ k \in Nat
    BY Typed DEF ContextInv
  <2>3. y[1] \in Nat /\ top.at[1] \in Nat
    <3>1. top.at \in Held
      BY <1>1, <1>3 DEF Held
    <3> QED BY <3>1, HeldFacts, Addresses
  <2>4. CASE k = Len(ctl)
    BY <1>1, <2>1, <2>3, <2>4
  <2>5. CASE k < Len(ctl)
    <3>1. Later(k, Len(ctl))
      BY <1>1, <1>3, <2>1, <2>5 DEF ContextInv, Ordered
    <3> QED BY <1>1, <2>1, <2>3, <3>1 DEF Later
  <2> QED BY <1>1, <2>2, <2>4, <2>5
<1> QED BY <1>1, <1>2, <1>3 DEF Held, Runs

(* A context that runs is the current copy of its number.                  *)
LEMMA RunsCurrent ==
  ASSUME ContextInv, NEW c \in Runs, NEW b \in Address, b[1] = c[1], OnStack(b) \/ b \in Copies
  PROVE  Current(b) = c
<1>1. c \in Copies \cup Unmoved /\ c \in Address /\ c[1] \in Call0
  BY HeldFacts
<1>2. CASE c \in Copies
  <2>1. c = Copy(c[1]) /\ ctx[Frame(c[1])].moved
    BY <1>2, CopiesFacts DEF ContextInv
  <2>2. b = Frame(c[1]) \/ (b = Copy(c[1]) /\ ~OnStack(b))
    BY Addresses
  <2>3. OnStack(Frame(c[1])) /\ HeapOf(Frame(c[1])) = Copy(c[1])
    BY <1>1, Addresses
  <2> QED BY <2>1, <2>2, <2>3 DEF Current
<1>3. CASE c \in Unmoved
  <2>1. OnStack(c) /\ ~ctx[c].moved /\ c = Frame(c[1])
    BY <1>1, <1>3, HeldFacts, Addresses
  <2>2. b \notin Copies
    BY <2>1, CopiesFacts DEF ContextInv
  <2>3. b = c
    BY <1>1, <2>1, <2>2, Addresses
  <2> QED BY <2>1, <2>3 DEF Current
<1> QED BY <1>1, <1>2, <1>3

(* The scopes of a context in use: first those on the stack, which are in  *)
(* progress, then those on the heap.                                       *)
LEMMA ScopeKinds ==
  ASSUME ContextInv, NEW t \in Copies \cup Unmoved, NEW D, Scoped(t, D)
  PROVE  /\ t \in Address /\ D \in Nat
         /\ \A d \in 0 .. D : Up(t, d) \in Copies \cup Unmoved
         /\ \A d \in 0 .. D : d > 0 => Up(t, d) \in Copies \cup Runs
         /\ \A d, e \in 0 .. D : (d <= e /\ Up(t, e) \in Unmoved) => Up(t, d) \in Unmoved
<1>1. t \in Address /\ D \in Nat /\ Up(t, 0) = t
  <2>1. t \in Address /\ Lower
    BY CopiesFacts, HeldFacts, InvLower DEF ContextInv
  <2>2. Up(t, 0) = t
    BY <2>1, ScopesFacts
  <2>3. D \in Nat
    BY ClosuresAssumption DEF Scoped
  <2> QED BY <2>1, <2>2, <2>3
<1>2. ASSUME NEW c \in Copies \cup Unmoved, ctx[c].outer # NONE
      PROVE  /\ ctx[c].outer \in Copies \cup Runs /\ ctx[c].outer \in Copies \cup Unmoved
             /\ c \in Copies => ctx[c].outer \in Copies
  BY <1>2, CopiesFacts, HeldFacts DEF ContextInv, Below
<1>3. ASSUME NEW d \in 0 .. D - 1
      PROVE  /\ Up(t, d + 1) = ctx[Up(t, d)].outer /\ Up(t, d + 1) # NONE
             /\ d \in 0 .. D /\ d + 1 \in 0 .. D
  <2>1. d \in 0 .. D /\ d + 1 \in 0 .. D
    BY <1>1
  <2> QED BY <2>1, Addresses DEF Scoped
<1>4. \A d \in 0 .. D : Up(t, d) \in Copies \cup Unmoved
  <2> DEFINE S == {d \in 0 .. D : Up(t, d) \in Copies \cup Unmoved}
  <2>1. 0 \in S
    BY <1>1
  <2>2. ASSUME NEW d \in 0 .. D - 1, d \in S PROVE d + 1 \in S
    BY <1>2, <1>3, <2>2
  <2> HIDE DEF S
  <2>3. 0 .. D \subseteq S
    BY <1>1, <2>1, <2>2, InductionTo
  <2> QED BY <2>3 DEF S
<1>5. ASSUME NEW d \in 0 .. D, d > 0 PROVE Up(t, d) \in Copies \cup Runs
  <2>1. d - 1 \in 0 .. D - 1 /\ (d - 1) + 1 = d
    BY <1>1, <1>5
  <2>2. PICK e : e = d - 1
    OBVIOUS
  <2>3. Up(t, e) \in Copies \cup Unmoved /\ Up(t, e + 1) = ctx[Up(t, e)].outer /\ Up(t, e + 1) # NONE /\ e + 1 = d
    BY <1>3, <1>4, <2>1, <2>2
  <2> QED BY <1>2, <2>3
<1>6. ASSUME NEW d \in 0 .. D, Up(t, d) \in Copies PROVE \A e \in 0 .. D : d <= e => Up(t, e) \in Copies
  <2> DEFINE S == {e \in 0 .. D : d <= e => Up(t, e) \in Copies}
  <2>1. 0 \in S
    <3>1. d <= 0 => d = 0
      BY <1>1
    <3> QED BY <1>1, <1>6, <3>1
  <2>2. ASSUME NEW e \in 0 .. D - 1, e \in S PROVE e + 1 \in S
    <3>1. CASE d <= e
      BY <1>2, <1>3, <2>2, <3>1
    <3>2. CASE ~(d <= e)
      <4>1. e + 1 \in 0 .. D /\ (d <= e + 1 => d = e + 1)
        BY <1>1, <3>2
      <4> QED BY <1>6, <4>1
    <3> QED BY <3>1, <3>2
  <2> HIDE DEF S
  <2>3. 0 .. D \subseteq S
    BY <1>1, <2>1, <2>2, InductionTo
  <2> QED BY <2>3 DEF S
<1>7. \A c \in Copies : c \notin Unmoved
  BY CopiesFacts, HeldFacts DEF ContextInv
<1> QED BY <1>1, <1>4, <1>5, <1>6, <1>7

(* What lies between the scopes of a context has its own scopes there.     *)
LEMMA Between ==
  ASSUME ContextInv, NEW t \in Unmoved, NEW D, Scoped(t, D), NEW e \in 0 .. D, Up(t, e) \in Unmoved,
         NEW y \in Unmoved, y[1] <= t[1], Up(t, e)[1] < y[1]
  PROVE  \/ \E d \in 0 .. e - 1 : y = Up(t, d)
         \/ OnStack(ctx[y].outer) => Up(t, e)[1] < ctx[y].outer[1]
<1>1. /\ t \in Address /\ D \in Nat /\ e \in Nat /\ Up(t, 0) = t
      /\ \A d \in 0 .. e : Up(t, d) \in Unmoved
  BY ScopeKinds, InvLower, ScopesFacts
<1>2. \A c \in Unmoved : c \in Address /\ c[1] \in Nat /\ OnStack(c)
  BY HeldFacts, Addresses
<1> DEFINE T == {n \in 0 .. e : Up(t, n)[1] < y[1]}
<1>3. e \in T /\ T \in SUBSET Nat
  BY <1>1
<1>4. PICK m \in T : \A n \in T : m <= n
  <2> HIDE DEF T
  <2> QED BY <1>3, Least
<1>5. m # 0
  BY <1>1, <1>2
<1>6. PICK p : p = m - 1
  OBVIOUS
<1>7. /\ p \in 0 .. e - 1 /\ p \in 0 .. e /\ p + 1 = m /\ p \notin T /\ p \in 0 .. D - 1 /\ m \in 0 .. e
      /\ m \in 0 .. D /\ p \in 0 .. D
  BY <1>1, <1>4, <1>5, <1>6
<1>8. PICK c : c = Up(t, p)
  OBVIOUS
<1>9. PICK l : l = Up(t, m)
  OBVIOUS
<1>10. c \in Unmoved /\ l \in Unmoved /\ l = ctx[c].outer /\ l[1] < y[1] /\ ~(c[1] < y[1])
  BY <1>1, <1>4, <1>7, <1>8, <1>9 DEF Scoped
<1>11. Up(t, e)[1] <= l[1]
  <2>1. m = e \/ m < e
    BY <1>1, <1>7
  <2>2. Up(t, e)[1] \in Nat /\ l[1] \in Nat
    BY <1>2, <1>10
  <2> QED BY <1>7, <1>9, <2>1, <2>2 DEF Scoped
<1>12. CASE c[1] = y[1]
  BY <1>2, <1>7, <1>8, <1>10, <1>12, FrameOf
<1>13. CASE y[1] < c[1]
  <2>1. NestedIn(c, y) /\ OnStack(l)
    BY <1>2, <1>10 DEF ContextInv, Nested
  <2>2. OnStack(ctx[y].outer) => l[1] < ctx[y].outer[1]
    BY <1>10, <1>13, <2>1 DEF NestedIn
  <2>3. ctx[y].outer[1] \in Nat
    BY <1>2, Typed, Addresses DEF ContextInv, Address0
  <2> QED BY <1>2, <1>10, <1>11, <2>2, <2>3
<1> QED BY <1>2, <1>10, <1>12, <1>13

-----------------------------------------------------------------------------
(* The calls of methods, blocks and procs *)

LEMMA EnterIsEntering ==
  ASSUME TypeOK, NEW o \in Address0, NEW b \in Address0, Enter(o, b, ctl)
  PROVE  Entering(calls + 1, o, b)
<1>1. calls \in Nat /\ MaxCalls \in Nat /\ MaxDepth \in Nat /\ ctl \in Seq(Call) /\ Len(ctl) \in Nat
  BY Typed, ClosuresAssumption
<1>2. /\ calls < MaxCalls /\ Len(ctl) < MaxDepth /\ calls' = calls + 1
      /\ ctl' = Append(ctl, Run(Frame(calls + 1))) /\ procs' = procs /\ enums' = enums
      /\ ctx' = [ctx EXCEPT ![Frame(calls + 1)] = [live |-> TRUE, outer |-> o, block |-> b, moved |-> FALSE, lvar |-> Uninit]]
  BY DEF Enter, Frame
<1>3. calls + 1 \in Call0
  BY <1>1, <1>2 DEF Call0
<1>4. Run(Frame(calls + 1)) \in Call
  BY <1>3, Addresses DEF Run, Call
<1>5. /\ ctl' \in Seq(Call) /\ Len(ctl') = Len(ctl) + 1 /\ ctl'[Len(ctl) + 1] = Run(Frame(calls + 1))
      /\ \A k \in 1 .. Len(ctl) : ctl'[k] = ctl[k]
  BY <1>1, <1>2, <1>4, AppendFacts
<1>6. Len(ctl') <= MaxDepth + 1
  BY <1>1, <1>2, <1>5
<1> QED BY <1>2, <1>3, <1>5, <1>6 DEF Entering

(* The first round of an iteration.                                        *)
LEMMA RoundIsEntering ==
  ASSUME TypeOK, ctl # <<>>, top.op = "each", top.at = NONE, NEW o \in Address0,
         Enter(o, NONE, Append(Front(ctl), Builtin("each", top.blk, <<calls + 1, "stack">>)))
  PROVE  Entering(calls + 1, o, NONE)
<1>1. calls \in Nat /\ MaxCalls \in Nat /\ MaxDepth \in Nat /\ ctl \in Seq(Call) /\ Len(ctl) \in Nat
  BY Typed, ClosuresAssumption
<1> DEFINE e == Builtin("each", top.blk, Frame(calls + 1))
           rest == Append(Front(ctl), e)
<1>2. /\ calls < MaxCalls /\ Len(rest) < MaxDepth /\ calls' = calls + 1
      /\ ctl' = Append(rest, Run(Frame(calls + 1))) /\ procs' = procs /\ enums' = enums
      /\ ctx' = [ctx EXCEPT ![Frame(calls + 1)] = [live |-> TRUE, outer |-> o, block |-> NONE, moved |-> FALSE, lvar |-> Uninit]]
  BY DEF Enter, Frame
<1>3. calls + 1 \in Call0
  BY <1>1, <1>2 DEF Call0
<1>4. PICK K : K = Len(ctl)
  OBVIOUS
<1>5. /\ K \in Nat \ {0} /\ top = ctl[K] /\ Front(ctl) \in Seq(Call) /\ Len(Front(ctl)) = K - 1
      /\ \A k \in 1 .. K - 1 : Front(ctl)[k] = ctl[k]
  BY <1>1, <1>4, FrontFacts DEF top
<1>6. e \in Call /\ Run(Frame(calls + 1)) \in Call
  <2>1. top \in Call
    BY <1>1, FrontFacts DEF top
  <2> QED BY <1>3, <2>1, Addresses DEF Run, Builtin, Call
<1>7. e = Builtin("each", ctl[K].blk, Frame(calls + 1)) /\ ctl[K].op = "each" /\ ctl[K].at = NONE
  BY <1>5
<1> HIDE DEF e
<1>8. /\ rest \in Seq(Call) /\ Len(rest) = K /\ rest[K] = e
      /\ \A k \in 1 .. K - 1 : rest[k] = ctl[k]
  <2>1. Front(ctl) \in Seq(Call) /\ Len(Front(ctl)) + 1 = K
    BY <1>5
  <2>2. rest \in Seq(Call) /\ Len(rest) = Len(Front(ctl)) + 1 /\ rest[Len(Front(ctl)) + 1] = e
        /\ \A k \in 1 .. Len(Front(ctl)) : rest[k] = Front(ctl)[k]
    BY <1>6, <2>1, AppendFacts
  <2> QED BY <1>5, <2>1, <2>2
<1> HIDE DEF rest
<1>9. /\ ctl' \in Seq(Call) /\ Len(ctl') = K + 1 /\ ctl'[K + 1] = Run(Frame(calls + 1))
      /\ \A k \in 1 .. K : ctl'[k] = rest[k]
  <2>1. /\ ctl' \in Seq(Call) /\ Len(ctl') = Len(rest) + 1 /\ ctl'[Len(rest) + 1] = Run(Frame(calls + 1))
        /\ \A k \in 1 .. Len(rest) : ctl'[k] = rest[k]
    BY <1>2, <1>6, <1>8, AppendFacts
  <2> QED BY <1>8, <2>1
<1>10. \A k \in 1 .. K : \/ ctl'[k] = ctl[k]
                         \/ /\ k = K /\ ctl[k].op = "each" /\ ctl[k].at = NONE
                            /\ ctl'[k] = Builtin("each", ctl[k].blk, Frame(calls + 1))
  BY <1>5, <1>7, <1>8, <1>9
<1>11. Len(ctl') <= MaxDepth + 1
  BY <1>1, <1>2, <1>8, <1>9
<1> QED BY <1>2, <1>3, <1>4, <1>9, <1>10, <1>11 DEF Entering

(* The block of a builtin method: the call below runs the context it       *)
(* refers to, and none is above.                                           *)
LEMMA CallerFacts ==
  ASSUME ContextInv, ctl # <<>>, top.op # "run"
  PROVE  /\ Len(ctl) - 1 \in DOMAIN ctl /\ ctl[Len(ctl) - 1].op = "run"
         /\ Current(top.blk) = ctl[Len(ctl) - 1].at /\ Current(top.blk) \in Runs
         /\ top.at = NONE => Admitted(Current(top.blk), NONE)
<1>1. PICK K : K = Len(ctl)
  OBVIOUS
<1>2. /\ K \in DOMAIN ctl /\ top = ctl[K] /\ K \in Nat /\ DOMAIN ctl = 1 .. K
      /\ top.blk \in Address /\ (OnStack(top.blk) \/ top.blk \in Copies)
      /\ K > 1 /\ ctl[K - 1].op = "run" /\ ctl[K - 1].at[1] = top.blk[1]
  BY <1>1, TopFacts, Typed DEF ContextInv, CalledBy
<1>3. PICK o : o = ctl[K - 1].at
  OBVIOUS
<1>4. K - 1 \in DOMAIN ctl /\ o \in Runs /\ o \in Address
  <2>1. K - 1 \in DOMAIN ctl
    BY <1>2
  <2>2. o \in Runs
    BY <1>2, <1>3, <2>1 DEF Runs
  <2> QED BY <2>1, <2>2, HeldFacts
<1>5. Current(top.blk) = o
  <2>1. PICK b : b = top.blk
    OBVIOUS
  <2>2. b \in Address /\ b[1] = o[1] /\ (OnStack(b) \/ b \in Copies)
    BY <1>2, <1>3, <2>1
  <2> QED BY <1>4, <2>1, <2>2, RunsCurrent
<1>6. ASSUME top.at = NONE, NEW y \in Unmoved, o[1] < y[1] PROVE FALSE
  <2>1. PICK k \in DOMAIN ctl : y = ctl[k].at /\ y # NONE
    BY HeldFacts DEF Held
  <2>2. k # K
    BY <1>2, <1>6, <2>1
  <2>3. y[1] \in Nat /\ o[1] \in Nat
    BY <1>4, HeldFacts, Addresses
  <2>4. CASE k = K - 1
    BY <1>3, <1>6, <2>1, <2>3, <2>4
  <2>5. CASE k < K - 1
    <3>1. Later(k, K - 1)
      BY <1>2, <1>3, <1>4, <2>1, <2>5, Addresses DEF ContextInv, Ordered
    <3> QED BY <1>3, <1>6, <2>1, <2>3, <3>1 DEF Later
  <2> QED BY <1>2, <2>1, <2>2, <2>4, <2>5
<1>7. ASSUME top.at = NONE PROVE Admitted(o, NONE)
  BY <1>4, <1>6, <1>7 DEF Admitted, Address0
<1> QED BY <1>1, <1>2, <1>3, <1>4, <1>5, <1>7

LEMMA MethodAdmitted ==
  ASSUME ContextInv, Running, NEW b \in {NONE, top.at} \cup procs
  PROVE  Admitted(NONE, b)
<1>1. ctl # <<>> /\ top.op = "run"
  BY DEF Running
<1>2. CASE b = NONE
  BY <1>2 DEF Admitted, Address0
<1>3. CASE b \in procs
  BY <1>3, CopiesFacts DEF Admitted, Address0, ContextInv, Contexts
<1>4. CASE b = top.at
  <2>1. b \in Runs /\ b \in Address /\ b # NONE
    BY <1>1, <1>4, TopFacts, HeldFacts, Addresses
  <2>2. ASSUME NEW y \in Unmoved PROVE ~(b[1] < y[1])
    <3>1. y[1] <= b[1]
      BY <1>1, <1>4, <2>1, TopFacts, HeldFacts
    <3>2. y[1] \in Nat /\ b[1] \in Nat
      BY <2>1, HeldFacts, Addresses
    <3> QED BY <3>1, <3>2
  <2>3. b \in Copies \/ OnStack(b)
    BY <2>1, HeldFacts
  <2> QED BY <2>1, <2>2, <2>3 DEF Admitted, Address0
<1> QED BY <1>2, <1>3, <1>4

(* yield: nothing between the block's context and the latest call refers   *)
(* past the block's context.                                               *)
LEMMA YieldAdmitted ==
  ASSUME ContextInv, Running, NEW b, b = ctx[MethodContext(top.at)].block, b # NONE
  PROVE  Admitted(Current(b), NONE)
<1>1. ctl # <<>> /\ top.op = "run"
  BY DEF Running
<1>2. PICK t : t = top.at
  OBVIOUS
<1>3. t \in Runs /\ t \in Address /\ t \in Copies \cup Unmoved /\ \A y \in Held : y[1] <= t[1]
  BY <1>1, <1>2, TopFacts, HeldFacts, Addresses
<1>4. PICK D : Scoped(t, D)
  BY <1>3, InvLower, ScopedFacts
<1>5. PICK r : r = Up(t, D)
  OBVIOUS
<1>6. D \in Nat /\ MethodContext(t) = r /\ r \in Copies \cup Unmoved /\ ctx[r].outer = NONE
  BY <1>3, <1>4, <1>5, InvLower, ScopesFacts, ScopeKinds DEF Scoped
<1>7. b = ctx[r].block /\ b \in Address
  <2>1. r \in Address
    BY <1>6, CopiesFacts, HeldFacts DEF ContextInv
  <2> QED BY <1>2, <1>6, <2>1, Typed DEF ContextInv, Address0
<1>8. CASE b \in Copies
  BY <1>8, CopiesFacts DEF Admitted, Address0, ContextInv, Current
<1>9. CASE b \notin Copies
  <2>1. r \in Unmoved
    BY <1>6, <1>7, <1>9, CopiesFacts DEF ContextInv
  <2>2. PICK c \in Runs : OnStack(b) /\ c[1] = b[1]
    BY <1>7, <1>9, <2>1 DEF ContextInv, Below
  <2>3. Current(b) = c /\ c \in Address
    BY <1>7, <2>2, RunsCurrent, HeldFacts
  <2>4. t \in Unmoved /\ OnStack(r) /\ r \in Address
    <3>1. 0 \in 0 .. D /\ D \in 0 .. D /\ 0 <= D /\ Up(t, 0) = t
      BY <1>3, <1>4, <1>6, InvLower, ScopesFacts
    <3> QED BY <1>3, <1>4, <1>5, <2>1, <3>1, ScopeKinds, HeldFacts
  <2>5. b[1] \in Nat /\ r[1] \in Nat /\ t[1] \in Nat /\ b[1] < r[1]
    BY <1>3, <1>7, <2>4, InvLower, Addresses
  <2>6. ASSUME NEW y \in Unmoved, b[1] < y[1], OnStack(ctx[y].outer)
        PROVE  b[1] < ctx[y].outer[1]
    <3>1. y \in Address /\ y[1] \in Nat /\ OnStack(y) /\ y[1] <= t[1] /\ ctx[y].outer[1] \in Nat
      BY <1>3, HeldFacts, Typed, Addresses DEF ContextInv, Address0
    <3>2. ~(y[1] < r[1])
      BY <1>7, <2>1, <2>2, <2>6 DEF ContextInv, Nested, NestedIn
    <3>3. y # r
      BY <1>6, <2>6, Addresses
    <3>4. r[1] < y[1]
      BY <2>4, <2>5, <3>1, <3>2, <3>3, FrameOf
    <3>5. D \in 0 .. D /\ Up(t, D) \in Unmoved
      BY <1>5, <1>6, <2>1
    <3>6. \/ \E d \in 0 .. D - 1 : y = Up(t, d)
          \/ OnStack(ctx[y].outer) => Up(t, D)[1] < ctx[y].outer[1]
      BY <1>4, <1>5, <2>4, <3>1, <3>4, <3>5, Between
    <3>7. CASE \E d \in 0 .. D - 1 : y = Up(t, d)
      <4>1. PICK d \in 0 .. D - 1 : y = Up(t, d)
        BY <3>7
      <4>2. d + 1 \in 0 .. D /\ (d + 1 = D \/ d + 1 < D)
        BY <1>6
      <4>3. ctx[y].outer = Up(t, d + 1)
        BY <1>4, <4>1 DEF Scoped
      <4>4. r[1] <= ctx[y].outer[1]
        BY <1>4, <1>5, <2>5, <3>1, <3>5, <4>2, <4>3 DEF Scoped
      <4> QED BY <2>5, <3>1, <4>4
    <3>8. CASE Up(t, D)[1] < ctx[y].outer[1]
      BY <1>5, <2>5, <3>1, <3>8
    <3> QED BY <2>6, <3>6, <3>7, <3>8
  <2> QED BY <2>2, <2>3, <2>6 DEF Admitted, Address0
<1> QED BY <1>8, <1>9

-----------------------------------------------------------------------------
(* Calls without a context of their own *)

(* A builtin called with a block, or another round of an iteration.        *)
Pushing(e) ==
    /\ e \in Call /\ RightAt(e) /\ ctl # <<>>
    /\ e.op # "run" => /\ e.at = NONE /\ e.blk \in Address /\ (OnStack(e.blk) \/ e.blk \in Copies)
                       /\ top.op = "run" /\ top.at[1] = e.blk[1]
    /\ e.op = "run" => /\ top.op = "each" /\ top.at # NONE /\ e.at[1] = top.at[1]
                       /\ e.at = top.at \/ e.at \in Copies

LEMMA PushKeeps ==
  ASSUME ContextInv, NEW e, Pushing(e), Push(e)
  PROVE  ContextInv'
<1>1. PICK K : K = Len(ctl)
  OBVIOUS
<1>2. /\ K \in Nat \ {0} /\ DOMAIN ctl = 1 .. K /\ DOMAIN ctl' = 1 .. K + 1 /\ ctl[K] = top
      /\ ctl'[K + 1] = e /\ \A k \in 1 .. K : ctl'[k] = ctl[k]
      /\ ctx' = ctx /\ calls' = calls /\ procs' = procs /\ enums' = enums
      /\ ctl' \in Seq(Call) /\ Len(ctl') <= MaxDepth + 1
  <2>1. ctl \in Seq(Call) /\ e \in Call /\ ctl' = Append(ctl, e) /\ ctl # <<>> /\ Len(ctl) < MaxDepth
    BY DEF Pushing, Push, ContextInv, TypeOK
  <2>2. K \in Nat \ {0} /\ ctl[K] = top /\ MaxDepth \in Nat
    BY <1>1, <2>1, TopFacts, ClosuresAssumption
  <2> QED BY <1>1, <2>1, <2>2, AppendFacts DEF Push
<1>3. Copies' = Copies
  BY <1>2 DEF Copies
<1>4. /\ Held' \subseteq Held \cup {e.at} /\ e.at \in Held' \cup {NONE} /\ Runs \subseteq Runs'
      /\ Unmoved' \subseteq Unmoved
  <2>1. Held' \subseteq Held \cup {e.at} /\ Runs \subseteq Runs' /\ e.at \in Held' \cup {NONE}
    <3>1. \A k \in 1 .. K + 1 : k \in 1 .. K \/ k = K + 1
      BY <1>2
    <3>2. \A k \in 1 .. K : k \in 1 .. K + 1
      BY <1>2
    <3> QED BY <1>2, <3>1, <3>2 DEF Held, Runs
  <2>2. e.at # NONE => e.at \in Copies \/ e.at \in Held
    <3>1. top.at # NONE => top.at \in Held
      BY <1>2 DEF Held
    <3> QED BY <3>1 DEF Pushing
  <2>3. \A c \in Copies : ~OnStack(c)
    BY CopiesFacts DEF ContextInv
  <2>4. NONE \notin Held'
    BY DEF Held
  <2> QED BY <1>2, <2>1, <2>2, <2>3, <2>4 DEF Unmoved, OnStack
<1>5. TypeOK'
  BY <1>2 DEF ContextInv, TypeOK
<1>6. Contexts'
  <2>1. \A n \in Call0 : Aged(n)'
    BY <1>2 DEF ContextInv, Contexts, Aged
  <2>2. \A n \in Call0 : Copied0(n)'
    BY <1>2, <1>3 DEF ContextInv, Contexts, Copied0
  <2> QED BY <1>2, <1>3, <2>1, <2>2 DEF ContextInv, Contexts
<1>7. Frames'
  <2>1. ASSUME NEW k \in 1 .. K PROVE RightAt(ctl[k])' /\ CalledBy(k)'
    <3>1. RightAt(ctl[k]) /\ CalledBy(k)
      BY <1>2 DEF ContextInv, Frames
    <3>2. RightAt(ctl[k])'
      BY <1>2, <1>3, <3>1 DEF RightAt, OnStack
    <3>3. k > 1 => k - 1 \in 1 .. K
      BY <1>2
    <3> QED BY <1>2, <1>3, <3>1, <3>2, <3>3 DEF CalledBy, OnStack
  <2>2. RightAt(ctl[K + 1])' /\ CalledBy(K + 1)'
    <3>1. RightAt(ctl[K + 1])'
      BY <1>2, <1>3 DEF Pushing, RightAt, OnStack
    <3>2. K + 1 > 1 /\ (K + 1) - 1 = K /\ ctl'[K] = top
      BY <1>2
    <3> QED BY <1>2, <1>3, <3>1, <3>2 DEF CalledBy, Pushing, OnStack
  <2>3. \A k \in 1 .. K + 1 : k \in 1 .. K \/ k = K + 1
    BY <1>2
  <2> QED BY <1>2, <2>1, <2>2, <2>3 DEF Frames
<1>8. Ordered'
  <2> SUFFICES ASSUME NEW j \in 1 .. K + 1, NEW k \in 1 .. K + 1, j < k, ctl'[j].at # NONE, ctl'[k].at # NONE
               PROVE  Later(j, k)'
    BY <1>2 DEF Ordered
  <2>1. j \in 1 .. K /\ ctl'[j] = ctl[j]
    BY <1>2
  <2>2. CASE k \in 1 .. K
    <3>1. ctl'[k] = ctl[k] /\ Later(j, k)
      BY <1>2, <2>1, <2>2 DEF ContextInv, Ordered
    <3> QED BY <2>1, <3>1 DEF Later
  <2>3. CASE k = K + 1
    <3>1. e.op = "run" /\ top.op = "each" /\ top.at # NONE /\ e.at[1] = top.at[1] /\ ctl'[k] = e
      <4>1. ctl'[k] = e /\ e \in Call
        BY <1>2, <2>3 DEF Pushing
      <4> QED BY <4>1 DEF Pushing
    <3>2. CASE j = K
      BY <1>2, <2>1, <2>3, <3>1, <3>2 DEF Later
    <3>3. CASE j # K
      <4>1. Later(j, K)
        BY <1>2, <2>1, <3>1, <3>3 DEF ContextInv, Ordered
      <4> QED BY <1>2, <2>1, <3>1, <4>1 DEF Later
    <3> QED BY <3>2, <3>3
  <2> QED BY <1>2, <2>2, <2>3
<1>9. Below'
  <2> SUFFICES ASSUME NEW x \in Unmoved'
               PROVE  /\ ctx'[x].outer \in Copies' \cup Runs' \cup {NONE}
                      /\ \/ ctx'[x].block \in Copies' \cup {NONE}
                         \/ OnStack(ctx'[x].block) /\ \E c \in Runs' : c[1] = ctx'[x].block[1]
    BY DEF Below, OnStack
  <2>1. /\ ctx[x].outer \in Copies \cup Runs \cup {NONE}
        /\ \/ ctx[x].block \in Copies \cup {NONE}
           \/ OnStack(ctx[x].block) /\ \E c \in Runs : c[1] = ctx[x].block[1]
    BY <1>4 DEF ContextInv, Below
  <2> QED BY <1>2, <1>3, <1>4, <2>1
<1>10. Nested'
  BY <1>2, <1>4 DEF ContextInv, Nested, NestedIn, OnStack
<1> QED BY <1>5, <1>6, <1>7, <1>8, <1>9, <1>10 DEF ContextInv

LEMMA BuiltinPushes ==
  ASSUME ContextInv, NEW op \in {"each", "native"}, CallBuiltin(op)
  PROVE  ContextInv'
<1>1. ctl # <<>> /\ top.op = "run" /\ Push(Builtin(op, top.at, NONE))
  BY DEF CallBuiltin, Running
<1>2. PICK t : t = top.at
  OBVIOUS
<1>3. t \in Address /\ (OnStack(t) \/ t \in Copies)
  BY <1>1, <1>2, TopFacts, HeldFacts
<1>4. PICK e : e = Builtin(op, t, NONE)
  OBVIOUS
<1>5. e \in Call /\ e.op = op /\ e.at = NONE /\ e.blk = t
  BY <1>3, <1>4 DEF Builtin, Call
<1>6. RightAt(e)
  BY <1>5 DEF RightAt
<1>7. Pushing(e)
  BY <1>1, <1>2, <1>3, <1>5, <1>6 DEF Pushing
<1> QED BY <1>1, <1>2, <1>4, <1>7, PushKeeps

(* The context of an iteration is in use again, where it is now.           *)
LEMMA RoundFacts ==
  ASSUME ContextInv, ctl # <<>>, top.op = "each", top.at # NONE
  PROVE  /\ Reused(top.at) \in Address /\ Reused(top.at)[1] = top.at[1]
         /\ Pushing(Run(Reused(top.at)))
<1>1. PICK t : t = top.at
  OBVIOUS
<1>2. t \in Address /\ t[1] \in Call0 /\ OnStack(t) /\ t = Frame(t[1]) /\ HeapOf(t) = Copy(t[1]) /\ RightAt(top)
  BY <1>1, TopFacts, HeldFacts, Addresses DEF RightAt
<1>3. PICK c : c = Current(t)
  OBVIOUS
<1>4. c \in Address /\ c[1] = t[1] /\ c # NONE
  <2>1. HeapOf(t) \in Address /\ HeapOf(t)[1] = t[1]
    BY <1>2, Addresses
  <2> QED BY <1>2, <1>3, <2>1, Addresses DEF Current
<1>5. \/ c = t /\ OnStack(c) /\ ~ctx[c].moved
      \/ c \in Copies
  BY <1>2, <1>3, CopiesFacts DEF Current, ContextInv
<1>6. PICK e : e = Run(c)
  OBVIOUS
<1>7. e \in Call /\ e.op = "run" /\ e.at = c /\ e.blk = NONE
  BY <1>4, <1>6 DEF Run, Call
<1>8. c[1] <= calls /\ ctx[Frame(c[1])].live
  BY <1>1, <1>2, <1>4, Addresses DEF RightAt
<1>9. RightAt(e)
  BY <1>4, <1>5, <1>7, <1>8 DEF RightAt
<1>10. Pushing(e)
  BY <1>1, <1>4, <1>5, <1>7, <1>9 DEF Pushing
<1> QED BY <1>1, <1>3, <1>4, <1>6, <1>10 DEF Reused

LEMMA ReturnFields ==
  ASSUME TypeOK, Return, NEW c \in Address
  PROVE  /\ ctx'[c] \in Context /\ ctx'[c].outer = ctx[c].outer /\ ctx'[c].block = ctx[c].block
         /\ ctx'[c].moved = ctx[c].moved /\ ctx'[c].lvar = ctx[c].lvar
         /\ ctx'[c].live <=> (ctx[c].live /\ c \notin Dropped(top, Front(ctl)))
<1>1. PICK gone : gone = Dropped(top, Front(ctl))
  OBVIOUS
<1>2. ctx[c] \in Context /\ ctx'[c] = [ctx[c] EXCEPT !.live = ctx[c].live /\ c \notin gone]
  BY <1>1, Typed DEF Return
<1>3. PICK l \in BOOLEAN : l = (ctx[c].live /\ c \notin gone)
  OBVIOUS
<1>4. ctx'[c] = [ctx[c] EXCEPT !.live = l]
  BY <1>2, <1>3
<1>5. /\ ctx'[c] \in Context /\ ctx'[c].outer = ctx[c].outer /\ ctx'[c].block = ctx[c].block
      /\ ctx'[c].moved = ctx[c].moved /\ ctx'[c].lvar = ctx[c].lvar /\ ctx'[c].live = l
  BY <1>2, <1>4 DEF Context
<1> QED BY <1>1, <1>3, <1>5

(* A call ends: the context it made is dropped, unless an iteration made   *)
(* it.                                                                     *)
LEMMA ReturnKeeps ==
  ASSUME ContextInv, Return
  PROVE  ContextInv'
<1>1. PICK K : K = Len(ctl)
  OBVIOUS
<1>2. PICK gone : gone = Dropped(top, Front(ctl))
  OBVIOUS
<1>3. /\ K \in Nat \ {0} /\ DOMAIN ctl = 1 .. K /\ DOMAIN ctl' = 1 .. K - 1 /\ ctl[K] = top
      /\ ctl' = Front(ctl) /\ \A k \in 1 .. K - 1 : ctl'[k] = ctl[k] /\ k \in 1 .. K
      /\ calls' = calls /\ procs' = procs /\ enums' = enums
      /\ ctl' \in Seq(Call) /\ Len(ctl') <= MaxDepth + 1
  <2>1. ctl # <<>> /\ ctl \in Seq(Call) /\ Len(ctl) <= MaxDepth + 1 /\ ctl' = Front(ctl) /\ MaxDepth \in Nat
    BY ClosuresAssumption DEF Return, ContextInv, TypeOK
  <2>2. /\ K \in Nat \ {0} /\ top = ctl[K] /\ Front(ctl) \in Seq(Call) /\ Len(Front(ctl)) = K - 1
        /\ \A k \in 1 .. K - 1 : Front(ctl)[k] = ctl[k]
    BY <1>1, <2>1, FrontFacts DEF top
  <2> QED BY <1>1, <2>1, <2>2 DEF Return
<1>4. ctx' = [c \in Address |-> [ctx[c] EXCEPT !.live = ctx[c].live /\ c \notin gone]]
  BY <1>2 DEF Return
<1>5. ASSUME NEW c \in Address
      PROVE  /\ ctx'[c] \in Context /\ ctx'[c].outer = ctx[c].outer /\ ctx'[c].block = ctx[c].block
             /\ ctx'[c].moved = ctx[c].moved /\ ctx'[c].lvar = ctx[c].lvar
             /\ ctx'[c].live <=> (ctx[c].live /\ c \notin gone)
  BY <1>2, ReturnFields DEF ContextInv
<1>6. \A c, d \in Context : (c.live = d.live /\ c.outer = d.outer /\ c.block = d.block /\ c.moved = d.moved /\ c.lvar = d.lvar) => c = d
  BY DEF Context
<1>7. ASSUME NEW c \in Address, ctx[c] = Unused PROVE ctx'[c] = Unused
  <2>1. ctx[c].live = FALSE /\ ctx[c] \in Context
    BY <1>7, Typed DEF Unused, ContextInv
  <2>2. ctx'[c].live \in BOOLEAN /\ ctx'[c].live = ctx[c].live
    BY <1>5, <2>1 DEF Context
  <2>3. ctx'[c] = ctx[c]
    BY <1>5, <1>6, <2>1, <2>2
  <2> QED BY <1>7, <2>3
<1>8. Copies' = Copies
  <2>1. \A n \in Call0 : ctx'[Frame(n)].moved = ctx[Frame(n)].moved
    BY <1>5, Addresses
  <2> QED BY <2>1 DEF Copies
<1>9. /\ Held' \subseteq Held /\ Unmoved' \subseteq Unmoved
      /\ \A c \in Runs : c \in Runs' \/ (c = top.at /\ top.op = "run")
  <2>1. Held' \subseteq Held
    BY <1>3 DEF Held
  <2>2. Unmoved' \subseteq Unmoved
    BY <1>5, <2>1, HeldFacts DEF Unmoved, OnStack
  <2>3. \A k \in 1 .. K : k = K \/ k \in 1 .. K - 1
    BY <1>3
  <2> QED BY <1>3, <2>1, <2>2, <2>3 DEF Runs
<1>10. ASSUME NEW j \in 1 .. K - 1, ctl[j].at # NONE, top.at # NONE
       PROVE  /\ ctl[j].at[1] <= top.at[1]
              /\ ctl[j].at[1] = top.at[1] => gone = {}
  <2>1. Later(j, K)
    BY <1>3, <1>10 DEF ContextInv, Ordered
  <2>2. ctl[j].at \in Held /\ top.at \in Held
    BY <1>3, <1>10 DEF Held
  <2>3. ctl[j].at[1] \in Nat /\ top.at[1] \in Nat
    BY <2>2, HeldFacts, Addresses
  <2>4. CASE ctl[j].at[1] < top.at[1]
    BY <2>3, <2>4
  <2>5. CASE ctl[j].at[1] = top.at[1] /\ ctl[j].op = "each"
    <3>1. OnStack(ctl[j].at)
      BY <1>3, <1>10, <2>5 DEF ContextInv, Frames, RightAt
    <3>2. ctl[j].at = Frame(top.at[1])
      BY <2>2, <2>5, <3>1, HeldFacts
    <3>3. j \in DOMAIN Front(ctl) /\ Front(ctl)[j].at = <<top.at[1], "stack">>
      BY <1>3, <3>2 DEF Frame
    <3> QED BY <1>2, <2>3, <2>5, <3>3 DEF Dropped
  <2> QED BY <1>3, <2>1, <2>3, <2>4, <2>5 DEF Later
<1>11. \A c \in gone : top.at # NONE /\ c = Frame(top.at[1]) /\ top.at[1] \in Call0
  <2>1. top.at # NONE => top.at \in Held
    BY <1>3 DEF Held
  <2> QED BY <1>2, <2>1, HeldFacts DEF Dropped, Frame
<1>12. ASSUME NEW c \in Held' PROVE ctx'[Frame(c[1])].live
  <2>1. PICK j \in 1 .. K - 1 : c = ctl[j].at /\ c # NONE
    BY <1>3 DEF Held
  <2>2. ctx[Frame(c[1])].live /\ Frame(c[1]) \in Address /\ c[1] \in Call0
    BY <1>9, HeldFacts, Addresses
  <2>3. Frame(c[1]) \notin gone
    <3>1. ASSUME Frame(c[1]) \in gone PROVE FALSE
      <4>1. top.at # NONE /\ Frame(c[1]) = Frame(top.at[1]) /\ top.at[1] \in Call0
        BY <1>11, <3>1
      <4>2. c[1] = top.at[1]
        BY <2>2, <4>1, Addresses
      <4> QED BY <1>10, <2>1, <3>1, <4>1, <4>2
    <3> QED BY <3>1
  <2> QED BY <1>5, <2>2, <2>3
<1>13. TypeOK'
  <2>1. ctx' \in [Address -> Context]
    BY <1>4, <1>5
  <2> QED BY <1>3, <2>1 DEF ContextInv, TypeOK
<1>14. Contexts'
  <2> SUFFICES ASSUME NEW n \in Call0 PROVE Aged(n)' /\ Copied0(n)'
    BY <1>3, <1>8 DEF ContextInv, Contexts
  <2>1. Frame(n) \in Address /\ Copy(n) \in Address /\ ~OnStack(Copy(n)) /\ Aged(n) /\ Copied0(n)
    BY Addresses DEF ContextInv, Contexts
  <2>2. Copy(n) \notin gone
    BY <1>11, <2>1, Addresses
  <2>3. Aged(n)'
    BY <1>3, <1>5, <1>7, <2>1 DEF Aged
  <2>4. Copied0(n)'
    BY <1>5, <1>7, <1>8, <2>1, <2>2 DEF Copied0
  <2> QED BY <2>3, <2>4
<1>15. Frames'
  <2> SUFFICES ASSUME NEW k \in 1 .. K - 1 PROVE RightAt(ctl[k])' /\ CalledBy(k)'
    BY <1>3 DEF Frames
  <2>1. RightAt(ctl[k]) /\ CalledBy(k) /\ ctl'[k] = ctl[k] /\ (k > 1 => k - 1 \in 1 .. K - 1)
    BY <1>3 DEF ContextInv, Frames
  <2>2. ctl[k].at # NONE => ctl[k].at \in Held' /\ ctl[k].at \in Address
    <3>1. ctl[k].at # NONE => ctl[k].at \in Held'
      BY <1>3, <2>1 DEF Held
    <3> QED BY <1>9, <3>1, HeldFacts
  <2>3. RightAt(ctl[k])'
    BY <1>3, <1>5, <1>8, <1>12, <2>1, <2>2, Addresses DEF RightAt, OnStack
  <2>4. CalledBy(k)'
    BY <1>3, <1>8, <2>1 DEF CalledBy, OnStack
  <2> QED BY <2>3, <2>4
<1>16. Ordered'
  BY <1>3 DEF ContextInv, Ordered, Later
<1>17. ASSUME NEW x \in Unmoved', NEW c \in Runs, c[1] < x[1]
       PROVE  c \in Runs'
  <2>1. PICK j \in 1 .. K - 1 : x = ctl[j].at /\ x # NONE
    BY <1>3 DEF Unmoved, Held
  <2>2. ASSUME c = top.at, top.op = "run" PROVE FALSE
    <3>1. c \in Address /\ x \in Address
      BY <1>9, HeldFacts
    <3>2. x[1] <= c[1] /\ x[1] \in Nat /\ c[1] \in Nat
      BY <1>10, <2>1, <2>2, <3>1, Addresses
    <3> QED BY <1>17, <3>2
  <2> QED BY <1>9, <2>2
<1>18. Below'
  <2> SUFFICES ASSUME NEW x \in Unmoved'
               PROVE  /\ ctx'[x].outer \in Copies' \cup Runs' \cup {NONE}
                      /\ \/ ctx'[x].block \in Copies' \cup {NONE}
                         \/ OnStack(ctx'[x].block) /\ \E c \in Runs' : c[1] = ctx'[x].block[1]
    BY DEF Below, OnStack
  <2>1. /\ x \in Address /\ x \in Unmoved
        /\ ctx'[x].outer = ctx[x].outer /\ ctx'[x].block = ctx[x].block
        /\ ctx[x].outer[1] < x[1] /\ ctx[x].block[1] < x[1]
    BY <1>5, <1>9, HeldFacts, InvLower DEF Lower
  <2>2. /\ ctx[x].outer \in Copies \cup Runs \cup {NONE}
        /\ \/ ctx[x].block \in Copies \cup {NONE}
           \/ OnStack(ctx[x].block) /\ \E c \in Runs : c[1] = ctx[x].block[1]
    BY <2>1 DEF ContextInv, Below
  <2> QED BY <1>8, <1>17, <2>1, <2>2
<1>19. Nested'
  <2> SUFFICES ASSUME NEW x \in Unmoved', NEW y \in Unmoved' PROVE NestedIn(x, y)'
    BY DEF Nested
  <2>1. x \in Unmoved /\ y \in Unmoved /\ x \in Address /\ y \in Address
    BY <1>9, HeldFacts
  <2>2. NestedIn(x, y)
    BY <2>1 DEF ContextInv, Nested
  <2>3. ctx'[x].outer = ctx[x].outer /\ ctx'[x].block = ctx[x].block /\ ctx'[y].outer = ctx[y].outer
    BY <1>5, <2>1
  <2> QED BY <2>2, <2>3 DEF NestedIn, OnStack
<1> QED BY <1>13, <1>14, <1>15, <1>16, <1>18, <1>19 DEF ContextInv

(* What a context reaches is in use.                                       *)
LEMMA UpInUse ==
  ASSUME ContextInv, Running, NEW d \in Nat, Up(top.at, d) # NONE
  PROVE  /\ Up(top.at, d) \in Address /\ Up(top.at, d) \in Copies \cup Unmoved
         /\ Up(top.at, d)[1] \in Call0 /\ Up(top.at, d)[1] <= calls
<1>1. PICK t : t = top.at
  OBVIOUS
<1>2. t \in Address /\ t \in Copies \cup Unmoved
  BY <1>1, TopFacts, HeldFacts DEF Running
<1>3. PICK D : Scoped(t, D)
  BY <1>2, InvLower, ScopedFacts
<1>4. D \in Nat
  BY <1>2, <1>3, ScopeKinds
<1>5. d \in 0 .. D
  BY <1>1, <1>3, <1>4 DEF Scoped
<1>6. PICK u : u = Up(t, d)
  OBVIOUS
<1>7. u \in Copies \cup Unmoved
  BY <1>2, <1>3, <1>5, <1>6, ScopeKinds
<1>8. u \in Address /\ u[1] \in Call0 /\ u[1] <= calls
  BY <1>7, CopiesFacts, HeldFacts DEF ContextInv
<1> QED BY <1>1, <1>6, <1>7, <1>8

LEMMA AssignKeeps ==
  ASSUME ContextInv, NEW u \in Copies \cup Unmoved, NEW v \in Val \cup {Uninit},
         ctx' = [ctx EXCEPT ![u].lvar = v], UNCHANGED <<calls, ctl, procs, enums>>
  PROVE  ContextInv'
<1>1. u \in Address /\ u[1] <= calls /\ u[1] \in Nat /\ calls \in Nat
  <2>1. u \in Address /\ u[1] <= calls
    BY CopiesFacts, HeldFacts DEF ContextInv
  <2> QED BY <2>1, Addresses, Typed DEF ContextInv
<1>2. PICK new : new = [ctx[u] EXCEPT !.lvar = v]
  OBVIOUS
<1>3. /\ new \in Context /\ new.live = ctx[u].live /\ new.outer = ctx[u].outer /\ new.block = ctx[u].block
      /\ new.moved = ctx[u].moved
  <2>1. ctx[u] \in Context
    BY <1>1, Typed DEF ContextInv
  <2> QED BY <1>2, <2>1 DEF Context
<1>4. /\ ctx' \in [Address -> Context] /\ ctx'[u] = new
      /\ \A c \in Address : c # u => ctx'[c] = ctx[c]
  <2>1. ctx \in [Address -> Context] /\ ctx' = [ctx EXCEPT ![u] = new]
    BY <1>2 DEF ContextInv, TypeOK
  <2> QED BY <1>1, <1>3, <2>1
<1>5. \A c \in Address : /\ ctx'[c].live = ctx[c].live /\ ctx'[c].outer = ctx[c].outer
                         /\ ctx'[c].block = ctx[c].block /\ ctx'[c].moved = ctx[c].moved
  <2> SUFFICES ASSUME NEW c \in Address
               PROVE  /\ ctx'[c].live = ctx[c].live /\ ctx'[c].outer = ctx[c].outer
                      /\ ctx'[c].block = ctx[c].block /\ ctx'[c].moved = ctx[c].moved
    OBVIOUS
  <2>1. CASE c = u
    BY <1>3, <1>4, <2>1
  <2>2. CASE c # u
    BY <1>4, <2>2
  <2> QED BY <2>1, <2>2
<1>6. calls' = calls /\ ctl' = ctl /\ procs' = procs /\ enums' = enums
  OBVIOUS
<1>7. Copies' = Copies
  <2>1. \A n \in Call0 : ctx'[Frame(n)].moved = ctx[Frame(n)].moved
    BY <1>5, Addresses
  <2> QED BY <2>1 DEF Copies
<1>8. Held' = Held /\ Runs' = Runs
  BY <1>6 DEF Held, Runs
<1>9. Unmoved' = Unmoved
  <2>1. \A c \in Held : ctx'[c].moved = ctx[c].moved
    BY <1>5, HeldFacts
  <2> QED BY <1>8, <2>1 DEF Unmoved, OnStack
<1>10. TypeOK'
  BY <1>4, <1>6 DEF ContextInv, TypeOK
<1>11. Contexts'
  <2> SUFFICES ASSUME NEW n \in Call0 PROVE Aged(n)' /\ Copied0(n)'
    BY <1>6, <1>7 DEF ContextInv, Contexts
  <2>1. Frame(n) \in Address /\ Copy(n) \in Address /\ Frame(n)[1] = n /\ Copy(n)[1] = n /\ Aged(n) /\ Copied0(n)
    BY Addresses DEF ContextInv, Contexts
  <2>2. n \in Nat
    BY ClosuresAssumption DEF Call0
  <2>3. n > calls => ctx'[Frame(n)] = ctx[Frame(n)]
    BY <1>1, <1>4, <2>1, <2>2
  <2>4. ~ctx[Frame(n)].moved => ctx'[Copy(n)] = ctx[Copy(n)]
    <3>1. ASSUME ~ctx[Frame(n)].moved, Copy(n) = u PROVE FALSE
      <4>1. u \notin Copies
        BY <3>1, CopiesFacts DEF ContextInv
      <4>2. OnStack(u) /\ ~OnStack(Copy(n))
        BY <4>1, HeldFacts, Addresses
      <4> QED BY <3>1, <4>2
    <3> QED BY <1>4, <2>1, <3>1
  <2>5. Aged(n)'
    BY <1>5, <1>6, <2>1, <2>3 DEF Aged
  <2>6. Copied0(n)'
    BY <1>5, <1>7, <2>1, <2>4 DEF Copied0
  <2> QED BY <2>5, <2>6
<1>12. Frames'
  <2> SUFFICES ASSUME NEW k \in DOMAIN ctl PROVE RightAt(ctl[k])' /\ CalledBy(k)'
    BY <1>6 DEF Frames
  <2>1. RightAt(ctl[k]) /\ CalledBy(k) /\ ctl[k].at \in Address0
    BY Typed DEF ContextInv, Frames
  <2>2. ctl[k].at # NONE => ctl[k].at \in Address /\ Frame(ctl[k].at[1]) \in Address
    BY <2>1, Addresses DEF Address0
  <2>3. ctl[k].op = "run" => ctl[k].at # NONE
    BY <2>1, Addresses DEF RightAt
  <2>4. RightAt(ctl[k])'
    BY <1>5, <1>6, <1>7, <2>1, <2>2, <2>3 DEF RightAt, OnStack
  <2> QED BY <1>6, <1>7, <2>1, <2>4 DEF CalledBy, OnStack
<1>13. Ordered'
  BY <1>6 DEF ContextInv, Ordered, Later
<1>14. \A x \in Unmoved : x \in Address
  BY HeldFacts
<1>15. Below'
  BY <1>5, <1>7, <1>8, <1>9, <1>14 DEF ContextInv, Below, OnStack
<1>16. Nested'
  <2> SUFFICES ASSUME NEW x \in Unmoved, NEW y \in Unmoved PROVE NestedIn(x, y)'
    BY <1>9 DEF Nested
  <2>1. NestedIn(x, y) /\ x \in Address /\ y \in Address
    BY <1>14 DEF ContextInv, Nested
  <2> QED BY <1>5, <2>1 DEF NestedIn, OnStack
<1> QED BY <1>10, <1>11, <1>12, <1>13, <1>15, <1>16 DEF ContextInv

LEMMA EnumKeeps ==
  ASSUME ContextInv, ~Enumerators, MakeEnum
  PROVE  ContextInv'
<1>1. /\ calls' = calls /\ ctl' = ctl /\ procs' = procs /\ ctx' = ctx /\ enums' = enums \cup {top.at}
      /\ ctl # <<>> /\ top.op = "run" /\ ~OnStack(top.at)
  BY DEF MakeEnum, Running
<1>2. top.at \in Copies /\ top.at \in Address
  <2>1. top.at \in Runs
    BY <1>1, TopFacts
  <2> QED BY <1>1, <2>1, HeldFacts
<1>3. Copies' = Copies /\ Held' = Held /\ Runs' = Runs /\ Unmoved' = Unmoved
  BY <1>1 DEF Copies, Held, Runs, Unmoved, OnStack
<1>4. TypeOK'
  BY <1>1, <1>2 DEF ContextInv, TypeOK
<1>5. Contexts'
  BY <1>1, <1>2, <1>3 DEF ContextInv, Contexts, Aged, Copied0
<1>6. Frames'
  BY <1>1, <1>3 DEF ContextInv, Frames, RightAt, CalledBy, OnStack
<1>7. Ordered' /\ Below' /\ Nested'
  BY <1>1, <1>3 DEF ContextInv, Ordered, Later, Below, Nested, NestedIn, OnStack
<1> QED BY <1>4, <1>5, <1>6, <1>7 DEF ContextInv

-----------------------------------------------------------------------------
(* The move to the heap *)

(* The contexts in scope that are on the stack move.                       *)
LEMMA MovingIs ==
  ASSUME ContextInv, Running, NEW D, Scoped(top.at, D)
  PROVE  Moving(top.at) = {Up(top.at, d) : d \in 0 .. D} \cap Unmoved
<1>1. PICK t : t = top.at
  OBVIOUS
<1>2. PICK M : M = Moving(t)
  OBVIOUS
<1>3. t \in Copies \cup Unmoved /\ Scoped(t, D)
  BY <1>1, TopFacts, HeldFacts DEF Running
<1>4. /\ D \in Nat /\ D \in 0 .. MaxCalls /\ MaxCalls \in Nat
      /\ \A d \in Nat : d > D => Up(t, d) = NONE
      /\ \A d \in 0 .. D : Up(t, d) \in Copies \cup Unmoved /\ Up(t, d) # NONE
      /\ \A d, e \in 0 .. D : (d <= e /\ Up(t, e) \in Unmoved) => Up(t, d) \in Unmoved
  BY <1>3, ScopeKinds, Addresses, ClosuresAssumption DEF Scoped
<1>5. /\ \A c \in Copies : ~OnStack(c)
      /\ \A c \in Unmoved : OnStack(c)
  BY CopiesFacts, HeldFacts DEF ContextInv
<1>6. ASSUME NEW s \in M PROVE \E d \in 0 .. D : s = Up(t, d) /\ s \in Unmoved
  <2>1. PICK d \in 0 .. MaxCalls : s = Up(t, d) /\ \A k \in 0 .. d : Up(t, k) # NONE /\ OnStack(Up(t, k))
    BY <1>2 DEF Moving
  <2>2. d \in Nat /\ d \in 0 .. d
    BY <1>4
  <2>3. Up(t, d) # NONE /\ OnStack(Up(t, d))
    BY <2>1, <2>2
  <2>4. d \in 0 .. D
    BY <1>4, <2>2, <2>3
  <2> QED BY <1>4, <1>5, <2>1, <2>3, <2>4
<1>7. ASSUME NEW d \in 0 .. D, Up(t, d) \in Unmoved PROVE Up(t, d) \in M
  <2>1. d \in 0 .. MaxCalls
    BY <1>4
  <2>2. ASSUME NEW k \in 0 .. d PROVE Up(t, k) # NONE /\ OnStack(Up(t, k))
    <3>1. k \in 0 .. D /\ k <= d
      BY <1>4
    <3> QED BY <1>4, <1>5, <1>7, <3>1
  <2> QED BY <1>2, <2>1, <2>2 DEF Moving
<1> QED BY <1>1, <1>2, <1>6, <1>7

(* What moves is in progress, refers to what moves or has moved, and no    *)
(* other context on the stack refers to it.                                *)
LEMMA MovingFacts ==
  ASSUME ContextInv, Running, NEW M, M = Moving(top.at)
  PROVE  /\ \A s \in M : /\ s \in Address /\ s \in Unmoved /\ s \in Runs
                         /\ ctx[s].outer \in M \cup Copies \cup {NONE}
         /\ \A y \in Unmoved : y \notin M => ctx[y].outer \notin M
         /\ top.at \in M \cup Copies
         /\ \A s \in M : ctx[s].outer = NONE => s = MethodContext(top.at)
<1>1. PICK t : t = top.at
  OBVIOUS
<1>2. t \in Address /\ t \in Copies \cup Unmoved /\ t \in Runs /\ \A y \in Held : y[1] <= t[1]
  BY <1>1, TopFacts, HeldFacts, Addresses DEF Running
<1>3. PICK D : Scoped(t, D)
  BY <1>2, InvLower, ScopedFacts
<1>4. /\ D \in Nat /\ D \in 0 .. MaxCalls /\ MaxCalls \in Nat /\ Up(t, 0) = t
      /\ \A d \in Nat : d > D => Up(t, d) = NONE
      /\ \A d \in 0 .. D : Up(t, d) \in Copies \cup Unmoved /\ Up(t, d) \in Address /\ Up(t, d) # NONE
      /\ \A d \in 0 .. D : d > 0 => Up(t, d) \in Copies \cup Runs
      /\ \A d, e \in 0 .. D : (d <= e /\ Up(t, e) \in Unmoved) => Up(t, d) \in Unmoved
      /\ MethodContext(t) = Up(t, D)
  BY <1>2, <1>3, ScopeKinds, ScopesFacts, InvLower, Addresses, ClosuresAssumption DEF Scoped
<1>5. \A c \in Copies : ~OnStack(c) /\ c \notin Unmoved
  BY CopiesFacts, HeldFacts DEF ContextInv
<1>6. \A c \in Unmoved : OnStack(c)
  BY HeldFacts
<1>7. \A s \in M : \E d \in 0 .. D : s = Up(t, d) /\ s \in Unmoved
  BY <1>1, <1>3, MovingIs
<1>8. \A d \in 0 .. D : Up(t, d) \in Unmoved => Up(t, d) \in M
  BY <1>1, <1>3, MovingIs
<1>9. ASSUME NEW s \in M
      PROVE  /\ s \in Address /\ s \in Unmoved /\ s \in Runs
             /\ ctx[s].outer \in M \cup Copies \cup {NONE}
             /\ ctx[s].outer = NONE => s = MethodContext(t)
  <2>1. PICK d \in 0 .. D : s = Up(t, d) /\ s \in Unmoved
    BY <1>7
  <2>2. s \in Runs
    <3>1. d = 0 \/ d > 0
      BY <1>4
    <3> QED BY <1>2, <1>4, <1>5, <2>1, <3>1
  <2>3. CASE d = D
    <3>1. ctx[s].outer = NONE
      BY <1>3, <2>1, <2>3 DEF Scoped
    <3> QED BY <1>4, <2>1, <2>2, <2>3, <3>1
  <2>4. CASE d # D
    <3>1. d \in 0 .. D - 1 /\ d + 1 \in 0 .. D
      BY <1>4, <2>4
    <3>2. PICK e : e = d + 1
      OBVIOUS
    <3>3. ctx[s].outer = Up(t, e) /\ e \in 0 .. D
      BY <1>3, <2>1, <3>1, <3>2 DEF Scoped
    <3>4. ctx[s].outer # NONE /\ ctx[s].outer \in M \cup Copies
      BY <1>4, <1>8, <3>3
    <3> QED BY <1>4, <2>1, <2>2, <3>4
  <2> QED BY <2>3, <2>4
<1>10. ASSUME NEW y \in Unmoved, y \notin M, ctx[y].outer \in M PROVE FALSE
  <2>1. PICK s : s = ctx[y].outer
    OBVIOUS
  <2>2. PICK e \in 0 .. D : s = Up(t, e) /\ s \in Unmoved
    BY <1>7, <1>10, <2>1
  <2>3. y \in Address /\ y[1] <= t[1] /\ s[1] < y[1] /\ s[1] \in Nat /\ OnStack(s)
    BY <1>2, <2>1, <2>2, HeldFacts, InvLower, Addresses DEF Lower
  <2>4. t \in Unmoved
    <3>1. 0 \in 0 .. D /\ 0 <= e
      BY <1>4
    <3> QED BY <1>4, <2>2, <3>1
  <2>5. \/ \E d \in 0 .. e - 1 : y = Up(t, d)
        \/ OnStack(ctx[y].outer) => Up(t, e)[1] < ctx[y].outer[1]
    BY <1>3, <2>2, <2>3, <2>4, Between
  <2>6. CASE \E d \in 0 .. e - 1 : y = Up(t, d)
    <3>1. PICK d \in 0 .. e - 1 : y = Up(t, d)
      BY <2>6
    <3>2. d \in 0 .. D
      BY <1>4
    <3> QED BY <1>8, <1>10, <3>1, <3>2
  <2>7. CASE s[1] < s[1]
    BY <2>3, <2>7
  <2> QED BY <2>1, <2>2, <2>3, <2>5, <2>6, <2>7
<1>11. t \in M \cup Copies
  <2>1. 0 \in 0 .. D
    BY <1>4
  <2> QED BY <1>2, <1>4, <1>8, <2>1
<1> QED BY <1>1, <1>9, <1>10, <1>11

(* A method that has a block may not be copied while the block's context   *)
(* is on the stack.                                                        *)
Uncaptured == LET b == ctx[MethodContext(top.at)].block IN b = NONE \/ ~OnStack(b)

LEMMA MovingBlocks ==
  ASSUME ContextInv, Running, Uncaptured, NEW s \in Moving(top.at)
  PROVE  ctx[s].block \in Copies \cup {NONE}
<1>1. PICK M : M = Moving(top.at)
  OBVIOUS
<1>2. s \in Address /\ s \in Unmoved /\ (ctx[s].outer = NONE => s = MethodContext(top.at))
  BY <1>1, MovingFacts
<1>3. s = Frame(s[1]) /\ s[1] \in Call0
  BY <1>2, HeldFacts
<1>4. CASE ctx[s].outer # NONE
  BY <1>3, <1>4 DEF ContextInv, Contexts, Aged
<1>5. CASE ctx[s].outer = NONE
  <2>1. ctx[s].block = NONE \/ ~OnStack(ctx[s].block)
    BY <1>2, <1>5 DEF Uncaptured
  <2> QED BY <1>2, <2>1 DEF ContextInv, Below
<1> QED BY <1>4, <1>5

(* What the move changes: the frames it marks, their copies and the calls  *)
(* that run them.                                                          *)
LEMMA MoveEffects ==
  ASSUME ContextInv, MakeProc, NEW M, M = Moving(top.at)
  PROVE  /\ calls' = calls /\ enums' = enums
         /\ procs' = procs \cup {HeapOf(top.at)}
         /\ \A n \in Call0 :
               LET f == Frame(n)  c == Copy(n) IN
               /\ ctx'[f] \in Context /\ ctx'[c] \in Context
               /\ f \notin M => ctx'[f] = ctx[f] /\ ctx'[c] = ctx[c]
               /\ f \in M => /\ n <= calls /\ ctx[f].live /\ ~ctx[f].moved
                             /\ ctx'[f].live /\ ctx'[f].moved /\ ctx'[c].live /\ ctx'[c].moved
                             /\ ctx'[f].outer = ctx[f].outer /\ ctx'[c].outer = OuterMoved(ctx[f].outer, M)
                             /\ ctx'[f].block = ctx[f].block /\ ctx'[c].block = ctx[f].block
                             /\ ctx'[c].lvar = ctx[f].lvar
         /\ ctx' \in [Address -> Context]
         /\ ctl' \in Seq(Call) /\ Len(ctl') = Len(ctl) /\ DOMAIN ctl' = DOMAIN ctl
         /\ \A k \in DOMAIN ctl :
               \/ ctl'[k] = ctl[k] /\ (ctl[k].op = "run" => ctl[k].at \notin M)
               \/ /\ ctl[k].op = "run" /\ ctl[k].at \in M
                  /\ ctl'[k] = Run(Copy(ctl[k].at[1]))
<1>1. Running /\ calls' = calls /\ enums' = enums /\ procs' = procs \cup {HeapOf(top.at)}
      /\ ctx' = Copied(M) /\ ctl' = Redirected(M)
  BY DEF MakeProc
<1>2. \A s \in M : s \in Address /\ s \in Unmoved /\ ctx[s].outer \in M \cup Copies \cup {NONE}
  BY <1>1, MovingFacts
<1>3. \A s \in M : OnStack(s) /\ s = Frame(s[1]) /\ s[1] \in Call0 /\ s[1] <= calls /\ ctx[s].live /\ ~ctx[s].moved /\ HeapOf(s) = Copy(s[1])
  BY <1>2, HeldFacts, Addresses
<1>4. \A s \in M : OuterMoved(ctx[s].outer, M) \in Address0
  <2> SUFFICES ASSUME NEW s \in M PROVE OuterMoved(ctx[s].outer, M) \in Address0
    OBVIOUS
  <2>1. ctx[s].outer \in Address0
    BY <1>2, Typed DEF ContextInv
  <2>2. ctx[s].outer \in M => HeapOf(ctx[s].outer) \in Address
    BY <1>3, Addresses
  <2> QED BY <2>1, <2>2 DEF OuterMoved, Address0
<1>5. ASSUME NEW n \in Call0
      PROVE  LET f == Frame(n)  c == Copy(n) IN
               /\ ctx'[f] \in Context /\ ctx'[c] \in Context
               /\ f \notin M => ctx'[f] = ctx[f] /\ ctx'[c] = ctx[c]
               /\ f \in M => /\ n <= calls /\ ctx[f].live /\ ~ctx[f].moved
                             /\ ctx'[f].live /\ ctx'[f].moved /\ ctx'[c].live /\ ctx'[c].moved
                             /\ ctx'[f].outer = ctx[f].outer /\ ctx'[c].outer = OuterMoved(ctx[f].outer, M)
                             /\ ctx'[f].block = ctx[f].block /\ ctx'[c].block = ctx[f].block
                             /\ ctx'[c].lvar = ctx[f].lvar
  <2>1. PICK f : f = Frame(n)
    OBVIOUS
  <2>2. PICK c : c = Copy(n)
    OBVIOUS
  <2>3. f \in Address /\ c \in Address /\ OnStack(f) /\ ~OnStack(c) /\ f # c /\ c[1] = n /\ f[1] = n
        /\ <<c[1], "stack">> = f /\ c \notin M
    <3>1. f \in Address /\ c \in Address /\ OnStack(f) /\ ~OnStack(c) /\ f # c /\ c[1] = n /\ f[1] = n
      BY <2>1, <2>2, Addresses
    <3> QED BY <1>3, <2>1, <3>1 DEF Frame
  <2>4. PICK s : s = ctx[f]
    OBVIOUS
  <2>5. s \in Context /\ ctx[c] \in Context
    BY <2>3, <2>4, Typed DEF ContextInv
  <2>6. CASE f \notin M
    <3>1. ctx'[f] = ctx[f] /\ ctx'[c] = ctx[c]
      BY <1>1, <2>3, <2>6 DEF Copied
    <3> QED BY <2>1, <2>2, <2>4, <2>5, <2>6, <3>1
  <2>7. CASE f \in M
    <3>1. PICK o : o = OuterMoved(s.outer, M)
      OBVIOUS
    <3>2. PICK a : a = [s EXCEPT !.moved = TRUE]
      OBVIOUS
    <3>3. o \in Address0
      BY <1>4, <2>4, <2>7, <3>1
    <3>4. ctx'[f] = a
      BY <1>1, <2>3, <2>4, <2>7, <3>2 DEF Copied
    <3>5. ctx'[c] = [a EXCEPT !.outer = o]
      BY <1>1, <2>3, <2>4, <2>7, <3>1, <3>2 DEF Copied
    <3>6. /\ a \in Context /\ a.moved = TRUE /\ a.live = s.live /\ a.outer = s.outer /\ a.block = s.block
          /\ a.lvar = s.lvar
      BY <2>5, <3>2 DEF Context
    <3>7. PICK e : e = [a EXCEPT !.outer = o]
      OBVIOUS
    <3>8. /\ e \in Context /\ e.outer = o /\ e.live = a.live /\ e.moved = a.moved /\ e.block = a.block
          /\ e.lvar = a.lvar
      BY <3>3, <3>6, <3>7 DEF Context, Address0
    <3>9. n <= calls /\ s.live /\ ~s.moved
      BY <1>3, <2>3, <2>4, <2>7
    <3> QED BY <2>1, <2>2, <2>4, <2>7, <3>1, <3>4, <3>5, <3>6, <3>7, <3>8, <3>9
  <2> QED BY <2>6, <2>7
<1>6. ctx' \in [Address -> Context]
  <2>1. DOMAIN ctx' = Address /\ ctx' = [c \in Address |-> ctx'[c]]
    BY <1>1 DEF Copied
  <2>2. \A c \in Address : ctx'[c] \in Context
    <3>1. \A c \in Address : \E n \in Call0 : c = Frame(n) \/ c = Copy(n)
      BY Addresses
    <3> QED BY <1>5, <3>1
  <2> QED BY <2>1, <2>2
<1>7. ASSUME NEW k \in DOMAIN ctl
      PROVE  \/ ctl'[k] = ctl[k] /\ (ctl[k].op = "run" => ctl[k].at \notin M)
             \/ /\ ctl[k].op = "run" /\ ctl[k].at \in M
                /\ ctl'[k] = Run(Copy(ctl[k].at[1]))
  BY <1>1, <1>3 DEF Redirected
<1>8. ctl' \in Seq(Call) /\ Len(ctl') = Len(ctl) /\ DOMAIN ctl' = DOMAIN ctl
  <2>1. Len(ctl) \in Nat /\ DOMAIN ctl = 1 .. Len(ctl) /\ ctl \in Seq(Call)
    BY Typed DEF ContextInv
  <2>2. \A k \in DOMAIN ctl : ctl'[k] \in Call
    <3>1. \A n \in Call0 : Run(Copy(n)) \in Call
      BY Addresses DEF Run, Call
    <3> QED BY <1>3, <1>7, <2>1, <3>1
  <2>3. DOMAIN ctl' = 1 .. Len(ctl) /\ ctl' = [k \in 1 .. Len(ctl) |-> ctl'[k]]
    BY <1>1, <2>1 DEF Redirected
  <2>4. ctl' \in [1 .. Len(ctl) -> Call]
    BY <2>1, <2>2, <2>3
  <2> QED BY <2>1, <2>4
<1> QED BY <1>1, <1>5, <1>6, <1>7, <1>8

LEMMA MoveKeeps ==
  ASSUME ContextInv, ~CapturedBlocks, MakeProc
  PROVE  ContextInv'
<1>1. PICK M : M = Moving(top.at)
  OBVIOUS
<1>2. /\ calls' = calls /\ enums' = enums /\ procs' = procs \cup {HeapOf(top.at)}
      /\ ctx' \in [Address -> Context]
      /\ ctl' \in Seq(Call) /\ Len(ctl') = Len(ctl) /\ DOMAIN ctl' = DOMAIN ctl
  BY <1>1, MoveEffects
<1>3. ASSUME NEW n \in Call0
      PROVE  LET f == Frame(n)  c == Copy(n) IN
               /\ f \notin M => ctx'[f] = ctx[f] /\ ctx'[c] = ctx[c]
               /\ f \in M => /\ n <= calls /\ ctx[f].live /\ ~ctx[f].moved
                             /\ ctx'[f].live /\ ctx'[f].moved /\ ctx'[c].live /\ ctx'[c].moved
                             /\ ctx'[f].outer = ctx[f].outer /\ ctx'[c].outer = OuterMoved(ctx[f].outer, M)
                             /\ ctx'[f].block = ctx[f].block /\ ctx'[c].block = ctx[f].block
  BY <1>1, MoveEffects
<1>4. \A k \in DOMAIN ctl :
         \/ ctl'[k] = ctl[k] /\ (ctl[k].op = "run" => ctl[k].at \notin M)
         \/ ctl[k].op = "run" /\ ctl[k].at \in M /\ ctl'[k] = Run(Copy(ctl[k].at[1]))
  BY <1>1, MoveEffects
<1>5. Running /\ Uncaptured
  BY DEF MakeProc, Uncaptured
<1>6. /\ \A s \in M : /\ s \in Address /\ s \in Unmoved /\ s = Frame(s[1]) /\ s[1] \in Call0 /\ OnStack(s)
                      /\ ctx[s].outer \in M \cup Copies \cup {NONE}
                      /\ ctx[s].block \in Copies \cup {NONE}
      /\ \A y \in Unmoved : y \notin M => ctx[y].outer \notin M
      /\ top.at \in M \cup Copies
  BY <1>1, <1>5, MovingFacts, MovingBlocks, HeldFacts
<1>7. /\ Copies \subseteq Copies'
      /\ \A s \in M : Copy(s[1]) \in Copies' /\ HeapOf(s) = Copy(s[1])
      /\ \A n \in Call0 : ctx'[Frame(n)].moved <=> (ctx[Frame(n)].moved \/ Frame(n) \in M)
  <2>1. \A n \in Call0 : ctx'[Frame(n)].moved <=> (ctx[Frame(n)].moved \/ Frame(n) \in M)
    BY <1>3
  <2>2. \A s \in M : s[1] \in Call0 /\ Frame(s[1]) \in M /\ HeapOf(s) = Copy(s[1])
    BY <1>6, Addresses
  <2> QED BY <2>1, <2>2 DEF Copies
<1>8. \A n \in Call0 : /\ ctx'[Frame(n)].live = ctx[Frame(n)].live \/ Frame(n) \in M
                       /\ ctx'[Frame(n)].outer = ctx[Frame(n)].outer
                       /\ ctx'[Frame(n)].block = ctx[Frame(n)].block
  BY <1>3
<1>9. \A k \in DOMAIN ctl :
         /\ ctl'[k].op = ctl[k].op
         /\ ctl'[k].at # NONE <=> ctl[k].at # NONE
         /\ ctl[k].at # NONE => ctl'[k].at[1] = ctl[k].at[1]
         /\ ctl'[k].at = ctl[k].at \/ (ctl[k].op = "run" /\ ctl[k].at \in M /\ ctl'[k].at = Copy(ctl[k].at[1]))
         /\ ctl[k].op = "run" /\ ctl'[k].at = ctl[k].at => ctl[k].at \notin M
         /\ ctl'[k].blk = ctl[k].blk
  <2> SUFFICES ASSUME NEW k \in DOMAIN ctl
               PROVE  /\ ctl'[k].op = ctl[k].op
                      /\ ctl'[k].at # NONE <=> ctl[k].at # NONE
                      /\ ctl[k].at # NONE => ctl'[k].at[1] = ctl[k].at[1]
                      /\ ctl'[k].at = ctl[k].at \/ (ctl[k].op = "run" /\ ctl[k].at \in M /\ ctl'[k].at = Copy(ctl[k].at[1]))
                      /\ ctl[k].op = "run" /\ ctl'[k].at = ctl[k].at => ctl[k].at \notin M
                      /\ ctl'[k].blk = ctl[k].blk
    OBVIOUS
  <2>1. CASE ctl'[k] = ctl[k] /\ (ctl[k].op = "run" => ctl[k].at \notin M)
    BY <2>1
  <2>2. CASE ctl[k].op = "run" /\ ctl[k].at \in M /\ ctl'[k] = Run(Copy(ctl[k].at[1]))
    <3>1. PICK s \in M : s = ctl[k].at
      BY <2>2
    <3>2. Copy(s[1]) \in Address /\ Copy(s[1]) # s /\ s \in Address /\ Copy(s[1])[1] = s[1]
      BY <1>6, Addresses
    <3>3. ctl'[k].op = "run" /\ ctl'[k].at = Copy(s[1]) /\ ctl'[k].blk = NONE
      BY <2>2, <3>1 DEF Run
    <3>4. ctl[k].blk = NONE
      BY <2>2 DEF ContextInv, Frames, RightAt
    <3> QED BY <2>2, <3>1, <3>2, <3>3, <3>4, Addresses
  <2> QED BY <1>4, <2>1, <2>2
<1>10. /\ Unmoved' \subseteq Unmoved /\ \A x \in Unmoved' : x \notin M /\ ctx'[x] = ctx[x] /\ x \in Address
  <2> SUFFICES ASSUME NEW x \in Unmoved' PROVE x \in Unmoved /\ x \notin M /\ ctx'[x] = ctx[x] /\ x \in Address
    OBVIOUS
  <2>1. PICK k \in DOMAIN ctl : x = ctl'[k].at /\ x # NONE /\ OnStack(x) /\ ~ctx'[x].moved
    BY <1>2 DEF Unmoved, Held, OnStack
  <2>2. ctl[k].at = x
    <3>1. \A s \in M : ~OnStack(Copy(s[1]))
      BY <1>6, Addresses
    <3> QED BY <1>9, <2>1, <3>1
  <2>3. x \in Held /\ x \in Address /\ x = Frame(x[1]) /\ x[1] \in Call0
    BY <2>1, <2>2, HeldFacts DEF Held
  <2>4. x \notin M /\ ~ctx[x].moved
    BY <1>7, <2>1, <2>3
  <2>5. ctx'[x] = ctx[x]
    BY <1>3, <2>3, <2>4
  <2> QED BY <2>1, <2>3, <2>4, <2>5 DEF Unmoved
<1>11. \A c \in Runs : /\ c \notin M => c \in Runs'
                       /\ \E e \in Runs' : e[1] = c[1]
  <2> SUFFICES ASSUME NEW c \in Runs PROVE (c \notin M => c \in Runs') /\ \E e \in Runs' : e[1] = c[1]
    OBVIOUS
  <2>1. PICK k \in DOMAIN ctl : ctl[k].op = "run" /\ c = ctl[k].at
    BY DEF Runs
  <2>2. c # NONE
    BY HeldFacts, Addresses
  <2>3. PICK e : e = ctl'[k].at
    OBVIOUS
  <2>4. e \in Runs' /\ e[1] = c[1] /\ (c \notin M => e = c)
    BY <1>2, <1>9, <2>1, <2>2, <2>3 DEF Runs
  <2> QED BY <2>4
<1>12. HeapOf(top.at) \in Copies' /\ HeapOf(top.at) \in Address
  <2>1. CASE top.at \in M
    BY <1>6, <1>7, <2>1, Addresses
  <2>2. CASE top.at \in Copies
    <3>1. HeapOf(top.at) = top.at
      BY <2>2, CopiesFacts DEF ContextInv, HeapOf, Copy
    <3> QED BY <1>7, <2>2, <3>1, CopiesFacts DEF ContextInv
  <2> QED BY <1>6, <2>1, <2>2
<1>13. TypeOK'
  BY <1>2, <1>12 DEF ContextInv, TypeOK
<1>14. Contexts'
  <2>1. ASSUME NEW n \in Call0 PROVE Aged(n)'
    <3>1. Aged(n)
      BY DEF ContextInv, Contexts
    <3>2. n > calls => Frame(n) \notin M
      <4>1. n \in Nat /\ calls \in Nat
        BY Typed, ClosuresAssumption DEF ContextInv, Call0
      <4> QED BY <1>3, <4>1
    <3>3. n > calls => ctx'[Frame(n)] = ctx[Frame(n)]
      BY <1>3, <3>2
    <3> QED BY <1>2, <1>8, <3>1, <3>3 DEF Aged
  <2>2. ASSUME NEW n \in Call0 PROVE Copied0(n)'
    <3>1. CASE Frame(n) \notin M
      <4>1. ctx'[Frame(n)] = ctx[Frame(n)] /\ ctx'[Copy(n)] = ctx[Copy(n)] /\ Copied0(n)
        BY <1>3, <3>1 DEF ContextInv, Contexts
      <4> QED BY <1>7, <4>1 DEF Copied0
    <3>2. CASE Frame(n) \in M
      <4>1. PICK o : o = ctx[Frame(n)].outer
        OBVIOUS
      <4>2. /\ ctx'[Frame(n)].moved /\ ctx'[Copy(n)].live /\ ctx'[Copy(n)].moved
            /\ ctx'[Frame(n)].outer = o /\ ctx'[Copy(n)].outer = OuterMoved(o, M)
            /\ ctx'[Copy(n)].block = ctx'[Frame(n)].block /\ ctx'[Copy(n)].block \in Copies \cup {NONE}
            /\ o \in M \cup Copies \cup {NONE}
        BY <1>3, <1>6, <3>2, <4>1
      <4>3. OuterMoved(o, M)[1] = o[1] /\ OuterMoved(o, M) \in Copies' \cup {NONE}
        <5>1. CASE o \in M
          <6>1. OuterMoved(o, M) = Copy(o[1]) /\ Copy(o[1])[1] = o[1]
            BY <1>6, <1>7, <5>1, Addresses DEF OuterMoved
          <6> QED BY <1>7, <5>1, <6>1
        <5>2. CASE o \notin M
          BY <1>7, <4>2, <5>2 DEF OuterMoved
        <5> QED BY <5>1, <5>2
      <4> QED BY <1>7, <4>2, <4>3 DEF Copied0
    <3> QED BY <3>1, <3>2
  <2> QED BY <1>2, <1>7, <1>12, <2>1, <2>2 DEF ContextInv, Contexts
<1>15. Frames'
  <2> SUFFICES ASSUME NEW k \in DOMAIN ctl PROVE RightAt(ctl[k])' /\ CalledBy(k)'
    BY <1>2 DEF Frames
  <2>1. RightAt(ctl[k]) /\ CalledBy(k)
    BY DEF ContextInv, Frames
  <2>2. PICK e : e = ctl'[k]
    OBVIOUS
  <2>3. ASSUME e.at # NONE PROVE e.at[1] <= calls' /\ ctx'[Frame(e.at[1])].live
    <3>1. ctl[k].at # NONE /\ e.at[1] = ctl[k].at[1]
      BY <1>9, <2>2, <2>3
    <3>2. ctl[k].at \in Held
      BY <3>1 DEF Held
    <3>3. ctl[k].at[1] \in Call0 /\ ctl[k].at[1] <= calls /\ ctx[Frame(ctl[k].at[1])].live
      BY <3>2, HeldFacts
    <3>4. PICK m \in Call0 : m = ctl[k].at[1]
      BY <3>3
    <3> QED BY <1>2, <1>3, <3>1, <3>3, <3>4
  <2>4. ASSUME e.op = "run"
        PROVE  e.at \in Address /\ e.blk = NONE /\ (e.at \in Copies' \/ (OnStack(e.at) /\ ~ctx'[e.at].moved))
    <3>1. ctl[k].op = "run" /\ ctl[k].at \in Address /\ ctl[k].blk = NONE /\ e.blk = NONE
      BY <1>9, <2>1, <2>2, <2>4 DEF RightAt
    <3>2. CASE ctl[k].at \in M /\ e.at = Copy(ctl[k].at[1])
      BY <1>6, <1>7, <3>1, <3>2, Addresses
    <3>3. CASE e.at = ctl[k].at /\ ctl[k].at \notin M
      <4>1. e.at \in Copies \/ (OnStack(e.at) /\ ~ctx[e.at].moved)
        BY <2>1, <3>1, <3>3 DEF RightAt
      <4>2. OnStack(e.at) => e.at = Frame(e.at[1]) /\ e.at[1] \in Call0
        BY <3>1, <3>3, Addresses
      <4> QED BY <1>7, <3>1, <3>3, <4>1, <4>2
    <3> QED BY <1>9, <2>2, <3>1, <3>2, <3>3
  <2>5. (e.op = "each" => e.at = NONE \/ OnStack(e.at)) /\ (e.op = "native" => e.at = NONE)
    BY <1>9, <2>1, <2>2 DEF RightAt
  <2>6. RightAt(ctl[k])'
    BY <2>2, <2>3, <2>4, <2>5 DEF RightAt, OnStack
  <2>7. CalledBy(k)'
    <3>1. ASSUME ctl[k].op # "run" PROVE k - 1 \in DOMAIN ctl /\ ctl[k - 1].at # NONE
      <4>1. k > 1 /\ ctl[k - 1].op = "run"
        BY <2>1, <3>1 DEF CalledBy
      <4>2. k - 1 \in DOMAIN ctl
        BY <4>1, Typed DEF ContextInv
      <4> QED BY <4>1, <4>2, Addresses DEF ContextInv, Frames, RightAt
    <3> QED BY <1>7, <1>9, <2>1, <3>1 DEF CalledBy, OnStack
  <2> QED BY <2>6, <2>7
<1>16. Ordered'
  <2> SUFFICES ASSUME NEW j \in DOMAIN ctl, NEW k \in DOMAIN ctl, j < k, ctl'[j].at # NONE, ctl'[k].at # NONE
               PROVE  Later(j, k)'
    BY <1>2 DEF Ordered
  <2>1. ctl[j].at # NONE /\ ctl[k].at # NONE
    BY <1>9
  <2>2. Later(j, k)
    BY <2>1 DEF ContextInv, Ordered
  <2> QED BY <1>9, <2>1, <2>2 DEF Later
<1>17. Below'
  <2> SUFFICES ASSUME NEW x \in Unmoved'
               PROVE  /\ ctx'[x].outer \in Copies' \cup Runs' \cup {NONE}
                      /\ \/ ctx'[x].block \in Copies' \cup {NONE}
                         \/ OnStack(ctx'[x].block) /\ \E c \in Runs' : c[1] = ctx'[x].block[1]
    BY DEF Below, OnStack
  <2>1. x \in Unmoved /\ x \notin M /\ ctx'[x] = ctx[x]
    BY <1>10
  <2>2. /\ ctx[x].outer \in Copies \cup Runs \cup {NONE} /\ ctx[x].outer \notin M
        /\ \/ ctx[x].block \in Copies \cup {NONE}
           \/ OnStack(ctx[x].block) /\ \E c \in Runs : c[1] = ctx[x].block[1]
    BY <1>6, <2>1 DEF ContextInv, Below
  <2> QED BY <1>7, <1>11, <2>1, <2>2
<1>18. Nested'
  BY <1>10 DEF ContextInv, Nested, NestedIn, OnStack
<1> QED BY <1>13, <1>14, <1>15, <1>16, <1>17, <1>18 DEF ContextInv

-----------------------------------------------------------------------------
(* The invariant holds *)

LEMMA InitInv ==
  ASSUME Init
  PROVE  ContextInv
<1>1. MaxCalls \in Nat \ {0} /\ MaxDepth \in Nat \ {0} /\ 1 \in Call0
  BY ClosuresAssumption DEF Call0
<1>2. PICK first : first = [Unused EXCEPT !.live = TRUE]
  OBVIOUS
<1>3. Unused \in Context /\ Unused.outer = NONE /\ Unused.block = NONE /\ ~Unused.moved
  BY DEF Unused, Context
<1>4. first \in Context /\ first.outer = NONE /\ first.block = NONE /\ ~first.moved /\ first.live
  <2>1. PICK u : u = Unused
    OBVIOUS
  <2>2. u \in Context /\ first = [u EXCEPT !.live = TRUE]
    BY <1>2, <1>3, <2>1
  <2>3. first \in Context /\ first.live = TRUE /\ first.outer = u.outer /\ first.block = u.block /\ first.moved = u.moved
    BY <2>2 DEF Context
  <2> QED BY <1>3, <2>1, <2>3
<1>5. /\ calls = 1 /\ procs = {} /\ enums = {} /\ ctl = <<Run(Frame(1))>>
      /\ ctx = [c \in Address |-> IF c = Frame(1) THEN first ELSE Unused]
  BY <1>2 DEF Init, Frame
<1>6. /\ ctx \in [Address -> Context] /\ ctx[Frame(1)] = first
      /\ \A n \in Call0 : /\ ctx[Copy(n)] = Unused
                          /\ n # 1 => ctx[Frame(n)] = Unused
      /\ Frame(1) \in Address /\ Frame(1)[1] = 1 /\ OnStack(Frame(1))
  <2>1. ctx \in [Address -> Context]
    BY <1>3, <1>4, <1>5
  <2>2. Frame(1) \in Address /\ Frame(1)[1] = 1 /\ OnStack(Frame(1))
    BY <1>1, Addresses
  <2>3. ASSUME NEW n \in Call0 PROVE ctx[Copy(n)] = Unused /\ (n # 1 => ctx[Frame(n)] = Unused)
    <3>1. Copy(n) \in Address /\ Frame(n) \in Address /\ Copy(n) # Frame(1) /\ (n # 1 => Frame(n) # Frame(1))
      BY <1>1, Addresses
    <3> QED BY <1>5, <3>1
  <2> QED BY <1>5, <2>1, <2>2, <2>3
<1>7. /\ DOMAIN ctl = {1} /\ ctl[1].op = "run" /\ ctl[1].at = Frame(1) /\ ctl[1].blk = NONE
      /\ ctl \in Seq(Call) /\ Len(ctl) = 1
  <2>1. Run(Frame(1)) \in Call
    BY <1>6 DEF Run, Call
  <2> QED BY <1>5, <2>1 DEF Run
<1>8. \A n \in Call0 : ~ctx[Frame(n)].moved
  BY <1>3, <1>4, <1>6
<1>9. Copies = {}
  BY <1>8 DEF Copies
<1>10. Unmoved \subseteq {Frame(1)}
  BY <1>7 DEF Unmoved, Held
<1>11. TypeOK
  BY <1>1, <1>5, <1>6, <1>7 DEF TypeOK
<1>12. Contexts
  <2>1. ASSUME NEW n \in Call0 PROVE Aged(n)
    <3>1. n \in Nat \ {0} /\ NONE[1] = 0
      BY <1>1, Addresses DEF Call0
    <3> QED BY <1>3, <1>4, <1>5, <1>6, <3>1 DEF Aged
  <2>2. \A n \in Call0 : Copied0(n)
    BY <1>6, <1>8 DEF Copied0
  <2> QED BY <1>5, <1>9, <2>1, <2>2 DEF Contexts
<1>13. Frames
  <2>1. RightAt(ctl[1])
    BY <1>1, <1>4, <1>5, <1>6, <1>7 DEF RightAt
  <2> QED BY <1>7, <2>1 DEF Frames, CalledBy
<1>14. Ordered
  BY <1>7 DEF Ordered
<1>15. Below /\ Nested
  <2>1. \A x \in Unmoved : ctx[x].outer = NONE /\ ctx[x].block = NONE
    BY <1>4, <1>6, <1>10
  <2>2. ~OnStack(NONE)
    BY Addresses
  <2> QED BY <2>1, <2>2 DEF Below, Nested, NestedIn
<1> QED BY <1>11, <1>12, <1>13, <1>14, <1>15 DEF ContextInv

LEMMA StepInv ==
  ASSUME ContextInv, ~Enumerators, ~CapturedBlocks, [Next]_vars
  PROVE  ContextInv'
<1>1. TypeOK /\ NONE \in Address0
  BY DEF ContextInv, Address0
<1>2. ASSUME NEW b \in Address0, CallMethod(b) PROVE ContextInv'
  <2>1. Running /\ b \in {NONE, top.at} \cup procs /\ Enter(NONE, b, ctl)
    BY <1>2 DEF CallMethod
  <2>2. Entering(calls + 1, NONE, b)
    BY <1>1, <2>1, EnterIsEntering
  <2> QED BY <2>1, <2>2, MethodAdmitted, EnterKeeps
<1>3. ASSUME BuiltinCallsBlock PROVE ContextInv'
  <2>1. ctl # <<>> /\ top.op = "native" /\ Enter(Current(top.blk), NONE, ctl)
    BY <1>3 DEF BuiltinCallsBlock, OuterOf
  <2>2. top.at = NONE
    BY <2>1, TopFacts DEF RightAt
  <2>3. Admitted(Current(top.blk), NONE)
    BY <2>1, <2>2, CallerFacts
  <2>4. Entering(calls + 1, Current(top.blk), NONE)
    BY <1>1, <2>1, <2>3, EnterIsEntering DEF Admitted
  <2> QED BY <2>3, <2>4, EnterKeeps
<1>4. ASSUME EachCallsBlock PROVE ContextInv'
  <2>1. ctl # <<>> /\ top.op = "each"
    BY <1>4 DEF EachCallsBlock
  <2>2. CASE top.at = NONE
    <3>1. Enter(Current(top.blk), NONE, Append(Front(ctl), Builtin("each", top.blk, <<calls + 1, "stack">>)))
      BY <1>4, <2>2 DEF EachCallsBlock, OuterOf
    <3>2. Admitted(Current(top.blk), NONE)
      BY <2>1, <2>2, CallerFacts
    <3>3. Entering(calls + 1, Current(top.blk), NONE)
      BY <1>1, <2>1, <2>2, <3>1, <3>2, RoundIsEntering DEF Admitted
    <3> QED BY <3>2, <3>3, EnterKeeps
  <2>3. CASE top.at # NONE
    <3>1. Push(Run(Reused(top.at)))
      BY <1>4, <2>3 DEF EachCallsBlock
    <3> QED BY <2>1, <2>3, <3>1, RoundFacts, PushKeeps
  <2> QED BY <2>2, <2>3
<1>5. ASSUME EvalYield PROVE ContextInv'
  <2>1. PICK b : b = ctx[MethodContext(top.at)].block
    OBVIOUS
  <2>2. Running /\ b # NONE /\ Enter(Current(b), NONE, ctl)
    BY <1>5, <2>1 DEF EvalYield, OuterOf
  <2>3. Admitted(Current(b), NONE)
    BY <2>1, <2>2, YieldAdmitted
  <2>4. Entering(calls + 1, Current(b), NONE)
    BY <1>1, <2>2, <2>3, EnterIsEntering DEF Admitted
  <2> QED BY <2>3, <2>4, EnterKeeps
<1>6. ASSUME NEW p \in Address, EvalProc(p) PROVE ContextInv'
  <2>1. p \in procs /\ Enter(p, NONE, ctl)
    BY <1>6 DEF EvalProc
  <2>2. p \in Copies /\ Admitted(p, NONE)
    BY <2>1 DEF Admitted, Address0, ContextInv, Contexts
  <2>3. Entering(calls + 1, p, NONE)
    BY <1>1, <2>1, <2>2, EnterIsEntering DEF Admitted
  <2> QED BY <2>2, <2>3, EnterKeeps
<1>7. ASSUME NEW d \in 0 .. MaxCalls - 1, GetLocal(d) PROVE ContextInv'
  <2>1. d \in Nat /\ Running /\ Up(top.at, d) # NONE
    BY <1>7, ClosuresAssumption DEF GetLocal
  <2>2. ctx[Up(top.at, d)].lvar \in Val \cup {Uninit}
    BY <1>1, <2>1, UpInUse, Typed
  <2>3. top.at \in Copies \cup Unmoved
    BY <2>1, TopFacts, HeldFacts DEF Running
  <2>4. PICK v : v = ctx[Up(top.at, d)].lvar
    OBVIOUS
  <2>5. PICK t : t = top.at
    OBVIOUS
  <2>6. ctx' = [ctx EXCEPT ![t].lvar = v] /\ UNCHANGED <<calls, ctl, procs, enums>>
    BY <1>7, <2>4, <2>5 DEF GetLocal
  <2>7. v \in Val \cup {Uninit} /\ t \in Copies \cup Unmoved
    BY <2>2, <2>3, <2>4, <2>5
  <2> QED BY <2>6, <2>7, AssignKeeps
<1>8. ASSUME NEW d \in 0 .. MaxCalls - 1, NEW v \in Val, SetLocal(d, v) PROVE ContextInv'
  <2>1. d \in Nat /\ Running /\ Up(top.at, d) # NONE
    BY <1>8, ClosuresAssumption DEF SetLocal
  <2>2. PICK u : u = Up(top.at, d)
    OBVIOUS
  <2>3. u \in Copies \cup Unmoved /\ v \in Val \cup {Uninit}
    BY <2>1, <2>2, UpInUse
  <2>4. ctx' = [ctx EXCEPT ![u].lvar = v] /\ UNCHANGED <<calls, ctl, procs, enums>>
    BY <1>8, <2>2 DEF SetLocal
  <2> QED BY <2>3, <2>4, AssignKeeps
<1>9. ASSUME UNCHANGED vars PROVE ContextInv'
  BY <1>9 DEF vars, ContextInv, TypeOK, Contexts, Frames, Ordered, Below, Nested, Aged, Copied0, RightAt,
              CalledBy, Later, NestedIn, Copies, Held, Runs, Unmoved, OnStack
<1> QED BY <1>2, <1>3, <1>4, <1>5, <1>6, <1>7, <1>8, <1>9, BuiltinPushes, ReturnKeeps, MoveKeeps, EnumKeeps
        DEF Next, Address0

THEOREM InvHolds ==
  ASSUME ~Enumerators, ~CapturedBlocks
  PROVE  Spec => []ContextInv
<1>1. Init => ContextInv
  BY InitInv
<1>2. ContextInv /\ [Next]_vars => ContextInv'
  BY StepInv
<1> QED BY <1>1, <1>2, PTL DEF Spec

-----------------------------------------------------------------------------
(* What is followed is there *)

LEMMA GoodRefs ==
  ASSUME ContextInv
  PROVE  /\ Copies \cup Runs \subseteq Address /\ Roots \subseteq Copies \cup Runs
         /\ \A c \in Copies \cup Runs :
               /\ Refs(c) \subseteq Copies \cup Runs
               /\ \A b \in Blocks(c) : b \in Address /\ ctx[b].live
               /\ ctx[c].live /\ ~(OnStack(c) /\ ctx[c].moved)
<1>1. /\ Copies \subseteq Address /\ Runs \subseteq Address
      /\ \A c \in Copies : ctx[c].live /\ ~OnStack(c)
      /\ \A c \in Runs : /\ c \in Copies \cup Unmoved /\ ctx[Frame(c[1])].live /\ c[1] \in Call0
                         /\ OnStack(c) => c = Frame(c[1])
  BY CopiesFacts, HeldFacts DEF ContextInv
<1>2. Roots \subseteq Copies \cup Runs
  BY DEF Roots, Runs, ContextInv, Contexts
<1>3. ASSUME NEW c \in Copies \cup Runs
      PROVE  /\ Refs(c) \subseteq Copies \cup Runs
             /\ \A b \in Blocks(c) : b \in Address /\ ctx[b].live
             /\ ctx[c].live /\ ~(OnStack(c) /\ ctx[c].moved)
  <2>1. c \in Copies \cup Unmoved /\ c \in Address
    BY <1>1
  <2>2. ctx[c].live /\ ~(OnStack(c) /\ ctx[c].moved)
    BY <1>1, <2>1, HeldFacts
  <2>3. /\ ctx[c].outer \in Copies \cup Runs \cup {NONE}
        /\ \/ ctx[c].block \in Copies \cup {NONE}
           \/ OnStack(ctx[c].block) /\ \E e \in Runs : e[1] = ctx[c].block[1]
    BY <2>1, CopiesFacts DEF ContextInv, Below
  <2>4. ASSUME NEW b \in Blocks(c)
        PROVE  b \in Address /\ ctx[b].live /\ Current(b) \in Copies \cup Runs
    <3>1. b = ctx[c].block /\ b # NONE
      BY DEF Blocks
    <3>2. b \in Address
      BY <2>1, <3>1, Typed DEF ContextInv, Address0
    <3>3. CASE b \in Copies
      BY <1>1, <3>2, <3>3 DEF Current
    <3>4. CASE OnStack(b) /\ \E e \in Runs : e[1] = b[1]
      <4>1. PICK e \in Runs : e[1] = b[1]
        BY <3>4
      <4>2. Current(b) = e
        BY <3>2, <3>4, <4>1, RunsCurrent
      <4>3. b = Frame(e[1])
        BY <3>2, <3>4, <4>1, Addresses
      <4> QED BY <1>1, <3>2, <4>1, <4>2, <4>3
    <3> QED BY <2>3, <3>1, <3>3, <3>4
  <2>5. Refs(c) \subseteq Copies \cup Runs
    BY <2>3, <2>4 DEF Refs
  <2> QED BY <2>2, <2>4, <2>5
<1> QED BY <1>1, <1>2, <1>3

LEMMA VisitedGood ==
  ASSUME ContextInv
  PROVE  Visited \subseteq Copies \cup Runs
<1>1. MaxCalls \in Nat
  BY ClosuresAssumption
<1>2. PICK G : G = Copies \cup Runs
  OBVIOUS
<1>3. Roots \subseteq G /\ \A c \in G : Refs(c) \subseteq G
  BY <1>2, GoodRefs
<1>4. PICK roots : roots = Roots
  OBVIOUS
<1>5. PICK more : more = [W \in SUBSET G |-> W \cup UNION {Refs(c) : c \in W}]
  OBVIOUS
<1>6. /\ roots \in SUBSET G /\ more \in [SUBSET G -> SUBSET G]
      /\ \A W \in SUBSET G : more[W] = W \cup UNION {Refs(c) : c \in W}
  BY <1>3, <1>4, <1>5
<1> DEFINE step == [p \in Nat \X SUBSET G |-> more[p[2]]]
<1>7. step \in [Nat \X SUBSET G -> SUBSET G] /\ \A k \in Nat, W \in SUBSET G : step[<<k, W>>] = more[W]
  BY <1>6
<1> HIDE DEF step
<1>8. PICK F : Counts(F, SUBSET G, roots, step)
  BY <1>6, <1>7, Counting
<1>9. /\ F \in [Nat -> SUBSET G] /\ F[0] = roots
      /\ \A k \in Nat : F[k + 1] = more[F[k]]
  <2>1. F \in [Nat -> SUBSET G] /\ F[0] = roots /\ \A k \in Nat : F[k + 1] = step[<<k + 1, F[k]>>]
    BY <1>8 DEF Counts
  <2>2. ASSUME NEW k \in Nat PROVE F[k + 1] = more[F[k]]
    <3>1. k + 1 \in Nat /\ F[k] \in SUBSET G
      BY <2>1
    <3>2. F[k + 1] = step[<<k + 1, F[k]>>] /\ step[<<k + 1, F[k]>>] = more[F[k]]
      BY <1>7, <2>1, <3>1
    <3> QED BY <3>2
  <2> QED BY <2>1, <2>2
<1> DEFINE Sol(f) == f = [k \in 0 .. MaxCalls |->
                 IF k = 0 THEN Roots ELSE f[k - 1] \cup UNION {Refs(c) : c \in f[k - 1]}]
<1>10. Sol([k \in 0 .. MaxCalls |-> F[k]])
  <2>1. ASSUME NEW k \in 0 .. MaxCalls, k # 0
        PROVE  k - 1 \in 0 .. MaxCalls /\ F[k] = F[k - 1] \cup UNION {Refs(c) : c \in F[k - 1]}
    <3>1. PICK j \in Nat : j = k - 1
      BY <1>1, <2>1
    <3>2. j \in 0 .. MaxCalls /\ j + 1 = k
      BY <1>1, <2>1, <3>1
    <3>3. F[j + 1] = more[F[j]] /\ F[j] \in SUBSET G
      BY <1>9, <3>1
    <3>4. more[F[j]] = F[j] \cup UNION {Refs(c) : c \in F[j]}
      BY <1>6, <3>3
    <3> QED BY <3>1, <3>2, <3>3, <3>4
  <2>2. PICK f : f = [k \in 0 .. MaxCalls |-> F[k]]
    OBVIOUS
  <2>3. \A k \in 0 .. MaxCalls : f[k] = F[k]
    BY <2>2
  <2>4. ASSUME NEW k \in 0 .. MaxCalls
        PROVE  F[k] = IF k = 0 THEN Roots ELSE f[k - 1] \cup UNION {Refs(c) : c \in f[k - 1]}
    <3>1. CASE k = 0
      BY <1>4, <1>9, <3>1
    <3>2. CASE k # 0
      BY <2>1, <2>3, <3>2
    <3> QED BY <3>1, <3>2
  <2> HIDE DEF Refs
  <2>5. f = [k \in 0 .. MaxCalls |-> IF k = 0 THEN Roots ELSE f[k - 1] \cup UNION {Refs(c) : c \in f[k - 1]}]
    BY <2>2, <2>4, Zenon
  <2> QED BY <2>2, <2>5
<1>11. PICK f : f = CHOOSE x : Sol(x)
  OBVIOUS
<1>12. Sol(f)
  <2> HIDE DEF Sol
  <2> QED BY <1>10, <1>11
<1>13. Visited = f[MaxCalls]
  BY <1>11 DEF Visited
<1> DEFINE S == {k \in 0 .. MaxCalls : f[k] \subseteq G}
<1>14. 0 \in S
  BY <1>1, <1>3, <1>12
<1>15. ASSUME NEW k \in 0 .. MaxCalls - 1, k \in S PROVE k + 1 \in S
  <2>1. k + 1 \in 0 .. MaxCalls /\ k + 1 # 0 /\ (k + 1) - 1 = k /\ f[k] \subseteq G
    BY <1>1, <1>15
  <2>2. f[k + 1] = f[k] \cup UNION {Refs(c) : c \in f[k]}
    BY <1>12, <2>1
  <2> QED BY <1>3, <2>1, <2>2
<1> HIDE DEF S
<1>16. 0 .. MaxCalls \subseteq S
  BY <1>1, <1>14, <1>15, InductionTo
<1>17. MaxCalls \in 0 .. MaxCalls
  BY <1>1
<1> QED BY <1>2, <1>13, <1>16, <1>17 DEF S

LEMMA InvDangling ==
  ASSUME ContextInv
  PROVE  NoDangling
<1>1. PICK V : V = Visited
  OBVIOUS
<1>2. V \subseteq Copies \cup Runs
  BY <1>1, VisitedGood
<1>3. ASSUME NEW k \in DOMAIN ctl, NEW c \in {ctl[k].at, ctl[k].blk}, c # NONE
      PROVE  ctx[c].live
  <2>1. RightAt(ctl[k]) /\ CalledBy(k) /\ ctl[k].at \in Address0 /\ ctl[k].op \in {"run", "each", "native"}
    BY Typed DEF ContextInv, Frames
  <2>2. \A e \in Copies : ctx[e].live
    BY CopiesFacts DEF ContextInv
  <2>3. CASE c = ctl[k].at
    <3>1. c \in Held
      BY <1>3, <2>3 DEF Held
    <3>2. c \in Copies \/ OnStack(c)
      BY <1>3, <2>1, <2>3 DEF RightAt
    <3> QED BY <2>2, <3>1, <3>2, HeldFacts
  <2>4. CASE c = ctl[k].blk
    <3>1. ctl[k].op # "run"
      BY <1>3, <2>1, <2>4 DEF RightAt
    <3>2. c \in Address /\ (OnStack(c) \/ c \in Copies) /\ k > 1 /\ ctl[k - 1].op = "run" /\ ctl[k - 1].at[1] = c[1]
      BY <2>1, <2>4, <3>1 DEF CalledBy
    <3>3. k - 1 \in DOMAIN ctl
      BY <3>2, Typed DEF ContextInv
    <3>4. ctl[k - 1].at \in Held
      BY <3>2, <3>3, HeldFacts DEF Runs
    <3> QED BY <2>2, <3>2, <3>4, HeldFacts, Addresses
  <2> QED BY <1>3, <2>3, <2>4
<1>4. ASSUME NEW c \in Followed PROVE ctx[c].live
  <2>1. CASE c \in V
    BY <1>2, <2>1, GoodRefs
  <2>2. CASE \E e \in V : c \in Blocks(e)
    BY <1>2, <2>2, GoodRefs
  <2>3. CASE \E k \in DOMAIN ctl : c \in {ctl[k].at, ctl[k].blk} /\ c # NONE
    BY <1>3, <2>3
  <2> HIDE DEF Blocks, Visited
  <2> QED BY <1>1, <2>1, <2>2, <2>3 DEF Followed
<1>5. \A c \in V : ~(OnStack(c) /\ ctx[c].moved)
  BY <1>2, GoodRefs
<1> QED BY <1>1, <1>4, <1>5 DEF NoDangling

LEMMA InvFinds ==
  ASSUME ContextInv
  PROVE  MoveFinds
<1> SUFFICES ASSUME Running PROVE Found(top.at)
  BY DEF MoveFinds, ContextInv
<1>1. PICK M : M = Moving(top.at)
  OBVIOUS
<1>2. \A s \in M : s \in Address /\ s \in Runs
  BY <1>1, MovingFacts
<1>3. ASSUME NEW s \in M PROVE \E k \in DOMAIN ctl : RunsAt(k, s)
  <2>1. PICK k \in DOMAIN ctl : ctl[k].op = "run" /\ ctl[k].at = s
    BY <1>2 DEF Runs
  <2>2. ctl[k] \in Call /\ ctl[k].blk = NONE
    <3>1. RightAt(ctl[k]) /\ ctl \in Seq(Call)
      BY Typed DEF ContextInv, Frames
    <3> QED BY <2>1, <3>1 DEF RightAt
  <2>3. ctl[k] = [op |-> "run", at |-> s, blk |-> NONE]
    BY <2>1, <2>2 DEF Call
  <2> QED BY <2>3 DEF RunsAt, Run
<1>4. ASSUME NEW j \in DOMAIN ctl, NEW k \in DOMAIN ctl, NEW s \in M, ctx[s].outer \in M,
             RunsAt(j, s), RunsAt(k, ctx[s].outer)
      PROVE  k < j
  <2>1. PICK o : o = ctx[s].outer
    OBVIOUS
  <2>2. /\ o[1] < s[1] /\ o[1] \in Nat /\ s[1] \in Nat /\ s # NONE /\ o # NONE
        /\ ctl[j].at = s /\ ctl[k].at = o /\ j \in Nat /\ k \in Nat
    <3>1. o \in Address /\ s \in Address /\ o[1] < s[1]
      BY <1>2, <1>4, <2>1, InvLower DEF Lower
    <3>2. ctl[j].at = s /\ ctl[k].at = o
      BY <1>4, <2>1 DEF RunsAt, Run
    <3> QED BY <3>1, <3>2, Addresses, Typed DEF ContextInv
  <2>3. ASSUME j < k PROVE FALSE
    <3>1. Later(j, k)
      BY <2>2, <2>3 DEF ContextInv, Ordered
    <3> QED BY <2>2, <3>1 DEF Later
  <2>4. j # k
    BY <2>2
  <2> QED BY <2>2, <2>3, <2>4
<1> QED BY <1>1, <1>3, <1>4 DEF Found

(* No pointer that a collection, a call of a block or an access to a       *)
(* variable follows leads to a context whose frame is gone, or to one that *)
(* was moved away: with any number of contexts, nested calls and closures. *)
(* It takes that no enumerator refers to a frame and that no closure is    *)
(* made in a method while it has the block of a frame.                     *)
THEOREM PointersLive ==
  ASSUME ~Enumerators, ~CapturedBlocks
  PROVE  Spec => []NoDangling
<1>1. ContextInv => NoDangling
  BY InvDangling
<1>2. Spec => []ContextInv
  BY InvHolds
<1> QED BY <1>1, <1>2, PTL

(* The move to the heap always finds the contexts it moves in              *)
(* exec_context, in its order: "not found." is never reached.              *)
THEOREM MovesFind ==
  ASSUME ~Enumerators, ~CapturedBlocks
  PROVE  Spec => []MoveFinds
<1>1. ContextInv => MoveFinds
  BY InvFinds
<1>2. Spec => []ContextInv
  BY InvHolds
<1> QED BY <1>1, <1>2, PTL

-----------------------------------------------------------------------------
(* Closures implement lexical scoping: the calls in progress *)

(* The numbers of the contexts that the calls of a list run.               *)
RunOf(s) ==
    LET run[k \in 0 .. Len(s)] ==
            IF k = 0 THEN <<>>
            ELSE IF s[k].op = "run" THEN Append(run[k - 1], s[k].at[1]) ELSE run[k - 1]
    IN run[Len(s)]

Number == 0 .. MaxCalls
Runner(s, F) ==
    /\ F \in [0 .. Len(s) -> Seq(Number)] /\ F[0] = <<>>
    /\ \A k \in 0 .. Len(s) - 1 :
          F[k + 1] = IF s[k + 1].op = "run" THEN Append(F[k], s[k + 1].at[1]) ELSE F[k]

LEMMA Numbered ==
  ASSUME NEW s \in Seq(Call), NEW k \in 1 .. Len(s)
  PROVE  s[k].at[1] \in Number
<1>1. s[k] \in Call
  OBVIOUS
<1>2. s[k].at \in Address \cup {NONE}
  BY <1>1 DEF Call
<1> QED BY <1>2, Addresses, ClosuresAssumption DEF Number, Call0

LEMMA RunOfFacts ==
  ASSUME NEW s \in Seq(Call)
  PROVE  \E F : Runner(s, F) /\ RunOf(s) = F[Len(s)]
<1>1. PICK n : n = Len(s)
  OBVIOUS
<1>2. n \in Nat
  BY <1>1
<1> DEFINE add(k, r) == IF k \in 1 .. n /\ s[k].op = "run" THEN Append(r, s[k].at[1]) ELSE r
           step == [p \in Nat \X Seq(Number) |-> add(p[1], p[2])]
<1>3. \A k \in Nat, r \in Seq(Number) : add(k, r) \in Seq(Number)
  BY <1>1, Numbered
<1>4. step \in [Nat \X Seq(Number) -> Seq(Number)] /\ \A k \in Nat, r \in Seq(Number) : step[<<k, r>>] = add(k, r)
  <2> HIDE DEF add
  <2> QED BY <1>3
<1>5. <<>> \in Seq(Number)
  OBVIOUS
<1> HIDE DEF step
<1>6. PICK F : Counts(F, Seq(Number), <<>>, step)
  BY <1>4, <1>5, Counting
<1>7. /\ F \in [Nat -> Seq(Number)] /\ F[0] = <<>>
      /\ \A k \in Nat : F[k + 1] = add(k + 1, F[k])
  <2>1. F \in [Nat -> Seq(Number)] /\ F[0] = <<>> /\ \A k \in Nat : F[k + 1] = step[<<k + 1, F[k]>>]
    BY <1>6 DEF Counts
  <2>2. ASSUME NEW k \in Nat PROVE F[k + 1] = add(k + 1, F[k])
    <3>1. k + 1 \in Nat /\ F[k] \in Seq(Number)
      BY <2>1
    <3>2. F[k + 1] = step[<<k + 1, F[k]>>] /\ step[<<k + 1, F[k]>>] = add(k + 1, F[k])
      BY <1>4, <2>1, <3>1
    <3> HIDE DEF add
    <3> QED BY <3>2
  <2> HIDE DEF add
  <2> QED BY <2>1, <2>2
<1> DEFINE Sol(f) == f = [k \in 0 .. Len(s) |->
              IF k = 0 THEN <<>>
              ELSE IF s[k].op = "run" THEN Append(f[k - 1], s[k].at[1]) ELSE f[k - 1]]
<1>8. PICK g : g = [k \in 0 .. n |-> F[k]]
  OBVIOUS
<1>9. /\ \A k \in 0 .. n : g[k] = F[k]
      /\ \A k \in 0 .. n - 1 : g[k + 1] = IF s[k + 1].op = "run" THEN Append(g[k], s[k + 1].at[1]) ELSE g[k]
  <2>1. \A k \in 0 .. n : g[k] = F[k]
    BY <1>8
  <2>2. ASSUME NEW k \in 0 .. n - 1
        PROVE  g[k + 1] = IF s[k + 1].op = "run" THEN Append(g[k], s[k + 1].at[1]) ELSE g[k]
    <3>1. k \in Nat /\ k + 1 \in 1 .. n /\ k \in 0 .. n /\ k + 1 \in 0 .. n
      BY <1>2
    <3> QED BY <1>7, <2>1, <3>1
  <2> QED BY <2>1, <2>2
<1>10. Sol(g)
  <2>1. ASSUME NEW k \in 0 .. n
        PROVE  F[k] = IF k = 0 THEN <<>>
                      ELSE IF s[k].op = "run" THEN Append(g[k - 1], s[k].at[1]) ELSE g[k - 1]
    <3>1. CASE k = 0
      BY <1>7, <3>1
    <3>2. CASE k # 0
      <4>1. PICK j \in 0 .. n - 1 : k = j + 1 /\ k - 1 = j
        <5>1. k - 1 \in 0 .. n - 1 /\ k = (k - 1) + 1
          BY <1>2, <3>2
        <5> QED BY <5>1
      <4> QED BY <1>9, <3>2, <4>1
    <3> QED BY <3>1, <3>2
  <2>2. g = [k \in 0 .. n |-> IF k = 0 THEN <<>>
                      ELSE IF s[k].op = "run" THEN Append(g[k - 1], s[k].at[1]) ELSE g[k - 1]]
    BY <1>8, <2>1, Zenon
  <2> QED BY <1>1, <2>2
<1>11. PICK f : f = CHOOSE x : Sol(x)
  OBVIOUS
<1>12. Sol(f)
  <2> HIDE DEF Sol
  <2> QED BY <1>10, <1>11
<1>13. RunOf(s) = f[Len(s)]
  BY <1>11 DEF RunOf
<1> DEFINE e(k) == IF k = 0 THEN <<>>
                   ELSE IF s[k].op = "run" THEN Append(f[k - 1], s[k].at[1]) ELSE f[k - 1]
<1>14. /\ \A k \in 0 .. n : f[k] = e(k)
       /\ f = [k \in 0 .. n |-> f[k]]
  <2>1. f = [k \in 0 .. n |-> e(k)]
    BY <1>1, <1>12
  <2> HIDE DEF e
  <2> QED BY <2>1
<1>15. f[0] = <<>> /\ \A k \in 0 .. n - 1 : f[k + 1] = IF s[k + 1].op = "run" THEN Append(f[k], s[k + 1].at[1]) ELSE f[k]
  <2>1. 0 \in 0 .. n /\ f[0] = e(0)
    BY <1>2, <1>14
  <2>2. f[0] = <<>>
    BY <2>1
  <2>3. ASSUME NEW k \in 0 .. n - 1
        PROVE  f[k + 1] = IF s[k + 1].op = "run" THEN Append(f[k], s[k + 1].at[1]) ELSE f[k]
    <3>1. k + 1 \in 0 .. n /\ k + 1 # 0 /\ (k + 1) - 1 = k
      BY <1>2
    <3>2. f[k + 1] = e(k + 1)
      BY <1>14, <3>1
    <3> QED BY <3>1, <3>2
  <2> QED BY <2>2, <2>3
<1> HIDE DEF e
<1> DEFINE S == {k \in 0 .. n : f[k] = F[k]}
<1>16. 0 \in S
  <2>1. 0 \in 0 .. n
    BY <1>2
  <2>2. f[0] = F[0]
    BY <1>7, <1>15, Zenon
  <2> QED BY <2>1, <2>2
<1>17. ASSUME NEW k \in 0 .. n - 1, k \in S PROVE k + 1 \in S
  <2>1. k + 1 \in 0 .. n /\ k \in 0 .. n /\ f[k] = F[k]
    BY <1>2, <1>17
  <2> QED BY <1>9, <1>15, <2>1
<1> HIDE DEF S
<1>18. 0 .. n \subseteq S
  BY <1>2, <1>16, <1>17, InductionTo
<1>19. \A k \in 0 .. n : f[k] = F[k] /\ f[k] \in Seq(Number)
  <2>1. \A k \in 0 .. n : f[k] = F[k] /\ k \in Nat
    BY <1>2, <1>18 DEF S
  <2> QED BY <1>7, <2>1
<1>20. f \in [0 .. n -> Seq(Number)]
  BY <1>14, <1>19
<1> QED BY <1>1, <1>13, <1>15, <1>20 DEF Runner

(* It depends on what runs; a call that runs adds its number.              *)
LEMMA RunAgree ==
  ASSUME NEW s \in Seq(Call), NEW t \in Seq(Call), NEW n \in Nat, n <= Len(s), n <= Len(t),
         NEW F, NEW G, Runner(s, F), Runner(t, G),
         \A k \in 1 .. n : s[k].op = t[k].op /\ (s[k].op = "run" => s[k].at[1] = t[k].at[1])
  PROVE  \A k \in 0 .. n : F[k] = G[k]
<1> DEFINE S == {k \in 0 .. n : F[k] = G[k]}
<1>1. 0 \in S
  <2>1. F[0] = G[0]
    BY Zenon DEF Runner
  <2> QED BY <2>1
<1>2. ASSUME NEW k \in 0 .. n - 1, k \in S PROVE k + 1 \in S
  <2>1. k + 1 \in 1 .. n /\ k \in 0 .. Len(s) - 1 /\ k \in 0 .. Len(t) - 1 /\ k + 1 \in 0 .. n
    OBVIOUS
  <2>2. /\ F[k + 1] = IF s[k + 1].op = "run" THEN Append(F[k], s[k + 1].at[1]) ELSE F[k]
        /\ G[k + 1] = IF t[k + 1].op = "run" THEN Append(G[k], t[k + 1].at[1]) ELSE G[k]
    BY <2>1 DEF Runner
  <2>3. F[k] = G[k] /\ s[k + 1].op = t[k + 1].op /\ (s[k + 1].op = "run" => s[k + 1].at[1] = t[k + 1].at[1])
    BY <1>2, <2>1
  <2>4. F[k + 1] = G[k + 1]
    BY <2>2, <2>3
  <2> QED BY <2>1, <2>4
<1> HIDE DEF S
<1>3. 0 .. n \subseteq S
  BY <1>1, <1>2, InductionTo
<1> QED BY <1>3 DEF S

LEMMA RunSame ==
  ASSUME NEW s \in Seq(Call), NEW t \in Seq(Call), Len(s) = Len(t),
         \A k \in 1 .. Len(s) : s[k].op = t[k].op /\ (s[k].op = "run" => s[k].at[1] = t[k].at[1])
  PROVE  RunOf(s) = RunOf(t)
<1>1. PICK F : Runner(s, F) /\ RunOf(s) = F[Len(s)]
  BY RunOfFacts
<1>2. PICK G : Runner(t, G) /\ RunOf(t) = G[Len(t)]
  BY RunOfFacts
<1>3. Len(s) \in Nat /\ Len(s) \in 0 .. Len(s) /\ Len(s) <= Len(t)
  OBVIOUS
<1>4. \A k \in 0 .. Len(s) : F[k] = G[k]
  BY <1>1, <1>2, <1>3, RunAgree
<1> QED BY <1>1, <1>2, <1>3, <1>4

(* t is s with one more call.                                              *)
LEMMA RunMore ==
  ASSUME NEW s \in Seq(Call), NEW t \in Seq(Call), Len(t) = Len(s) + 1,
         \A k \in 1 .. Len(s) : s[k].op = t[k].op /\ (s[k].op = "run" => s[k].at[1] = t[k].at[1])
  PROVE  /\ RunOf(s) \in Seq(Number) /\ t[Len(t)].at[1] \in Number
         /\ RunOf(t) = IF t[Len(t)].op = "run" THEN Append(RunOf(s), t[Len(t)].at[1]) ELSE RunOf(s)
<1>1. PICK F : Runner(s, F) /\ RunOf(s) = F[Len(s)]
  BY RunOfFacts
<1>2. PICK G : Runner(t, G) /\ RunOf(t) = G[Len(t)]
  BY RunOfFacts
<1>3. PICK n : n = Len(s)
  OBVIOUS
<1>4. n \in Nat /\ n \in 0 .. n /\ n <= Len(t) /\ n \in 0 .. Len(t) - 1 /\ Len(t) = n + 1 /\ Len(t) \in 1 .. Len(t)
  BY <1>3
<1>5. \A k \in 0 .. n : F[k] = G[k]
  BY <1>1, <1>2, <1>3, <1>4, RunAgree
<1>6. F[n] \in Seq(Number)
  BY <1>1, <1>3, <1>4 DEF Runner
<1>7. G[n + 1] = IF t[n + 1].op = "run" THEN Append(G[n], t[n + 1].at[1]) ELSE G[n]
  BY <1>2, <1>4 DEF Runner
<1>8. t[Len(t)].at[1] \in Number
  BY <1>4, Numbered
<1> QED BY <1>1, <1>2, <1>3, <1>4, <1>5, <1>6, <1>7, <1>8

LEMMA RunRange ==
  ASSUME NEW s \in Seq(Call), NEW m \in 1 .. Len(s), s[m].op = "run"
  PROVE  s[m].at[1] \in Range(RunOf(s))
<1>1. PICK F : Runner(s, F) /\ RunOf(s) = F[Len(s)]
  BY RunOfFacts
<1>2. PICK n : n = Len(s)
  OBVIOUS
<1>3. PICK x : x = s[m].at[1]
  OBVIOUS
<1>4. n \in Nat /\ m \in 1 .. n /\ x \in Number
  BY <1>2, <1>3, Numbered
<1>5. /\ \A k \in 0 .. n : F[k] \in Seq(Number)
      /\ \A k \in 0 .. n - 1 : F[k + 1] = IF s[k + 1].op = "run" THEN Append(F[k], s[k + 1].at[1]) ELSE F[k]
      /\ \A k \in 0 .. n - 1 : s[k + 1].at[1] \in Number
  <2>1. \A k \in 0 .. n - 1 : k + 1 \in 1 .. Len(s)
    BY <1>2, <1>4
  <2> QED BY <1>1, <1>2, <2>1, Numbered DEF Runner
<1> DEFINE S == {k \in 0 .. n : m <= k => x \in Range(F[k])}
<1>6. 0 \in S
  BY <1>4
<1>7. ASSUME NEW k \in 0 .. n - 1, k \in S PROVE k + 1 \in S
  <2>1. k + 1 \in 0 .. n /\ k \in 0 .. n /\ F[k] \in Seq(Number) /\ s[k + 1].at[1] \in Number
    BY <1>4, <1>5
  <2>2. PICK y : y = s[k + 1].at[1]
    OBVIOUS
  <2>3. F[k + 1] = (IF s[k + 1].op = "run" THEN Append(F[k], y) ELSE F[k]) /\ y \in Number
    BY <1>5, <2>1, <2>2
  <2>4. Range(Append(F[k], y)) = Range(F[k]) \cup {y}
    BY <2>1, <2>3, AppendElements
  <2>5. ASSUME m <= k + 1 PROVE x \in Range(F[k + 1])
    <3>1. CASE m = k + 1
      BY <1>3, <2>2, <2>3, <2>4, <3>1
    <3>2. CASE m <= k
      BY <1>7, <2>3, <2>4, <3>2
    <3> QED BY <1>4, <2>1, <2>5, <3>1, <3>2
  <2> QED BY <2>1, <2>5
<1> HIDE DEF S
<1>8. 0 .. n \subseteq S
  BY <1>4, <1>6, <1>7, InductionTo
<1>9. n \in 0 .. n /\ m <= n
  BY <1>4
<1> QED BY <1>1, <1>2, <1>3, <1>8, <1>9 DEF S

LEMMA AppendEnds ==
  ASSUME NEW S, NEW s \in Seq(S), NEW e \in S
  PROVE  Append(s, e) # <<>> /\ Last(Append(s, e)) = e /\ Front(Append(s, e)) = s
<1>1. PICK t : t = Append(s, e)
  OBVIOUS
<1>2. t \in Seq(S) /\ Len(t) = Len(s) + 1 /\ Len(s) \in Nat /\ t[Len(s) + 1] = e /\ \A k \in 1 .. Len(s) : t[k] = s[k]
  BY <1>1, AppendFacts
<1>3. t # <<>>
  BY <1>2
<1>4. /\ Last(t) = t[Len(t)] /\ Front(t) \in Seq(S) /\ Len(Front(t)) = Len(t) - 1
      /\ \A k \in 1 .. Len(t) - 1 : Front(t)[k] = t[k]
  BY <1>2, <1>3, FrontFacts
<1>5. PICK f : f = Front(t)
  OBVIOUS
<1>6. f \in Seq(S) /\ Len(f) = Len(s) /\ \A k \in 1 .. Len(s) : f[k] = s[k]
  BY <1>2, <1>4, <1>5
<1>7. f = s
  BY <1>6
<1> QED BY <1>1, <1>2, <1>3, <1>4, <1>5, <1>7

LEMMA RanFacts ==
  ASSUME ContextInv, ctl # <<>>
  PROVE  /\ Ran = RunOf(ctl) /\ Ran \in Seq(Number) /\ Front(ctl) \in Seq(Call)
         /\ top.op = "run" => Ran # <<>> /\ Last(Ran) = top.at[1] /\ Front(Ran) = RunOf(Front(ctl))
         /\ top.op # "run" => Ran = RunOf(Front(ctl))
<1>1. Ran = RunOf(ctl)
  BY DEF Ran, RunOf
<1>2. ctl \in Seq(Call)
  BY Typed DEF ContextInv
<1>3. PICK s : s = Front(ctl)
  OBVIOUS
<1>4. /\ s \in Seq(Call) /\ Len(ctl) = Len(s) + 1 /\ ctl[Len(ctl)] = top
      /\ \A k \in 1 .. Len(s) : s[k] = ctl[k]
  <2>1. /\ Len(ctl) \in Nat \ {0} /\ top = ctl[Len(ctl)] /\ s \in Seq(Call) /\ Len(s) = Len(ctl) - 1
        /\ \A k \in 1 .. Len(ctl) - 1 : s[k] = ctl[k]
    BY <1>2, <1>3, FrontFacts DEF top
  <2> QED BY <2>1
<1>5. PICK r : r = RunOf(s)
  OBVIOUS
<1>6. /\ r \in Seq(Number) /\ top.at[1] \in Number
      /\ RunOf(ctl) = IF top.op = "run" THEN Append(r, top.at[1]) ELSE r
  BY <1>2, <1>4, <1>5, RunMore
<1>7. PICK x \in Number : x = top.at[1]
  BY <1>6
<1>8. Append(r, x) \in Seq(Number) /\ Append(r, x) # <<>> /\ Last(Append(r, x)) = x /\ Front(Append(r, x)) = r
  BY <1>6, <1>7, AppendEnds
<1> QED BY <1>1, <1>3, <1>4, <1>5, <1>6, <1>7, <1>8

-----------------------------------------------------------------------------
(* Closures implement lexical scoping: the variables in scope *)

Parents == [n \in 1 .. calls |-> ctx[Frame(n)].outer[1]]
Values == [n \in 1 .. calls |-> ctx[Current(Frame(n))].lvar]
Captured == {n \in 1 .. calls : ctx[Frame(n)].moved}

(* A context in use is the current one of its number, and its outer one    *)
(* has the number of its frame's.                                          *)
LEMMA InUse ==
  ASSUME ContextInv, NEW u \in Copies \cup Unmoved
  PROVE  /\ u \in Address /\ u[1] \in 1 .. calls /\ u[1] \in Call0
         /\ Current(Frame(u[1])) = u /\ Parents[u[1]] = ctx[u].outer[1]
         /\ u \in Copies <=> u[1] \in Captured
<1>1. u \in Address /\ u[1] \in Call0 /\ u[1] <= calls /\ u[1] \in Nat \ {0}
  <2>1. u \in Address /\ u[1] <= calls
    BY CopiesFacts, HeldFacts DEF ContextInv
  <2> QED BY <2>1, Addresses
<1>2. u[1] \in 1 .. calls
  BY <1>1, Typed DEF ContextInv
<1>3. PICK n \in Call0 : n = u[1]
  BY <1>1
<1>4. OnStack(Frame(n)) /\ HeapOf(Frame(n)) = Copy(n)
  BY Addresses
<1>5. CASE u \in Copies
  <2>1. u = Copy(n) /\ ctx[Frame(n)].moved /\ Copied0(n)
    BY <1>3, <1>5, CopiesFacts DEF ContextInv, Contexts
  <2>2. ctx[u].outer[1] = ctx[Frame(n)].outer[1]
    BY <2>1 DEF Copied0
  <2> QED BY <1>1, <1>2, <1>3, <1>4, <1>5, <2>1, <2>2 DEF Current, Parents, Captured
<1>6. CASE u \in Unmoved
  <2>1. u = Frame(n) /\ ~ctx[u].moved /\ OnStack(u)
    BY <1>3, <1>6, HeldFacts
  <2>2. u \notin Copies
    BY <2>1, CopiesFacts DEF ContextInv
  <2> QED BY <1>1, <1>2, <1>3, <1>4, <2>1, <2>2 DEF Current, Parents, Captured
<1> QED BY <1>5, <1>6

LEMMA ScopeNumbers ==
  ASSUME ContextInv, Running, NEW D, Scoped(top.at, D)
  PROVE  /\ D \in Nat /\ D <= calls
         /\ \A d \in 0 .. D : /\ Up(top.at, d) \in Copies \cup Unmoved
                              /\ Up(top.at, d)[1] \in 1 .. calls
         /\ \A d \in 0 .. D - 1 : Parents[Up(top.at, d)[1]] = Up(top.at, d + 1)[1] /\ Up(top.at, d + 1)[1] # 0
         /\ Parents[Up(top.at, D)[1]] = 0
<1>1. PICK t : t = top.at
  OBVIOUS
<1>2. t \in Copies \cup Unmoved /\ Scoped(t, D)
  BY <1>1, TopFacts, HeldFacts DEF Running
<1>3. /\ D \in Nat /\ \A d \in 0 .. D : Up(t, d) \in Copies \cup Unmoved
  BY <1>2, ScopeKinds
<1>4. \A d \in 0 .. D : Up(t, d)[1] \in 1 .. calls /\ Parents[Up(t, d)[1]] = ctx[Up(t, d)].outer[1]
  BY <1>3, InUse
<1>5. \A d \in 0 .. D - 1 : /\ d \in 0 .. D /\ d + 1 \in 0 .. D /\ d < d + 1 /\ Up(t, d + 1) = ctx[Up(t, d)].outer
  BY <1>2, <1>3 DEF Scoped
<1>6. calls \in Nat
  BY Typed DEF ContextInv
<1> DEFINE S == {d \in 0 .. D : Up(t, d)[1] + d <= calls}
<1>7. 0 \in S
  BY <1>3, <1>4, <1>6
<1>8. ASSUME NEW d \in 0 .. D - 1, d \in S PROVE d + 1 \in S
  <2>1. Up(t, d + 1)[1] < Up(t, d)[1]
    BY <1>2, <1>5 DEF Scoped
  <2>2. PICK a \in 1 .. calls : a = Up(t, d)[1]
    BY <1>4, <1>5
  <2>3. PICK b \in 1 .. calls : b = Up(t, d + 1)[1]
    BY <1>4, <1>5
  <2>4. a + d <= calls /\ b < a
    BY <1>8, <2>1, <2>2, <2>3
  <2>5. b + (d + 1) <= calls
    BY <1>3, <1>6, <2>4
  <2> QED BY <1>5, <2>3, <2>5
<1> HIDE DEF S
<1>9. 0 .. D \subseteq S
  BY <1>3, <1>7, <1>8, InductionTo
<1>10. D <= calls
  <2>1. D \in 0 .. D
    BY <1>3
  <2>2. PICK a \in 1 .. calls : a = Up(t, D)[1]
    BY <1>4, <2>1
  <2>3. a + D <= calls
    BY <1>9, <2>1, <2>2 DEF S
  <2> QED BY <1>3, <1>6, <2>3
<1>11. Parents[Up(t, D)[1]] = 0
  <2>1. D \in 0 .. D
    BY <1>3
  <2> QED BY <1>2, <1>4, <2>1, Addresses DEF Scoped
<1>12. \A d \in 0 .. D - 1 : Parents[Up(t, d)[1]] = Up(t, d + 1)[1] /\ Up(t, d + 1)[1] # 0
  <2>1. \A d \in 0 .. D - 1 : Up(t, d + 1)[1] \in 1 .. calls
    BY <1>4, <1>5
  <2> QED BY <1>4, <1>5, <1>6, <2>1
<1> QED BY <1>1, <1>3, <1>4, <1>10, <1>11, <1>12

(* The environments in scope are those of the contexts in scope.           *)
LEMMA EnvScope ==
  ASSUME ContextInv, Running, NEW D, Scoped(top.at, D)
  PROVE  /\ Env!cur = top.at[1] /\ Env!Depths = 0 .. D
         /\ \A d \in 0 .. D : Env!Scope(top.at[1], d) = Up(top.at, d)[1]
<1>1. PICK t : t = top.at
  OBVIOUS
<1>2. PICK P : P = Parents
  OBVIOUS
<1>3. Env!cur = t[1] /\ Up(t, 0) = t
  <2>1. Last(Ran) = t[1] /\ t \in Address
    BY <1>1, RanFacts, TopFacts, HeldFacts DEF Running
  <2>2. Env!cur = Last(Ran)
    BY DEF Env!cur, Env!Last, Last
  <2>3. Up(t, 0) = t
    BY <2>1, UpFacts, InvLower DEF Lower, Outers, Address0
  <2> QED BY <2>1, <2>2, <2>3
<1>4. /\ D \in Nat /\ D <= calls /\ calls \in Nat
      /\ \A d \in 0 .. D - 1 : P[Up(t, d)[1]] = Up(t, d + 1)[1] /\ Up(t, d + 1)[1] # 0
      /\ P[Up(t, D)[1]] = 0
  BY <1>1, <1>2, ScopeNumbers, Typed DEF ContextInv
<1>5. ASSUME NEW d \in 0 .. D PROVE Env!Scope(t[1], d) = Up(t, d)[1]
  <2> DEFINE Sol(f) == f = [k \in 0 .. d |-> IF k = 0 THEN t[1] ELSE P[f[k - 1]]]
  <2>1. PICK g : g = [k \in 0 .. d |-> Up(t, k)[1]]
    OBVIOUS
  <2>2. \A k \in 0 .. d : g[k] = Up(t, k)[1]
    BY <2>1
  <2>3. ASSUME NEW k \in 0 .. d PROVE Up(t, k)[1] = IF k = 0 THEN t[1] ELSE P[g[k - 1]]
    <3>1. CASE k = 0
      BY <1>3, <3>1
    <3>2. CASE k # 0
      <4>1. PICK j \in 0 .. D - 1 : k = j + 1 /\ k - 1 = j /\ j \in 0 .. d
        <5>1. k - 1 \in 0 .. D - 1 /\ k = (k - 1) + 1 /\ k - 1 \in 0 .. d
          BY <1>4, <3>2
        <5> QED BY <5>1
      <4> QED BY <1>4, <2>2, <3>2, <4>1
    <3> QED BY <3>1, <3>2
  <2>4. Sol(g)
    <3>1. g = [k \in 0 .. d |-> IF k = 0 THEN t[1] ELSE P[g[k - 1]]]
      BY <2>1, <2>3, Zenon
    <3> QED BY <3>1
  <2>5. PICK f : f = CHOOSE x : Sol(x)
    OBVIOUS
  <2>6. Sol(f)
    <3> HIDE DEF Sol
    <3> QED BY <2>4, <2>5
  <2>7. Env!Scope(t[1], d) = f[d]
    BY <1>2, <2>5 DEF Env!Scope, Parents, Frame
  <2> DEFINE S == {k \in 0 .. d : f[k] = Up(t, k)[1]}
  <2>8. 0 \in S
    BY <1>3, <1>4, <2>6
  <2>9. ASSUME NEW k \in 0 .. d - 1, k \in S PROVE k + 1 \in S
    <3>1. k + 1 \in 0 .. d /\ k + 1 # 0 /\ (k + 1) - 1 = k /\ f[k] = Up(t, k)[1] /\ k \in 0 .. D - 1
      BY <1>4, <2>9
    <3>2. f[k + 1] = P[f[k]]
      BY <2>6, <3>1
    <3> QED BY <1>4, <3>1, <3>2
  <2> HIDE DEF S
  <2>10. 0 .. d \subseteq S
    BY <1>4, <2>8, <2>9, InductionTo
  <2>11. d \in 0 .. d
    BY <1>4
  <2> QED BY <2>7, <2>10, <2>11 DEF S
<1>6. Env!Depths = 0 .. D
  <2>1. Env!Depths = {d \in 0 .. Len(P) : \A k \in 1 .. d : P[Env!Scope(Env!cur, k - 1)] # 0}
    BY <1>2 DEF Env!Depths, Parents, Frame
  <2>2. Len(P) = calls
    BY <1>2, <1>4 DEF Parents
  <2>3. ASSUME NEW d \in 0 .. D, NEW k \in 1 .. d PROVE P[Env!Scope(Env!cur, k - 1)] # 0
    <3>1. PICK j \in 0 .. D - 1 : j = k - 1 /\ j \in 0 .. D
      <4>1. k - 1 \in 0 .. D - 1 /\ k - 1 \in 0 .. D
        BY <1>4
      <4> QED BY <4>1
    <3>2. Env!Scope(t[1], j) = Up(t, j)[1]
      BY <1>5, <3>1
    <3> QED BY <1>3, <1>4, <3>1, <3>2
  <2>4. ASSUME NEW d \in 0 .. calls, d > D PROVE \E k \in 1 .. d : P[Env!Scope(Env!cur, k - 1)] = 0
    <3>1. D + 1 \in 1 .. d /\ (D + 1) - 1 = D /\ D \in 0 .. D
      BY <1>4, <2>4
    <3>2. Env!Scope(t[1], D) = Up(t, D)[1]
      BY <1>5, <3>1
    <3> QED BY <1>3, <1>4, <3>1, <3>2
  <2>5. \A d \in 0 .. D : d \in 0 .. calls
    BY <1>4
  <2>6. \A d \in 0 .. calls : d \in 0 .. D \/ d > D
    BY <1>4
  <2> QED BY <2>1, <2>2, <2>3, <2>4, <2>5, <2>6
<1> QED BY <1>1, <1>3, <1>5, <1>6

-----------------------------------------------------------------------------
(* Closures implement lexical scoping: the steps *)

EnvTyped ==
    /\ Parents \in Seq(Number) /\ Len(Parents) = calls
    /\ Values \in Seq(Val \cup {Uninit}) /\ Len(Values) = calls
    /\ \A n \in 1 .. calls :
          /\ Parents[n] = ctx[Frame(n)].outer[1]
          /\ Values[n] = ctx[IF ctx[Frame(n)].moved THEN Copy(n) ELSE Frame(n)].lvar

LEMMA EnvVars == TypeOK => EnvTyped
<1> SUFFICES ASSUME TypeOK PROVE EnvTyped
  OBVIOUS
<1>1. calls \in Nat /\ \A n \in 1 .. calls : n \in Call0
  BY ClosuresAssumption DEF TypeOK, Call0
<1>2. ASSUME NEW n \in 1 .. calls
      PROVE  /\ Current(Frame(n)) = IF ctx[Frame(n)].moved THEN Copy(n) ELSE Frame(n)
             /\ Current(Frame(n)) \in Address /\ Frame(n) \in Address
  <2>1. n \in Call0
    BY <1>1
  <2>2. OnStack(Frame(n)) /\ HeapOf(Frame(n)) = Copy(n) /\ Frame(n) \in Address /\ Copy(n) \in Address
    BY <2>1, Addresses
  <2> QED BY <2>2 DEF Current
<1>3. ASSUME NEW n \in 1 .. calls
      PROVE  ctx[Frame(n)].outer[1] \in Number /\ ctx[Current(Frame(n))].lvar \in Val \cup {Uninit}
  <2>1. ctx[Frame(n)].outer \in Address0
    BY <1>2, Typed
  <2> QED BY <1>2, <2>1, Typed, Addresses, ClosuresAssumption DEF Address0, Number, Call0
<1>4. Parents \in [1 .. calls -> Number] /\ Values \in [1 .. calls -> Val \cup {Uninit}]
  BY <1>3 DEF Parents, Values
<1> QED BY <1>1, <1>2, <1>4 DEF Parents, Values, EnvTyped

LEMMA EnvVarsNext == (TypeOK => EnvTyped)'
<1>1. TypeOK => EnvTyped
  BY EnvVars
<1> QED BY <1>1, PTL

LEMMA AppendIs ==
  ASSUME NEW S, NEW s \in Seq(S), NEW t \in Seq(S), NEW e, Len(t) = Len(s) + 1, t[Len(s) + 1] = e,
         \A k \in 1 .. Len(s) : t[k] = s[k]
  PROVE  t = Append(s, e)
<1>1. e \in S
  <2>1. Len(s) + 1 \in 1 .. Len(t)
    OBVIOUS
  <2> QED BY <2>1
<1>2. PICK u : u = Append(s, e)
  OBVIOUS
<1>3. u \in Seq(S) /\ Len(u) = Len(s) + 1 /\ Len(s) \in Nat /\ u[Len(s) + 1] = e /\ \A k \in 1 .. Len(s) : u[k] = s[k]
  BY <1>1, <1>2, AppendFacts
<1>4. \A k \in 1 .. Len(t) : u[k] = t[k]
  <2>1. \A k \in 1 .. Len(t) : k \in 1 .. Len(s) \/ k = Len(s) + 1
    BY <1>3
  <2> QED BY <1>3, <2>1
<1>5. u = t
  BY <1>3, <1>4
<1> QED BY <1>2, <1>5

LEMMA EnterMeans ==
  ASSUME ContextInv, NEW n, NEW o, NEW b, Admitted(o, b), Entering(n, o, b)
  PROVE  Env!Enter(o[1]) /\ o[1] \in {0} \cup (1 .. MaxCalls)
<1>1. TypeOK' /\ TypeOK
  BY EnterKeeps DEF ContextInv
<1>2. /\ n \in Call0 /\ n = calls + 1 /\ calls' = n /\ calls \in Nat /\ Frame(n) \in Address
      /\ o \in Address0
  BY Typed, Addresses DEF ContextInv, Entering, Admitted
<1>3. PICK new : new = [live |-> TRUE, outer |-> o, block |-> b, moved |-> FALSE, lvar |-> Uninit]
  OBVIOUS
<1>4. /\ ctx'[Frame(n)] = new /\ \A c \in Address : c # Frame(n) => ctx'[c] = ctx[c]
      /\ new.outer = o /\ ~new.moved /\ new.lvar = Uninit
  <2>1. ctx \in [Address -> Context] /\ ctx' = [ctx EXCEPT ![Frame(n)] = new]
    BY <1>3 DEF Entering, ContextInv, TypeOK
  <2> QED BY <1>2, <1>3, <2>1
<1>5. \A m \in 1 .. calls : /\ m \in Call0 /\ Frame(m) # Frame(n) /\ Copy(m) # Frame(n)
                            /\ ctx'[Frame(m)] = ctx[Frame(m)] /\ ctx'[Copy(m)] = ctx[Copy(m)]
  <2> SUFFICES ASSUME NEW m \in 1 .. calls
               PROVE  /\ m \in Call0 /\ Frame(m) # Frame(n) /\ Copy(m) # Frame(n)
                      /\ ctx'[Frame(m)] = ctx[Frame(m)] /\ ctx'[Copy(m)] = ctx[Copy(m)]
    OBVIOUS
  <2>1. m \in Call0 /\ m # n
    BY <1>2, ClosuresAssumption DEF Call0
  <2>2. Frame(m) # Frame(n) /\ Copy(m) # Frame(n) /\ Frame(m) \in Address /\ Copy(m) \in Address
    BY <1>2, <2>1, Addresses
  <2> QED BY <1>4, <2>1, <2>2
<1>6. /\ Parents \in Seq(Number) /\ Len(Parents) = calls
      /\ Values \in Seq(Val \cup {Uninit}) /\ Len(Values) = calls
      /\ \A m \in 1 .. calls : /\ Parents[m] = ctx[Frame(m)].outer[1]
                               /\ Values[m] = ctx[IF ctx[Frame(m)].moved THEN Copy(m) ELSE Frame(m)].lvar
  BY <1>1, EnvVars DEF EnvTyped
<1>7. /\ Parents' \in Seq(Number) /\ Len(Parents') = n
      /\ Values' \in Seq(Val \cup {Uninit}) /\ Len(Values') = n
      /\ \A m \in 1 .. n : /\ Parents'[m] = ctx'[Frame(m)].outer[1]
                           /\ Values'[m] = ctx'[IF ctx'[Frame(m)].moved THEN Copy(m) ELSE Frame(m)].lvar
  BY <1>1, <1>2, EnvVarsNext DEF EnvTyped
<1>8. n \in 1 .. n /\ \A m \in 1 .. calls : m \in 1 .. n
  BY <1>2 DEF Call0
<1>9. Parents' = Append(Parents, o[1])
  <2>1. Parents'[n] = o[1] /\ \A m \in 1 .. calls : Parents'[m] = Parents[m]
    BY <1>4, <1>5, <1>6, <1>7, <1>8
  <2>2. PICK p : p = Parents'
    OBVIOUS
  <2>3. p \in Seq(Number) /\ Len(p) = Len(Parents) + 1 /\ p[Len(Parents) + 1] = o[1]
        /\ \A m \in 1 .. Len(Parents) : p[m] = Parents[m]
    BY <1>2, <1>6, <1>7, <2>1, <2>2
  <2>4. p = Append(Parents, o[1])
    BY <1>6, <2>3, AppendIs
  <2> QED BY <2>2, <2>4
<1>10. Values' = Append(Values, Uninit)
  <2>1. Values'[n] = Uninit /\ \A m \in 1 .. calls : Values'[m] = Values[m]
    BY <1>4, <1>5, <1>6, <1>7, <1>8
  <2>2. PICK p : p = Values'
    OBVIOUS
  <2>3. p \in Seq(Val \cup {Uninit}) /\ Len(p) = Len(Values) + 1 /\ p[Len(Values) + 1] = Uninit
        /\ \A m \in 1 .. Len(Values) : p[m] = Values[m]
    BY <1>2, <1>6, <1>7, <2>1, <2>2
  <2>4. p = Append(Values, Uninit)
    BY <1>6, <2>3, AppendIs
  <2> QED BY <2>2, <2>4
<1>11. Ran' = Append(Ran, n) /\ Ran = RunOf(ctl)
  <2>1. ctl \in Seq(Call) /\ ctl' \in Seq(Call) /\ Len(ctl') = Len(ctl) + 1 /\ ctl'[Len(ctl) + 1] = Run(Frame(n))
    BY Typed DEF ContextInv, Entering
  <2>2. \A k \in 1 .. Len(ctl) : ctl[k].op = ctl'[k].op /\ (ctl[k].op = "run" => ctl[k].at[1] = ctl'[k].at[1])
    <3> SUFFICES ASSUME NEW k \in 1 .. Len(ctl)
                 PROVE  ctl[k].op = ctl'[k].op /\ (ctl[k].op = "run" => ctl[k].at[1] = ctl'[k].at[1])
      OBVIOUS
    <3>1. CASE ctl'[k] = ctl[k]
      BY <3>1
    <3>2. CASE ctl[k].op = "each" /\ ctl'[k] = Builtin("each", ctl[k].blk, Frame(n))
      <4>1. ctl'[k].op = "each"
        BY <3>2 DEF Builtin
      <4> QED BY <3>2, <4>1
    <3> QED BY <3>1, <3>2 DEF Entering
  <2>3. ctl'[Len(ctl')].op = "run" /\ ctl'[Len(ctl')].at[1] = n
    BY <1>2, <2>1, Addresses DEF Run
  <2>4. PICK c : c = ctl'
    OBVIOUS
  <2>5. RunOf(c) = Append(RunOf(ctl), n)
    BY <2>1, <2>2, <2>3, <2>4, RunMore
  <2>6. Ran = RunOf(ctl) /\ Ran' = RunOf(c)
    BY <2>4 DEF Ran, RunOf
  <2> QED BY <2>5, <2>6
<1>12. Captured' = Captured
  <2>1. \A m \in 1 .. n : m \in 1 .. calls \/ m = n
    BY <1>2
  <2> QED BY <1>2, <1>4, <1>5, <1>8, <2>1 DEF Captured
<1>13. o[1] \in {0} \cup Captured \cup Range(Ran) /\ o[1] \in {0} \cup (1 .. MaxCalls)
  <2>1. CASE o \in Copies
    BY <2>1, InUse DEF Call0
  <2>2. CASE o = NONE
    BY <2>2, Addresses
  <2>3. CASE o \in Runs
    <3>1. PICK k \in DOMAIN ctl : ctl[k].op = "run" /\ o = ctl[k].at
      BY <2>3 DEF Runs
    <3>2. o[1] \in Range(RunOf(ctl))
      BY <3>1, Typed, RunRange DEF ContextInv
    <3> QED BY <1>11, <2>3, <3>2, HeldFacts DEF Call0
  <2> QED BY <2>1, <2>2, <2>3 DEF Admitted
<1>14. Len(Parents) + 1 \in 1 .. MaxCalls /\ Len(Parents) + 1 = n
  BY <1>2, <1>6 DEF Call0
<1>15. Env!Range(Ran) = Range(Ran)
  BY DEF Env!Range, Range
<1> QED BY <1>9, <1>10, <1>11, <1>12, <1>13, <1>14, <1>15 DEF Env!Enter, Parents, Values, Captured, Frame

LEMMA PushMeans ==
  ASSUME ContextInv, NEW e, Pushing(e), Push(e)
  PROVE  /\ Parents' = Parents /\ Values' = Values /\ Captured' = Captured
         /\ Ran' = IF e.op = "run" THEN Append(Ran, e.at[1]) ELSE Ran
<1>1. calls' = calls /\ ctx' = ctx /\ ctl' = Append(ctl, e) /\ e \in Call /\ ctl \in Seq(Call)
  BY Typed DEF Push, Pushing, ContextInv
<1>2. Parents' = Parents /\ Values' = Values /\ Captured' = Captured
  BY <1>1 DEF Parents, Values, Captured, Current, OnStack
<1>3. PICK t : t = ctl'
  OBVIOUS
<1>4. t \in Seq(Call) /\ Len(t) = Len(ctl) + 1 /\ t[Len(t)] = e /\ \A k \in 1 .. Len(ctl) : t[k] = ctl[k]
  <2>1. /\ t \in Seq(Call) /\ Len(t) = Len(ctl) + 1 /\ t[Len(ctl) + 1] = e
        /\ \A k \in 1 .. Len(ctl) : t[k] = ctl[k]
    BY <1>1, <1>3, AppendFacts
  <2> QED BY <2>1
<1>5. RunOf(t) = IF e.op = "run" THEN Append(RunOf(ctl), e.at[1]) ELSE RunOf(ctl)
  BY <1>1, <1>4, RunMore
<1>6. Ran = RunOf(ctl) /\ Ran' = RunOf(t)
  BY <1>3 DEF Ran, RunOf
<1> QED BY <1>2, <1>5, <1>6

LEMMA ReturnMeans ==
  ASSUME ContextInv, Return
  PROVE  Env!Leave \/ UNCHANGED Env!vars
<1>1. calls' = calls /\ ctl # <<>> /\ ctl' = Front(ctl) /\ TypeOK
  BY DEF Return, ContextInv
<1>2. \A n \in 1 .. calls : n \in Call0 /\ Frame(n) \in Address /\ Copy(n) \in Address
  <2>1. \A n \in 1 .. calls : n \in Call0
    BY ClosuresAssumption DEF ContextInv, TypeOK, Call0
  <2> QED BY <2>1, Addresses
<1>3. Parents' = Parents /\ Captured' = Captured
  BY <1>1, <1>2, ReturnFields DEF Parents, Captured
<1>4. Values' = Values
  <2>1. ASSUME NEW n \in 1 .. calls
        PROVE  ctx'[Current(Frame(n))'].lvar = ctx[Current(Frame(n))].lvar
    <3>1. Current(Frame(n))' = Current(Frame(n))
      BY <1>1, <1>2, ReturnFields DEF Current, OnStack
    <3>2. Current(Frame(n)) \in Address
      BY <1>2, Addresses DEF Current
    <3> QED BY <1>1, <3>1, <3>2, ReturnFields
  <2> QED BY <1>1, <2>1 DEF Values
<1>5. PICK s : s = ctl'
  OBVIOUS
<1>6. Ran' = RunOf(s)
  BY <1>5 DEF Ran, RunOf
<1>7. CASE top.op = "run"
  <2>1. Ran # <<>> /\ Ran' = Front(Ran)
    BY <1>1, <1>5, <1>6, <1>7, RanFacts
  <2>2. Env!Front(Ran) = Front(Ran)
    BY DEF Env!Front, Front
  <2> QED BY <1>3, <1>4, <2>1, <2>2 DEF Env!Leave, Parents, Values, Captured, Frame
<1>8. CASE top.op # "run"
  <2>1. Ran' = Ran
    BY <1>1, <1>5, <1>6, <1>8, RanFacts
  <2> QED BY <1>3, <1>4, <2>1 DEF Env!vars, Parents, Values, Captured, Frame
<1> QED BY <1>7, <1>8

(* An assignment to the variable of a context in scope.                    *)
LEMMA AssignMeans ==
  ASSUME ContextInv, Running, NEW d \in Nat, Up(top.at, d) # NONE,
         NEW v \in Val \cup {Uninit}, NEW u, u = Up(top.at, d),
         ctx' = [ctx EXCEPT ![u].lvar = v], UNCHANGED <<calls, ctl, procs, enums>>
  PROVE  /\ Env!Assign(d, v) /\ d \in Env!Depths
         /\ Env!Scope(Env!cur, d) = u[1] /\ Values[u[1]] = ctx[u].lvar /\ Ran # <<>>
<1>1. PICK t : t = top.at
  OBVIOUS
<1>2. t \in Address /\ t \in Copies \cup Unmoved /\ ctl # <<>> /\ top.op = "run" /\ TypeOK
  BY <1>1, TopFacts, HeldFacts DEF Running, ContextInv
<1>3. PICK D : Scoped(t, D)
  BY <1>2, InvLower, ScopedFacts
<1>4. D \in Nat
  BY <1>2, <1>3, ScopeKinds
<1>5. d \in 0 .. D
  BY <1>1, <1>3, <1>4 DEF Scoped
<1>6. Env!cur = t[1] /\ d \in Env!Depths /\ Env!Scope(t[1], d) = u[1]
  BY <1>1, <1>3, <1>5, EnvScope
<1>7. u \in Copies \cup Unmoved /\ u \in Address
  BY <1>1, UpInUse
<1>8. u[1] \in 1 .. calls /\ Current(Frame(u[1])) = u
  BY <1>7, InUse
<1>9. Values[u[1]] = ctx[u].lvar
  BY <1>8 DEF Values
<1>10. /\ ctx'[u].lvar = v /\ ctx'[u].outer = ctx[u].outer /\ ctx'[u].moved = ctx[u].moved
       /\ \A c \in Address : c # u => ctx'[c] = ctx[c]
  <2>1. ctx \in [Address -> Context] /\ ctx[u] \in Context
    BY <1>2, <1>7, Typed DEF TypeOK
  <2>2. PICK new : new = [ctx[u] EXCEPT !.lvar = v]
    OBVIOUS
  <2>3. new.lvar = v /\ new.outer = ctx[u].outer /\ new.moved = ctx[u].moved
    BY <2>1, <2>2 DEF Context
  <2>4. ctx' = [ctx EXCEPT ![u] = new]
    BY <2>2
  <2> QED BY <1>7, <2>1, <2>3, <2>4
<1>11. calls' = calls /\ \A n \in 1 .. calls : n \in Call0 /\ Frame(n) \in Address /\ Copy(n) \in Address /\ Frame(n)[1] = n /\ Copy(n)[1] = n
  <2>1. \A n \in 1 .. calls : n \in Call0
    BY <1>2, ClosuresAssumption DEF TypeOK, Call0
  <2> QED BY <2>1, Addresses
<1>12. \A c \in Address : ctx'[c].outer = ctx[c].outer /\ ctx'[c].moved = ctx[c].moved
  BY <1>10
<1>13. Parents' = Parents /\ Captured' = Captured /\ Ran' = Ran
  BY <1>11, <1>12 DEF Parents, Captured, Ran
<1>14. Values' = [Values EXCEPT ![u[1]] = v]
  <2>1. ASSUME NEW n \in 1 .. calls
        PROVE  ctx'[Current(Frame(n))'].lvar = IF n = u[1] THEN v ELSE Values[n]
    <3>1. Current(Frame(n))' = Current(Frame(n))
      BY <1>11, <1>12 DEF Current, OnStack
    <3>2. Current(Frame(n)) \in Address /\ Current(Frame(n))[1] = n
      BY <1>11, Addresses DEF Current
    <3>3. CASE n = u[1]
      BY <1>8, <1>10, <3>1, <3>3
    <3>4. CASE n # u[1]
      <4>1. Current(Frame(n)) # u
        BY <3>2, <3>4
      <4>2. ctx'[Current(Frame(n))] = ctx[Current(Frame(n))]
        BY <1>10, <3>2, <4>1
      <4>3. Values[n] = ctx[Current(Frame(n))].lvar
        BY DEF Values
      <4> HIDE DEF Values
      <4> QED BY <3>1, <3>4, <4>2, <4>3
    <3> QED BY <3>3, <3>4
  <2>2. Values' = [n \in 1 .. calls |-> ctx'[Current(Frame(n))'].lvar]
    BY <1>11 DEF Values
  <2>3. DOMAIN Values = 1 .. calls
    BY DEF Values
  <2> QED BY <1>8, <2>1, <2>2, <2>3
<1>15. Ran # <<>>
  BY <1>2, RanFacts
<1>16. Env!Assign(d, v)
  BY <1>6, <1>13, <1>14, <1>15 DEF Env!Assign, Parents, Values, Captured, Frame
<1> QED BY <1>6, <1>9, <1>15, <1>16

LEMMA MoveMeans ==
  ASSUME ContextInv, ~CapturedBlocks, MakeProc
  PROVE  Env!Capture
<1>1. PICK M : M = Moving(top.at)
  OBVIOUS
<1>2. PICK t : t = top.at
  OBVIOUS
<1>3. /\ Running /\ ctl # <<>> /\ top.op = "run" /\ calls' = calls /\ TypeOK
      /\ t \in Address /\ t \in Copies \cup Unmoved
  BY <1>2, TopFacts, HeldFacts DEF MakeProc, Running, ContextInv
<1>4. ASSUME NEW n \in Call0
      PROVE  LET f == Frame(n)  c == Copy(n) IN
               /\ f \notin M => ctx'[f] = ctx[f] /\ ctx'[c] = ctx[c]
               /\ f \in M => /\ ~ctx[f].moved /\ ctx'[f].moved
                             /\ ctx'[f].outer = ctx[f].outer /\ ctx'[c].lvar = ctx[f].lvar
  BY <1>1, MoveEffects
<1>5. \A n \in 1 .. calls : n \in Call0
  BY <1>3, ClosuresAssumption DEF TypeOK, Call0
<1>6. PICK D : Scoped(t, D)
  BY <1>3, InvLower, ScopedFacts
<1>7. /\ M = {Up(t, d) : d \in 0 .. D} \cap Unmoved
      /\ Env!cur = t[1] /\ Env!Depths = 0 .. D
      /\ \A d \in 0 .. D : Env!Scope(t[1], d) = Up(t, d)[1] /\ Up(t, d) \in Copies \cup Unmoved
  BY <1>1, <1>2, <1>3, <1>6, MovingIs, EnvScope, ScopeNumbers
<1>8. Parents' = Parents
  BY <1>3, <1>4, <1>5 DEF Parents
<1>9. Values' = Values
  <2>1. /\ Values \in Seq(Val \cup {Uninit}) /\ Len(Values) = calls
        /\ \A m \in 1 .. calls : Values[m] = ctx[IF ctx[Frame(m)].moved THEN Copy(m) ELSE Frame(m)].lvar
    BY <1>3, EnvVars DEF EnvTyped
  <2>2. PICK V : V = Values'
    OBVIOUS
  <2>3. /\ V \in Seq(Val \cup {Uninit}) /\ Len(V) = calls
        /\ \A m \in 1 .. calls : V[m] = ctx'[IF ctx'[Frame(m)].moved THEN Copy(m) ELSE Frame(m)].lvar
    BY <1>3, <2>2, MoveKeeps, EnvVarsNext DEF EnvTyped, ContextInv
  <2>4. \A m \in 1 .. calls : V[m] = Values[m]
    BY <1>4, <1>5, <2>1, <2>3
  <2>5. V = Values
    BY <1>3, <2>1, <2>3, <2>4
  <2> QED BY <2>2, <2>5
<1>10. Ran' = Ran
  <2>1. PICK c : c = ctl'
    OBVIOUS
  <2>2. /\ ctl \in Seq(Call) /\ DOMAIN ctl = 1 .. Len(ctl) /\ c \in Seq(Call) /\ Len(c) = Len(ctl)
    BY <1>1, <2>1, MoveEffects, Typed DEF ContextInv
  <2>3. ASSUME NEW k \in 1 .. Len(ctl)
        PROVE  c[k].op = ctl[k].op /\ (c[k].op = "run" => c[k].at[1] = ctl[k].at[1])
    <3>1. CASE c[k] = ctl[k]
      BY <3>1
    <3>2. CASE ctl[k].op = "run" /\ ctl[k].at \in M /\ c[k] = Run(Copy(ctl[k].at[1]))
      <4>1. ctl[k].at[1] \in Call0
        BY <1>7, <3>2, HeldFacts
      <4> QED BY <3>2, <4>1, Addresses DEF Run
    <3> QED BY <1>1, <2>1, <2>2, <3>1, <3>2, MoveEffects
  <2>4. RunOf(c) = RunOf(ctl)
    BY <2>2, <2>3, RunSame
  <2> QED BY <2>1, <2>4 DEF Ran, RunOf
<1>11. Captured' = Captured \cup {Up(t, d)[1] : d \in 0 .. D}
  <2>1. \A n \in 1 .. calls : ctx'[Frame(n)].moved <=> (ctx[Frame(n)].moved \/ Frame(n) \in M)
    BY <1>4, <1>5
  <2>2. ASSUME NEW s \in M PROVE \E d \in 0 .. D : s = Up(t, d)
    BY <1>7
  <2>3. \A n \in 1 .. calls : Frame(n)[1] = n
    BY <1>5, Addresses
  <2>4. ASSUME NEW d \in 0 .. D PROVE Up(t, d)[1] \in Captured'
    <3>1. PICK u \in Copies \cup Unmoved : u = Up(t, d)
      BY <1>7
    <3>2. u[1] \in 1 .. calls /\ (u \in Copies <=> u[1] \in Captured)
      BY InUse
    <3>3. CASE u \in Copies
      BY <1>3, <2>1, <3>1, <3>2, <3>3 DEF Captured
    <3>4. CASE u \in Unmoved
      <4>1. u \in M /\ u = Frame(u[1])
        BY <1>7, <3>1, <3>4, HeldFacts
      <4> QED BY <1>3, <2>1, <3>1, <3>2, <4>1 DEF Captured
    <3> QED BY <3>3, <3>4
  <2>5. Captured \subseteq Captured'
    BY <1>3, <2>1 DEF Captured
  <2>6. \A n \in Captured' : n \in Captured \/ \E d \in 0 .. D : n = Up(t, d)[1]
    BY <1>3, <2>1, <2>2, <2>3 DEF Captured
  <2> QED BY <2>4, <2>5, <2>6
<1>12. {Up(t, d)[1] : d \in 0 .. D} = {Env!Scope(Env!cur, d) : d \in Env!Depths}
  BY <1>7
<1>13. Ran # <<>>
  BY <1>3, RanFacts
<1>14. Captured' = Captured \cup {Env!Scope(Env!cur, d) : d \in Env!Depths}
  BY <1>11, <1>12
<1> QED BY <1>8, <1>9, <1>10, <1>13, <1>14 DEF Env!Capture, Parents, Values, Captured, Frame

LEMMA InitMeans ==
  ASSUME Init
  PROVE  Env!Init
<1>1. ContextInv /\ TypeOK
  BY InitInv DEF ContextInv
<1>2. calls = 1 /\ ctl = <<Run(Frame(1))>> /\ 1 \in Call0
  BY ClosuresAssumption DEF Init, Frame, Call0
<1>3. Frame(1) \in Address /\ Frame(1)[1] = 1 /\ Run(Frame(1)).op = "run" /\ Run(Frame(1)).at[1] = 1
  BY <1>2, Addresses DEF Run
<1>4. ctx[Frame(1)].outer = NONE /\ ctx[Frame(1)].lvar = Uninit /\ ~ctx[Frame(1)].moved
  <2>1. ctx[Frame(1)] = [Unused EXCEPT !.live = TRUE]
    BY <1>3 DEF Init, Frame
  <2>2. PICK u : u = Unused
    OBVIOUS
  <2>3. u \in Context /\ u.outer = NONE /\ u.lvar = Uninit /\ ~u.moved
    BY <2>2 DEF Unused, Context
  <2>4. ctx[Frame(1)] = [u EXCEPT !.live = TRUE]
    BY <2>1, <2>2
  <2> QED BY <2>3, <2>4 DEF Context
<1>5. /\ Parents \in Seq(Number) /\ Len(Parents) = 1 /\ Parents[1] = 0
      /\ Values \in Seq(Val \cup {Uninit}) /\ Len(Values) = 1 /\ Values[1] = Uninit
  <2>1. 1 \in 1 .. calls
    BY <1>2
  <2> QED BY <1>1, <1>2, <1>4, <2>1, EnvVars, Addresses DEF EnvTyped
<1>6. Parents = <<0>> /\ Values = <<Uninit>>
  BY <1>5
<1>7. Captured = {}
  BY <1>2, <1>4 DEF Captured
<1>8. Ran = <<1>>
  <2>1. /\ ctl \in Seq(Call) /\ Len(ctl) = 1 /\ ctl[1].op = "run" /\ ctl[1].at[1] = 1
    BY <1>1, <1>2, <1>3, Typed
  <2>2. PICK s : s = <<>>
    OBVIOUS
  <2>3. s \in Seq(Call) /\ Len(s) = 0
    BY <2>2
  <2>4. PICK F : Runner(s, F) /\ RunOf(s) = F[Len(s)]
    BY <2>3, RunOfFacts
  <2>5. RunOf(s) = <<>>
    BY <2>3, <2>4 DEF Runner
  <2>6. RunOf(ctl) = Append(RunOf(s), 1)
    <3>1. Len(ctl) = Len(s) + 1 /\ \A k \in 1 .. Len(s) : s[k].op = ctl[k].op /\ (s[k].op = "run" => s[k].at[1] = ctl[k].at[1])
      BY <2>1, <2>3
    <3>2. RunOf(ctl) = IF ctl[Len(ctl)].op = "run" THEN Append(RunOf(s), ctl[Len(ctl)].at[1]) ELSE RunOf(s)
      <4>1. ctl \in Seq(Call) /\ s \in Seq(Call)
        BY <2>1, <2>3
      <4> QED BY <3>1, <4>1, RunMore
    <3>3. ctl[Len(ctl)].op = "run" /\ ctl[Len(ctl)].at[1] = 1
      BY <2>1
    <3> QED BY <3>2, <3>3
  <2>7. PICK r : r = RunOf(ctl)
    OBVIOUS
  <2>8. r = <<1>>
    <3>1. r = Append(<<>>, 1)
      BY <2>5, <2>6, <2>7
    <3> QED BY <3>1
  <2>9. Ran = RunOf(ctl)
    BY DEF Ran, RunOf
  <2> QED BY <2>7, <2>8, <2>9
<1> QED BY <1>6, <1>7, <1>8 DEF Env!Init, Parents, Values, Captured, Frame

LEMMA StepMeans ==
  ASSUME ContextInv, ~Enumerators, ~CapturedBlocks, [Next]_vars
  PROVE  [Env!Next]_(Env!vars)
<1>1. TypeOK /\ NONE \in Address0
  BY DEF ContextInv, Address0
<1>2. ASSUME NEW o, NEW b, Admitted(o, b), Entering(calls + 1, o, b) PROVE Env!Next
  BY <1>2, EnterMeans DEF Env!Next
<1>3. ASSUME NEW b \in Address0, CallMethod(b) PROVE Env!Next
  <2>1. Running /\ b \in {NONE, top.at} \cup procs /\ Enter(NONE, b, ctl)
    BY <1>3 DEF CallMethod
  <2> QED BY <1>1, <1>2, <2>1, MethodAdmitted, EnterIsEntering
<1>4. ASSUME BuiltinCallsBlock PROVE Env!Next
  <2>1. ctl # <<>> /\ top.op = "native" /\ Enter(Current(top.blk), NONE, ctl)
    BY <1>4 DEF BuiltinCallsBlock, OuterOf
  <2>2. top.at = NONE
    BY <2>1, TopFacts DEF RightAt
  <2>3. Admitted(Current(top.blk), NONE)
    BY <2>1, <2>2, CallerFacts
  <2> QED BY <1>1, <1>2, <2>1, <2>3, EnterIsEntering DEF Admitted
<1>5. ASSUME EachCallsBlock PROVE Env!Next
  <2>1. ctl # <<>> /\ top.op = "each"
    BY <1>5 DEF EachCallsBlock
  <2>2. CASE top.at = NONE
    <3>1. Enter(Current(top.blk), NONE, Append(Front(ctl), Builtin("each", top.blk, <<calls + 1, "stack">>)))
      BY <1>5, <2>2 DEF EachCallsBlock, OuterOf
    <3>2. Admitted(Current(top.blk), NONE)
      BY <2>1, <2>2, CallerFacts
    <3> QED BY <1>1, <1>2, <2>1, <2>2, <3>1, <3>2, RoundIsEntering DEF Admitted
  <2>3. CASE top.at # NONE
    <3>1. PICK e : e = Run(Reused(top.at))
      OBVIOUS
    <3>2. Pushing(e) /\ Push(e) /\ e.op = "run" /\ e.at[1] = top.at[1]
      BY <1>5, <2>1, <2>3, <3>1, RoundFacts DEF EachCallsBlock, Run
    <3>3. PICK n : n = top.at[1]
      OBVIOUS
    <3>4. n \in 1 .. calls /\ n \in 1 .. MaxCalls
      <4>1. top.at \in Held
        BY <2>1, <2>3, TopFacts
      <4>2. n \in Call0 /\ n <= calls
        BY <3>3, <4>1, HeldFacts
      <4> QED BY <1>1, <4>2, Typed DEF Call0
    <3>5. Env!Again(n)
      <4>1. Parents' = Parents /\ Values' = Values /\ Captured' = Captured /\ Ran' = Append(Ran, n)
        BY <3>2, <3>3, PushMeans
      <4>2. n \in DOMAIN Parents
        BY <3>4 DEF Parents
      <4> QED BY <4>1, <4>2 DEF Env!Again, Parents, Values, Captured, Frame
    <3> QED BY <3>4, <3>5 DEF Env!Next
  <2> QED BY <2>2, <2>3
<1>6. ASSUME EvalYield PROVE Env!Next
  <2>1. PICK b : b = ctx[MethodContext(top.at)].block
    OBVIOUS
  <2>2. Running /\ b # NONE /\ Enter(Current(b), NONE, ctl)
    BY <1>6, <2>1 DEF EvalYield, OuterOf
  <2>3. Admitted(Current(b), NONE)
    BY <2>1, <2>2, YieldAdmitted
  <2> QED BY <1>1, <1>2, <2>2, <2>3, EnterIsEntering DEF Admitted
<1>7. ASSUME NEW p \in Address, EvalProc(p) PROVE Env!Next
  <2>1. p \in procs /\ Enter(p, NONE, ctl)
    BY <1>7 DEF EvalProc
  <2>2. p \in Copies /\ Admitted(p, NONE)
    BY <2>1 DEF Admitted, Address0, ContextInv, Contexts
  <2> QED BY <1>1, <1>2, <2>1, <2>2, EnterIsEntering DEF Admitted
<1>8. ASSUME NEW op \in {"each", "native"}, CallBuiltin(op) PROVE UNCHANGED Env!vars
  <2>1. PICK t : t = top.at
    OBVIOUS
  <2>2. PICK e : e = Builtin(op, t, NONE)
    OBVIOUS
  <2>3. ctl # <<>> /\ top.op = "run" /\ Push(e)
    BY <1>8, <2>1, <2>2 DEF CallBuiltin, Running
  <2>4. t \in Address /\ (OnStack(t) \/ t \in Copies)
    BY <2>1, <2>3, TopFacts, HeldFacts
  <2>5. e \in Call /\ e.op = op /\ e.at = NONE /\ e.blk = t
    BY <2>2, <2>4 DEF Builtin, Call, Address0
  <2>6. RightAt(e)
    BY <2>5 DEF RightAt
  <2>7. Pushing(e)
    BY <2>1, <2>3, <2>4, <2>5, <2>6 DEF Pushing
  <2>8. Parents' = Parents /\ Values' = Values /\ Captured' = Captured /\ Ran' = Ran
    BY <2>3, <2>5, <2>7, PushMeans
  <2> QED BY <2>8 DEF Env!vars, Parents, Values, Captured, Frame
<1>9. ASSUME MakeEnum \/ UNCHANGED vars PROVE UNCHANGED Env!vars
  <2>1. calls' = calls /\ ctx' = ctx /\ ctl' = ctl
    BY <1>9 DEF MakeEnum, vars
  <2> QED BY <2>1 DEF Env!vars, Ran, Current, OnStack
<1>10. ASSUME NEW d \in 0 .. MaxCalls - 1, GetLocal(d) PROVE Env!Next
  <2>1. d \in Nat /\ Running /\ Up(top.at, d) # NONE /\ d \in 0 .. MaxCalls
    BY <1>10, ClosuresAssumption DEF GetLocal
  <2>2. PICK u : u = Up(top.at, d)
    OBVIOUS
  <2>3. PICK t : t = top.at
    OBVIOUS
  <2>4. PICK v : v = ctx[u].lvar
    OBVIOUS
  <2>5. t \in Address /\ t # NONE /\ Up(t, 0) = t /\ u \in Copies \cup Unmoved /\ v \in Val \cup {Uninit}
    <3>1. t \in Address
      BY <2>1, <2>3, TopFacts, HeldFacts DEF Running
    <3>2. Up(t, 0) = t
      BY <3>1, UpFacts, InvLower DEF Lower, Outers, Address0
    <3>3. u \in Copies \cup Unmoved /\ u \in Address
      BY <2>1, <2>2, UpInUse
    <3> QED BY <1>1, <2>4, <3>1, <3>2, <3>3, Typed, Addresses
  <2>6. ctx' = [ctx EXCEPT ![t].lvar = v] /\ UNCHANGED <<calls, ctl, procs, enums>>
    BY <1>10, <2>2, <2>3, <2>4 DEF GetLocal
  <2>7. Env!Assign(0, v) /\ Ran # <<>>
    BY <2>1, <2>3, <2>5, <2>6, AssignMeans
  <2>8. d \in Env!Depths /\ Env!Scope(Env!cur, d) = u[1] /\ Values[u[1]] = v
    <3>1. PICK D : Scoped(t, D)
      BY <2>5, InvLower, ScopedFacts
    <3>2. t \in Copies \cup Unmoved
      BY <2>1, <2>3, TopFacts, HeldFacts DEF Running
    <3>3. d \in 0 .. D
      BY <2>1, <2>3, <3>1, <3>2, ScopeKinds DEF Scoped
    <3>4. d \in Env!Depths /\ Env!Scope(Env!cur, d) = u[1]
      BY <2>1, <2>2, <2>3, <3>1, <3>3, EnvScope
    <3>5. u[1] \in 1 .. calls /\ Current(Frame(u[1])) = u
      BY <2>5, InUse
    <3>6. Values[u[1]] = v
      BY <2>4, <3>5 DEF Values
    <3> QED BY <3>4, <3>6
  <2>9. Env!Load(d)
    BY <2>7, <2>8 DEF Env!Load, Values, Frame
  <2> QED BY <2>1, <2>9 DEF Env!Next
<1>11. ASSUME NEW d \in 0 .. MaxCalls - 1, NEW v \in Val, SetLocal(d, v) PROVE Env!Next
  <2>1. d \in Nat /\ Running /\ Up(top.at, d) # NONE /\ d \in 0 .. MaxCalls
    BY <1>11, ClosuresAssumption DEF SetLocal
  <2>2. PICK u : u = Up(top.at, d)
    OBVIOUS
  <2>3. ctx' = [ctx EXCEPT ![u].lvar = v] /\ UNCHANGED <<calls, ctl, procs, enums>>
    BY <1>11, <2>2 DEF SetLocal
  <2>4. Env!Assign(d, v)
    BY <2>1, <2>2, <2>3, AssignMeans
  <2>5. d \in (1 .. MaxCalls) \cup {0}
    BY <2>1
  <2> QED BY <2>4, <2>5 DEF Env!Next
<1>12. ASSUME MakeProc PROVE Env!Next
  BY <1>12, MoveMeans DEF Env!Next
<1>13. ASSUME Return PROVE [Env!Next]_(Env!vars)
  BY <1>13, ReturnMeans DEF Env!Next
<1>14. CASE UNCHANGED vars
  BY <1>9, <1>14
<1>15. CASE Next
  <2> HIDE DEF Env!Next, Env!vars, CallMethod, CallBuiltin, BuiltinCallsBlock, EachCallsBlock, EvalYield, EvalProc,
           Return, MakeProc, MakeEnum, GetLocal, SetLocal
  <2> QED BY <1>3, <1>4, <1>5, <1>6, <1>7, <1>8, <1>9, <1>10, <1>11, <1>12, <1>13, <1>15 DEF Next, Address0
<1> QED BY <1>14, <1>15

(* Contexts and closures implement lexical scoping (Environments), with    *)
(* any number of calls: every access to a variable, whichever copies of    *)
(* its context there are and however it was reached, is to the variable of *)
(* the environment meant, which keeps what was last assigned to it.        *)
THEOREM Lexical ==
  ASSUME ~Enumerators, ~CapturedBlocks
  PROVE  Spec => LexicalScoping
<1>1. Init => Env!Init
  BY InitMeans
<1>2. ContextInv /\ [Next]_vars => [Env!Next]_(Env!vars)
  BY StepMeans
<1>3. Spec => []ContextInv
  BY InvHolds
<1> QED BY <1>1, <1>2, <1>3, PTL DEF Spec, LexicalScoping, Env!Spec

=============================================================================
