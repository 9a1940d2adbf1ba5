--------------------------- MODULE IterationProofs ---------------------------
(***************************************************************************)
(* Methods of arrays in progress, for arrays of any length and any number  *)
(* of methods in progress: ArrayInfo::retain loses no element of the array *)
(* and adds none, whatever the blocks do meanwhile, a collection finds     *)
(* what a method has collected, and a method that returns has run its      *)
(* block on the values it should and returns what Ruby says.               *)
(***************************************************************************)
EXTENDS Iteration, SequenceFacts, TLAPS

(* A sequence, of whatever elements; a frame, of whatever fields.          *)
IsSeq(s) == s \in Seq(ToSet(s))
Fields == {"op", "i", "n", "cur", "out", "rest", "keys", "del", "lo", "hi", "base",
           "calls", "start", "disturbed", "moved"}
IsFrame(f) == DOMAIN f = Fields /\ f.disturbed \in BOOLEAN /\ f.moved \in BOOLEAN

(* retain is at an element of its slice, with fewer dropped than passed,   *)
(* and its slice lies within the buffer unless that was given up.  While   *)
(* undisturbed it walks the whole array, which has the elements of the     *)
(* call.                                                                   *)
RetainOK(f, memory, n) ==
    /\ f.op # "uniq!" => f.del = 0
    /\ f.op = "uniq!" =>
         /\ f.n \in Nat /\ f.i \in 1 .. f.n /\ f.del \in 0 .. f.i - 1
         /\ ~f.moved => f.n =< Len(memory)
         /\ ~f.disturbed => f.n = n /\ Len(f.start) = n /\ ToSet(f.start) = ToSet(SubSeq(memory, 1, n))
FrameOK(f, memory, n) == IsFrame(f) /\ RetainOK(f, memory, n)
FramesOK(fs, memory, n) == IsSeq(fs) /\ \A k \in 1 .. Len(fs) : FrameOK(fs[k], memory, n)
IInv == len \in Nat /\ IsSeq(cells) /\ len =< Len(cells) /\ FramesOK(frames, cells, len)

----------------------------------------------------------------------------
(* A sequence has the elements at its positions.                           *)
LEMMA Elements ==
  ASSUME NEW S, NEW s \in Seq(S)
  PROVE  IsSeq(s) /\ DOMAIN s = 1 .. Len(s) /\ Len(s) \in Nat
<1>1. DOMAIN s = 1 .. Len(s) /\ Len(s) \in Nat /\ s = [k \in 1 .. Len(s) |-> s[k]]
  OBVIOUS
<1>2. \A k \in 1 .. Len(s) : s[k] \in ToSet(s)
  BY <1>1 DEF ToSet
<1>3. s \in Seq(ToSet(s))
  BY <1>1, <1>2
<1> QED BY <1>1, <1>3 DEF IsSeq

(* The first n elements of a sequence.                                     *)
LEMMA Prefix ==
  ASSUME NEW s, IsSeq(s), NEW n \in Nat, n =< Len(s)
  PROVE  /\ IsSeq(SubSeq(s, 1, n)) /\ Len(SubSeq(s, 1, n)) = n
         /\ \A k \in 1 .. n : SubSeq(s, 1, n)[k] = s[k]
         /\ ToSet(SubSeq(s, 1, n)) = {s[k] : k \in 1 .. n}
<1> DEFINE t == SubSeq(s, 1, n)
<1>1. s \in Seq(ToSet(s))
  BY DEF IsSeq
<1>2. \A k \in 1 .. n : s[k] \in ToSet(s)
  BY <1>1
<1>3. /\ t \in Seq(ToSet(s))
      /\ Len(t) = IF 1 =< n THEN n - 1 + 1 ELSE 0
      /\ \A k \in 1 .. n - 1 + 1 : t[k] = s[1 + k - 1]
  BY <1>2, SubSeqProperties
<1> HIDE DEF t
<1>4. Len(t) = n /\ \A k \in 1 .. n : t[k] = s[k]
  BY <1>3
<1>5. IsSeq(t) /\ DOMAIN t = 1 .. n
  BY <1>3, <1>4, Elements
<1>6. ToSet(t) = {s[k] : k \in 1 .. n}
  BY <1>4, <1>5 DEF ToSet
<1> QED BY <1>4, <1>5, <1>6 DEF t

(* An element put at the end.                                              *)
LEMMA Pushed ==
  ASSUME NEW s, IsSeq(s), NEW x
  PROVE  /\ IsSeq(Append(s, x)) /\ Len(Append(s, x)) = Len(s) + 1
         /\ \A k \in 1 .. Len(s) : Append(s, x)[k] = s[k]
         /\ Append(s, x)[Len(s) + 1] = x
         /\ DOMAIN Append(s, x) = 1 .. Len(s) + 1 /\ Len(s) \in Nat
<1>1. s \in Seq(ToSet(s) \cup {x}) /\ x \in ToSet(s) \cup {x}
  BY DEF IsSeq
<1>2. Append(s, x) \in Seq(ToSet(s) \cup {x})
  BY <1>1
<1>3. Len(Append(s, x)) = Len(s) + 1 /\ Append(s, x)[Len(s) + 1] = x
      /\ \A k \in 1 .. Len(s) : Append(s, x)[k] = s[k]
  BY <1>1
<1>4. IsSeq(Append(s, x)) /\ DOMAIN Append(s, x) = 1 .. Len(Append(s, x))
  BY <1>2, Elements
<1> QED BY <1>1, <1>3, <1>4

(* The exchange of two of the first n elements.                            *)
LEMMA Swapped ==
  ASSUME NEW s, IsSeq(s), NEW a \in 1 .. Len(s), NEW b \in 1 .. Len(s)
  PROVE  LET t == [s EXCEPT ![a] = s[b], ![b] = s[a]]
         IN  /\ IsSeq(t) /\ Len(t) = Len(s)
             /\ \A n \in Nat : a =< n /\ b =< n /\ n =< Len(s) =>
                    ToSet(SubSeq(t, 1, n)) = ToSet(SubSeq(s, 1, n))
<1> DEFINE t == [s EXCEPT ![a] = s[b], ![b] = s[a]]
<1>1. s \in Seq(ToSet(s)) /\ DOMAIN s = 1 .. Len(s) /\ Len(s) \in Nat
  BY Elements DEF IsSeq
<1>2. s[a] \in ToSet(s) /\ s[b] \in ToSet(s)
  BY <1>1
<1>3. t \in Seq(ToSet(s)) /\ Len(t) = Len(s)
  BY <1>1, <1>2
<1>4. /\ t[a] = s[b] /\ t[b] = s[a]
      /\ \A k \in 1 .. Len(s) : k # a /\ k # b => t[k] = s[k]
  BY <1>1
<1> HIDE DEF t
<1>5. IsSeq(t)
  BY <1>3, Elements
<1>6. ASSUME NEW n \in Nat, a =< n, b =< n, n =< Len(s)
      PROVE  ToSet(SubSeq(t, 1, n)) = ToSet(SubSeq(s, 1, n))
  <2>1. ToSet(SubSeq(t, 1, n)) = {t[k] : k \in 1 .. n} /\ ToSet(SubSeq(s, 1, n)) = {s[k] : k \in 1 .. n}
    BY <1>3, <1>5, <1>6, Prefix
  <2>2. a \in 1 .. n /\ b \in 1 .. n
    BY <1>6
  <2>3. \A k \in 1 .. n : k # a /\ k # b => t[k] = s[k]
    BY <1>4, <1>6, <1>1
  <2>4. \A k \in 1 .. n : t[k] \in {s[m] : m \in 1 .. n}
    BY <1>4, <2>2, <2>3
  <2>5. \A k \in 1 .. n : s[k] \in {t[m] : m \in 1 .. n}
    BY <1>4, <2>2, <2>3
  <2> QED BY <2>1, <2>4, <2>5
<1> QED BY <1>3, <1>5, <1>6 DEF t
----------------------------------------------------------------------------
(* A frame that finds the array changed needs its slice only.              *)
LEMMA DisturbedOK ==
  ASSUME NEW f, NEW memory, NEW n, FrameOK(f, memory, n),
         NEW new, NEW m, NEW moves \in BOOLEAN,
         Len(memory) \in Nat, Len(new) \in Nat, moves \/ Len(memory) =< Len(new)
  PROVE  /\ FrameOK([Disturbed(f) EXCEPT !.moved = @ \/ moves], new, m)
         /\ Len(memory) =< Len(new) => FrameOK(Disturbed(f), new, m)
<1> DEFINE g == Disturbed(f)
           h == [g EXCEPT !.moved = @ \/ moves]
<1>1. IsFrame(f) /\ RetainOK(f, memory, n)
  BY DEF FrameOK
<1>2. /\ IsFrame(g) /\ g.op = f.op /\ g.n = f.n /\ g.i = f.i /\ g.del = f.del
      /\ g.disturbed = TRUE /\ g.moved = f.moved
  BY <1>1 DEF IsFrame, Fields, Disturbed
<1> HIDE DEF g
<1>3. /\ IsFrame(h) /\ h.op = f.op /\ h.n = f.n /\ h.i = f.i /\ h.del = f.del
      /\ h.disturbed = TRUE /\ (h.moved <=> f.moved \/ moves)
  BY <1>2 DEF IsFrame, Fields
<1> HIDE DEF h
<1>4. RetainOK(h, new, m)
  BY <1>1, <1>3 DEF RetainOK
<1>5. Len(memory) =< Len(new) => RetainOK(g, new, m)
  BY <1>1, <1>2 DEF RetainOK
<1> QED BY <1>2, <1>3, <1>4, <1>5 DEF FrameOK, g, h

(* What a block returns is noted in the frame.                             *)
LEMMA Collected ==
  ASSUME NEW f, NEW v, IsFrame(f)
  PROVE  LET g == Collect(f, v)
         IN  /\ IsFrame(g) /\ g.op = f.op /\ g.n = f.n /\ g.i = f.i
             /\ g.disturbed = f.disturbed /\ g.moved = f.moved /\ g.start = f.start
             /\ g.del = IF f.op # "uniq!" \/ IsNew(f, v) THEN f.del ELSE f.del + 1
  BY DEF IsFrame, Fields, Collect

(* The swap of retain.                                                     *)
LEMMA MovedOK ==
  ASSUME NEW f, NEW v, NEW memory, NEW n \in Nat, IsSeq(memory), n =< Len(memory), FrameOK(f, memory, n)
  PROVE  LET new == Moved(f, v, memory)
         IN  /\ IsSeq(new) /\ Len(new) = Len(memory)
             /\ f.op = "uniq!" /\ ~f.disturbed => ToSet(SubSeq(new, 1, n)) = ToSet(SubSeq(memory, 1, n))
<1>1. Len(memory) \in Nat
  BY Elements DEF IsSeq
<1>2. CASE f.op = "uniq!" /\ ~f.moved /\ IsNew(f, v) /\ f.del > 0
  <2> DEFINE a == f.i - f.del
             b == f.i
             t == [memory EXCEPT ![a] = memory[b], ![b] = memory[a]]
  <2>1. a \in 1 .. Len(memory) /\ b \in 1 .. Len(memory) /\ a =< f.n /\ b =< f.n
    BY <1>1, <1>2 DEF FrameOK, RetainOK
  <2>2. Moved(f, v, memory) = t
    BY <1>2 DEF Moved
  <2>3. ~f.disturbed => f.n = n
    BY <1>2 DEF FrameOK, RetainOK
  <2> HIDE DEF a, b
  <2>4. /\ IsSeq(t) /\ Len(t) = Len(memory)
        /\ \A m \in Nat : a =< m /\ b =< m /\ m =< Len(memory) => ToSet(SubSeq(t, 1, m)) = ToSet(SubSeq(memory, 1, m))
    BY <2>1, Swapped
  <2> HIDE DEF t
  <2>5. ~f.disturbed => ToSet(SubSeq(t, 1, n)) = ToSet(SubSeq(memory, 1, n))
    BY <2>1, <2>3, <2>4
  <2> QED BY <2>2, <2>4, <2>5
<1>3. CASE ~(f.op = "uniq!" /\ ~f.moved /\ IsNew(f, v) /\ f.del > 0)
  BY <1>3 DEF Moved
<1> QED BY <1>2, <1>3

(* The frames, each with the array changed in its buffer, or moved.        *)
AllFrames(fs) == [k \in DOMAIN fs |-> Disturbed(fs[k])]
MovedFrames(fs, moves) == [k \in DOMAIN fs |-> [Disturbed(fs[k]) EXCEPT !.moved = @ \/ moves]]
LEMMA AllDisturbed ==
  ASSUME NEW fs, NEW memory, NEW n, NEW new, NEW m,
         Len(memory) \in Nat, Len(new) \in Nat, Len(memory) =< Len(new),
         FramesOK(fs, memory, n)
  PROVE  FramesOK(AllFrames(fs), new, m)
<1> DEFINE H(k) == Disturbed(fs[k])
           hs == [k \in DOMAIN fs |-> H(k)]
<1>1. DOMAIN fs = 1 .. Len(fs) /\ Len(fs) \in Nat
  BY Elements DEF IsSeq, FramesOK
<1>2. \A k \in 1 .. Len(fs) : FrameOK(H(k), new, m)
  <2> TAKE k \in 1 .. Len(fs)
  <2>1. FrameOK(fs[k], memory, n) /\ FALSE \in BOOLEAN
    BY DEF FramesOK
  <2> QED BY <2>1, DisturbedOK
<1> HIDE DEF H
<1>3. hs \in Seq({H(k) : k \in 1 .. Len(fs)}) /\ Len(hs) = Len(fs) /\ \A k \in 1 .. Len(fs) : hs[k] = H(k)
  BY <1>1
<1> HIDE DEF hs
<1>4. IsSeq(hs)
  BY <1>3, Elements
<1> QED BY <1>2, <1>3, <1>4 DEF hs, H, AllFrames, FramesOK

(* The same where the change gives the buffer up.                          *)
LEMMA AllMoved ==
  ASSUME NEW fs, NEW memory, NEW n, NEW new, NEW m, NEW moves \in BOOLEAN,
         Len(memory) \in Nat, Len(new) \in Nat, moves \/ Len(memory) =< Len(new),
         FramesOK(fs, memory, n)
  PROVE  FramesOK(MovedFrames(fs, moves), new, m)
<1> DEFINE G(k) == [Disturbed(fs[k]) EXCEPT !.moved = @ \/ moves]
           gs == [k \in DOMAIN fs |-> G(k)]
<1>1. DOMAIN fs = 1 .. Len(fs) /\ Len(fs) \in Nat
  BY Elements DEF IsSeq, FramesOK
<1>2. \A k \in 1 .. Len(fs) : FrameOK(G(k), new, m)
  <2> TAKE k \in 1 .. Len(fs)
  <2>1. FrameOK(fs[k], memory, n)
    BY DEF FramesOK
  <2> QED BY <2>1, DisturbedOK
<1> HIDE DEF G
<1>3. gs \in Seq({G(k) : k \in 1 .. Len(fs)}) /\ Len(gs) = Len(fs) /\ \A k \in 1 .. Len(fs) : gs[k] = G(k)
  BY <1>1
<1> HIDE DEF gs
<1>4. IsSeq(gs)
  BY <1>3, Elements
<1> QED BY <1>2, <1>3, <1>4 DEF gs, G, MovedFrames, FramesOK

(* The innermost method after its block: its array, the methods around it  *)
(* and its own frame.                                                      *)
LEMMA AfterBlock ==
  ASSUME IInv, frames # <<>>, NEW v
  PROVE  LET f == Last(frames)
             r == Returning(f, v)
         IN  /\ IsSeq(r.memory) /\ Len(r.memory) = Len(cells)
             /\ FramesOK(r.outer, r.memory, len)
             /\ r.frame = Collect(f, v) /\ FrameOK(f, cells, len)
             /\ f.op = "uniq!" /\ ~f.disturbed => ToSet(SubSeq(r.memory, 1, len)) = ToSet(SubSeq(cells, 1, len))
<1> DEFINE f == Last(frames)
           memory == Moved(f, v, cells)
           front == Front(frames)
           hs == AllFrames(front)
           r == Returning(f, v)
<1>1. Len(frames) \in Nat /\ Len(frames) > 0 /\ Len(cells) \in Nat
  <2>1. frames \in Seq(ToSet(frames)) /\ cells \in Seq(ToSet(cells))
    BY DEF IInv, FramesOK, IsSeq
  <2> QED BY <2>1
<1>2. FrameOK(f, cells, len)
  BY <1>1 DEF IInv, FramesOK, Last
<1>3. IsSeq(memory) /\ Len(memory) = Len(cells)
      /\ (f.op = "uniq!" /\ ~f.disturbed => ToSet(SubSeq(memory, 1, len)) = ToSet(SubSeq(cells, 1, len)))
  <2> HIDE DEF f
  <2> QED BY <1>2, MovedOK DEF IInv
<1>4. FramesOK(front, cells, len)
  <2>1. Len(frames) - 1 \in Nat /\ Len(frames) - 1 =< Len(frames) /\ front = SubSeq(frames, 1, Len(frames) - 1)
    BY <1>1 DEF Front
  <2>2. IsSeq(front) /\ Len(front) = Len(frames) - 1 /\ \A k \in 1 .. Len(frames) - 1 : front[k] = frames[k]
    BY <2>1, Prefix DEF IInv, FramesOK
  <2> QED BY <1>1, <2>2 DEF IInv, FramesOK
<1>5. r.memory = memory /\ r.frame = Collect(f, v) /\ r.outer = IF memory = cells THEN front ELSE hs
  BY DEF Returning, AllFrames
<1> HIDE DEF f, memory, front
<1>6. FramesOK(hs, memory, len)
  BY <1>1, <1>3, <1>4, AllDisturbed
<1> HIDE DEF hs, r
<1>7. FramesOK(r.outer, memory, len)
  BY <1>3, <1>4, <1>5, <1>6
<1> QED BY <1>2, <1>3, <1>5, <1>7 DEF f, r

(* One more frame.                                                         *)
LEMMA OneMore ==
  ASSUME NEW fs, NEW g, NEW memory, NEW n, FrameOK(g, memory, n), FramesOK(fs, memory, n)
  PROVE  FramesOK(Append(fs, g), memory, n)
<1>1. \A k \in 1 .. Len(fs) + 1 : k \in 1 .. Len(fs) \/ k = Len(fs) + 1
  BY Pushed DEF FramesOK
<1> QED BY <1>1, Pushed DEF FramesOK
----------------------------------------------------------------------------
(* A new array, before any method.                                         *)
LEMMA LiteralOK == IInv /\ Literal => IInv'
<1> SUFFICES ASSUME IInv, Literal
             PROVE  IInv'
  OBVIOUS
<1>1. PICK n \in 0 .. MaxLen : cells' = [i \in 1 .. n |-> Object(i, "a", <<>>)] /\ len' = n
  BY DEF Literal
<1>2. n \in Nat
  BY <1>1, IterationAssumption
<1>3. cells' \in Seq({Object(i, "a", <<>>) : i \in 1 .. n}) /\ Len(cells') = n
  BY <1>1, <1>2
<1>4. IsSeq(cells')
  BY <1>3, Elements
<1>5. frames = <<>> /\ frames' = frames
  BY DEF Literal
<1> QED BY <1>1, <1>2, <1>3, <1>4, <1>5 DEF IInv, FramesOK, IsSeq

(* A method begins with the array as it is.                                *)
LEMMA CallOK == IInv /\ Call => IInv'
<1> SUFFICES ASSUME IInv, Call
             PROVE  IInv'
  OBVIOUS
<1>1. PICK op : Frame(op).n > 0 /\ frames' = Append(frames, [Frame(op) EXCEPT !.cur = Element(Frame(op), cells)])
  BY DEF Call
<1> DEFINE f == Frame(op)
           g == [f EXCEPT !.cur = Element(f, cells)]
<1>2. /\ IsFrame(f) /\ f.op = op /\ f.n = (IF op \in RangeOps THEN RangeLen ELSE len) /\ f.i = 1 /\ f.del = 0
      /\ f.start = array /\ f.disturbed = FALSE /\ f.moved = FALSE
  BY DEF Frame, IsFrame, Fields
<1>3. f.n > 0
  BY <1>1
<1> HIDE DEF f
<1>4. /\ IsFrame(g) /\ g.op = f.op /\ g.n = f.n /\ g.i = f.i /\ g.del = f.del /\ g.start = f.start
      /\ g.disturbed = f.disturbed /\ g.moved = f.moved
  BY <1>2 DEF IsFrame, Fields
<1> HIDE DEF g
<1>5. op = "uniq!" => f.n = len
  BY <1>2 DEF RangeOps
<1>6. Len(array) = len
  BY Prefix DEF IInv, array
<1>7. RetainOK(g, cells, len)
  BY <1>2, <1>3, <1>4, <1>5, <1>6 DEF RetainOK, IInv, array
<1>8. FrameOK(g, cells, len)
  BY <1>4, <1>7 DEF FrameOK
<1>9. FramesOK(Append(frames, g), cells, len)
  BY <1>8, OneMore DEF IInv
<1>10. frames' = Append(frames, g) /\ cells' = cells /\ len' = len
  BY <1>1 DEF Call, g, f
<1> QED BY <1>9, <1>10 DEF IInv

(* The next element: one more passed, and at most one more dropped.        *)
LEMMA GoOnOK == IInv /\ GoOn => IInv'
<1> SUFFICES ASSUME IInv, GoOn
             PROVE  IInv'
  OBVIOUS
<1> DEFINE f == Last(frames)
<1>1. PICK v : /\ After(f, v) # 0
               /\ cells' = Returning(f, v).memory
               /\ frames' = Append(Returning(f, v).outer,
                             [[Returning(f, v).frame EXCEPT !.i = After(f, v)] EXCEPT
                               !.cur = Element([Returning(f, v).frame EXCEPT !.i = After(f, v)], Returning(f, v).memory)])
  BY DEF GoOn
<1> DEFINE r == Returning(f, v)
           c == Collect(f, v)
           d == [c EXCEPT !.i = After(f, v)]
           g == [d EXCEPT !.cur = Element(d, r.memory)]
<1>2. frames # <<>> /\ len' = len
  BY DEF GoOn
<1>3. /\ IsSeq(r.memory) /\ Len(r.memory) = Len(cells)
      /\ FramesOK(r.outer, r.memory, len)
      /\ r.frame = c /\ FrameOK(f, cells, len)
      /\ f.op = "uniq!" /\ ~f.disturbed => ToSet(SubSeq(r.memory, 1, len)) = ToSet(SubSeq(cells, 1, len))
  BY <1>2, AfterBlock
<1>4. cells' = r.memory /\ frames' = Append(r.outer, g) /\ After(f, v) # 0
  BY <1>1, <1>3
<1> HIDE DEF f, r
<1>5. /\ IsFrame(c) /\ c.op = f.op /\ c.n = f.n /\ c.i = f.i
      /\ c.disturbed = f.disturbed /\ c.moved = f.moved /\ c.start = f.start
      /\ c.del = IF f.op # "uniq!" \/ IsNew(f, v) THEN f.del ELSE f.del + 1
  BY <1>3, Collected DEF FrameOK
<1> HIDE DEF c
<1>6. /\ IsFrame(d) /\ d.op = f.op /\ d.n = f.n /\ d.i = After(f, v) /\ d.del = c.del
      /\ d.disturbed = f.disturbed /\ d.moved = f.moved /\ d.start = f.start
  BY <1>5 DEF IsFrame, Fields
<1> HIDE DEF d
<1>7. /\ IsFrame(g) /\ g.op = f.op /\ g.n = f.n /\ g.i = After(f, v) /\ g.del = c.del
      /\ g.disturbed = f.disturbed /\ g.moved = f.moved /\ g.start = f.start
  BY <1>6 DEF IsFrame, Fields
<1> HIDE DEF g
<1>8. f.op = "uniq!" => f.i < f.n /\ After(f, v) = f.i + 1
  BY <1>4 DEF After
<1>9. RetainOK(g, r.memory, len)
  BY <1>3, <1>5, <1>7, <1>8 DEF RetainOK, FrameOK
<1>10. FrameOK(g, r.memory, len)
  BY <1>7, <1>9 DEF FrameOK
<1>11. FramesOK(Append(r.outer, g), r.memory, len)
  BY <1>3, <1>10, OneMore
<1> QED BY <1>2, <1>3, <1>4, <1>11 DEF IInv

(* The end of retain cuts the array: the methods around it find it changed.*)
LEMMA FinishOK == IInv /\ Finish => IInv'
<1> SUFFICES ASSUME IInv, Finish
             PROVE  IInv'
  OBVIOUS
<1> DEFINE f == Last(frames)
<1>1. PICK v : LET r == Returning(f, v)
                   cut == IF f.n - r.frame.del < len THEN f.n - r.frame.del ELSE len
               IN  /\ cells' = r.memory
                   /\ len' = IF r.frame.del > 0 THEN cut ELSE len
                   /\ frames' = IF r.frame.del > 0 THEN [j \in DOMAIN r.outer |-> Disturbed(r.outer[j])] ELSE r.outer
  BY DEF Finish
<1> DEFINE r == Returning(f, v)
           c == Collect(f, v)
           hs == AllFrames(r.outer)
<1>2. /\ IsSeq(r.memory) /\ Len(r.memory) = Len(cells)
      /\ FramesOK(r.outer, r.memory, len)
      /\ r.frame = c /\ FrameOK(f, cells, len)
  BY AfterBlock DEF Finish
<1>3. /\ cells' = r.memory
      /\ len' = IF c.del > 0 THEN IF f.n - c.del < len THEN f.n - c.del ELSE len ELSE len
      /\ frames' = IF c.del > 0 THEN hs ELSE r.outer
  BY <1>1, <1>2 DEF AllFrames
<1>4. Len(cells) \in Nat
  BY Elements DEF IInv, IsSeq
<1> HIDE DEF r, f
<1>5. ASSUME NEW m
      PROVE  FramesOK(hs, r.memory, m)
  BY <1>2, <1>4, AllDisturbed
<1>6. c.del = IF f.op # "uniq!" \/ IsNew(f, v) THEN f.del ELSE f.del + 1
  BY <1>2, Collected DEF FrameOK
<1> HIDE DEF c, hs
<1>7. CASE c.del > 0
  <2>1. f.op = "uniq!" /\ f.n \in Nat /\ c.del \in Nat /\ c.del =< f.n
    BY <1>2, <1>6, <1>7 DEF FrameOK, RetainOK
  <2>2. len' \in Nat /\ len' =< len
    BY <1>3, <1>7, <2>1 DEF IInv
  <2> QED BY <1>2, <1>3, <1>4, <1>5, <1>7, <2>2 DEF IInv
<1>8. CASE ~(c.del > 0)
  BY <1>2, <1>3, <1>4, <1>8 DEF IInv
<1> QED BY <1>7, <1>8

(* An exception leaves the outer methods, and the array, as they are.      *)
LEMMA RaiseOK == IInv /\ Raise => IInv'
<1> SUFFICES ASSUME IInv, Raise
             PROVE  IInv'
  OBVIOUS
<1>1. PICK k \in DOMAIN frames : frames' = SubSeq(frames, 1, k - 1)
  BY DEF Raise
<1>2. DOMAIN frames = 1 .. Len(frames) /\ Len(frames) \in Nat
  BY Elements DEF IInv, FramesOK, IsSeq
<1>3. k - 1 \in Nat /\ k - 1 =< Len(frames)
  BY <1>1, <1>2
<1>4. IsSeq(frames') /\ Len(frames') = k - 1 /\ \A m \in 1 .. k - 1 : frames'[m] = frames[m]
  BY <1>1, <1>3, Prefix DEF IInv, FramesOK
<1>5. cells' = cells /\ len' = len
  BY DEF Raise
<1> QED BY <1>2, <1>3, <1>4, <1>5 DEF IInv, FramesOK

(* A block changes the array: every method in progress finds it changed,   *)
(* and a buffer too short for their slices is a new one.                   *)
LEMMA ChangeOK ==
  ASSUME IInv, IsSeq(cells'), len' \in Nat, len' =< Len(cells'),
         \E moves \in BOOLEAN :
            frames' = MovedFrames(frames, moves) /\ (moves \/ Len(cells) =< Len(cells'))
  PROVE  IInv'
<1>1. Len(cells) \in Nat /\ Len(cells') \in Nat
  BY Elements DEF IInv, IsSeq
<1>2. PICK moves \in BOOLEAN : frames' = MovedFrames(frames, moves) /\ (moves \/ Len(cells) =< Len(cells'))
  OBVIOUS
<1>3. ASSUME NEW memory, NEW n, Len(memory) \in Nat, moves \/ Len(cells) =< Len(memory)
      PROVE  FramesOK(MovedFrames(frames, moves), memory, n)
  BY <1>1, <1>3, AllMoved DEF IInv
<1>4. FramesOK(frames', cells', len')
  BY <1>1, <1>2, <1>3
<1> QED BY <1>4 DEF IInv

(* The changes a block can make are of that kind.                          *)
LEMMA BlockOK == IInv /\ (Store \/ Push \/ Pop \/ Shift) => IInv'
<1> SUFFICES ASSUME IInv
             PROVE  Store \/ Push \/ Pop \/ Shift => IInv'
  OBVIOUS
<1>1. cells \in Seq(ToSet(cells)) /\ Len(cells) \in Nat /\ len \in Nat /\ len =< Len(cells) /\ IsSeq(cells)
  BY Elements DEF IInv, IsSeq
<1>2. ASSUME NEW x, NEW j \in 1 .. Len(cells)
      PROVE  IsSeq([cells EXCEPT ![j] = x]) /\ Len([cells EXCEPT ![j] = x]) = Len(cells)
  <2>1. /\ [cells EXCEPT ![j] = x] \in Seq(ToSet(cells) \cup {x})
        /\ Len([cells EXCEPT ![j] = x]) = Len(cells)
    BY <1>1
  <2> QED BY <2>1, Elements
<1>3. ASSUME Store
      PROVE  IInv'
  <2> DEFINE o == Object(NewId(0), "a", <<>>)
  <2>1. PICK j \in 1 .. len : cells' = [cells EXCEPT ![j] = o] /\ len' = len /\ frames' = MovedFrames(frames, FALSE)
    BY <1>3 DEF Store, Change, MovedFrames
  <2> HIDE DEF o
  <2>2. IsSeq(cells') /\ Len(cells') = Len(cells)
    <3>1. j \in 1 .. Len(cells)
      BY <1>1
    <3> QED BY <1>2, <2>1, <3>1
  <2>3. \E moves \in BOOLEAN : frames' = MovedFrames(frames, moves) /\ (moves \/ Len(cells) =< Len(cells'))
    <3> WITNESS FALSE \in BOOLEAN
    <3> QED BY <1>1, <2>1, <2>2
  <2> QED BY <1>1, <2>1, <2>2, <2>3, ChangeOK
<1>4. ASSUME Push
      PROVE  IInv'
  <2> DEFINE o == Object(NewId(0), "a", <<>>)
  <2>1. PICK moves \in BOOLEAN :
          /\ len' = len + 1 /\ frames' = MovedFrames(frames, moves)
          /\ cells' = IF len < Len(cells) THEN [cells EXCEPT ![len + 1] = o] ELSE Append(cells, o)
    BY <1>4 DEF Push, Change, MovedFrames
  <2> HIDE DEF o
  <2>2. CASE len < Len(cells)
    <3>1. len + 1 \in 1 .. Len(cells)
      BY <1>1, <2>2
    <3>2. IsSeq(cells') /\ Len(cells') = Len(cells)
      BY <1>2, <2>1, <2>2, <3>1
    <3> QED BY <1>1, <2>1, <3>1, <3>2, ChangeOK
  <2>3. CASE ~(len < Len(cells))
    <3>1. IsSeq(cells') /\ Len(cells') = Len(cells) + 1
      BY <1>1, <2>1, <2>3, Pushed
    <3> QED BY <1>1, <2>1, <3>1, ChangeOK
  <2> QED BY <2>2, <2>3
<1>5. ASSUME Pop
      PROVE  IInv'
  <2>1. len > 0 /\ cells' = cells /\ len' = len - 1 /\ frames' = MovedFrames(frames, FALSE)
    BY <1>5 DEF Pop, Change, MovedFrames
  <2>2. \E moves \in BOOLEAN : frames' = MovedFrames(frames, moves) /\ (moves \/ Len(cells) =< Len(cells'))
    <3> WITNESS FALSE \in BOOLEAN
    <3> QED BY <1>1, <2>1
  <2>3. IsSeq(cells') /\ len' \in Nat /\ len' =< Len(cells')
    BY <1>1, <2>1
  <2> QED BY <2>2, <2>3, ChangeOK
<1>6. ASSUME Shift
      PROVE  IInv'
  <2> DEFINE rest == SubSeq(cells, 2, len)
  <2>1. len > 0 /\ cells' = rest /\ len' = len - 1 /\ frames' = MovedFrames(frames, TRUE)
    BY <1>6 DEF Shift, Change, MovedFrames
  <2>2. rest \in Seq(ToSet(cells)) /\ Len(rest) = len - 1
    <3>1. \A k \in 2 .. len : cells[k] \in ToSet(cells)
      BY <1>1
    <3> QED BY <1>1, <2>1, <3>1, SubSeqProperties
  <2> HIDE DEF rest
  <2>3. IsSeq(rest)
    BY <2>2, Elements
  <2>4. \E moves \in BOOLEAN : frames' = MovedFrames(frames, moves) /\ (moves \/ Len(cells) =< Len(cells'))
    <3> WITNESS TRUE \in BOOLEAN
    <3> QED BY <2>1
  <2>5. IsSeq(cells') /\ len' \in Nat /\ len' =< Len(cells')
    BY <1>1, <2>1, <2>2, <2>3
  <2> QED BY <2>4, <2>5, ChangeOK
<1> QED BY <1>3, <1>4, <1>5, <1>6

(* IInv holds at the beginning.                                            *)
LEMMA InitOK == Init => IInv
<1> SUFFICES ASSUME Init
             PROVE  IInv
  OBVIOUS
<1>1. cells = <<>> /\ frames = <<>> /\ len = 0
  BY DEF Init
<1>2. <<>> \in Seq({}) /\ Len(<<>>) = 0
  OBVIOUS
<1>3. IsSeq(<<>>)
  BY <1>2, Elements
<1> QED BY <1>1, <1>2, <1>3 DEF IInv, FramesOK

(* IInv says what RetainKeepsAll asks.                                     *)
LEMMA IInvKeeps == IInv => RetainKeepsAll
<1> SUFFICES ASSUME IInv, NEW k \in DOMAIN frames, frames[k].op = "uniq!", ~frames[k].disturbed
             PROVE  Len(array) = Len(frames[k].start) /\ ToSet(array) = ToSet(frames[k].start)
  BY DEF RetainKeepsAll
<1>1. k \in 1 .. Len(frames)
  BY Elements DEF IInv, FramesOK, IsSeq
<1>2. Len(frames[k].start) = len /\ ToSet(frames[k].start) = ToSet(SubSeq(cells, 1, len))
  BY <1>1 DEF IInv, FramesOK, FrameOK, RetainOK
<1>3. Len(array) = len
  BY Prefix DEF IInv, array
<1> QED BY <1>2, <1>3 DEF array

(* uniq! in progress, its block calling further methods and raising        *)
(* included, has the elements it was called with and as many, as long as   *)
(* nothing else has changed the array (ArrayInfo::retain).                 *)
THEOREM RetainKeeps == Spec => []RetainKeepsAll
<1>1. IInv /\ [Next]_vars => IInv'
  <2> SUFFICES ASSUME IInv, [Next]_vars
               PROVE  IInv'
    OBVIOUS
  <2>1. CASE UNCHANGED vars
    BY <2>1 DEF vars, IInv
  <2> QED BY <2>1, LiteralOK, CallOK, GoOnOK, FinishOK, RaiseOK, BlockOK DEF Next
<1> QED BY InitOK, <1>1, IInvKeeps, PTL DEF Spec
----------------------------------------------------------------------------
(* What methods in progress need is found by a collection: the identities  *)
(* of the first n elements of a sequence.                                  *)
RefsTo(s, n) == UNION {Ref(s[i]) : i \in 1 .. n}

(* What a method has collected is in the array or in its own part of       *)
(* temp_stack (own), as long as the array is the one it was called with.   *)
RootOK(f, memory, n, own) ==
    ~f.disturbed /\ f.op \notin Unrooted =>
      /\ ~f.moved
      /\ f.op \in ArrayOps => f.n = n
      /\ f.op \in RangeOps => f.cur = Imm("a")
      /\ f.op \in {"select", "reject", "partition"} => f.i \in 1 .. n /\ f.cur = memory[f.i]
      /\ IsSeq(f.out) /\ IsSeq(f.rest) /\ IsSeq(f.keys)
      /\ Refs(f.out) \cup Refs(f.rest) \cup Refs(f.keys) \subseteq {0} \cup RefsTo(memory, n) \cup own

(* The part of temp_stack of a method ends where that of the method called *)
(* in its block begins; b is the end of the last one.                      *)
Limit(fs, b, k) == IF k < Len(fs) THEN fs[k + 1].base ELSE b
RootsOK(fs, tmp, b, memory, n) ==
    /\ b \in 0 .. Len(tmp)
    /\ \A k \in 1 .. Len(fs) : fs[k].base \in 0 .. b
    /\ \A j, k \in 1 .. Len(fs) : j =< k => fs[j].base =< fs[k].base
    /\ \A k \in 1 .. Len(fs) : RootOK(fs[k], memory, n, RefsTo(tmp, Limit(fs, b, k)))
RInv == IInv /\ IsSeq(temp) /\ RootsOK(frames, temp, Len(temp), cells, len)

(* Identities in a sequence, and in one put together from two.             *)
LEMMA RefsAll ==
  ASSUME NEW s, IsSeq(s)
  PROVE  Refs(s) = RefsTo(s, Len(s))
<1>1. DOMAIN s = 1 .. Len(s)
  BY Elements DEF IsSeq
<1> QED BY <1>1 DEF Refs, RefsTo

LEMMA NoRefs == Refs(<<>>) = {} /\ IsSeq(<<>>) /\ Len(<<>>) = 0
<1>1. <<>> \in Seq({}) /\ Len(<<>>) = 0
  OBVIOUS
<1>2. IsSeq(<<>>) /\ DOMAIN <<>> = 1 .. 0
  BY <1>1, Elements
<1>3. Refs(<<>>) = UNION {Ref(<<>>[i]) : i \in 1 .. 0}
  BY <1>2 DEF Refs
<1>4. {Ref(<<>>[i]) : i \in 1 .. 0} = {}
  OBVIOUS
<1> QED BY <1>1, <1>2, <1>3, <1>4

LEMMA RefsMore ==
  ASSUME NEW s, IsSeq(s), NEW x
  PROVE  IsSeq(Append(s, x)) /\ Refs(Append(s, x)) \subseteq Refs(s) \cup Ref(x)
<1> DEFINE t == Append(s, x)
<1>1. /\ IsSeq(t) /\ \A k \in 1 .. Len(s) : t[k] = s[k]
      /\ t[Len(s) + 1] = x /\ DOMAIN t = 1 .. Len(s) + 1 /\ Len(s) \in Nat
  BY Pushed
<1>2. DOMAIN s = 1 .. Len(s)
  BY Elements DEF IsSeq
<1> HIDE DEF t
<1>3. ASSUME NEW y \in Refs(t)
      PROVE  y \in Refs(s) \cup Ref(x)
  <2>1. PICK k \in 1 .. Len(s) + 1 : y \in Ref(t[k])
    BY <1>1 DEF Refs
  <2>2. k = Len(s) + 1 \/ k \in 1 .. Len(s)
    BY <1>1
  <2>3. CASE k = Len(s) + 1
    BY <1>1, <2>1, <2>3
  <2>4. CASE k \in 1 .. Len(s)
    BY <1>1, <1>2, <2>1, <2>4 DEF Refs
  <2> QED BY <2>2, <2>3, <2>4
<1> QED BY <1>1, <1>3 DEF t

LEMMA RefsJoined ==
  ASSUME NEW s, IsSeq(s), NEW t, IsSeq(t)
  PROVE  /\ IsSeq(s \o t) /\ Refs(s \o t) = Refs(s) \cup Refs(t) /\ Len(s \o t) = Len(s) + Len(t)
         /\ \A k \in 1 .. Len(s) : (s \o t)[k] = s[k]
<1> DEFINE S == ToSet(s) \cup ToSet(t)
           u == s \o t
<1>1. PICK m, n : m = Len(s) /\ n = Len(t)
  OBVIOUS
<1>2. s \in Seq(S) /\ t \in Seq(S) /\ m \in Nat /\ n \in Nat /\ DOMAIN s = 1 .. m /\ DOMAIN t = 1 .. n
  <2>1. s \in Seq(ToSet(s)) /\ t \in Seq(ToSet(t))
    BY DEF IsSeq
  <2> QED BY <1>1, <2>1
<1> HIDE DEF S
<1>3. /\ u \in Seq(S) /\ Len(u) = m + n /\ DOMAIN u = 1 .. m + n
      /\ \A k \in 1 .. m : u[k] = s[k]
      /\ \A k \in 1 .. n : u[m + k] = t[k]
  <2>1. u \in Seq(S) /\ Len(u) = m + n
    BY <1>1, <1>2, ConcatProperties
  <2>2. \A k \in 1 .. m + n : u[k] = IF k =< m THEN s[k] ELSE t[k - m]
    BY <1>1, <1>2, ConcatProperties
  <2> HIDE DEF u
  <2>3. \A k \in 1 .. n : m + k \in 1 .. m + n /\ ~(m + k =< m) /\ m + k - m = k
    BY <1>2
  <2>4. \A k \in 1 .. m : k \in 1 .. m + n /\ k =< m
    BY <1>2
  <2>5. DOMAIN u = 1 .. m + n
    BY <2>1, Elements
  <2>6. \A k \in 1 .. m : u[k] = s[k]
    BY <2>2, <2>4
  <2>7. \A k \in 1 .. n : u[m + k] = t[k]
    <3> TAKE k \in 1 .. n
    <3>1. PICK j : j = m + k
      OBVIOUS
    <3>2. j \in 1 .. m + n /\ ~(j =< m) /\ j - m = k
      BY <1>2, <3>1
    <3>3. u[j] = t[j - m]
      <4>1. u[j] = IF j =< m THEN s[j] ELSE t[j - m]
        BY <2>2, <3>2
      <4> QED BY <3>2, <4>1
    <3> QED BY <3>1, <3>2, <3>3
  <2> QED BY <2>1, <2>5, <2>6, <2>7
<1> HIDE DEF u
<1>4. ASSUME NEW k \in 1 .. m + n
      PROVE  k \in 1 .. m \/ \E j \in 1 .. n : k = m + j
  <2>1. k \in 1 .. m \/ k - m \in 1 .. n
    BY <1>2
  <2>2. k = m + (k - m)
    BY <1>2
  <2> QED BY <2>1, <2>2
<1>5. \A k \in 1 .. m : k \in 1 .. m + n
  BY <1>2
<1>6. \A k \in 1 .. n : m + k \in 1 .. m + n
  BY <1>2
<1>7. ASSUME NEW y \in Refs(u)
      PROVE  y \in Refs(s) \cup Refs(t)
  <2>1. PICK k \in 1 .. m + n : y \in Ref(u[k])
    BY <1>3 DEF Refs
  <2>2. CASE k \in 1 .. m
    BY <1>2, <1>3, <2>1, <2>2 DEF Refs
  <2>3. CASE \E j \in 1 .. n : k = m + j
    <3>1. PICK j \in 1 .. n : k = m + j
      BY <2>3
    <3>2. y \in Ref(t[j])
      BY <1>3, <2>1, <3>1
    <3> QED BY <1>2, <3>2 DEF Refs
  <2> QED BY <1>4, <2>2, <2>3
<1>8. \A y \in Refs(s) \cup Refs(t) : y \in Refs(u)
  BY <1>2, <1>3, <1>5, <1>6 DEF Refs
<1>9. IsSeq(u)
  BY <1>3, Elements
<1> QED BY <1>1, <1>3, <1>7, <1>8, <1>9 DEF u

(* The first n elements decide.                                            *)
LEMMA RefsSame ==
  ASSUME NEW s, NEW t, NEW n, \A k \in 1 .. n : s[k] = t[k]
  PROVE  RefsTo(s, n) = RefsTo(t, n)
<1>1. \A y : y \in RefsTo(s, n) <=> y \in RefsTo(t, n)
  BY DEF RefsTo
<1> QED BY <1>1

LEMMA RefsWithin ==
  ASSUME NEW s, NEW m \in Nat, NEW n \in Nat, m =< n
  PROVE  RefsTo(s, m) \subseteq RefsTo(s, n)
<1>1. \A k \in 1 .. m : k \in 1 .. n
  OBVIOUS
<1> QED BY <1>1 DEF RefsTo

(* An exchange keeps them.                                                 *)
LEMMA RefsSet ==
  ASSUME NEW s, NEW t, IsSeq(s), IsSeq(t), NEW n \in Nat, n =< Len(s), n =< Len(t),
         ToSet(SubSeq(s, 1, n)) = ToSet(SubSeq(t, 1, n))
  PROVE  RefsTo(s, n) = RefsTo(t, n)
<1>1. {s[k] : k \in 1 .. n} = {t[k] : k \in 1 .. n}
  BY Prefix
<1>2. \A k \in 1 .. n : (\E j \in 1 .. n : s[k] = t[j]) /\ (\E j \in 1 .. n : t[k] = s[j])
  BY <1>1
<1>3. \A y \in RefsTo(s, n) : y \in RefsTo(t, n)
  BY <1>2 DEF RefsTo
<1>4. \A y \in RefsTo(t, n) : y \in RefsTo(s, n)
  BY <1>2 DEF RefsTo
<1> QED BY <1>3, <1>4

(* A method may use more of temp_stack than it does.                       *)
LEMMA RootMore ==
  ASSUME NEW f, NEW memory, NEW n, NEW own, NEW more, own \subseteq more, RootOK(f, memory, n, own)
  PROVE  RootOK(f, memory, n, more)
BY DEF RootOK

(* The methods around one that ends use the same parts of temp_stack.      *)
LEMMA LimitsOutside ==
  ASSUME NEW fs, NEW tmp, NEW b, NEW memory, NEW n, IsSeq(fs), IsSeq(tmp), RootsOK(fs, tmp, b, memory, n),
         NEW m \in 0 .. Len(fs), NEW gs, Len(gs) = m, \A k \in 1 .. m : gs[k].base = fs[k].base
  PROVE  LET c == Limit(fs, b, m)
         IN  /\ c \in Nat /\ \A k \in 1 .. m : k \in 1 .. Len(fs) /\ fs[k].base \in 0 .. c
             /\ \A k \in 1 .. m : Limit(gs, c, k) = Limit(fs, b, k) /\ Limit(gs, c, k) \in 0 .. c
<1>1. Len(fs) \in Nat /\ m \in Nat /\ m =< Len(fs) /\ Len(tmp) \in Nat /\ b \in Nat
  BY Elements DEF IsSeq, RootsOK
<1>2. \A k \in 1 .. m : k \in 1 .. Len(fs)
  BY <1>1
<1>3. m < Len(fs) => m + 1 \in 1 .. Len(fs) /\ \A k \in 1 .. m : k =< m + 1
  BY <1>1
<1>4. PICK c : c = Limit(fs, b, m)
  OBVIOUS
<1>5. c \in Nat /\ \A k \in 1 .. m : fs[k].base \in 0 .. c
  <2>1. \A k \in 1 .. Len(fs) : fs[k].base \in 0 .. b
    BY DEF RootsOK
  <2>2. CASE m < Len(fs)
    <3>1. c = fs[m + 1].base
      BY <1>4, <2>2 DEF Limit
    <3>2. \A k \in 1 .. m : fs[k].base =< fs[m + 1].base
      BY <1>2, <1>3, <2>2 DEF RootsOK
    <3>3. fs[m + 1].base \in Nat /\ \A k \in 1 .. m : fs[k].base \in Nat
      BY <1>1, <1>2, <1>3, <2>1, <2>2
    <3> QED BY <3>1, <3>2, <3>3
  <2>3. CASE ~(m < Len(fs))
    <3>1. c = b
      BY <1>4, <2>3 DEF Limit
    <3> QED BY <1>1, <1>2, <2>1, <3>1
  <2> QED BY <2>2, <2>3
<1>6. ASSUME NEW k \in 1 .. m
      PROVE  Limit(gs, c, k) = Limit(fs, b, k) /\ Limit(gs, c, k) \in 0 .. c
  <2>1. CASE k < m
    <3>1. k + 1 \in 1 .. m /\ k < Len(fs)
      BY <1>1, <2>1
    <3>2. Limit(gs, c, k) = gs[k + 1].base /\ Limit(fs, b, k) = fs[k + 1].base
      BY <2>1, <3>1 DEF Limit
    <3> QED BY <1>5, <3>1, <3>2
  <2>2. CASE ~(k < m)
    <3>1. k = m
      BY <1>1, <2>2
    <3>2. Limit(gs, c, k) = c
      BY <2>2 DEF Limit
    <3> QED BY <1>4, <1>5, <3>1, <3>2
  <2> QED BY <2>1, <2>2
<1> QED BY <1>2, <1>4, <1>5, <1>6

(* The methods around one that ends: those that found the array changed    *)
(* need nothing, the others what they needed.                              *)
LEMMA RootsOutside ==
  ASSUME NEW fs, NEW tmp, NEW b, NEW memory, NEW n, IsSeq(fs), IsSeq(tmp), RootsOK(fs, tmp, b, memory, n),
         NEW m \in 0 .. Len(fs), NEW gs, Len(gs) = m, NEW kept, NEW new, NEW l,
         Limit(fs, b, m) =< Len(kept), Len(kept) \in Nat,
         \A k \in 1 .. Limit(fs, b, m) : kept[k] = tmp[k],
         \A k \in 1 .. m : gs[k].base = fs[k].base /\ (gs[k].disturbed \/ (gs[k] = fs[k] /\ new = memory /\ l = n))
  PROVE  RootsOK(gs, kept, Limit(fs, b, m), new, l)
<1>4. PICK c : c = Limit(fs, b, m)
  OBVIOUS
<1>5. c \in Nat /\ (\A k \in 1 .. m : fs[k].base \in 0 .. c) /\ \A k \in 1 .. m : k \in 1 .. Len(fs)
  BY <1>4, LimitsOutside
<1>6. \A k \in 1 .. m : Limit(gs, c, k) = Limit(fs, b, k) /\ Limit(gs, c, k) \in 0 .. c
  BY <1>4, LimitsOutside
<1>7. ASSUME NEW k \in 1 .. m
      PROVE  RootOK(gs[k], new, l, RefsTo(kept, Limit(gs, c, k)))
  <2>1. CASE gs[k].disturbed
    BY <2>1 DEF RootOK
  <2>2. CASE gs[k] = fs[k] /\ new = memory /\ l = n
    <3>1. RootOK(fs[k], memory, n, RefsTo(tmp, Limit(fs, b, k)))
      BY <1>5 DEF RootsOK
    <3>2. PICK d : d = Limit(gs, c, k)
      OBVIOUS
    <3>3. d \in 0 .. c /\ d = Limit(fs, b, k)
      BY <1>6, <3>2
    <3>4. \A j \in 1 .. d : kept[j] = tmp[j]
      BY <1>4, <1>5, <3>3
    <3>5. RefsTo(kept, d) = RefsTo(tmp, d)
      BY <3>4, RefsSame
    <3> QED BY <2>2, <3>1, <3>2, <3>3, <3>5
  <2> QED BY <2>1, <2>2
<1>8. \A j, k \in 1 .. m : j =< k => gs[j].base =< gs[k].base
  BY <1>5 DEF RootsOK
<1> QED BY <1>4, <1>5, <1>7, <1>8 DEF RootsOK

(* One more method, which may use the rest of temp_stack.                  *)
LEMMA RootsPushed ==
  ASSUME NEW fs, NEW g, NEW tmp, NEW b, NEW memory, NEW n, IsSeq(fs), RootsOK(fs, tmp, b, memory, n),
         Len(tmp) \in Nat, g.base = b, RootOK(g, memory, n, RefsTo(tmp, Len(tmp)))
  PROVE  RootsOK(Append(fs, g), tmp, Len(tmp), memory, n)
<1> DEFINE gs == Append(fs, g)
<1>1. PICK m : m = Len(fs)
  OBVIOUS
<1>2. PICK c : c = Len(tmp)
  OBVIOUS
<1>3. /\ m \in Nat /\ Len(gs) = m + 1 /\ gs[m + 1] = g /\ \A k \in 1 .. m : gs[k] = fs[k]
  BY <1>1, Pushed
<1>4. b \in 0 .. c /\ c \in Nat
  BY <1>2 DEF RootsOK
<1> HIDE DEF gs
<1>5. \A k \in 1 .. m + 1 : k \in 1 .. m \/ k = m + 1
  BY <1>3
<1>6. \A k \in 1 .. m : gs[k].base \in 0 .. b
  BY <1>1, <1>3 DEF RootsOK
<1>7. \A k \in 1 .. m + 1 : gs[k].base \in 0 .. c
  BY <1>3, <1>4, <1>5, <1>6
<1>8. ASSUME NEW j \in 1 .. m + 1, NEW k \in 1 .. m + 1, j =< k
      PROVE  gs[j].base =< gs[k].base
  <2>1. CASE k \in 1 .. m
    <3>1. j \in 1 .. m
      BY <1>3, <1>8, <2>1
    <3> QED BY <1>1, <1>3, <1>8, <2>1, <3>1 DEF RootsOK
  <2>2. CASE k = m + 1
    <3>1. gs[k].base = b
      BY <1>3, <2>2
    <3> QED BY <1>3, <1>4, <1>5, <1>6, <3>1
  <2> QED BY <1>5, <2>1, <2>2
<1>9. ASSUME NEW k \in 1 .. m + 1
      PROVE  RootOK(gs[k], memory, n, RefsTo(tmp, Limit(gs, c, k)))
  <2>1. CASE k \in 1 .. m
    <3>1. Limit(gs, c, k) = Limit(fs, b, k)
      <4>1. CASE k < m
        <5>1. k + 1 \in 1 .. m /\ k < m + 1
          BY <1>3, <4>1
        <5> QED BY <1>1, <1>3, <4>1, <5>1 DEF Limit
      <4>2. CASE ~(k < m)
        <5>1. k = m /\ k < m + 1
          BY <1>3, <2>1, <4>2
        <5> QED BY <1>1, <1>3, <5>1 DEF Limit
      <4> QED BY <4>1, <4>2
    <3> QED BY <1>1, <1>3, <2>1, <3>1 DEF RootsOK
  <2>2. CASE k = m + 1
    <3>1. Limit(gs, c, k) = c
      BY <1>3, <2>2 DEF Limit
    <3> QED BY <1>2, <1>3, <2>2, <3>1
  <2> QED BY <1>5, <2>1, <2>2
<1>10. c \in 0 .. Len(tmp)
  BY <1>2, <1>4
<1> QED BY <1>2, <1>3, <1>7, <1>8, <1>9, <1>10 DEF RootsOK, gs

(* What the block's value v adds is in the array or put on temp_stack.     *)
LEMMA CollectRooted ==
  ASSUME NEW f, NEW v, NEW memory, NEW n, NEW own, IsFrame(f), RootOK(f, memory, n, own),
         ~f.disturbed, f.op \notin Unrooted, v \in Results(f.op, f.cur)
  PROVE  LET c == Collect(f, v)
         IN  /\ IsSeq(c.out) /\ IsSeq(c.rest) /\ IsSeq(c.keys)
             /\ Refs(c.out) \cup Refs(c.rest) \cup Refs(c.keys)
                  \subseteq {0} \cup RefsTo(memory, n) \cup own \cup Refs(Kept(f, v))
<1> DEFINE c == Collect(f, v)
           all == {0} \cup RefsTo(memory, n) \cup own \cup Refs(Kept(f, v))
<1>1. /\ IsSeq(f.out) /\ IsSeq(f.rest) /\ IsSeq(f.keys)
      /\ Refs(f.out) \subseteq all /\ Refs(f.rest) \subseteq all /\ Refs(f.keys) \subseteq all
  BY DEF RootOK
<1>2. f.op \in {"select", "reject", "partition"} => Ref(f.cur) \subseteq all
  BY DEF RootOK, RefsTo
<1>3. f.op \in {"Range#map", "Range#flat_map", "uniq!"} => Ref(v) \subseteq all
  <2>1. ASSUME f.op \in {"Range#map", "Range#flat_map", "uniq!"}
        PROVE  Refs(Kept(f, v)) = Ref(v)
    <3>1. Kept(f, v) = <<v>>
      BY <2>1 DEF Kept
    <3>2. DOMAIN <<v>> = {1} /\ <<v>>[1] = v
      OBVIOUS
    <3> QED BY <3>1, <3>2 DEF Refs
  <2> QED BY <2>1
<1>4. f.op = "Range#flat_map" => IsSeq(Contents(v)) /\ Refs(Contents(v)) \subseteq all
  <2> SUFFICES ASSUME f.op = "Range#flat_map"
               PROVE  IsSeq(Contents(v)) /\ Refs(Contents(v)) \subseteq Ref(v)
    BY <1>3
  <2>1. f.cur = Imm("a")
    BY DEF RootOK, RangeOps
  <2>2. v = f.cur \/ \E a, b : v = Object(a, "array", <<Object(b, "a", <<>>)>>)
    BY DEF Results
  <2>3. CASE v = f.cur
    <3>1. v.val = "a"
      BY <2>1, <2>3 DEF Imm, Object
    <3>2. Contents(v) = <<v>>
      BY <3>1 DEF Contents
    <3>3. DOMAIN <<v>> = {1} /\ <<v>>[1] = v /\ <<v>> \in Seq({v})
      OBVIOUS
    <3> QED BY <3>2, <3>3, Elements DEF Refs
  <2>4. CASE v # f.cur
    <3>1. PICK a, b : v = Object(a, "array", <<Object(b, "a", <<>>)>>)
      BY <2>2, <2>4
    <3>2. PICK o : o = Object(b, "a", <<>>)
      OBVIOUS
    <3>3. v.val = "array" /\ v.elems = <<o>>
      BY <3>1, <3>2 DEF Object
    <3>4. Contents(v) = <<o>>
      BY <3>3 DEF Contents
    <3>5. DOMAIN <<o>> = {1} /\ <<o>>[1] = o /\ <<o>> \in Seq({o})
      OBVIOUS
    <3>6. o.elems = <<>> /\ DOMAIN o.elems = {}
      BY <3>2 DEF Object
    <3>7. Refs(<<o>>) = Ref(o) /\ IsSeq(<<o>>)
      BY <3>5, Elements DEF Refs
    <3>8. Ref(o) = {o.id}
      BY <3>6 DEF Ref
    <3>9. o.id \in Ref(v)
      BY <3>3, <3>5 DEF Ref
    <3> QED BY <3>4, <3>7, <3>8, <3>9
  <2> QED BY <2>3, <2>4
<1> HIDE DEF all
<1>5. IsSeq(Append(f.out, f.cur)) /\ Refs(Append(f.out, f.cur)) \subseteq Refs(f.out) \cup Ref(f.cur)
  BY <1>1, RefsMore
<1>6. IsSeq(Append(f.rest, f.cur)) /\ Refs(Append(f.rest, f.cur)) \subseteq Refs(f.rest) \cup Ref(f.cur)
  BY <1>1, RefsMore
<1>7. IsSeq(Append(f.keys, v)) /\ Refs(Append(f.keys, v)) \subseteq Refs(f.keys) \cup Ref(v)
  BY <1>1, RefsMore
<1>8. IsSeq(Append(f.out, v)) /\ Refs(Append(f.out, v)) \subseteq Refs(f.out) \cup Ref(v)
  BY <1>1, RefsMore
<1>9. f.op = "Range#flat_map" =>
        IsSeq(f.out \o Contents(v)) /\ Refs(f.out \o Contents(v)) = Refs(f.out) \cup Refs(Contents(v))
  BY <1>1, <1>4, RefsJoined
<1>10. c.out = CASE f.op \in {"select", "partition"} /\ Truthy(v) -> Append(f.out, f.cur)
                 [] f.op = "reject" /\ ~Truthy(v) -> Append(f.out, f.cur)
                 [] f.op = "Range#flat_map" -> f.out \o Contents(v)
                 [] f.op = "Range#map" -> Append(f.out, v)
                 [] OTHER -> f.out
  BY DEF IsFrame, Fields, Collect, Unrooted
<1>11. c.rest = IF f.op = "partition" /\ ~Truthy(v) THEN Append(f.rest, f.cur) ELSE f.rest
  BY DEF IsFrame, Fields, Collect, Unrooted
<1>12. c.keys = IF f.op = "uniq!" /\ IsNew(f, v) THEN Append(f.keys, v) ELSE f.keys
  BY DEF IsFrame, Fields, Collect, Unrooted
<1> HIDE DEF c
<1>13. IsSeq(c.out) /\ Refs(c.out) \subseteq all
  <2>1. CASE f.op \in {"select", "partition", "reject"}
    <3>1. c.out = f.out \/ c.out = Append(f.out, f.cur)
      BY <1>10, <2>1
    <3> QED BY <1>1, <1>2, <1>5, <2>1, <3>1
  <2>2. CASE f.op = "Range#flat_map"
    BY <1>1, <1>4, <1>9, <1>10, <2>2
  <2>3. CASE f.op = "Range#map"
    BY <1>1, <1>3, <1>8, <1>10, <2>3
  <2>4. CASE f.op \notin {"select", "partition", "reject", "Range#flat_map", "Range#map"}
    BY <1>1, <1>10, <2>4
  <2> QED BY <2>1, <2>2, <2>3, <2>4
<1>14. IsSeq(c.rest) /\ Refs(c.rest) \subseteq all
  BY <1>1, <1>2, <1>6, <1>11
<1>15. IsSeq(c.keys) /\ Refs(c.keys) \subseteq all
  BY <1>1, <1>3, <1>7, <1>12
<1> QED BY <1>13, <1>14, <1>15 DEF c, all

(* The frame of a method that goes on is rooted: its next value too.       *)
LEMMA NextRooted ==
  ASSUME NEW f, NEW v, NEW memory, NEW n \in Nat, NEW own, NEW more,
         IsSeq(memory), n =< Len(memory), FrameOK(f, memory, n), RootOK(f, memory, n, own),
         own \cup Refs(Kept(f, v)) \subseteq more, v \in Results(f.op, f.cur), After(f, v) # 0
  PROVE  LET new == Moved(f, v, memory)
             d == [Collect(f, v) EXCEPT !.i = After(f, v)]
         IN  RootOK([d EXCEPT !.cur = Element(d, new)], new, n, more)
<1> DEFINE new == Moved(f, v, memory)
           c == Collect(f, v)
           d == [c EXCEPT !.i = After(f, v)]
           g == [d EXCEPT !.cur = Element(d, new)]
<1>1. IsFrame(f)
  BY DEF FrameOK
<1>2. /\ IsFrame(c) /\ c.op = f.op /\ c.n = f.n /\ c.disturbed = f.disturbed /\ c.moved = f.moved
  BY <1>1, Collected
<1>3. ~f.disturbed /\ f.op \notin Unrooted =>
        /\ IsSeq(c.out) /\ IsSeq(c.rest) /\ IsSeq(c.keys)
        /\ Refs(c.out) \cup Refs(c.rest) \cup Refs(c.keys)
             \subseteq {0} \cup RefsTo(memory, n) \cup own \cup Refs(Kept(f, v))
  BY <1>1, CollectRooted
<1> HIDE DEF c
<1>4. /\ IsFrame(d) /\ d.op = f.op /\ d.n = f.n /\ d.disturbed = f.disturbed /\ d.moved = f.moved
      /\ d.i = After(f, v) /\ d.out = c.out /\ d.rest = c.rest /\ d.keys = c.keys
  BY <1>2 DEF IsFrame, Fields
<1> HIDE DEF d
<1>5. /\ g.op = f.op /\ g.n = f.n /\ g.disturbed = f.disturbed /\ g.moved = f.moved /\ g.cur = Element(d, new)
      /\ g.i = After(f, v) /\ g.out = c.out /\ g.rest = c.rest /\ g.keys = c.keys
  BY <1>4 DEF IsFrame, Fields
<1> HIDE DEF g
<1>a. g.disturbed \/ g.op \in Unrooted => RootOK(g, new, n, more)
  BY DEF RootOK
<1>b. CASE f.disturbed \/ f.op \in Unrooted
  <2> HIDE DEF new
  <2>1. RootOK(g, new, n, more)
    BY <1>5, <1>a, <1>b
  <2> QED BY <2>1 DEF g, d, c, new
<1> SUFFICES ASSUME ~f.disturbed, f.op \notin Unrooted
             PROVE  RootOK(g, new, n, more)
  <2> QED BY <1>b DEF g, d, c
<1>6. ~f.moved /\ (f.op \in ArrayOps => f.n = n) /\ (f.op \in RangeOps => f.cur = Imm("a"))
      /\ (f.op \in {"select", "reject", "partition"} => f.i \in 1 .. n /\ f.cur = memory[f.i])
  BY DEF RootOK
<1>7. f.op # "uniq!" => new = memory
  BY DEF Moved
<1>8. IsSeq(new) /\ Len(new) = Len(memory) /\ RefsTo(new, n) = RefsTo(memory, n)
  <2>1. /\ IsSeq(new) /\ Len(new) = Len(memory)
        /\ f.op = "uniq!" => ToSet(SubSeq(new, 1, n)) = ToSet(SubSeq(memory, 1, n))
    BY MovedOK
  <2> HIDE DEF new
  <2>2. CASE f.op = "uniq!"
    BY <2>1, <2>2, RefsSet
  <2>3. CASE f.op # "uniq!"
    BY <1>7, <2>1, <2>3
  <2> QED BY <2>1, <2>2, <2>3
<1> HIDE DEF new
<1>9. f.op \in RangeOps => g.cur = Imm("a")
  <2>1. d.op \in RangeOps => Element(d, new) = Imm("a")
    BY DEF Element
  <2> QED BY <1>4, <1>5, <2>1
<1>10. f.op \in {"select", "reject", "partition"} => g.i \in 1 .. n /\ g.cur = new[g.i]
  <2> SUFFICES ASSUME f.op \in {"select", "reject", "partition"}
               PROVE  g.i \in 1 .. n /\ g.cur = new[g.i]
    OBVIOUS
  <2>1. f.n = n /\ f.i \in 1 .. n
    BY <1>6 DEF ArrayOps
  <2>2. After(f, v) = f.i + 1 /\ f.i < n
    BY <2>1 DEF After
  <2>3. f.i + 1 \in 1 .. n /\ ~(f.i + 1 > Len(new)) /\ f.op \notin RangeOps
    <3>1. Len(new) \in Nat
      BY <1>8, Elements DEF IsSeq
    <3>2. f.op \notin RangeOps
      BY DEF RangeOps
    <3> QED BY <1>8, <2>1, <2>2, <3>1, <3>2
  <2>4. Element(d, new) = new[d.i]
    BY <1>4, <1>6, <2>2, <2>3 DEF Element
  <2> QED BY <1>4, <1>5, <2>2, <2>3, <2>4
<1>11. Refs(g.out) \cup Refs(g.rest) \cup Refs(g.keys) \subseteq {0} \cup RefsTo(new, n) \cup more
  BY <1>3, <1>5, <1>8
<1> QED BY <1>3, <1>5, <1>6, <1>9, <1>10, <1>11 DEF RootOK

(* After a block: the methods around the innermost one.                    *)
LEMMA AroundRooted ==
  ASSUME RInv, frames # <<>>, NEW v, NEW kept, Len(kept) \in Nat, NEW n,
         LET f == Last(frames)
         IN  f.base =< Len(kept) /\ \A k \in 1 .. f.base : kept[k] = temp[k],
         NEW outer, Len(outer) = Len(frames) - 1,
         \A k \in 1 .. Len(frames) - 1 :
            outer[k].base = frames[k].base
            /\ (outer[k].disturbed \/ (outer[k] = frames[k] /\ Returning(Last(frames), v).memory = cells /\ n = len))
  PROVE  RootsOK(outer, kept, Last(frames).base, Returning(Last(frames), v).memory, n)
<1>1. IsSeq(frames) /\ IsSeq(temp) /\ RootsOK(frames, temp, Len(temp), cells, len)
  BY DEF RInv, IInv, FramesOK
<1>2. PICK m : m = Len(frames) - 1
  OBVIOUS
<1>3. m \in 0 .. Len(frames) /\ m < Len(frames) /\ m + 1 = Len(frames)
  <2>1. frames \in Seq(ToSet(frames))
    BY <1>1 DEF IsSeq
  <2> QED BY <1>2, <2>1
<1>4. Last(frames) = frames[m + 1]
  BY <1>3 DEF Last
<1>5. Limit(frames, Len(temp), m) = Last(frames).base
  BY <1>3, <1>4 DEF Limit
<1>6. PICK new : new = Returning(Last(frames), v).memory
  OBVIOUS
<1>7. PICK b : b = Last(frames).base
  OBVIOUS
<1>8. b =< Len(kept) /\ \A k \in 1 .. b : kept[k] = temp[k]
  BY <1>7
<1>9. \A k \in 1 .. m : outer[k].base = frames[k].base
                        /\ (outer[k].disturbed \/ (outer[k] = frames[k] /\ new = cells /\ n = len))
  BY <1>2, <1>6
<1>10. RootsOK(outer, kept, b, new, n)
  BY <1>1, <1>2, <1>3, <1>5, <1>7, <1>8, <1>9, RootsOutside
<1> QED BY <1>6, <1>7, <1>10

(* Frames as they are seen after the innermost block.                      *)
LEMMA OuterFrames ==
  ASSUME IInv, frames # <<>>, NEW v
  PROVE  LET r == Returning(Last(frames), v)
         IN  /\ Len(r.outer) = Len(frames) - 1
             /\ \A k \in 1 .. Len(frames) - 1 :
                  r.outer[k].base = frames[k].base
                  /\ (r.outer[k].disturbed \/ (r.outer[k] = frames[k] /\ r.memory = cells))
<1> DEFINE f == Last(frames)
           memory == Moved(f, v, cells)
           front == Front(frames)
           r == Returning(f, v)
<1>1. Len(frames) \in Nat /\ Len(frames) > 0
  <2>1. frames \in Seq(ToSet(frames))
    BY DEF IInv, FramesOK, IsSeq
  <2> QED BY <2>1
<1>2. IsSeq(front) /\ Len(front) = Len(frames) - 1 /\ \A k \in 1 .. Len(frames) - 1 : front[k] = frames[k]
  <2>1. Len(frames) - 1 \in Nat /\ Len(frames) - 1 =< Len(frames) /\ front = SubSeq(frames, 1, Len(frames) - 1)
    BY <1>1 DEF Front
  <2> QED BY <2>1, Prefix DEF IInv, FramesOK
<1>3. r.memory = memory /\ r.outer = IF memory = cells THEN front ELSE [j \in DOMAIN front |-> Disturbed(front[j])]
  BY DEF Returning
<1>4. DOMAIN front = 1 .. Len(frames) - 1
  BY <1>2, Elements DEF IsSeq
<1>5. ASSUME NEW k \in 1 .. Len(frames) - 1
      PROVE  IsFrame(frames[k])
  <2>1. k \in 1 .. Len(frames)
    BY <1>1
  <2> QED BY <2>1 DEF IInv, FramesOK, FrameOK
<1>6. ASSUME NEW g, IsFrame(g)
      PROVE  Disturbed(g).base = g.base /\ Disturbed(g).disturbed
  BY <1>6 DEF IsFrame, Fields, Disturbed
<1> HIDE DEF memory, front, r, f
<1>7. /\ Len(r.outer) = Len(frames) - 1
      /\ \A k \in 1 .. Len(frames) - 1 :
           r.outer[k].base = frames[k].base /\ (r.outer[k].disturbed \/ (r.outer[k] = frames[k] /\ r.memory = cells))
  <2>1. CASE memory = cells
    BY <1>2, <1>3, <2>1
  <2>2. CASE memory # cells
    <3> DEFINE H(j) == Disturbed(front[j])
               hs == [j \in 1 .. Len(frames) - 1 |-> H(j)]
    <3>1. r.outer = hs
      BY <1>3, <1>4, <2>2
    <3> HIDE DEF H
    <3>2. hs \in Seq({H(j) : j \in 1 .. Len(frames) - 1}) /\ Len(hs) = Len(frames) - 1
          /\ \A j \in 1 .. Len(frames) - 1 : hs[j] = H(j)
      BY <1>1
    <3> HIDE DEF hs
    <3>3. \A j \in 1 .. Len(frames) - 1 : H(j).base = frames[j].base /\ H(j).disturbed
      BY <1>2, <1>5, <1>6 DEF H
    <3> QED BY <3>1, <3>2, <3>3
  <2> QED BY <2>1, <2>2
<1> QED BY <1>7 DEF r, f

(* The innermost frame.                                                    *)
LEMMA Innermost ==
  ASSUME RInv, frames # <<>>
  PROVE  LET f == Last(frames)
         IN  /\ Len(frames) \in Nat /\ Len(frames) > 0 /\ f = frames[Len(frames)]
             /\ FrameOK(f, cells, len) /\ f.base \in 0 .. Len(temp) /\ Len(temp) \in Nat
             /\ RootOK(f, cells, len, Refs(temp))
<1>1. Len(frames) \in Nat /\ Len(frames) > 0 /\ Len(temp) \in Nat
  <2>1. frames \in Seq(ToSet(frames)) /\ temp \in Seq(ToSet(temp))
    BY DEF RInv, IInv, FramesOK, IsSeq
  <2> QED BY <2>1
<1>2. Len(frames) \in 1 .. Len(frames) /\ ~(Len(frames) < Len(frames))
  BY <1>1
<1>3. Last(frames) = frames[Len(frames)]
  BY DEF Last
<1>4. FrameOK(frames[Len(frames)], cells, len)
  BY <1>2 DEF RInv, IInv, FramesOK
<1>5. frames[Len(frames)].base \in 0 .. Len(temp)
  BY <1>2 DEF RInv, RootsOK
<1>6. RootOK(frames[Len(frames)], cells, len, RefsTo(temp, Limit(frames, Len(temp), Len(frames))))
  BY <1>2 DEF RInv, RootsOK
<1>7. Limit(frames, Len(temp), Len(frames)) = Len(temp)
  BY <1>2 DEF Limit
<1>8. Refs(temp) = RefsTo(temp, Len(temp))
  BY RefsAll DEF RInv
<1> QED BY <1>1, <1>3, <1>4, <1>5, <1>6, <1>7, <1>8

(* The next round: what the block has returned is put on temp_stack.       *)
LEMMA GoOnRooted == RInv /\ GoOn => RInv'
<1> SUFFICES ASSUME RInv, GoOn
             PROVE  RInv'
  OBVIOUS
<1> DEFINE f == Last(frames)
           r(v) == Returning(f, v)
           d(v) == [Collect(f, v) EXCEPT !.i = After(f, v)]
           g(v) == [d(v) EXCEPT !.cur = Element(d(v), Moved(f, v, cells))]
<1>1. PICK v \in Results(f.op, f.cur) :
               /\ After(f, v) # 0
               /\ cells' = r(v).memory
               /\ frames' = Append(r(v).outer, [[r(v).frame EXCEPT !.i = After(f, v)] EXCEPT
                                !.cur = Element([r(v).frame EXCEPT !.i = After(f, v)], r(v).memory)])
               /\ temp' = r(v).kept
  BY DEF GoOn
<1>2. frames # <<>> /\ len' = len /\ IInv /\ IInv' /\ len \in Nat /\ IsSeq(cells) /\ len =< Len(cells) /\ IsSeq(temp)
  BY GoOnOK DEF GoOn, RInv, IInv
<1>3. /\ r(v).memory = Moved(f, v, cells) /\ r(v).frame = Collect(f, v) /\ r(v).kept = temp \o Kept(f, v)
  BY DEF Returning
<1>4. frames' = Append(r(v).outer, g(v)) /\ cells' = Moved(f, v, cells) /\ temp' = temp \o Kept(f, v)
  BY <1>1, <1>3
<1>5. IsSeq(Kept(f, v))
  <2>1. Kept(f, v) = <<>> \/ \E x : Kept(f, v) = <<x>>
    BY DEF Kept
  <2>2. \A x : IsSeq(<<x>>)
    <3> TAKE x
    <3>1. <<x>> \in Seq({x})
      OBVIOUS
    <3> QED BY <3>1, Elements
  <2> QED BY <2>1, <2>2, NoRefs
<1>6. /\ IsSeq(temp') /\ Refs(temp') = Refs(temp) \cup Refs(Kept(f, v)) /\ Len(temp') = Len(temp) + Len(Kept(f, v))
      /\ \A k \in 1 .. Len(temp) : temp'[k] = temp[k]
  <2>1. PICK k : k = Kept(f, v)
    OBVIOUS
  <2> QED BY <1>2, <1>4, <1>5, <2>1, RefsJoined
<1>7. /\ FrameOK(f, cells, len) /\ f.base \in 0 .. Len(temp) /\ Len(temp) \in Nat
      /\ RootOK(f, cells, len, Refs(temp))
  BY <1>2, Innermost
<1>8. RootOK(g(v), cells', len, Refs(temp'))
  <2>1. Refs(temp) \cup Refs(Kept(f, v)) \subseteq Refs(temp') /\ v \in Results(f.op, f.cur) /\ After(f, v) # 0
    BY <1>1, <1>6
  <2> HIDE DEF f
  <2> QED BY <1>2, <1>4, <1>7, <2>1, NextRooted
<1>9. Len(temp') \in Nat /\ f.base =< Len(temp') /\ \A k \in 1 .. f.base : temp'[k] = temp[k]
  <2>1. Len(Kept(f, v)) \in Nat
    BY <1>5, Elements DEF IsSeq
  <2> QED BY <1>6, <1>7, <2>1
<1>10. g(v).base = f.base
  BY <1>7 DEF FrameOK, IsFrame, Fields, Collect
<1>11. RootsOK(r(v).outer, temp', f.base, cells', len)
  <2>1. /\ Len(r(v).outer) = Len(frames) - 1
        /\ \A k \in 1 .. Len(frames) - 1 :
             r(v).outer[k].base = frames[k].base
             /\ (r(v).outer[k].disturbed \/ (r(v).outer[k] = frames[k] /\ r(v).memory = cells))
    BY <1>2, OuterFrames
  <2>2. RootsOK(r(v).outer, temp', f.base, r(v).memory, len)
    <3>1. PICK outer : outer = r(v).outer
      OBVIOUS
    <3>2. PICK kept : kept = temp'
      OBVIOUS
    <3>3. RootsOK(outer, kept, f.base, r(v).memory, len)
      BY <1>2, <1>9, <2>1, <3>1, <3>2, AroundRooted
    <3> QED BY <3>1, <3>2, <3>3
  <2> QED BY <1>1, <2>2
<1>12. IsSeq(r(v).outer)
  BY <1>2, AfterBlock DEF FramesOK
<1>13. RootsOK(Append(r(v).outer, g(v)), temp', Len(temp'), cells', len)
  <2>1. Refs(temp') = RefsTo(temp', Len(temp'))
    BY <1>6, RefsAll
  <2>2. PICK outer : outer = r(v).outer
    OBVIOUS
  <2>3. PICK e : e = g(v)
    OBVIOUS
  <2> QED BY <1>8, <1>9, <1>10, <1>11, <1>12, <2>1, <2>2, <2>3, RootsPushed
<1> QED BY <1>2, <1>4, <1>6, <1>13 DEF RInv

(* The end of a method: what it kept on temp_stack is dropped.             *)
LEMMA FinishRooted == RInv /\ Finish => RInv'
<1> SUFFICES ASSUME RInv, Finish
             PROVE  RInv'
  OBVIOUS
<1> DEFINE f == Last(frames)
           r(v) == Returning(f, v)
           all(v) == [j \in DOMAIN r(v).outer |-> Disturbed(r(v).outer[j])]
<1>1. PICK v : /\ cells' = r(v).memory
               /\ r(v).frame.del > 0 \/ len' = len
               /\ frames' = IF r(v).frame.del > 0 THEN all(v) ELSE r(v).outer
               /\ temp' = SubSeq(temp, 1, f.base)
  BY DEF Finish, Cut
<1>2. frames # <<>> /\ IInv /\ IInv' /\ IsSeq(temp)
  BY FinishOK DEF Finish, RInv
<1>3. f.base \in 0 .. Len(temp) /\ Len(temp) \in Nat /\ Len(frames) \in Nat
  BY <1>2, Innermost
<1>4. IsSeq(temp') /\ Len(temp') = f.base /\ \A k \in 1 .. f.base : temp'[k] = temp[k]
  <2>1. f.base \in Nat /\ f.base =< Len(temp)
    BY <1>3
  <2> HIDE DEF f
  <2> QED BY <1>1, <1>2, <2>1, Prefix
<1>5. /\ Len(r(v).outer) = Len(frames) - 1
      /\ \A k \in 1 .. Len(frames) - 1 :
           r(v).outer[k].base = frames[k].base
           /\ (r(v).outer[k].disturbed \/ (r(v).outer[k] = frames[k] /\ r(v).memory = cells))
  BY <1>2, OuterFrames
<1>6. /\ Len(frames') = Len(frames) - 1
      /\ \A k \in 1 .. Len(frames) - 1 :
           frames'[k].base = frames[k].base
           /\ (frames'[k].disturbed \/ (frames'[k] = frames[k] /\ r(v).memory = cells /\ len' = len))
  <2>1. CASE ~(r(v).frame.del > 0)
    BY <1>1, <1>5, <2>1
  <2>2. CASE r(v).frame.del > 0
    <3>1. IsSeq(r(v).outer) /\ \A k \in 1 .. Len(r(v).outer) : IsFrame(r(v).outer[k])
      BY <1>2, AfterBlock DEF FramesOK, FrameOK
    <3>2. PICK fs : fs = r(v).outer
      OBVIOUS
    <3>3. DOMAIN fs = 1 .. Len(fs) /\ Len(fs) = Len(frames) - 1 /\ Len(fs) \in Nat
      BY <1>5, <3>1, <3>2, Elements DEF IsSeq
    <3> DEFINE H(j) == Disturbed(fs[j])
               hs == [j \in 1 .. Len(fs) |-> H(j)]
    <3>4. frames' = hs
      BY <1>1, <2>2, <3>2, <3>3
    <3>5. ASSUME NEW h, IsFrame(h)
          PROVE  Disturbed(h).base = h.base /\ Disturbed(h).disturbed
      BY <3>5 DEF IsFrame, Fields, Disturbed
    <3>6. \A k \in 1 .. Len(fs) : H(k).base = fs[k].base /\ H(k).disturbed
      BY <3>1, <3>2, <3>5
    <3> HIDE DEF H
    <3>7. Len(hs) = Len(fs) /\ \A k \in 1 .. Len(fs) : hs[k] = H(k)
      BY <3>3
    <3> HIDE DEF hs
    <3>8. \A k \in 1 .. Len(frames) - 1 : fs[k].base = frames[k].base
      BY <1>5, <3>2
    <3> QED BY <3>3, <3>4, <3>6, <3>7, <3>8
  <2> QED BY <2>1, <2>2
<1>7. RootsOK(frames', temp', f.base, cells', len')
  <2>1. PICK outer : outer = frames'
    OBVIOUS
  <2>2. PICK kept : kept = temp'
    OBVIOUS
  <2>3. PICK n : n = len'
    OBVIOUS
  <2>4. f.base =< Len(kept) /\ Len(kept) \in Nat /\ \A k \in 1 .. f.base : kept[k] = temp[k]
    BY <1>3, <1>4, <2>2
  <2>5. RootsOK(outer, kept, f.base, r(v).memory, n)
    BY <1>2, <1>6, <2>1, <2>3, <2>4, AroundRooted
  <2> QED BY <1>1, <2>1, <2>2, <2>3, <2>5
<1> QED BY <1>2, <1>4, <1>7 DEF RInv

(* An exception drops what the methods it leaves kept.                     *)
LEMMA RaiseRooted == RInv /\ Raise => RInv'
<1> SUFFICES ASSUME RInv, Raise
             PROVE  RInv'
  OBVIOUS
<1>1. PICK k \in DOMAIN frames : frames' = SubSeq(frames, 1, k - 1) /\ temp' = SubSeq(temp, 1, frames[k].base)
  BY DEF Raise, Unwound
<1>2. /\ IInv /\ IInv' /\ IsSeq(temp) /\ IsSeq(frames) /\ cells' = cells /\ len' = len
      /\ RootsOK(frames, temp, Len(temp), cells, len)
  BY RaiseOK DEF Raise, RInv, IInv, FramesOK
<1>3. DOMAIN frames = 1 .. Len(frames) /\ Len(frames) \in Nat /\ Len(temp) \in Nat
  BY <1>2, Elements DEF IsSeq
<1>4. PICK m : m = k - 1
  OBVIOUS
<1>5. m \in Nat /\ m \in 0 .. Len(frames) /\ m < Len(frames) /\ m =< Len(frames) /\ m + 1 = k
  BY <1>3, <1>4
<1>6. PICK b : b = frames[k].base
  OBVIOUS
<1>7. b \in Nat /\ b =< Len(temp)
  <2>1. b \in 0 .. Len(temp)
    BY <1>2, <1>3, <1>6 DEF RootsOK
  <2> QED BY <1>3, <2>1
<1>8. IsSeq(temp') /\ Len(temp') = b /\ \A j \in 1 .. b : temp'[j] = temp[j]
  BY <1>1, <1>2, <1>6, <1>7, Prefix
<1>9. Len(frames') = m /\ \A j \in 1 .. m : frames'[j] = frames[j]
  BY <1>1, <1>2, <1>4, <1>5, Prefix
<1>10. Limit(frames, Len(temp), m) = b
  BY <1>5, <1>6 DEF Limit
<1>11. RootsOK(frames', temp', b, cells, len)
  <2>1. PICK outer : outer = frames'
    OBVIOUS
  <2>2. PICK kept : kept = temp'
    OBVIOUS
  <2>3. b =< Len(kept) /\ Len(kept) \in Nat /\ \A j \in 1 .. b : kept[j] = temp[j]
    BY <1>7, <1>8, <2>2
  <2>4. Len(outer) = m /\ \A j \in 1 .. m : outer[j].base = frames[j].base /\ outer[j] = frames[j]
    BY <1>9, <2>1
  <2>5. RootsOK(outer, kept, b, cells, len)
    BY <1>2, <1>5, <1>10, <2>3, <2>4, RootsOutside
  <2> QED BY <2>1, <2>2, <2>5
<1> QED BY <1>2, <1>8, <1>11 DEF RInv

(* A method begins with nothing collected.                                 *)
LEMMA CallRooted == RInv /\ Call => RInv'
<1> SUFFICES ASSUME RInv, Call
             PROVE  RInv'
  OBVIOUS
<1>1. PICK op : Frame(op).n > 0 /\ frames' = Append(frames, [Frame(op) EXCEPT !.cur = Element(Frame(op), cells)])
  BY DEF Call
<1> DEFINE f == Frame(op)
           g == [f EXCEPT !.cur = Element(f, cells)]
<1>2. /\ IInv /\ IInv' /\ IsSeq(temp) /\ IsSeq(frames) /\ cells' = cells /\ len' = len /\ temp' = Append(temp, Receiver)
      /\ RootsOK(frames, temp, Len(temp), cells, len) /\ len \in Nat /\ IsSeq(cells) /\ len =< Len(cells)
  BY CallOK DEF Call, RInv, IInv, FramesOK
<1>3. Len(frames) \in Nat /\ Len(temp) \in Nat /\ Len(cells) \in Nat
  BY <1>2, Elements DEF IsSeq
<1>4. IsSeq(temp') /\ Len(temp') = Len(temp) + 1 /\ \A k \in 1 .. Len(temp) : temp'[k] = temp[k]
  BY <1>2, Pushed
<1>5. /\ IsFrame(f) /\ f.op = op /\ f.n = (IF op \in RangeOps THEN RangeLen ELSE len) /\ f.i = 1
      /\ f.out = <<>> /\ f.rest = <<>> /\ f.keys = <<>> /\ f.base = Len(temp) /\ ~f.moved
  BY DEF Frame, IsFrame, Fields
<1>6. f.n > 0
  BY <1>1
<1> HIDE DEF f
<1>7. /\ g.op = op /\ g.n = f.n /\ g.i = 1 /\ g.cur = Element(f, cells) /\ ~g.moved
      /\ g.out = <<>> /\ g.rest = <<>> /\ g.keys = <<>> /\ g.base = Len(temp)
  BY <1>5 DEF IsFrame, Fields
<1>8. op \in RangeOps => g.cur = Imm("a")
  BY <1>5, <1>7 DEF Element
<1>9. op \in ArrayOps => f.n = len
  BY <1>5 DEF ArrayOps, RangeOps
<1>10. op \in {"select", "reject", "partition"} => g.i \in 1 .. len /\ g.cur = cells[g.i]
  <2> SUFFICES ASSUME op \in {"select", "reject", "partition"}
               PROVE  g.i \in 1 .. len /\ g.cur = cells[g.i]
    OBVIOUS
  <2>1. op \in ArrayOps /\ op \notin RangeOps
    BY DEF ArrayOps, RangeOps
  <2>2. 1 \in 1 .. len /\ ~(1 > Len(cells))
    BY <1>2, <1>3, <1>6, <1>9, <2>1
  <2>3. Element(f, cells) = cells[1]
    BY <1>5, <2>1, <2>2 DEF Element
  <2> QED BY <1>7, <2>2, <2>3
<1> HIDE DEF g
<1>11. \A own : RootOK(g, cells, len, own)
  BY <1>7, <1>8, <1>9, <1>10, NoRefs DEF RootOK
<1>12. RootsOK(frames, temp', Len(temp), cells, len)
  <2>1. PICK kept : kept = temp'
    OBVIOUS
  <2>2. Limit(frames, Len(temp), Len(frames)) = Len(temp) /\ Len(frames) \in 0 .. Len(frames)
    BY <1>3 DEF Limit
  <2>3. Len(temp) =< Len(kept) /\ Len(kept) \in Nat /\ \A k \in 1 .. Len(temp) : kept[k] = temp[k]
    BY <1>3, <1>4, <2>1
  <2>4. RootsOK(frames, kept, Len(temp), cells, len)
    BY <1>2, <2>2, <2>3, RootsOutside
  <2> QED BY <2>1, <2>4
<1>13. RootsOK(Append(frames, g), temp', Len(temp'), cells, len)
  <2>1. Len(temp') \in Nat
    BY <1>3, <1>4
  <2> QED BY <1>2, <1>7, <1>11, <1>12, <2>1, RootsPushed
<1> QED BY <1>1, <1>2, <1>4, <1>13 DEF RInv, g, f

(* Once the array is changed by a block, the property promises nothing;    *)
(* the parts of temp_stack stay as they are.                               *)
LEMMA BlockRooted == RInv /\ (Store \/ Push \/ Pop \/ Shift) => RInv'
<1> SUFFICES ASSUME RInv, Store \/ Push \/ Pop \/ Shift
             PROVE  RInv'
  OBVIOUS
<1>1. PICK moves : frames' = MovedFrames(frames, moves) /\ temp' = temp
  BY DEF Store, Push, Pop, Shift, Change, MovedFrames
<1>2. /\ IInv /\ IInv' /\ IsSeq(temp) /\ IsSeq(frames) /\ \A k \in 1 .. Len(frames) : IsFrame(frames[k])
      /\ RootsOK(frames, temp, Len(temp), cells, len)
  BY BlockOK DEF RInv, IInv, FramesOK, FrameOK
<1>3. DOMAIN frames = 1 .. Len(frames) /\ Len(frames) \in Nat /\ Len(temp) \in Nat
  BY <1>2, Elements DEF IsSeq
<1> DEFINE G(k) == [Disturbed(frames[k]) EXCEPT !.moved = @ \/ moves]
           gs == [k \in 1 .. Len(frames) |-> G(k)]
<1>4. frames' = gs
  BY <1>1, <1>3 DEF MovedFrames
<1>5. ASSUME NEW h, IsFrame(h)
      PROVE  [Disturbed(h) EXCEPT !.moved = @ \/ moves].base = h.base /\ [Disturbed(h) EXCEPT !.moved = @ \/ moves].disturbed
  BY <1>5 DEF IsFrame, Fields, Disturbed
<1>6. \A k \in 1 .. Len(frames) : G(k).base = frames[k].base /\ G(k).disturbed
  BY <1>2, <1>5
<1> HIDE DEF G
<1>7. Len(gs) = Len(frames) /\ \A k \in 1 .. Len(frames) : gs[k] = G(k)
  BY <1>3
<1> HIDE DEF gs
<1>8. \A k \in 1 .. Len(frames) : gs[k].base = frames[k].base /\ gs[k].disturbed
  BY <1>6, <1>7
<1>9. Limit(frames, Len(temp), Len(frames)) = Len(temp) /\ Len(frames) \in 0 .. Len(frames) /\ Len(temp) =< Len(temp)
  BY <1>3 DEF Limit
<1>10. ASSUME NEW new, NEW n
       PROVE  RootsOK(gs, temp, Len(temp), new, n)
  <2>1. PICK m : m = Len(frames)
    OBVIOUS
  <2>2. PICK h : h = gs
    OBVIOUS
  <2>3. m \in 0 .. Len(frames) /\ Len(h) = m /\ Limit(frames, Len(temp), m) = Len(temp)
    BY <1>7, <1>9, <2>1, <2>2
  <2>4. \A k \in 1 .. m : h[k].base = frames[k].base /\ (h[k].disturbed \/ (h[k] = frames[k] /\ new = cells /\ n = len))
    BY <1>8, <2>1, <2>2
  <2>5. Limit(frames, Len(temp), m) =< Len(temp) /\ \A k \in 1 .. Limit(frames, Len(temp), m) : temp[k] = temp[k]
    BY <1>9, <2>1
  <2>6. RootsOK(h, temp, Limit(frames, Len(temp), m), new, n)
    BY <1>2, <1>3, <2>3, <2>4, <2>5, RootsOutside
  <2> QED BY <2>2, <2>3, <2>6
<1> QED BY <1>1, <1>2, <1>4, <1>10 DEF RInv

(* The invariant says what the property asks.                              *)
LEMMA RInvRooted == RInv => ResultsRooted
<1> SUFFICES ASSUME RInv, NEW k \in DOMAIN frames, frames[k].op \notin Unrooted, ~frames[k].disturbed
             PROVE  Refs(frames[k].out) \cup Refs(frames[k].rest) \cup Refs(frames[k].keys)
                      \cup (IF frames[k].op \in ArrayOps THEN Refs(SubSeq(cells, 1, frames[k].n)) ELSE {})
                    \subseteq {0} \cup Refs(array) \cup Refs(temp)
  BY DEF ResultsRooted
<1>1. /\ IsSeq(temp) /\ IsSeq(frames) /\ IsSeq(cells) /\ len \in Nat /\ len =< Len(cells)
      /\ RootsOK(frames, temp, Len(temp), cells, len)
  BY DEF RInv, IInv, FramesOK
<1>2. k \in 1 .. Len(frames) /\ Len(frames) \in Nat /\ Len(temp) \in Nat
  BY <1>1, Elements DEF IsSeq
<1>3. RootOK(frames[k], cells, len, RefsTo(temp, Limit(frames, Len(temp), k)))
  BY <1>1, <1>2 DEF RootsOK
<1>4. IsSeq(array) /\ Len(array) = len /\ \A j \in 1 .. len : array[j] = cells[j]
  BY <1>1, Prefix DEF array
<1>5. Refs(array) = RefsTo(cells, len)
  <2>1. PICK s : s = array
    OBVIOUS
  <2>2. Refs(s) = RefsTo(s, len)
    BY <1>4, <2>1, RefsAll
  <2>3. \A j \in 1 .. len : s[j] = cells[j]
    BY <1>4, <2>1
  <2>4. RefsTo(s, len) = RefsTo(cells, len)
    BY <2>3, RefsSame
  <2> QED BY <2>1, <2>2, <2>4
<1>6. Refs(temp) = RefsTo(temp, Len(temp))
  BY <1>1, RefsAll
<1>7. RefsTo(temp, Limit(frames, Len(temp), k)) \subseteq Refs(temp)
  <2>1. Limit(frames, Len(temp), k) \in 0 .. Len(temp)
    <3>1. CASE k < Len(frames)
      <4>1. k + 1 \in 1 .. Len(frames)
        BY <1>2, <3>1
      <4> QED BY <1>1, <3>1, <4>1 DEF Limit, RootsOK
    <3>2. CASE ~(k < Len(frames))
      BY <1>2, <3>2 DEF Limit
    <3> QED BY <3>1, <3>2
  <2>2. Limit(frames, Len(temp), k) \in Nat /\ Limit(frames, Len(temp), k) =< Len(temp)
    BY <1>2, <2>1
  <2> QED BY <1>2, <1>6, <2>2, RefsWithin
<1>8. frames[k].op \in ArrayOps => Refs(SubSeq(cells, 1, frames[k].n)) = Refs(array)
  BY <1>3 DEF RootOK, array
<1>9. Refs(frames[k].out) \cup Refs(frames[k].rest) \cup Refs(frames[k].keys)
        \subseteq {0} \cup RefsTo(cells, len) \cup RefsTo(temp, Limit(frames, Len(temp), k))
  BY <1>3 DEF RootOK
<1> QED BY <1>5, <1>7, <1>8, <1>9

(* What a method in progress has collected, the values it compares with    *)
(* and the elements to come are found by a collection within its block,    *)
(* as long as the array is the one it was called with: for arrays of any   *)
(* length, any number of methods in progress and any number of objects.    *)
THEOREM CollectedRooted == Spec => []ResultsRooted
<1>1. Init => RInv
  <2> SUFFICES ASSUME Init
               PROVE  RInv
    OBVIOUS
  <2>1. IInv /\ temp = <<>> /\ frames = <<>>
    BY InitOK DEF Init
  <2>2. RootsOK(<<>>, <<>>, 0, cells, len)
    BY NoRefs DEF RootsOK
  <2> QED BY <2>1, <2>2, NoRefs DEF RInv
<1>2. RInv /\ [Next]_vars => RInv'
  <2> SUFFICES ASSUME RInv, [Next]_vars
               PROVE  RInv'
    OBVIOUS
  <2>1. CASE UNCHANGED vars
    BY <2>1 DEF vars, RInv, IInv
  <2>2. CASE Literal
    <3>1. frames = <<>> /\ frames' = frames /\ temp' = temp
      BY <2>2 DEF Literal
    <3>2. IInv' /\ IsSeq(temp) /\ Len(temp) \in Nat
      BY <2>2, LiteralOK, Elements DEF RInv, IsSeq
    <3>3. \A new, n : RootsOK(<<>>, temp, Len(temp), new, n)
      BY <3>2, NoRefs DEF RootsOK
    <3> QED BY <3>1, <3>2, <3>3 DEF RInv
  <2> QED BY <2>1, <2>2, CallRooted, GoOnRooted, FinishRooted, RaiseRooted, BlockRooted DEF Next
<1> QED BY <1>1, <1>2, RInvRooted, PTL DEF Spec
----------------------------------------------------------------------------
(* What the methods return: sequences are equal if their elements are; a   *)
(* function of 1 .. n is one.                                              *)
LEMMA EqualSeqs ==
  ASSUME NEW s, IsSeq(s), NEW t, IsSeq(t), Len(s) = Len(t), \A k \in 1 .. Len(s) : s[k] = t[k]
  PROVE  s = t
<1>1. s = [k \in 1 .. Len(s) |-> s[k]] /\ t = [k \in 1 .. Len(s) |-> t[k]]
  BY DEF IsSeq
<1> QED BY <1>1

LEMMA Listed ==
  ASSUME NEW n \in Nat, NEW s, s = [k \in 1 .. n |-> s[k]]
  PROVE  IsSeq(s) /\ Len(s) = n /\ DOMAIN s = 1 .. n
<1>1. s \in Seq({s[k] : k \in 1 .. n}) /\ Len(s) = n
  OBVIOUS
<1> QED BY <1>1, Elements

(* Sequences that begin with the same n elements.                          *)
Agree(s, t, n) == \A k \in 1 .. n : s[k] = t[k]
Within(S, n) == S \subseteq 1 .. n

(* The positions chosen, in order, with one more that is the last.         *)
LEMMA RankedMore ==
  ASSUME NEW m \in Nat, NEW S \in SUBSET (1 .. m)
  PROVE  /\ Cardinality(S) \in Nat /\ Cardinality(S \cup {m + 1}) = Cardinality(S) + 1
         /\ \A j \in 1 .. Cardinality(S) : Ranked(S \cup {m + 1}, j) = Ranked(S, j)
         /\ Ranked(S \cup {m + 1}, Cardinality(S) + 1) = {m + 1}
<1> DEFINE T == S \cup {m + 1}
           Below(X, i) == {h \in X : h < i}
           rank(X, i) == Cardinality(Below(X, i))
<1>1. PICK c : c = Cardinality(S)
  OBVIOUS
<1>2. IsFiniteSet(S) /\ c \in Nat
  <2>1. IsFiniteSet(1 .. m)
    BY FS_Interval
  <2>2. IsFiniteSet(S)
    BY <2>1, FS_Subset
  <2> QED BY <1>1, <2>2, FS_CardinalityType
<1>3. m + 1 \notin S
  OBVIOUS
<1>4. Cardinality(T) = c + 1
  BY <1>1, <1>2, <1>3, FS_AddElement
<1>5. ASSUME NEW i \in S
      PROVE  rank(T, i) = rank(S, i) /\ rank(S, i) \in Nat /\ rank(S, i) < c
  <2>1. Below(T, i) = Below(S, i)
    OBVIOUS
  <2>2. Below(S, i) \subseteq S \ {i}
    OBVIOUS
  <2>3. IsFiniteSet(S \ {i}) /\ Cardinality(S \ {i}) = c - 1
    BY <1>1, <1>2, FS_RemoveElement
  <2> HIDE DEF Below
  <2>4. IsFiniteSet(Below(S, i)) /\ Cardinality(Below(S, i)) =< c - 1
    BY <2>2, <2>3, FS_Subset
  <2>5. Cardinality(Below(S, i)) \in Nat
    BY <2>4, FS_CardinalityType
  <2> QED BY <1>2, <2>1, <2>4, <2>5
<1>6. rank(T, m + 1) = c
  <2>1. Below(T, m + 1) = S
    <3>1. \A h \in S : h < m + 1
      OBVIOUS
    <3>2. ~(m + 1 < m + 1)
      OBVIOUS
    <3> QED BY <3>1, <3>2
  <2> HIDE DEF Below
  <2> QED BY <1>1, <2>1
<1> HIDE DEF rank
<1>7. \A X, j : Ranked(X, j) = {i \in X : rank(X, i) = j - 1}
  BY DEF Ranked, rank
<1>8. ASSUME NEW j \in 1 .. c
      PROVE  Ranked(T, j) = Ranked(S, j)
  <2>1. j - 1 < c /\ j - 1 # c
    BY <1>2
  <2>2. \A i \in T : i \in S \/ i = m + 1
    OBVIOUS
  <2>3. \A i : i \in {h \in T : rank(T, h) = j - 1} <=> i \in {h \in S : rank(S, h) = j - 1}
    BY <1>5, <1>6, <2>1, <2>2
  <2> QED BY <1>7, <2>3
<1>9. Ranked(T, c + 1) = {m + 1}
  <2>1. \A i \in S : rank(T, i) # c
    BY <1>2, <1>5
  <2>2. \A i : i \in {h \in T : rank(T, h) = c} <=> i = m + 1
    BY <1>6, <2>1
  <2>3. Ranked(T, c + 1) = {h \in T : rank(T, h) = c}
    <3>1. PICK j : j = c + 1
      OBVIOUS
    <3>2. Ranked(T, j) = {h \in T : rank(T, h) = j - 1}
      BY <1>7, Zenon
    <3>3. j - 1 = c
      BY <1>2, <3>1
    <3> QED BY <3>1, <3>2, <3>3
  <2> QED BY <2>2, <2>3
<1> QED BY <1>1, <1>2, <1>4, <1>8, <1>9

(* There is one of each rank.                                              *)
LEMMA RankedSome ==
  ASSUME NEW m \in Nat, NEW S \in SUBSET (1 .. m), NEW j \in 1 .. Cardinality(S)
  PROVE  \E i \in S : i \in Ranked(S, j)
<1> DEFINE Each(n) == \A X \in SUBSET (1 .. n) : \A k \in 1 .. Cardinality(X) : \E i \in X : i \in Ranked(X, k)
           Z == {n \in Nat : Each(n)}
<1>1. 0 \in Z
  <2>1. \A X \in SUBSET (1 .. 0) : Cardinality(X) = 0
    <3>1. 1 .. 0 = {}
      OBVIOUS
    <3>2. \A X \in SUBSET (1 .. 0) : X = {}
      BY <3>1
    <3> QED BY <3>2, FS_EmptySet
  <2> QED BY <2>1
<1>2. ASSUME NEW n \in Nat, n \in Z
      PROVE  n + 1 \in Z
  <2> SUFFICES ASSUME NEW X \in SUBSET (1 .. n + 1), NEW k \in 1 .. Cardinality(X)
               PROVE  \E i \in X : i \in Ranked(X, k)
    OBVIOUS
  <2>1. CASE n + 1 \notin X
    <3>1. X \in SUBSET (1 .. n)
      BY <2>1
    <3> QED BY <1>2, <3>1
  <2>2. CASE n + 1 \in X
    <3> DEFINE Y == X \ {n + 1}
    <3>1. Y \in SUBSET (1 .. n) /\ X = Y \cup {n + 1}
      BY <2>2
    <3> HIDE DEF Y
    <3>2. PICK c : c = Cardinality(Y)
      OBVIOUS
    <3>3. /\ c \in Nat /\ Cardinality(X) = c + 1
          /\ \A l \in 1 .. c : Ranked(X, l) = Ranked(Y, l)
          /\ Ranked(X, c + 1) = {n + 1}
      BY <3>1, <3>2, RankedMore
    <3>4. k \in 1 .. c \/ k = c + 1
      BY <3>3
    <3>5. CASE k \in 1 .. c
      <4>1. \E i \in Y : i \in Ranked(Y, k)
        BY <1>2, <3>1, <3>2, <3>5
      <4> QED BY <3>1, <3>3, <3>5, <4>1
    <3>6. CASE k = c + 1
      BY <2>2, <3>3, <3>6
    <3> QED BY <3>4, <3>5, <3>6
  <2> QED BY <2>1, <2>2
<1> HIDE DEF Z
<1>3. m \in Z
  BY <1>1, <1>2, Induction
<1> QED BY <1>3 DEF Z

(* What is chosen by the values, one more included or not.                 *)
LEMMA ChosenMore ==
  ASSUME NEW m \in Nat, NEW S, Within(S, m), NEW g, NEW h, Agree(h, g, m), NEW k, k = m + 1
  PROVE  /\ IsSeq(Chosen(g, S)) /\ Len(Chosen(g, S)) = Cardinality(S)
         /\ Chosen(h, S) = Chosen(g, S)
         /\ Chosen(h, S \cup {k}) = Append(Chosen(g, S), h[k])
<1> DEFINE at(X, j) == CHOOSE i \in Ranked(X, j) : TRUE
           T == S \cup {m + 1}
<1> USE DEF Agree
<1>0. S \in SUBSET (1 .. m)
  BY DEF Within
<1>1. PICK c : c = Cardinality(S)
  OBVIOUS
<1>2. /\ c \in Nat /\ Cardinality(T) = c + 1
      /\ \A j \in 1 .. c : Ranked(T, j) = Ranked(S, j)
      /\ Ranked(T, c + 1) = {m + 1}
  BY <1>0, <1>1, RankedMore
<1>3. ASSUME NEW j \in 1 .. c
      PROVE  at(S, j) \in 1 .. m /\ at(T, j) = at(S, j)
  <2>1. \E i \in S : i \in Ranked(S, j)
    BY <1>0, <1>1, RankedSome
  <2>2. at(S, j) \in Ranked(S, j)
    BY <2>1
  <2>3. at(S, j) \in S
    BY <2>2 DEF Ranked
  <2>4. at(T, j) = at(S, j)
    BY <1>2
  <2> QED BY <1>0, <2>3, <2>4
<1>4. at(T, c + 1) = m + 1
  BY <1>2
<1> HIDE DEF at
<1>5. /\ Chosen(g, S) = [j \in 1 .. c |-> g[at(S, j)]]
      /\ Chosen(h, S) = [j \in 1 .. c |-> h[at(S, j)]]
      /\ Chosen(h, T) = [j \in 1 .. c + 1 |-> h[at(T, j)]]
  BY <1>1, <1>2 DEF Chosen, at
<1> HIDE DEF T
<1> DEFINE s == Chosen(g, S)
           t == Chosen(h, T)
<1>6. /\ s = [j \in 1 .. c |-> s[j]] /\ t = [j \in 1 .. c + 1 |-> t[j]] /\ t[c + 1] = h[m + 1]
      /\ \A j \in 1 .. c : s[j] = g[at(S, j)] /\ t[j] = g[at(S, j)]
  <2>1. \A j \in 1 .. c : h[at(T, j)] = g[at(S, j)] /\ j \in 1 .. c + 1
    BY <1>2, <1>3
  <2>2. c + 1 \in 1 .. c + 1
    BY <1>2
  <2> QED BY <1>4, <1>5, <2>1, <2>2
<1>7. Chosen(h, S) = s
  BY <1>3, <1>5
<1> HIDE DEF s, t
<1>8. IsSeq(s) /\ Len(s) = c /\ IsSeq(t) /\ Len(t) = c + 1
  BY <1>2, <1>6, Listed
<1>9. t = Append(s, h[m + 1])
  <2> DEFINE u == Append(s, h[m + 1])
  <2>1. /\ IsSeq(u) /\ Len(u) = c + 1 /\ u[c + 1] = h[m + 1] /\ \A j \in 1 .. c : u[j] = s[j]
    BY <1>8, Pushed
  <2> HIDE DEF u
  <2>2. \A j \in 1 .. c + 1 : j \in 1 .. c \/ j = c + 1
    BY <1>2
  <2>3. \A j \in 1 .. c + 1 : t[j] = u[j]
    BY <1>6, <2>1, <2>2
  <2>4. t = u
    BY <1>8, <2>1, <2>3, EqualSeqs
  <2> QED BY <2>4 DEF u
<1> QED BY <1>1, <1>7, <1>8, <1>9 DEF s, t, T

----------------------------------------------------------------------------
(* What a method in progress has done so far: the block was given the      *)
(* values in order, or those a binary search asks for;                     *)
Value(f, j) == IF f.op \in RangeOps THEN Imm("a") ELSE f.start[j]
InOrder(f) ==
    /\ IsSeq(f.calls) /\ f.n \in Nat /\ f.i \in 1 .. f.n /\ f.cur = Value(f, f.i)
    /\ f.op # "bsearch" =>
         /\ Len(f.calls) = f.i - 1
         /\ \A j \in 1 .. Len(f.calls) : f.calls[j][1] = Value(f, j) /\ ~Stops(f.op, f.calls[j][2])
Between(f) == f.lo \in 1 .. f.n /\ f.hi \in 1 .. f.n /\ f.lo < f.i /\ f.i < f.hi
Searching(f) ==
    f.op = "bsearch" =>
      \/ f.lo = 0 /\ f.hi = 0 /\ f.i = 1
      \/ f.lo = 1 /\ f.hi = 0 /\ f.i = f.n /\ Asked(f, 1, No)
      \/ Between(f) /\ Asked(f, f.lo, No) /\ Asked(f, f.hi, Yes)

(* it has collected what belongs to the calls made;                        *)
Vals(s) == {s[k].val : k \in DOMAIN s}
Parts(got) == [k \in DOMAIN got |-> Contents(got[k])]
Collects(f) ==
    LET given == Given(f.calls)
        got == Got(f.calls)
        yes == Accepted(got)
        no == DOMAIN got \ yes
    IN  /\ f.op \in {"select", "partition"} => f.out = Chosen(given, yes)
        /\ f.op = "reject" => f.out = Chosen(given, no)
        /\ f.op = "partition" => f.rest = Chosen(given, no)
        /\ f.op = "Range#map" => f.out = got
        /\ f.op \in {"flat_map", "Range#flat_map"} =>
             f.out = FlattenSeq(Parts(got)) /\ \A k \in DOMAIN got : IsSeq(Contents(got[k]))
        /\ f.op = "uniq" => f.out = Chosen(given, Firsts(got))
        /\ f.op \in {"uniq", "uniq!"} => IsSeq(f.keys) /\ Vals(f.keys) = Vals(got)

(* the array is as it was at the call, but for the part before i that      *)
(* retain has gone over, where what stays comes first;                     *)
Stays(calls) == Chosen(Given(calls), Firsts(Got(calls)))
InPlace(f, i, memory, n) ==
    LET stays == Stays(f.calls)
    IN  /\ IsSeq(f.start) /\ Len(f.start) = n /\ f.n = IF f.op \in RangeOps THEN RangeLen ELSE n
        /\ f.op # "uniq!" => \A j \in 1 .. n : memory[j] = f.start[j]
        /\ f.op = "uniq!" =>
             /\ Len(stays) = i - 1 - f.del
             /\ \A j \in 1 .. Len(stays) : memory[j] = stays[j]
             /\ \A j \in i .. n : memory[j] = f.start[j]

(* map has put on temp_stack, up to b, what its block returned.            *)
OnStack(f, tmp, b) ==
    f.op = "map" =>
      /\ b = f.base + 1 + Len(f.calls)
      /\ \A j \in 1 .. Len(f.calls) : tmp[f.base + 1 + j] = f.calls[j][2]
WorkOK(f, memory, n, tmp, b) ==
    ~f.disturbed /\ f.op \in Ops =>
      /\ ~f.moved
      /\ InOrder(f) /\ Searching(f) /\ Collects(f) /\ InPlace(f, f.i, memory, n) /\ OnStack(f, tmp, b)
WorksOK(fs, tmp, b, memory, n) ==
    \A k \in 1 .. Len(fs) : WorkOK(fs[k], memory, n, tmp, Limit(fs, b, k))

(* What arrays hold can be put together with arrays.                       *)
CellsOK(memory) == \A j \in 1 .. Len(memory) : IsSeq(Contents(memory[j]))
WInv == RInv /\ CellsOK(cells) /\ WorksOK(frames, temp, Len(temp), cells, len) /\ ReturnsAsRuby

(* One more call of the block.                                             *)
LEMMA CallsMore ==
  ASSUME NEW calls, IsSeq(calls), NEW x, NEW v
  PROVE  LET more == Append(calls, <<x, v>>)
             m == Len(calls)
             got == Got(calls)
             got2 == Got(more)
         IN  /\ m \in Nat /\ IsSeq(more) /\ Len(more) = m + 1 /\ more[m + 1] = <<x, v>>
             /\ IsSeq(got) /\ DOMAIN got = 1 .. m /\ Len(got) = m /\ IsSeq(Given(calls)) /\ Len(Given(calls)) = m
             /\ IsSeq(got2) /\ DOMAIN got2 = 1 .. m + 1 /\ Len(got2) = m + 1 /\ got2[m + 1] = v
             /\ Agree(more, calls, m) /\ Agree(got2, got, m) /\ Agree(Given(more), Given(calls), m)
             /\ \A j \in 1 .. m : got[j] = calls[j][2] /\ Given(calls)[j] = calls[j][1]
             /\ IsSeq(Given(more)) /\ Len(Given(more)) = m + 1 /\ Given(more)[m + 1] = x
<1> DEFINE more == Append(calls, <<x, v>>)
<1>1. PICK m : m = Len(calls)
  OBVIOUS
<1>2. /\ m \in Nat /\ IsSeq(more) /\ Len(more) = m + 1 /\ more[m + 1] = <<x, v>> /\ DOMAIN more = 1 .. m + 1
      /\ \A j \in 1 .. m : more[j] = calls[j]
  BY <1>1, Pushed
<1>3. DOMAIN calls = 1 .. m
  BY <1>1, Elements DEF IsSeq
<1> HIDE DEF more
<1>4. /\ Got(calls) = [j \in 1 .. m |-> calls[j][2]] /\ Got(more) = [j \in 1 .. m + 1 |-> more[j][2]]
      /\ Given(calls) = [j \in 1 .. m |-> calls[j][1]] /\ Given(more) = [j \in 1 .. m + 1 |-> more[j][1]]
  BY <1>2, <1>3 DEF Got, Given
<1>5. m + 1 \in 1 .. m + 1 /\ m + 1 \in Nat /\ \A j \in 1 .. m : j \in 1 .. m + 1
  BY <1>2
<1>6. /\ Got(more)[m + 1] = v /\ Given(more)[m + 1] = x
      /\ \A j \in 1 .. m : /\ Got(calls)[j] = calls[j][2] /\ Got(more)[j] = Got(calls)[j]
                           /\ Given(calls)[j] = calls[j][1] /\ Given(more)[j] = Given(calls)[j]
  BY <1>2, <1>4, <1>5
<1>7. /\ IsSeq(Got(calls)) /\ Len(Got(calls)) = m /\ DOMAIN Got(calls) = 1 .. m
      /\ IsSeq(Got(more)) /\ Len(Got(more)) = m + 1 /\ DOMAIN Got(more) = 1 .. m + 1
  <2>1. /\ Got(calls) = [j \in 1 .. m |-> Got(calls)[j]]
        /\ Got(more) = [j \in 1 .. m + 1 |-> Got(more)[j]]
    BY <1>4
  <2> QED BY <1>2, <1>5, <2>1, Listed
<1>8. IsSeq(Given(calls)) /\ Len(Given(calls)) = m /\ IsSeq(Given(more)) /\ Len(Given(more)) = m + 1
  <2>1. /\ Given(calls) = [j \in 1 .. m |-> Given(calls)[j]]
        /\ Given(more) = [j \in 1 .. m + 1 |-> Given(more)[j]]
    BY <1>4
  <2> QED BY <1>2, <1>5, <2>1, Listed
<1>9. Agree(more, calls, m) /\ Agree(Got(more), Got(calls), m) /\ Agree(Given(more), Given(calls), m)
  BY <1>2, <1>6 DEF Agree
<1> QED BY <1>1, <1>2, <1>6, <1>7, <1>8, <1>9 DEF more

(* The positions of what the block accepted, and of the new values.        *)
LEMMA PositionsMore ==
  ASSUME NEW got, NEW got2, NEW m \in Nat, DOMAIN got = 1 .. m, DOMAIN got2 = 1 .. m + 1, Agree(got2, got, m)
  PROVE  LET yes == Accepted(got)
             no == DOMAIN got \ yes
             v == got2[m + 1]
         IN  /\ Within(yes, m) /\ Within(no, m) /\ Within(Firsts(got), m)
             /\ Accepted(got2) = IF Truthy(v) THEN yes \cup {m + 1} ELSE yes
             /\ DOMAIN got2 \ Accepted(got2) = IF Truthy(v) THEN no ELSE no \cup {m + 1}
             /\ Firsts(got2) = IF v.val \in Vals(got) THEN Firsts(got) ELSE Firsts(got) \cup {m + 1}
             /\ Vals(got2) = Vals(got) \cup {v.val}
<1> DEFINE v == got2[m + 1]
           new(s, i) == \A j \in 1 .. i - 1 : s[j].val # s[i].val
<1> USE DEF Agree
<1>1. m + 1 \in 1 .. m + 1 /\ m + 1 \notin 1 .. m /\ \A i : i \in 1 .. m + 1 <=> i \in 1 .. m \/ i = m + 1
  OBVIOUS
<1>2. Accepted(got) = {i \in 1 .. m : Truthy(got[i])} /\ Accepted(got2) = {i \in 1 .. m + 1 : Truthy(got2[i])}
  BY DEF Accepted
<1>3. Accepted(got2) = IF Truthy(v) THEN Accepted(got) \cup {m + 1} ELSE Accepted(got)
  <2>1. \A i : i \in Accepted(got2) <=> i \in Accepted(got) \/ (i = m + 1 /\ Truthy(v))
    BY <1>1, <1>2
  <2> QED BY <2>1
<1>4. DOMAIN got2 \ Accepted(got2) = IF Truthy(v) THEN DOMAIN got \ Accepted(got) ELSE (DOMAIN got \ Accepted(got)) \cup {m + 1}
  <2>1. \A i : i \in DOMAIN got2 \ Accepted(got2) <=> i \in DOMAIN got \ Accepted(got) \/ (i = m + 1 /\ ~Truthy(v))
    BY <1>1, <1>2
  <2> QED BY <2>1
<1>5. Firsts(got) = {i \in 1 .. m : new(got, i)} /\ Firsts(got2) = {i \in 1 .. m + 1 : new(got2, i)}
  BY DEF Firsts
<1>6. ASSUME NEW i \in 1 .. m
      PROVE  new(got2, i) <=> new(got, i)
  <2>1. \A j \in 1 .. i - 1 : j \in 1 .. m
    OBVIOUS
  <2> QED BY <2>1
<1>7. new(got2, m + 1) <=> v.val \notin Vals(got)
  <2>1. m + 1 - 1 = m
    OBVIOUS
  <2>2. new(got2, m + 1) <=> \A j \in 1 .. m : got[j].val # v.val
    BY <2>1
  <2> QED BY <2>2 DEF Vals
<1> HIDE DEF new, v
<1>8. Firsts(got2) = IF v.val \in Vals(got) THEN Firsts(got) ELSE Firsts(got) \cup {m + 1}
  <2>1. \A i : i \in Firsts(got2) <=> i \in Firsts(got) \/ (i = m + 1 /\ v.val \notin Vals(got))
    BY <1>1, <1>5, <1>6, <1>7
  <2> QED BY <2>1
<1>9. Vals(got2) = Vals(got) \cup {v.val}
  <2>1. /\ \A y : y \in Vals(got2) <=> \E i \in 1 .. m + 1 : y = got2[i].val
        /\ \A y : y \in Vals(got) <=> \E i \in 1 .. m : y = got[i].val
    BY DEF Vals
  <2>2. \A y : y \in Vals(got2) <=> y \in Vals(got) \/ y = v.val
    BY <1>1, <2>1 DEF v
  <2> QED BY <2>2
<1>10. Within(Accepted(got), m) /\ Within(DOMAIN got \ Accepted(got), m) /\ Within(Firsts(got), m)
  BY <1>2, <1>5 DEF Within
<1> QED BY <1>3, <1>4, <1>8, <1>9, <1>10 DEF v


(* What a block returns is noted in the frame: the fields one by one.      *)
LEMMA Noted ==
  ASSUME NEW f, NEW v, IsFrame(f), ~f.disturbed
  PROVE  LET c == Collect(f, v)
         IN  /\ c.calls = Append(f.calls, <<f.cur, v>>)
             /\ c.cur = f.cur /\ c.base = f.base
             /\ c.out = CASE f.op \in {"select", "partition"} /\ Truthy(v) -> Append(f.out, f.cur)
                          [] f.op = "reject" /\ ~Truthy(v) -> Append(f.out, f.cur)
                          [] f.op \in {"flat_map", "Range#flat_map"} -> f.out \o Contents(v)
                          [] f.op = "Range#map" -> Append(f.out, v)
                          [] f.op = "uniq" /\ IsNew(f, v) -> Append(f.out, f.cur)
                          [] OTHER -> f.out
             /\ c.rest = IF f.op = "partition" /\ ~Truthy(v) THEN Append(f.rest, f.cur) ELSE f.rest
             /\ c.keys = IF f.op \in {"uniq", "uniq!"} /\ IsNew(f, v) THEN Append(f.keys, v) ELSE f.keys
             /\ c.lo = IF f.op = "bsearch" /\ ~Truthy(v) THEN f.i ELSE f.lo
             /\ c.hi = IF f.op = "bsearch" /\ Truthy(v) THEN f.i ELSE f.hi
<1> DEFINE c == Collect(f, v)
<1>1. c.calls = Append(f.calls, <<f.cur, v>>) /\ c.cur = f.cur /\ c.base = f.base
  BY DEF IsFrame, Fields, Collect
<1>2. c.out = CASE f.op \in {"select", "partition"} /\ Truthy(v) -> Append(f.out, f.cur)
                [] f.op = "reject" /\ ~Truthy(v) -> Append(f.out, f.cur)
                [] f.op \in {"flat_map", "Range#flat_map"} -> f.out \o Contents(v)
                [] f.op = "Range#map" -> Append(f.out, v)
                [] f.op = "uniq" /\ IsNew(f, v) -> Append(f.out, f.cur)
                [] OTHER -> f.out
  BY DEF IsFrame, Fields, Collect
<1>3. c.rest = IF f.op = "partition" /\ ~Truthy(v) THEN Append(f.rest, f.cur) ELSE f.rest
  BY DEF IsFrame, Fields, Collect
<1>4. c.keys = IF f.op \in {"uniq", "uniq!"} /\ IsNew(f, v) THEN Append(f.keys, v) ELSE f.keys
  BY DEF IsFrame, Fields, Collect
<1>5. /\ c.lo = IF f.op = "bsearch" /\ ~Truthy(v) THEN f.i ELSE f.lo
      /\ c.hi = IF f.op = "bsearch" /\ Truthy(v) THEN f.i ELSE f.hi
  BY DEF IsFrame, Fields, Collect
<1> QED BY <1>1, <1>2, <1>3, <1>4, <1>5

(* The values of a sequence with one more.                                 *)
LEMMA ValsMore ==
  ASSUME NEW s, IsSeq(s), NEW x
  PROVE  Vals(Append(s, x)) = Vals(s) \cup {x.val}
<1> DEFINE t == Append(s, x)
<1>1. PICK m : m = Len(s)
  OBVIOUS
<1>2. /\ m \in Nat /\ DOMAIN s = 1 .. m /\ DOMAIN t = 1 .. m + 1 /\ t[m + 1] = x
      /\ Agree(t, s, m)
  <2>1. DOMAIN s = 1 .. m
    BY <1>1, Elements DEF IsSeq
  <2> QED BY <1>1, <2>1, Pushed DEF Agree
<1>3. PICK u : u = t
  OBVIOUS
<1>4. Vals(u) = Vals(s) \cup {u[m + 1].val}
  BY <1>2, <1>3, PositionsMore, ZenonT(60)
<1> QED BY <1>2, <1>3, <1>4

(* Arrays put together, one more at the end.                               *)
LEMMA PartsMore ==
  ASSUME NEW got, NEW got2, NEW m \in Nat, DOMAIN got = 1 .. m, DOMAIN got2 = 1 .. m + 1, Agree(got2, got, m),
         \A j \in 1 .. m : IsSeq(Contents(got[j])), IsSeq(Contents(got2[m + 1]))
  PROVE  FlattenSeq(Parts(got2)) = FlattenSeq(Parts(got)) \o Contents(got2[m + 1])
<1> DEFINE part(j) == Contents(got[j])
           x == Contents(got2[m + 1])
           S == (UNION {ToSet(part(j)) : j \in 1 .. m}) \cup ToSet(x)
           s == [j \in 1 .. m |-> part(j)]
           t == [j \in 1 .. m + 1 |-> Contents(got2[j])]
<1> USE DEF Agree
<1>1. Parts(got) = s /\ Parts(got2) = t
  BY DEF Parts
<1>2. x \in Seq(S)
  <2>1. x \in Seq(ToSet(x))
    BY DEF IsSeq
  <2>2. ToSet(x) \subseteq S
    OBVIOUS
  <2> HIDE DEF S, x
  <2> QED BY <2>1, <2>2
<1>3. \A j \in 1 .. m : part(j) \in Seq(S)
  <2> SUFFICES ASSUME NEW j \in 1 .. m PROVE part(j) \in Seq(S)
    OBVIOUS
  <2>1. part(j) \in Seq(ToSet(part(j)))
    BY DEF IsSeq
  <2>2. ToSet(part(j)) \subseteq S
    OBVIOUS
  <2> HIDE DEF S, part
  <2> QED BY <2>1, <2>2
<1>4. /\ t[m + 1] = x /\ t = [j \in 1 .. m + 1 |-> t[j]] /\ \A j \in 1 .. m : t[j] = s[j]
  OBVIOUS
<1> HIDE DEF S, part, x, t
<1>5. s \in Seq(Seq(S)) /\ Len(s) = m
  BY <1>3
<1> HIDE DEF s
<1>6. IsSeq(s) /\ IsSeq(t) /\ Len(t) = m + 1
  <2>1. m + 1 \in Nat
    OBVIOUS
  <2> QED BY <1>4, <1>5, <2>1, Elements, Listed
<1>7. t = Append(s, x)
  <2>1. PICK u : u = Append(s, x)
    OBVIOUS
  <2>2. IsSeq(u) /\ Len(u) = m + 1 /\ u[m + 1] = x /\ \A j \in 1 .. m : u[j] = s[j]
    BY <1>5, <1>6, <2>1, Pushed
  <2>3. \A j \in 1 .. m + 1 : j \in 1 .. m \/ j = m + 1
    OBVIOUS
  <2>4. \A j \in 1 .. m + 1 : t[j] = u[j]
    BY <1>4, <2>2, <2>3
  <2> QED BY <1>6, <2>1, <2>2, <2>4, EqualSeqs
<1>8. FlattenSeq(Append(s, x)) = FlattenSeq(s) \o x
  BY <1>2, <1>5, Flattening
<1> QED BY <1>1, <1>7, <1>8 DEF x

(* After the block has returned v the method has collected what belongs    *)
(* to one call more.                                                       *)
LEMMA CollectsMore ==
  ASSUME NEW f, NEW v, IsFrame(f), ~f.disturbed, IsSeq(f.calls), Collects(f),
         f.op \in {"flat_map", "Range#flat_map"} => IsSeq(Contents(v))
  PROVE  Collects(Collect(f, v))
<1> DEFINE c == Collect(f, v)
<1>1. PICK calls, m, got, got2, given, given2 :
        /\ calls = f.calls /\ m = Len(calls) /\ got = Got(calls) /\ got2 = Got(c.calls)
        /\ given = Given(calls) /\ given2 = Given(c.calls)
  OBVIOUS
<1>2. got2 = Got(Append(calls, <<f.cur, v>>)) /\ given2 = Given(Append(calls, <<f.cur, v>>)) /\ IsSeq(calls)
  BY <1>1, Noted
<1>3. /\ m \in Nat /\ DOMAIN got = 1 .. m /\ IsSeq(got) /\ Len(got) = m
      /\ DOMAIN got2 = 1 .. m + 1 /\ IsSeq(got2) /\ Len(got2) = m + 1 /\ got2[m + 1] = v
      /\ Agree(got2, got, m) /\ Agree(given2, given, m) /\ given2[m + 1] = f.cur
  BY <1>1, <1>2, CallsMore
<1>4. PICK yes, no, new : yes = Accepted(got) /\ no = DOMAIN got \ yes /\ new = Firsts(got)
  OBVIOUS
<1>5. /\ Within(yes, m) /\ Within(no, m) /\ Within(new, m)
      /\ Accepted(got2) = IF Truthy(v) THEN yes \cup {m + 1} ELSE yes
      /\ DOMAIN got2 \ Accepted(got2) = IF Truthy(v) THEN no ELSE no \cup {m + 1}
      /\ Firsts(got2) = IF v.val \in Vals(got) THEN new ELSE new \cup {m + 1}
      /\ Vals(got2) = Vals(got) \cup {v.val}
  <2>1. m \in Nat /\ DOMAIN got = 1 .. m /\ DOMAIN got2 = 1 .. m + 1 /\ Agree(got2, got, m) /\ got2[m + 1] = v
    BY <1>3
  <2>2. /\ Within(Accepted(got), m) /\ Within(DOMAIN got \ Accepted(got), m) /\ Within(Firsts(got), m)
        /\ Accepted(got2) = IF Truthy(v) THEN Accepted(got) \cup {m + 1} ELSE Accepted(got)
        /\ DOMAIN got2 \ Accepted(got2)
             = IF Truthy(v) THEN DOMAIN got \ Accepted(got) ELSE (DOMAIN got \ Accepted(got)) \cup {m + 1}
        /\ Firsts(got2) = IF v.val \in Vals(got) THEN Firsts(got) ELSE Firsts(got) \cup {m + 1}
        /\ Vals(got2) = Vals(got) \cup {v.val}
    BY <2>1, PositionsMore, ZenonT(60)
  <2> QED BY <1>4, <2>2
<1>6. ASSUME NEW S, Within(S, m)
      PROVE  /\ Chosen(given2, S) = Chosen(given, S)
             /\ Chosen(given2, S \cup {m + 1}) = Append(Chosen(given, S), f.cur)
  <2>1. PICK k : k = m + 1
    OBVIOUS
  <2>2. m \in Nat /\ Agree(given2, given, m) /\ given2[k] = f.cur
    BY <1>3, <2>1
  <2>3. Chosen(given2, S) = Chosen(given, S) /\ Chosen(given2, S \cup {k}) = Append(Chosen(given, S), given2[k])
    BY <1>6, <2>1, <2>2, ChosenMore
  <2> QED BY <2>1, <2>2, <2>3
<1>7. c.op = f.op
  BY Collected
<1>8. /\ c.out = CASE f.op \in {"select", "partition"} /\ Truthy(v) -> Append(f.out, f.cur)
                   [] f.op = "reject" /\ ~Truthy(v) -> Append(f.out, f.cur)
                   [] f.op \in {"flat_map", "Range#flat_map"} -> f.out \o Contents(v)
                   [] f.op = "Range#map" -> Append(f.out, v)
                   [] f.op = "uniq" /\ IsNew(f, v) -> Append(f.out, f.cur)
                   [] OTHER -> f.out
      /\ c.rest = IF f.op = "partition" /\ ~Truthy(v) THEN Append(f.rest, f.cur) ELSE f.rest
      /\ c.keys = IF f.op \in {"uniq", "uniq!"} /\ IsNew(f, v) THEN Append(f.keys, v) ELSE f.keys
  BY Noted
<1> HIDE DEF c
<1>9. f.op \in {"select", "partition"} => c.out = Chosen(given2, Accepted(got2))
  <2>1. f.op \in {"select", "partition"} => f.out = Chosen(given, yes)
    BY <1>1, <1>4 DEF Collects
  <2>2. f.op \in {"select", "partition"} => c.out = IF Truthy(v) THEN Append(f.out, f.cur) ELSE f.out
    BY <1>8
  <2> QED BY <1>5, <1>6, <2>1, <2>2
<1>10. f.op = "reject" => c.out = Chosen(given2, DOMAIN got2 \ Accepted(got2))
  <2>1. f.op = "reject" => f.out = Chosen(given, no)
    BY <1>1, <1>4 DEF Collects
  <2>2. f.op = "reject" => c.out = IF Truthy(v) THEN f.out ELSE Append(f.out, f.cur)
    BY <1>8
  <2> QED BY <1>5, <1>6, <2>1, <2>2
<1>11. f.op = "partition" => c.rest = Chosen(given2, DOMAIN got2 \ Accepted(got2))
  <2>1. f.op = "partition" => f.rest = Chosen(given, no)
    BY <1>1, <1>4 DEF Collects
  <2> QED BY <1>5, <1>6, <1>8, <2>1
<1>12. f.op = "Range#map" => c.out = got2
  <2> SUFFICES ASSUME f.op = "Range#map" PROVE c.out = got2
    OBVIOUS
  <2>1. f.out = got
    BY <1>1 DEF Collects
  <2>2. PICK u : u = Append(got, v)
    OBVIOUS
  <2>3. c.out = u
    BY <1>8, <2>1, <2>2
  <2>4. IsSeq(u) /\ Len(u) = m + 1 /\ u[m + 1] = v /\ \A j \in 1 .. m : u[j] = got[j]
    BY <1>3, <2>2, Pushed
  <2>5. \A j \in 1 .. m + 1 : j \in 1 .. m \/ j = m + 1
    BY <1>3
  <2>6. \A j \in 1 .. m + 1 : u[j] = got2[j]
    BY <1>3, <2>4, <2>5 DEF Agree
  <2>7. u = got2
    BY <1>3, <2>4, <2>6, EqualSeqs
  <2> QED BY <2>3, <2>7
<1>13. f.op \in {"flat_map", "Range#flat_map"} =>
         c.out = FlattenSeq(Parts(got2)) /\ \A k \in DOMAIN got2 : IsSeq(Contents(got2[k]))
  <2> SUFFICES ASSUME f.op \in {"flat_map", "Range#flat_map"}
               PROVE  c.out = FlattenSeq(Parts(got2)) /\ \A k \in DOMAIN got2 : IsSeq(Contents(got2[k]))
    OBVIOUS
  <2>1. f.out = FlattenSeq(Parts(got)) /\ \A k \in 1 .. m : IsSeq(Contents(got[k]))
    BY <1>1, <1>3 DEF Collects
  <2>2. c.out = f.out \o Contents(v)
    BY <1>8
  <2>3. FlattenSeq(Parts(got2)) = FlattenSeq(Parts(got)) \o Contents(got2[m + 1])
    BY <1>3, <2>1, PartsMore
  <2>4. \A j \in 1 .. m + 1 : j \in 1 .. m \/ j = m + 1
    BY <1>3
  <2>5. \A k \in 1 .. m + 1 : IsSeq(Contents(got2[k]))
    BY <1>3, <2>1, <2>4 DEF Agree
  <2> QED BY <1>3, <2>1, <2>2, <2>3, <2>5
<1>14. f.op \in {"uniq", "uniq!"} => IsSeq(f.keys) /\ Vals(f.keys) = Vals(got) /\ (IsNew(f, v) <=> v.val \notin Vals(got))
  BY <1>1, ZenonT(60) DEF Collects, IsNew, Vals
<1>15. f.op = "uniq" => c.out = Chosen(given2, Firsts(got2))
  <2>1. f.op = "uniq" => f.out = Chosen(given, new)
    BY <1>1, <1>4 DEF Collects
  <2>2. f.op = "uniq" => c.out = IF IsNew(f, v) THEN Append(f.out, f.cur) ELSE f.out
    BY <1>8
  <2> QED BY <1>5, <1>6, <1>14, <2>1, <2>2
<1>16. f.op \in {"uniq", "uniq!"} => IsSeq(c.keys) /\ Vals(c.keys) = Vals(got2)
  <2> SUFFICES ASSUME f.op \in {"uniq", "uniq!"}
               PROVE  IsSeq(c.keys) /\ Vals(c.keys) = Vals(got2)
    OBVIOUS
  <2>1. IsSeq(Append(f.keys, v)) /\ Vals(Append(f.keys, v)) = Vals(f.keys) \cup {v.val}
    BY <1>14, Pushed, ValsMore
  <2>2. c.keys = IF IsNew(f, v) THEN Append(f.keys, v) ELSE f.keys
    BY <1>8
  <2> QED BY <1>5, <1>14, <2>1, <2>2
<1>17. Collects(c)
  BY <1>1, <1>7, <1>9, <1>10, <1>11, <1>12, <1>13, <1>15, <1>16 DEF Collects
<1> QED BY <1>17 DEF c


(* The middle between the bounds of a binary search.                       *)
LEMMA Middle ==
  ASSUME NEW lo \in Int, NEW hi \in Int, lo =< hi
  PROVE  LET mid == lo + (hi - lo) \div 2
         IN  mid \in Int /\ lo =< mid /\ mid =< hi /\ (lo < hi => mid < hi) /\ (mid = lo => hi =< lo + 1)
<1>1. PICK d : d = (hi - lo) \div 2
  OBVIOUS
<1>2. d \in Int /\ 2 * d =< hi - lo /\ hi - lo < 2 * d + 2
  BY <1>1
<1> QED BY <1>1, <1>2

(* What was asked stays asked, and the last value was asked.               *)
LEMMA AskedMore ==
  ASSUME NEW calls, IsSeq(calls), NEW x, NEW v
  PROVE  /\ <<x, v>> \in ToSet(Append(calls, <<x, v>>))
         /\ \A y : y \in ToSet(calls) => y \in ToSet(Append(calls, <<x, v>>))
<1> DEFINE more == Append(calls, <<x, v>>)
<1>1. PICK m : m = Len(calls)
  OBVIOUS
<1>2. m \in Nat /\ DOMAIN calls = 1 .. m /\ DOMAIN more = 1 .. m + 1 /\ more[m + 1] = <<x, v>>
      /\ \A j \in 1 .. m : more[j] = calls[j]
  BY <1>1, Pushed, Elements DEF IsSeq
<1> HIDE DEF more
<1>3. m + 1 \in 1 .. m + 1 /\ \A j \in 1 .. m : j \in 1 .. m + 1
  BY <1>2
<1>4. <<x, v>> \in ToSet(more)
  BY <1>2, <1>3 DEF ToSet
<1>5. ASSUME NEW y \in ToSet(calls) PROVE y \in ToSet(more)
  <2>1. PICK j \in 1 .. m : y = calls[j]
    BY <1>2 DEF ToSet
  <2>2. j \in 1 .. m + 1 /\ y = more[j]
    BY <1>2, <1>3, <2>1
  <2> QED BY <1>2, <2>2 DEF ToSet
<1> QED BY <1>4, <1>5 DEF more

(* What binary_search does with the answer: the values on both sides of    *)
(* its bounds were asked for, and where it ends they are neighbours.       *)
LEMMA SearchStep ==
  ASSUME NEW f, NEW v \in {Yes, No}, IsFrame(f), ~f.disturbed, f.op = "bsearch", InOrder(f), Searching(f)
  PROVE  LET c == Collect(f, v)
             j == After(f, v)
         IN  /\ j # 0 => j \in 1 .. f.n /\ Searching([c EXCEPT !.i = j])
             /\ j = 0 => \/ c.hi = 0 /\ Asked(c, f.n, No)
                         \/ c.hi \in 1 .. f.n /\ Asked(c, c.hi, Yes) /\ (c.hi = 1 \/ Asked(c, c.hi - 1, No))
<1> DEFINE c == Collect(f, v)
           mid == c.lo + (c.hi - c.lo) \div 2
<1>1. PICK i, n, lo, hi : i = f.i /\ n = f.n /\ lo = f.lo /\ hi = f.hi
  OBVIOUS
<1>2. /\ n \in Nat /\ i \in 1 .. n /\ IsSeq(f.calls) /\ f.cur = f.start[i]
      /\ \/ lo = 0 /\ hi = 0 /\ i = 1
         \/ lo = 1 /\ hi = 0 /\ i = n /\ Asked(f, 1, No)
         \/ lo \in 1 .. n /\ hi \in 1 .. n /\ lo < i /\ i < hi /\ Asked(f, lo, No) /\ Asked(f, hi, Yes)
  BY <1>1 DEF InOrder, Searching, Between, Value, RangeOps
<1>3. /\ IsFrame(c) /\ c.op = "bsearch" /\ c.n = n /\ c.start = f.start /\ c.calls = Append(f.calls, <<f.cur, v>>)
      /\ c.lo = (IF Truthy(v) THEN lo ELSE i) /\ c.hi = (IF Truthy(v) THEN i ELSE hi)
  BY <1>1, Collected, Noted
<1>4. After(f, v) = CASE c.hi = 0 -> IF lo = 0 THEN n ELSE 0
                      [] mid = c.lo -> 0
                      [] OTHER -> mid
  BY <1>1 DEF After
<1>5. Truthy(v) <=> v = Yes
  BY DEF Truthy, Yes, No, Imm, Object
<1> HIDE DEF c
<1>6. Asked(c, i, v) /\ \A k, w : Asked(f, k, w) => Asked(c, k, w)
  BY <1>2, <1>3, AskedMore DEF Asked
<1>7. ASSUME NEW j \in 1 .. n, \/ c.lo = 1 /\ c.hi = 0 /\ j = n /\ Asked(c, 1, No)
                               \/ c.lo \in 1 .. n /\ c.hi \in 1 .. n /\ c.lo < j /\ j < c.hi
                                  /\ Asked(c, c.lo, No) /\ Asked(c, c.hi, Yes)
      PROVE  Searching([c EXCEPT !.i = j])
  <2> DEFINE d == [c EXCEPT !.i = j]
  <2>1. /\ d.op = "bsearch" /\ d.n = n /\ d.i = j /\ d.lo = c.lo /\ d.hi = c.hi
        /\ d.start = c.start /\ d.calls = c.calls
    BY <1>3 DEF IsFrame, Fields
  <2> HIDE DEF d
  <2>2. \A k, w : Asked(c, k, w) => Asked(d, k, w)
    BY <2>1 DEF Asked
  <2>3. Searching(d)
    BY <1>7, <2>1, <2>2 DEF Searching, Between
  <2> QED BY <2>3 DEF d
<1> DEFINE Ends == \/ c.hi = 0 /\ Asked(c, n, No)
                   \/ c.hi \in 1 .. n /\ Asked(c, c.hi, Yes) /\ (c.hi = 1 \/ Asked(c, c.hi - 1, No))
           Good(j) == (j # 0 => j \in 1 .. n /\ Searching([c EXCEPT !.i = j])) /\ (j = 0 => Ends)
<1>8. ASSUME NEW a \in 0 .. n, NEW b \in 1 .. n, a =< b, c.lo = a, c.hi = b,
             b = 1 \/ (1 =< a /\ a < b /\ Asked(c, a, No)), Asked(c, b, Yes)
      PROVE  Good(After(f, v))
  <2>1. PICK j : j = mid
    OBVIOUS
  <2>2. j \in Int /\ a =< j /\ (a < b => j < b) /\ j =< b /\ (j = a => b =< a + 1)
    <3>1. a \in Int /\ b \in Int
      BY <1>2
    <3> QED BY <1>8, <2>1, <3>1, Middle
  <2>3. After(f, v) = IF j = a THEN 0 ELSE j
    BY <1>2, <1>4, <1>8, <2>1
  <2> HIDE DEF mid
  <2>4. CASE j = a
    <3>1. b = 1 \/ b - 1 = a
      BY <1>2, <1>8, <2>2, <2>4
    <3>2. Ends
      BY <1>8, <3>1
    <3> QED BY <2>3, <2>4, <3>2
  <2>5. CASE j # a
    <3>1. 1 =< a /\ a < b /\ Asked(c, a, No) /\ a < j /\ j < b /\ j \in 1 .. n /\ a \in 1 .. n /\ j # 0
      BY <1>2, <1>8, <2>2, <2>5
    <3>2. Searching([c EXCEPT !.i = j])
      BY <1>7, <1>8, <3>1
    <3> QED BY <2>3, <2>5, <3>1, <3>2
  <2> QED BY <2>4, <2>5
<1> SUFFICES Good(After(f, v))
  BY <1>1 DEF c
<1> HIDE DEF Ends, mid
<1>9. CASE lo = 0 /\ hi = 0 /\ i = 1
  <2>1. CASE Truthy(v)
    <3>1. 0 \in 0 .. n /\ 1 \in 1 .. n /\ 0 =< 1 /\ c.lo = 0 /\ c.hi = 1 /\ Asked(c, 1, Yes)
      BY <1>2, <1>3, <1>5, <1>6, <1>9, <2>1
    <3> QED BY <1>8, <3>1
  <2>2. CASE ~Truthy(v)
    <3>1. c.lo = 1 /\ c.hi = 0 /\ Asked(c, 1, No) /\ n \in 1 .. n /\ n # 0
      BY <1>2, <1>3, <1>5, <1>6, <1>9, <2>2
    <3>2. After(f, v) = n
      <4>1. 0 + 1 # 0 /\ mid # c.lo
        <5>1. PICK k : k = 1
          OBVIOUS
        <5>2. PICK d : d = (0 - k) \div 2
          OBVIOUS
        <5>3. d \in Int /\ d # 0
          <6>1. k \in Int
            BY <5>1
          <6>2. 2 * d =< 0 - k /\ d \in Int
            BY <5>2, <6>1
          <6> QED BY <5>1, <6>2
        <5>4. mid = 1 + d
          BY <3>1, <5>1, <5>2 DEF mid
        <5> QED BY <3>1, <5>3, <5>4
      <4> QED BY <1>4, <1>9, <3>1, <4>1
    <3>3. Searching([c EXCEPT !.i = n])
      BY <1>7, <3>1
    <3> QED BY <3>1, <3>2, <3>3
  <2> QED BY <2>1, <2>2
<1>10. CASE lo = 1 /\ hi = 0 /\ i = n /\ Asked(f, 1, No)
  <2>1. CASE Truthy(v)
    <3>1. 1 \in 0 .. n /\ n \in 1 .. n /\ 1 =< n /\ c.lo = 1 /\ c.hi = n /\ Asked(c, n, Yes) /\ Asked(c, 1, No)
          /\ (n = 1 \/ 1 < n) /\ 1 =< 1
      BY <1>2, <1>3, <1>5, <1>6, <1>10, <2>1
    <3> QED BY <1>8, <3>1
  <2>2. CASE ~Truthy(v)
    <3>1. c.lo = n /\ c.hi = 0 /\ Asked(c, n, No) /\ 1 =< n
      BY <1>2, <1>3, <1>5, <1>6, <1>10, <2>2
    <3>2. After(f, v) = 0
      <4>1. mid # c.lo
        <5>1. PICK d : d = (0 - n) \div 2
          OBVIOUS
        <5>2. d \in Int /\ d # 0
          <6>1. 2 * d =< 0 - n /\ d \in Int
            BY <1>2, <5>1
          <6> QED BY <1>2, <3>1, <6>1
        <5>3. mid = n + d
          BY <3>1, <5>1 DEF mid
        <5> QED BY <1>2, <3>1, <5>2, <5>3
      <4> QED BY <1>4, <1>10, <3>1, <4>1
    <3>3. Ends
      BY <3>1 DEF Ends
    <3> QED BY <3>2, <3>3
  <2> QED BY <2>1, <2>2
<1>11. CASE lo \in 1 .. n /\ hi \in 1 .. n /\ lo < i /\ i < hi /\ Asked(f, lo, No) /\ Asked(f, hi, Yes)
  <2>1. CASE Truthy(v)
    <3>1. lo \in 0 .. n /\ lo =< i /\ c.lo = lo /\ c.hi = i /\ Asked(c, i, Yes) /\ Asked(c, lo, No) /\ 1 =< lo /\ lo < i
      BY <1>2, <1>3, <1>5, <1>6, <1>11, <2>1
    <3> QED BY <1>2, <1>8, <3>1
  <2>2. CASE ~Truthy(v)
    <3>1. i \in 0 .. n /\ i =< hi /\ c.lo = i /\ c.hi = hi /\ Asked(c, hi, Yes) /\ Asked(c, i, No) /\ 1 =< i /\ i < hi
      BY <1>2, <1>3, <1>5, <1>6, <1>11, <2>2
    <3> QED BY <1>8, <1>11, <3>1
  <2> QED BY <2>1, <2>2
<1> QED BY <1>2, <1>9, <1>10, <1>11


(* The values that retain keeps: one more if it was not met before.        *)
LEMMA StaysMore ==
  ASSUME NEW calls, IsSeq(calls), NEW x, NEW v
  PROVE  /\ IsSeq(Stays(calls))
         /\ Stays(Append(calls, <<x, v>>)) = IF v.val \in Vals(Got(calls)) THEN Stays(calls) ELSE Append(Stays(calls), x)
<1>1. PICK m, got, got2, given, given2 :
        /\ m = Len(calls) /\ got = Got(calls) /\ got2 = Got(Append(calls, <<x, v>>))
        /\ given = Given(calls) /\ given2 = Given(Append(calls, <<x, v>>))
  OBVIOUS
<1>2. /\ m \in Nat /\ DOMAIN got = 1 .. m /\ DOMAIN got2 = 1 .. m + 1 /\ got2[m + 1] = v
      /\ Agree(got2, got, m) /\ Agree(given2, given, m) /\ given2[m + 1] = x
  BY <1>1, CallsMore
<1>3. Within(Firsts(got), m)
      /\ Firsts(got2) = IF v.val \in Vals(got) THEN Firsts(got) ELSE Firsts(got) \cup {m + 1}
  <2>1. m \in Nat /\ DOMAIN got = 1 .. m /\ DOMAIN got2 = 1 .. m + 1 /\ Agree(got2, got, m) /\ got2[m + 1] = v
    BY <1>2
  <2>2. /\ Within(Accepted(got), m) /\ Within(DOMAIN got \ Accepted(got), m) /\ Within(Firsts(got), m)
        /\ Firsts(got2) = IF v.val \in Vals(got) THEN Firsts(got) ELSE Firsts(got) \cup {m + 1}
    BY <2>1, PositionsMore
  <2> QED BY <2>2
<1>4. PICK S : S = Firsts(got)
  OBVIOUS
<1>5. /\ IsSeq(Chosen(given, S)) /\ Chosen(given2, S) = Chosen(given, S)
      /\ Chosen(given2, S \cup {m + 1}) = Append(Chosen(given, S), x)
  <2>1. PICK k : k = m + 1
    OBVIOUS
  <2>2. m \in Nat /\ Agree(given2, given, m) /\ given2[k] = x /\ Within(S, m)
    BY <1>2, <1>3, <1>4, <2>1
  <2>3. /\ IsSeq(Chosen(given, S)) /\ Chosen(given2, S) = Chosen(given, S)
        /\ Chosen(given2, S \cup {k}) = Append(Chosen(given, S), given2[k])
    BY <2>1, <2>2, ChosenMore, SMTT(60)
  <2> QED BY <2>1, <2>2, <2>3
<1>6. /\ Stays(calls) = Chosen(given, S)
      /\ Stays(Append(calls, <<x, v>>)) = Chosen(given2, Firsts(got2))
  BY <1>1, <1>4 DEF Stays
<1> QED BY <1>1, <1>3, <1>4, <1>5, <1>6

(* The array after the block has returned v: retain has gone over one      *)
(* element more.                                                           *)
LEMMA PlaceMore ==
  ASSUME NEW f, NEW v, NEW memory, NEW n \in Nat, IsSeq(memory), n =< Len(memory), FrameOK(f, memory, n),
         ~f.disturbed, ~f.moved, InOrder(f), Collects(f), InPlace(f, f.i, memory, n)
  PROVE  InPlace(Collect(f, v), f.i + 1, Moved(f, v, memory), n)
<1> DEFINE c == Collect(f, v)
           new == Moved(f, v, memory)
<1>1. PICK calls, got, i, del, stays, stays2, start :
        /\ calls = f.calls /\ got = Got(calls) /\ i = f.i /\ del = f.del /\ start = f.start
        /\ stays = Stays(calls) /\ stays2 = Stays(c.calls)
  OBVIOUS
<1>2. IsFrame(f) /\ IsFrame(c) /\ c.op = f.op /\ c.n = f.n /\ c.start = start
      /\ c.del = (IF f.op # "uniq!" \/ IsNew(f, v) THEN del ELSE del + 1)
      /\ c.calls = Append(calls, <<f.cur, v>>)
  BY <1>1, Collected, Noted DEF FrameOK
<1>3. IsSeq(start) /\ Len(start) = n /\ f.n = IF f.op \in RangeOps THEN RangeLen ELSE n
  BY <1>1 DEF InPlace
<1>4. CASE f.op # "uniq!"
  <2>1. \A j \in 1 .. n : memory[j] = start[j]
    BY <1>1, <1>4 DEF InPlace
  <2>2. new = memory
    BY <1>4 DEF Moved
  <2> HIDE DEF new, c
  <2>3. InPlace(c, i + 1, new, n)
    BY <1>2, <1>3, <1>4, <2>1, <2>2 DEF InPlace
  <2> QED BY <1>1, <2>3 DEF c, new
<1>5. CASE f.op = "uniq!"
  <2>1. /\ i \in 1 .. n /\ del \in 0 .. i - 1 /\ f.n = n
    BY <1>1, <1>3, <1>5 DEF FrameOK, RetainOK, RangeOps
  <2>2. IsSeq(calls) /\ Len(calls) = i - 1 /\ f.cur = start[i]
    BY <1>1, <1>5 DEF InOrder, Value, RangeOps
  <2>3. Len(stays) = i - 1 - del /\ (\A j \in 1 .. Len(stays) : memory[j] = stays[j])
        /\ (\A j \in i .. n : memory[j] = start[j])
    BY <1>1, <1>5 DEF InPlace
  <2>9. IsSeq(stays) /\ stays2 = IF v.val \in Vals(got) THEN stays ELSE Append(stays, f.cur)
    <3>1. PICK x : x = f.cur
      OBVIOUS
    <3>2. IsSeq(Stays(calls))
          /\ Stays(Append(calls, <<x, v>>)) = IF v.val \in Vals(Got(calls)) THEN Stays(calls) ELSE Append(Stays(calls), x)
      BY <2>2, StaysMore
    <3> QED BY <1>1, <1>2, <3>1, <3>2
  <2>10. IsNew(f, v) <=> v.val \notin Vals(got)
    BY <1>1, <1>5 DEF Collects, IsNew, Vals
  <2>11. PICK k : k = Len(stays)
    OBVIOUS
  <2>12. k \in Nat /\ k = i - 1 - del /\ i - del = k + 1 /\ k + 1 \in 1 .. n /\ k + 1 =< i /\ i \in Nat /\ del \in Nat
    BY <2>1, <2>3, <2>11
  <2>13. DOMAIN memory = 1 .. Len(memory) /\ Len(memory) \in Nat
    BY Elements DEF IsSeq
  <2>14. new = IF IsNew(f, v) /\ del > 0 THEN [memory EXCEPT ![k + 1] = memory[i], ![i] = memory[k + 1]] ELSE memory
    BY <1>1, <1>5, <2>12 DEF Moved
  <2> HIDE DEF new, c
  <2>b. ASSUME Len(stays2) = (i + 1) - 1 - c.del, \A j \in 1 .. Len(stays2) : new[j] = stays2[j],
               \A j \in i + 1 .. n : new[j] = start[j]
        PROVE  InPlace(c, i + 1, new, n)
    <3>2. stays2 = Stays(c.calls) /\ c.op = "uniq!" /\ c.start = start /\ c.n = f.n /\ f.op = c.op
      BY <1>1, <1>2, <1>5
    <3>3. IsSeq(c.start) /\ Len(c.start) = n /\ c.n = IF c.op \in RangeOps THEN RangeLen ELSE n
      BY <1>3, <3>2
    <3>4. \A j \in i + 1 .. n : new[j] = c.start[j]
      BY <2>b, <3>2
    <3>6. /\ c.op # "uniq!" => \A j \in 1 .. n : new[j] = c.start[j]
          /\ c.op = "uniq!" =>
               /\ Len(Stays(c.calls)) = (i + 1) - 1 - c.del
               /\ \A j \in 1 .. Len(Stays(c.calls)) : new[j] = Stays(c.calls)[j]
               /\ \A j \in i + 1 .. n : new[j] = c.start[j]
      BY <2>b, <3>2, <3>4
    <3> QED BY <3>3, <3>6, Zenon DEF InPlace
  <2>15. InPlace(c, i + 1, new, n)
    <3>1. CASE IsNew(f, v)
      <4>1. stays2 = Append(stays, f.cur) /\ c.del = del
        BY <1>2, <1>5, <2>9, <2>10, <3>1
      <4>2. /\ Len(stays2) = k + 1 /\ stays2[k + 1] = f.cur /\ \A j \in 1 .. k : stays2[j] = stays[j]
        BY <2>9, <2>11, <4>1, Pushed
      <4>3. Len(stays2) = (i + 1) - 1 - c.del
        BY <2>12, <4>1, <4>2
      <4>4. k + 1 \in DOMAIN memory /\ i \in DOMAIN memory /\ memory[i] = f.cur
        <5>1. i \in i .. n
          BY <2>1, <2>12
        <5>2. memory[i] = start[i]
          BY <2>3, <5>1
        <5> QED BY <2>1, <2>2, <2>12, <2>13, <5>2
      <4>5. new[k + 1] = f.cur /\ \A j \in DOMAIN memory : j # k + 1 /\ j # i => new[j] = memory[j]
        <5>1. CASE del > 0
          BY <2>12, <2>14, <3>1, <4>4, <5>1
        <5>2. CASE ~(del > 0)
          <6>1. k + 1 = i
            BY <2>12, <5>2
          <6> QED BY <2>14, <4>4, <5>2, <6>1
        <5> QED BY <5>1, <5>2
      <4>6. \A j \in 1 .. k + 1 : new[j] = stays2[j]
        <5> TAKE j \in 1 .. k + 1
        <5>1. CASE j = k + 1
          BY <4>2, <4>5, <5>1
        <5>2. CASE j # k + 1
          <6>1. j \in 1 .. k /\ j # i /\ j \in DOMAIN memory
            BY <2>12, <2>1, <2>13, <5>2
          <6> QED BY <2>3, <2>11, <4>2, <4>5, <5>2, <6>1
        <5> QED BY <5>1, <5>2
      <4>7. \A j \in i + 1 .. n : new[j] = start[j]
        <5> TAKE j \in i + 1 .. n
        <5>1. j # k + 1 /\ j # i /\ j \in DOMAIN memory /\ j \in i .. n
          BY <2>1, <2>12, <2>13
        <5> QED BY <2>3, <4>5, <5>1
      <4> QED BY <2>b, <4>2, <4>3, <4>6, <4>7
    <3>2. CASE ~IsNew(f, v)
      <4>1. stays2 = stays /\ c.del = del + 1 /\ new = memory
        BY <1>2, <1>5, <2>9, <2>10, <2>14, <3>2
      <4>2. Len(stays2) = (i + 1) - 1 - c.del
        <5>1. Len(stays2) = k /\ k = i - 1 - del
          BY <2>11, <2>12, <4>1
        <5>2. (i + 1) - 1 - (del + 1) = i - 1 - del
          BY <2>12
        <5> QED BY <4>1, <5>1, <5>2
      <4>3. \A j \in i + 1 .. n : new[j] = start[j]
        <5> TAKE j \in i + 1 .. n
        <5>1. j \in i .. n
          BY <2>1, <2>12
        <5> QED BY <2>3, <4>1, <5>1
      <4> QED BY <2>b, <2>3, <4>1, <4>2, <4>3
    <3> QED BY <3>1, <3>2
  <2> QED BY <1>1, <2>15 DEF c, new
<1> QED BY <1>4, <1>5

(* What map keeps is put on temp_stack behind what it kept.                *)
LEMMA StackMore ==
  ASSUME NEW f, NEW v, IsFrame(f), ~f.disturbed, IsSeq(f.calls), NEW tmp, IsSeq(tmp), f.base \in Nat,
         OnStack(f, tmp, Len(tmp))
  PROVE  LET kept == tmp \o Kept(f, v)
         IN  OnStack(Collect(f, v), kept, Len(kept))
<1> DEFINE kept == tmp \o Kept(f, v)
           c == Collect(f, v)
<1>1. c.op = f.op
  BY Collected
<1>2. CASE f.op # "map"
  <2> HIDE DEF c
  <2>1. \A s, b : OnStack(c, s, b)
    BY <1>1, <1>2 DEF OnStack
  <2> QED BY <2>1 DEF c
<1>3. CASE f.op = "map"
  <2>1. c.base = f.base /\ c.calls = Append(f.calls, <<f.cur, v>>)
    BY Noted
  <2>2. PICK m, b, calls : m = Len(f.calls) /\ b = f.base /\ calls = f.calls
    OBVIOUS
  <2>a. PICK t : t = tmp \o <<v>>
    OBVIOUS
  <2>3. m \in Nat /\ Len(c.calls) = m + 1 /\ c.calls[m + 1] = <<f.cur, v>> /\ \A j \in 1 .. m : c.calls[j] = calls[j]
    BY <2>1, <2>2, Pushed
  <2>4. b \in Nat /\ Len(tmp) = b + 1 + m /\ \A j \in 1 .. m : tmp[b + 1 + j] = calls[j][2]
    BY <1>3, <2>2 DEF OnStack
  <2>5. Kept(f, v) = <<v>>
    BY <1>3 DEF Kept
  <2>6. Len(t) = Len(tmp) + 1 /\ t[Len(tmp) + 1] = v /\ \A j \in 1 .. Len(tmp) : t[j] = tmp[j]
    <3>1. tmp \in Seq(ToSet(tmp) \cup {v}) /\ <<v>> \in Seq(ToSet(tmp) \cup {v})
      BY DEF IsSeq
    <3>2. t = Append(tmp, v)
      BY <2>a, <3>1
    <3> QED BY <3>2, Pushed
  <2> HIDE DEF c
  <2>7. \A j \in 1 .. m + 1 : t[b + 1 + j] = c.calls[j][2]
    <3> TAKE j \in 1 .. m + 1
    <3>1. CASE j = m + 1
      <4>1. b + 1 + j = Len(tmp) + 1
        <5>1. b \in Nat /\ m \in Nat /\ j = m + 1 /\ Len(tmp) = b + 1 + m
          BY <2>3, <2>4, <3>1
        <5>2. b + 1 + (m + 1) = b + 1 + m + 1
          BY <5>1
        <5> QED BY <5>1, <5>2
      <4> QED BY <2>3, <2>6, <3>1, <4>1
    <3>2. CASE j # m + 1
      <4>1. PICK k : k = b + 1 + j
        OBVIOUS
      <4>2. j \in 1 .. m /\ k \in 1 .. Len(tmp)
        <5>1. j \in 1 .. m
          BY <2>3, <3>2
        <5>2. b + 1 + j \in 1 .. b + 1 + m
          BY <2>3, <2>4, <5>1
        <5> QED BY <2>4, <4>1, <5>1, <5>2
      <4> QED BY <2>3, <2>4, <2>6, <4>1, <4>2
    <3> QED BY <3>1, <3>2
  <2>8. Len(t) = b + 1 + (m + 1)
    BY <2>2, <2>3, <2>4, <2>6
  <2>9. OnStack(c, t, Len(t))
    BY <2>1, <2>2, <2>3, <2>7, <2>8 DEF OnStack
  <2> QED BY <2>a, <2>5, <2>9 DEF c
<1> QED BY <1>2, <1>3


(* The next value, where the method is not a binary search.                *)
LEMMA NextValue ==
  ASSUME NEW f, NEW v, f.op # "bsearch", f.n \in Nat, f.i \in 1 .. f.n
  PROVE  /\ After(f, v) # 0 => After(f, v) = f.i + 1 /\ f.i + 1 \in 1 .. f.n /\ ~Stops(f.op, v)
         /\ After(f, v) = 0 => f.i = f.n \/ Stops(f.op, v)
<1>1. CASE Stops(f.op, v)
  <2>1. After(f, v) = 0
    <3>1. CASE f.op = "all?" /\ ~Truthy(v)
      BY <3>1 DEF After
    <3>2. CASE f.op \in {"find", "find_index", "any?"} /\ Truthy(v)
      BY <3>2 DEF After
    <3> QED BY <1>1, <3>1, <3>2 DEF Stops
  <2> QED BY <1>1, <2>1
<1>2. CASE ~Stops(f.op, v)
  <2>1. After(f, v) = IF f.i < f.n THEN f.i + 1 ELSE 0
    BY <1>2 DEF After, Stops
  <2> QED BY <1>2, <2>1
<1> QED BY <1>1, <1>2

(* What a block of flat_map returns can be put together with arrays.       *)
LEMMA ResultParts ==
  ASSUME NEW f, NEW v \in Results(f.op, f.cur), NEW memory, NEW n \in Nat, n =< Len(memory), Len(memory) \in Nat,
         CellsOK(memory), InOrder(f), InPlace(f, f.i, memory, n), f.op \in {"flat_map", "Range#flat_map"}
  PROVE  IsSeq(Contents(v))
<1>1. ASSUME NEW x
      PROVE  IsSeq(<<x>>)
  <2>1. <<x>> \in Seq({x})
    OBVIOUS
  <2> QED BY <2>1, Elements
<1>2. IsSeq(Contents(f.cur))
  <2>1. CASE f.op = "Range#flat_map"
    <3>1. f.cur = Imm("a")
      BY <2>1 DEF InOrder, Value, RangeOps
    <3>2. Contents(f.cur) = <<f.cur>>
      BY <3>1 DEF Contents, Imm, Object
    <3> QED BY <1>1, <3>2
  <2>2. CASE f.op = "flat_map"
    <3>1. f.cur = f.start[f.i] /\ f.i \in 1 .. n /\ memory[f.i] = f.start[f.i]
      BY <2>2 DEF InOrder, Value, RangeOps, InPlace
    <3>2. f.i \in 1 .. Len(memory)
      BY <3>1
    <3> QED BY <3>1, <3>2 DEF CellsOK
  <2> QED BY <2>1, <2>2
<1>3. v = f.cur \/ \E a, b : v = Object(a, "array", <<Object(b, "a", <<>>)>>)
  BY DEF Results
<1>4. CASE v # f.cur
  <2>1. PICK a, b : v = Object(a, "array", <<Object(b, "a", <<>>)>>)
    BY <1>3, <1>4
  <2>2. PICK o : o = Object(b, "a", <<>>)
    OBVIOUS
  <2>3. Contents(v) = <<o>>
    BY <2>1, <2>2 DEF Object, Contents
  <2> QED BY <1>1, <2>3
<1> QED BY <1>2, <1>4

(* The work of a method after its block has returned v.                    *)
LEMMA WorkStep ==
  ASSUME NEW f, NEW v \in Results(f.op, f.cur), NEW memory, NEW n \in Nat, IsSeq(memory), n =< Len(memory),
         FrameOK(f, memory, n), CellsOK(memory), NEW tmp, IsSeq(tmp), f.base \in Nat,
         ~f.disturbed, f.op \in Ops, WorkOK(f, memory, n, tmp, Len(tmp))
  PROVE  LET c == Collect(f, v)
             kept == tmp \o Kept(f, v)
         IN  /\ ~f.moved /\ InOrder(f) /\ Searching(f)
             /\ Collects(c) /\ InPlace(c, f.i + 1, Moved(f, v, memory), n) /\ OnStack(c, kept, Len(kept))
             /\ IsSeq(c.calls) /\ Len(c.calls) = Len(f.calls) + 1 /\ Len(f.calls) \in Nat
             /\ c.calls[Len(f.calls) + 1] = <<f.cur, v>>
             /\ \A j \in 1 .. Len(f.calls) : c.calls[j] = f.calls[j]
<1>1. /\ ~f.moved
      /\ InOrder(f) /\ Searching(f) /\ Collects(f) /\ InPlace(f, f.i, memory, n) /\ OnStack(f, tmp, Len(tmp))
  BY DEF WorkOK
<1>2. IsFrame(f) /\ IsSeq(f.calls) /\ Len(memory) \in Nat
  BY <1>1, Elements DEF FrameOK, InOrder, IsSeq
<1>3. f.op \in {"flat_map", "Range#flat_map"} => IsSeq(Contents(v))
  BY <1>1, <1>2, ResultParts
<1>4. Collects(Collect(f, v))
  BY <1>1, <1>2, <1>3, CollectsMore
<1>5. InPlace(Collect(f, v), f.i + 1, Moved(f, v, memory), n)
  BY <1>1, PlaceMore
<1>6. OnStack(Collect(f, v), tmp \o Kept(f, v), Len(tmp \o Kept(f, v)))
  BY <1>1, <1>2, StackMore
<1>7. Collect(f, v).calls = Append(f.calls, <<f.cur, v>>)
  BY <1>2, Noted
<1>8. /\ IsSeq(Collect(f, v).calls) /\ Len(Collect(f, v).calls) = Len(f.calls) + 1 /\ Len(f.calls) \in Nat
      /\ Collect(f, v).calls[Len(f.calls) + 1] = <<f.cur, v>>
      /\ \A j \in 1 .. Len(f.calls) : Collect(f, v).calls[j] = f.calls[j]
  BY <1>2, <1>7, Pushed
<1> QED BY <1>1, <1>4, <1>5, <1>6, <1>8

(* Frames that differ in the position only.                                *)
Like(g, c) ==
    /\ g.op = c.op /\ g.n = c.n /\ g.out = c.out /\ g.rest = c.rest /\ g.keys = c.keys
    /\ g.del = c.del /\ g.base = c.base /\ g.calls = c.calls /\ g.start = c.start
    /\ g.disturbed = c.disturbed /\ g.moved = c.moved
LEMMA LikeWork ==
  ASSUME NEW g, NEW c, Like(g, c)
  PROVE  /\ Collects(c) => Collects(g)
         /\ \A i, memory, n : InPlace(c, i, memory, n) => InPlace(g, i, memory, n)
         /\ \A tmp, b : OnStack(c, tmp, b) => OnStack(g, tmp, b)
<1>1. Collects(c) => Collects(g)
  BY DEF Like, Collects
<1>2. \A i, memory, n : InPlace(c, i, memory, n) => InPlace(g, i, memory, n)
  BY DEF Like, InPlace
<1>3. \A tmp, b : OnStack(c, tmp, b) => OnStack(g, tmp, b)
  BY DEF Like, OnStack
<1> QED BY <1>1, <1>2, <1>3

(* The method goes on.                                                     *)
LEMMA NextWork ==
  ASSUME NEW f, NEW v \in Results(f.op, f.cur), NEW memory, NEW n \in Nat, IsSeq(memory), n =< Len(memory),
         FrameOK(f, memory, n), CellsOK(memory), NEW tmp, IsSeq(tmp), f.base \in Nat,
         WorkOK(f, memory, n, tmp, Len(tmp)), After(f, v) # 0
  PROVE  LET new == Moved(f, v, memory)
             d == [Collect(f, v) EXCEPT !.i = After(f, v)]
             kept == tmp \o Kept(f, v)
         IN  WorkOK([d EXCEPT !.cur = Element(d, new)], new, n, kept, Len(kept))
<1> DEFINE new == Moved(f, v, memory)
           c == Collect(f, v)
           d == [c EXCEPT !.i = After(f, v)]
           g == [d EXCEPT !.cur = Element(d, new)]
           kept == tmp \o Kept(f, v)
<1>1. IsFrame(f) /\ IsSeq(new) /\ Len(new) = Len(memory) /\ Len(memory) \in Nat
  BY MovedOK, Elements DEF FrameOK, IsSeq
<1>2. /\ IsFrame(c) /\ c.op = f.op /\ c.n = f.n /\ c.disturbed = f.disturbed /\ c.moved = f.moved /\ c.start = f.start
  BY <1>1, Collected
<1>3. ~f.disturbed /\ f.op \in Ops =>
        /\ ~f.moved /\ InOrder(f) /\ Searching(f)
        /\ Collects(c) /\ InPlace(c, f.i + 1, new, n) /\ OnStack(c, kept, Len(kept))
        /\ IsSeq(c.calls) /\ Len(c.calls) = Len(f.calls) + 1 /\ Len(f.calls) \in Nat
        /\ c.calls[Len(f.calls) + 1] = <<f.cur, v>>
        /\ \A j \in 1 .. Len(f.calls) : c.calls[j] = f.calls[j]
  BY WorkStep
<1>4. ~f.disturbed /\ f.op = "bsearch" => v \in {Yes, No} /\ (InOrder(f) /\ Searching(f) => After(f, v) \in 1 .. f.n /\ Searching(d))
  <2> SUFFICES ASSUME ~f.disturbed, f.op = "bsearch"
               PROVE  v \in {Yes, No} /\ (InOrder(f) /\ Searching(f) => After(f, v) \in 1 .. f.n /\ Searching(d))
    OBVIOUS
  <2>1. v \in {Yes, No}
    BY DEF Results
  <2> QED BY <1>1, <2>1, SearchStep
<1> HIDE DEF c, new, kept
<1>5. IsFrame(d) /\ Like(d, c) /\ d.i = After(f, v) /\ d.lo = c.lo /\ d.hi = c.hi
  BY <1>2 DEF IsFrame, Fields, Like
<1> HIDE DEF d
<1>6. IsFrame(g) /\ Like(g, c) /\ g.i = After(f, v) /\ g.lo = d.lo /\ g.hi = d.hi /\ g.cur = Element(d, new)
  BY <1>5 DEF IsFrame, Fields, Like
<1> HIDE DEF g
<1>7. WorkOK(g, new, n, kept, Len(kept))
  <2>1. CASE f.disturbed \/ f.op \notin Ops
    BY <1>2, <1>6, <2>1 DEF WorkOK, Like
  <2>2. CASE ~f.disturbed /\ f.op \in Ops
    <3>1. /\ ~f.moved /\ InOrder(f) /\ Searching(f)
          /\ Collects(c) /\ InPlace(c, f.i + 1, new, n) /\ OnStack(c, kept, Len(kept))
          /\ IsSeq(c.calls) /\ Len(c.calls) = Len(f.calls) + 1 /\ Len(f.calls) \in Nat
          /\ c.calls[Len(f.calls) + 1] = <<f.cur, v>>
          /\ \A j \in 1 .. Len(f.calls) : c.calls[j] = f.calls[j]
      BY <1>3, <2>2
    <3>2. /\ g.op = f.op /\ g.n = f.n /\ g.start = f.start /\ g.calls = c.calls /\ ~g.moved /\ d.op = f.op /\ ~d.moved
      BY <1>2, <1>5, <1>6, <3>1 DEF Like
    <3>3. f.n \in Nat /\ f.i \in 1 .. f.n /\ f.cur = Value(f, f.i)
      BY <3>1 DEF InOrder
    <3>4. f.op # "bsearch" => After(f, v) = f.i + 1 /\ f.i + 1 \in 1 .. f.n /\ ~Stops(f.op, v)
      BY <3>3, NextValue
    <3>5. After(f, v) \in 1 .. f.n
      BY <1>4, <2>2, <3>1, <3>4
    <3>6. Searching(g)
      <4>1. CASE f.op = "bsearch"
        <5>1. Searching(d)
          BY <1>4, <2>2, <3>1, <4>1
        <5> QED BY <1>5, <1>6, <5>1 DEF Searching, Between, Asked, Like
      <4>2. CASE f.op # "bsearch"
        BY <3>2, <4>2 DEF Searching
      <4> QED BY <4>1, <4>2
    <3>7. Collects(g) /\ OnStack(g, kept, Len(kept)) /\ InPlace(g, f.i + 1, new, n)
      BY <1>6, <3>1, LikeWork
    <3>8. InPlace(g, g.i, new, n)
      <4>1. CASE f.op = "uniq!"
        BY <1>6, <3>4, <3>7, <4>1
      <4>2. CASE f.op # "uniq!"
        BY <3>2, <3>7, <4>2 DEF InPlace
      <4> QED BY <4>1, <4>2
    <3>9. g.cur = Value(g, g.i)
      <4>1. CASE f.op \in RangeOps
        BY <1>6, <3>2, <4>1 DEF Element, Value
      <4>2. CASE f.op \notin RangeOps
        <5>1. PICK j : j = After(f, v)
          OBVIOUS
        <5>2. f.n = n
          BY <3>2, <3>7, <4>2 DEF InPlace
        <5>3. j \in 1 .. n /\ ~(j > Len(new))
          BY <1>1, <3>5, <5>1, <5>2
        <5>4. Element(d, new) = new[j]
          BY <1>5, <3>2, <4>2, <5>1, <5>3 DEF Element
        <5>5. new[j] = f.start[j]
          <6>1. CASE f.op = "uniq!"
            <7>1. j \in j .. n /\ g.i = j
              BY <1>6, <5>1, <5>3
            <7> QED BY <3>2, <3>8, <6>1, <7>1 DEF InPlace
          <6>2. CASE f.op # "uniq!"
            BY <3>2, <3>8, <5>3, <6>2 DEF InPlace
          <6> QED BY <6>1, <6>2
        <5> QED BY <1>6, <3>2, <4>2, <5>1, <5>4, <5>5 DEF Value
      <4> QED BY <4>1, <4>2
    <3>10. g.op # "bsearch" =>
             /\ Len(g.calls) = g.i - 1
             /\ \A j \in 1 .. Len(g.calls) : g.calls[j][1] = Value(g, j) /\ ~Stops(g.op, g.calls[j][2])
      <4> SUFFICES ASSUME f.op # "bsearch"
                   PROVE  /\ Len(c.calls) = g.i - 1
                          /\ \A j \in 1 .. Len(c.calls) : c.calls[j][1] = Value(g, j) /\ ~Stops(f.op, c.calls[j][2])
        BY <3>2
      <4>1. PICK m, i : m = Len(f.calls) /\ i = f.i
        OBVIOUS
      <4>2. m = i - 1 /\ \A j \in 1 .. m : f.calls[j][1] = Value(f, j) /\ ~Stops(f.op, f.calls[j][2])
        BY <3>1, <4>1 DEF InOrder
      <4>3. m \in Nat /\ i \in Nat /\ i = m + 1 /\ Len(c.calls) = m + 1 /\ g.i = i + 1 /\ c.calls[m + 1] = <<f.cur, v>>
            /\ f.cur = Value(f, i) /\ ~Stops(f.op, v) /\ \A j \in 1 .. m : c.calls[j] = f.calls[j]
        BY <1>6, <3>1, <3>3, <3>4, <4>1, <4>2, SMTT(60)
      <4>4. \A j : Value(g, j) = Value(f, j)
        BY <3>2 DEF Value
      <4>5. \A j \in 1 .. m + 1 : j \in 1 .. m \/ j = m + 1
        BY <4>3
      <4>6. \A j \in 1 .. m + 1 : c.calls[j][1] = Value(g, j) /\ ~Stops(f.op, c.calls[j][2])
        <5> TAKE j \in 1 .. m + 1
        <5>1. CASE j = m + 1
          BY <4>3, <4>4, <5>1
        <5>2. CASE j \in 1 .. m
          BY <4>2, <4>3, <4>4, <5>2
        <5> QED BY <4>5, <5>1, <5>2
      <4>7. m + 1 = g.i - 1
        BY <4>3
      <4> QED BY <4>3, <4>6, <4>7
    <3>11. InOrder(g)
      BY <1>6, <3>1, <3>2, <3>3, <3>5, <3>9, <3>10 DEF InOrder
    <3> QED BY <3>1, <3>2, <3>6, <3>7, <3>8, <3>11 DEF WorkOK
  <2> QED BY <2>1, <2>2
<1> QED BY <1>7 DEF g, d, c, new, kept

----------------------------------------------------------------------------
(* A method that ends: f is its frame, v the last value of its block, c    *)
(* the frame with v noted, memory and kept the array and temp_stack then.  *)
Ending(f, v, c, memory, n, kept) ==
    /\ n \in Nat /\ IsSeq(memory) /\ n =< Len(memory) /\ FrameOK(f, memory, n) /\ v \in Results(f.op, f.cur)
    /\ ~f.disturbed /\ ~f.moved /\ f.op \in Ops /\ InOrder(f) /\ Searching(f)
    /\ Collects(c) /\ InPlace(c, f.i + 1, memory, n) /\ OnStack(c, kept, Len(kept)) /\ IsSeq(kept)
    /\ c = Collect(f, v) /\ IsFrame(c) /\ c.op = f.op /\ c.n = f.n /\ c.i = f.i /\ c.start = f.start /\ c.cur = f.cur
    /\ c.base = f.base /\ c.base \in Nat /\ ~c.disturbed /\ ~c.moved
    /\ c.calls = Append(f.calls, <<f.cur, v>>)
    /\ c.del = IF f.op # "uniq!" \/ IsNew(f, v) THEN f.del ELSE f.del + 1
    /\ After(f, v) = 0

(* The calls of the block, and what they returned.                         *)
LEMMA EndingCalls ==
  ASSUME NEW f, NEW v, NEW c, NEW memory, NEW n, NEW kept, Ending(f, v, c, memory, n, kept)
  PROVE  LET m == Len(f.calls)
             got == Got(c.calls)
             given == Given(c.calls)
             got1 == Got(f.calls)
         IN  /\ m \in Nat /\ IsSeq(got) /\ Len(got) = m + 1 /\ DOMAIN got = 1 .. m + 1 /\ got[m + 1] = v
             /\ IsSeq(given) /\ Len(given) = m + 1 /\ given[m + 1] = f.cur
             /\ DOMAIN got1 = 1 .. m /\ Agree(got, got1, m) /\ Agree(given, Given(f.calls), m)
             /\ Len(c.calls) = m + 1 /\ \A j \in 1 .. m + 1 : c.calls[j][2] = got[j]
             /\ f.op # "bsearch" =>
                  /\ m + 1 = f.i /\ \A j \in 1 .. m + 1 : given[j] = Value(f, j)
                  /\ \A j \in 1 .. m : ~Stops(f.op, got[j])
<1>1. IsSeq(f.calls) /\ c.calls = Append(f.calls, <<f.cur, v>>) /\ f.n \in Nat /\ f.i \in 1 .. f.n /\ f.cur = Value(f, f.i)
      /\ (f.op # "bsearch" =>
            Len(f.calls) = f.i - 1
            /\ \A j \in 1 .. Len(f.calls) : f.calls[j][1] = Value(f, j) /\ ~Stops(f.op, f.calls[j][2]))
  BY DEF Ending, InOrder
<1>2. PICK m, got, given, got1, given1, x, calls :
        /\ m = Len(f.calls) /\ got = Got(c.calls) /\ given = Given(c.calls) /\ x = f.cur /\ calls = f.calls
        /\ got1 = Got(f.calls) /\ given1 = Given(f.calls)
  OBVIOUS
<1>3. /\ m \in Nat /\ IsSeq(c.calls) /\ Len(c.calls) = m + 1
      /\ IsSeq(got) /\ DOMAIN got = 1 .. m + 1 /\ Len(got) = m + 1 /\ got[m + 1] = v
      /\ IsSeq(given) /\ Len(given) = m + 1 /\ given[m + 1] = x
      /\ DOMAIN got1 = 1 .. m /\ Agree(got, got1, m) /\ Agree(given, given1, m)
      /\ \A j \in 1 .. m : got1[j] = calls[j][2] /\ given1[j] = calls[j][1]
  <2>1. IsSeq(calls) /\ m = Len(calls) /\ got1 = Got(calls) /\ given1 = Given(calls)
    BY <1>1, <1>2
  <2>2. PICK more : more = Append(calls, <<x, v>>)
    OBVIOUS
  <2>3. c.calls = more /\ got = Got(more) /\ given = Given(more)
    BY <1>1, <1>2, <2>2
  <2> QED BY <2>1, <2>2, <2>3, CallsMore
<1>4. \A j \in 1 .. m + 1 : c.calls[j][2] = got[j]
  <2>1. c.calls \in Seq(ToSet(c.calls)) /\ DOMAIN c.calls = 1 .. m + 1
    BY <1>3, Elements DEF IsSeq
  <2> QED BY <1>2, <2>1 DEF Got
<1>5. f.op # "bsearch" =>
        /\ m + 1 = f.i /\ \A j \in 1 .. m + 1 : given[j] = Value(f, j)
        /\ \A j \in 1 .. m : ~Stops(f.op, got[j])
  <2> SUFFICES ASSUME f.op # "bsearch"
               PROVE  /\ m + 1 = f.i /\ \A j \in 1 .. m + 1 : given[j] = Value(f, j)
                      /\ \A j \in 1 .. m : ~Stops(f.op, got[j])
    OBVIOUS
  <2>1. m + 1 = f.i
    <3>1. PICK i, k : i \in Nat /\ i = f.i /\ k = Len(f.calls)
      BY <1>1
    <3>2. k = i - 1
      BY <1>1, <3>1
    <3>3. k + 1 = i
      BY <3>1, <3>2
    <3> QED BY <1>2, <3>1, <3>3
  <2>2. \A j \in 1 .. m : given1[j] = Value(f, j) /\ ~Stops(f.op, got1[j])
    BY <1>1, <1>2, <1>3
  <2>3. \A j \in 1 .. m : given[j] = Value(f, j) /\ ~Stops(f.op, got[j])
    BY <1>3, <2>2 DEF Agree
  <2>4. \A j \in 1 .. m + 1 : j \in 1 .. m \/ j = m + 1
    BY <1>3
  <2>5. given[m + 1] = Value(f, m + 1)
    BY <1>1, <1>2, <1>3, <2>1
  <2> QED BY <2>1, <2>3, <2>4, <2>5
<1> QED BY <1>2, <1>3, <1>4, <1>5

(* The block was given the values in order, all of them unless its last    *)
(* value stops the method.                                                 *)
LEMMA EndingOrder ==
  ASSUME NEW f, NEW v, NEW c, NEW memory, NEW n, NEW kept, Ending(f, v, c, memory, n, kept), f.op # "bsearch"
  PROVE  LET got == Got(c.calls)
             given == Given(c.calls)
             values == IF f.op \in RangeOps THEN [i \in 1 .. RangeLen |-> Imm("a")] ELSE f.start
         IN  /\ IsPrefix(given, values)
             /\ \A i \in DOMAIN got : Stops(f.op, got[i]) => i = Len(got)
             /\ given = values \/ Stops(f.op, Last(got))
<1>1. PICK m, got, given :
        /\ m = Len(f.calls) /\ got = Got(c.calls) /\ given = Given(c.calls)
  OBVIOUS
<1>2. /\ m \in Nat /\ IsSeq(got) /\ Len(got) = m + 1 /\ DOMAIN got = 1 .. m + 1 /\ got[m + 1] = v
      /\ IsSeq(given) /\ Len(given) = m + 1
      /\ m + 1 = f.i /\ (\A j \in 1 .. m + 1 : given[j] = Value(f, j)) /\ (\A j \in 1 .. m : ~Stops(f.op, got[j]))
  BY <1>1, EndingCalls
<1>3. PICK values : values = IF f.op \in RangeOps THEN [i \in 1 .. RangeLen |-> Imm("a")] ELSE f.start
  OBVIOUS
<1>4. f.n \in Nat /\ f.i \in 1 .. f.n /\ IsSeq(f.start) /\ Len(f.start) = n /\ f.n = (IF f.op \in RangeOps THEN RangeLen ELSE n)
      /\ After(f, v) = 0
  BY DEF Ending, InOrder, InPlace
<1>5. IsSeq(values) /\ Len(values) = f.n /\ \A j \in 1 .. f.n : values[j] = Value(f, j)
  <2>1. CASE f.op \in RangeOps
    <3>1. values = [j \in 1 .. RangeLen |-> values[j]] /\ RangeLen \in Nat /\ f.n = RangeLen
      BY <1>3, <1>4, <2>1 DEF RangeLen
    <3>2. \A j \in 1 .. f.n : values[j] = Imm("a")
      BY <1>3, <2>1, <3>1
    <3>3. IsSeq(values) /\ Len(values) = RangeLen
      BY <3>1, Listed
    <3> QED BY <2>1, <3>1, <3>2, <3>3 DEF Value
  <2>2. CASE f.op \notin RangeOps
    BY <1>3, <1>4, <2>2 DEF Value
  <2> QED BY <2>1, <2>2
<1>6. PICK k : k = m + 1
  OBVIOUS
<1>7. k \in Nat /\ k =< f.n /\ \A j \in 1 .. k : given[j] = values[j]
  <2>1. k \in Nat /\ k =< f.n
    BY <1>2, <1>4, <1>6
  <2>2. \A j \in 1 .. k : j \in 1 .. f.n
    BY <1>4, <2>1
  <2> QED BY <1>2, <1>5, <1>6, <2>1, <2>2
<1>8. IsPrefix(given, values)
  <2>1. PICK s, t : s = SubSeq(given, 1, k) /\ t = SubSeq(values, 1, k)
    OBVIOUS
  <2>2. IsSeq(s) /\ Len(s) = k /\ \A j \in 1 .. k : s[j] = given[j]
    <3>1. k =< Len(given)
      BY <1>2, <1>6, <1>7
    <3> QED BY <1>2, <1>7, <2>1, <3>1, Prefix
  <2>3. IsSeq(t) /\ Len(t) = k /\ \A j \in 1 .. k : t[j] = values[j]
    <3>1. k =< Len(values)
      BY <1>5, <1>7
    <3> QED BY <1>5, <1>7, <2>1, <3>1, Prefix
  <2>4. s = t
    <3>1. \A j \in 1 .. k : s[j] = t[j]
      BY <1>7, <2>2, <2>3
    <3> QED BY <2>2, <2>3, <3>1, EqualSeqs
  <2>5. Len(given) = k /\ k =< Len(values)
    BY <1>2, <1>5, <1>6, <1>7
  <2> QED BY <2>1, <2>4, <2>5 DEF IsPrefix
<1>9. \A i \in DOMAIN got : Stops(f.op, got[i]) => i = Len(got)
  <2>1. \A i \in 1 .. m + 1 : i \in 1 .. m \/ i = m + 1
    BY <1>2
  <2> QED BY <1>2, <2>1
<1>10. given = values \/ Stops(f.op, Last(got))
  <2>1. f.i = f.n \/ Stops(f.op, v)
    BY <1>4, NextValue
  <2>2. Last(got) = v
    BY <1>2 DEF Last
  <2>3. f.i = f.n => given = values
    <3> SUFFICES ASSUME f.i = f.n PROVE given = values
      OBVIOUS
    <3>1. Len(given) = Len(values) /\ Len(given) = k
      BY <1>2, <1>5, <1>6
    <3> QED BY <1>2, <1>5, <1>7, <3>1, EqualSeqs
  <2> QED BY <2>1, <2>2, <2>3
<1> QED BY <1>1, <1>3, <1>8, <1>9, <1>10

(* The array is the one of the call; retain leaves what stays.             *)
LEMMA EndingArray ==
  ASSUME NEW f, NEW v, NEW c, NEW memory, NEW n, NEW kept, Ending(f, v, c, memory, n, kept), f.op # "bsearch",
         NEW cut, cut = IF c.del > 0 THEN IF f.n - c.del < n THEN f.n - c.del ELSE n ELSE n
  PROVE  SubSeq(memory, 1, cut) = IF f.op = "uniq!" THEN Stays(c.calls) ELSE f.start
<1>1. n \in Nat /\ IsSeq(memory) /\ n =< Len(memory) /\ FrameOK(f, memory, n) /\ ~f.disturbed /\ c.op = f.op
      /\ InPlace(c, f.i + 1, memory, n) /\ c.start = f.start
      /\ c.del = (IF f.op # "uniq!" \/ IsNew(f, v) THEN f.del ELSE f.del + 1)
  BY DEF Ending
<1>2. CASE f.op # "uniq!"
  <2>1. c.del = 0
    BY <1>1, <1>2 DEF FrameOK, RetainOK
  <2>2. cut = n
    BY <2>1
  <2>3. IsSeq(f.start) /\ Len(f.start) = n /\ \A j \in 1 .. n : memory[j] = f.start[j]
    BY <1>1, <1>2 DEF InPlace
  <2>4. PICK s, t : s = SubSeq(memory, 1, n) /\ t = f.start
    OBVIOUS
  <2>5. IsSeq(s) /\ Len(s) = n /\ \A j \in 1 .. n : s[j] = memory[j]
    BY <1>1, <2>4, Prefix
  <2>6. IsSeq(t) /\ Len(t) = n /\ \A j \in 1 .. n : s[j] = t[j]
    BY <2>3, <2>4, <2>5
  <2>7. s = t
    BY <2>5, <2>6, EqualSeqs
  <2> QED BY <1>2, <2>2, <2>4, <2>7
<1>3. CASE f.op = "uniq!"
  <2>1. f.n = n /\ f.i \in 1 .. n /\ f.del \in 0 .. f.i - 1
    BY <1>1, <1>3 DEF FrameOK, RetainOK
  <2>2. f.i = n
    <3>1. After(f, v) = 0 /\ f.i = f.n
      <4>1. After(f, v) = 0 /\ f.n \in Nat /\ ~Stops(f.op, v)
        BY <1>1, <1>3, <2>1 DEF Ending, Stops
      <4> QED BY <1>3, <2>1, <4>1, NextValue
    <3> QED BY <2>1, <3>1
  <2>3. PICK s : s = Stays(c.calls)
    OBVIOUS
  <2>4. Len(s) = f.i + 1 - 1 - c.del /\ \A j \in 1 .. Len(s) : memory[j] = s[j]
    <3>1. Len(s) = (f.i + 1) - 1 - c.del /\ \A j \in 1 .. Len(s) : memory[j] = s[j]
      BY <1>1, <1>3, <2>3 DEF InPlace
    <3>2. c.del \in Int
      BY <1>1, <2>1
    <3> QED BY <2>1, <3>1, <3>2
  <2>5. c.del \in Nat /\ c.del =< n /\ Len(s) = n - c.del
    <3>1. c.del \in Nat /\ c.del =< n
      BY <1>1, <2>1
    <3> QED BY <2>1, <2>2, <2>4, <3>1
  <2>6. cut = Len(s) /\ cut \in Nat /\ cut =< Len(memory)
    <3>1. Len(memory) \in Nat
      BY <1>1, Elements DEF IsSeq
    <3> QED BY <1>1, <2>1, <2>5, <3>1
  <2>7. IsSeq(s)
    <3>1. IsSeq(f.calls) /\ c.calls = Append(f.calls, <<f.cur, v>>)
      BY DEF Ending, InOrder
    <3>2. PICK calls, x : calls = f.calls /\ x = f.cur
      OBVIOUS
    <3>3. IsSeq(Append(calls, <<x, v>>))
      BY <3>1, <3>2, Pushed
    <3>4. PICK all : all = Append(calls, <<x, v>>)
      OBVIOUS
    <3>5. IsSeq(Stays(all))
      BY <3>3, <3>4, StaysMore
    <3> QED BY <2>3, <3>1, <3>2, <3>4, <3>5
  <2>8. PICK t : t = SubSeq(memory, 1, cut)
    OBVIOUS
  <2>9. IsSeq(t) /\ Len(t) = cut /\ \A j \in 1 .. cut : t[j] = memory[j]
    BY <1>1, <2>6, <2>8, Prefix
  <2>10. \A j \in 1 .. cut : t[j] = s[j]
    BY <2>4, <2>6, <2>9
  <2>11. t = s
    BY <2>6, <2>7, <2>9, <2>10, EqualSeqs
  <2> QED BY <1>3, <2>3, <2>8, <2>11
<1> QED BY <1>2, <1>3


(* Nothing is chosen where no position is.                                 *)
LEMMA ChosenNone ==
  ASSUME NEW g
  PROVE  Chosen(g, {}) = <<>>
<1>1. Cardinality({}) = 0
  BY FS_EmptySet
<1>2. Chosen(g, {}) = [j \in 1 .. 0 |-> g[CHOOSE i \in Ranked({}, j) : TRUE]]
  BY <1>1 DEF Chosen
<1>3. Within({}, 0) /\ Agree(g, g, 0) /\ 0 \in Nat
  BY DEF Within, Agree
<1>4. PICK k : k = 0 + 1
  OBVIOUS
<1>5. PICK s : s = Chosen(g, {})
  OBVIOUS
<1>6. IsSeq(s) /\ Len(s) = 0
  BY <1>1, <1>3, <1>4, <1>5, ChosenMore
<1>7. IsSeq(<<>>) /\ Len(<<>>) = 0
  BY NoRefs
<1>8. \A j \in 1 .. Len(s) : s[j] = <<>>[j]
  BY <1>6
<1>9. s = <<>>
  BY <1>6, <1>7, <1>8, EqualSeqs
<1> QED BY <1>5, <1>9

(* Where all values but the last let a search go on, the last decides.     *)
LEMMA EndingSearches ==
  ASSUME NEW f, NEW v, NEW c, NEW memory, NEW n, NEW kept, Ending(f, v, c, memory, n, kept), f.op # "bsearch"
  PROVE  LET got == Got(c.calls)
             given == Given(c.calls)
             yes == Accepted(got)
             no == DOMAIN got \ yes
         IN  /\ f.op \in {"find", "find_index", "any?"} =>
                  yes = (IF Truthy(v) THEN {Len(got)} ELSE {}) /\ Chosen(given, yes) = IF Truthy(v) THEN <<f.cur>> ELSE <<>>
             /\ f.op = "all?" => no = IF Truthy(v) THEN {} ELSE {Len(got)}
             /\ Last(got) = v /\ Len(got) = f.i
<1>1. PICK m, got, given, given1, got1, x :
        /\ m = Len(f.calls) /\ got = Got(c.calls) /\ given = Given(c.calls) /\ x = f.cur
        /\ got1 = Got(f.calls) /\ given1 = Given(f.calls)
  OBVIOUS
<1>2. /\ m \in Nat /\ IsSeq(got) /\ Len(got) = m + 1 /\ DOMAIN got = 1 .. m + 1 /\ got[m + 1] = v
      /\ m + 1 = f.i /\ (\A j \in 1 .. m : ~Stops(f.op, got[j]))
      /\ given[m + 1] = x /\ Agree(given, given1, m)
  BY <1>1, EndingCalls
<1>3. \A j \in 1 .. m + 1 : j \in 1 .. m \/ j = m + 1
  BY <1>2
<1>4. m + 1 \in 1 .. m + 1 /\ \A j \in 1 .. m : j # m + 1
  BY <1>2
<1>5. f.op \in {"find", "find_index", "any?"} => Accepted(got) = IF Truthy(v) THEN {m + 1} ELSE {}
  <2> SUFFICES ASSUME f.op \in {"find", "find_index", "any?"}
               PROVE  \A j : j \in Accepted(got) <=> j = m + 1 /\ Truthy(v)
    <3>1. (\A j : j \in Accepted(got) <=> j = m + 1 /\ Truthy(v)) => Accepted(got) = IF Truthy(v) THEN {m + 1} ELSE {}
      OBVIOUS
    <3> QED BY <3>1
  <2>1. \A j \in 1 .. m : ~Truthy(got[j])
    BY <1>2 DEF Stops
  <2> QED BY <1>2, <1>3, <1>4, <2>1 DEF Accepted
<1>6. f.op = "all?" => DOMAIN got \ Accepted(got) = IF Truthy(v) THEN {} ELSE {m + 1}
  <2> SUFFICES ASSUME f.op = "all?"
               PROVE  \A j : j \in DOMAIN got \ Accepted(got) <=> j = m + 1 /\ ~Truthy(v)
    <3>1. (\A j : j \in DOMAIN got \ Accepted(got) <=> j = m + 1 /\ ~Truthy(v))
            => DOMAIN got \ Accepted(got) = IF Truthy(v) THEN {} ELSE {m + 1}
      OBVIOUS
    <3> QED BY <3>1
  <2>1. \A j \in 1 .. m : Truthy(got[j])
    BY <1>2 DEF Stops
  <2> QED BY <1>2, <1>3, <1>4, <2>1 DEF Accepted
<1>7. Chosen(given, {}) = <<>> /\ Chosen(given, {m + 1}) = <<x>>
  <2>1. PICK k, S, none : k = m + 1 /\ S = {} /\ none = <<>>
    OBVIOUS
  <2>2. Chosen(given1, S) = none /\ Chosen(given, S) = none
    BY <2>1, ChosenNone
  <2>3. m \in Nat /\ Within(S, m) /\ Agree(given, given1, m)
    BY <1>2, <2>1 DEF Within
  <2>4. Chosen(given, S \cup {k}) = Append(Chosen(given1, S), given[k])
    BY <2>1, <2>3, ChosenMore
  <2>5. given[k] = x /\ S \cup {k} = {m + 1} /\ Append(<<>>, x) = <<x>>
    BY <1>2, <2>1
  <2> QED BY <2>1, <2>2, <2>4, <2>5
<1>8. Last(got) = v
  BY <1>2 DEF Last
<1> QED BY <1>1, <1>2, <1>5, <1>6, <1>7, <1>8

(* It returns what Ruby says.                                              *)
LEMMA EndingResult ==
  ASSUME NEW f, NEW v, NEW c, NEW memory, NEW n, NEW kept, Ending(f, v, c, memory, n, kept), f.op # "bsearch"
  PROVE  Returned(c, v, memory, kept) = Wanted(f.op, Given(c.calls), Got(c.calls))
<1>1. PICK got, given, yes, no, res :
        /\ got = Got(c.calls) /\ given = Given(c.calls) /\ yes = Accepted(got) /\ no = DOMAIN got \ yes
        /\ res = Returned(c, v, memory, kept)
  OBVIOUS
<1>2. c.op = f.op /\ f.op \in Ops /\ Collects(c) /\ OnStack(c, kept, Len(kept)) /\ IsSeq(kept) /\ c.base \in Nat
      /\ c.cur = f.cur /\ c.i = f.i
  BY DEF Ending
<1>3. CASE f.op \in {"select", "reject", "uniq"}
  <2>1. res = c.out
    BY <1>1, <1>2, <1>3 DEF Returned
  <2>2. /\ f.op = "select" => c.out = Chosen(given, yes)
        /\ f.op = "reject" => c.out = Chosen(given, no)
        /\ f.op = "uniq" => c.out = Chosen(given, Firsts(got))
    BY <1>1, <1>2 DEF Collects
  <2>3. Wanted(f.op, given, got) = c.out
    BY <1>1, <1>3, <2>2 DEF Wanted
  <2> QED BY <1>1, <2>1, <2>3
<1>4. CASE f.op \in {"flat_map", "Range#flat_map"}
  <2>1. res = c.out
    BY <1>1, <1>2, <1>4 DEF Returned
  <2>2. c.out = FlattenSeq(Parts(got))
    BY <1>1, <1>2, <1>4 DEF Collects
  <2>3. Wanted(f.op, given, got) = FlattenSeq(Parts(got))
    BY <1>4 DEF Wanted, Parts
  <2> QED BY <1>1, <2>1, <2>2, <2>3
<1>5. CASE f.op = "Range#map"
  <2>1. res = c.out
    BY <1>1, <1>2, <1>5 DEF Returned
  <2>2. c.out = got
    BY <1>1, <1>2, <1>5 DEF Collects
  <2>3. Wanted(f.op, given, got) = got
    BY <1>5 DEF Wanted
  <2> QED BY <1>1, <2>1, <2>2, <2>3
<1>6. CASE f.op = "partition"
  <2>1. res = c.out \o <<Receiver>> \o c.rest
    BY <1>1, <1>2, <1>6 DEF Returned
  <2>2. c.out = Chosen(given, yes) /\ c.rest = Chosen(given, no)
    BY <1>1, <1>2, <1>6 DEF Collects
  <2>3. Wanted(f.op, given, got) = Chosen(given, yes) \o <<Receiver>> \o Chosen(given, no)
    BY <1>1, <1>6 DEF Wanted
  <2> QED BY <1>1, <2>1, <2>2, <2>3
<1>7. CASE f.op = "map"
  <2>1. res = SubSeq(kept, c.base + 2, Len(kept))
    BY <1>1, <1>2, <1>7 DEF Returned
  <2>2. Wanted(f.op, given, got) = got
    BY <1>7 DEF Wanted
  <2>3. PICK k, b, l : k = Len(f.calls) + 1 /\ b = c.base /\ l = Len(kept)
    OBVIOUS
  <2>4. IsSeq(got) /\ Len(got) = k /\ k \in Nat /\ Len(c.calls) = k /\ \A j \in 1 .. k : c.calls[j][2] = got[j]
    <3>1. PICK m : m = Len(f.calls)
      OBVIOUS
    <3>2. m \in Nat /\ IsSeq(got) /\ Len(got) = m + 1 /\ Len(c.calls) = m + 1
          /\ \A j \in 1 .. m + 1 : c.calls[j][2] = got[j]
      BY <1>1, <3>1, EndingCalls
    <3> QED BY <2>3, <3>1, <3>2
  <2>5. b \in Nat /\ l = b + 1 + k /\ \A j \in 1 .. k : kept[b + 1 + j] = got[j]
    BY <1>2, <1>7, <2>3, <2>4 DEF OnStack
  <2>6. IsSeq(res) /\ Len(res) = k /\ \A j \in 1 .. k : res[j] = got[j]
    <3>1. kept \in Seq(ToSet(kept)) /\ DOMAIN kept = 1 .. l
      BY <1>2, <2>3, Elements DEF IsSeq
    <3>2. \A j \in b + 2 .. l : kept[j] \in ToSet(kept)
      BY <2>5, <3>1
    <3>3. b + 2 \in Int /\ l \in Int /\ res = SubSeq(kept, b + 2, l)
      BY <2>1, <2>3, <2>5
    <3>4. /\ res \in Seq(ToSet(kept))
          /\ Len(res) = IF b + 2 =< l THEN l - (b + 2) + 1 ELSE 0
          /\ \A j \in 1 .. l - (b + 2) + 1 : res[j] = kept[b + 2 + j - 1]
      BY <3>2, <3>3, SubSeqProperties
    <3>5. l - (b + 2) + 1 = k
      BY <2>4, <2>5
    <3>6. Len(res) = k
      BY <2>4, <2>5, <3>4, <3>5
    <3>7. \A j \in 1 .. k : res[j] = kept[b + 1 + j]
      <4> TAKE j \in 1 .. k
      <4>1. b + 2 + j - 1 = b + 1 + j
        BY <2>4, <2>5
      <4> QED BY <3>4, <3>5, <4>1
    <3>8. IsSeq(res)
      BY <3>4, Elements
    <3> QED BY <2>5, <3>6, <3>7, <3>8
  <2>7. res = got
    BY <2>4, <2>6, EqualSeqs
  <2> QED BY <1>1, <2>2, <2>7
<1>8. CASE f.op \in {"find", "find_index", "any?", "all?", "inject"}
  <2>1. /\ f.op \in {"find", "find_index", "any?"} =>
             yes = (IF Truthy(v) THEN {Len(got)} ELSE {}) /\ Chosen(given, yes) = IF Truthy(v) THEN <<f.cur>> ELSE <<>>
        /\ f.op = "all?" => no = IF Truthy(v) THEN {} ELSE {Len(got)}
        /\ Last(got) = v /\ Len(got) = f.i
    BY <1>1, <1>8, EndingSearches
  <2>2. CASE f.op = "find"
    BY <1>1, <1>2, <2>1, <2>2 DEF Returned, Wanted
  <2>3. CASE f.op = "find_index"
    <3>1. res = IF Truthy(v) THEN <<f.i>> ELSE <<>>
      BY <1>1, <1>2, <2>3 DEF Returned
    <3>2. Wanted(f.op, given, got) = IF yes = {} THEN <<>> ELSE <<Len(got)>>
      BY <1>1, <2>3 DEF Wanted
    <3> QED BY <1>1, <2>1, <2>3, <3>1, <3>2
  <2>4. CASE f.op = "any?"
    <3>1. res = <<Truthy(v)>>
      BY <1>1, <1>2, <2>4 DEF Returned
    <3>2. Wanted(f.op, given, got) = <<yes # {}>>
      BY <1>1, <2>4 DEF Wanted
    <3>3. (yes # {}) = Truthy(v)
      BY <2>1, <2>4 DEF Truthy
    <3> QED BY <1>1, <3>1, <3>2, <3>3
  <2>5. CASE f.op = "all?"
    <3>1. res = <<Truthy(v)>>
      BY <1>1, <1>2, <2>5 DEF Returned
    <3>2. Wanted(f.op, given, got) = <<no = {}>>
      BY <1>1, <2>5 DEF Wanted
    <3>3. (no = {}) = Truthy(v)
      BY <2>1, <2>5 DEF Truthy
    <3> QED BY <1>1, <3>1, <3>2, <3>3
  <2>6. CASE f.op = "inject"
    BY <1>1, <1>2, <2>1, <2>6 DEF Returned, Wanted
  <2> QED BY <1>8, <2>2, <2>3, <2>4, <2>5, <2>6
<1>9. CASE f.op \in {"each", "uniq!"}
  <2>1. res = <<Receiver>>
    BY <1>1, <1>2, <1>9 DEF Returned
  <2>2. Wanted(f.op, given, got) = <<Receiver>>
    BY <1>9 DEF Wanted
  <2> QED BY <1>1, <2>1, <2>2
<1> QED BY <1>2, <1>3, <1>4, <1>5, <1>6, <1>7, <1>8, <1>9 DEF Ops, ArrayOps, RangeOps


(* What the method that ends leaves is what Ruby says.                     *)
LEMMA EndingRight ==
  ASSUME NEW f, NEW v, NEW c, NEW memory, NEW n, NEW kept, Ending(f, v, c, memory, n, kept),
         NEW cut, cut = IF c.del > 0 THEN IF f.n - c.del < n THEN f.n - c.del ELSE n ELSE n,
         NEW call, call.op = f.op, call.calls = c.calls, call.start = f.start,
         call.result = Returned(c, v, memory, kept), call.array = SubSeq(memory, 1, cut)
  PROVE  AsRuby(call)
<1>1. CASE f.op # "bsearch"
  <2>1. call.array = IF f.op = "uniq!" THEN Stays(c.calls) ELSE f.start
    BY <1>1, EndingArray
  <2>2. call.result = Wanted(f.op, Given(c.calls), Got(c.calls))
    BY <1>1, EndingResult
  <2>3. LET got == Got(c.calls)
            given == Given(c.calls)
            values == IF f.op \in RangeOps THEN [i \in 1 .. RangeLen |-> Imm("a")] ELSE f.start
        IN  /\ IsPrefix(given, values)
            /\ \A i \in DOMAIN got : Stops(f.op, got[i]) => i = Len(got)
            /\ given = values \/ Stops(f.op, Last(got))
    BY <1>1, EndingOrder
  <2>4. PICK got, given, values : /\ got = Got(c.calls) /\ given = Given(c.calls)
                                  /\ values = IF f.op \in RangeOps THEN [i \in 1 .. RangeLen |-> Imm("a")] ELSE f.start
    OBVIOUS
  <2>5. /\ IsPrefix(given, values)
        /\ \A i \in DOMAIN got : Stops(call.op, got[i]) => i = Len(got)
        /\ given = values \/ Stops(call.op, Last(got))
    BY <2>3, <2>4
  <2>6. call.result = Wanted(call.op, given, got)
    BY <2>2, <2>4
  <2>7. call.array = IF call.op = "uniq!" THEN Chosen(given, Firsts(got)) ELSE call.start
    BY <2>1, <2>4 DEF Stays
  <2> QED BY <1>1, <2>4, <2>5, <2>6, <2>7 DEF AsRuby
<1>2. CASE f.op = "bsearch"
  <2>1. /\ v \in {Yes, No} /\ IsFrame(f) /\ ~f.disturbed /\ InOrder(f) /\ Searching(f) /\ After(f, v) = 0
        /\ c = Collect(f, v) /\ c.op = f.op /\ c.start = f.start /\ ~c.moved /\ IsFrame(c) /\ c.n = f.n
        /\ InPlace(c, f.i + 1, memory, n) /\ n \in Nat /\ IsSeq(memory) /\ n =< Len(memory)
    BY <1>2 DEF Ending, FrameOK, Results
  <2>2. f.n = n /\ Len(f.start) = n /\ \A j \in 1 .. n : memory[j] = f.start[j]
    BY <1>2, <2>1 DEF InPlace, RangeOps
  <2>3. \/ c.hi = 0 /\ Asked(c, f.n, No)
        \/ c.hi \in 1 .. f.n /\ Asked(c, c.hi, Yes) /\ (c.hi = 1 \/ Asked(c, c.hi - 1, No))
    BY <1>2, <2>1, SearchStep
  <2>4. \A k, w : Asked(c, k, w) <=> Asked(call, k, w)
    BY <2>1 DEF Asked
  <2>5. call.result = IF c.hi = 0 THEN <<>> ELSE <<Element([c EXCEPT !.i = c.hi], memory)>>
    BY <1>2, <2>1 DEF Returned
  <2>6. CASE c.hi = 0 /\ Asked(c, f.n, No)
    BY <1>2, <2>2, <2>4, <2>5, <2>6 DEF AsRuby
  <2>7. CASE c.hi \in 1 .. f.n /\ Asked(c, c.hi, Yes) /\ (c.hi = 1 \/ Asked(c, c.hi - 1, No))
    <3>1. PICK h : h = c.hi
      OBVIOUS
    <3>2. Len(memory) \in Nat
      BY <2>1, Elements DEF IsSeq
    <3>3. h \in 1 .. n /\ h # 0 /\ ~(h > Len(memory))
      BY <2>1, <2>2, <2>7, <3>1, <3>2
    <3>4. [c EXCEPT !.i = h].i = h /\ [c EXCEPT !.i = h].op = "bsearch" /\ ~[c EXCEPT !.i = h].moved
      BY <1>2, <2>1 DEF IsFrame, Fields
    <3>5. Element([c EXCEPT !.i = h], memory) = memory[h]
      BY <3>3, <3>4 DEF Element, RangeOps
    <3>6. call.result = <<call.start[h]>>
      BY <2>2, <2>5, <3>1, <3>3, <3>5
    <3>7. h \in 1 .. Len(call.start) /\ Asked(call, h, Yes) /\ (h = 1 \/ Asked(call, h - 1, No))
      BY <2>2, <2>4, <2>7, <3>1, <3>3
    <3> QED BY <1>2, <3>6, <3>7 DEF AsRuby
  <2> QED BY <2>3, <2>6, <2>7
<1> QED BY <1>1, <1>2

(* A swap of retain keeps what can be put together.                        *)
LEMMA CellsMoved ==
  ASSUME NEW f, NEW v, NEW memory, NEW n \in Nat, IsSeq(memory), n =< Len(memory), FrameOK(f, memory, n), CellsOK(memory)
  PROVE  CellsOK(Moved(f, v, memory))
<1>1. CASE f.op = "uniq!" /\ ~f.moved /\ IsNew(f, v) /\ f.del > 0
  <2>1. PICK a, b, new : a = f.i - f.del /\ b = f.i /\ new = Moved(f, v, memory)
    OBVIOUS
  <2>2. Len(memory) \in Nat /\ DOMAIN memory = 1 .. Len(memory)
    BY Elements DEF IsSeq
  <2>3. a \in 1 .. Len(memory) /\ b \in 1 .. Len(memory)
    BY <1>1, <2>1, <2>2 DEF FrameOK, RetainOK
  <2>4. new = [memory EXCEPT ![a] = memory[b], ![b] = memory[a]]
    BY <1>1, <2>1 DEF Moved
  <2>5. Len(new) = Len(memory)
    BY <2>1, MovedOK
  <2>6. \A j \in 1 .. Len(memory) : new[j] = memory[j] \/ new[j] = memory[a] \/ new[j] = memory[b]
    BY <2>2, <2>3, <2>4
  <2>7. CellsOK(new)
    BY <2>3, <2>5, <2>6 DEF CellsOK
  <2> QED BY <2>1, <2>7
<1>2. CASE ~(f.op = "uniq!" /\ ~f.moved /\ IsNew(f, v) /\ f.del > 0)
  BY <1>2 DEF Moved
<1> QED BY <1>1, <1>2

(* The methods around one that ends, or goes on: those that found the      *)
(* array changed have nothing to show, the others what they had.           *)
LEMMA WorksOutside ==
  ASSUME NEW fs, NEW tmp, NEW b, NEW memory, NEW n, IsSeq(fs), IsSeq(tmp), RootsOK(fs, tmp, b, memory, n),
         WorksOK(fs, tmp, b, memory, n),
         NEW m \in 0 .. Len(fs), NEW gs, Len(gs) = m, NEW kept, NEW new, NEW l,
         \A k \in 1 .. Limit(fs, b, m) : kept[k] = tmp[k],
         \A k \in 1 .. m : gs[k].base = fs[k].base /\ (gs[k].disturbed \/ (gs[k] = fs[k] /\ new = memory /\ l = n))
  PROVE  WorksOK(gs, kept, Limit(fs, b, m), new, l)
<1>1. PICK c : c = Limit(fs, b, m)
  OBVIOUS
<1>2. c \in Nat /\ (\A k \in 1 .. m : fs[k].base \in 0 .. c) /\ \A k \in 1 .. m : k \in 1 .. Len(fs)
  BY <1>1, LimitsOutside
<1>3. \A k \in 1 .. m : Limit(gs, c, k) = Limit(fs, b, k) /\ Limit(gs, c, k) \in 0 .. c
  BY <1>1, LimitsOutside
<1>4. ASSUME NEW k \in 1 .. m
      PROVE  WorkOK(gs[k], new, l, kept, Limit(gs, c, k))
  <2>1. CASE gs[k].disturbed
    BY <2>1 DEF WorkOK
  <2>2. CASE gs[k] = fs[k] /\ new = memory /\ l = n
    <3>1. PICK f, d : f = fs[k] /\ d = Limit(gs, c, k)
      OBVIOUS
    <3>2. WorkOK(f, memory, n, tmp, d)
      BY <1>2, <1>3, <3>1 DEF WorksOK
    <3>3. d \in 0 .. c /\ f.base \in 0 .. c
      BY <1>2, <1>3, <3>1
    <3>4. ASSUME InOrder(f), OnStack(f, tmp, d)
          PROVE  OnStack(f, kept, d)
      <4> SUFFICES ASSUME f.op = "map"
                   PROVE  /\ d = f.base + 1 + Len(f.calls)
                          /\ \A j \in 1 .. Len(f.calls) : kept[f.base + 1 + j] = f.calls[j][2]
        BY DEF OnStack
      <4>1. /\ d = f.base + 1 + Len(f.calls)
            /\ \A j \in 1 .. Len(f.calls) : tmp[f.base + 1 + j] = f.calls[j][2]
        BY <3>4 DEF OnStack
      <4>2. Len(f.calls) \in Nat
        BY <3>4, Elements DEF InOrder, IsSeq
      <4>3. ASSUME NEW j \in 1 .. Len(f.calls)
            PROVE  f.base + 1 + j \in 1 .. c
        BY <1>2, <3>3, <4>1, <4>2
      <4>4. \A i \in 1 .. c : kept[i] = tmp[i]
        BY <1>1
      <4> QED BY <4>1, <4>3, <4>4
    <3>5. WorkOK(f, memory, n, kept, d)
      BY <3>2, <3>4 DEF WorkOK
    <3> QED BY <2>2, <3>1, <3>5
  <2> QED BY <2>1, <2>2
<1> QED BY <1>1, <1>4 DEF WorksOK

(* One more method.                                                        *)
LEMMA WorksPushed ==
  ASSUME NEW fs, NEW g, NEW tmp, NEW b, NEW memory, NEW n, IsSeq(fs), WorksOK(fs, tmp, b, memory, n),
         g.base = b, WorkOK(g, memory, n, tmp, Len(tmp))
  PROVE  WorksOK(Append(fs, g), tmp, Len(tmp), memory, n)
<1>1. PICK m, c, gs : m = Len(fs) /\ c = Len(tmp) /\ gs = Append(fs, g)
  OBVIOUS
<1>2. /\ m \in Nat /\ Len(gs) = m + 1 /\ gs[m + 1] = g /\ \A k \in 1 .. m : gs[k] = fs[k]
  BY <1>1, Pushed
<1>3. \A k \in 1 .. m + 1 : k \in 1 .. m \/ k = m + 1
  BY <1>2
<1>4. ASSUME NEW k \in 1 .. m + 1
      PROVE  WorkOK(gs[k], memory, n, tmp, Limit(gs, c, k))
  <2>1. CASE k \in 1 .. m
    <3>1. Limit(gs, c, k) = Limit(fs, b, k)
      <4>1. CASE k < m
        <5>1. k + 1 \in 1 .. m /\ k < m + 1
          BY <1>2, <4>1
        <5> QED BY <1>1, <1>2, <4>1, <5>1 DEF Limit
      <4>2. CASE ~(k < m)
        <5>1. k = m /\ k < m + 1
          BY <1>2, <2>1, <4>2
        <5> QED BY <1>1, <1>2, <5>1 DEF Limit
      <4> QED BY <4>1, <4>2
    <3> QED BY <1>1, <1>2, <2>1, <3>1 DEF WorksOK
  <2>2. CASE k = m + 1
    <3>1. Limit(gs, c, k) = c
      BY <1>2, <2>2 DEF Limit
    <3> QED BY <1>1, <1>2, <2>2, <3>1
  <2> QED BY <1>3, <2>1, <2>2
<1> QED BY <1>1, <1>2, <1>4 DEF WorksOK

(* After a block: the methods around the innermost one.                    *)
LEMMA AroundWork ==
  ASSUME RInv, WorksOK(frames, temp, Len(temp), cells, len), frames # <<>>, NEW v, NEW kept, NEW n,
         LET f == Last(frames)
         IN  \A k \in 1 .. f.base : kept[k] = temp[k],
         NEW outer, Len(outer) = Len(frames) - 1,
         \A k \in 1 .. Len(frames) - 1 :
            outer[k].base = frames[k].base
            /\ (outer[k].disturbed \/ (outer[k] = frames[k] /\ Returning(Last(frames), v).memory = cells /\ n = len))
  PROVE  WorksOK(outer, kept, Last(frames).base, Returning(Last(frames), v).memory, n)
<1>1. IsSeq(frames) /\ IsSeq(temp) /\ RootsOK(frames, temp, Len(temp), cells, len)
  BY DEF RInv, IInv, FramesOK
<1>2. PICK m : m = Len(frames) - 1
  OBVIOUS
<1>3. m \in 0 .. Len(frames) /\ m < Len(frames) /\ m + 1 = Len(frames)
  <2>1. frames \in Seq(ToSet(frames))
    BY <1>1 DEF IsSeq
  <2> QED BY <1>2, <2>1
<1>4. Last(frames) = frames[m + 1]
  BY <1>3 DEF Last
<1>5. Limit(frames, Len(temp), m) = Last(frames).base
  BY <1>3, <1>4 DEF Limit
<1>6. PICK new : new = Returning(Last(frames), v).memory
  OBVIOUS
<1>7. PICK b : b = Last(frames).base
  OBVIOUS
<1>8. \A k \in 1 .. b : kept[k] = temp[k]
  BY <1>7
<1>9. \A k \in 1 .. m : outer[k].base = frames[k].base
                        /\ (outer[k].disturbed \/ (outer[k] = frames[k] /\ new = cells /\ n = len))
  BY <1>2, <1>6
<1>10. WorksOK(outer, kept, b, new, n)
  BY <1>1, <1>2, <1>3, <1>5, <1>7, <1>8, <1>9, WorksOutside
<1> QED BY <1>6, <1>7, <1>10

----------------------------------------------------------------------------
(* Nothing has been called yet.                                            *)
LEMMA NoCalls ==
  /\ IsSeq(<<>>) /\ Len(<<>>) = 0 /\ DOMAIN <<>> = {} /\ Given(<<>>) = <<>> /\ Got(<<>>) = <<>> /\ Parts(<<>>) = <<>>
  /\ FlattenSeq(<<>>) = <<>> /\ Vals(<<>>) = {} /\ Accepted(<<>>) = {} /\ Firsts(<<>>) = {} /\ Stays(<<>>) = <<>>
<1>1. IsSeq(<<>>) /\ Len(<<>>) = 0 /\ DOMAIN <<>> = {}
  BY NoRefs
<1>2. PICK e : e = <<>>
  OBVIOUS
<1>3. IsSeq(e) /\ Len(e) = 0 /\ DOMAIN e = 1 .. 0
  BY <1>1, <1>2
<1>4. ASSUME NEW s, s = [k \in 1 .. 0 |-> s[k]]
      PROVE  s = e
  <2>1. IsSeq(s) /\ Len(s) = 0
    BY <1>4, Listed
  <2> QED BY <1>3, <2>1, EqualSeqs
<1>5. Given(e) = e
  <2>1. PICK s : s = Given(e)
    OBVIOUS
  <2>2. s = [k \in 1 .. 0 |-> e[k][1]]
    BY <1>3, <2>1 DEF Given
  <2> QED BY <1>4, <2>1, <2>2
<1>6. Got(e) = e
  <2>1. PICK s : s = Got(e)
    OBVIOUS
  <2>2. s = [k \in 1 .. 0 |-> e[k][2]]
    BY <1>3, <2>1 DEF Got
  <2> QED BY <1>4, <2>1, <2>2
<1>7. Parts(e) = e
  <2>1. PICK s : s = Parts(e)
    OBVIOUS
  <2>2. s = [k \in 1 .. 0 |-> Contents(e[k])]
    BY <1>3, <2>1 DEF Parts
  <2> QED BY <1>4, <2>1, <2>2
<1>8. FlattenSeq(e) = e
  BY <1>3 DEF FlattenSeq
<1>9. Vals(e) = {} /\ Accepted(e) = {} /\ Firsts(e) = {}
  BY <1>3 DEF Vals, Accepted, Firsts
<1>10. Stays(e) = e
  BY <1>2, <1>5, <1>6, <1>9, ChosenNone DEF Stays
<1> QED BY <1>1, <1>2, <1>5, <1>6, <1>7, <1>8, <1>9, <1>10

(* A method begins.                                                        *)
LEMMA BeginWork ==
  ASSUME NEW op, NEW g, NEW memory, NEW n \in Nat, IsSeq(memory), n =< Len(memory), NEW tmp,
         g.op = op, g.i = 1, g.n = IF op \in RangeOps THEN RangeLen ELSE n, g.n > 0, g.cur = Value(g, 1),
         g.out = <<>>, g.rest = <<>>, g.keys = <<>>, g.del = 0, g.lo = 0, g.hi = 0,
         g.base \in Nat, Len(tmp) = g.base + 1, g.calls = <<>>, g.start = SubSeq(memory, 1, n), ~g.moved
  PROVE  WorkOK(g, memory, n, tmp, Len(tmp))
<1>1. g.n \in Nat /\ 1 \in 1 .. g.n
  BY DEF RangeLen
<1>2. \A j \in 1 .. 0 : FALSE
  OBVIOUS
<1>3. InOrder(g)
  <2>1. IsSeq(g.calls) /\ Len(g.calls) = 0 /\ 0 = g.i - 1
    BY NoCalls
  <2> QED BY <1>1, <1>2, <2>1 DEF InOrder
<1>4. Searching(g)
  BY DEF Searching
<1>5. Collects(g)
  <2>1. Given(g.calls) = <<>> /\ Got(g.calls) = <<>>
    BY NoCalls
  <2>2. Accepted(<<>>) = {} /\ DOMAIN <<>> \ {} = {} /\ Firsts(<<>>) = {} /\ \A s : Chosen(s, {}) = <<>>
    BY NoCalls, ChosenNone
  <2>3. Vals(g.keys) = Vals(<<>>) /\ IsSeq(g.keys) /\ FlattenSeq(Parts(<<>>)) = <<>>
        /\ \A k \in DOMAIN <<>> : FALSE
    BY NoCalls
  <2> QED BY <2>1, <2>2, <2>3 DEF Collects
<1>6. InPlace(g, g.i, memory, n)
  <2>1. IsSeq(g.start) /\ Len(g.start) = n /\ \A j \in 1 .. n : g.start[j] = memory[j]
    BY Prefix
  <2>2. Stays(g.calls) = <<>> /\ Len(<<>>) = 0
    BY NoCalls
  <2>3. \A j \in 1 .. 0 : memory[j] = <<>>[j]
    BY <1>2
  <2>4. 0 = g.i - 1 - g.del
    OBVIOUS
  <2>5. \A j \in g.i .. n : j \in 1 .. n
    OBVIOUS
  <2> QED BY <2>1, <2>2, <2>3, <2>4, <2>5 DEF InPlace
<1>7. OnStack(g, tmp, Len(tmp))
  <2>1. Len(g.calls) = 0 /\ Len(tmp) = g.base + 1 + 0
    BY NoCalls
  <2> QED BY <1>2, <2>1 DEF OnStack
<1> QED BY <1>3, <1>4, <1>5, <1>6, <1>7 DEF WorkOK

(* No method has just returned.                                            *)
LEMMA NothingYet == Nothing.op \notin Ops /\ "raised" \notin Ops
BY DEF Nothing, Ops, ArrayOps, RangeOps

LEMMA CallWork == WInv /\ Call => WInv'
<1> SUFFICES ASSUME WInv, Call
             PROVE  WInv'
  OBVIOUS
<1>1. PICK op : Frame(op).n > 0 /\ frames' = Append(frames, [Frame(op) EXCEPT !.cur = Element(Frame(op), cells)])
  BY DEF Call
<1> DEFINE f == Frame(op)
           g == [f EXCEPT !.cur = Element(f, cells)]
<1>2. /\ RInv /\ RInv' /\ IsSeq(temp) /\ IsSeq(frames) /\ cells' = cells /\ len' = len /\ temp' = Append(temp, Receiver)
      /\ RootsOK(frames, temp, Len(temp), cells, len) /\ len \in Nat /\ IsSeq(cells) /\ len =< Len(cells)
      /\ WorksOK(frames, temp, Len(temp), cells, len) /\ CellsOK(cells) /\ last' = Nothing
  BY CallRooted DEF WInv, Call, RInv, IInv, FramesOK
<1>3. Len(frames) \in Nat /\ Len(temp) \in Nat /\ Len(cells) \in Nat
  BY <1>2, Elements DEF IsSeq
<1>4. Len(temp') = Len(temp) + 1 /\ \A k \in 1 .. Len(temp) : temp'[k] = temp[k]
  BY <1>2, Pushed
<1>5. /\ IsFrame(f) /\ f.op = op /\ f.n = (IF op \in RangeOps THEN RangeLen ELSE len) /\ f.i = 1
      /\ f.out = <<>> /\ f.rest = <<>> /\ f.keys = <<>> /\ f.base = Len(temp) /\ ~f.moved
      /\ f.del = 0 /\ f.lo = 0 /\ f.hi = 0 /\ f.calls = <<>> /\ f.start = SubSeq(cells, 1, len)
  BY DEF Frame, IsFrame, Fields, array
<1>6. f.n > 0
  BY <1>1
<1> HIDE DEF f
<1>7. /\ g.op = op /\ g.n = f.n /\ g.i = 1 /\ g.cur = Element(f, cells) /\ ~g.moved
      /\ g.out = <<>> /\ g.rest = <<>> /\ g.keys = <<>> /\ g.base = Len(temp)
      /\ g.del = 0 /\ g.lo = 0 /\ g.hi = 0 /\ g.calls = <<>> /\ g.start = SubSeq(cells, 1, len)
  BY <1>5 DEF IsFrame, Fields
<1> HIDE DEF g
<1>8. g.cur = Value(g, 1)
  <2>1. CASE op \in RangeOps
    BY <1>5, <1>7, <2>1 DEF Element, Value
  <2>2. CASE op \notin RangeOps
    <3>1. 1 \in 1 .. len /\ ~(1 > Len(cells))
      BY <1>2, <1>3, <1>5, <1>6, <2>2
    <3>2. SubSeq(cells, 1, len)[1] = cells[1]
      BY <1>2, <3>1, Prefix
    <3>3. Element(f, cells) = cells[1]
      BY <1>5, <2>2, <3>1 DEF Element
    <3> QED BY <1>7, <2>2, <3>2, <3>3 DEF Value
  <2> QED BY <2>1, <2>2
<1>9. WorkOK(g, cells, len, temp', Len(temp'))
  <2>1. PICK tmp : tmp = temp'
    OBVIOUS
  <2>2. Len(tmp) = g.base + 1 /\ g.base \in Nat /\ g.n > 0 /\ g.n = IF op \in RangeOps THEN RangeLen ELSE len
    BY <1>3, <1>4, <1>5, <1>6, <1>7, <2>1
  <2>3. WorkOK(g, cells, len, tmp, Len(tmp))
    BY <1>2, <1>7, <1>8, <2>2, BeginWork
  <2> QED BY <2>1, <2>3
<1>10. WorksOK(frames, temp', Len(temp), cells, len)
  <2>1. PICK kept : kept = temp'
    OBVIOUS
  <2>2. Limit(frames, Len(temp), Len(frames)) = Len(temp) /\ Len(frames) \in 0 .. Len(frames)
    BY <1>3 DEF Limit
  <2>3. \A k \in 1 .. Len(temp) : kept[k] = temp[k]
    BY <1>4, <2>1
  <2>4. WorksOK(frames, kept, Len(temp), cells, len)
    BY <1>2, <2>2, <2>3, WorksOutside
  <2> QED BY <2>1, <2>4
<1>11. WorksOK(Append(frames, g), temp', Len(temp'), cells, len)
  <2>1. PICK kept : kept = temp'
    OBVIOUS
  <2> QED BY <1>2, <1>7, <1>9, <1>10, <2>1, WorksPushed
<1>12. frames' = Append(frames, g)
  BY <1>1 DEF g, f
<1> QED BY <1>2, <1>11, <1>12, NothingYet DEF WInv, ReturnsAsRuby

(* The next round.                                                         *)
LEMMA GoOnWork == WInv /\ GoOn => WInv'
<1> SUFFICES ASSUME WInv, GoOn
             PROVE  WInv'
  OBVIOUS
<1> DEFINE f == Last(frames)
           r(v) == Returning(f, v)
           d(v) == [Collect(f, v) EXCEPT !.i = After(f, v)]
           g(v) == [d(v) EXCEPT !.cur = Element(d(v), Moved(f, v, cells))]
<1>1. PICK v \in Results(f.op, f.cur) :
               /\ After(f, v) # 0
               /\ cells' = r(v).memory
               /\ frames' = Append(r(v).outer, [[r(v).frame EXCEPT !.i = After(f, v)] EXCEPT
                                !.cur = Element([r(v).frame EXCEPT !.i = After(f, v)], r(v).memory)])
               /\ temp' = r(v).kept
  BY DEF GoOn
<1>2. /\ frames # <<>> /\ len' = len /\ RInv /\ RInv' /\ IInv /\ len \in Nat /\ IsSeq(cells) /\ len =< Len(cells)
      /\ IsSeq(temp) /\ WorksOK(frames, temp, Len(temp), cells, len) /\ CellsOK(cells) /\ last' = Nothing
  BY GoOnRooted DEF WInv, GoOn, RInv, IInv
<1>3. /\ r(v).memory = Moved(f, v, cells) /\ r(v).frame = Collect(f, v) /\ r(v).kept = temp \o Kept(f, v)
  BY DEF Returning
<1>4. frames' = Append(r(v).outer, g(v)) /\ cells' = Moved(f, v, cells) /\ temp' = temp \o Kept(f, v)
  BY <1>1, <1>3
<1>5. IsSeq(Kept(f, v))
  <2>1. Kept(f, v) = <<>> \/ \E x : Kept(f, v) = <<x>>
    BY DEF Kept
  <2>2. \A x : IsSeq(<<x>>)
    <3> TAKE x
    <3>1. <<x>> \in Seq({x})
      OBVIOUS
    <3> QED BY <3>1, Elements
  <2> QED BY <2>1, <2>2, NoRefs
<1>6. IsSeq(temp') /\ \A k \in 1 .. Len(temp) : temp'[k] = temp[k]
  <2>1. PICK k : k = Kept(f, v)
    OBVIOUS
  <2> QED BY <1>2, <1>4, <1>5, <2>1, RefsJoined
<1>7. FrameOK(f, cells, len) /\ f.base \in 0 .. Len(temp) /\ Len(temp) \in Nat /\ Len(frames) \in Nat
      /\ Len(frames) > 0 /\ f = frames[Len(frames)]
  BY <1>2, Innermost
<1>8. WorkOK(f, cells, len, temp, Len(temp))
  <2>1. Len(frames) \in 1 .. Len(frames) /\ ~(Len(frames) < Len(frames))
    BY <1>7
  <2>2. Limit(frames, Len(temp), Len(frames)) = Len(temp)
    BY <2>1 DEF Limit
  <2> QED BY <1>2, <1>7, <2>1, <2>2 DEF WorksOK
<1>9. WorkOK(g(v), cells', len, temp', Len(temp'))
  <2>1. f.base \in Nat /\ v \in Results(f.op, f.cur) /\ After(f, v) # 0
    BY <1>1, <1>7
  <2> HIDE DEF f
  <2> QED BY <1>2, <1>4, <1>7, <1>8, <2>1, NextWork
<1>10. g(v).base = f.base
  BY <1>7 DEF FrameOK, IsFrame, Fields, Collect
<1>11. WorksOK(r(v).outer, temp', f.base, cells', len)
  <2>1. /\ Len(r(v).outer) = Len(frames) - 1
        /\ \A k \in 1 .. Len(frames) - 1 :
             r(v).outer[k].base = frames[k].base
             /\ (r(v).outer[k].disturbed \/ (r(v).outer[k] = frames[k] /\ r(v).memory = cells))
    BY <1>2, OuterFrames
  <2>2. PICK outer : outer = r(v).outer
    OBVIOUS
  <2>3. PICK kept : kept = temp'
    OBVIOUS
  <2>4. \A k \in 1 .. f.base : kept[k] = temp[k]
    BY <1>6, <1>7, <2>3
  <2>5. WorksOK(outer, kept, f.base, r(v).memory, len)
    BY <1>2, <2>1, <2>2, <2>4, AroundWork
  <2> QED BY <1>1, <2>2, <2>3, <2>5
<1>12. IsSeq(r(v).outer)
  BY <1>2, AfterBlock DEF FramesOK
<1>13. WorksOK(Append(r(v).outer, g(v)), temp', Len(temp'), cells', len)
  <2>1. PICK outer : outer = r(v).outer
    OBVIOUS
  <2>2. PICK e : e = g(v)
    OBVIOUS
  <2>3. PICK kept : kept = temp'
    OBVIOUS
  <2> QED BY <1>9, <1>10, <1>11, <1>12, <2>1, <2>2, <2>3, WorksPushed
<1>14. CellsOK(cells')
  <2> HIDE DEF f
  <2> QED BY <1>2, <1>4, <1>7, CellsMoved
<1> QED BY <1>2, <1>4, <1>13, <1>14, NothingYet DEF WInv, ReturnsAsRuby


(* The end of a method: what it leaves is what Ruby says.                  *)
LEMMA FinishWork == WInv /\ Finish => WInv'
<1> SUFFICES ASSUME WInv, Finish
             PROVE  WInv'
  OBVIOUS
<1> DEFINE f == Last(frames)
           r(v) == Returning(f, v)
           all(v) == [j \in DOMAIN r(v).outer |-> Disturbed(r(v).outer[j])]
           cut(v) == IF f.n - r(v).frame.del < len THEN f.n - r(v).frame.del ELSE len
<1>1. PICK v \in Results(f.op, f.cur) :
               /\ After(f, v) = 0
               /\ cells' = r(v).memory
               /\ len' = IF r(v).frame.del > 0 THEN cut(v) ELSE len
               /\ frames' = IF r(v).frame.del > 0 THEN all(v) ELSE r(v).outer
               /\ temp' = SubSeq(temp, 1, f.base)
               /\ last' = [op |-> f.op, calls |-> r(v).frame.calls, start |-> f.start, disturbed |-> f.disturbed,
                           result |-> Returned(r(v).frame, v, r(v).memory, r(v).kept),
                           array |-> SubSeq(r(v).memory, 1, len')]
  BY DEF Finish, Cut
<1>2. /\ frames # <<>> /\ RInv /\ RInv' /\ IInv /\ len \in Nat /\ IsSeq(cells) /\ len =< Len(cells)
      /\ IsSeq(temp) /\ WorksOK(frames, temp, Len(temp), cells, len) /\ CellsOK(cells)
  BY FinishRooted DEF WInv, Finish, RInv, IInv
<1>3. /\ r(v).memory = Moved(f, v, cells) /\ r(v).frame = Collect(f, v) /\ r(v).kept = temp \o Kept(f, v)
  BY DEF Returning
<1>4. FrameOK(f, cells, len) /\ f.base \in 0 .. Len(temp) /\ Len(temp) \in Nat /\ Len(frames) \in Nat
      /\ Len(frames) > 0 /\ f = frames[Len(frames)]
  BY <1>2, Innermost
<1>5. IsSeq(temp') /\ Len(temp') = f.base /\ \A k \in 1 .. f.base : temp'[k] = temp[k]
  <2>1. f.base \in Nat /\ f.base =< Len(temp)
    BY <1>4
  <2> HIDE DEF f
  <2> QED BY <1>1, <1>2, <2>1, Prefix
<1>6. /\ Len(r(v).outer) = Len(frames) - 1
      /\ \A k \in 1 .. Len(frames) - 1 :
           r(v).outer[k].base = frames[k].base
           /\ (r(v).outer[k].disturbed \/ (r(v).outer[k] = frames[k] /\ r(v).memory = cells))
  BY <1>2, OuterFrames
<1>7. /\ Len(frames') = Len(frames) - 1
      /\ \A k \in 1 .. Len(frames) - 1 :
           frames'[k].base = frames[k].base
           /\ (frames'[k].disturbed \/ (frames'[k] = frames[k] /\ r(v).memory = cells /\ len' = len))
  <2>1. CASE ~(r(v).frame.del > 0)
    BY <1>1, <1>6, <2>1
  <2>2. CASE r(v).frame.del > 0
    <3>1. IsSeq(r(v).outer) /\ \A k \in 1 .. Len(r(v).outer) : IsFrame(r(v).outer[k])
      BY <1>2, AfterBlock DEF FramesOK, FrameOK
    <3>2. PICK fs : fs = r(v).outer
      OBVIOUS
    <3>3. DOMAIN fs = 1 .. Len(fs) /\ Len(fs) = Len(frames) - 1 /\ Len(fs) \in Nat
      BY <1>6, <3>1, <3>2, Elements DEF IsSeq
    <3> DEFINE H(j) == Disturbed(fs[j])
               hs == [j \in 1 .. Len(fs) |-> H(j)]
    <3>4. frames' = hs
      BY <1>1, <2>2, <3>2, <3>3
    <3>5. ASSUME NEW h, IsFrame(h)
          PROVE  Disturbed(h).base = h.base /\ Disturbed(h).disturbed
      BY <3>5 DEF IsFrame, Fields, Disturbed
    <3>6. \A k \in 1 .. Len(fs) : H(k).base = fs[k].base /\ H(k).disturbed
      BY <3>1, <3>2, <3>5
    <3> HIDE DEF H
    <3>7. Len(hs) = Len(fs) /\ \A k \in 1 .. Len(fs) : hs[k] = H(k)
      BY <3>3
    <3> HIDE DEF hs
    <3>8. \A k \in 1 .. Len(frames) - 1 : fs[k].base = frames[k].base
      BY <1>6, <3>2
    <3> QED BY <3>3, <3>4, <3>6, <3>7, <3>8
  <2> QED BY <2>1, <2>2
<1>8. WorksOK(frames', temp', Len(temp'), cells', len')
  <2>1. PICK outer, kept, n : outer = frames' /\ kept = temp' /\ n = len'
    OBVIOUS
  <2>2. \A k \in 1 .. f.base : kept[k] = temp[k]
    BY <1>5, <2>1
  <2>3. /\ Len(outer) = Len(frames) - 1
        /\ \A k \in 1 .. Len(frames) - 1 :
             outer[k].base = frames[k].base
             /\ (outer[k].disturbed \/ (outer[k] = frames[k] /\ r(v).memory = cells /\ n = len))
    BY <1>7, <2>1
  <2>4. WorksOK(outer, kept, f.base, r(v).memory, n)
    BY <1>2, <2>2, <2>3, AroundWork
  <2> QED BY <1>1, <1>5, <2>1, <2>4
<1>9. CellsOK(cells')
  <2>1. cells' = Moved(f, v, cells)
    BY <1>1, <1>3
  <2> HIDE DEF f
  <2> QED BY <1>2, <1>4, <2>1, CellsMoved
<1>10. WorkOK(f, cells, len, temp, Len(temp))
  <2>1. Len(frames) \in 1 .. Len(frames) /\ ~(Len(frames) < Len(frames))
    BY <1>4
  <2>2. Limit(frames, Len(temp), Len(frames)) = Len(temp)
    BY <2>1 DEF Limit
  <2> QED BY <1>2, <1>4, <2>1, <2>2 DEF WorksOK
<1>11. /\ last'.op = f.op /\ last'.disturbed = f.disturbed /\ last'.calls = Collect(f, v).calls /\ last'.start = f.start
       /\ last'.result = Returned(Collect(f, v), v, Moved(f, v, cells), temp \o Kept(f, v))
       /\ last'.array = SubSeq(Moved(f, v, cells), 1, len')
       /\ len' = IF Collect(f, v).del > 0 THEN IF f.n - Collect(f, v).del < len THEN f.n - Collect(f, v).del ELSE len ELSE len
  BY <1>1, <1>3
<1>12. f.base \in Nat /\ v \in Results(f.op, f.cur) /\ After(f, v) = 0
  BY <1>1, <1>4
<1> HIDE DEF f, r, all, cut
<1>13. ASSUME last'.op \in Ops, ~last'.disturbed
       PROVE  AsRuby(last')
  <2>1. ~f.disturbed /\ f.op \in Ops
    BY <1>11, <1>13
  <2>2. PICK c, memory, kept : c = Collect(f, v) /\ memory = Moved(f, v, cells) /\ kept = temp \o Kept(f, v)
    OBVIOUS
  <2>3. /\ ~f.moved /\ InOrder(f) /\ Searching(f)
        /\ Collects(c) /\ InPlace(c, f.i + 1, memory, len) /\ OnStack(c, kept, Len(kept))
    BY <1>2, <1>4, <1>10, <1>12, <2>1, <2>2, WorkStep
  <2>4. /\ IsFrame(f) /\ IsFrame(c) /\ c.op = f.op /\ c.n = f.n /\ c.i = f.i /\ c.start = f.start
        /\ ~c.disturbed /\ ~c.moved
        /\ c.del = IF f.op # "uniq!" \/ IsNew(f, v) THEN f.del ELSE f.del + 1
    BY <1>4, <2>1, <2>2, <2>3, Collected DEF FrameOK
  <2>5. c.calls = Append(f.calls, <<f.cur, v>>) /\ c.base = f.base /\ c.cur = f.cur
    <3>1. c.calls = Append(f.calls, <<f.cur, v>>)
      BY <2>1, <2>2, <2>4, Noted
    <3>2. c.base = f.base /\ c.cur = f.cur
      BY <2>2, <2>4 DEF IsFrame, Fields, Collect
    <3> QED BY <3>1, <3>2
  <2>6. IsSeq(memory) /\ len =< Len(memory)
    BY <1>2, <1>4, <2>2, MovedOK
  <2>7. IsSeq(kept)
    <3>1. PICK s : s = Kept(f, v)
      OBVIOUS
    <3>2. s = <<>> \/ \E x : s = <<x>>
      BY <3>1 DEF Kept
    <3>3. \A x : IsSeq(<<x>>)
      <4> TAKE x
      <4>1. <<x>> \in Seq({x})
        OBVIOUS
      <4> QED BY <4>1, Elements
    <3>4. IsSeq(s)
      BY <3>2, <3>3, NoRefs
    <3> QED BY <1>2, <2>2, <3>1, <3>4, RefsJoined
  <2>8. FrameOK(f, memory, len)
    <3>1. Len(memory) = Len(cells) /\ (f.op = "uniq!" => ToSet(SubSeq(memory, 1, len)) = ToSet(SubSeq(cells, 1, len)))
      BY <1>2, <1>4, <2>1, <2>2, MovedOK
    <3> QED BY <1>4, <3>1 DEF FrameOK, RetainOK
  <2>9. Ending(f, v, c, memory, len, kept)
    BY <1>2, <1>12, <2>1, <2>2, <2>3, <2>4, <2>5, <2>6, <2>7, <2>8 DEF Ending
  <2>10. PICK n, call : n = len' /\ call = last'
    OBVIOUS
  <2>11. n = IF c.del > 0 THEN IF f.n - c.del < len THEN f.n - c.del ELSE len ELSE len
    BY <1>11, <2>2, <2>10
  <2>12. /\ call.op = f.op /\ call.calls = c.calls /\ call.start = f.start
         /\ call.result = Returned(c, v, memory, kept) /\ call.array = SubSeq(memory, 1, n)
    BY <1>11, <2>2, <2>10
  <2>13. AsRuby(call)
    BY <2>9, <2>11, <2>12, EndingRight
  <2> QED BY <2>10, <2>13
<1>14. ReturnsAsRuby'
  <2>1. last'.op \in Ops /\ ~last'.disturbed => AsRuby(last')
    BY <1>13
  <2> QED BY <2>1 DEF ReturnsAsRuby
<1> QED BY <1>2, <1>8, <1>9, <1>14 DEF WInv

(* An exception leaves the methods around as they were.                    *)
LEMMA RaiseWork == WInv /\ Raise => WInv'
<1> SUFFICES ASSUME WInv, Raise
             PROVE  WInv'
  OBVIOUS
<1>1. PICK k \in DOMAIN frames : frames' = SubSeq(frames, 1, k - 1) /\ temp' = SubSeq(temp, 1, frames[k].base)
  BY DEF Raise, Unwound
<1>2. /\ RInv /\ RInv' /\ IsSeq(temp) /\ IsSeq(frames) /\ cells' = cells /\ len' = len /\ CellsOK(cells)
      /\ RootsOK(frames, temp, Len(temp), cells, len) /\ WorksOK(frames, temp, Len(temp), cells, len)
      /\ last' = [op |-> "raised"]
  BY RaiseRooted DEF WInv, Raise, RInv, IInv, FramesOK
<1>3. DOMAIN frames = 1 .. Len(frames) /\ Len(frames) \in Nat /\ Len(temp) \in Nat
  BY <1>2, Elements DEF IsSeq
<1>4. PICK m, b : m = k - 1 /\ b = frames[k].base
  OBVIOUS
<1>5. m \in Nat /\ m \in 0 .. Len(frames) /\ m < Len(frames) /\ m =< Len(frames) /\ m + 1 = k
  BY <1>3, <1>4
<1>6. b \in Nat /\ b =< Len(temp)
  <2>1. b \in 0 .. Len(temp)
    BY <1>2, <1>3, <1>4 DEF RootsOK
  <2> QED BY <1>3, <2>1
<1>7. Len(temp') = b /\ \A j \in 1 .. b : temp'[j] = temp[j]
  BY <1>1, <1>2, <1>4, <1>6, Prefix
<1>8. Len(frames') = m /\ \A j \in 1 .. m : frames'[j] = frames[j]
  BY <1>1, <1>2, <1>4, <1>5, Prefix
<1>9. Limit(frames, Len(temp), m) = b
  BY <1>4, <1>5 DEF Limit
<1>10. WorksOK(frames', temp', Len(temp'), cells, len)
  <2>1. PICK outer, kept : outer = frames' /\ kept = temp'
    OBVIOUS
  <2>2. \A j \in 1 .. b : kept[j] = temp[j]
    BY <1>7, <2>1
  <2>3. Len(outer) = m /\ \A j \in 1 .. m : outer[j].base = frames[j].base /\ outer[j] = frames[j]
    BY <1>8, <2>1
  <2>4. WorksOK(outer, kept, b, cells, len)
    BY <1>2, <1>5, <1>9, <2>2, <2>3, WorksOutside
  <2> QED BY <1>7, <2>1, <2>4
<1>11. ReturnsAsRuby'
  <2>1. last'.op \notin Ops
    BY <1>2, NothingYet
  <2> QED BY <2>1 DEF ReturnsAsRuby
<1> QED BY <1>2, <1>10, <1>11 DEF WInv

(* A block that changes the array puts objects into it.                    *)
LEMMA PutCells ==
  ASSUME NEW id
  PROVE  IsSeq(Contents(Object(id, "a", <<>>)))
<1>1. PICK o : o = Object(id, "a", <<>>)
  OBVIOUS
<1>2. Contents(o) = <<o>>
  BY <1>1 DEF Contents, Object
<1>3. <<o>> \in Seq({o})
  OBVIOUS
<1> QED BY <1>1, <1>2, <1>3, Elements

LEMMA BlockCells == IInv /\ CellsOK(cells) /\ (Store \/ Push \/ Pop \/ Shift) => CellsOK(cells')
<1> SUFFICES ASSUME IInv, CellsOK(cells)
             PROVE  Store \/ Push \/ Pop \/ Shift => CellsOK(cells')
  OBVIOUS
<1>1. cells \in Seq(ToSet(cells)) /\ Len(cells) \in Nat /\ len \in Nat /\ len =< Len(cells) /\ IsSeq(cells)
      /\ DOMAIN cells = 1 .. Len(cells)
  BY Elements DEF IInv, IsSeq
<1>2. PICK o : o = Object(NewId(0), "a", <<>>)
  OBVIOUS
<1>3. IsSeq(Contents(o))
  BY <1>2, PutCells
<1>4. ASSUME NEW j \in 1 .. Len(cells)
      PROVE  CellsOK([cells EXCEPT ![j] = o])
  <2>1. PICK s : s = [cells EXCEPT ![j] = o]
    OBVIOUS
  <2>2. Len(s) = Len(cells) /\ \A i \in 1 .. Len(cells) : s[i] = cells[i] \/ s[i] = o
    BY <1>1, <2>1
  <2> QED BY <1>3, <2>1, <2>2 DEF CellsOK
<1>5. CASE Store
  <2>1. PICK j \in 1 .. len : cells' = [cells EXCEPT ![j] = o]
    BY <1>2, <1>5 DEF Store, Change
  <2>2. j \in 1 .. Len(cells)
    BY <1>1
  <2>3. CellsOK([cells EXCEPT ![j] = o])
    BY <1>4, <2>2
  <2> QED BY <2>1, <2>3
<1>6. CASE Push
  <2>1. cells' = IF len < Len(cells) THEN [cells EXCEPT ![len + 1] = o] ELSE Append(cells, o)
    BY <1>2, <1>6 DEF Push, Change
  <2>2. CASE len < Len(cells)
    <3>1. len + 1 \in 1 .. Len(cells)
      BY <1>1, <2>2
    <3> QED BY <1>4, <2>1, <2>2, <3>1
  <2>3. CASE ~(len < Len(cells))
    <3>1. PICK s, m : s = Append(cells, o) /\ m = Len(cells)
      OBVIOUS
    <3>2. Len(s) = m + 1 /\ s[m + 1] = o /\ \A i \in 1 .. m : s[i] = cells[i]
      BY <1>1, <3>1, Pushed
    <3>3. \A i \in 1 .. m + 1 : i \in 1 .. m \/ i = m + 1
      BY <1>1, <3>1
    <3>4. CellsOK(s)
      BY <1>3, <3>1, <3>2, <3>3 DEF CellsOK
    <3> QED BY <2>1, <2>3, <3>1, <3>4
  <2> QED BY <2>2, <2>3
<1>7. CASE Pop
  BY <1>7 DEF Pop, Change
<1>8. CASE Shift
  <2>1. PICK s : s = SubSeq(cells, 2, len)
    OBVIOUS
  <2>2. \A i \in 2 .. len : cells[i] \in ToSet(cells)
    BY <1>1
  <2>3. len > 0 /\ cells' = s
    BY <1>8, <2>1 DEF Shift, Change
  <2>4. Len(s) = len - 1 /\ \A i \in 1 .. len - 1 : s[i] = cells[i + 1]
    <3>1. /\ Len(s) = IF 2 =< len THEN len - 2 + 1 ELSE 0
          /\ \A i \in 1 .. len - 2 + 1 : s[i] = cells[2 + i - 1]
      BY <1>1, <2>1, <2>2, SubSeqProperties
    <3>2. len - 2 + 1 = len - 1 /\ \A i \in 1 .. len - 1 : 2 + i - 1 = i + 1
      BY <1>1
    <3> QED BY <1>1, <2>3, <3>1, <3>2
  <2>5. \A i \in 1 .. len - 1 : i + 1 \in 1 .. Len(cells)
    BY <1>1
  <2>6. CellsOK(s)
    BY <2>4, <2>5 DEF CellsOK
  <2> QED BY <2>3, <2>6
<1> QED BY <1>5, <1>6, <1>7, <1>8

LEMMA BlockWork == WInv /\ (Store \/ Push \/ Pop \/ Shift) => WInv'
<1> SUFFICES ASSUME WInv, Store \/ Push \/ Pop \/ Shift
             PROVE  WInv'
  OBVIOUS
<1>1. PICK moves : frames' = MovedFrames(frames, moves) /\ temp' = temp /\ last' = Nothing
  BY DEF Store, Push, Pop, Shift, Change, MovedFrames
<1>2. RInv /\ RInv' /\ IInv /\ CellsOK(cells) /\ CellsOK(cells')
      /\ IsSeq(frames) /\ \A k \in 1 .. Len(frames) : IsFrame(frames[k])
  BY BlockRooted, BlockCells DEF WInv, RInv, IInv, FramesOK, FrameOK
<1>3. DOMAIN frames = 1 .. Len(frames) /\ Len(frames) \in Nat
  BY <1>2, Elements DEF IsSeq
<1> DEFINE G(k) == [Disturbed(frames[k]) EXCEPT !.moved = @ \/ moves]
           gs == [k \in 1 .. Len(frames) |-> G(k)]
<1>4. frames' = gs
  BY <1>1, <1>3 DEF MovedFrames
<1>5. ASSUME NEW h, IsFrame(h)
      PROVE  [Disturbed(h) EXCEPT !.moved = @ \/ moves].disturbed
  BY <1>5 DEF IsFrame, Fields, Disturbed
<1>6. \A k \in 1 .. Len(frames) : G(k).disturbed
  BY <1>2, <1>5
<1> HIDE DEF G
<1>7. Len(gs) = Len(frames) /\ \A k \in 1 .. Len(frames) : gs[k] = G(k)
  BY <1>3
<1> HIDE DEF gs
<1>8. \A k \in 1 .. Len(gs) : gs[k].disturbed
  BY <1>6, <1>7
<1>9. \A tmp, b, new, n : WorksOK(gs, tmp, b, new, n)
  BY <1>8 DEF WorksOK, WorkOK
<1>10. WorksOK(frames', temp', Len(temp'), cells', len')
  BY <1>4, <1>9
<1>11. ReturnsAsRuby'
  BY <1>1, NothingYet DEF ReturnsAsRuby
<1> QED BY <1>2, <1>10, <1>11 DEF WInv

LEMMA LiteralWork == WInv /\ Literal => WInv'
<1> SUFFICES ASSUME WInv, Literal
             PROVE  WInv'
  OBVIOUS
<1>1. PICK n \in 0 .. MaxLen : cells' = [i \in 1 .. n |-> Object(i, "a", <<>>)] /\ len' = n
  BY DEF Literal
<1>2. frames = <<>> /\ frames' = frames /\ temp' = temp /\ last' = Nothing
  BY DEF Literal
<1>3. RInv'
  <2>1. IInv' /\ IsSeq(temp) /\ Len(temp) \in Nat
    BY LiteralOK, Elements DEF WInv, RInv, IsSeq
  <2>2. \A new, l : RootsOK(<<>>, temp, Len(temp), new, l)
    BY <2>1, NoRefs DEF RootsOK
  <2> QED BY <1>2, <2>1, <2>2 DEF RInv
<1>4. CellsOK(cells')
  <2>1. n \in Nat
    BY <1>1, IterationAssumption
  <2>2. PICK s : s = [i \in 1 .. n |-> Object(i, "a", <<>>)]
    OBVIOUS
  <2>3. Len(s) = n /\ \A i \in 1 .. n : s[i] = Object(i, "a", <<>>)
    BY <2>1, <2>2
  <2>4. \A i \in 1 .. n : IsSeq(Contents(s[i]))
    BY <2>3, PutCells
  <2> QED BY <1>1, <2>2, <2>3, <2>4 DEF CellsOK
<1>5. \A tmp, b, new, l : WorksOK(<<>>, tmp, b, new, l)
  BY NoRefs DEF WorksOK
<1>6. ReturnsAsRuby'
  BY <1>2, NothingYet DEF ReturnsAsRuby
<1> QED BY <1>2, <1>3, <1>4, <1>5, <1>6 DEF WInv

(* A method that runs a block and returns has given it the elements in     *)
(* order, as many as it had to, and returns what Ruby says for the values  *)
(* the block has returned, whatever its block has called, raised and       *)
(* rescued, as long as the array was changed by no one else                *)
(* (builtin/array.rs, builtin/range.rs, value/array.rs): for arrays of any *)
(* length, any number of methods in progress and any number of objects.    *)
THEOREM ReturnsRight == Spec => []ReturnsAsRuby
<1>1. Init => WInv
  <2> SUFFICES ASSUME Init
               PROVE  WInv
    OBVIOUS
  <2>1. IInv /\ cells = <<>> /\ temp = <<>> /\ frames = <<>> /\ last = Nothing
    BY InitOK DEF Init
  <2>2. RootsOK(<<>>, <<>>, 0, cells, len)
    BY NoRefs DEF RootsOK
  <2>3. RInv
    BY <2>1, <2>2, NoRefs DEF RInv
  <2>4. CellsOK(cells) /\ WorksOK(frames, temp, Len(temp), cells, len)
    BY <2>1, NoRefs DEF CellsOK, WorksOK
  <2>5. ReturnsAsRuby
    BY <2>1, NothingYet DEF ReturnsAsRuby
  <2> QED BY <2>3, <2>4, <2>5 DEF WInv
<1>2. WInv /\ [Next]_vars => WInv'
  <2> SUFFICES ASSUME WInv, [Next]_vars
               PROVE  WInv'
    OBVIOUS
  <2>1. CASE UNCHANGED vars
    BY <2>1 DEF vars, WInv, RInv, IInv, ReturnsAsRuby
  <2> QED BY <2>1, LiteralWork, CallWork, GoOnWork, FinishWork, RaiseWork, BlockWork DEF Next
<1>3. WInv => ReturnsAsRuby
  BY DEF WInv
<1> QED BY <1>1, <1>2, <1>3, PTL DEF Spec

=============================================================================
