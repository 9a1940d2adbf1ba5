--------------------------- MODULE RunContextProofs ---------------------------
(***************************************************************************)
(* The stacks a VM shares between its calls, and the ends of calls by      *)
(* break and return, for any number of calls and operands.                 *)
(***************************************************************************)
EXTENDS RunContext, SequenceFacts, FiniteSetTheorems, TLAPS

IntFrame == [op : Ruby \cup {"native"}, base : Int, tbase : Int, blk : 0 .. MaxFrames,
             parent : 0 .. MaxFrames, depth : Int, handler : Int]
Errors == [kind : {"raise", "break", "return"}, at : {"thrown", "received"},
           parent : 0 .. MaxFrames, home : 0 .. MaxFrames]

(* How calls refer to one another: a builtin is called by code of Ruby,    *)
(* with a block of it; a block is part of a frame below, and of the one    *)
(* that called the builtin if a builtin calls it.                          *)
Links(fr, k) ==
    /\ fr[k].blk \in 0 .. k - 1
    /\ fr[k].op = "native" => k > 1 /\ fr[k].blk = k - 1 /\ fr[k - 1].op \in Ruby
    /\ fr[k].op = "block" =>
         /\ k > 1 /\ fr[k].parent \in 1 .. k - 1
         /\ fr[k - 1].op = "native" => fr[k].parent = fr[k - 1].blk
Linked(fr) == \A k \in 1 .. Len(fr) : Links(fr, k)

ErrOK ==
    /\ err \in Errors \cup {NoErr}
    /\ err.at = "thrown" => frames # <<>> /\ top.op \in Ruby

Shape ==
    /\ frames \in Seq(IntFrame) /\ Len(frames) <= MaxFrames
    /\ len \in Int /\ temp \in Int /\ classes \in Int
    /\ Linked(frames)
    /\ ErrOK

(* Frames that differ in what the code is doing only.                      *)
Retuned(gr, fr) ==
    /\ gr \in Seq(IntFrame) /\ Len(gr) = Len(fr)
    /\ \A k \in 1 .. Len(fr) :
         /\ gr[k].op = fr[k].op /\ gr[k].base = fr[k].base /\ gr[k].tbase = fr[k].tbase
         /\ gr[k].blk = fr[k].blk /\ gr[k].parent = fr[k].parent

-----------------------------------------------------------------------------
(* Frames *)

LEMMA FrameFacts ==
  ASSUME NEW S, NEW fr \in Seq(S), fr # <<>>
  PROVE  /\ Len(fr) \in Nat \ {0} /\ Last(fr) = fr[Len(fr)] /\ Last(fr) \in S
         /\ Front(fr) \in Seq(S) /\ Len(Front(fr)) = Len(fr) - 1
         /\ \A k \in 1 .. Len(fr) - 1 : Front(fr)[k] = fr[k]
  BY FrontFacts DEF Last

LEMMA LinkedRetuned ==
  ASSUME NEW fr, NEW gr, Linked(fr), Retuned(gr, fr), Len(fr) \in Nat
  PROVE  Linked(gr)
<1> SUFFICES ASSUME NEW k \in 1 .. Len(fr) PROVE Links(gr, k)
  BY DEF Linked, Retuned
<1>1. Links(fr, k)
  BY DEF Linked
<1>2. k > 1 => k - 1 \in 1 .. Len(fr)
  OBVIOUS
<1> QED BY <1>1, <1>2 DEF Links, Retuned

LEMMA LinkedFront ==
  ASSUME NEW fr \in Seq(IntFrame), fr # <<>>, Linked(fr)
  PROVE  Linked(Front(fr))
<1>1. /\ Len(fr) \in Nat \ {0} /\ Len(Front(fr)) = Len(fr) - 1
      /\ \A k \in 1 .. Len(fr) - 1 : Front(fr)[k] = fr[k]
  BY FrameFacts
<1> DEFINE gr == Front(fr)
<1> HIDE DEF gr
<1> SUFFICES ASSUME NEW k \in 1 .. Len(fr) - 1 PROVE Links(gr, k)
  BY <1>1 DEF Linked, gr
<1>2. Links(fr, k) /\ gr[k] = fr[k] /\ (k > 1 => gr[k - 1] = fr[k - 1])
  BY <1>1 DEF Linked, gr
<1> QED BY <1>2 DEF Links

LEMMA LinkedAppend ==
  ASSUME NEW fr \in Seq(IntFrame), Linked(fr), NEW f \in IntFrame, Links(Append(fr, f), Len(fr) + 1)
  PROVE  Linked(Append(fr, f))
<1> DEFINE gr == Append(fr, f)
<1>1. /\ Len(gr) = Len(fr) + 1 /\ Len(fr) \in Nat
      /\ \A k \in 1 .. Len(fr) : gr[k] = fr[k]
  OBVIOUS
<1> HIDE DEF gr
<1> SUFFICES ASSUME NEW k \in 1 .. Len(fr) PROVE Links(gr, k)
  BY <1>1 DEF Linked, gr
<1>2. Links(fr, k) /\ gr[k] = fr[k] /\ (k > 1 => gr[k - 1] = fr[k - 1])
  BY <1>1 DEF Linked
<1> QED BY <1>2 DEF Links

-----------------------------------------------------------------------------
(* Homes and yields: the recursive functions have the values they are      *)
(* written to have, because what a block is part of is further out.        *)

HomeIn(fr, f) ==
    LET home[k \in 0 .. Len(fr)] ==
            IF k = 0 THEN 0
            ELSE IF fr[k].op = "block" THEN home[fr[k].parent]
            ELSE IF IsMethod(fr[k]) THEN k ELSE 0
    IN home[f]
YieldedIn(fr, f) ==
    LET by[k \in 1 .. Len(fr)] ==
            k > 1 /\ fr[k].op = "block" /\ (fr[k - 1].op # "native" \/ by[fr[k].parent])
    IN by[f]

HomeStep(fr, g, k) ==
    IF k = 0 THEN 0
    ELSE IF fr[k].op = "block" THEN g[fr[k].parent]
    ELSE IF IsMethod(fr[k]) THEN k ELSE 0
HomeUpTo(fr, g, n) ==
    /\ g = [k \in 0 .. n |-> g[k]]
    /\ \A k \in 0 .. n : g[k] \in 0 .. k /\ g[k] = HomeStep(fr, g, k)

LEMMA HomeExists ==
  ASSUME NEW fr, Len(fr) \in Nat, Linked(fr)
  PROVE  \E g : HomeUpTo(fr, g, Len(fr))
<1> DEFINE S == {n \in 0 .. Len(fr) : \E g : HomeUpTo(fr, g, n)}
<1>1. 0 \in S
  <2> DEFINE g == [k \in 0 .. 0 |-> 0]
  <2>1. HomeUpTo(fr, g, 0)
    BY DEF HomeUpTo, HomeStep
  <2> QED BY <2>1
<1>2. ASSUME NEW n \in 0 .. Len(fr) - 1, n \in S PROVE n + 1 \in S
  <2>1. PICK g : HomeUpTo(fr, g, n)
    BY <1>2
  <2> DEFINE h == [k \in 0 .. n + 1 |-> IF k = n + 1 THEN HomeStep(fr, g, k) ELSE g[k]]
  <2>2. \A k \in 0 .. n + 1 : k # 0 /\ fr[k].op = "block" => fr[k].parent \in 1 .. k - 1
    BY DEF Linked, Links
  <2>3. \A k \in 0 .. n + 1 : HomeStep(fr, h, k) = HomeStep(fr, g, k)
    BY <2>2 DEF HomeStep
  <2>4. \A k \in 0 .. n : h[k] = g[k] /\ g[k] \in 0 .. k /\ g[k] = HomeStep(fr, g, k)
    BY <2>1 DEF HomeUpTo
  <2>5. h[n + 1] = HomeStep(fr, g, n + 1)
    OBVIOUS
  <2>6. h = [k \in 0 .. n + 1 |-> h[k]]
    OBVIOUS
  <2> HIDE DEF h
  <2>7. fr[n + 1].op = "block" => fr[n + 1].parent \in 0 .. n
    BY <2>2
  <2>8. HomeStep(fr, g, n + 1) \in 0 .. n + 1
    BY <2>4, <2>7 DEF HomeStep
  <2>9. ASSUME NEW k \in 0 .. n + 1 PROVE h[k] \in 0 .. k /\ h[k] = HomeStep(fr, h, k)
    <3>1. CASE k = n + 1
      BY <2>3, <2>5, <2>8, <3>1
    <3>2. CASE k # n + 1
      BY <2>3, <2>4, <3>2
    <3> QED BY <3>1, <3>2
  <2>10. HomeUpTo(fr, h, n + 1)
    BY <2>6, <2>9 DEF HomeUpTo
  <2> QED BY <2>10
<1> HIDE DEF S
<1>3. 0 .. Len(fr) \subseteq S
  BY <1>1, <1>2, InductionTo
<1> QED BY <1>3 DEF S

LEMMA HomeUnfolds ==
  ASSUME NEW fr, Len(fr) \in Nat, Linked(fr), NEW k \in 1 .. Len(fr)
  PROVE  /\ HomeIn(fr, k) \in 0 .. k
         /\ fr[k].op = "block" => HomeIn(fr, k) = HomeIn(fr, fr[k].parent)
         /\ IsMethod(fr[k]) => HomeIn(fr, k) = k
         /\ fr[k].op # "block" /\ ~IsMethod(fr[k]) => HomeIn(fr, k) = 0
<1> DEFINE home == CHOOSE g : g = [j \in 0 .. Len(fr) |-> HomeStep(fr, g, j)]
<1>1. PICK g : HomeUpTo(fr, g, Len(fr))
  BY HomeExists
<1>2. g = [j \in 0 .. Len(fr) |-> HomeStep(fr, g, j)]
  BY <1>1 DEF HomeUpTo
<1>3. home = [j \in 0 .. Len(fr) |-> HomeStep(fr, home, j)]
  BY <1>2
<1>4. \A f : HomeIn(fr, f) = home[f]
  BY DEF HomeIn, HomeStep
<1> HIDE DEF home
<1>5. \A j \in 0 .. Len(fr) : home[j] = HomeStep(fr, home, j)
  BY <1>3
<1>6. \A j \in 0 .. Len(fr) : home[j] \in 0 .. j
  <2> DEFINE T == {j \in 0 .. Len(fr) : home[j] \notin 0 .. j}
  <2> SUFFICES ASSUME T # {} PROVE FALSE
    OBVIOUS
  <2>1. T \in SUBSET Nat
    OBVIOUS
  <2>2. PICK j \in T : \A m \in T : j <= m
    <3> HIDE DEF T
    <3> QED BY <2>1, Least
  <2>3. j # 0 => Links(fr, j)
    BY DEF Linked
  <2>4. j # 0 /\ fr[j].op = "block" => fr[j].parent \in 1 .. j - 1 /\ fr[j].parent \notin T
    BY <2>2, <2>3 DEF Links
  <2> QED BY <1>5, <2>4 DEF HomeStep
<1> QED BY <1>4, <1>5, <1>6 DEF HomeStep, IsMethod

(* A block that no method yielded to, nor to a block it is part of, is in  *)
(* a set of such blocks that has, with each of them, what it is part of.   *)
YieldStep(fr, g, k) ==
    k > 1 /\ fr[k].op = "block" /\ (fr[k - 1].op # "native" \/ g[fr[k].parent])
YieldsUpTo(fr, g, n) == g = [k \in 1 .. n |-> YieldStep(fr, g, k)]

LEMMA YieldsExist ==
  ASSUME NEW fr, Len(fr) \in Nat, Linked(fr)
  PROVE  \E g : YieldsUpTo(fr, g, Len(fr))
<1> DEFINE S == {n \in 0 .. Len(fr) : \E g : YieldsUpTo(fr, g, n)}
<1>1. 0 \in S
  <2> DEFINE g == [k \in 1 .. 0 |-> TRUE]
  <2>1. YieldsUpTo(fr, g, 0)
    BY DEF YieldsUpTo
  <2> QED BY <2>1
<1>2. ASSUME NEW n \in 0 .. Len(fr) - 1, n \in S PROVE n + 1 \in S
  <2>1. PICK g : YieldsUpTo(fr, g, n)
    BY <1>2
  <2> DEFINE h == [k \in 1 .. n + 1 |-> YieldStep(fr, g, k)]
  <2>2. \A k \in 1 .. n + 1 : fr[k].op = "block" => fr[k].parent \in 1 .. k - 1
    BY DEF Linked, Links
  <2>3. \A k \in 1 .. n : h[k] = g[k]
    BY <2>1 DEF YieldsUpTo
  <2> HIDE DEF h
  <2>4. \A k \in 1 .. n + 1 : YieldStep(fr, h, k) = YieldStep(fr, g, k)
    BY <2>2, <2>3 DEF YieldStep
  <2>5. YieldsUpTo(fr, h, n + 1)
    BY <2>4 DEF YieldsUpTo, h
  <2> QED BY <2>5
<1> HIDE DEF S
<1>3. 0 .. Len(fr) \subseteq S
  BY <1>1, <1>2, InductionTo
<1> QED BY <1>3 DEF S

LEMMA YieldUnfolds ==
  ASSUME NEW fr, Len(fr) \in Nat, Linked(fr), NEW k \in 1 .. Len(fr),
         fr[k].op = "block", ~YieldedIn(fr, k)
  PROVE  fr[k - 1].op = "native" /\ ~YieldedIn(fr, fr[k].parent)
<1> DEFINE by == CHOOSE g : g = [j \in 1 .. Len(fr) |-> YieldStep(fr, g, j)]
<1>1. PICK g : YieldsUpTo(fr, g, Len(fr))
  BY YieldsExist
<1>2. by = [j \in 1 .. Len(fr) |-> YieldStep(fr, by, j)]
  BY <1>1 DEF YieldsUpTo
<1>3. \A f : YieldedIn(fr, f) = by[f]
  BY DEF YieldedIn, YieldStep
<1> HIDE DEF by
<1>4. by[k] = YieldStep(fr, by, k)
  BY <1>2
<1>5. k > 1
  BY DEF Linked, Links
<1> QED BY <1>3, <1>4, <1>5 DEF YieldStep

-----------------------------------------------------------------------------
(* The shape of the frames *)

(* The frame at m, alone, has another depth and another handler.           *)
Tuned(gr, fr, m, d, h) ==
    /\ Retuned(gr, fr)
    /\ gr[m].depth = d /\ gr[m].handler = h
    /\ \A k \in 1 .. Len(fr) : k # m => gr[k] = fr[k]

(* The same frame, but for what its code is doing.                         *)
Alike(g, f) == /\ g \in IntFrame
               /\ g.op = f.op /\ g.base = f.base /\ g.tbase = f.tbase
               /\ g.blk = f.blk /\ g.parent = f.parent

LEMMA DepthTunes ==
  ASSUME NEW f \in IntFrame, NEW d \in Int
  PROVE  /\ Alike([f EXCEPT !["depth"] = d], f)
         /\ [f EXCEPT !["depth"] = d].depth = d /\ [f EXCEPT !["depth"] = d].handler = f.handler
  BY DEF IntFrame, Alike

LEMMA HandlerTunes ==
  ASSUME NEW f \in IntFrame, NEW h \in Int
  PROVE  /\ Alike([f EXCEPT !["handler"] = h], f)
         /\ [f EXCEPT !["handler"] = h].depth = f.depth /\ [f EXCEPT !["handler"] = h].handler = h
  BY DEF IntFrame, Alike

LEMMA ReplaceTunes ==
  ASSUME NEW fr \in Seq(IntFrame), NEW m \in 1 .. Len(fr), NEW g, Alike(g, fr[m])
  PROVE  Tuned([fr EXCEPT ![m] = g], fr, m, g.depth, g.handler)
<1>1. g \in IntFrame
  BY DEF Alike
<1> DEFINE gr == [fr EXCEPT ![m] = g]
<1>2. gr \in Seq(IntFrame) /\ Len(gr) = Len(fr) /\ gr[m] = g /\ \A k \in 1 .. Len(fr) : k # m => gr[k] = fr[k]
  BY <1>1
<1> HIDE DEF gr
<1>3. Tuned(gr, fr, m, g.depth, g.handler)
  BY <1>2 DEF Tuned, Retuned, Alike
<1> QED BY <1>3 DEF gr

LEMMA UpdateTunes ==
  ASSUME frames \in Seq(IntFrame), frames # <<>>, NEW v \in Int
  PROVE  /\ Tuned(Update("depth", v), frames, cur, v, top.handler)
         /\ Tuned(Update("handler", v), frames, cur, top.depth, v)
<1>1. cur \in 1 .. Len(frames) /\ top = frames[cur] /\ frames[cur] \in IntFrame
  <2>1. Len(frames) \in Nat \ {0} /\ Last(frames) = frames[Len(frames)] /\ Last(frames) \in IntFrame
    BY FrameFacts
  <2> QED BY <2>1 DEF cur, top
<1>2. Tuned([frames EXCEPT ![cur] = [top EXCEPT !["depth"] = v]], frames, cur, v, top.handler)
  <2> DEFINE g == [top EXCEPT !["depth"] = v]
  <2>1. Alike(g, frames[cur]) /\ g.depth = v /\ g.handler = top.handler
    BY <1>1, DepthTunes
  <2> HIDE DEF g
  <2>2. Tuned([frames EXCEPT ![cur] = g], frames, cur, g.depth, g.handler)
    BY <1>1, <2>1, ReplaceTunes
  <2> QED BY <2>1, <2>2 DEF g
<1>3. Tuned([frames EXCEPT ![cur] = [top EXCEPT !["handler"] = v]], frames, cur, top.depth, v)
  <2> DEFINE g == [top EXCEPT !["handler"] = v]
  <2>1. Alike(g, frames[cur]) /\ g.depth = top.depth /\ g.handler = v
    BY <1>1, HandlerTunes
  <2> HIDE DEF g
  <2>2. Tuned([frames EXCEPT ![cur] = g], frames, cur, g.depth, g.handler)
    BY <1>1, <2>1, ReplaceTunes
  <2> QED BY <2>1, <2>2 DEF g
<1> QED BY <1>2, <1>3 DEF Update

LEMMA RescueTunes ==
  ASSUME NEW fr \in Seq(IntFrame), NEW m \in 1 .. Len(fr), NEW d \in Int, NEW h \in Int
  PROVE  /\ Tuned([fr EXCEPT ![m].depth = d, ![m].handler = h], fr, m, d, h)
         /\ Tuned([fr EXCEPT ![m].depth = d], fr, m, d, fr[m].handler)
<1>1. fr[m] \in IntFrame
  OBVIOUS
<1>2. Tuned([fr EXCEPT ![m] = [fr[m] EXCEPT !.depth = d, !.handler = h]], fr, m, d, h)
  <2> DEFINE g == [fr[m] EXCEPT !.depth = d, !.handler = h]
  <2>1. Alike(g, fr[m]) /\ g.depth = d /\ g.handler = h
    BY <1>1 DEF Alike, IntFrame
  <2> HIDE DEF g
  <2>2. Tuned([fr EXCEPT ![m] = g], fr, m, g.depth, g.handler)
    BY <2>1, ReplaceTunes
  <2> QED BY <2>1, <2>2 DEF g
<1>3. [fr EXCEPT ![m].depth = d, ![m].handler = h] = [fr EXCEPT ![m] = [fr[m] EXCEPT !.depth = d, !.handler = h]]
  OBVIOUS
<1>4. Tuned([fr EXCEPT ![m] = [fr[m] EXCEPT !["depth"] = d]], fr, m, d, fr[m].handler)
  <2> DEFINE g == [fr[m] EXCEPT !["depth"] = d]
  <2>1. Alike(g, fr[m]) /\ g.depth = d /\ g.handler = fr[m].handler
    BY <1>1, DepthTunes
  <2> HIDE DEF g
  <2>2. Tuned([fr EXCEPT ![m] = g], fr, m, g.depth, g.handler)
    BY <2>1, ReplaceTunes
  <2> QED BY <2>1, <2>2 DEF g
<1>5. [fr EXCEPT ![m].depth = d] = [fr EXCEPT ![m] = [fr[m] EXCEPT !["depth"] = d]]
  OBVIOUS
<1> QED BY <1>2, <1>3, <1>4, <1>5

LEMMA RetunedSame ==
  ASSUME NEW fr \in Seq(IntFrame)
  PROVE  Retuned(fr, fr)
  BY DEF Retuned

LEMMA DeliveryTunes ==
  ASSUME NEW fr \in Seq(IntFrame), fr # <<>>
  PROVE  Tuned([fr EXCEPT ![Len(fr)].depth = @ + 1], fr, Len(fr), Last(fr).depth + 1, Last(fr).handler)
<1>1. Len(fr) \in 1 .. Len(fr) /\ Last(fr) = fr[Len(fr)] /\ fr[Len(fr)] \in IntFrame
  <2>1. Len(fr) \in Nat \ {0} /\ Last(fr) = fr[Len(fr)] /\ Last(fr) \in IntFrame
    BY FrameFacts
  <2> QED BY <2>1
<1>2. fr[Len(fr)].depth + 1 \in Int
  BY <1>1 DEF IntFrame
<1>3. [fr EXCEPT ![Len(fr)].depth = @ + 1] = [fr EXCEPT ![Len(fr)].depth = fr[Len(fr)].depth + 1]
  OBVIOUS
<1> QED BY <1>1, <1>2, <1>3, RescueTunes

-----------------------------------------------------------------------------
(* A step leaves the calls in progress as they are, begins one or ends the *)
(* innermost one, and does with the three stacks what goes with that.      *)

Keeps ==
    /\ Retuned(frames', frames)
    /\ classes' = classes
    /\ temp' = temp \/ (frames # <<>> /\ top.op = "native" /\ temp' = temp + 1)

Starts(f) ==
    /\ f \in IntFrame /\ Links(Append(frames, f), cur + 1)
    /\ f.tbase = temp /\ f.base = len /\ f.depth = 0 /\ f.handler = NoHandler
    /\ cur < MaxFrames /\ frames' = Append(frames, f)
    /\ classes' = IF f.op = "class" THEN classes + 1 ELSE classes
    /\ temp' = IF f.op = "native" THEN temp + 1 ELSE temp

Ends ==
    /\ frames # <<>>
    /\ Retuned(frames', Front(frames))
    /\ classes' = ClassPop(top)
    /\ temp' = IF top.op = "native" THEN top.tbase ELSE temp

Kinds == Keeps \/ (\E f : Starts(f)) \/ Ends

LEMMA TopFacts ==
  ASSUME Shape, frames # <<>>
  PROVE  /\ cur \in Nat \ {0} /\ top = frames[cur] /\ top \in IntFrame /\ Len(frames) = cur
         /\ Front(frames) \in Seq(IntFrame) /\ Len(Front(frames)) = cur - 1
         /\ \A k \in 1 .. cur - 1 : Front(frames)[k] = frames[k]
  BY FrameFacts DEF Shape, cur, top

LEMMA NewFrameFacts ==
  ASSUME Shape, cur < MaxFrames, NEW op \in Ruby \cup {"native"},
         NEW blk \in 0 .. MaxFrames, NEW parent \in 0 .. MaxFrames,
         blk \in 0 .. cur,
         op = "native" => cur > 0 /\ blk = cur /\ top.op \in Ruby,
         op = "block" => /\ cur > 0 /\ parent \in 1 .. cur
                         /\ top.op = "native" => parent = top.blk,
         frames' = Append(frames, NewFrame(op, blk, parent)),
         classes' = IF op = "class" THEN classes + 1 ELSE classes,
         temp' = IF op = "native" THEN temp + 1 ELSE temp
  PROVE  Kinds
<1> DEFINE f == NewFrame(op, blk, parent)
<1>1. f \in IntFrame
  BY DEF NewFrame, IntFrame, Shape, NoHandler
<1>2. f.op = op /\ f.blk = blk /\ f.parent = parent /\ f.tbase = temp /\ f.base = len /\ f.depth = 0 /\ f.handler = NoHandler
  BY DEF NewFrame
<1> HIDE DEF f
<1>3. cur \in Nat /\ Append(frames, f)[cur + 1] = f /\ (cur > 0 => Append(frames, f)[cur] = top)
  <2>1. cur \in Nat /\ frames \in Seq(IntFrame)
    BY DEF Shape, cur
  <2>2. cur > 0 => top = frames[cur]
    BY TopFacts DEF cur
  <2> QED BY <1>1, <2>1, <2>2 DEF cur
<1>4. Links(Append(frames, f), cur + 1)
  <2> DEFINE gr == Append(frames, f)
  <2>1. gr[cur + 1] = f /\ (cur > 0 => gr[cur] = top)
    BY ONLY <1>3
  <2> HIDE DEF gr
  <2>2. (cur + 1) - 1 = cur /\ cur \in Nat
    <3>1. cur \in Nat
      BY <1>3
    <3> HIDE DEF cur
    <3> QED BY <3>1
  <2>3. Links(gr, cur + 1)
    BY <1>2, <2>1, <2>2 DEF Links
  <2> QED BY <2>3 DEF gr
<1>5. Starts(f)
  BY <1>1, <1>2, <1>4 DEF Starts, f
<1> QED BY <1>5 DEF Kinds

LEMMA StepKinds ==
  ASSUME Shape, Next
  PROVE  Kinds /\ ErrOK' /\ len' \in Int
<1> USE DEF Shape
<1>0. MaxFrames \in Nat
  BY RunContextAssumption
<1>1. len \in Int /\ len + 1 \in Int /\ len - 1 \in Int /\ NoErr \in Errors \cup {NoErr} /\ NoErr.at # "thrown"
  BY DEF NoErr
<1>2. ASSUME UNCHANGED err, err = NoErr PROVE ErrOK'
  BY <1>1, <1>2 DEF ErrOK
<1>3. ASSUME err' = NoErr PROVE ErrOK'
  BY <1>1, <1>3 DEF ErrOK
<1>4. ASSUME UNCHANGED <<frames, temp, classes>> PROVE Kinds
  BY <1>4, RetunedSame DEF Kinds, Keeps
<1>5. ASSUME NEW m, NEW d, NEW h, Tuned(frames', frames, m, d, h), UNCHANGED <<temp, classes>> PROVE Kinds
  BY <1>5 DEF Kinds, Keeps, Tuned
<1>6. CASE PushOperand
  <2>1. frames # <<>> /\ top.depth + 1 \in Int /\ frames' = Update("depth", top.depth + 1)
    BY <1>6, TopFacts DEF PushOperand, InRuby, IntFrame
  <2>2. Tuned(frames', frames, cur, top.depth + 1, top.handler)
    BY <2>1, UpdateTunes
  <2> QED BY <1>1, <1>2, <1>5, <1>6, <2>2 DEF PushOperand, InRuby
<1>7. CASE PopOperand
  <2>1. frames # <<>> /\ top.depth - 1 \in Int /\ frames' = Update("depth", top.depth - 1)
    BY <1>7, TopFacts DEF PopOperand, InRuby, IntFrame
  <2>2. Tuned(frames', frames, cur, top.depth - 1, top.handler)
    BY <2>1, UpdateTunes
  <2> QED BY <1>1, <1>2, <1>5, <1>7, <2>2 DEF PopOperand, InRuby
<1>8. CASE Begin
  <2>1. frames # <<>> /\ top.depth \in Int /\ frames' = Update("handler", top.depth)
    BY <1>8, TopFacts DEF Begin, InRuby, IntFrame
  <2>2. Tuned(frames', frames, cur, top.depth, top.depth)
    BY <2>1, UpdateTunes
  <2> QED BY <1>1, <1>2, <1>5, <1>8, <2>2 DEF Begin, InRuby
<1>9. CASE EndBegin
  <2>1. frames # <<>> /\ NoHandler \in Int /\ frames' = Update("handler", NoHandler)
    BY <1>9 DEF EndBegin, InRuby, NoHandler
  <2>2. Tuned(frames', frames, cur, top.depth, NoHandler)
    BY <2>1, UpdateTunes
  <2> QED BY <1>1, <1>2, <1>5, <1>9, <2>2 DEF EndBegin, InRuby
<1>10. CASE TempPush
  <2>1. Keeps
    BY <1>10, RetunedSame DEF TempPush, InNative, Keeps
  <2> QED BY <1>1, <1>2, <1>10, <2>1 DEF TempPush, InNative, Kinds
<1>11. CASE \E blk \in 0 .. MaxFrames : CallMethod(blk)
  <2>1. PICK blk \in 0 .. MaxFrames : CallMethod(blk)
    BY <1>11
  <2>2. frames # <<>> /\ blk \in 0 .. cur /\ cur < MaxFrames /\ 0 \in 0 .. MaxFrames
    BY <2>1, <1>0, TopFacts DEF CallMethod, MayCall, InRuby, Pushed
  <2>3. Kinds
    BY <2>1, <2>2, NewFrameFacts DEF CallMethod, Pushed, Ruby
  <2> QED BY <1>1, <1>2, <2>1, <2>3 DEF CallMethod, MayCall, InRuby
<1>12. CASE CallNative
  <2>1. /\ frames # <<>> /\ cur \in 0 .. cur /\ cur > 0 /\ cur < MaxFrames /\ 0 \in 0 .. MaxFrames
        /\ top.op \in Ruby /\ cur \in 0 .. MaxFrames
    BY <1>12, <1>0, TopFacts DEF CallNative, MayCall, InRuby, Pushed
  <2>2. Kinds
    BY <1>12, <2>1, NewFrameFacts DEF CallNative, Pushed
  <2> QED BY <1>1, <1>2, <1>12, <2>2 DEF CallNative, MayCall, InRuby
<1>13. CASE DefClass
  <2>1. frames # <<>> /\ 0 \in 0 .. cur /\ cur < MaxFrames /\ 0 \in 0 .. MaxFrames
    BY <1>13, <1>0, TopFacts DEF DefClass, MayCall, InRuby, Pushed
  <2>2. Kinds
    BY <1>13, <2>1, NewFrameFacts DEF DefClass, Pushed, Ruby
  <2> QED BY <1>1, <1>2, <1>13, <2>2 DEF DefClass, MayCall, InRuby
<1>14. CASE NativeCallsBlock
  <2>1. /\ frames # <<>> /\ cur > 0 /\ 0 \in 0 .. cur /\ cur < MaxFrames /\ 0 \in 0 .. MaxFrames
        /\ top.blk \in 1 .. cur /\ top.blk \in 0 .. MaxFrames
    <3>1. frames # <<>> /\ cur < MaxFrames /\ top.blk # 0
      BY <1>14 DEF NativeCallsBlock, InNative, Pushed
    <3>2. Links(frames, cur) /\ top = frames[cur] /\ cur \in Nat \ {0} /\ top \in IntFrame
      BY <3>1, TopFacts DEF Linked
    <3>3. top.blk \in 0 .. cur - 1
      BY <3>2 DEF Links
    <3> QED BY <1>0, <3>1, <3>2, <3>3
  <2>2. Kinds
    BY <1>14, <2>1, NewFrameFacts DEF NativeCallsBlock, Pushed, Ruby
  <2> QED BY <1>1, <1>2, <1>14, <2>2 DEF NativeCallsBlock, InNative
<1>15. CASE Yield
  <2> DEFINE b == frames[Home(cur)].blk
  <2>1. /\ frames # <<>> /\ cur > 0 /\ 0 \in 0 .. cur /\ cur < MaxFrames /\ 0 \in 0 .. MaxFrames
        /\ b \in 1 .. cur /\ b \in 0 .. MaxFrames /\ top.op # "native"
    <3>1. frames # <<>> /\ cur < MaxFrames /\ b # 0 /\ Home(cur) # 0 /\ top.op # "native"
      BY <1>15 DEF Yield, MayCall, InRuby, Pushed, Ruby
    <3>2. cur \in Nat \ {0} /\ Len(frames) = cur /\ Linked(frames)
      BY <3>1, TopFacts
    <3>3. Home(cur) = HomeIn(frames, cur)
      BY DEF Home, HomeIn, cur
    <3>4. Home(cur) \in 1 .. cur
      BY <3>1, <3>2, <3>3, HomeUnfolds
    <3>5. Links(frames, Home(cur)) /\ frames[Home(cur)] \in IntFrame
      BY <3>2, <3>4 DEF Linked
    <3>6. b \in 0 .. Home(cur) - 1
      BY <3>5 DEF Links
    <3> HIDE DEF b
    <3> QED BY <1>0, <3>1, <3>2, <3>4, <3>6
  <2>2. frames' = Append(frames, NewFrame("block", 0, b)) /\ UNCHANGED <<len, temp, classes, err>>
    BY <1>15 DEF Yield, Pushed
  <2>3. Kinds
    <3> HIDE DEF b
    <3> QED BY <2>1, <2>2, NewFrameFacts DEF Ruby
  <2> QED BY <1>1, <1>2, <1>15, <2>2, <2>3 DEF Yield, MayCall, InRuby
<1>16. ASSUME frames # <<>>,
              \/ frames' = Front(frames)
              \/ Front(frames) # <<>> /\ frames' = [Front(frames) EXCEPT ![Len(Front(frames))].depth = @ + 1],
              classes' = ClassPop(top), temp' = IF top.op = "native" THEN top.tbase ELSE temp
       PROVE  Kinds
  <2>1. Front(frames) \in Seq(IntFrame)
    BY <1>16, TopFacts
  <2>2. Retuned(frames', Front(frames))
    BY <1>16, <2>1, RetunedSame, DeliveryTunes DEF Tuned
  <2> QED BY <1>16, <2>2 DEF Kinds, Ends
<1>17. CASE End
  <2>1. Kinds
    BY <1>16, <1>17 DEF End, InRuby, Delivered, Ruby
  <2> QED BY <1>1, <1>2, <1>17, <2>1 DEF End, InRuby, Delivered
<1>18. CASE NativeEnd
  <2>1. Kinds
    BY <1>16, <1>18 DEF NativeEnd, InNative, Delivered, NativeTemp, ClassPop
  <2> QED BY <1>1, <1>2, <1>18, <2>1 DEF NativeEnd, InNative, Delivered
<1>19. CASE Throw
  <2>1. frames # <<>> /\ top' = top /\ frames' = frames
        /\ (top.op = "native" \/ top.op \in Ruby)
    BY <1>19 DEF Throw, InRuby, InNative, top
  <2>2. err' \in Errors /\ (err'.at = "thrown" => top.op # "native")
    <3>1. CASE top.op = "native"
      <4>1. err' = [kind |-> "raise", at |-> "received", parent |-> 0, home |-> 0]
        BY <1>19, <3>1 DEF Throw, NoErr
      <4> QED BY <1>0, <4>1 DEF Errors
    <3>2. CASE top.op # "native"
      <4>1. err' = [kind |-> "raise", at |-> "thrown", parent |-> 0, home |-> 0]
        BY <1>19, <3>2 DEF Throw, NoErr
      <4> QED BY <1>0, <3>2, <4>1 DEF Errors
    <3> QED BY <3>1, <3>2
  <2>3. ErrOK'
    BY <2>1, <2>2 DEF ErrOK
  <2> QED BY <1>1, <1>4, <1>19, <2>3 DEF Throw
<1>20. CASE \E kind \in {"break", "return"} : Jump(kind)
  <2>1. PICK kind \in {"break", "return"} : Jump(kind)
    BY <1>20
  <2>2. frames # <<>> /\ top' = top /\ frames' = frames /\ top.op \in Ruby
    BY <2>1 DEF Jump, InRuby, top
  <2>3. top.parent \in 0 .. MaxFrames
    BY <2>2, TopFacts DEF IntFrame
  <2>4. Home(cur) \in 0 .. MaxFrames
    <3>1. cur \in Nat \ {0} /\ Len(frames) = cur /\ Linked(frames) /\ cur <= MaxFrames
      BY <2>2, TopFacts DEF cur
    <3>2. Home(cur) = HomeIn(frames, cur)
      BY DEF Home, HomeIn, cur
    <3>3. Home(cur) \in 0 .. cur
      BY <3>1, <3>2, HomeUnfolds
    <3> QED BY <1>0, <3>1, <3>3
  <2>5. err' \in Errors
    BY <2>1, <2>3, <2>4 DEF Jump, Errors
  <2>6. ErrOK'
    BY <2>2, <2>5 DEF ErrOK
  <2> QED BY <1>1, <1>4, <2>1, <2>6 DEF Jump
<1>21. ASSUME err.at \in {"thrown", "received"}
       PROVE  err \in Errors /\ [err EXCEPT !.at = "received"] \in Errors /\ [err EXCEPT !.at = "thrown"] \in Errors
  BY <1>21 DEF ErrOK, Errors, NoErr
<1>22. ASSUME err.at \in {"thrown", "received"}, err' = [err EXCEPT !.at = "received"]
       PROVE  ErrOK'
  BY <1>21, <1>22 DEF ErrOK, Errors
<1>23. ASSUME NEW n \in Int, frames # <<>>, top.op # "native", Leave(n) PROVE Kinds /\ len' \in Int
  BY <1>16, <1>23 DEF Leave
<1>24. ASSUME err.at = "thrown" PROVE frames # <<>> /\ top.op # "native" /\ top.base \in Int /\ top.base + 1 \in Int
  <2>1. frames # <<>> /\ top.op \in Ruby
    BY <1>24 DEF ErrOK
  <2>2. top \in IntFrame
    BY <2>1, TopFacts
  <2>3. top.base \in Int
    BY <2>2 DEF IntFrame
  <2>4. top.op # "native"
    BY <2>1 DEF Ruby
  <2> QED BY <2>1, <2>3, <2>4
<1>25. CASE JumpLeaves
  <2>1. frames' = Front(frames) /\ classes' = ClassPop(top) /\ temp' = temp
    BY <1>25 DEF JumpLeaves, Leave
  <2>2. Kinds
    BY <1>16, <1>24, <1>25, <2>1 DEF JumpLeaves
  <2> QED BY <1>22, <1>24, <1>25, <2>2 DEF JumpLeaves, Leave, CutTo
<1>26. CASE RaiseLeaves
  <2>1. frames' = Front(frames) /\ classes' = ClassPop(top) /\ temp' = temp
    BY <1>26 DEF RaiseLeaves, Leave
  <2>2. Kinds
    BY <1>16, <1>24, <1>26, <2>1 DEF RaiseLeaves
  <2> QED BY <1>22, <1>24, <1>26, <2>2 DEF RaiseLeaves, Leave, CutTo
<1>27. CASE Rescue
  <2>0. cur \in Nat \ {0} /\ Len(frames) = cur /\ top \in IntFrame
    BY <1>24, <1>27, TopFacts DEF Rescue
  <2>1. cur \in 1 .. Len(frames) /\ top.handler + 1 \in Int
    BY <2>0 DEF IntFrame
  <2>2. NoHandler \in Int
    BY DEF NoHandler
  <2>3. Tuned([frames EXCEPT ![cur].depth = top.handler + 1, ![cur].handler = NoHandler],
              frames, cur, top.handler + 1, NoHandler)
    BY <2>1, <2>2, RescueTunes
  <2> QED BY <1>3, <1>5, <1>24, <1>27, <2>3 DEF Rescue
<1>28. CASE NativeFails
  <2>1. Kinds
    BY <1>16, <1>28 DEF NativeFails, NativeTemp, ClassPop
  <2>2. ErrOK'
    BY <1>28 DEF NativeFails, ErrOK
  <2> QED BY <1>1, <1>28, <2>1, <2>2 DEF NativeFails
<1>29. CASE NativeCatches
  BY <1>1, <1>3, <1>4, <1>29 DEF NativeCatches
<1>30. CASE BreakArrives
  <2>1. frames # <<>> /\ top.depth + 1 \in Int /\ frames' = Update("depth", top.depth + 1)
    BY <1>30, TopFacts DEF BreakArrives, InCode, IntFrame
  <2>2. Tuned(frames', frames, cur, top.depth + 1, top.handler)
    BY <2>1, UpdateTunes
  <2> QED BY <1>1, <1>3, <1>5, <1>30, <2>2 DEF BreakArrives
<1>31. CASE ReturnArrives
  <2>1. Kinds
    BY <1>16, <1>31 DEF ReturnArrives, InCode, Delivered, TakesReturn, ClassPop, IsMethod
  <2> QED BY <1>1, <1>3, <1>31, <2>1 DEF ReturnArrives, Delivered
<1>32. CASE PassOn
  <2>1. ErrOK'
    BY <1>21, <1>32 DEF PassOn, InCode, ErrOK, top
  <2> QED BY <1>1, <1>4, <1>32, <2>1 DEF PassOn
<1> QED BY <1>6, <1>7, <1>8, <1>9, <1>10, <1>11, <1>12, <1>13, <1>14, <1>15, <1>17, <1>18, <1>19, <1>20,
           <1>25, <1>26, <1>27, <1>28, <1>29, <1>30, <1>31, <1>32 DEF Next

LEMMA ShapeStep ==
  ASSUME Shape, [Next]_vars
  PROVE  Shape'
<1>1. CASE Next
  <2>1. Kinds /\ ErrOK' /\ len' \in Int
    BY <1>1, StepKinds
  <2>2. /\ frames' \in Seq(IntFrame) /\ Len(frames') <= MaxFrames /\ Linked(frames')
        /\ temp' \in Int /\ classes' \in Int
    <3>1. CASE Keeps
      BY <3>1, LinkedRetuned DEF Keeps, Retuned, Shape
    <3>2. CASE \E f : Starts(f)
      <4>1. PICK f : Starts(f)
        BY <3>2
      <4>2. Linked(Append(frames, f)) /\ frames \in Seq(IntFrame)
        BY <4>1, LinkedAppend DEF Starts, Shape, cur
      <4>3. Len(frames') = cur + 1 /\ frames' \in Seq(IntFrame) /\ MaxFrames \in Nat /\ cur \in Nat
        BY <4>1, <4>2, RunContextAssumption DEF Starts, cur
      <4> QED BY <4>1, <4>2, <4>3 DEF Starts, Shape
    <3>3. CASE Ends
      <4>1. top \in IntFrame /\ Linked(Front(frames)) /\ Len(Front(frames)) = cur - 1
            /\ cur = Len(frames) /\ cur \in Nat \ {0}
        BY <3>3, TopFacts, LinkedFront DEF Ends, Shape
      <4>2. Linked(frames')
        BY <3>3, <4>1, LinkedRetuned DEF Ends
      <4>3. MaxFrames \in Nat /\ top.tbase \in Int
        BY <4>1, RunContextAssumption DEF IntFrame
      <4> QED BY <3>3, <4>1, <4>2, <4>3 DEF Ends, Retuned, Shape, ClassPop
    <3> QED BY <2>1, <3>1, <3>2, <3>3 DEF Kinds
  <2> QED BY <2>1, <2>2 DEF Shape
<1>2. CASE UNCHANGED vars
  BY <1>2 DEF vars, Shape, ErrOK, Linked, Links, top
<1> QED BY <1>1, <1>2

LEMMA ShapeInit ==
  ASSUME Init
  PROVE  Shape
<1>1. MaxFrames \in Nat \ {0}
  BY RunContextAssumption
<1>2. frames \in Seq(IntFrame) /\ Len(frames) = 1 /\ frames[1].op = "top" /\ frames[1].blk = 0
  BY <1>1 DEF Init, IntFrame, Ruby, NoHandler
<1>3. Linked(frames)
  BY <1>2 DEF Linked, Links
<1>4. ErrOK
  BY DEF Init, ErrOK, NoErr
<1> QED BY <1>1, <1>2, <1>3, <1>4 DEF Init, Shape

-----------------------------------------------------------------------------
(* Temporaries and open classes *)

BodiesOf(fr) == {k \in 1 .. Len(fr) : fr[k].op = "class"}
NoNative(fr, k) == \A j \in 1 .. k : fr[j].op # "native"

Counted ==
    /\ classes = Cardinality(BodiesOf(frames))
    /\ \A k \in 1 .. Len(frames) : NoNative(frames, k - 1) => frames[k].tbase = 0
    /\ NoNative(frames, Len(frames)) => temp = 0

LEMMA BodiesFacts ==
  ASSUME NEW fr \in Seq(IntFrame)
  PROVE  /\ IsFiniteSet(BodiesOf(fr))
         /\ \A gr : Retuned(gr, fr) => BodiesOf(gr) = BodiesOf(fr)
         /\ \A f \in IntFrame : Cardinality(BodiesOf(Append(fr, f)))
                = Cardinality(BodiesOf(fr)) + (IF f.op = "class" THEN 1 ELSE 0)
         /\ fr # <<>> => Cardinality(BodiesOf(Front(fr)))
                = Cardinality(BodiesOf(fr)) - (IF Last(fr).op = "class" THEN 1 ELSE 0)
<1>1. \A gr \in Seq(IntFrame) : IsFiniteSet(BodiesOf(gr)) /\ Cardinality(BodiesOf(gr)) \in Nat
  <2> SUFFICES ASSUME NEW gr \in Seq(IntFrame) PROVE IsFiniteSet(BodiesOf(gr)) /\ Cardinality(BodiesOf(gr)) \in Nat
    OBVIOUS
  <2>1. IsFiniteSet(1 .. Len(gr)) /\ BodiesOf(gr) \in SUBSET (1 .. Len(gr))
    BY FS_Interval DEF BodiesOf
  <2>2. IsFiniteSet(BodiesOf(gr))
    BY <2>1, FS_Subset
  <2> QED BY <2>2, FS_CardinalityType
<1>2. ASSUME NEW gr, Retuned(gr, fr) PROVE BodiesOf(gr) = BodiesOf(fr)
  BY <1>2 DEF Retuned, BodiesOf
<1>3. ASSUME NEW f \in IntFrame
      PROVE  Cardinality(BodiesOf(Append(fr, f))) = Cardinality(BodiesOf(fr)) + (IF f.op = "class" THEN 1 ELSE 0)
  <2>1. BodiesOf(Append(fr, f)) = IF f.op = "class" THEN BodiesOf(fr) \cup {Len(fr) + 1} ELSE BodiesOf(fr)
    <3> DEFINE gr == Append(fr, f)
    <3>1. Len(gr) = Len(fr) + 1 /\ Len(fr) \in Nat /\ gr[Len(fr) + 1] = f
          /\ \A k \in 1 .. Len(fr) : gr[k] = fr[k]
      OBVIOUS
    <3> HIDE DEF gr
    <3>2. BodiesOf(gr) = IF f.op = "class" THEN BodiesOf(fr) \cup {Len(fr) + 1} ELSE BodiesOf(fr)
      BY <3>1 DEF BodiesOf
    <3> QED BY <3>2 DEF gr
  <2>2. Len(fr) + 1 \notin BodiesOf(fr)
    BY DEF BodiesOf
  <2>3. Cardinality(BodiesOf(fr) \cup {Len(fr) + 1}) = Cardinality(BodiesOf(fr)) + 1
    BY <1>1, <2>2, FS_AddElement
  <2> QED BY <1>1, <2>1, <2>3
<1>4. ASSUME fr # <<>>
      PROVE  Cardinality(BodiesOf(Front(fr))) = Cardinality(BodiesOf(fr)) - (IF Last(fr).op = "class" THEN 1 ELSE 0)
  <2>1. /\ Len(fr) \in Nat \ {0} /\ Last(fr) = fr[Len(fr)] /\ Len(Front(fr)) = Len(fr) - 1
        /\ \A k \in 1 .. Len(fr) - 1 : Front(fr)[k] = fr[k]
    BY <1>4, FrameFacts
  <2>2. BodiesOf(Front(fr)) = BodiesOf(fr) \ {Len(fr)} /\ (Len(fr) \in BodiesOf(fr) <=> Last(fr).op = "class")
    <3> DEFINE gr == Front(fr)
    <3> HIDE DEF gr
    <3>1. BodiesOf(gr) = BodiesOf(fr) \ {Len(fr)}
      BY <2>1 DEF BodiesOf, gr
    <3>2. Len(fr) \in BodiesOf(fr) <=> Last(fr).op = "class"
      BY <2>1 DEF BodiesOf
    <3> QED BY <3>1, <3>2 DEF gr
  <2>3. Cardinality(BodiesOf(fr) \ {Len(fr)})
           = IF Len(fr) \in BodiesOf(fr) THEN Cardinality(BodiesOf(fr)) - 1 ELSE Cardinality(BodiesOf(fr))
    BY <1>1, FS_RemoveElement
  <2> QED BY <1>1, <2>2, <2>3
<1> QED BY <1>1, <1>2, <1>3, <1>4

LEMMA CountedStep ==
  ASSUME Shape, Counted, [Next]_vars
  PROVE  Counted'
<1>1. CASE UNCHANGED vars
  BY <1>1 DEF vars, Counted, BodiesOf, NoNative
<1>2. CASE Next
  <2>0. frames \in Seq(IntFrame)
    BY DEF Shape
  <2>1. CASE Keeps
    <3>1. BodiesOf(frames') = BodiesOf(frames)
      BY <2>0, <2>1, BodiesFacts DEF Keeps
    <3>2. \A k \in 1 .. Len(frames') : NoNative(frames', k - 1) => frames'[k].tbase = 0
      BY <2>0, <2>1 DEF Keeps, Retuned, Counted, NoNative
    <3>3. NoNative(frames', Len(frames')) => temp' = 0
      <4> SUFFICES ASSUME NoNative(frames', Len(frames')) PROVE temp' = 0
        OBVIOUS
      <4>1. NoNative(frames, Len(frames))
        BY <2>0, <2>1 DEF Keeps, Retuned, NoNative
      <4>2. frames # <<>> => top.op # "native"
        BY <4>1, TopFacts DEF NoNative
      <4> QED BY <2>1, <4>1, <4>2 DEF Keeps, Counted
    <3> QED BY <2>1, <3>1, <3>2, <3>3 DEF Keeps, Counted
  <2>2. CASE \E f : Starts(f)
    <3>1. PICK f : Starts(f)
      BY <2>2
    <3>2. f \in IntFrame /\ frames' = Append(frames, f) /\ f.tbase = temp
      BY <3>1 DEF Starts
    <3>3. /\ Len(frames') = cur + 1 /\ cur \in Nat /\ frames'[cur + 1] = f /\ cur = Len(frames)
          /\ \A k \in 1 .. cur : frames'[k] = frames[k]
      BY <2>0, <3>2 DEF cur
    <3>4. \A k \in 1 .. cur + 1 : NoNative(frames', k - 1) => frames'[k].tbase = 0
      <4> SUFFICES ASSUME NEW k \in 1 .. cur + 1, NoNative(frames', k - 1) PROVE frames'[k].tbase = 0
        OBVIOUS
      <4>1. NoNative(frames, k - 1)
        BY <3>3 DEF NoNative
      <4>2. CASE k = cur + 1
        BY <3>2, <3>3, <4>1, <4>2 DEF Counted
      <4>3. CASE k # cur + 1
        BY <3>3, <4>1, <4>3 DEF Counted
      <4> QED BY <4>2, <4>3
    <3>5. NoNative(frames', cur + 1) => temp' = 0
      <4> SUFFICES ASSUME NoNative(frames', cur + 1) PROVE temp' = 0
        OBVIOUS
      <4>1. NoNative(frames, cur) /\ f.op # "native"
        BY <3>3 DEF NoNative
      <4> QED BY <3>1, <3>3, <4>1 DEF Counted, Starts
    <3>6. classes' = Cardinality(BodiesOf(frames'))
      <4>1. Cardinality(BodiesOf(frames)) \in Nat
        BY <2>0, BodiesFacts, FS_CardinalityType
      <4>2. Cardinality(BodiesOf(frames')) = Cardinality(BodiesOf(frames)) + (IF f.op = "class" THEN 1 ELSE 0)
        BY <2>0, <3>2, BodiesFacts
      <4> QED BY <3>1, <4>1, <4>2 DEF Counted, Starts
    <3> QED BY <3>3, <3>4, <3>5, <3>6 DEF Counted
  <2>3. CASE Ends
    <3>1. /\ cur \in Nat \ {0} /\ top = frames[cur] /\ Len(frames) = cur
          /\ Front(frames) \in Seq(IntFrame) /\ Len(Front(frames)) = cur - 1
          /\ \A k \in 1 .. cur - 1 : Front(frames)[k] = frames[k]
      BY <2>3, TopFacts DEF Ends
    <3>2. /\ Len(frames') = cur - 1
          /\ \A k \in 1 .. cur - 1 : frames'[k].op = frames[k].op /\ frames'[k].tbase = frames[k].tbase
      BY <2>3, <3>1 DEF Ends, Retuned
    <3>3. \A k \in 1 .. cur - 1 : NoNative(frames', k - 1) => frames'[k].tbase = 0
      BY <3>1, <3>2 DEF Counted, NoNative
    <3>4. NoNative(frames', cur - 1) => temp' = 0
      <4> SUFFICES ASSUME NoNative(frames', cur - 1) PROVE temp' = 0
        OBVIOUS
      <4>1. NoNative(frames, cur - 1)
        BY <3>1, <3>2 DEF NoNative
      <4>2. CASE top.op = "native"
        BY <2>3, <3>1, <4>1, <4>2 DEF Counted, Ends
      <4>3. CASE top.op # "native"
        <5>1. NoNative(frames, cur)
          BY <3>1, <4>1, <4>3 DEF NoNative
        <5> QED BY <2>3, <3>1, <4>3, <5>1 DEF Counted, Ends
      <4> QED BY <4>2, <4>3
    <3>5. classes' = Cardinality(BodiesOf(frames'))
      <4>1. Cardinality(BodiesOf(frames)) \in Nat /\ BodiesOf(frames') = BodiesOf(Front(frames))
        BY <2>0, <2>3, <3>1, BodiesFacts, FS_CardinalityType DEF Ends
      <4>2. Cardinality(BodiesOf(Front(frames))) = Cardinality(BodiesOf(frames)) - (IF top.op = "class" THEN 1 ELSE 0)
        BY <2>0, <2>3, BodiesFacts DEF top, Ends
      <4> QED BY <2>3, <4>1, <4>2 DEF Counted, Ends, ClassPop
    <3> QED BY <3>2, <3>3, <3>4, <3>5 DEF Counted
  <2> QED BY <1>2, <2>1, <2>2, <2>3, StepKinds DEF Kinds
<1> QED BY <1>1, <1>2

-----------------------------------------------------------------------------
(* Operands: each frame begins on the stack where the operands of the one  *)
(* below end, and so the length of the stack is known from the frames when *)
(* code is running; a jump has its value on top.                           *)

StackedAt(fr, k) ==
    /\ fr[k] \in Frame
    /\ fr[k].op = "native" => fr[k].depth = 0
    /\ fr[k].handler \in {NoHandler, 0}
    /\ k = 1 => fr[k].base = 0
    /\ k > 1 => fr[k].base = fr[k - 1].base + fr[k - 1].depth /\ fr[k - 1].depth <= MaxDepth
Stacked(fr) == \A k \in 1 .. Len(fr) : StackedAt(fr, k)
EndOf(fr) == IF fr = <<>> THEN 0 ELSE Last(fr).base + Last(fr).depth
(* The method or program that a return on its way out will end.            *)
TakerIdle(fr) == \A m \in 1 .. Len(fr) :
    IsMethod(fr[m]) /\ (\A k \in m + 1 .. Len(fr) : ~IsMethod(fr[k])) => fr[m].depth = 0

Operands ==
    /\ Stacked(frames) /\ len \in Nat /\ temp \in Nat
    /\ err = NoErr => len = EndOf(frames)
    /\ err.at = "received" =>
         /\ len = EndOf(frames) + (IF IsJump THEN 1 ELSE 0)
         /\ frames # <<>> => top.depth <= MaxDepth
    /\ err.kind = "return" => TakerIdle(frames) /\ (err.at = "thrown" => ~IsMethod(top))

LEMMA StackedEnd ==
  ASSUME NEW fr \in Seq(IntFrame), Stacked(fr)
  PROVE  /\ EndOf(fr) \in Nat
         /\ fr # <<>> => /\ Last(fr) \in Frame /\ Last(fr).base \in Nat /\ Last(fr).depth \in 0 .. MaxDepth + 1
                         /\ Last(fr).handler \in {NoHandler, 0}
                         /\ Last(fr).op = "native" => Last(fr).depth = 0
<1>1. ASSUME fr # <<>>
      PROVE  /\ Last(fr) \in Frame /\ Last(fr).base \in Nat /\ Last(fr).depth \in 0 .. MaxDepth + 1
             /\ Last(fr).handler \in {NoHandler, 0}
             /\ Last(fr).op = "native" => Last(fr).depth = 0
  <2>1. Len(fr) \in 1 .. Len(fr) /\ Last(fr) = fr[Len(fr)]
    <3>1. Len(fr) \in Nat \ {0} /\ Last(fr) = fr[Len(fr)]
      BY <1>1, FrameFacts
    <3> QED BY <3>1
  <2>2. StackedAt(fr, Len(fr))
    BY <2>1 DEF Stacked
  <2>3. Last(fr) \in Frame /\ Last(fr).handler \in {NoHandler, 0} /\ (Last(fr).op = "native" => Last(fr).depth = 0)
    BY <2>1, <2>2 DEF StackedAt
  <2> QED BY <2>3 DEF Frame
<1>2. MaxDepth \in Nat
  BY RunContextAssumption
<1> QED BY <1>1, <1>2 DEF EndOf

LEMMA StackedFront ==
  ASSUME NEW fr \in Seq(IntFrame), Stacked(fr), fr # <<>>
  PROVE  /\ Stacked(Front(fr)) /\ EndOf(Front(fr)) = Last(fr).base
         /\ Front(fr) # <<>> => Last(Front(fr)).depth <= MaxDepth
         /\ TakerIdle(fr) /\ ~IsMethod(Last(fr)) => TakerIdle(Front(fr))
<1> DEFINE gr == Front(fr)
<1>1. /\ Len(fr) \in Nat \ {0} /\ Last(fr) = fr[Len(fr)] /\ gr \in Seq(IntFrame) /\ Len(gr) = Len(fr) - 1
      /\ \A k \in 1 .. Len(fr) - 1 : gr[k] = fr[k]
  BY FrameFacts
<1> HIDE DEF gr
<1>2. Stacked(gr)
  <2> SUFFICES ASSUME NEW k \in 1 .. Len(fr) - 1 PROVE StackedAt(gr, k)
    BY <1>1 DEF Stacked
  <2>1. StackedAt(fr, k) /\ gr[k] = fr[k] /\ (k > 1 => gr[k - 1] = fr[k - 1])
    BY <1>1 DEF Stacked
  <2> QED BY <2>1 DEF StackedAt
<1>3. StackedAt(fr, Len(fr))
  BY <1>1 DEF Stacked
<1>6. TakerIdle(fr) /\ ~IsMethod(Last(fr)) => TakerIdle(gr)
  <2> SUFFICES ASSUME TakerIdle(fr), ~IsMethod(Last(fr)), NEW m \in 1 .. Len(fr) - 1, IsMethod(gr[m]),
                      \A k \in m + 1 .. Len(fr) - 1 : ~IsMethod(gr[k])
               PROVE  gr[m].depth = 0
    BY <1>1 DEF TakerIdle
  <2>1. m \in 1 .. Len(fr) /\ gr[m] = fr[m]
    BY <1>1
  <2>2. ASSUME NEW k \in m + 1 .. Len(fr) PROVE ~IsMethod(fr[k])
    <3>1. CASE k = Len(fr)
      BY <1>1, <3>1
    <3>2. CASE k # Len(fr)
      <4>1. k \in m + 1 .. Len(fr) - 1 /\ k \in 1 .. Len(fr) - 1
        BY <1>1, <3>2
      <4> QED BY <1>1, <4>1
    <3> QED BY <3>1, <3>2
  <2> QED BY <2>1, <2>2 DEF TakerIdle
<1>4. CASE gr = <<>>
  <2>1. Len(fr) = 1
    BY <1>1, <1>4
  <2> QED BY <1>1, <1>2, <1>3, <1>4, <1>6, <2>1 DEF StackedAt, EndOf, gr
<1>5. CASE gr # <<>>
  <2>1. Len(gr) \in Nat \ {0} /\ Last(gr) = gr[Len(gr)]
    BY <1>1, <1>5, FrameFacts
  <2>2. Last(gr) = fr[Len(fr) - 1] /\ Len(fr) > 1
    BY <1>1, <2>1
  <2>3. EndOf(gr) = Last(fr).base /\ Last(gr).depth <= MaxDepth
    BY <1>1, <1>3, <1>5, <2>2 DEF StackedAt, EndOf
  <2> QED BY <1>2, <1>6, <2>3 DEF gr
<1> QED BY <1>4, <1>5

LEMMA StackedTuned ==
  ASSUME NEW fr \in Seq(IntFrame), Stacked(fr), fr # <<>>,
         NEW d \in 0 .. MaxDepth + 1, NEW h \in {NoHandler, 0}, Last(fr).op = "native" => d = 0,
         NEW gr, Tuned(gr, fr, Len(fr), d, h)
  PROVE  Stacked(gr) /\ EndOf(gr) = Last(fr).base + d /\ gr # <<>> /\ Last(gr).depth = d /\ gr \in Seq(IntFrame)
<1> DEFINE n == Len(fr)
<1>1. n \in Nat \ {0} /\ Last(fr) = fr[n]
  BY FrameFacts
<1>2. /\ gr \in Seq(IntFrame) /\ Len(gr) = n /\ gr[n].depth = d /\ gr[n].handler = h
      /\ gr[n].base = fr[n].base /\ gr[n].op = fr[n].op
      /\ \A k \in 1 .. n : k # n => gr[k] = fr[k]
  BY <1>1 DEF Tuned, Retuned
<1>3. Last(gr) = gr[n] /\ gr # <<>>
  BY <1>1, <1>2 DEF Last
<1>4. gr[n] \in Frame
  <2>1. StackedAt(fr, n) /\ gr[n] \in IntFrame /\ MaxDepth \in Nat
    BY <1>1, <1>2, RunContextAssumption DEF Stacked
  <2>2. fr[n].base \in Nat /\ fr[n].tbase \in Nat
    BY <2>1 DEF StackedAt, Frame
  <2>3. gr[n].tbase = fr[n].tbase
    BY <1>1 DEF Tuned, Retuned
  <2>4. h \in NoHandler .. MaxDepth
    BY <2>1 DEF NoHandler
  <2> QED BY <1>2, <2>1, <2>2, <2>3, <2>4 DEF Frame, IntFrame
<1>5. Stacked(gr)
  <2> SUFFICES ASSUME NEW k \in 1 .. n PROVE StackedAt(gr, k)
    BY <1>2 DEF Stacked
  <2>1. StackedAt(fr, k)
    BY DEF Stacked
  <2>2. k > 1 => k - 1 \in 1 .. n /\ k - 1 # n /\ gr[k - 1] = fr[k - 1]
    BY <1>1, <1>2
  <2>3. CASE k = n
    BY <1>1, <1>2, <1>4, <2>1, <2>2, <2>3 DEF StackedAt
  <2>4. CASE k # n
    BY <1>2, <2>1, <2>2, <2>4 DEF StackedAt
  <2> QED BY <2>3, <2>4
<1> QED BY <1>1, <1>2, <1>3, <1>5 DEF EndOf

LEMMA StackedAppend ==
  ASSUME NEW fr \in Seq(IntFrame), Stacked(fr), fr # <<>>, Last(fr).depth <= MaxDepth,
         NEW f \in IntFrame, f.base = EndOf(fr), f.tbase \in Nat, f.depth = 0, f.handler = NoHandler
  PROVE  Stacked(Append(fr, f)) /\ EndOf(Append(fr, f)) = f.base
<1> DEFINE gr == Append(fr, f)
            n == Len(fr)
<1>1. /\ n \in Nat \ {0} /\ Len(gr) = n + 1 /\ gr[n + 1] = f /\ Last(fr) = fr[n]
      /\ \A k \in 1 .. n : gr[k] = fr[k]
  <2>1. n \in Nat \ {0} /\ Last(fr) = fr[n]
    BY FrameFacts
  <2> QED BY <2>1
<1>2. Last(gr) = f /\ gr # <<>> /\ f.base \in Nat /\ f.base = fr[n].base + fr[n].depth
  BY <1>1, StackedEnd DEF Last, EndOf
<1> HIDE DEF gr
<1>3. f \in Frame
  <2>1. 0 \in 0 .. MaxDepth + 1 /\ NoHandler \in NoHandler .. MaxDepth
    BY RunContextAssumption DEF NoHandler
  <2> QED BY <1>2, <2>1 DEF Frame, IntFrame
<1>4. ASSUME NEW k \in 1 .. n + 1 PROVE StackedAt(gr, k)
  <2>1. CASE k = n + 1
    <3>1. gr[k] = f /\ k > 1 /\ gr[k - 1] = fr[n]
      BY <1>1, <2>1
    <3> QED BY <1>1, <1>2, <1>3, <3>1 DEF StackedAt
  <2>2. CASE k # n + 1
    <3>1. StackedAt(fr, k) /\ gr[k] = fr[k] /\ (k > 1 => gr[k - 1] = fr[k - 1])
      BY <1>1, <2>2 DEF Stacked
    <3> QED BY <3>1 DEF StackedAt
  <2> QED BY <2>1, <2>2
<1>5. EndOf(gr) = f.base
  BY <1>2 DEF EndOf
<1> QED BY <1>1, <1>4, <1>5 DEF Stacked, gr

(* Where a call that is over has delivered its value.                      *)
LEMMA StackedDelivery ==
  ASSUME NEW fr \in Seq(IntFrame), Stacked(fr), fr # <<>> => Last(fr).depth <= MaxDepth,
         NEW gr, NEW n \in Int, NEW m, n = EndOf(fr) + 1,
         IF fr # <<>> /\ Last(fr).op \in Ruby
           THEN gr = [fr EXCEPT ![Len(fr)].depth = @ + 1] /\ m = n
           ELSE gr = fr /\ m = n - 1
  PROVE  Stacked(gr) /\ m = EndOf(gr) /\ m \in Nat
<1>1. EndOf(fr) \in Nat
  BY StackedEnd
<1>2. CASE fr # <<>> /\ Last(fr).op \in Ruby
  <2>1. /\ Last(fr).base \in Nat /\ Last(fr).depth \in 0 .. MaxDepth + 1 /\ Last(fr).handler \in {NoHandler, 0}
        /\ Last(fr).op # "native"
    BY <1>2, StackedEnd DEF Ruby
  <2>2. Tuned(gr, fr, Len(fr), Last(fr).depth + 1, Last(fr).handler)
    BY <1>2, DeliveryTunes
  <2>3. Last(fr).depth + 1 \in 0 .. MaxDepth + 1
    BY <1>2, <2>1, RunContextAssumption
  <2>4. Stacked(gr) /\ EndOf(gr) = Last(fr).base + (Last(fr).depth + 1)
    BY <1>2, <2>1, <2>2, <2>3, StackedTuned
  <2>5. EndOf(fr) = Last(fr).base + Last(fr).depth
    BY <1>2 DEF EndOf
  <2>6. EndOf(gr) = EndOf(fr) + 1
    BY <2>1, <2>4, <2>5
  <2> QED BY <1>1, <1>2, <2>4, <2>6
<1>3. CASE ~(fr # <<>> /\ Last(fr).op \in Ruby)
  BY <1>1, <1>3
<1> QED BY <1>2, <1>3

LEMMA OperandsStep ==
  ASSUME ~Nested, Shape, Operands, Counted, Next
  PROVE  Operands'
<1>1. /\ frames \in Seq(IntFrame) /\ Stacked(frames) /\ len \in Nat /\ temp \in Nat
      /\ err \in Errors \cup {NoErr} /\ MaxDepth \in Nat
  BY RunContextAssumption DEF Shape, ErrOK, Operands
<1>2. NoErr.at = "none" /\ NoErr.kind = "none"
  BY DEF NoErr
<1>3. ASSUME frames # <<>>
      PROVE  /\ top.base \in Nat /\ top.depth \in 0 .. MaxDepth + 1 /\ top.handler \in {NoHandler, 0}
             /\ top.op = "native" => top.depth = 0
             /\ top \in Frame
             /\ EndOf(frames) = top.base + top.depth
             /\ Front(frames) \in Seq(IntFrame) /\ Stacked(Front(frames)) /\ EndOf(Front(frames)) = top.base
             /\ Front(frames) # <<>> => Last(Front(frames)).depth <= MaxDepth
             /\ TakerIdle(frames) /\ ~IsMethod(top) => TakerIdle(Front(frames))
  <2>1. /\ top.base \in Nat /\ top.depth \in 0 .. MaxDepth + 1 /\ top.handler \in {NoHandler, 0}
        /\ top.op = "native" => top.depth = 0
        /\ top \in Frame
    BY <1>1, <1>3, StackedEnd DEF top
  <2>2. EndOf(frames) = top.base + top.depth
    BY <1>3 DEF EndOf, top
  <2>3. /\ Stacked(Front(frames)) /\ EndOf(Front(frames)) = top.base
        /\ Front(frames) # <<>> => Last(Front(frames)).depth <= MaxDepth
        /\ TakerIdle(frames) /\ ~IsMethod(top) => TakerIdle(Front(frames))
    BY <1>1, <1>3, StackedFront DEF top
  <2>4. Front(frames) \in Seq(IntFrame)
    BY <1>3, TopFacts
  <2> QED BY <2>1, <2>2, <2>3, <2>4
(* what the code of the top frame does, alone *)
<1>4. ASSUME frames # <<>>, NEW d \in 0 .. MaxDepth + 1, NEW h \in {NoHandler, 0}, top.op # "native",
             Tuned(frames', frames, cur, d, h), len' = top.base + d, temp' = temp, err' = NoErr
      PROVE  Operands'
  <2>1. Stacked(frames') /\ EndOf(frames') = top.base + d /\ frames' # <<>>
    BY <1>1, <1>4, StackedTuned DEF top, cur
  <2>2. top.base + d \in Nat
    BY <1>3, <1>4
  <2> QED BY <1>1, <1>2, <1>4, <2>1, <2>2 DEF Operands
(* a call *)
<1>5. ASSUME frames # <<>>, top.depth <= MaxDepth, err = NoErr, err' = NoErr, len' = len, temp' \in Nat,
             NEW op \in Ruby \cup {"native"}, NEW blk, NEW parent,
             NewFrame(op, blk, parent) \in IntFrame, frames' = Append(frames, NewFrame(op, blk, parent))
      PROVE  Operands'
  <2> DEFINE f == NewFrame(op, blk, parent)
  <2>1. f.base = len /\ f.tbase = temp /\ f.depth = 0 /\ f.handler = NoHandler
    BY DEF NewFrame
  <2>2. len = EndOf(frames)
    BY <1>5 DEF Operands
  <2> HIDE DEF f
  <2>3. Stacked(Append(frames, f)) /\ EndOf(Append(frames, f)) = len
    BY <1>1, <1>5, <2>1, <2>2, StackedAppend DEF top, f
  <2>4. Stacked(frames') /\ EndOf(frames') = len
    BY <1>5, <2>3 DEF f
  <2> QED BY <1>1, <1>2, <1>5, <2>4 DEF Operands
(* the end of a call *)
<1>6. ASSUME frames # <<>>, NEW n \in Int, n = top.base + 1, temp' \in Nat, err' = NoErr,
             IF Front(frames) # <<>> /\ Last(Front(frames)).op \in Ruby
               THEN frames' = [Front(frames) EXCEPT ![Len(Front(frames))].depth = @ + 1] /\ len' = n
               ELSE frames' = Front(frames) /\ len' = n - 1
      PROVE  Operands'
  <2>1. n = EndOf(Front(frames)) + 1
    BY <1>3, <1>6
  <2>2. Stacked(frames') /\ len' = EndOf(frames') /\ len' \in Nat
    BY <1>3, <1>6, <2>1, StackedDelivery
  <2> QED BY <1>2, <1>6, <2>2 DEF Operands
(* an error that leaves the frame *)
<1>7. ASSUME frames # <<>>, err.at \in {"thrown", "received"}, frames' = Front(frames),
             len' = top.base + (IF IsJump THEN 1 ELSE 0), temp' \in Nat,
             err'.kind = err.kind, err'.at = "received", err.kind = "return" => ~IsMethod(top)
      PROVE  Operands'
  <2>1. Stacked(frames') /\ EndOf(frames') = top.base /\ (frames' # <<>> => Last(frames').depth <= MaxDepth) /\ top.base \in Nat
    BY <1>3, <1>7
  <2>2. err.kind = "return" => TakerIdle(frames')
    BY <1>3, <1>7 DEF Operands
  <2>3. len' \in Nat /\ len' = EndOf(frames') + (IF IsJump THEN 1 ELSE 0)
    BY <1>7, <2>1
  <2>4. IsJump' <=> IsJump
    BY <1>7 DEF IsJump
  <2> QED BY <1>2, <1>7, <2>1, <2>2, <2>3, <2>4 DEF Operands, top
<1>8. ASSUME err = NoErr, frames # <<>> PROVE len = top.base + top.depth
  BY <1>3, <1>8 DEF Operands
<1>9. CASE PushOperand
  <2>1. /\ frames # <<>> /\ err = NoErr /\ top.depth < MaxDepth /\ top.op # "native" /\ len' = len + 1 /\ temp' = temp /\ err' = err
        /\ frames' = Update("depth", top.depth + 1)
    BY <1>9 DEF PushOperand, InRuby, Ruby
  <2>2. top.depth + 1 \in 0 .. MaxDepth + 1 /\ top.depth + 1 \in Int
    BY <1>1, <1>3, <2>1
  <2>3. Tuned(frames', frames, cur, top.depth + 1, top.handler)
    BY <1>1, <2>1, <2>2, UpdateTunes
  <2>4. len' = top.base + (top.depth + 1)
    <3>1. len = top.base + top.depth /\ top.base \in Nat /\ top.depth \in Nat
      BY <1>3, <1>8, <2>1
    <3> QED BY <2>1, <3>1
  <2> QED BY <1>3, <1>4, <2>1, <2>2, <2>3, <2>4
<1>10. CASE PopOperand
  <2>1. /\ frames # <<>> /\ err = NoErr /\ top.depth > 0 /\ top.op # "native" /\ len' = len - 1 /\ temp' = temp /\ err' = err
        /\ frames' = Update("depth", top.depth - 1)
    BY <1>10 DEF PopOperand, InRuby, Ruby
  <2>2. top.depth - 1 \in 0 .. MaxDepth + 1 /\ top.depth - 1 \in Int
    BY <1>1, <1>3, <2>1
  <2>3. Tuned(frames', frames, cur, top.depth - 1, top.handler)
    BY <1>1, <2>1, <2>2, UpdateTunes
  <2>4. len' = top.base + (top.depth - 1)
    <3>1. len = top.base + top.depth /\ top.base \in Nat /\ top.depth \in Nat
      BY <1>3, <1>8, <2>1
    <3> QED BY <2>1, <3>1
  <2> QED BY <1>3, <1>4, <2>1, <2>2, <2>3, <2>4
<1>11. CASE Begin
  <2>1. /\ frames # <<>> /\ err = NoErr /\ top.depth = 0 /\ top.op # "native" /\ len' = len /\ temp' = temp /\ err' = err
        /\ frames' = Update("handler", 0)
    BY <1>11 DEF Begin, InRuby, Ruby
  <2>2. Tuned(frames', frames, cur, top.depth, 0)
    BY <1>1, <2>1, UpdateTunes
  <2> QED BY <1>3, <1>4, <1>8, <2>1, <2>2
<1>12. CASE EndBegin
  <2>1. /\ frames # <<>> /\ err = NoErr /\ top.op # "native" /\ len' = len /\ temp' = temp /\ err' = err
        /\ frames' = Update("handler", NoHandler) /\ NoHandler \in Int
    BY <1>12 DEF EndBegin, InRuby, Ruby, NoHandler
  <2>2. Tuned(frames', frames, cur, top.depth, NoHandler)
    BY <1>1, <2>1, UpdateTunes
  <2> QED BY <1>3, <1>4, <1>8, <2>1, <2>2
<1>13. CASE TempPush
  <2>1. UNCHANGED <<frames, len, err>> /\ temp' \in Nat
    BY <1>1, <1>13 DEF TempPush
  <2> QED BY <2>1 DEF Operands, Stacked, StackedAt, EndOf, IsJump, TakerIdle, top
<1>14. Shape' /\ MaxFrames \in Nat
  BY ShapeStep, RunContextAssumption
<1>15. ASSUME NEW op \in Ruby \cup {"native"}, NEW blk, NEW parent, frames' = Append(frames, NewFrame(op, blk, parent))
       PROVE  NewFrame(op, blk, parent) \in IntFrame
  <2> DEFINE f == NewFrame(op, blk, parent)
  <2>1. frames' \in Seq(IntFrame) /\ frames \in Seq(IntFrame)
    BY <1>1, <1>14 DEF Shape
  <2> HIDE DEF f
  <2>2. frames' = Append(frames, f)
    BY <1>15 DEF f
  <2>3. Len(frames') = Len(frames) + 1 /\ frames'[Len(frames) + 1] = f /\ Len(frames) \in Nat
    BY <2>1, <2>2, AppendProperties
  <2>4. f \in IntFrame
    BY <2>1, <2>3
  <2> QED BY <2>4 DEF f
<1>16. CASE \E blk \in 0 .. MaxFrames : CallMethod(blk)
  <2>1. PICK blk : CallMethod(blk)
    BY <1>16
  <2>2. /\ frames # <<>> /\ err = NoErr /\ top.depth <= MaxDepth /\ len' = len /\ temp' \in Nat /\ err' = err
        /\ frames' = Append(frames, NewFrame("method", blk, 0)) /\ "method" \in Ruby \cup {"native"}
    BY <1>1, <2>1 DEF CallMethod, MayCall, InRuby, Pushed, Ruby
  <2> QED BY <1>5, <1>15, <2>2
<1>17. CASE CallNative
  <2>1. /\ frames # <<>> /\ err = NoErr /\ top.depth <= MaxDepth /\ len' = len /\ temp' \in Nat /\ err' = err
        /\ frames' = Append(frames, NewFrame("native", cur, 0)) /\ "native" \in Ruby \cup {"native"}
    BY <1>1, <1>17 DEF CallNative, MayCall, InRuby, Pushed, Ruby
  <2> QED BY <1>5, <1>15, <2>1
<1>18. CASE DefClass
  <2>1. /\ frames # <<>> /\ err = NoErr /\ top.depth <= MaxDepth /\ len' = len /\ temp' \in Nat /\ err' = err
        /\ frames' = Append(frames, NewFrame("class", 0, 0)) /\ "class" \in Ruby \cup {"native"}
    BY <1>1, <1>18 DEF DefClass, MayCall, InRuby, Pushed, Ruby
  <2> QED BY <1>5, <1>15, <2>1
<1>19. CASE NativeCallsBlock
  <2>1. /\ frames # <<>> /\ err = NoErr /\ top.op = "native" /\ len' = len /\ temp' \in Nat /\ err' = err
        /\ frames' = Append(frames, NewFrame("block", 0, top.blk)) /\ "block" \in Ruby \cup {"native"}
    BY <1>1, <1>19 DEF NativeCallsBlock, InNative, Pushed, Ruby
  <2>2. top.depth <= MaxDepth
    BY <1>1, <1>3, <2>1
  <2> QED BY <1>5, <1>15, <2>1, <2>2
<1>20. CASE Yield
  <2> DEFINE b == frames[Home(cur)].blk
  <2>1. /\ frames # <<>> /\ err = NoErr /\ top.depth <= MaxDepth /\ len' = len /\ temp' \in Nat /\ err' = err
        /\ frames' = Append(frames, NewFrame("block", 0, b)) /\ "block" \in Ruby \cup {"native"}
    BY <1>1, <1>20 DEF Yield, MayCall, InRuby, Pushed, Ruby
  <2> HIDE DEF b
  <2> QED BY <1>5, <1>15, <2>1
<1>21. CASE End
  <2>1. frames # <<>> /\ err = NoErr /\ top.depth = 0 /\ temp' \in Nat /\ err' = NoErr /\ len + 1 \in Int
    BY <1>1, <1>21 DEF End, InRuby
  <2>2. len + 1 = top.base + 1
    BY <1>1, <1>3, <1>8, <2>1
  <2>3. IF Front(frames) # <<>> /\ Last(Front(frames)).op \in Ruby
          THEN frames' = [Front(frames) EXCEPT ![Len(Front(frames))].depth = @ + 1] /\ len' = len + 1
          ELSE frames' = Front(frames) /\ len' = (len + 1) - 1
    BY <1>21 DEF End, Delivered
  <2> QED BY <1>6, <2>1, <2>2, <2>3
<1>22. ASSUME frames # <<>> PROVE top.tbase \in Nat
  BY <1>3, <1>22 DEF Frame
<1>23. CASE NativeEnd
  <2>1. frames # <<>> /\ err = NoErr /\ top.depth = 0 /\ temp' \in Nat /\ err' = NoErr /\ len + 1 \in Int
    BY <1>1, <1>3, <1>22, <1>23 DEF NativeEnd, InNative, NativeTemp
  <2>2. len + 1 = top.base + 1
    BY <1>1, <1>3, <1>8, <2>1
  <2>3. IF Front(frames) # <<>> /\ Last(Front(frames)).op \in Ruby
          THEN frames' = [Front(frames) EXCEPT ![Len(Front(frames))].depth = @ + 1] /\ len' = len + 1
          ELSE frames' = Front(frames) /\ len' = (len + 1) - 1
    BY <1>23 DEF NativeEnd, Delivered
  <2> QED BY <1>6, <2>1, <2>2, <2>3
<1>24. CASE Throw
  <2>1. UNCHANGED <<frames, len, temp>> /\ frames # <<>> /\ err = NoErr /\ err'.kind = "raise" /\ err' # NoErr
        /\ (err'.at = "received" => top.op = "native")
    BY <1>24 DEF Throw, InRuby, InNative, NoErr
  <2>2. err'.at = "received" => top.depth <= MaxDepth
    BY <1>1, <1>3, <2>1
  <2>3. ~IsJump' /\ top' = top /\ EndOf(frames) = len
    BY <2>1 DEF IsJump, top, Operands
  <2> QED BY <1>1, <2>1, <2>2, <2>3 DEF Operands
<1>25. CASE \E kind \in {"break", "return"} : Jump(kind)
  <2>1. PICK kind \in {"break", "return"} : Jump(kind)
    BY <1>25
  <2>2. UNCHANGED <<frames, temp>> /\ len' \in Nat /\ err'.kind = kind /\ err'.at = "thrown" /\ err' # NoErr
    BY <1>1, <2>1 DEF Jump, NoErr
  <2>3. top' = top /\ ~IsMethod(top)
    BY <2>1 DEF Jump, top, IsMethod
  <2>4. kind = "return" => TakerIdle(frames)
    <3>1. DOMAIN frames = 1 .. Len(frames) /\ cur = Len(frames)
      BY <1>1 DEF cur
    <3> QED BY <2>1, <3>1 DEF Jump, TakerIdle, InMethod
  <2> QED BY <1>1, <2>2, <2>3, <2>4 DEF Operands
<1>26. ASSUME err.at = "thrown" PROVE frames # <<>> /\ top.op # "native" /\ err \in Errors
  BY <1>1, <1>2, <1>26 DEF Shape, ErrOK, Ruby
<1>27. CASE JumpLeaves
  <2>1. frames # <<>> /\ frames' = Front(frames) /\ len' = top.base + 1 /\ temp' \in Nat /\ IsJump /\ err.at = "thrown"
        /\ err' = [err EXCEPT !.at = "received"]
    BY <1>1, <1>26, <1>27 DEF JumpLeaves, Leave, CutTo
  <2>2. err'.kind = err.kind /\ err'.at = "received" /\ (err.kind = "return" => ~IsMethod(top))
    BY <1>26, <2>1 DEF Errors, Operands
  <2> QED BY <1>7, <2>1, <2>2
<1>28. CASE RaiseLeaves
  <2>1. frames # <<>> /\ frames' = Front(frames) /\ len' = top.base /\ temp' \in Nat /\ ~IsJump /\ err.at = "thrown"
        /\ err' = [err EXCEPT !.at = "received"]
    BY <1>1, <1>26, <1>28 DEF RaiseLeaves, Leave, CutTo
  <2>2. err'.kind = err.kind /\ err'.at = "received" /\ len' = top.base + 0 /\ err.kind # "return"
    BY <1>3, <1>26, <2>1 DEF Errors, IsJump
  <2> QED BY <1>7, <2>1, <2>2
<1>29. CASE Rescue
  <2>1. /\ frames # <<>> /\ top.op # "native" /\ len' = top.base + 1 /\ temp' = temp /\ err' = NoErr
        /\ top.handler = 0 /\ frames' = [frames EXCEPT ![cur].depth = 0 + 1, ![cur].handler = NoHandler]
    BY <1>3, <1>26, <1>29 DEF Rescue
  <2>2. cur \in 1 .. Len(frames) /\ 0 + 1 \in Int /\ NoHandler \in Int /\ 0 + 1 \in 0 .. MaxDepth + 1
    <3>1. cur \in Nat \ {0} /\ Len(frames) = cur
      BY <2>1, TopFacts
    <3> QED BY <1>1, <3>1 DEF NoHandler
  <2>3. Tuned(frames', frames, cur, 0 + 1, NoHandler)
    BY <1>1, <2>1, <2>2, RescueTunes
  <2> QED BY <1>4, <2>1, <2>2, <2>3
<1>30. ASSUME err.at = "received", frames # <<>>
       PROVE  len = top.base + top.depth + (IF IsJump THEN 1 ELSE 0) /\ top.depth <= MaxDepth
  BY <1>3, <1>30 DEF Operands
<1>31. CASE NativeFails
  <2>1. frames # <<>> /\ frames' = Front(frames) /\ len' = len /\ temp' \in Nat /\ err' = err /\ err.at = "received" /\ top.depth = 0
        /\ ~IsMethod(top)
    BY <1>3, <1>22, <1>31 DEF NativeFails, NativeTemp, IsMethod
  <2>2. len' = top.base + (IF IsJump THEN 1 ELSE 0)
    BY <1>3, <1>30, <2>1
  <2> QED BY <1>7, <2>1, <2>2
<1>32. CASE NativeCatches
  <2>1. UNCHANGED <<frames, len, temp>> /\ frames # <<>> /\ err' = NoErr /\ err.at = "received" /\ ~IsJump
    BY <1>32 DEF NativeCatches, IsJump
  <2>2. len = EndOf(frames)
    BY <1>3, <1>30, <2>1
  <2> QED BY <1>1, <1>2, <2>1, <2>2 DEF Operands
<1>33. CASE BreakArrives
  <2>1. /\ frames # <<>> /\ err.at = "received" /\ IsJump /\ top.op # "native" /\ len' = len /\ temp' = temp /\ err' = NoErr
        /\ frames' = Update("depth", top.depth + 1)
    BY <1>33 DEF BreakArrives, InCode, TakesBreak, IsJump, Ruby
  <2>2. top.depth + 1 \in 0 .. MaxDepth + 1 /\ top.depth + 1 \in Int /\ len = top.base + (top.depth + 1)
    <3>1. /\ top.depth <= MaxDepth /\ top.depth \in 0 .. MaxDepth + 1 /\ top.base \in Nat
          /\ len = top.base + top.depth + 1
      BY <1>3, <1>30, <2>1
    <3> QED BY <1>1, <3>1
  <2>3. Tuned(frames', frames, cur, top.depth + 1, top.handler)
    BY <1>1, <2>1, <2>2, UpdateTunes
  <2> QED BY <1>3, <1>4, <2>1, <2>2, <2>3
<1>34. CASE ReturnArrives
  <2>1. /\ frames # <<>> /\ err.at = "received" /\ err.kind = "return" /\ IsJump /\ IsMethod(top) /\ temp' \in Nat /\ err' = NoErr
        /\ len \in Int
    BY <1>1, <1>34 DEF ReturnArrives, InCode, TakesReturn, IsJump
  <2>2. top.depth = 0
    <3>1. cur \in 1 .. Len(frames) /\ top = frames[cur]
      <4>1. cur \in Nat \ {0} /\ top = frames[cur] /\ Len(frames) = cur
        BY <2>1, TopFacts
      <4> QED BY <4>1
    <3>2. Len(frames) = cur /\ \A k \in cur + 1 .. Len(frames) : FALSE
      BY <2>1, TopFacts
    <3> QED BY <2>1, <3>1, <3>2 DEF Operands, TakerIdle
  <2>3. len = top.base + 1
    BY <1>3, <1>30, <2>1, <2>2
  <2>4. IF Front(frames) # <<>> /\ Last(Front(frames)).op \in Ruby
          THEN frames' = [Front(frames) EXCEPT ![Len(Front(frames))].depth = @ + 1] /\ len' = len
          ELSE frames' = Front(frames) /\ len' = len - 1
    BY <1>34 DEF ReturnArrives, Delivered
  <2> QED BY <1>6, <2>1, <2>3, <2>4
<1>35. CASE PassOn
  <2>1. UNCHANGED <<frames, len, temp>> /\ err.at = "received" /\ err' = [err EXCEPT !.at = "thrown"]
        /\ top' = top /\ (err.kind = "return" => ~IsMethod(top))
    BY <1>35 DEF PassOn, InCode, TakesReturn, top
  <2>2. err \in Errors
    BY <1>1, <1>2, <2>1
  <2>3. err'.at = "thrown" /\ err'.kind = err.kind
    BY <2>1, <2>2 DEF Errors
  <2> QED BY <1>2, <2>1, <2>3 DEF Operands
<1> QED BY <1>9, <1>10, <1>11, <1>12, <1>13, <1>16, <1>17, <1>18, <1>19, <1>20, <1>21, <1>23, <1>24, <1>25,
           <1>27, <1>28, <1>29, <1>31, <1>32, <1>33, <1>34, <1>35 DEF Next

-----------------------------------------------------------------------------
(* Jumps: where a break or a return that is on its way out will end can be *)
(* read off the frames it has still to leave.                              *)

(* The code of frame k is in the method at home, and every block on the    *)
(* way was called by a builtin.                                            *)
LeadsHome(fr, k, home) ==
    \E P \in SUBSET (1 .. Len(fr)) :
        /\ k \in P
        /\ \A j \in P :
              \/ fr[j].op = "block" /\ j > 1 /\ fr[j - 1].op = "native" /\ fr[j].parent \in P
              \/ IsMethod(fr[j]) /\ j = home

Aimed ==
    /\ err.kind = "break" =>
         /\ err.at = "thrown" =>
              top.op = "block" /\ cur > 1 /\ frames[cur - 1].op = "native" /\ err.parent = top.parent
         /\ err.at = "received" /\ frames # <<>> =>
              err.parent = IF top.op = "native" THEN top.blk ELSE cur
    /\ err.kind = "return" /\ err.home # 0 =>
         /\ err.at = "thrown" => top.op = "block" /\ LeadsHome(frames, cur, err.home)
         /\ err.at = "received" /\ frames # <<>> =>
              LeadsHome(frames, IF top.op = "native" THEN top.blk ELSE cur, err.home)

LEMMA LeadsFront ==
  ASSUME NEW fr \in Seq(IntFrame), fr # <<>>, Linked(fr), NEW home, NEW k,
         LeadsHome(fr, k, home), k # Len(fr)
  PROVE  LeadsHome(Front(fr), k, home)
<1> DEFINE gr == Front(fr)
           n == Len(fr)
<1>1. n \in Nat \ {0} /\ Len(gr) = n - 1 /\ \A j \in 1 .. n - 1 : gr[j] = fr[j]
  BY FrameFacts
<1> HIDE DEF gr
<1>2. PICK P \in SUBSET (1 .. n) :
        /\ k \in P
        /\ \A j \in P :
              \/ fr[j].op = "block" /\ j > 1 /\ fr[j - 1].op = "native" /\ fr[j].parent \in P
              \/ IsMethod(fr[j]) /\ j = home
  BY DEF LeadsHome
<1> DEFINE Q == P \ {n}
<1>3. Q \in SUBSET (1 .. n - 1) /\ k \in Q
  <2>1. ASSUME NEW j \in P, j # n PROVE j \in 1 .. n - 1
    BY <1>1, <2>1
  <2> QED BY <1>2, <2>1
<1>4. ASSUME NEW j \in Q
      PROVE  \/ gr[j].op = "block" /\ j > 1 /\ gr[j - 1].op = "native" /\ gr[j].parent \in Q
             \/ IsMethod(gr[j]) /\ j = home
  <2>1. j \in 1 .. n - 1 /\ gr[j] = fr[j] /\ j \in P
    BY <1>1, <1>3
  <2>2. CASE IsMethod(fr[j]) /\ j = home
    BY <2>1, <2>2
  <2>3. CASE fr[j].op = "block" /\ j > 1 /\ fr[j - 1].op = "native" /\ fr[j].parent \in P
    <3>1. Links(fr, j) /\ j - 1 \in 1 .. n - 1
      BY <1>1, <2>1, <2>3 DEF Linked
    <3>2. fr[j].parent \in 1 .. j - 1
      BY <2>3, <3>1 DEF Links
    <3> QED BY <1>1, <2>1, <2>3, <3>1, <3>2
  <2> QED BY <1>2, <2>1, <2>2, <2>3
<1> HIDE DEF Q
<1>5. LeadsHome(gr, k, home)
  BY <1>1, <1>3, <1>4 DEF LeadsHome
<1> QED BY <1>5 DEF gr

LEMMA LeadsStep ==
  ASSUME NEW fr, NEW k, NEW home, LeadsHome(fr, k, home)
  PROVE  /\ k \in 1 .. Len(fr)
         /\ \/ fr[k].op = "block" /\ k > 1 /\ fr[k - 1].op = "native" /\ LeadsHome(fr, fr[k].parent, home)
            \/ IsMethod(fr[k]) /\ k = home
  BY DEF LeadsHome

LEMMA LeadsFromJump ==
  ASSUME NEW fr, Len(fr) \in Nat, Linked(fr), NEW k \in 1 .. Len(fr), ~YieldedIn(fr, k), HomeIn(fr, k) # 0
  PROVE  LeadsHome(fr, k, HomeIn(fr, k))
<1> DEFINE home == HomeIn(fr, k)
           P == {j \in 1 .. Len(fr) : HomeIn(fr, j) = home /\ ~YieldedIn(fr, j)}
<1> HIDE DEF home
<1>1. k \in P
  BY DEF home
<1>2. ASSUME NEW j \in P
      PROVE  \/ fr[j].op = "block" /\ j > 1 /\ fr[j - 1].op = "native" /\ fr[j].parent \in P
             \/ IsMethod(fr[j]) /\ j = home
  <2>1. /\ fr[j].op = "block" => HomeIn(fr, j) = HomeIn(fr, fr[j].parent)
        /\ IsMethod(fr[j]) => HomeIn(fr, j) = j
        /\ fr[j].op # "block" /\ ~IsMethod(fr[j]) => HomeIn(fr, j) = 0
    BY HomeUnfolds
  <2>2. CASE fr[j].op = "block"
    <3>1. fr[j - 1].op = "native" /\ ~YieldedIn(fr, fr[j].parent)
      BY <2>2, YieldUnfolds
    <3>2. j > 1 /\ fr[j].parent \in 1 .. Len(fr)
      BY <2>2 DEF Linked, Links
    <3> QED BY <2>1, <2>2, <3>1, <3>2
  <2>3. CASE fr[j].op # "block"
    BY <2>1, <2>3 DEF home
  <2> QED BY <2>2, <2>3
<1> HIDE DEF P
<1>3. P \in SUBSET (1 .. Len(fr))
  BY DEF P
<1>4. LeadsHome(fr, k, home)
  BY <1>1, <1>2, <1>3 DEF LeadsHome
<1> QED BY <1>4 DEF home

LEMMA AimedStep ==
  ASSUME ~Yields, Shape, Aimed, Next
  PROVE  Aimed'
<1>1. frames \in Seq(IntFrame) /\ Linked(frames) /\ err \in Errors \cup {NoErr}
  BY DEF Shape, ErrOK
<1>2. NoErr.at = "none" /\ NoErr.kind = "none"
  BY DEF NoErr
<1>3. ASSUME err'.kind \notin {"break", "return"} PROVE Aimed'
  BY <1>3 DEF Aimed
<1>4. ASSUME frames # <<>>
      PROVE  /\ cur \in Nat \ {0} /\ top = frames[cur] /\ Len(frames) = cur /\ Links(frames, cur)
             /\ Len(Front(frames)) = cur - 1 /\ Front(frames) \in Seq(IntFrame)
             /\ Front(frames) # <<>> =>
                  cur > 1 /\ Last(Front(frames)) = frames[cur - 1] /\ Len(Front(frames)) = cur - 1
  <2>1. /\ cur \in Nat \ {0} /\ top = frames[cur] /\ Len(frames) = cur
        /\ Len(Front(frames)) = cur - 1 /\ Front(frames) \in Seq(IntFrame)
        /\ \A k \in 1 .. cur - 1 : Front(frames)[k] = frames[k]
    BY <1>4, TopFacts
  <2>2. Links(frames, cur)
    BY <1>1, <2>1 DEF Linked
  <2>3. ASSUME Front(frames) # <<>> PROVE cur > 1 /\ Last(Front(frames)) = frames[cur - 1]
    <3>1. Len(Front(frames)) \in Nat \ {0} /\ Last(Front(frames)) = Front(frames)[Len(Front(frames))]
      BY <2>1, <2>3, FrameFacts
    <3> QED BY <2>1, <3>1
  <2> QED BY <2>1, <2>2, <2>3
<1>5. CASE \E kind \in {"break", "return"} : Jump(kind)
  <2>1. PICK kind \in {"break", "return"} : Jump(kind)
    BY <1>5
  <2>2. /\ frames # <<>> /\ frames' = frames /\ top.op = "block" /\ ~YieldedTo(cur)
        /\ err' = [kind |-> kind, at |-> "thrown", parent |-> top.parent, home |-> Home(cur)]
    BY <2>1 DEF Jump, InRuby
  <2>3. YieldedTo(cur) = YieldedIn(frames, cur) /\ Home(cur) = HomeIn(frames, cur)
    BY DEF YieldedTo, YieldedIn, Home, HomeIn, cur
  <2>4. cur \in 1 .. Len(frames) /\ Len(frames) \in Nat
    BY <1>4, <2>2
  <2>5. cur > 1 /\ frames[cur - 1].op = "native"
    BY <1>1, <1>4, <2>2, <2>3, <2>4, YieldUnfolds DEF Links
  <2>6. Home(cur) # 0 => LeadsHome(frames, cur, Home(cur))
    BY <1>1, <2>2, <2>3, <2>4, LeadsFromJump
  <2>7. top' = top /\ cur' = cur
    BY <2>2 DEF top, cur
  <2> QED BY <2>2, <2>5, <2>6, <2>7 DEF Aimed
<1>6. CASE JumpLeaves
  <2>1. frames # <<>> /\ frames' = Front(frames) /\ err.at = "thrown" /\ err' = [err EXCEPT !.at = "received"] /\ err \in Errors
    BY <1>1, <1>2, <1>6 DEF JumpLeaves, Leave, Shape, ErrOK
  <2>2. err'.kind = err.kind /\ err'.parent = err.parent /\ err'.home = err.home /\ err'.at = "received"
    BY <2>1 DEF Errors
  <2>3. SUFFICES ASSUME frames' # <<>> PROVE Aimed'
    BY <2>2 DEF Aimed
  <2>4. cur > 1 /\ top' = frames[cur - 1] /\ top = frames[cur] /\ cur' = cur - 1 /\ cur \in Nat /\ Len(frames) = cur
    BY <1>4, <2>1, <2>3 DEF top, cur
  <2>5. /\ top.op = "block" => top.parent \in 1 .. cur - 1 /\ (top'.op = "native" => top.parent = top'.blk)
    BY <1>4, <2>1, <2>4 DEF Links
  <2>6. err.kind = "break" => err'.parent = IF top'.op = "native" THEN top'.blk ELSE cur'
    BY <2>1, <2>2, <2>4, <2>5 DEF Aimed
  <2>7. ASSUME err.kind = "return", err.home # 0
        PROVE  LeadsHome(frames', IF top'.op = "native" THEN top'.blk ELSE cur', err.home)
    <3>1. top.op = "block" /\ LeadsHome(frames, cur, err.home)
      BY <2>1, <2>7 DEF Aimed
    <3>2. frames[cur - 1].op = "native" /\ LeadsHome(frames, frames[cur].parent, err.home)
      BY <2>4, <3>1, LeadsStep DEF IsMethod
    <3>3. top.parent = top'.blk /\ top'.op = "native" /\ top.parent # Len(frames)
      BY <2>4, <2>5, <3>1, <3>2
    <3>4. LeadsHome(frames, top.parent, err.home)
      BY <2>4, <3>2
    <3>5. LeadsHome(frames', top.parent, err.home)
      BY <1>1, <2>1, <3>3, <3>4, LeadsFront
    <3> QED BY <3>3, <3>5
  <2> QED BY <2>2, <2>6, <2>7 DEF Aimed
<1>7. CASE NativeFails
  <2>1. frames # <<>> /\ frames' = Front(frames) /\ err' = err /\ err.at = "received" /\ top.op = "native"
    BY <1>7 DEF NativeFails
  <2>2. SUFFICES ASSUME frames' # <<>> PROVE Aimed'
    BY <2>1 DEF Aimed
  <2>3. /\ cur > 1 /\ top' = frames[cur - 1] /\ top = frames[cur] /\ cur' = cur - 1 /\ cur \in Nat /\ Len(frames) = cur
        /\ top.blk = cur' /\ top'.op # "native"
    BY <1>4, <2>1, <2>2 DEF top, cur, Links, Ruby
  <2>4. err.kind = "break" => err.parent = cur'
    BY <2>1, <2>3 DEF Aimed
  <2>5. ASSUME err.kind = "return", err.home # 0 PROVE LeadsHome(frames', cur', err.home)
    <3>1. LeadsHome(frames, cur', err.home) /\ cur' # Len(frames)
      BY <2>1, <2>3, <2>5 DEF Aimed
    <3> QED BY <1>1, <2>1, <3>1, LeadsFront
  <2> QED BY <2>1, <2>3, <2>4, <2>5 DEF Aimed
<1>8. CASE PassOn
  <2>1. /\ frames # <<>> /\ frames' = frames /\ err.at = "received" /\ err' = [err EXCEPT !.at = "thrown"]
        /\ top.op # "native" /\ err.kind # "break" /\ (err.kind = "return" => ~IsMethod(top)) /\ err \in Errors
    BY <1>1, <1>2, <1>8 DEF PassOn, InCode, TakesBreak, TakesReturn, Ruby
  <2>2. err'.kind = err.kind /\ err'.home = err.home /\ err'.at = "thrown" /\ top' = top /\ cur' = cur
    BY <2>1 DEF Errors, top, cur
  <2>3. ASSUME err.kind = "return", err.home # 0 PROVE top.op = "block" /\ LeadsHome(frames, cur, err.home)
    <3>1. LeadsHome(frames, cur, err.home)
      BY <2>1, <2>3 DEF Aimed
    <3>2. frames[cur].op = "block" \/ IsMethod(frames[cur])
      BY <3>1, LeadsStep
    <3> QED BY <1>4, <2>1, <2>3, <3>1, <3>2
  <2> QED BY <2>1, <2>2, <2>3 DEF Aimed
<1>9. ASSUME err.kind \notin {"break", "return"}, err' = err \/ err'.kind = err.kind PROVE Aimed'
  BY <1>3, <1>9
<1>10. CASE RaiseLeaves
  <2>1. err \in Errors /\ err.kind \notin {"break", "return"} /\ err' = [err EXCEPT !.at = "received"]
    BY <1>1, <1>2, <1>10 DEF RaiseLeaves, Leave, IsJump
  <2>2. err'.kind = err.kind
    BY <2>1 DEF Errors
  <2> QED BY <1>9, <2>1, <2>2
<1>11. CASE Throw
  <2>1. err'.kind = "raise"
    BY <1>11 DEF Throw, NoErr
  <2> QED BY <1>3, <2>1
<1>12. ASSUME err' = NoErr PROVE Aimed'
  BY <1>2, <1>3, <1>12
<1>13. CASE \/ PushOperand \/ PopOperand \/ Begin \/ EndBegin \/ TempPush
            \/ (\E blk \in 0 .. MaxFrames : CallMethod(blk))
            \/ CallNative \/ DefClass \/ NativeCallsBlock \/ Yield
            \/ End \/ NativeEnd
  <2>1. err' = NoErr
    BY <1>13 DEF PushOperand, PopOperand, Begin, EndBegin, TempPush, CallMethod, CallNative, DefClass,
                 NativeCallsBlock, Yield, End, NativeEnd, MayCall, InRuby, InNative
  <2> QED BY <1>12, <2>1
<1>14. CASE Rescue \/ NativeCatches \/ BreakArrives \/ ReturnArrives
  <2>1. err' = NoErr
    BY <1>14 DEF Rescue, NativeCatches, BreakArrives, ReturnArrives
  <2> QED BY <1>12, <2>1
<1> QED BY <1>5, <1>6, <1>7, <1>8, <1>10, <1>11, <1>13, <1>14 DEF Next

(* Where a jump ends.                                                      *)
LEMMA AimedArrives ==
  ASSUME Shape, Aimed, Next, err' = NoErr
  PROVE  /\ err.kind = "break" => Len(frames') = err.parent
         /\ err.kind = "return" /\ err.home # 0 => Len(frames') = err.home - 1
<1>1. frames \in Seq(IntFrame) /\ NoErr.kind = "none" /\ NoErr.at = "none"
  BY DEF Shape, NoErr
<1>2. CASE BreakArrives
  <2>1. frames # <<>> /\ err.kind = "break" /\ err.at = "received" /\ top.op # "native" /\ frames' = Update("depth", top.depth + 1)
    BY <1>2 DEF BreakArrives, InCode, TakesBreak, Ruby
  <2>2. top.depth + 1 \in Int /\ Len(frames) = cur
    BY <2>1, TopFacts DEF IntFrame
  <2>3. Len(frames') = cur
    BY <1>1, <2>1, <2>2, UpdateTunes DEF Tuned, Retuned
  <2> QED BY <2>1, <2>3 DEF Aimed
<1>3. CASE ReturnArrives
  <2>1. frames # <<>> /\ err.kind = "return" /\ err.at = "received" /\ IsMethod(top)
    BY <1>3 DEF ReturnArrives, InCode, TakesReturn
  <2>2. top = frames[cur] /\ Len(Front(frames)) = cur - 1 /\ Front(frames) \in Seq(IntFrame)
    BY <2>1, TopFacts
  <2>3. Len(frames') = cur - 1
    <3>1. frames' = Front(frames) \/ (Front(frames) # <<>> /\ frames' = [Front(frames) EXCEPT ![Len(Front(frames))].depth = @ + 1])
      BY <1>3 DEF ReturnArrives, Delivered
    <3> QED BY <2>2, <3>1, DeliveryTunes DEF Tuned, Retuned
  <2>4. err.home # 0 => cur = err.home
    BY <2>1, <2>2, LeadsStep DEF Aimed, IsMethod
  <2> QED BY <2>1, <2>3, <2>4
<1>4. CASE \/ PushOperand \/ PopOperand \/ Begin \/ EndBegin \/ TempPush
            \/ (\E blk \in 0 .. MaxFrames : CallMethod(blk))
            \/ CallNative \/ DefClass \/ NativeCallsBlock \/ Yield
            \/ End \/ NativeEnd \/ Throw \/ (\E kind \in {"break", "return"} : Jump(kind))
  <2>1. err = NoErr
    BY <1>4 DEF PushOperand, PopOperand, Begin, EndBegin, TempPush, CallMethod, CallNative, DefClass,
                NativeCallsBlock, Yield, End, NativeEnd, Throw, Jump, MayCall, InRuby, InNative
  <2> QED BY <1>1, <2>1
<1>5. CASE JumpLeaves \/ RaiseLeaves \/ NativeFails \/ PassOn
  <2>1. err.at \in {"thrown", "received"} /\ err \in Errors
    BY <1>1, <1>5 DEF JumpLeaves, RaiseLeaves, NativeFails, PassOn, InCode, Shape, ErrOK
  <2>2. err'.at \in {"thrown", "received"}
    BY <1>5, <2>1 DEF JumpLeaves, RaiseLeaves, Leave, NativeFails, PassOn, Errors
  <2> QED BY <1>1, <2>2
<1>6. CASE Rescue \/ NativeCatches
  BY <1>6 DEF Rescue, NativeCatches, IsJump
<1> QED BY <1>2, <1>3, <1>4, <1>5, <1>6 DEF Next

-----------------------------------------------------------------------------
(* The theorems *)

LEMMA CountedInit ==
  ASSUME Init, Shape
  PROVE  Counted
<1>1. Len(frames) = 1 /\ frames[1].op = "top" /\ frames[1].tbase = 0
  BY DEF Init
<1>2. BodiesOf(frames) = {}
  BY <1>1 DEF BodiesOf
<1> QED BY <1>1, <1>2, FS_EmptySet DEF Init, Counted

LEMMA OperandsInit ==
  ASSUME Init, Shape
  PROVE  Operands
<1>1. /\ Len(frames) = 1 /\ frames # <<>> /\ Last(frames) = frames[1]
      /\ frames[1] = [op |-> "top", base |-> 0, tbase |-> 0, blk |-> 0, parent |-> 0,
                      depth |-> 0, handler |-> NoHandler]
  BY DEF Init, Last
<1>2. /\ 0 \in 0 .. MaxFrames /\ 0 \in 0 .. MaxDepth + 1 /\ NoHandler \in NoHandler .. MaxDepth
  BY RunContextAssumption DEF NoHandler
<1>3. frames[1] \in Frame
  BY <1>1, <1>2 DEF Frame, Ruby
<1>4. Stacked(frames) /\ EndOf(frames) = 0
  BY <1>1, <1>3 DEF Stacked, StackedAt, EndOf
<1> QED BY <1>4 DEF Init, Operands, NoErr

(* However calls end, by their value, by an exception, a break or a return *)
(* from a block, the stack of temporaries is empty when no builtin is in   *)
(* progress and the stack of classes has the classes whose bodies are.     *)
THEOREM StacksCut ==
  Spec => []StacksOfCallsInProgress
<1>1. Init => Shape /\ Counted
  BY ShapeInit, CountedInit
<1>2. Shape /\ Counted /\ [Next]_vars => (Shape /\ Counted)'
  BY ShapeStep, CountedStep
<1>3. Shape /\ Counted => StacksOfCallsInProgress
  <2> SUFFICES ASSUME Shape, Counted PROVE StacksOfCallsInProgress
    OBVIOUS
  <2>1. DOMAIN frames = 1 .. Len(frames)
    BY DEF Shape
  <2>2. BodiesOf(frames) = {k \in DOMAIN frames : frames[k].op = "class"}
    BY <2>1 DEF BodiesOf
  <2> QED BY <2>1, <2>2 DEF Counted, NoNative, StacksOfCallsInProgress
<1> QED BY <1>1, <1>2, <1>3, PTL DEF Spec

(* While begin, break and return are statements, the code of every frame   *)
(* finds its operands on the shared stack, with the value of a call above  *)
(* them, and nothing is left at the end.                                   *)
THEOREM OperandsAgree ==
  ASSUME ~Nested
  PROVE  Spec => []OperandsFound
<1> DEFINE Inv == Shape /\ Counted /\ Operands
<1>1. Init => Inv
  BY ShapeInit, CountedInit, OperandsInit
<1>2. Inv /\ [Next]_vars => Inv'
  <2> SUFFICES ASSUME Inv, [Next]_vars PROVE Inv'
    OBVIOUS
  <2>1. Shape' /\ Counted'
    BY ShapeStep, CountedStep
  <2>2. CASE Next
    BY <2>1, <2>2, OperandsStep
  <2>3. CASE UNCHANGED vars
    BY <2>1, <2>3 DEF vars, Operands, Stacked, StackedAt, EndOf, IsJump, TakerIdle, top
  <2> QED BY <2>1, <2>2, <2>3
<1>3. Inv => OperandsFound
  <2> SUFFICES ASSUME Inv PROVE OperandsFound
    OBVIOUS
  <2>1. frames \in Seq(Frame)
    <3>1. \A k \in 1 .. Len(frames) : frames[k] \in Frame
      BY DEF Operands, Stacked, StackedAt
    <3>2. frames \in Seq(IntFrame)
      BY DEF Shape
    <3> QED BY <3>1, <3>2, SeqDef
  <2>2. classes \in Nat
    BY BodiesFacts, FS_CardinalityType DEF Shape, Counted
  <2>3. err \in [kind : {"none", "raise", "break", "return"}, at : {"none", "thrown", "received"},
                 parent : 0 .. MaxFrames, home : 0 .. MaxFrames]
    <3>1. 0 \in 0 .. MaxFrames
      BY RunContextAssumption
    <3>2. CASE err = NoErr
      BY <3>1, <3>2 DEF NoErr
    <3>3. CASE err # NoErr
      BY <3>3 DEF Shape, ErrOK, Errors
    <3> QED BY <3>2, <3>3
  <2>4. TypeOK
    BY <2>1, <2>2, <2>3 DEF TypeOK, Shape, Operands
  <2>5. InRuby => len = top.base + top.depth
    BY DEF InRuby, Operands, EndOf, top
  <2>6. ASSUME NEW k \in 1 .. cur - 1 PROVE frames[k + 1].base = frames[k].base + frames[k].depth
    <3>1. k + 1 \in 1 .. Len(frames) /\ k + 1 > 1 /\ (k + 1) - 1 = k
      BY DEF cur, Shape
    <3> QED BY <3>1 DEF Operands, Stacked, StackedAt
  <2> QED BY <2>4, <2>5, <2>6 DEF OperandsFound, Operands, EndOf
<1> QED BY <1>1, <1>2, <1>3, PTL DEF Spec

(* While blocks that methods yield to neither break nor return, a break    *)
(* goes on in the frame with the code of the block and a return ends the   *)
(* method around the block, through any number of blocks and builtins.     *)
THEOREM JumpsArrive ==
  ASSUME ~Yields
  PROVE  Spec => JumpsLeadHome
<1>1. Init => Shape /\ Aimed
  BY ShapeInit DEF Init, Aimed, NoErr
<1>2. Shape /\ Aimed /\ [Next]_vars => (Shape /\ Aimed)'
  <2> SUFFICES ASSUME Shape, Aimed, [Next]_vars PROVE (Shape /\ Aimed)'
    OBVIOUS
  <2>1. CASE Next
    BY <2>1, ShapeStep, AimedStep
  <2>2. CASE UNCHANGED vars
    BY <2>2, ShapeStep DEF vars, Aimed, top, cur
  <2> QED BY <2>1, <2>2
<1>3. Shape /\ Aimed /\ [Next]_vars =>
        [err' = NoErr =>
           /\ err.kind = "break" => Len(frames') = err.parent
           /\ err.kind = "return" /\ err.home # 0 => Len(frames') = err.home - 1]_vars
  BY AimedArrives
<1> QED BY <1>1, <1>2, <1>3, PTL DEF Spec, JumpsLeadHome

=============================================================================
