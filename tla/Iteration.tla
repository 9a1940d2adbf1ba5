------------------------------ MODULE Iteration ------------------------------
(***************************************************************************)
(* The methods of arrays and ranges that run a block (builtin/array.rs,    *)
(* builtin/range.rs, value/array.rs), called on one array by a program     *)
(* whose blocks call further ones, change the array, raise, or return new  *)
(* objects.  A method is native code: what it has put aside is found by    *)
(* the collector only in the array, on temp_stack, or in the variables of  *)
(* a running block.                                                        *)
(***************************************************************************)
EXTENDS Integers, SequencesExt

CONSTANTS
    MaxLen,     \* the elements of the array
    Depth,      \* methods in progress at a time
    Ids,        \* objects
    Nested      \* the methods that blocks call

ASSUME IterationAssumption == MaxLen \in Nat /\ Depth \in Nat /\ Ids \in Nat /\ Nested \subseteq STRING

VARIABLES
    cells,      \* the buffer of the array, as far as it has been written
    len,        \* elements of the array
    temp,       \* VM.temp_stack
    frames,     \* methods in progress, each waiting for its block, innermost last
    last        \* the method that has just returned, or Nothing

vars == <<cells, len, temp, frames, last>>

----------------------------------------------------------------------------
(* Objects have an identity, a value that eql? compares, and elements;     *)
(* immediate values have no identity.                                      *)
Object(id, val, elems) == [id |-> id, val |-> val, elems |-> elems]
Imm(val) == Object(0, val, <<>>)
Yes == Imm("true")
No == Imm("false")
Receiver == Imm("receiver")     \* the array itself, which the program holds
Freed == Object(-1, "freed", <<>>)
Truthy(v) == v.val # "false"
Ref(o) == {o.id} \cup {o.elems[i].id : i \in DOMAIN o.elems}
Refs(s) == UNION {Ref(s[i]) : i \in DOMAIN s}

array == SubSeq(cells, 1, len)
Nothing == [op |-> "none"]

ArrayOps ==
    {"each", "map", "flat_map", "select", "reject", "partition", "find", "find_index",
     "any?", "all?", "inject", "uniq", "uniq!", "bsearch"}
RangeOps == {"Range#map", "Range#flat_map"}
RangeLen == 2
Ops == ArrayOps \cup RangeOps

Used ==
    LET OfFrame(f) == {f.cur.id} \cup Refs(f.out) \cup Refs(f.rest) \cup Refs(f.keys) \cup Refs(f.start)
                      \cup UNION {Ref(f.calls[i][1]) \cup Ref(f.calls[i][2]) : i \in DOMAIN f.calls}
    IN  Refs(cells) \cup Refs(temp) \cup UNION {OfFrame(frames[k]) : k \in DOMAIN frames}
FreshIds == 1 .. Ids \ Used
NewId(n) == CHOOSE x \in FreshIds : Cardinality({y \in FreshIds : y < x}) = n

(* What blocks return.                                                     *)
Results(op, cur) ==
    CASE op \in {"map", "Range#map", "inject"} -> {cur, Object(NewId(0), "a", <<>>)}
      [] op \in {"uniq", "uniq!"} -> {Object(NewId(0), v, <<>>) : v \in {"a", "b"}}
      [] op \in {"flat_map", "Range#flat_map"} ->
            {cur, Object(NewId(0), "array", <<Object(NewId(1), "a", <<>>)>>)}
      [] op = "each" -> {Yes}
      [] OTHER -> {Yes, No}

----------------------------------------------------------------------------
(* A method in progress: i counts from 1 through n values of the slice it  *)
(* took at its beginning, out and rest are what it collects, keys its set  *)
(* of values met, del the elements retain has dropped, lo and hi the       *)
(* bounds of a binary search, base the height of temp_stack at its call.   *)
(* moved: the buffer of its slice was given up.  calls and start (the      *)
(* array at the call) are history, kept until the array is changed by      *)
(* other than the method itself (disturbed).                               *)
Frame(op) ==
    [op |-> op, i |-> 1, n |-> IF op \in RangeOps THEN RangeLen ELSE len, cur |-> Yes,
     out |-> <<>>, rest |-> <<>>, keys |-> <<>>, del |-> 0, lo |-> 0, hi |-> 0,
     base |-> Len(temp), calls |-> <<>>, start |-> array, disturbed |-> FALSE, moved |-> FALSE]

Disturbed(f) == [f EXCEPT !.disturbed = TRUE, !.calls = <<>>, !.start = <<>>]

Element(f, memory) ==
    IF f.op \in RangeOps THEN Imm("a")
    ELSE IF f.moved \/ f.i > Len(memory) THEN Freed ELSE memory[f.i]

(* What the block's value v changes in the frame.                          *)
IsNew(f, v) == \A k \in DOMAIN f.keys : f.keys[k].val # v.val
Contents(v) == IF v.val = "array" THEN v.elems ELSE <<v>>
Collect(f, v) ==
    LET g == [f EXCEPT !.calls = IF f.disturbed THEN <<>> ELSE Append(@, <<f.cur, v>>)]
        chosen == [g EXCEPT !.out = Append(@, f.cur)]
        others == [g EXCEPT !.rest = Append(@, f.cur)]
    IN  CASE f.op = "select" -> IF Truthy(v) THEN chosen ELSE g
          [] f.op = "reject" -> IF Truthy(v) THEN g ELSE chosen
          [] f.op = "partition" -> IF Truthy(v) THEN chosen ELSE others
          [] f.op \in {"flat_map", "Range#flat_map"} -> [g EXCEPT !.out = @ \o Contents(v)]
          [] f.op = "Range#map" -> [g EXCEPT !.out = Append(@, v)]
          [] f.op = "uniq" -> IF IsNew(f, v) THEN [chosen EXCEPT !.keys = Append(@, v)] ELSE g
          [] f.op = "uniq!" -> IF IsNew(f, v) THEN [g EXCEPT !.keys = Append(@, v)]
                               ELSE [g EXCEPT !.del = @ + 1]
          [] f.op = "bsearch" -> [g EXCEPT !.lo = IF Truthy(v) THEN @ ELSE f.i,
                                           !.hi = IF Truthy(v) THEN f.i ELSE @]
          [] OTHER -> g

(* What it keeps for the collector.  flat_map of an array takes the        *)
(* elements out of the array it keeps.                                     *)
Kept_Uniq(f, v) == IF f.op \in {"map", "Range#map", "Range#flat_map"} THEN <<v>> ELSE <<>>
Kept(f, v) ==
    CASE f.op \in {"map", "Range#map", "Range#flat_map", "uniq!"} -> <<v>>
      [] f.op = "flat_map" -> <<[v EXCEPT !.elems = <<>>]>>
      [] OTHER -> <<>>

(* ArrayInfo::retain moves an element that stays down by a swap.           *)
Moved_Copy(f, v, memory) ==
    IF f.op = "uniq!" /\ ~f.moved /\ IsNew(f, v) /\ f.del > 0 THEN [memory EXCEPT ![f.i - f.del] = memory[f.i]] ELSE memory
Moved(f, v, memory) ==
    IF f.op = "uniq!" /\ ~f.moved /\ IsNew(f, v) /\ f.del > 0
      THEN [memory EXCEPT ![f.i - f.del] = memory[f.i], ![f.i] = memory[f.i - f.del]]
      ELSE memory

(* The next value, or 0: binary_search tries the first element, the last,  *)
(* then the middle.                                                        *)
After(f, v) ==
    CASE f.op \in {"find", "find_index", "any?"} /\ Truthy(v) -> 0
      [] f.op = "all?" /\ ~Truthy(v) -> 0
      [] f.op = "bsearch" ->
            LET g == Collect(f, v)
                mid == g.lo + (g.hi - g.lo) \div 2
            IN  CASE g.hi = 0 -> IF f.lo = 0 THEN f.n ELSE 0
                  [] mid = g.lo -> 0
                  [] OTHER -> mid
      [] OTHER -> IF f.i < f.n THEN f.i + 1 ELSE 0

(* What a method returns, given its last call.                             *)
Returned(f, v, memory, kept) ==
    CASE f.op \in {"map"} -> SubSeq(kept, f.base + 2, Len(kept))
      [] f.op \in {"select", "reject", "flat_map", "Range#map", "Range#flat_map", "uniq"} -> f.out
      [] f.op = "partition" -> f.out \o <<Receiver>> \o f.rest
      [] f.op = "find" -> IF Truthy(v) THEN <<f.cur>> ELSE <<>>
      [] f.op = "find_index" -> IF Truthy(v) THEN <<f.i>> ELSE <<>>
      [] f.op \in {"any?", "all?"} -> <<Truthy(v)>>
      [] f.op = "inject" -> <<v>>
      [] f.op = "bsearch" -> IF f.hi = 0 THEN <<>> ELSE <<Element([f EXCEPT !.i = f.hi], memory)>>
      [] OTHER -> <<Receiver>>

----------------------------------------------------------------------------
(* Bound: a block that finds the array changed calls and changes no more.  *)
Changed == \E k \in DOMAIN frames : frames[k].disturbed

(* A program, or a block, calls a method; its native code keeps receiver   *)
(* and arguments on temp_stack and calls the block for the first value.    *)
Call ==
    /\ Len(frames) < Depth
    /\ frames = <<>> => last = Nothing
    /\ ~Changed
    /\ \E op \in IF frames = <<>> THEN Ops ELSE Nested :
         LET f == Frame(op)
         IN  /\ f.n > 0
             /\ frames' = Append(frames, [f EXCEPT !.cur = Element(f, cells)])
    /\ temp' = Append(temp, Receiver)
    /\ last' = Nothing
    /\ UNCHANGED <<cells, len>>

(* The innermost block returns v: the method goes on to its next value...  *)
Returning(f, v) ==
    LET k == Len(frames)
        memory == Moved(f, v, cells)
        changes(fs) == IF memory = cells THEN fs ELSE [j \in DOMAIN fs |-> Disturbed(fs[j])]
    IN  [memory |-> memory,
         outer |-> changes(Front(frames)),
         frame |-> Collect(f, v),
         kept |-> temp \o Kept(f, v)]
GoOn ==
    /\ frames # <<>> /\ Cardinality(FreshIds) > 2
    /\ LET f == Last(frames)
       IN  \E v \in {r \in Results(f.op, f.cur) : After(f, r) # 0} :
             LET r == Returning(f, v)
                 g == [r.frame EXCEPT !.i = After(f, v)]
             IN  /\ cells' = r.memory
                 /\ frames' = Append(r.outer, [g EXCEPT !.cur = Element(g, r.memory)])
                 /\ temp' = r.kept
    /\ last' = Nothing
    /\ UNCHANGED len

(* ...or returns: invoke_native cuts temp_stack back.                      *)
Cut(f) == SubSeq(temp, 1, f.base)
Finish ==
    /\ frames # <<>> /\ Cardinality(FreshIds) > 2
    /\ LET f == Last(frames)
       IN  \E v \in {r \in Results(f.op, f.cur) : After(f, r) = 0} :
             LET r == Returning(f, v)
                 shrinks == r.frame.del > 0
                 cut == IF f.n - r.frame.del < len THEN f.n - r.frame.del ELSE len
             IN  /\ cells' = r.memory
                 /\ len' = IF shrinks THEN cut ELSE len
                 /\ frames' = IF shrinks THEN [j \in DOMAIN r.outer |-> Disturbed(r.outer[j])] ELSE r.outer
                 /\ temp' = Cut(f)
                 /\ last' = [op |-> f.op, calls |-> r.frame.calls, start |-> f.start, disturbed |-> f.disturbed,
                             result |-> Returned(r.frame, v, r.memory, r.kept),
                             array |-> SubSeq(r.memory, 1, len')]

(* A block raises; a block further out, or the program, rescues.           *)
Unwound_None(k) == temp
Unwound(k) == SubSeq(temp, 1, frames[k].base)
Raise ==
    /\ \E k \in DOMAIN frames : frames' = SubSeq(frames, 1, k - 1) /\ temp' = Unwound(k)
    /\ last' = [op |-> "raised"]
    /\ UNCHANGED <<cells, len>>

----------------------------------------------------------------------------
(* A program begins with a new array; a block changes it.                  *)
Literal ==
    /\ frames = <<>>
    /\ \E n \in 0 .. MaxLen : cells' = [i \in 1 .. n |-> Object(i, "a", <<>>)] /\ len' = n
    /\ last' = Nothing
    /\ UNCHANGED <<temp, frames>>
Change(memory, n, moves) ==
    /\ frames # <<>> /\ ~Changed
    /\ cells' = memory
    /\ len' = n
    /\ frames' = [k \in DOMAIN frames |->
                    [Disturbed(frames[k]) EXCEPT !.moved = @ \/ moves]]
    /\ last' = Nothing
    /\ UNCHANGED temp
Store ==
    /\ FreshIds # {}
    /\ \E j \in 1 .. len : Change([cells EXCEPT ![j] = Object(NewId(0), "a", <<>>)], len, FALSE)
Push ==
    /\ FreshIds # {} /\ len < MaxLen
    /\ LET o == Object(NewId(0), "a", <<>>)
       IN  IF len < Len(cells)
             THEN Change([cells EXCEPT ![len + 1] = o], len + 1, FALSE)
             ELSE \E moves \in BOOLEAN : Change(Append(cells, o), len + 1, moves)
Pop == len > 0 /\ Change(cells, len - 1, FALSE)
Shift == len > 0 /\ Change(SubSeq(cells, 2, len), len - 1, TRUE)

Init ==
    /\ cells = <<>> /\ len = 0
    /\ temp = <<>> /\ frames = <<>> /\ last = Nothing
Next == Literal \/ Call \/ GoOn \/ Finish \/ Raise \/ Store \/ Push \/ Pop \/ Shift
Spec == Init /\ [][Next]_vars

----------------------------------------------------------------------------
(* Whatever a method still needs after its block (what it has collected,   *)
(* the values it compares with, the elements to come) is found by a        *)
(* collection during the block, unless the array was changed meanwhile.    *)
(* uniq and flat_map of an array do not see to it.                         *)
Unrooted == {"uniq", "flat_map"}
ResultsRooted ==
    LET roots == {0} \cup Refs(array) \cup Refs(temp) \cup UNION {Ref(frames[k].cur) : k \in DOMAIN frames}
        needed(f) == Refs(f.out) \cup Refs(f.rest) \cup Refs(f.keys)
                     \cup (IF f.op \in ArrayOps THEN Refs(SubSeq(cells, 1, f.n)) ELSE {})
    IN  \A k \in DOMAIN frames : frames[k].op \notin Unrooted /\ ~frames[k].disturbed => needed(frames[k]) \subseteq roots

(* The values and the results of the calls of a block; those at the        *)
(* positions in S, in their order.                                         *)
Given(calls) == [i \in DOMAIN calls |-> calls[i][1]]
Got(calls) == [i \in DOMAIN calls |-> calls[i][2]]
Ranked(S, j) == {i \in S : Cardinality({h \in S : h < i}) = j - 1}
Chosen(given, S) == [j \in 1 .. Cardinality(S) |-> given[CHOOSE i \in Ranked(S, j) : TRUE]]

(* The calls that returned true, and those that returned a value not met   *)
(* before.                                                                 *)
Accepted(got) == {i \in DOMAIN got : Truthy(got[i])}
Firsts(got) == {i \in DOMAIN got : \A j \in 1 .. i - 1 : got[j].val # got[i].val}

(* What Ruby says that a method returns for the values the block returned. *)
Wanted(op, given, got) ==
    LET yes == Accepted(got)
        no == DOMAIN got \ yes
    IN  CASE op \in {"map", "Range#map"} -> got
          [] op \in {"flat_map", "Range#flat_map"} -> FlattenSeq([i \in DOMAIN got |-> Contents(got[i])])
          [] op = "select" -> Chosen(given, yes)
          [] op = "reject" -> Chosen(given, no)
          [] op = "partition" -> Chosen(given, yes) \o <<Receiver>> \o Chosen(given, no)
          [] op = "find" -> Chosen(given, yes)
          [] op = "find_index" -> IF yes = {} THEN <<>> ELSE <<Len(got)>>
          [] op = "any?" -> <<yes # {}>>
          [] op = "all?" -> <<no = {}>>
          [] op = "inject" -> <<Last(got)>>
          [] op = "uniq" -> Chosen(given, Firsts(got))
          [] OTHER -> <<Receiver>>
Stops(op, v) ==
    \/ op \in {"find", "find_index", "any?"} /\ Truthy(v)
    \/ op = "all?" /\ ~Truthy(v)
Asked(call, i, v) == <<call.start[i], v>> \in ToSet(call.calls)
AsRuby(call) ==
    LET given == Given(call.calls)
        got == Got(call.calls)
        values == IF call.op \in RangeOps THEN [i \in 1 .. RangeLen |-> Imm("a")] ELSE call.start
        n == Len(call.start)
    IN  IF call.op = "bsearch"
          THEN \/ call.result = <<>> /\ Asked(call, n, No)
               \/ \E i \in 1 .. n : /\ call.result = <<call.start[i]>> /\ Asked(call, i, Yes)
                                    /\ i = 1 \/ Asked(call, i - 1, No)
          ELSE /\ IsPrefix(given, values)
               /\ \A i \in DOMAIN got : Stops(call.op, got[i]) => i = Len(got)
               /\ given = values \/ Stops(call.op, Last(got))
               /\ call.result = Wanted(call.op, given, got)
               /\ call.array = IF call.op = "uniq!" THEN Chosen(given, Firsts(got)) ELSE call.start
(* A method whose array was not changed meanwhile has given its block the  *)
(* elements in order, as many as it had to, and returns what Ruby says for *)
(* the values the block has returned, whatever was called and rescued      *)
(* within the blocks.                                                      *)
ReturnsAsRuby == last.op \in Ops /\ ~last.disturbed => AsRuby(last)

(* uniq! in progress, or left by an exception, has lost no element and     *)
(* doubled none.                                                           *)
RetainKeepsAll ==
    \A k \in DOMAIN frames :
        LET f == frames[k]
        IN  f.op = "uniq!" /\ ~f.disturbed => Len(array) = Len(f.start) /\ ToSet(array) = ToSet(f.start)
=============================================================================
