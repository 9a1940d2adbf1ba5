------------------------------- MODULE Closures -------------------------------
(***************************************************************************)
(* Execution contexts and closures: vm/context.rs and the part of          *)
(* vm/executor.rs that calls methods, blocks and procs.                    *)
(*                                                                         *)
(* The context of a call lies on the native stack.  When a closure is made *)
(* the contexts it can see are copied to the heap: the copy becomes the    *)
(* context, and every pointer that is not redirected sees a stale one.     *)
(*                                                                         *)
(* A context is an address <<n, "stack">> or <<n, "heap">>, n the number   *)
(* of the call; the copy of <<n, "stack">> is <<n, "heap">>.  A context    *)
(* has one local variable.  One VM is modelled.                            *)
(***************************************************************************)
EXTENDS Integers, SequencesExt

CONSTANTS MaxCalls,        \* bound: calls with a context of their own
          MaxDepth,        \* bound: nested native calls
          Val,             \* values a program assigns
          Uninit,          \* Value::uninitialized
          Enumerators,     \* may enumerators be made in contexts on the stack?
          CapturedBlocks   \* may it make closures in a method that has a block?

ASSUME ClosuresAssumption ==
    /\ MaxCalls \in Nat \ {0} /\ MaxDepth \in Nat \ {0}
    /\ Uninit \notin Val
    /\ Enumerators \in BOOLEAN /\ CapturedBlocks \in BOOLEAN

VARIABLES
    calls,    \* number of contexts made so far
    ctx,      \* ctx[c]: the Context at address c; a dropped one keeps its bits
    ctl,      \* native calls in progress: its Run entries are exec_context
              \* followed by cur_context
    procs,    \* Proc objects: the outer context of each
    enums     \* Enumerator objects: the context their args.block refers to

vars == <<calls, ctx, ctl, procs, enums>>

Address == (1 .. MaxCalls) \X {"stack", "heap"}
NONE == <<0, "none">>
Context == [live : BOOLEAN, outer : Address \cup {NONE}, block : Address \cup {NONE},
            moved : BOOLEAN, lvar : Val \cup {Uninit}]
Unused == [live |-> FALSE, outer |-> NONE, block |-> NONE, moved |-> FALSE, lvar |-> Uninit]

OnStack(c) == c[2] = "stack"
HeapOf(c) == <<c[1], "heap">>

(* Context::get_current                                                    *)
Current(c) == IF OnStack(c) /\ ctx[c].moved THEN HeapOf(c) ELSE c

(* A native call: one that runs the context `at`, or a builtin method      *)
(* called with a block of context `blk`, `at` its context of iterations.   *)
Run(c) == [op |-> "run", at |-> c, blk |-> NONE]
Builtin(op, b, c) == [op |-> op, at |-> c, blk |-> b]
Call == [op : {"run", "each", "native"}, at : Address \cup {NONE}, blk : Address \cup {NONE}]
top == Last(ctl)
Running == ctl # <<>> /\ top.op = "run"

(* The context d scopes out of c, NONE past the outermost, which is the    *)
(* method's (get_outer_context, get_method_context).                       *)
Up(c, d) ==
    LET up[k \in 0 .. d] ==
            IF k = 0 THEN c ELSE IF up[k - 1] = NONE THEN NONE ELSE ctx[up[k - 1]].outer
    IN up[d]
Scopes(c) == {Up(c, d) : d \in 0 .. MaxCalls} \ {NONE}
MethodContext(c) == CHOOSE m \in Scopes(c) : ctx[m].outer = NONE

-----------------------------------------------------------------------------
(* Calls *)

Enter(outer, block, rest) ==
    LET c == <<calls + 1, "stack">> IN
    /\ calls < MaxCalls /\ Len(rest) < MaxDepth
    /\ calls' = calls + 1
    /\ ctx' = [ctx EXCEPT ![c] = [live |-> TRUE, outer |-> outer, block |-> block,
                                  moved |-> FALSE, lvar |-> Uninit]]
    /\ ctl' = Append(rest, Run(c))
    /\ UNCHANGED <<procs, enums>>

Push(e) ==
    /\ Len(ctl) < MaxDepth
    /\ ctl' = Append(ctl, e)
    /\ UNCHANGED <<calls, ctx, procs, enums>>

Init ==
    /\ calls = 1
    /\ ctx = [c \in Address |-> IF c = <<1, "stack">> THEN [Unused EXCEPT !.live = TRUE] ELSE Unused]
    /\ ctl = <<Run(<<1, "stack">>)>>
    /\ procs = {} /\ enums = {}

(* A method written in Ruby: without a block, with a block literal, which  *)
(* refers to the current context, or with a proc.                          *)
CallMethod(b) ==
    /\ Running /\ b \in {NONE, top.at} \cup procs
    /\ Enter(NONE, b, ctl)

(* A builtin method with a block literal: "each" for one that iterates     *)
(* with eval_block_iter1, "native" for one that calls eval_block.          *)
CallBuiltin(op) == Running /\ Push(Builtin(op, top.at, NONE))

(* The outer context of a block's call is the current copy of the one the  *)
(* block refers to.                                                        *)
OuterOf_Stale(blk) == blk
OuterOf(blk) == Current(blk)

BuiltinCallsBlock ==
    /\ ctl # <<>> /\ top.op = "native"
    /\ Enter(OuterOf(top.blk), NONE, ctl)

(* invoke_method_iter1 makes one context and runs it in every iteration,   *)
(* its current copy from the second on.                                    *)
Reused_Stale(c) == c
Reused(c) == Current(c)

EachCallsBlock ==
    /\ ctl # <<>> /\ top.op = "each"
    /\ IF top.at = NONE
         THEN LET owner == Builtin("each", top.blk, <<calls + 1, "stack">>) IN
              Enter(OuterOf(top.blk), NONE, Append(Front(ctl), owner))
         ELSE Push(Run(Reused(top.at)))

(* yield: the block of the method the current context belongs to.          *)
EvalYield ==
    /\ Running
    /\ LET b == ctx[MethodContext(top.at)].block IN
       b # NONE /\ Enter(OuterOf(b), NONE, ctl)

(* A proc, from Ruby or from a builtin that was given it as its block.     *)
EvalProc(p) == ctl # <<>> /\ p \in procs /\ Enter(p, NONE, ctl)

(* A call returns or unwinds.  The native frame that made a context drops  *)
(* it; a copy on the heap stays, for the closures that refer to it.        *)
Dropped(e, rest) ==
    LET c == <<e.at[1], "stack">> IN
    IF e.at = NONE \/ \E k \in DOMAIN rest : rest[k].at = c THEN {} ELSE {c}
Return ==
    /\ ctl # <<>>
    /\ ctl' = Front(ctl)
    /\ LET gone == Dropped(top, Front(ctl)) IN
       ctx' = [c \in Address |-> [ctx[c] EXCEPT !.live = ctx[c].live /\ c \notin gone]]
    /\ UNCHANGED <<calls, procs, enums>>

-----------------------------------------------------------------------------
(* Closures *)

(* move_outer_to_heap: the contexts on the stack from c outwards.          *)
Moving(c) ==
    {Up(c, d) : d \in {d \in 0 .. MaxCalls :
        \A k \in 0 .. d : Up(c, k) # NONE /\ OnStack(Up(c, k))}}

(* Its search goes down exec_context once, "not found." if one is missing. *)
RunsAt(k, c) == ctl[k] = Run(c)
Found(c) ==
    /\ \A s \in Moving(c) : \E k \in DOMAIN ctl : RunsAt(k, s)
    /\ \A j, k \in DOMAIN ctl : \A s \in Moving(c) :
           (ctx[s].outer \in Moving(c) /\ RunsAt(j, s) /\ RunsAt(k, ctx[s].outer)) => k < j

(* The copies refer to the copies of their outer contexts, and exec_context *)
(* is redirected to them.                                                  *)
OuterMoved_Shallow(o, moving) == o
OuterMoved(o, moving) == IF o \in moving THEN HeapOf(o) ELSE o
Redirected(moving) ==
    [k \in DOMAIN ctl |->
        IF ctl[k].op = "run" /\ ctl[k].at \in moving THEN Run(HeapOf(ctl[k].at)) ELSE ctl[k]]
Copied(moving) ==
    [c \in Address |->
        IF c \in moving THEN [ctx[c] EXCEPT !.moved = TRUE]
        ELSE IF ~OnStack(c) /\ <<c[1], "stack">> \in moving
          THEN LET s == ctx[<<c[1], "stack">>] IN
               [s EXCEPT !.moved = TRUE, !.outer = OuterMoved(s.outer, moving)]
        ELSE ctx[c]]

(* A lambda, a proc or a block parameter: the outer context is the current *)
(* one.                                                                    *)
MakeProc ==
    /\ Running /\ Found(top.at)
    /\ CapturedBlocks \/ LET b == ctx[MethodContext(top.at)].block IN b = NONE \/ ~OnStack(b)
    /\ ctx' = Copied(Moving(top.at))
    /\ ctl' = Redirected(Moving(top.at))
    /\ procs' = procs \cup {HeapOf(top.at)}
    /\ UNCHANGED <<calls, enums>>

(* create_enumerator                                                       *)
MakeEnum ==
    /\ Running /\ (Enumerators \/ ~OnStack(top.at))
    /\ enums' = enums \cup {top.at}
    /\ UNCHANGED <<calls, ctx, ctl, procs>>

(* SET_LOCAL and GET_LOCAL, d scopes out; the value read goes into the     *)
(* current context's variable.                                             *)
SetLocal(d, v) ==
    /\ Running /\ Up(top.at, d) # NONE
    /\ ctx' = [ctx EXCEPT ![Up(top.at, d)].lvar = v]
    /\ UNCHANGED <<calls, ctl, procs, enums>>
GetLocal(d) ==
    /\ Running /\ Up(top.at, d) # NONE
    /\ ctx' = [ctx EXCEPT ![top.at].lvar = ctx[Up(top.at, d)].lvar]
    /\ UNCHANGED <<calls, ctl, procs, enums>>

Next ==
    \/ \E b \in Address \cup {NONE} : CallMethod(b)
    \/ \E op \in {"each", "native"} : CallBuiltin(op)
    \/ BuiltinCallsBlock \/ EachCallsBlock \/ EvalYield
    \/ \E p \in Address : EvalProc(p)
    \/ Return \/ MakeProc \/ MakeEnum
    \/ \E d \in 0 .. MaxCalls - 1 : GetLocal(d) \/ \E v \in Val : SetLocal(d, v)

Spec == Init /\ [][Next]_vars

-----------------------------------------------------------------------------
(* Properties *)

(* Every variable has its type.                                            *)
TypeOK ==
    /\ calls \in 1 .. MaxCalls
    /\ ctx \in [Address -> Context]
    /\ ctl \in Seq(Call) /\ Len(ctl) <= MaxDepth + 1
    /\ procs \subseteq Address /\ enums \subseteq Address

(* What a collection visits from the contexts in exec_context, procs and   *)
(* enumerators: outer as it is, a method's block through get_current, an   *)
(* enumerator's block as it is.                                            *)
Blocks(c) == IF ctx[c].block = NONE THEN {} ELSE {ctx[c].block}
Refs(c) == ({ctx[c].outer} \ {NONE}) \cup {Current(b) : b \in Blocks(c)}
Roots == {ctl[k].at : k \in {k \in DOMAIN ctl : ctl[k].op = "run"}} \cup procs \cup enums
Visited ==
    LET visit[k \in 0 .. MaxCalls] ==
            IF k = 0 THEN Roots ELSE visit[k - 1] \cup UNION {Refs(c) : c \in visit[k - 1]}
    IN visit[MaxCalls]

(* No pointer that a collection, a call of a block or a variable access    *)
(* follows refers to a context whose native frame is gone, and no          *)
(* collection meets a context on the stack that was moved to the heap,     *)
(* whose variables are stale: Context::mark panics.                        *)
Followed ==
    Visited \cup (UNION {Blocks(c) : c \in Visited})
            \cup (UNION {{ctl[k].at, ctl[k].blk} \ {NONE} : k \in DOMAIN ctl})
NoDangling ==
    /\ \A c \in Followed : ctx[c].live
    /\ \A c \in Visited : ~(OnStack(c) /\ ctx[c].moved)

(* move_outer_to_heap never fails with "not found.": the contexts it moves *)
(* are in exec_context, the inner after the outer.                         *)
MoveFinds == TypeOK /\ (Running => Found(top.at))

(* The calls in progress that run a context.                               *)
Ran ==
    LET run[k \in 0 .. Len(ctl)] ==
            IF k = 0 THEN <<>>
            ELSE IF ctl[k].op = "run" THEN Append(run[k - 1], ctl[k].at[1]) ELSE run[k - 1]
    IN run[Len(ctl)]

(* Closures implement lexical scoping: whichever copies and pointers there *)
(* are, every access reaches the variable of the one environment meant.    *)
Env == INSTANCE Environments WITH
    Env <- 1 .. MaxCalls,
    Unset <- Uninit,
    parent <- [n \in 1 .. calls |-> ctx[<<n, "stack">>].outer[1]],
    value <- [n \in 1 .. calls |-> ctx[Current(<<n, "stack">>)].lvar],
    running <- Ran,
    captured <- {n \in 1 .. calls : ctx[<<n, "stack">>].moved}
LexicalScoping == Env!Spec

=============================================================================
