------------------------------ MODULE RunContext ------------------------------
(***************************************************************************)
(* Calls, and how they end: VM::run_context and the part of the main loop  *)
(* that receives the result of a call.  All calls of a VM share one        *)
(* operand stack (exec_stack), one stack of temporaries (temp_stack) and   *)
(* one stack of classes (class_context); a normal end, an exception, a     *)
(* break and a return from a block must each cut them where the caller     *)
(* expects.                                                                *)
(*                                                                         *)
(* Of the operand stack only the length is modelled.  What the compiled    *)
(* code expects on it is `depth`: the operands that the instruction of a   *)
(* call to come was compiled to find above the frame's base.               *)
(***************************************************************************)
EXTENDS Integers, SequencesExt

CONSTANTS MaxFrames,    \* bound: nested calls
          MaxDepth,     \* bound: operands of one frame
          MaxResults,   \* bound: results a builtin keeps on temp_stack
          Yields,       \* may a block that a method yields to break or return?
          Nested        \* may begin, break and return occur within an expression?

ASSUME RunContextAssumption ==
    /\ MaxFrames \in Nat \ {0} /\ MaxDepth \in Nat /\ MaxResults \in Nat
    /\ Yields \in BOOLEAN /\ Nested \in BOOLEAN

VARIABLES
    frames,     \* calls in progress, innermost last
    len,        \* exec_stack.len()
    temp,       \* temp_stack.len()
    classes,    \* class_context.len(), without the first
    err         \* the Err on its way out, or NoErr

vars == <<frames, len, temp, classes, err>>

(* A frame: `base` and `tbase` the lengths of the stacks at its start, the *)
(* frame whose code holds the block literal it was called with (0: none),  *)
(* the frame whose code a block is part of, and the depth at the begin     *)
(* with a rescue clause it is in.                                          *)
NoHandler == -1
Ruby == {"top", "method", "class", "block"}
Frame == [op : Ruby \cup {"native"}, base : Nat, tbase : Nat, blk : 0 .. MaxFrames,
          parent : 0 .. MaxFrames, depth : 0 .. MaxDepth + 1, handler : NoHandler .. MaxDepth]
NewFrame(op, blk, parent) ==
    [op |-> op, base |-> len, tbase |-> temp, blk |-> blk, parent |-> parent,
     depth |-> 0, handler |-> NoHandler]

(* An error: "raise" for exceptions, "break" for BlockReturn, "return" for *)
(* MethodReturn; "thrown" when the code of the top frame has failed with   *)
(* it, "received" when a call made by the top frame has.  `parent` and     *)
(* `home` say where a break and a return should lead.                      *)
NoErr == [kind |-> "none", at |-> "none", parent |-> 0, home |-> 0]

cur == Len(frames)
top == Last(frames)
InRuby == err = NoErr /\ frames # <<>> /\ top.op \in Ruby
InNative == err = NoErr /\ frames # <<>> /\ top.op = "native"
Update(field, v) == [frames EXCEPT ![cur] = [top EXCEPT ![field] = v]]

(* A method is compiled as one, and so is a program.                       *)
IsMethod(f) == f.op \in {"method", "top"}

(* The frame of the method or program that frame f's code belongs to, 0 in *)
(* the body of a class (get_method_context).                               *)
Home(f) ==
    LET home[k \in 0 .. cur] ==
            IF k = 0 THEN 0
            ELSE IF frames[k].op = "block" THEN home[frames[k].parent]
            ELSE IF IsMethod(frames[k]) THEN k ELSE 0
    IN home[f]

(* Was block frame f, or one it is part of, yielded to by a method?        *)
YieldedTo(f) ==
    LET by[k \in 1 .. cur] ==
            k > 1 /\ frames[k].op = "block" /\ (frames[k - 1].op # "native" \/ by[frames[k].parent])
    IN by[f]

-----------------------------------------------------------------------------
(* Within a frame *)

Init ==
    /\ len = 0 /\ temp = 0 /\ classes = 0 /\ err = NoErr
    /\ frames = <<[op |-> "top", base |-> 0, tbase |-> 0, blk |-> 0, parent |-> 0,
                   depth |-> 0, handler |-> NoHandler]>>

PushOperand ==
    /\ InRuby /\ top.depth < MaxDepth
    /\ frames' = Update("depth", top.depth + 1)
    /\ len' = len + 1
    /\ UNCHANGED <<temp, classes, err>>

PopOperand ==
    /\ InRuby /\ top.depth > 0 /\ top.depth > top.handler
    /\ frames' = Update("depth", top.depth - 1)
    /\ len' = len - 1
    /\ UNCHANGED <<temp, classes, err>>

Begin ==
    /\ InRuby /\ top.handler = NoHandler /\ top.depth <= MaxDepth
    /\ Nested \/ top.depth = 0
    /\ frames' = Update("handler", top.depth)
    /\ UNCHANGED <<len, temp, classes, err>>

EndBegin ==
    /\ InRuby /\ top.depth = top.handler
    /\ frames' = Update("handler", NoHandler)
    /\ UNCHANGED <<len, temp, classes, err>>

(* A builtin keeps a result of its block on temp_stack.                    *)
TempPush ==
    /\ InNative /\ temp <= top.tbase + MaxResults
    /\ temp' = temp + 1
    /\ UNCHANGED <<frames, len, classes, err>>

-----------------------------------------------------------------------------
(* Calls *)

Pushed(f) == cur < MaxFrames /\ frames' = Append(frames, f)
MayCall == InRuby /\ top.depth <= MaxDepth

CallMethod(blk) ==
    /\ MayCall /\ blk \in {0, cur}
    /\ Pushed(NewFrame("method", blk, 0))
    /\ UNCHANGED <<len, temp, classes, err>>

(* invoke_native keeps the receiver on temp_stack.                         *)
CallNative ==
    /\ MayCall
    /\ Pushed(NewFrame("native", cur, 0))
    /\ temp' = temp + 1
    /\ UNCHANGED <<len, classes, err>>

(* DEF_CLASS pushes the class and runs the body as a call.                 *)
DefClass ==
    /\ MayCall
    /\ Pushed(NewFrame("class", 0, 0))
    /\ classes' = classes + 1
    /\ UNCHANGED <<len, temp, err>>

NativeCallsBlock ==
    /\ InNative /\ top.blk # 0
    /\ Pushed(NewFrame("block", 0, top.blk))
    /\ UNCHANGED <<len, temp, classes, err>>

Yield ==
    /\ MayCall /\ Home(cur) # 0
    /\ frames[Home(cur)].blk # 0
    /\ Pushed(NewFrame("block", 0, frames[Home(cur)].blk))
    /\ UNCHANGED <<len, temp, classes, err>>

-----------------------------------------------------------------------------
(* Ends *)

(* The call of the top frame is over with one value on exec_stack, whose   *)
(* length is n: code of Ruby takes it as an operand, a builtin pops it, and *)
(* so does eval_method after the last frame.                               *)
Delivered(rest, n) ==
    IF rest # <<>> /\ Last(rest).op \in Ruby
      THEN /\ frames' = [rest EXCEPT ![Len(rest)].depth = @ + 1]
           /\ len' = n
      ELSE /\ frames' = rest
           /\ len' = n - 1
ClassPop(f) == IF f.op = "class" THEN classes - 1 ELSE classes

(* The end of the code, a next in a block, or a return elsewhere:          *)
(* run_context takes the stack as it is.  The latter two may be in a begin *)
(* and, as `Nested` admits, in mid-expression.                             *)
End ==
    /\ InRuby
    /\ Nested \/ top.depth = 0
    /\ Delivered(Front(frames), len + 1)
    /\ classes' = ClassPop(top)
    /\ UNCHANGED <<temp, err>>

(* invoke_native cuts temp_stack, whatever the builtin returned.           *)
NativeTemp_OkOnly(f) == IF err = NoErr THEN f.tbase ELSE temp
NativeTemp(f) == f.tbase
NativeEnd ==
    /\ InNative
    /\ Delivered(Front(frames), len + 1)
    /\ temp' = NativeTemp(top)
    /\ UNCHANGED <<classes, err>>

Throw ==
    /\ InRuby \/ InNative
    /\ err' = [NoErr EXCEPT !.kind = "raise", !.at = IF top.op = "native" THEN "received" ELSE "thrown"]
    /\ UNCHANGED <<frames, len, temp, classes>>

(* BREAK and MRETURN, in a block: the value is on the stack.  `Nested`     *)
(* admits them in mid-expression, and a return to a method in the midst of *)
(* an expression of its own.                                               *)
InMethod(m) == IsMethod(frames[m]) /\ \A k \in m + 1 .. cur : ~IsMethod(frames[k])
Jump(kind) ==
    /\ InRuby /\ top.op = "block"
    /\ Yields \/ ~YieldedTo(cur)
    /\ Nested \/ top.depth = 0
    /\ Nested \/ kind = "break" \/ \A m \in DOMAIN frames : InMethod(m) => frames[m].depth = 0
    /\ len' = len + 1
    /\ err' = [kind |-> kind, at |-> "thrown", parent |-> top.parent, home |-> Home(cur)]
    /\ UNCHANGED <<frames, temp, classes>>

-----------------------------------------------------------------------------
(* Errors on their way out *)

IsJump == err.kind \in {"break", "return"}
Leave(n) ==
    /\ frames' = Front(frames)
    /\ len' = n
    /\ classes' = ClassPop(top)
    /\ err' = [err EXCEPT !.at = "received"]
    /\ UNCHANGED temp

(* run_context: a jump keeps its value on the stack of the caller; an      *)
(* exception goes to the rescue clause, if the code is in a begin, and     *)
(* leaves the frame otherwise.                                             *)
CutTo_Kept(f) == len
CutTo(f) == f.base
JumpLeaves == err.at = "thrown" /\ IsJump /\ Leave(CutTo(top) + 1)
RaiseLeaves == err.at = "thrown" /\ ~IsJump /\ top.handler = NoHandler /\ Leave(CutTo(top))
Rescue ==
    /\ err.at = "thrown" /\ ~IsJump /\ top.handler # NoHandler
    /\ len' = top.base + 1
    /\ frames' = [frames EXCEPT ![cur].depth = top.handler + 1, ![cur].handler = NoHandler]
    /\ err' = NoErr
    /\ UNCHANGED <<temp, classes>>

(* A builtin passes an error on.                                           *)
NativeFails ==
    /\ err.at = "received" /\ frames # <<>> /\ top.op = "native"
    /\ frames' = Front(frames)
    /\ temp' = NativeTemp(top)
    /\ UNCHANGED <<len, classes, err>>

(* `loop` takes a StopIteration for its end.                               *)
NativeCatches ==
    /\ err.at = "received" /\ err.kind = "raise" /\ frames # <<>> /\ top.op = "native"
    /\ err' = NoErr
    /\ UNCHANGED <<frames, len, temp, classes>>

(* try_push: a break ends here, with its value; so does a return in a      *)
(* method or program, which ends; everything else fails the frame.         *)
InCode == err.at = "received" /\ frames # <<>> /\ top.op \in Ruby
TakesBreak == err.kind = "break"
TakesReturn_Block == err.kind = "return" /\ (IsMethod(top) \/ top.op = "block")
TakesReturn == err.kind = "return" /\ IsMethod(top)
BreakArrives ==
    /\ InCode /\ TakesBreak
    /\ frames' = Update("depth", top.depth + 1)
    /\ err' = NoErr
    /\ UNCHANGED <<len, temp, classes>>
ReturnArrives ==
    /\ InCode /\ TakesReturn
    /\ Delivered(Front(frames), len)
    /\ err' = NoErr
    /\ UNCHANGED <<temp, classes>>
PassOn ==
    /\ InCode /\ ~TakesBreak /\ ~TakesReturn
    /\ err' = [err EXCEPT !.at = "thrown"]
    /\ UNCHANGED <<frames, len, temp, classes>>

Next ==
    \/ PushOperand \/ PopOperand \/ Begin \/ EndBegin \/ TempPush
    \/ \E blk \in 0 .. MaxFrames : CallMethod(blk)
    \/ CallNative \/ DefClass \/ NativeCallsBlock \/ Yield
    \/ End \/ NativeEnd \/ Throw
    \/ \E kind \in {"break", "return"} : Jump(kind)
    \/ JumpLeaves \/ RaiseLeaves \/ Rescue \/ NativeFails \/ NativeCatches
    \/ BreakArrives \/ ReturnArrives \/ PassOn

Spec == Init /\ [][Next]_vars

-----------------------------------------------------------------------------
(* Properties *)

(* Every variable has its type.                                            *)
TypeOK ==
    /\ frames \in Seq(Frame) /\ Len(frames) <= MaxFrames
    /\ len \in Nat /\ temp \in Nat /\ classes \in Nat
    /\ err \in [kind : {"none", "raise", "break", "return"}, at : {"none", "thrown", "received"},
                parent : 0 .. MaxFrames, home : 0 .. MaxFrames]

(* The code of every frame finds on exec_stack the operands it was         *)
(* compiled for, and the value of a call above them: run_context asserts   *)
(* this of the length when a call ends well, and `run` that nothing is     *)
(* left at the end.                                                        *)
OperandsFound ==
    /\ TypeOK
    /\ InRuby => len = top.base + top.depth
    /\ \A k \in 1 .. cur - 1 : frames[k + 1].base = frames[k].base + frames[k].depth
    /\ frames = <<>> /\ err = NoErr => len = 0

(* While no builtin is in progress no temporaries keep objects alive, and  *)
(* the classes on class_context are those whose bodies are in progress,    *)
(* however the calls before have ended.                                    *)
StacksOfCallsInProgress ==
    /\ classes = Cardinality({k \in DOMAIN frames : frames[k].op = "class"})
    /\ (\A k \in DOMAIN frames : frames[k].op # "native") => temp = 0

(* A break ends the call the block was given to, no more and no less: the  *)
(* frame that goes on is the one with the block's code.  A return in a     *)
(* block ends the method or program that the block is part of, if it is    *)
(* part of one.                                                            *)
JumpsLeadHome ==
    [][err' = NoErr =>
        /\ err.kind = "break" => Len(frames') = err.parent
        /\ err.kind = "return" /\ err.home # 0 => Len(frames') = err.home - 1]_vars

=============================================================================
