-------------------------------- MODULE Fiber --------------------------------
(***************************************************************************)
(* Fibers and enumerators: coroutine.rs, coroutine/stack.rs, the context   *)
(* switch of coroutine/asm_x64.rs, builtin/fiber.rs, builtin/enumerator.rs *)
(* and what the collector does with a FiberContext.                        *)
(*                                                                         *)
(* An execution is a VM with the native stack it runs on: MAIN on the      *)
(* stack of the process, a fiber on one of its own.  A native stack is the *)
(* sequence of native calls that wait on it: calls of `resume` and of      *)
(* `yield_context`, whose callee-saved registers lie there, and calls of   *)
(* Enumerator#each, which own the fiber they iterate with as a Box that is *)
(* not an object of the heap.                                              *)
(***************************************************************************)
EXTENDS Integers, FiniteSets, SequencesExt

CONSTANTS F,            \* FiberContexts; an address is not used again
          MAIN,         \* the main execution
          MaxKept,      \* bound: fibers a fiber's VM refers to, or its block
          MaxRoots,     \* bound: fibers MAIN refers to
          InnerFibers,  \* may the iteration of an `each` refer to fibers?
          NextAndEach,  \* may one enumerator be used with next and with each?
          Reenter       \* may a fiber that has not yielded be resumed?

ASSUME FiberAssumption ==
    /\ MAIN \notin F \cup Nat     \* nor is it the number of a native stack
    /\ IsFiniteSet(F)
    /\ MaxKept \in Nat /\ MaxRoots \in Nat
    /\ {InnerFibers, NextAndEach, Reenter} \subseteq BOOLEAN

VARIABLES
    kind,      \* "Fiber", "Enum", or "Inner": the dup_enum of an `each`
    state,     \* FiberState, before "none" and after "dropped" included
    stack,     \* native stack of the fiber, NoStack before and after it runs
    rsp,       \* rsp of the fiber: a depth in its own stack
    main_rsp,  \* main_rsp of the fiber: a stack and a depth in it
    store,     \* STACK_STORE, a Vec
    made,      \* native stacks allocated so far
    frames,    \* frames[s]: the native calls that wait on stack s
    cpu,       \* execution whose code runs
    info,      \* info[f]: fibers the FiberKind of f refers to
    hold       \* hold[x]: fibers the stacks and contexts of VM x refer to

stackVars == <<stack, rsp, store, made>>
switchVars == <<main_rsp, frames, cpu>>
vars == <<kind, state, stackVars, switchVars, info, hold>>

Exec == F \cup {MAIN}
NoStack == 0
NativeStack == 1 .. Cardinality(F)

StackOf(x) == IF x = MAIN THEN MAIN ELSE stack[x]

(* A native call of VM `vm` that waits for fiber `of`, called on `self`.   *)
Frame(op, vm, of, self) == [op |-> op, vm |-> vm, of |-> of, self |-> self]

Heap == {f \in F : kind[f] # "Inner" /\ state[f] \in {"Created", "Running", "Dead"}}

Calls(x) == IF StackOf(x) = NoStack THEN <<>> ELSE frames[StackOf(x)]
Top(x) == Last(Calls(x))
Waits(x, op) == Calls(x) # <<>> /\ Top(x).op = op
Suspended == {f \in F : state[f] = "Running" /\ Waits(f, "yield")}
Active == {f \in F : state[f] = "Running"} \ Suspended

(* The values a VM may come to refer to.                                   *)
MayKeep(x, V) ==
    /\ V # {} /\ x \in F /\ kind[x] = "Inner" => InnerFibers
    /\ Cardinality(hold[x] \cup V) <= IF x = MAIN THEN MaxRoots ELSE MaxKept
Keep(x, V) == hold' = [hold EXCEPT ![x] = @ \cup V]
KeepAll(x, V, f) == hold' = [hold EXCEPT ![x] = @ \cup V, ![f] = {}]

-----------------------------------------------------------------------------
(* Native stacks *)

(* Where Stack::allocate gets the stack from, and what it leaves.          *)
StoreLeft_NotRemoved == store
Popped == IF store = <<>> THEN made + 1 ELSE Last(store)
StoreLeft == IF store = <<>> THEN store ELSE Front(store)
MadeLeft == IF store = <<>> THEN made + 1 ELSE made

(* Stack::deallocate of the fibers in D, in some order.                    *)
Owned_Forgotten(D) == {}
Owned(D) == {stack[f] : f \in D} \ {NoStack}
Deallocate(D) ==
    /\ \E s \in SetToSeqs(Owned(D)) : store' = store \o s
    /\ stack' = [f \in F |-> IF f \in D THEN NoStack ELSE stack[f]]

(* Drop of the FiberContexts in D, with the FiberKind and VM they own.     *)
Emptied(D, r) == [x \in DOMAIN r |-> IF x \in D THEN {} ELSE r[x]]
Drop(D) ==
    /\ state' = [f \in F |-> IF f \in D THEN "dropped" ELSE state[f]]
    /\ info' = Emptied(D, info)
    /\ hold' = Emptied(D, hold)
    /\ Deallocate(D)

-----------------------------------------------------------------------------
(* The context switch *)

(* Jump to the registers saved at depth d of stack s; fr are the frames    *)
(* once the registers of the caller are pushed.  What is above d is lost.  *)
JumpTo(fr, s, d) ==
    /\ d \in 1 .. Len(fr[s])
    /\ frames' = [fr EXCEPT ![s] = SubSeq(@, 1, d - 1)]
    /\ cpu' = fr[s][d].vm

Push(fr, x, frame) == [fr EXCEPT ![StackOf(x)] = Append(@, frame)]

(* Where the registers of the caller of resume are, once pushed.           *)
ReturnPoint_First(f, fr) ==
    IF main_rsp[f].depth # 0 THEN main_rsp[f]
    ELSE [stack |-> StackOf(cpu), depth |-> Len(fr[StackOf(cpu)])]
ReturnPoint(f, fr) == [stack |-> StackOf(cpu), depth |-> Len(fr[StackOf(cpu)])]

(* invoke_context, switch_context: the registers of the caller, then       *)
(* f.main_rsp <- rsp, then rsp <- f.rsp.                                    *)
EnterFiber(f, fr, s, d) ==
    LET saved == Push(fr, cpu, Frame("resume", cpu, f, f)) IN
    /\ main_rsp' = [main_rsp EXCEPT ![f] = ReturnPoint(f, saved)]
    /\ JumpTo(saved, s, d)

(* FiberContext::initialize, then invoke_context into new_context.         *)
Invoke(f, fr) ==
    LET s == Popped
        init == [fr EXCEPT ![s] = <<Frame("entry", f, f, f)>>] IN
    /\ store' = StoreLeft
    /\ made' = MadeLeft
    /\ stack' = [stack EXCEPT ![f] = s]
    /\ rsp' = [rsp EXCEPT ![f] = 1]
    /\ EnterFiber(f, init, s, 1)

Switch(f, fr) ==
    /\ f \in Suspended \/ Reenter
    /\ EnterFiber(f, fr, stack[f], rsp[f])
    /\ UNCHANGED stackVars

SavedRsp_Kept(f, fr, s) == rsp[f]
SavedRsp(f, fr, s) == Len(fr[s])

(* yield_context of f, on stack s: its registers are pushed, rsp is saved  *)
(* and the registers its resumer pushed are popped, with `extra` frames    *)
(* that return at once.                                                    *)
LeaveFiber(f, s, extra) ==
    LET saved == [frames EXCEPT ![s] = Append(@, Frame("yield", f, f, f))]
        p == main_rsp[f]
        kept == [saved EXCEPT ![p.stack] = SubSeq(@, 1, p.depth - extra)] IN
    /\ p.depth - extra \in 1 .. Len(saved[p.stack])
    /\ rsp' = [rsp EXCEPT ![f] = SavedRsp(f, saved, s)]
    /\ JumpTo(kept, p.stack, p.depth - extra)
    /\ UNCHANGED main_rsp

-----------------------------------------------------------------------------
(* The collector's view *)

(* What the contexts and stacks of VM x give the program to work with.     *)
Uses(x) == hold[x] \cup (IF x \in F THEN info[x] ELSE {})

(* ... and with the receivers invoke_native keeps on temp_stack.           *)
Refs_NotTempStack(x) == Uses(x)
Refs(x) == Uses(x) \cup {fr.self : fr \in Range(Calls(x))}

(* FiberContext::mark: a dead fiber marks nothing.                         *)
MarkedBy_NotKind(f) == IF state[f] = "Dead" THEN {} ELSE Refs(f) \ info[f]
MarkedBy(f) == IF state[f] = "Dead" THEN {} ELSE Refs(f)

(* Marking starts at MAIN and follows fibers that are objects.             *)
Marked ==
    {f \in Heap : \A S \in SUBSET Heap :
        (Refs(MAIN) \cap Heap \subseteq S /\ \A g \in S : MarkedBy(g) \cap Heap \subseteq S)
            => f \in S}

-----------------------------------------------------------------------------
(* Operations of the execution that has control *)

Init ==
    /\ kind = [f \in F |-> "Fiber"]
    /\ state = [f \in F |-> "none"]
    /\ stack = [f \in F |-> NoStack]
    /\ rsp = [f \in F |-> 0]
    /\ main_rsp = [f \in F |-> [stack |-> NoStack, depth |-> 0]]
    /\ store = <<>>
    /\ made = 0
    /\ frames = [s \in NativeStack \cup {MAIN} |-> <<>>]
    /\ cpu = MAIN
    /\ info = [f \in F |-> {}]
    /\ hold = [x \in Exec |-> {}]

(* Fiber.new, Enumerator.new: a heap object whose block or receiver refers *)
(* to C.                                                                   *)
New(f, k, C) ==
    /\ state[f] = "none"
    /\ C \subseteq Uses(cpu) /\ Cardinality(C) <= MaxKept
    /\ MayKeep(cpu, {f}) /\ Keep(cpu, {f})
    /\ kind' = [kind EXCEPT ![f] = k]
    /\ state' = [state EXCEPT ![f] = "Created"]
    /\ info' = [info EXCEPT ![f] = C]
    /\ UNCHANGED <<stackVars, switchVars>>

(* Fiber#resume, Enumerator#next.  On a dead fiber both only raise.        *)
Resume(f) ==
    /\ f \in Uses(cpu) \cap Heap
    /\ kind[f] = "Enum" => NextAndEach
    /\ \/ state[f] = "Created" /\ Invoke(f, frames)
       \/ state[f] = "Running" /\ Switch(f, frames)
    /\ state' = [state EXCEPT ![f] = "Running"]
    /\ UNCHANGED <<kind, info, hold>>

(* Enumerator#each, map, with_index: dup_enum makes a FiberContext with    *)
(* the receiver of e, a local Box, and resumes it.                         *)
EachStart(e, f) ==
    /\ e \in Uses(cpu) \cap Heap
    /\ kind[e] = "Enum"
    /\ state[f] = "none"
    /\ kind' = [kind EXCEPT ![f] = "Inner"]
    /\ state' = [state EXCEPT ![f] = "Running"]
    /\ info' = [info EXCEPT ![f] = info[e]]
    /\ Invoke(f, Push(frames, cpu, Frame("each", cpu, f, e)))
    /\ UNCHANGED hold

(* The block of `each` has returned: the next iteration of the loop.       *)
EachNext(f) ==
    /\ Waits(cpu, "each") /\ Top(cpu).of = f
    /\ Switch(f, frames)
    /\ UNCHANGED <<kind, state, info, hold>>

(* The block of `each` raised or broke out: each returns, the Box drops.   *)
EachAbort(f) ==
    /\ Waits(cpu, "each") /\ Top(cpu).of = f
    /\ frames' = [frames EXCEPT ![StackOf(cpu)] = Front(@)]
    /\ Drop({f})
    /\ UNCHANGED <<kind, rsp, made, main_rsp, cpu>>

(* Fiber.yield, enumerator_iterate.  In MAIN it only raises.               *)
Yield(V) ==
    /\ cpu \in F
    /\ V \subseteq Uses(cpu)
    /\ LeaveFiber(cpu, stack[cpu], 0)
    /\ MayKeep(cpu', V) /\ Keep(cpu', V)
    /\ UNCHANGED <<kind, state, stack, store, made, info>>

EndState(f) == IF kind[f] = "Inner" THEN "dropped" ELSE "Dead"

(* new_context returns into guard.  The fiber is dead and its stack is in  *)
(* the store while the last switch still runs on it; its VM has popped     *)
(* everything.  An `each` whose fiber ended, by stop_iteration or another  *)
(* error, returns as well and drops it.                                    *)
Finish(V) ==
    LET f == cpu
        inner == kind[f] = "Inner" IN
    /\ f \in F
    /\ frames[stack[f]] = <<>>
    /\ V \subseteq IF inner THEN info[f] ELSE Uses(f)
    /\ Deallocate({f})
    /\ LeaveFiber(f, stack[f], IF inner THEN 1 ELSE 0)
    /\ state' = [state EXCEPT ![f] = EndState(f)]
    /\ info' = IF inner THEN Emptied({f}, info) ELSE info
    /\ MayKeep(cpu', V) /\ KeepAll(cpu', V, f)
    /\ UNCHANGED <<kind, made>>

(* VM::gc at a safepoint: the sweep drops every object not marked.         *)
Collect ==
    LET D == Heap \ Marked IN
    /\ D # {}
    /\ Drop(D)
    /\ UNCHANGED <<kind, rsp, made, switchVars>>

(* The program stores a reference where VM y finds it: in a global         *)
(* variable, in an object or a context the block of y refers to.           *)
Pass(y, r) ==
    /\ r \in Uses(cpu)
    /\ y # cpu
    /\ \/ y = MAIN /\ MayKeep(MAIN, {r}) /\ Keep(MAIN, {r}) /\ UNCHANGED info
       \/ /\ y \in Uses(cpu) \cap Heap
          /\ Cardinality(info[y] \cup {r}) <= MaxKept
          /\ info' = [info EXCEPT ![y] = @ \cup {r}]
          /\ UNCHANGED hold
    /\ UNCHANGED <<kind, state, stackVars, switchVars>>

(* A value is popped, a variable assigned.                                 *)
Forget(r) ==
    /\ r \in hold[cpu]
    /\ hold' = [hold EXCEPT ![cpu] = @ \ {r}]
    /\ UNCHANGED <<kind, state, stackVars, switchVars, info>>

Next ==
    \/ \E f \in F, k \in {"Fiber", "Enum"}, C \in SUBSET F : New(f, k, C)
    \/ \E f \in F : Resume(f) \/ EachNext(f) \/ EachAbort(f) \/ Forget(f)
    \/ \E e, f \in F : EachStart(e, f)
    \/ \E V \in SUBSET F : Yield(V) \/ Finish(V)
    \/ Collect
    \/ \E y \in Exec, r \in F : Pass(y, r)

Spec == Init /\ [][Next]_vars

-----------------------------------------------------------------------------
(* Properties *)

FrameSet == [op : {"entry", "resume", "yield", "each"}, vm : Exec, of : F, self : F]

(* Every variable has its type.                                            *)
TypeOK ==
    /\ kind \in [F -> {"Fiber", "Enum", "Inner"}]
    /\ state \in [F -> {"none", "Created", "Running", "Dead", "dropped"}]
    /\ stack \in [F -> NativeStack \cup {NoStack}]
    /\ rsp \in [F -> Nat]
    /\ main_rsp \in [F -> [stack : NativeStack \cup {MAIN, NoStack}, depth : Nat]]
    /\ store \in Seq(NativeStack)
    /\ made \in 0 .. Cardinality(F)
    /\ frames \in [NativeStack \cup {MAIN} -> Seq(FrameSet)]
    /\ cpu \in Exec
    /\ info \in [F -> SUBSET F]
    /\ hold \in [Exec -> SUBSET F]

(* A native stack belongs to one fiber at most, or lies once in the store  *)
(* (Stack::allocate, Stack::deallocate: guard and Drop both give a stack   *)
(* back, and both may do so for one fiber).                                *)
StackExclusive ==
    /\ \A f, g \in F : f # g /\ stack[f] # NoStack => stack[f] # stack[g]
    /\ IsInjective(store)
    /\ \A f \in F : stack[f] \notin Range(store)

(* A fiber that has control, or waits for one it resumed, goes back to the *)
(* call of resume that entered it: that call still waits, on top of the    *)
(* stack of the execution that made it (coroutine.rs: "Yield args to       *)
(* parent fiber").                                                         *)
ReturnsToResumer ==
    \A f \in Active :
        LET p == main_rsp[f] IN
        /\ p.stack \in NativeStack \cup {MAIN}
        /\ frames[p.stack] # <<>> /\ p.depth = Len(frames[p.stack])
        /\ Last(frames[p.stack]).op = "resume" /\ Last(frames[p.stack]).of = f
        /\ p.stack = StackOf(Last(frames[p.stack]).vm)

(* A fiber that waits to be resumed finds its registers where it left      *)
(* them: rsp is the top of its own stack, whatever ran meanwhile.          *)
SuspendedIntact ==
    /\ TypeOK
    /\ \A f \in Suspended : rsp[f] = Len(frames[stack[f]]) /\ Top(f).vm = f

(* Fibers of the each calls that wait in D, or in such fibers.             *)
OwnedBy(x) == {fr.of : fr \in {c \in Range(Calls(x)) : c.op = "each"}}
Inner == {f \in F : kind[f] = "Inner"}
Within(D) ==
    {f \in Inner : \A S \in SUBSET Inner : (\A x \in D \cup S : OwnedBy(x) \subseteq S) => f \in S}

(* Executions that may run again: a fiber of an `each` whose native call   *)
(* was cut off with the stack it waited on is in nobody's hands.           *)
MayRun == {MAIN} \cup Heap \cup Within({MAIN} \cup Heap)

(* No VM that may run again refers to a fiber the collector has freed: the *)
(* next marking would panic (rvalue.rs: "Invalid rvalue").                 *)
NoDangling ==
    \A x \in MayRun :
        x = MAIN \/ state[x] # "Dead" => \A f \in Refs(x) : state[f] # "dropped"

(* Native stacks the store keeps, or an execution that may run again has.  *)
InHand == Range(store) \cup {stack[f] : f \in {g \in F \cap MayRun : state[g] = "Running"}}

(* Fibers dropped by a step.                                               *)
Gone == {f \in F : state[f] # "dropped" /\ state'[f] = "dropped"}

(* A step takes a native stack out of everybody's hands only by dropping a *)
(* fiber inside an `each`: Drop frees the stack of the fiber and returns   *)
(* from no call that waits on it, so the Box of that `each`, and the stack *)
(* the Box owns, are lost.  No stack is lost otherwise.                    *)
NoStackLost ==
    [][(InHand \cup made + 1 .. made') \ InHand' \subseteq {stack[f] : f \in Within(Gone)}]_vars

(* The executions hand control to one another as Coroutines says.          *)
C == INSTANCE Coroutines WITH
        cur <- cpu,
        back <- [f \in Active |-> frames[main_rsp[f].stack][main_rsp[f].depth].vm],
        phase <- [f \in F |-> CASE state[f] = "none" -> "unborn"
                                [] state[f] \in {"Created", "Running"} -> "live"
                                [] OTHER -> "over"]
ControlSpec == C!Spec

(* Fibers are interchangeable: stacks are numbered, fibers are not.        *)
FiberSymmetry == Permutations(F)

=============================================================================
