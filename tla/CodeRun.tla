------------------------------ MODULE CodeRun ------------------------------
(***************************************************************************)
(* Generated code at work: run_context_main on the instructions of one     *)
(* method, block or class body.  What a program computes is left open:     *)
(* conditions that are not known, checks and raised errors are choices,    *)
(* and tape records them.  When the code ends, Meaning with the same tape  *)
(* must tell the same: calls and assignments in order, result, ending.     *)
(***************************************************************************)
EXTENDS Codegen, Meaning

CONSTANTS Programs,    \* sets of [kind, defaults, body]
          MaxChoices,  \* bounds the choices of one run
          MaxEvents    \* bounds its calls and assignments, and with both loops

VARIABLES prog,   \* the program
          code,   \* its instructions and exception table
          pc, stack, trace, tape, how, val
source == <<prog, code>>
vars == <<prog, code, pc, stack, trace, tape, how, val>>

Instr == code.ins[pc]

Init ==
    /\ \E family \in Programs : prog \in family
    /\ code = GenIseq(prog.kind, prog.defaults, prog.body)
    /\ Accepted(code)
    /\ pc = 1 /\ stack = <<>> /\ trace = <<>> /\ tape = <<>> /\ how = "running" /\ val = NilValue

At(ops) == how = "running" /\ Instr.op \in ops
Operand(v) == stack' = Append(Below(stack, Needs(Instr)), v)
Forth(to) == pc' = pc + 1 + to
Plain == UNCHANGED <<source, tape, how, val>>
Logged(e) == Len(trace) < MaxEvents /\ trace' = Append(trace, e)
Chosen(c) == Len(tape) < MaxChoices /\ tape' = Append(tape, c)

Push == At({"PUSH", "GET"}) /\ Operand(IF Instr.op = "PUSH" THEN Atom(Instr.x) ELSE Current(trace, Instr.x))
        /\ Forth(0) /\ UNCHANGED trace /\ Plain

Compute == At({"APPLY"}) /\ Operand(Term(Instr.x, Popped(stack, Instr.n) \o Instr.imm))
           /\ Forth(0) /\ UNCHANGED trace /\ Plain

Rearrange == At({"POP", "DUP", "SINKN", "TOPN", "TAKE"}) /\ stack' = Shuffled(Instr, stack)
             /\ Forth(0) /\ UNCHANGED trace /\ Plain

SetVariable ==
    /\ At({"SET", "ADDI", "STORE"})
    /\ Logged(
         CASE Instr.op = "SET"   -> Set(Instr.x, Last(stack))
           [] Instr.op = "ADDI"  -> Set(Instr.x, Term("+", <<Current(trace, Instr.x)>> \o Instr.imm))
           [] Instr.op = "STORE" -> Term(Instr.x, Popped(stack, Instr.n)))
    /\ stack' = Below(stack, Instr.n)
    /\ Forth(0) /\ Plain

Jump == At({"JMP", "JMP_BACK"}) /\ Forth(Instr.to) /\ UNCHANGED <<stack, trace>> /\ Plain

(* jmp_cond                                                                *)
Condition == LET ops == Popped(stack, Instr.n) \o Instr.imm IN
             IF Instr.x = "" THEN Last(stack) ELSE Term(Instr.x, ops)
Branch ==
    /\ At({"JMP_T", "JMP_F"})
    /\ \E true \in BOOLEAN :
         /\ IF Known(Condition) THEN true = (Condition \notin Falsy) /\ UNCHANGED tape
            ELSE Chosen(IF true THEN "true" ELSE "false")
         /\ Forth(IF true = (Instr.op = "JMP_T") THEN Instr.to ELSE 0)
    /\ stack' = Below(stack, Instr.n)
    /\ UNCHANGED <<source, trace, how, val>>

(* OPT_CASE, OPT_CASE2: the value is one of the literals or another.       *)
Dispatch ==
    /\ At({"OPT_CASE"})
    /\ \E x \in DOMAIN Instr.imm \cup {"other"} :
         Chosen(x) /\ Forth(IF x = "other" THEN Instr.to ELSE Instr.imm[x])
    /\ stack' = Front(stack)
    /\ UNCHANGED <<source, trace, how, val>>

(* An error goes to the first entry for this position, with an empty stack,*)
(* or out of the code.                                                     *)
Handlers == {j \in DOMAIN code.exc : LET e == code.exc[j] IN e.start =< pc /\ pc < e.end}
Raise(err) ==
    IF Handlers = {}
    THEN how' = "raise" /\ val' = err /\ stack' = <<>> /\ UNCHANGED pc
    ELSE /\ pc' = code.exc[CHOOSE j \in Handlers : \A k \in Handlers : j =< k].dest
         /\ stack' = <<err>> /\ UNCHANGED <<how, val>>

SendMethod ==
    /\ At({"SEND", "NSEND"})
    /\ LET call == Sent(Instr, stack) IN
       /\ Logged(call)
       /\ \/ /\ IF call.f \in Risky THEN Chosen("false") ELSE UNCHANGED tape
             /\ stack' = Below(stack, SendPops(Instr)) \o (IF Instr.op = "SEND" THEN <<call>> ELSE <<>>)
             /\ Forth(0) /\ UNCHANGED <<how, val>>
          \/ /\ call.f \in Risky /\ Chosen("true")
             /\ Raise(Term("error", <<call>>))
    /\ UNCHANGED source

(* RESCUE: does the error belong to one of the classes?                    *)
Match == At({"RESCUE"}) /\ Operand(Term("rescue", Popped(stack, Instr.n + 1)))
         /\ Forth(0) /\ UNCHANGED trace /\ Plain

Rethrow == At({"THROW"}) /\ Raise(Last(stack)) /\ UNCHANGED <<source, trace, tape>>

(* RETURN, BREAK, MRETURN                                                  *)
Leave == At(Leaves) /\ how' = Instr.op /\ val' = Last(stack) /\ UNCHANGED <<source, pc, stack, trace, tape>>

CodeNext == Push \/ Compute \/ Rearrange \/ SetVariable \/ Jump \/ Branch \/ Dispatch \/ SendMethod \/ Match \/ Rethrow \/ Leave
Spec == Init /\ [][CodeNext]_vars

----------------------------------------------------------------------------
(* Execution stays within the code, and every jump has been given its      *)
(* destination.                                                            *)
TypeOK ==
    /\ prog.kind \in {"Method", "Block"}
    /\ pc \in DOMAIN code.ins
    /\ Instr.op # "escape"
    /\ how \in Leaves \cup {"running", "raise"}

(* An instruction finds its operands: code never takes from the operands   *)
(* of the caller, whatever way it came to the instruction.  A normal end   *)
(* leaves the result and nothing else, as run_context asserts.             *)
OperandsThere ==
    /\ TypeOK
    /\ how = "running" => Len(stack) >= Needs(Instr)
    /\ how = "RETURN" => Len(stack) = 1

(* The code does what the tree means: the same calls and assignments in    *)
(* the same order with the same values, the same result and the same end;  *)
(* each ensure clause once on each way out.                                *)
MeansTree ==
    how # "running" =>
        Meaning(prog.kind, prog.defaults, prog.body, tape) = [how |-> how, val |-> val, trace |-> trace, tape |-> <<>>]
=============================================================================
