---------------------------- MODULE Instructions ----------------------------
(***************************************************************************)
(* Instruction sequences.  Instructions that do the same to the operand    *)
(* stack are one op with the name x of what they compute and the number n  *)
(* of operands they pop.  An instruction has length 1, so displacements    *)
(* count instructions; as in the code they start at the next instruction.  *)
(* While a tree is compiled, "escape" stands for a jump whose destination  *)
(* is not known yet.                                                       *)
(***************************************************************************)
EXTENDS Integers, Syntax, SequencesExt

Ins(op, n, x) == [op |-> op, n |-> n, x |-> x, imm |-> <<>>, to |-> 0]

(* PUSH_NIL ... PUSH_SYMBOL, CONST_VAL; GET_LOCAL ... GET_CVAR, CHECK_*.    *)
PushIns(x) == Ins("PUSH", 0, x)
GetIns(x) == Ins("GET", 0, x)
(* SET_LOCAL, SET_DYNLOCAL, SET_IVAR, SET_GVAR, SET_CVAR; LVAR_ADDI and    *)
(* IVAR_ADDI; SET_CONST, SET_INDEX, SET_IDX_I, DEF_METHOD, DEF_SMETHOD.    *)
SetIns(x) == Ins("SET", 1, x)
AddIns(x, i) == [Ins("ADDI", 0, x) EXCEPT !.imm = <<Atom(i)>>]
StoreIns(n, x) == Ins("STORE", n, x)
(* ADD ... CMP with the operators on immediates, NEG, BNOT, NOT, SPLAT,    *)
(* TO_S, CREATE_*, CONCAT_STRING, GET_INDEX, GET_IDX_I, GET_SCOPE.         *)
ApplyIns(n, x) == Ins("APPLY", n, x)
ApplyImm(x, i) == [ApplyIns(1, x) EXCEPT !.imm = <<Atom(i)>>]
(* POP, DUP, SINKN, TOPN, TAKE with the number of items.                   *)
PopIns == Ins("POP", 0, "")
Shuffle(op, n) == Ins(op, n, "")
(* JMP, JMP_BACK; JMP_T and JMP_F, with the comparisons JMP_F_EQ ...       *)
(* JMP_F_LEI that pop n operands or have an immediate.                     *)
Jmp(to) == [Ins("JMP", 0, "") EXCEPT !.to = to]
JmpBack(to) == [Ins("JMP_BACK", 0, "") EXCEPT !.to = to]
JmpIf(op, n, x, imm, to) == [op |-> op, n |-> n, x |-> x, imm |-> imm, to |-> to]
Escape(x) == Ins("escape", 0, x)
(* OPT_CASE, OPT_CASE2: displacements for the literals, and for the rest.  *)
OptCase(map, to) == [op |-> "OPT_CASE", n |-> 1, x |-> "", imm |-> map, to |-> to]
(* SEND, OPT_SEND, OPT_NSEND and the same with _SELF; n positional         *)
(* arguments.  YIELD, FOR, DEF_CLASS and DEF_SCLASS call in the same way.  *)
SendIns(op, x, self, n, kw, kwrest, block) ==
    [op |-> op, n |-> n, x |-> x, to |-> 0,
     imm |-> [self |-> self, kw |-> kw, kwrest |-> kwrest, block |-> block]]
CallIns(x, n) == SendIns("SEND", x, TRUE, n, FALSE, 0, FALSE)

----------------------------------------------------------------------------
(* What instructions do to the operand stack s.                            *)
Below(s, n) == SubSeq(s, 1, Len(s) - n)
Popped(s, n) == SubSeq(s, Len(s) - n + 1, Len(s))

Sunk(s, n) == InsertAt(Front(s), Len(s) - n, Last(s))

Raised(s, n) == Append(RemoveAt(s, Len(s) - n), s[Len(s) - n])

Taken(s, n) == Front(s) \o [i \in 1..n |-> Term("elem", [j \in 1..i |-> Last(s)])]

Shuffled(i, s) ==
    CASE i.op = "POP"   -> Front(s)
      [] i.op = "DUP"   -> s \o Popped(s, i.n)
      [] i.op = "SINKN" -> Sunk(s, i.n)
      [] i.op = "TOPN"  -> Raised(s, i.n)
      [] i.op = "TAKE"  -> Taken(s, i.n)

(* The operands of a call, from the top: the receiver, keyword rest        *)
(* arguments, the keyword hash, the block argument, positional arguments.  *)
One(b) == IF b THEN 1 ELSE 0
SendPops(i) == i.n + One(~i.imm.self) + i.imm.kwrest + One(i.imm.kw) + One(i.imm.block)
Sent(i, s) ==
    LET r == One(~i.imm.self)   k == r + i.imm.kwrest
        h == k + One(i.imm.kw)  b == h + One(i.imm.block)
        at(d) == s[Len(s) + 1 - d]
        rest == [j \in 1..i.imm.kwrest |-> at(r + j)]
    IN  Term(i.x, <<IF i.imm.self THEN Atom("self") ELSE at(1),
                    Term("args", Popped(Below(s, b), i.n)),
                    Term("kw", (IF i.imm.kw THEN <<at(h)>> ELSE <<>>) \o rest),
                    Term("block", IF i.imm.block THEN <<at(b)>> ELSE <<>>)>>)

(* How many operands an instruction needs.                                 *)
Needs(i) ==
    CASE i.op \in {"SEND", "NSEND"}       -> SendPops(i)
      [] i.op = "RESCUE"                  -> i.n + 1
      [] i.op \in {"SINKN", "TOPN"}       -> i.n + 1
      [] i.op \in {"POP", "TAKE", "RETURN", "BREAK", "MRETURN", "THROW"} -> 1
      [] OTHER                            -> i.n
=============================================================================
