------------------------------- MODULE Binding -------------------------------
(***************************************************************************)
(* How Ruby binds arguments: by position from both ends, then the optional *)
(* parameters from the left, then the rest.  The same parameters, values   *)
(* and frames as in Arguments.                                             *)
(***************************************************************************)
EXTENDS Arguments

CONSTANT IrregularCalls      \* are calls made that the code binds otherwise than Ruby does?

Written(args) ==
    FlattenSeq([i \in DOMAIN args |->
        CASE args[i].k # "splat" -> <<args[i]>>
          [] args[i].v[1] = Nil -> <<>>
          [] args[i].v[1].k = "array" -> args[i].v[1].v
          [] OTHER -> <<args[i].v[1]>>])
Merged(kw, rests) == FoldLeft(Insert, kw, FlattenSeq(rests))

Accepts(p) == p.keys # <<>> \/ p.kwrest
Fewest(p) == p.req + p.post
Spreads(p) == p.opt > 1 \/ (Fewest(p) > 0 /\ (Fewest(p) + p.opt > 1 \/ p.rest # "none"))
(* A block takes too few and too many arguments.                           *)
Adapted(p, a) ==
    LET padded == a \o [i \in 1 .. Fewest(p) - Len(a) |-> Nil]
    IN  IF p.rest = "none" THEN SubSeq(padded, 1, Least(Len(padded), Fewest(p) + p.opt)) ELSE padded

BoundByRuby(p, a, kw) ==
    LET n == Len(a)
        others == SelectSeq(kw, LAMBDA kv : ~Known(p, kv))
        key(i) == LET at == {m \in DOMAIN kw : kw[m][1] = p.keys[i - Positional(p)]}
                  IN  IF at = {} THEN Default(i) ELSE kw[CHOOSE m \in at : TRUE][2]
        slot(i) ==
            CASE i =< p.req -> a[i]
              [] i =< OptReq(p) -> IF i =< n - p.post THEN a[i] ELSE Default(i)
              [] i = OptReq(p) + RestLen(p) -> Arr(SubSeq(a, i, n - p.post))
              [] i =< Positional(p) -> a[n - Positional(p) + i]
              [] i =< Positional(p) + Len(p.keys) -> key(i)
              [] OTHER -> Hash(others)
    IN  IF n < Fewest(p) \/ (p.rest = "none" /\ n > Fewest(p) + p.opt) \/ (Accepts(p) /\ others # <<>> /\ ~p.kwrest)
          THEN ArgumentError
          ELSE Bound([i \in 1 .. FrameLen(p) |-> slot(i)])
Called(p, block, args, kw) ==
    LET a == IF Accepts(p) \/ kw = <<>> THEN args ELSE Append(args, Hash(kw))
        spread == IF block /\ Len(a) = 1 /\ a[1].k = "array" /\ Spreads(p) THEN a[1].v ELSE a
    IN  BoundByRuby(p, IF block THEN Adapted(p, spread) ELSE spread, kw)

----------------------------------------------------------------------------
(* Where the code does otherwise.                                          *)
OddArgs(args) == SplatOf(Nil) \in ToSet(args)
OddKeywords(p, kw, rests) ==
    \/ ~Accepts(p) /\ rests # <<>> /\ Merged(kw, rests) = <<>>             \* **{} passes an empty hash
    \/ \E i, j \in DOMAIN rests :                          \* the first ** wins
          i < j /\ \E x \in ToSet(rests[i]), y \in ToSet(rests[j]) : x[1] = y[1]
OddCall(p, block, args, kw) ==
    LET hash == kw # <<>> /\ ~Accepts(p)           \* keywords passed as a hash
        n == Len(args) + (IF hash THEN 1 ELSE 0)
        single == block /\ Len(args) = 1 /\ args[1].k = "array"
        m == IF single /\ Spread(p, args) THEN Len(args[1].v) ELSE n
    IN  \/ hash /\ IsOpt(p)                                     \* keywords, but only required parameters
        \/ hash /\ p.post = 0 /\ n > OptReq(p) /\ OptReq(p) > 0  \* a hash beyond the last parameter
        \/ hash /\ single                                       \* an array and a hash to a block
        \/ kw # <<>> /\ p.rest = "discarded" /\ p.keys # <<>>     \* keywords beside a nameless rest
        \/ single /\ Spread(p, args) # Spreads(p)               \* one array to a block: spread or not
        \/ block /\ p.post > 0 /\ (m < Fewest(p) \/ (p.rest = "none" /\ m > Fewest(p) + p.opt))
        \/ block /\ p.req > 0 /\ m = 0 /\ ~IsOpt(p)              \* a block that is given nothing
OddIteration(p, values, i) ==
    LET v == values[i]
        one == p.req + p.post =< 1
    IN  \/ p.post > 1                                        \* the frame for nil: not enough values
        \/ OddCall(p, TRUE, <<v>>, <<>>)
        \/ one /\ (p.post > 0 \/ (OptReq(p) = 0 /\ FrameLen(p) > 0))   \* the value is put first, whatever is first
        \/ i > 1 /\ ~one /\ v.k # "array"                    \* the other parameters keep their values
        \/ i > 1 /\ (p.opt > 0 \/ p.keys # <<>> \/ p.kwrest \/ (one /\ p.rest = "bound"))  \* set only once

(* A call binds the parameters of a method or block as Ruby does.          *)
BindsLikeRuby(p, block, args, kw, rests) ==
    \/ /\ ~IrregularCalls
       /\ OddArgs(args) \/ OddKeywords(p, kw, rests) \/ OddCall(p, block, Written(args), Merged(kw, rests))
    \/ Call(p, block, args, kw, rests) = Called(p, block, Written(args), Merged(kw, rests))

(* So does each iteration of a block, whatever the earlier ones left.      *)
IteratesLikeRuby(p, values, assigns) ==
    \/ ~IrregularCalls /\ \E i \in DOMAIN values : OddIteration(p, values, i)
    \/ Iterations(p, values, assigns) = [i \in DOMAIN values |-> Called(p, TRUE, <<values[i]>>, <<>>)]
=============================================================================
