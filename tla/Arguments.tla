------------------------------ MODULE Arguments ------------------------------
(***************************************************************************)
(* How the arguments of a call become local variables (vm/context.rs,      *)
(* vm/args.rs, and the instructions that send).  A frame is the sequence   *)
(* of the local variables of a method or block, its parameters first.  A   *)
(* parameter list p counts required, optional and post parameters; `rest`  *)
(* is "none", "bound" or "discarded", keys the sequence of keywords, each  *)
(* with a default.  The result of a call is a frame, or an error.          *)
(***************************************************************************)
EXTENDS Integers, SequencesExt

(* Values.                                                                 *)
Atom(x) == [k |-> "atom", v |-> <<x>>]
Arr(s) == [k |-> "array", v |-> s]
Hash(pairs) == [k |-> "hash", v |-> pairs]
SplatOf(v) == [k |-> "splat", v |-> <<v>>]
Nil == Atom("nil")
Uninit == Atom("uninit")

Params(req, opt, rest, post, keys, kwrest) ==
    [req |-> req, opt |-> opt, rest |-> rest, post |-> post, keys |-> keys, kwrest |-> kwrest]
IsOpt(p) == p.opt = 0 /\ p.rest = "none" /\ p.post = 0 /\ p.keys = <<>> /\ ~p.kwrest
OptReq(p) == p.req + p.opt
RestLen(p) == IF p.rest = "bound" THEN 1 ELSE 0
Positional(p) == OptReq(p) + RestLen(p) + p.post
FrameLen(p) == Positional(p) + Len(p.keys) + (IF p.kwrest THEN 1 ELSE 0)
NewFrame(p) == [i \in 1 .. FrameLen(p) |-> Uninit]

(* The place of a keyword is its number in the list of parameters, where a *)
(* discarded rest counts although it has no variable.                      *)
KeySlot(p, n) == Positional(p) + n + (IF p.rest = "discarded" THEN 1 ELSE 0)
KwrestSlot(p) == FrameLen(p)

Bound(f) == [k |-> "frame", v |-> f]
ArgumentError == [k |-> "error", v |-> <<>>]
Panic == [k |-> "panic", v |-> <<>>]

----------------------------------------------------------------------------
(* The caller's side: splats are spread, keywords and what follows ** are  *)
(* one hash, the last ** first.                                            *)
PopArgsToArgs(args) ==
    FlattenSeq([i \in DOMAIN args |->
        IF args[i].k = "splat"
          THEN (IF args[i].v[1].k = "array" THEN args[i].v[1].v ELSE <<args[i].v[1]>>)
          ELSE <<args[i]>>])
Insert(pairs, kv) ==
    IF \E i \in DOMAIN pairs : pairs[i][1] = kv[1]
      THEN [i \in DOMAIN pairs |-> IF pairs[i][1] = kv[1] THEN kv ELSE pairs[i]]
      ELSE Append(pairs, kv)
Keywords(kw, rests) ==
    IF kw = <<>> /\ rests = <<>> THEN <<>>
    ELSE <<Hash(FoldLeft(Insert, kw, FlattenSeq(Reverse(rests))))>>

----------------------------------------------------------------------------
(* The callee's side.                                                      *)
Put(f, at, s) == [i \in DOMAIN f |-> IF i - at \in 1 .. Len(s) THEN s[i - at] ELSE f[i]]
Least(a, b) == IF a < b THEN a ELSE b

(* Positional arguments, with the keywords as a hash (or none) after them. *)
(* Lengths are unsigned: what would be negative or out of a slice panics.  *)
FillArguments(f, p, args, kw) ==
    LET n == Len(args)
        m == n + Len(kw) - p.post                 \* arg_len
        f1 == IF p.post = 0 THEN f
              ELSE Put(f, OptReq(p) + RestLen(p), SubSeq(args, m + 1, n) \o kw)
        kw1 == IF p.post = 0 THEN kw ELSE <<>>
        q == Least(OptReq(p), m)                  \* req_opt
        f2 == IF q = 0 THEN f1
              ELSE Put(f1, 0, SubSeq(args, 1, q - Len(kw1)) \o kw1 \o [i \in 1 .. p.req - q |-> Nil])
        kw2 == IF q = 0 THEN kw1 ELSE <<>>
        rest == IF OptReq(p) >= m THEN <<>> ELSE SubSeq(args, OptReq(p) + 1, m - Len(kw2)) \o kw2
    IN  CASE m < 0 -> Panic
          [] p.rest # "bound" -> Bound(f2)
          [] OptReq(p) < m /\ m - Len(kw2) > n -> Panic
          [] OTHER -> Bound(Put(f2, OptReq(p), <<Arr(rest)>>))
FillArgumentsOpt(f, req, args) ==
    Bound(Put(f, 0, SubSeq(args, 1, Least(req, Len(args))) \o [i \in 1 .. req - Len(args) |-> Nil]))

(* A block with several parameters spreads a single array.                 *)
Spread(p, args) == Len(args) = 1 /\ p.req + p.post > 1 /\ args[1].k = "array"
SetArguments(p, block, args, kw) ==
    FillArguments(NewFrame(p), p, IF block /\ Spread(p, args) THEN args[1].v ELSE args, kw)

(* The number of arguments of a method.                                    *)
ArgsNumOK(p, n, kw) ==
    LET min == p.req + p.post
    IN  IF p.rest # "none" THEN min > kw => min - kw =< n
        ELSE min =< n + kw /\ n + kw =< min + p.opt

(* Keywords by name, the others into the rest.                             *)
KeyOf(p, k) == CHOOSE n \in DOMAIN p.keys : p.keys[n] = k
Known(p, kv) == kv[1] \in ToSet(p.keys)
FillKeywords(f, p, pairs) ==
    LET g == FoldLeft(LAMBDA acc, kv : IF Known(p, kv) THEN Put(acc, KeySlot(p, KeyOf(p, kv[1])) - 1, <<kv[2]>>) ELSE acc,
                      f, pairs)
        others == SelectSeq(pairs, LAMBDA kv : ~Known(p, kv))
    IN  IF others # <<>> /\ ~p.kwrest THEN ArgumentError
        ELSE Bound(IF p.kwrest THEN [g EXCEPT ![KwrestSlot(p)] = Hash(others)] ELSE g)

(* Context::from_args.  kw is <<>> or one hash.                            *)
FromArgsOpt(p, block, args, kw) ==
    CASE kw # <<>> -> ArgumentError
      [] block -> FillArgumentsOpt(NewFrame(p), p.req, IF Len(args) = 1 /\ p.req > 1 /\ args[1].k = "array"
                                                        THEN args[1].v ELSE args)
      [] Len(args) # p.req -> ArgumentError
      [] OTHER -> Bound(args)
FromArgs(p, block, args, kw) ==
    LET accepts == p.keys # <<>> \/ p.kwrest
        hash == IF accepts THEN <<>> ELSE kw
        set == SetArguments(p, block, args, hash)
    IN  CASE IsOpt(p) -> FromArgsOpt(p, block, args, kw)
          [] ~block /\ ~ArgsNumOK(p, Len(args), Len(hash)) -> ArgumentError
          [] set.k = "frame" /\ accepts -> FillKeywords(set.v, p, IF kw = <<>> THEN <<>> ELSE kw[1].v)
          [] OTHER -> set

(* The code of a method or block begins with the defaults of the           *)
(* parameters that are still uninitialized.                                *)
HasDefault(p, i) ==
    i \in p.req + 1 .. OptReq(p) \/ i \in Positional(p) + 1 .. Positional(p) + Len(p.keys)
Default(i) == Atom("default " \o ToString(i))
WithDefaults(p, f) ==
    [i \in DOMAIN f |-> IF HasDefault(p, i) /\ f[i] = Uninit THEN Default(i) ELSE f[i]]

(* A call, up to the end of the defaults.                                  *)
Call(p, block, args, kw, rests) ==
    LET r == FromArgs(p, block, PopArgsToArgs(args), Keywords(kw, rests))
    IN  IF r.k = "frame" THEN Bound(WithDefaults(p, r.v)) ELSE r

----------------------------------------------------------------------------
(* eval_block_iter1: each, map, times and others run a block once for each *)
(* value in one and the same frame, which begins as for nil.  `assigns`:   *)
(* the block assigns all its variables, which the next iteration finds so. *)
Refill_Spread(p, f, v) ==
    IF v.k = "array" THEN FillArgumentsOpt(f, p.req, v.v) ELSE Bound(Put(f, 0, <<v>>))
Refill(p, f, v) ==
    CASE p.req + p.post =< 1 \/ v.k # "array" -> Bound(Put(f, 0, <<v>>))
      [] IsOpt(p) -> FillArgumentsOpt(f, p.req, v.v)
      [] OTHER -> FillArguments(f, p, v.v, <<>>)
Left(i) == Atom("left " \o ToString(i))
Iterations(p, values, assigns) ==
    LET start == FromArgs(p, TRUE, <<Nil>>, <<>>)
        after(r) == IF assigns THEN [i \in DOMAIN r.v |-> Left(i)] ELSE r.v
        step(results, v) ==
            LET f == IF results = <<>> THEN start.v ELSE after(Last(results))
                r == IF results # <<>> /\ Last(results) = Panic THEN Panic ELSE Refill(p, f, v)
            IN  Append(results, IF r = Panic THEN r ELSE Bound(WithDefaults(p, r.v)))
    IN  IF start = Panic THEN <<Panic>> ELSE FoldLeft(step, <<>>, values)
=============================================================================
