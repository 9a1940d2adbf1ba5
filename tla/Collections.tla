----------------------------- MODULE Collections -----------------------------
(***************************************************************************)
(* The methods of arrays, ranges and hashes that run no block, or one that *)
(* only answers (value/array.rs, builtin/array.rs, builtin/range.rs,       *)
(* builtin/hash.rs, value/hash.rs).  Arrays are sequences, hashes          *)
(* sequences of pairs in the order of the table.  A method gives what it   *)
(* returns and what becomes of its receiver.  Positions count from 0, as   *)
(* in the code.                                                            *)
(***************************************************************************)
EXTENDS Integers, SequencesExt

Beyond64 == 1000                        \* stands for 2^64: positions are unsigned
AsUnsigned(i) == IF i < 0 THEN Beyond64 + i ELSE i
Lower(a, b) == IF a < b THEN a ELSE b
Higher(a, b) == IF a < b THEN b ELSE a

One(v) == [k |-> "value", v |-> <<v>>]
Many(s) == [k |-> "array", v |-> s]
Absent == [k |-> "nil", v |-> <<>>]
Raises == [k |-> "error", v |-> <<>>]
Crashes == [k |-> "panic", v |-> <<>>]
Gives(result, receiver) == [result |-> result, receiver |-> receiver]

(* The elements from one position up to another.                           *)
Slice(a, from, to) == SubSeq(a, from + 1, to)
Nth(a, i) == a[i + 1]

----------------------------------------------------------------------------
(* ArrayInfo.  TooSmall: there is no such element.                         *)
TooSmall == -1
ArrayIndex(i, n) == CASE i >= 0 -> i [] n + i < 0 -> TooSmall [] OTHER -> n + i
GetElem(a, i, l) ==
    LET n == Len(a)
        at == IF ArrayIndex(i, n) = TooSmall THEN n ELSE ArrayIndex(i, n)
    IN  CASE l < 0 -> Absent
          [] at >= n -> Many(<<>>)
          [] OTHER -> Many(Slice(a, at, Lower(n, at + l)))
GetElem1(a, i) ==
    LET at == ArrayIndex(i, Len(a))
    IN  IF at = TooSmall \/ at >= Len(a) THEN Absent ELSE One(Nth(a, at))
GetRange(a, first, last, exclude) ==
    LET n == Len(a)
        from == IF first < 0 THEN n + first ELSE first
        open == IF exclude THEN 0 ELSE 1
        start == AsUnsigned(from)
        end == IF last >= 0 THEN Lower(n, last + open) ELSE AsUnsigned(n + last + open)
    IN  CASE n < from -> Absent
          [] n = from \/ start >= end -> Many(<<>>)
          [] end > n -> Crashes
          [] OTHER -> Many(Slice(a, start, end))
SetElem1(a, i, v) ==
    LET n == Len(a)
        at == ArrayIndex(i, n)
    IN  CASE i >= n -> Gives(One(v), a \o [j \in 1 .. i - n |-> "nil"] \o <<v>>)
          [] at = TooSmall -> Gives(Raises, a)
          [] OTHER -> Gives(One(v), [a EXCEPT ![at + 1] = v])
SetElem(a, i, l, new) ==
    LET n == Len(a)
        at == ArrayIndex(i, n)
        end == Lower(n, at + l)
    IN  CASE at = TooSmall \/ l < 0 -> Gives(Raises, a)
          [] new.k = "array" -> Gives(new, Slice(a, 0, Lower(at, end)) \o new.v \o Slice(a, end, n))
          [] at > end -> Gives(Crashes, a)
          [] OTHER -> Gives(new, Slice(a, 0, at) \o new.v \o Slice(a, end, n))

----------------------------------------------------------------------------
(* builtin/array.rs.                                                       *)
ShiftFirst(a, n) ==
    IF Len(a) < n THEN Gives(Many(<<>>), a) ELSE Gives(Many(Slice(a, 0, n)), Slice(a, n, Len(a)))
SliceBang(a, from, l) ==
    CASE from < 0 \/ l < 0 -> Gives(Raises, a)
      [] from + l > Len(a) -> Gives(Crashes, a)
      [] OTHER -> Gives(Many(Slice(a, from, from + l)), Slice(a, 0, from) \o Slice(a, from + l, Len(a)))
DropFirst(a, n) == IF AsUnsigned(n) >= Len(a) THEN Raises ELSE Many(Slice(a, n, Len(a)))
RotateBang(a, i) ==
    LET n == Len(a)
        at == IF i > 0 THEN i % n ELSE n - ((-i) % n)
    IN  CASE i = 0 -> Gives(Many(a), a)
          [] n = 0 -> Gives(Crashes, a)
          [] OTHER -> LET b == Slice(a, at, n) \o Slice(a, 0, at) IN Gives(Many(b), b)
Compacted(a) == SelectSeq(a, LAMBDA x : x # "nil")
CompactBang(a) == Gives(IF "nil" \in ToSet(a) THEN Many(Compacted(a)) ELSE Absent, Compacted(a))
DeleteAll(a, v) ==
    Gives(IF v \in ToSet(a) THEN One(v) ELSE Absent, SelectSeq(a, LAMBDA x : x # v))
Minus(a, b) == SelectSeq(a, LAMBDA x : x \notin ToSet(b))
Uniq(a) ==
    FoldLeft(LAMBDA out, x : IF x \in ToSet(out) THEN out ELSE Append(out, x), <<>>, a)
Zipped(a, others) ==
    [i \in DOMAIN a |-> <<a[i]>> \o [j \in DOMAIN others |-> IF i =< Len(others[j]) THEN others[j][i] ELSE "nil"]]
(* The first row counts the columns.                                       *)
Transposed(rows) ==
    LET n == Len(rows[1])
    IN  CASE rows = <<>> -> Many(<<>>)
          [] n > 0 /\ \E i \in DOMAIN rows : Len(rows[i]) # n -> Raises
          [] OTHER -> Many([j \in 1 .. n |-> [i \in DOMAIN rows |-> rows[i][j]]])
Repeated(a, n) == IF n < 0 THEN Raises ELSE Many(FlattenSeq([i \in 1 .. n |-> a]))
(* The separator is put wherever something stands before it.               *)
Joined(strings, sep) ==
    FoldLeft(LAMBDA res, s : IF res = <<>> THEN s ELSE res \o sep \o s, <<>>, strings)
CompareArrays(a, b) ==
    LET n == Lower(Len(a), Len(b))
        differ == {i \in 1 .. n : a[i] # b[i]}
        at == CHOOSE x \in differ : \A y \in differ : x =< y
    IN  CASE differ # {} -> IF a[at] < b[at] THEN -1 ELSE 1
          [] Len(a) = Len(b) -> 0
          [] OTHER -> IF Len(a) > Len(b) THEN 1 ELSE -1

(* ary_flatten down to a level; elements are values and arrays of such.    *)
IsMany(x) == x.k = "array"
Opened(s) == FlattenSeq([i \in DOMAIN s |-> IF IsMany(s[i]) THEN s[i].v ELSE <<s[i]>>])
Flattened(s, level) == FoldLeft(LAMBDA acc, i : Opened(acc), s, [i \in 1 .. level |-> i])
FlattenBang(s, level) ==
    Gives(IF level > 0 /\ \E i \in DOMAIN s : IsMany(s[i]) THEN Many(Flattened(s, level)) ELSE Absent,
          Flattened(s, level))

(* binary_search: the block holds for the last element and not for the     *)
(* first.                                                                  *)
Halve[min \in Nat, max \in Nat, a \in Seq(BOOLEAN)] ==
    LET mid == min + (max - min) \div 2
    IN  CASE mid = min -> max
          [] Nth(a, mid) -> Halve[min, mid, a]
          [] OTHER -> Halve[mid, max, a]
BinarySearch(a) ==
    CASE a = <<>> -> Absent
      [] Nth(a, 0) -> One(0)
      [] ~Last(a) -> Absent
      [] OTHER -> One(Halve[0, Len(a) - 1, a])

----------------------------------------------------------------------------
(* builtin/range.rs, ranges of integers.                                   *)
Ints(from, to) == [i \in 1 .. to - from + 1 |-> from + i - 1]
LastOf(r) == r.end - (IF r.exclude THEN 1 ELSE 0)
RangeFirst(r, n) == IF n < 0 THEN Raises ELSE Many(Ints(r.start, Lower(LastOf(r), r.start + n - 1)))
RangeLast(r, n) == IF n < 0 THEN Raises ELSE Many(Ints(Higher(LastOf(r) - n + 1, r.start), LastOf(r)))
ToA(r) == Many(Ints(r.start, LastOf(r)))
RangeInclude(r, x) == r.start =< x /\ (IF r.exclude THEN x < r.end ELSE x =< r.end)

----------------------------------------------------------------------------
(* HashInfo: a table keeps the order in which keys came, except that the   *)
(* last entry takes the place of a removed one.                            *)
Place(h, key) == CHOOSE i \in DOMAIN h : h[i][1] = key
HasKey(h, key) == \E i \in DOMAIN h : h[i][1] = key
HashInsert(h, key, v) ==
    IF HasKey(h, key) THEN [h EXCEPT ![Place(h, key)] = <<key, v>>] ELSE Append(h, <<key, v>>)
HashRemove_Shift(h, key) ==
    Gives(IF HasKey(h, key) THEN One(h[Place(h, key)][2]) ELSE Absent, SelectSeq(h, LAMBDA e : e[1] # key))
HashRemove(h, key) ==
    IF HasKey(h, key)
    THEN Gives(One(h[Place(h, key)][2]), Front([h EXCEPT ![Place(h, key)] = Last(h)]))
    ELSE Gives(Absent, h)
HashGet(h, key) == IF HasKey(h, key) THEN One(h[Place(h, key)][2]) ELSE Absent
HashFetch(h, key, default) == IF HasKey(h, key) THEN HashGet(h, key) ELSE default
KeysOf(h) == [i \in DOMAIN h |-> h[i][1]]
HasValue(h, v) == \E i \in DOMAIN h : h[i][2] = v
HashCompact(h) == SelectSeq(h, LAMBDA e : e[2] # "nil")
InsertAll(h, entries) == FoldLeft(LAMBDA acc, e : HashInsert(acc, e[1], e[2]), h, entries)
HashMerge(h, others) == InsertAll(h, FlattenSeq(others))
HashInvert(h) == InsertAll(<<>>, [i \in DOMAIN h |-> <<h[i][2], h[i][1]>>])

(* each walks the memory the table occupied when it began: an entry that a *)
(* removal has moved or taken off the end is still read where it was.      *)
(* Removes: the keys the block removes when it is given a key.             *)
HashEach(h, Removes(_)) ==
    LET Removed(s, key) ==
            LET table == HashRemove(s.table, key).receiver
            IN  [s EXCEPT !.table = table, !.memory = table \o SubSeq(@, Len(table) + 1, Len(@))]
        Round(s, i) ==
            FoldLeft(Removed, [s EXCEPT !.given = Append(@, s.memory[i][1])], Removes(s.memory[i][1]))
    IN  FoldLeft(Round, [table |-> h, memory |-> h, given |-> <<>>], [i \in DOMAIN h |-> i])
=============================================================================
