--------------------------- MODULE CollectionLaws ---------------------------
(***************************************************************************)
(* What Ruby promises of the methods of Collections.tla: in terms of       *)
(* positions, and by what one method undoes or repeats of another.         *)
(***************************************************************************)
EXTENDS Collections

CONSTANT IrregularCollections    \* are calls made that the code answers otherwise than Ruby?

(* Where the code follows Ruby.                                            *)
Ruby(gate) == IrregularCollections \/ gate

(* The elements at some positions.                                         *)
Picked(a, S) == LET at == SetToSortSeq(S, <) IN [j \in DOMAIN at |-> Nth(a, at[j])]
Start(a, i) == IF i < 0 THEN Len(a) + i ELSE i
Within(a, i) == i \in -Len(a) .. Len(a)
Span(a, from, to) == {p \in 0 .. Len(a) - 1 : from =< p /\ p =< to}

(* References to elements.                                                 *)
ReadsParts(a, i, l) ==
    /\ GetElem1(a, i) = IF i \in -Len(a) .. Len(a) - 1 THEN One(Nth(a, Start(a, i))) ELSE Absent
    /\ Ruby(Within(a, i)) =>
           GetElem(a, i, l) = IF l < 0 \/ ~Within(a, i) THEN Absent
                              ELSE Many(Picked(a, Span(a, Start(a, i), Start(a, i) + l - 1)))
    /\ \A exclude \in BOOLEAN :
           LET last == Start(a, l) - (IF exclude THEN 1 ELSE 0)
           IN  Ruby(i >= -Len(a) /\ last >= -1) =>
                   GetRange(a, i, l, exclude) = IF Within(a, i) THEN Many(Picked(a, Span(a, Start(a, i), last)))
                                                ELSE Absent

(* Assignment changes what it names and nothing else; putting back what    *)
(* was there undoes it.                                                    *)
Assigns(a, i, l, new) ==
    LET stored == SetElem1(a, i, "v").receiver
        replaced == SetElem(a, i, l, Many(new)).receiver
    IN  /\ IF i < -Len(a) THEN stored = a
           ELSE \A p \in 0 .. Len(a) + 4 :
                    GetElem1(stored, p) = IF p = Start(a, i) THEN One("v")
                                          ELSE IF p < Len(a) THEN GetElem1(a, p)
                                          ELSE IF p < i THEN One("nil") ELSE Absent
        /\ i < -Len(a) \/ l < 0 => replaced = a
        /\ Within(a, i) /\ l >= 0 =>
               /\ GetElem(replaced, Start(a, i), Len(new)) = Many(new) \/ Start(a, i) = Len(replaced)
               /\ SetElem(replaced, Start(a, i), Len(new), GetElem(a, i, l)).receiver = a
               /\ Len(replaced) = Len(a) + Len(new) - Len(GetElem(a, i, l).v)
        /\ Ruby(i =< Len(a)) =>
               SetElem(a, i, l, One("v")).receiver = SetElem(a, i, l, Many(<<"v">>)).receiver

(* Taking elements off an array.                                           *)
TakesOff(a, i, l) ==
    /\ i >= 0 /\ Ruby(i =< Len(a)) =>
           /\ ShiftFirst(a, i).result.v \o ShiftFirst(a, i).receiver = a
           /\ Len(ShiftFirst(a, i).receiver) = Higher(0, Len(a) - i)
    /\ i >= 0 /\ Ruby(i < Len(a)) => DropFirst(a, i) = Many(ShiftFirst(a, i).receiver)
    /\ i < 0 => DropFirst(a, i) = Raises
    /\ i >= 0 /\ l >= 0 /\ Ruby(i + l =< Len(a)) =>
           /\ SliceBang(a, i, l).receiver = SetElem(a, i, l, Many(<<>>)).receiver
           /\ SliceBang(a, i, l).result = GetElem(a, i, l)

(* Whole arrays.                                                           *)
Rearranges(a, i, b) ==
    LET turned == RotateBang(a, i).receiver
    IN  /\ Ruby(a # <<>> \/ i = 0) =>
               /\ RotateBang(a, i).result = Many(turned)
               /\ \A p \in 0 .. Len(a) - 1 : Nth(turned, (p - i) % Len(a)) = Nth(a, p)
        /\ CompactBang(a).receiver = Minus(a, <<"nil">>)
        /\ (CompactBang(a).result = Absent) = (CompactBang(a).receiver = a)
        /\ \A x \in ToSet(b) : /\ DeleteAll(a, x).receiver = Minus(a, <<x>>)
                               /\ (DeleteAll(a, x).result = Absent) = (x \notin ToSet(a))
        /\ ToSet(Minus(a, b)) = ToSet(a) \ ToSet(b)
        /\ Uniq(a) = Picked(a, {p \in 0 .. Len(a) - 1 : \A q \in 0 .. p - 1 : Nth(a, q) # Nth(a, p)})
        /\ i >= 0 => /\ Len(Repeated(a, i).v) = i * Len(a)
                     /\ \A p \in 0 .. i * Len(a) - 1 : Nth(Repeated(a, i).v, p) = Nth(a, p % Len(a))
        /\ Len(a) = Len(b) /\ a # <<>> => Transposed(Zipped(a, <<b>>)) = Many(<<a, b>>)
        /\ Transposed(<<a, b>>) = IF Len(a) # Len(b) /\ Ruby(a # <<>>) THEN Raises ELSE Many(Zipped(a, <<b>>))

(* The order of arrays of integers.                                        *)
Orders(a, b, c) ==
    /\ CompareArrays(a, b) = -CompareArrays(b, a)
    /\ (CompareArrays(a, b) = 0) = (a = b)
    /\ CompareArrays(a, b) =< 0 /\ CompareArrays(b, c) =< 0 => CompareArrays(a, c) =< 0
    /\ CompareArrays(a \o b, a \o c) = CompareArrays(b, c)

(* A block that holds from some position on is answered with the first     *)
(* such position.                                                          *)
Searches(n, from) ==
    from >= 0 => BinarySearch([p \in 1 .. n |-> p > from]) = IF from < n THEN One(from) ELSE Absent

(* Nested arrays.                                                          *)
RECURSIVE Leaves(_)
Leaves(s) == FlattenSeq([i \in DOMAIN s |-> IF IsMany(s[i]) THEN Leaves(s[i].v) ELSE <<s[i]>>])
Flattens(s, depth, level) ==
    /\ Flattened(s, depth) = Leaves(s)
    /\ Leaves(Flattened(s, level)) = Leaves(s)
    /\ Flattened(Flattened(s, level), 1) = Flattened(s, level + 1)
    /\ (FlattenBang(s, level).result = Absent) = (FlattenBang(s, level).receiver = s)
(* The strings in turn, one separator between two; the code leaves it out  *)
(* after nothing but empty strings.                                        *)
Joins(strings, sep) ==
    (strings # <<>> /\ Ruby(Len(strings) = 1 \/ Head(strings) # <<>>)) =>
        Joined(strings, sep) =
            Head(strings) \o FlattenSeq([i \in 1 .. Len(strings) - 1 |-> sep \o strings[i + 1]])

(* Ranges of integers.                                                     *)
RangesLikeRuby(r, n) ==
    LET all == ToA(r).v
    IN  /\ \A x \in r.start - 2 .. r.end + 2 : RangeInclude(r, x) = (x \in ToSet(all))
        /\ n < 0 => RangeFirst(r, n) = Raises /\ RangeLast(r, n) = Raises
        /\ n >= 0 => /\ RangeFirst(r, n) = Many(Picked(all, {p \in 0 .. Len(all) - 1 : p < n}))
                     /\ RangeLast(r, n) = Many(Picked(all, {p \in 0 .. Len(all) - 1 : p >= Len(all) - n}))

(* Hashes.                                                                 *)
Mapping(h) == [key \in ToSet(KeysOf(h)) |-> HashGet(h, key).v[1]]
IsTable(h) == Cardinality(ToSet(KeysOf(h))) = Len(h)
Latest(tables, key) == LET with == {i \in DOMAIN tables : HasKey(tables[i], key)}
                       IN  HashGet(tables[CHOOSE i \in with : \A j \in with : j =< i], key)
Stores(h, key, v) ==
    LET inserted == HashInsert(h, key, v)
        removed == HashRemove(h, key)
    IN  /\ Mapping(inserted) = (key :> v) @@ Mapping(h)
        /\ KeysOf(inserted) = Uniq(KeysOf(h) \o <<key>>)
        /\ removed.result = HashGet(h, key)
        /\ IsTable(removed.receiver)
        /\ Mapping(removed.receiver) = [k \in DOMAIN Mapping(h) \ {key} |-> Mapping(h)[k]]
        /\ Ruby(~HasKey(h, key) \/ KeysOf(h)[Len(h)] = key) => KeysOf(removed.receiver) = Minus(KeysOf(h), <<key>>)
        /\ HashFetch(h, key, Raises) # Raises <=> key \in DOMAIN Mapping(h)
Combines(h, others) ==
    LET merged == HashMerge(h, others)
        tables == <<h>> \o others
    IN  /\ IsTable(merged)
        /\ ToSet(KeysOf(merged)) = UNION {ToSet(KeysOf(tables[i])) : i \in DOMAIN tables}
        /\ \A key \in ToSet(KeysOf(merged)) : HashGet(merged, key) = Latest(tables, key)
        /\ \A v \in ToSet(KeysOf(HashInvert(h))) : HasValue(h, v)
        /\ \A i \in DOMAIN h : HasKey(HashInvert(h), h[i][2])
        /\ Len(HashInvert(h)) = Len(h) => HashInvert(HashInvert(h)) = h
        /\ HasValue(h, "nil") = (HashCompact(h) # h)
(* A block that removes no key but the one it is given is given every      *)
(* entry once, and the others stay.                                        *)
Visits(h, S) ==
    LET each == HashEach(h, LAMBDA key : IF key \in S THEN <<key>> ELSE <<>>)
    IN  /\ ToSet(each.given) = ToSet(KeysOf(h))
        /\ Len(each.given) = Len(h)
        /\ Mapping(each.table) = [key \in DOMAIN Mapping(h) \ S |-> Mapping(h)[key]]

----------------------------------------------------------------------------
(* The methods of arrays that read, store, take off and rearrange elements *)
(* do what Ruby's do.                                                      *)
ArraysLikeRuby(a, i, l, b) ==
    ReadsParts(a, i, l) /\ Assigns(a, i, l, b) /\ TakesOff(a, i, l) /\ Rearranges(a, i, b)

(* So do those that put, find and visit the entries of hashes.             *)
HashesLikeRuby(h, key, v, others) ==
    /\ Stores(h, key, v)
    /\ Combines(h, others)
    /\ \A S \in SUBSET ToSet(KeysOf(h)) : Visits(h, S)
=============================================================================
