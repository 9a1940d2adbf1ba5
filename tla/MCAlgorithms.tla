---------------------------- MODULE MCAlgorithms ----------------------------
(***************************************************************************)
(* Inputs for Algorithms: small ones, with every kind of thing in them.    *)
(***************************************************************************)
EXTENDS Algorithms

(* Numbers; names; operators and punctuation; blanks, ends of lines and    *)
(* comments.                                                               *)
MCAlphabets == {
    [max |-> 5, chars |-> {"0", "1", "_", ".", "e", "x", "-", "i"}],
    [max |-> 4, chars |-> {"a", "C", "_", "1", "!", "?", "=", "@", "$", " "}],
    [max |-> 3, chars |-> {"=", "!", "<", ">", "*", "&", "|", ".", ":", "~", "-", "+", "a"}],
    [max |-> 5, chars |-> {"\n", "\\", " ", "a", "#", ";"}]}

(* Parameters of every kind, in numbers of which a call can give too few   *)
(* or too many; parameters after others only where those may be absent.    *)
MCParameters ==
    {p \in {Params(req, opt, rest, post, keys, kwrest) :
                req \in 0 .. 2, opt \in 0 .. 2, rest \in {"none", "bound", "discarded"}, post \in 0 .. 2,
                keys \in {<<>>, <<"k">>}, kwrest \in BOOLEAN} :
        p.post > 0 => p.opt > 0 \/ p.rest # "none"}
x == Atom("x")
y == Atom("y")
u == Atom("u")
Pair == Arr(<<u, Atom("v")>>)
Triple == Arr(<<u, Atom("v"), Atom("w")>>)
MCPassed == {<<>>, <<x>>, <<x, y>>, <<x, y, u>>, <<x, y, u, x>>, <<x, Triple>>, <<x, SplatOf(Pair)>>}
            \cup {<<a>> : a \in {Arr(<<>>), Arr(<<u>>), Triple, SplatOf(Nil), SplatOf(Pair)}}
MCKeyworded == {<<>>, <<<<"k", x>>>>, <<<<"k", x>>, <<"l", y>>>>}
MCRests == {<<>>, <<<<>>>>, <<<<<<"k", u>>>>>>, <<<<<<"l", u>>>>, <<<<"l", x>>>>>>}
MCYielded == {x, Arr(<<>>), Arr(<<u>>), Arr(<<x, y>>), Triple}

MCArrays == SeqOf({"a", "b", "nil"}, 3)
MCPositions == -5 .. 5
MCReplacements == {<<>>, <<"a">>, <<"nil", "b">>, <<"a", "b", "a">>}
MCRows == SeqOf({0, 1}, 3)
MCRanges == [start : -2 .. 2, end : -3 .. 3, exclude : BOOLEAN]
Leaf(name) == [k |-> name, v |-> <<>>]
Inner == {Leaf("a"), Many(<<>>), Many(<<Leaf("b")>>), Many(<<Many(<<>>), Leaf("b"), Many(<<Leaf("c")>>)>>)}
MCNested == SeqOf(Inner \cup {Many(<<e>>) : e \in Inner}, 3)
MCTables ==
    {h \in SeqOf({<<key, v>> : key \in {"k", "l", "m", "n"}, v \in {"a", "nil"}}, 4) : IsTable(h)}
MCAdditions == SeqOf({<<<<"k", "b">>>>, <<<<"k", "c">>, <<"l", "b">>>>, <<<<"l", "c">>, <<"new", "d">>>>}, 2)
=============================================================================
