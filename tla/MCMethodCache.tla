---------------------------- MODULE MCMethodCache ----------------------------
(* Classes and method caches on small instances: with one method name and  *)
(* one call site, or with the classes alone.                               *)
EXTENDS MethodCache

CONSTANTS f, s1

MCCell4 == 1 .. 4
MCCell6 == 1 .. 6
MCName == {f}
MCSite == {s1}
MCNameOf == [s \in {s1} |-> f]
MCNone == {}
MCNoNameOf == [s \in {} |-> f]

=============================================================================
