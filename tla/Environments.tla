----------------------------- MODULE Environments -----------------------------
(***************************************************************************)
(* Lexical scoping, with no stack, no heap and no copies.  Every call has  *)
(* an environment with one variable; the environment of a block has as its *)
(* parent the one its literal was evaluated in.  A variable keeps what was *)
(* last assigned to it, through whatever call or closure it was reached.   *)
(* Closures.tla implements this specification.                             *)
(***************************************************************************)
EXTENDS Integers, SequencesExt

CONSTANTS Env,      \* environments, 1 .. n
          Val,      \* values of a variable
          Unset     \* what a variable holds before it is assigned

VARIABLES parent,   \* parent[e]: the enclosing environment, 0 for none
          value,    \* value[e]: the variable of environment e
          running,  \* environments of the calls in progress, innermost last
          captured  \* environments closures were made in

vars == <<parent, value, running, captured>>

cur == Last(running)

(* The environment d scopes out.                                           *)
Scope(e, d) == LET up[k \in 0 .. d] == IF k = 0 THEN e ELSE parent[up[k - 1]] IN up[d]
Depths == {d \in 0 .. Len(parent) : \A k \in 1 .. d : parent[Scope(cur, k - 1)] # 0}

-----------------------------------------------------------------------------

Init ==
    /\ parent = <<0>>
    /\ value = <<Unset>>
    /\ running = <<1>>
    /\ captured = {}

(* A call with a new environment, or another round of an iteration, which  *)
(* reuses the environment of the round before.                             *)
Enter(p) ==
    /\ Len(parent) + 1 \in Env
    /\ p \in {0} \cup captured \cup Range(running)
    /\ parent' = Append(parent, p)
    /\ value' = Append(value, Unset)
    /\ running' = Append(running, Len(parent) + 1)
    /\ UNCHANGED captured

Again(e) ==
    /\ e \in DOMAIN parent
    /\ running' = Append(running, e)
    /\ UNCHANGED <<parent, value, captured>>

Leave ==
    /\ running # <<>>
    /\ running' = Front(running)
    /\ UNCHANGED <<parent, value, captured>>

Capture ==
    /\ running # <<>>
    /\ captured' = captured \cup {Scope(cur, d) : d \in Depths}
    /\ UNCHANGED <<parent, value, running>>

Assign(d, v) ==
    /\ running # <<>> /\ d \in Depths
    /\ value' = [value EXCEPT ![Scope(cur, d)] = v]
    /\ UNCHANGED <<parent, running, captured>>

(* The own variable is assigned the one d scopes out.                      *)
Load(d) == running # <<>> /\ d \in Depths /\ Assign(0, value[Scope(cur, d)])

Next ==
    \/ \E p \in {0} \cup Env : Enter(p) \/ Again(p)
    \/ Leave \/ Capture
    \/ \E d \in Env \cup {0} : Load(d) \/ \E v \in Val : Assign(d, v)

Spec == Init /\ [][Next]_vars

=============================================================================
