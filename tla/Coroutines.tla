------------------------------ MODULE Coroutines ------------------------------
(***************************************************************************)
(* What fibers promise the program, with no stacks, no saved registers and *)
(* no boxes: executions that hand control to one another.  One execution   *)
(* has control.  The fibers that were resumed and have neither yielded nor *)
(* ended wait in a chain, each for the one it resumed; control goes back   *)
(* only to the execution that resumed last.  Fiber.tla implements this.    *)
(***************************************************************************)

CONSTANTS F,        \* fibers
          MAIN      \* the execution the program begins in

VARIABLES cur,      \* execution that has control
          back,     \* back[f], for a fiber in the chain: who resumed it
          phase     \* "unborn", "live" or "over"

vars == <<cur, back, phase>>

Exec == F \cup {MAIN}
InChain == DOMAIN back
Without(S) == [f \in InChain \ S |-> back[f]]

-----------------------------------------------------------------------------

Init ==
    /\ cur = MAIN
    /\ back = [f \in {} |-> MAIN]
    /\ phase = [f \in F |-> "unborn"]

Create(f) ==
    /\ phase[f] = "unborn"
    /\ phase' = [phase EXCEPT ![f] = "live"]
    /\ UNCHANGED <<cur, back>>

(* Control is given to a fiber that is not waiting for another one.        *)
Resume(f) ==
    /\ phase[f] # "over"
    /\ f \notin InChain
    /\ phase' = [phase EXCEPT ![f] = "live"]
    /\ back' = [g \in InChain \cup {f} |-> IF g = f THEN cur ELSE back[g]]
    /\ cur' = f

Yield ==
    /\ cur \in InChain
    /\ cur' = back[cur]
    /\ back' = Without({cur})
    /\ UNCHANGED phase

End ==
    /\ cur \in InChain
    /\ cur' = back[cur]
    /\ back' = Without({cur})
    /\ phase' = [phase EXCEPT ![cur] = "over"]

(* Fibers nobody will resume again go away, never one in the chain.        *)
Discard(D) ==
    /\ D \cap InChain = {}
    /\ phase' = [f \in F |-> IF f \in D THEN "over" ELSE phase[f]]
    /\ UNCHANGED <<cur, back>>

Next ==
    \/ \E f \in F : Create(f) \/ Resume(f)
    \/ Yield \/ End
    \/ \E D \in SUBSET F : Discard(D)

Spec == Init /\ [][Next]_vars

-----------------------------------------------------------------------------

(* The chain leads from the execution in control back to MAIN: a set of    *)
(* executions that has control in it and is closed under `back` has MAIN.  *)
ChainEndsInMain ==
    \A S \in SUBSET Exec :
        (cur \in S /\ \A f \in S \cap InChain : back[f] \in S) => MAIN \in S

=============================================================================
