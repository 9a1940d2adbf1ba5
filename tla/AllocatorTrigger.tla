--------------------------- MODULE AllocatorTrigger ---------------------------
(***************************************************************************)
(* Allocator with a history variable: how many cells no collection had     *)
(* offered before were taken since a collection was last requested, made   *)
(* or switched off.                                                        *)
(***************************************************************************)
EXTENDS Allocator

VARIABLE unrequested

TookFreshCell == <<current, used_in_current>>' # <<current, used_in_current>>

TInit == Init /\ unrequested = 0

TNext ==
    /\ Next
    /\ unrequested' = IF alloc_flag' \/ ~gc_enabled' \/ phase' = "sweep" THEN 0
                      ELSE IF TookFreshCell THEN unrequested + 1
                      ELSE unrequested

TSpec == TInit /\ [][TNext]_<<vars, unrequested>>

(* The request is raised at one cell of a page only, by an equality, and   *)
(* never when the free list serves the allocation.  Still the heap cannot  *)
(* grow by a page's worth of cells without a collection being requested.   *)
RequestedInTime == unrequested < DATA_LEN

=============================================================================
