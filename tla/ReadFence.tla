------------------------------ MODULE ReadFence ------------------------------
(***************************************************************************)
(* What the fence promises a reader: there is one bundle that is selected, *)
(* whichever process looks; a read is for the one selected when it began,  *)
(* and is answered if and only if that is selected when it ends.  Nothing  *)
(* is said of rows, of the processes' copies, or of how a bundle comes to  *)
(* be selected.                                                            *)
(***************************************************************************)
CONSTANTS Query, Context, NoContext

VARIABLES
    selected, \* the context that is active, or none before the first
    reads     \* each read, with the context it is for

NoRead == [at |-> "idle", context |-> NoContext]

FenceInit == selected = NoContext /\ reads = [q \in Query |-> NoRead]

Select ==
    /\ selected' \in Context
    /\ UNCHANGED reads

Begin(q) ==
    /\ reads[q].at = "idle"
    /\ selected # NoContext
    /\ reads' = [reads EXCEPT ![q] = [at |-> "reading", context |-> selected]]
    /\ UNCHANGED selected

End(q) ==
    /\ reads[q].at = "reading"
    /\ reads' = [reads EXCEPT ![q] = [at |-> IF reads[q].context = selected THEN "answered" ELSE "rejected",
                                      context |-> reads[q].context]]
    /\ UNCHANGED selected

\* Reads that are over, or lost with their process.
Drop(over) ==
    /\ reads' = [q \in Query |-> IF q \in over THEN NoRead ELSE reads[q]]
    /\ UNCHANGED selected

FenceNext ==
    \/ Select
    \/ \E q \in Query : Begin(q) \/ End(q)
    \/ \E over \in SUBSET Query : Drop(over)

FenceSpec == FenceInit /\ [][FenceNext]_<<selected, reads>>
=============================================================================
