--------------------------- MODULE PinnedRevision ---------------------------
(***************************************************************************)
(* What an ordered cutover promises a user of a unit, apart from stores,   *)
(* policies and failures: a unit commits to one deployment revision, for   *)
(* ever, and Platform answers for the unit under that revision only.       *)
(***************************************************************************)
CONSTANTS Unit, Revision, None

VARIABLES pin,    \* the revision a unit is committed to, or None
          served  \* the revisions under which Platform has answered for it

Init == pin = [u \in Unit |-> None] /\ served = [u \in Unit |-> {}]

\* A unit commits to a revision.
Pin(u, r) ==
    /\ pin[u] = None
    /\ pin' = [pin EXCEPT ![u] = r]
    /\ UNCHANGED served

\* Platform answers a request for the committed revision.
Serve(u, r) ==
    /\ pin[u] = r
    /\ served' = [served EXCEPT ![u] = @ \cup {r}]
    /\ UNCHANGED pin

Next == \E u \in Unit, r \in Revision : Pin(u, r) \/ Serve(u, r)

Spec == Init /\ [][Next]_<<pin, served>>
=============================================================================
