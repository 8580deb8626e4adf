----------------------------- MODULE Continuity -----------------------------
(***************************************************************************)
(* What the continuity sidecar promises, whatever its implementation:      *)
(* work is done either by the legacy workers or under one active revision, *)
(* never both, and each key has at most one result, published under the    *)
(* revision that was active then and handed to every later caller.         *)
(***************************************************************************)
CONSTANTS Key, Revision, Uri, NoRevision, NoResult

VARIABLES mode,      \* who does the work
          revision,  \* the active revision of mode "sidecar"
          record,    \* the published result of each key
          answered   \* the results callers have been given

vars == <<mode, revision, record, answered>>

Result == [key : Key, revision : Revision, uri : Uri]

Init == /\ mode = "legacy"
        /\ revision = NoRevision
        /\ record = [k \in Key |-> NoResult]
        /\ answered = {}

Drain == /\ mode # "sidecar"
         /\ mode' = "drained"
         /\ UNCHANGED <<revision, record, answered>>

Activate(r) == /\ mode = "drained"
               /\ mode' = "sidecar"
               /\ revision' = r
               /\ UNCHANGED <<record, answered>>

Fallback == /\ mode' = "legacy"
            /\ revision' = NoRevision
            /\ UNCHANGED <<record, answered>>

Publish(k, u) ==
    LET result == [key |-> k, revision |-> revision, uri |-> u] IN
    /\ mode = "sidecar"
    /\ record[k] = NoResult
    /\ record' = [record EXCEPT ![k] = result]
    /\ answered' = answered \cup {result}
    /\ UNCHANGED <<mode, revision>>

Replay(k) == /\ mode = "sidecar"
             /\ record[k] # NoResult
             /\ record[k].revision = revision
             /\ answered' = answered \cup {record[k]}
             /\ UNCHANGED <<mode, revision, record>>

Next == \/ Drain \/ Fallback
        \/ \E r \in Revision : Activate(r)
        \/ \E k \in Key : Replay(k) \/ \E u \in Uri : Publish(k, u)

Spec == Init /\ [][Next]_vars
=============================================================================
