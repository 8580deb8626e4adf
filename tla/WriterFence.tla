---------------------------- MODULE WriterFence ----------------------------
(***************************************************************************)
(* What the writer authority of a workspace promises, apart from files,    *)
(* locks and crashes: a process enters the workspace only while Knowledge  *)
(* may write it and nobody else is inside; nobody takes the permission     *)
(* away while a process is inside.                                         *)
(***************************************************************************)
CONSTANT Process

VARIABLES allowed,  \* TRUE while the authority record lets Knowledge write
          inside    \* the processes that may write the workspace

Init == allowed = TRUE /\ inside = {}

\* A process enters an open workspace that is empty.
Enter(p) ==
    /\ allowed
    /\ inside = {}
    /\ inside' = {p}
    /\ UNCHANGED allowed

\* A process has done its last write.
Leave(p) ==
    /\ p \in inside
    /\ inside' = inside \ {p}
    /\ UNCHANGED allowed

\* The permission is withdrawn or returned, over an empty workspace.
Decide ==
    /\ inside = {}
    /\ allowed' \in BOOLEAN
    /\ UNCHANGED inside

Next == Decide \/ \E p \in Process : Enter(p) \/ Leave(p)

Spec == Init /\ [][Next]_<<allowed, inside>>
=============================================================================
