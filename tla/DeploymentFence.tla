--------------------------- MODULE DeploymentFence ---------------------------
(***************************************************************************)
(* The pointer that selects one deployment bundle (catalog/deployment.py,  *)
(* deployment_sqlite.py) and the reads it fences (RestQueryAdapter.handle).*)
(* Every process has a controller with a copy of the pointer, loaded when  *)
(* it is made: reads refresh the copy, the operations that move the        *)
(* pointer test it and overwrite the row.                                  *)
(***************************************************************************)
EXTENDS Naturals

CONSTANTS
    Controller,   \* DeploymentActivationController objects, one per process
    Operator,     \* those that move the pointer; the others only read
    Query,        \* requests that may be in flight at once
    Manifest,     \* bundles of four artifacts
    Revision,
    RevisionOf,   \* the revision all artifacts of a bundle carry
    Installation, \* installation ids
    Proposal,     \* the <<legacy, candidate>> pairs that are prepared
    None

ASSUME FenceAssumption ==
    /\ Operator \subseteq Controller
    /\ RevisionOf \in [Manifest -> Revision]
    /\ Proposal \subseteq Manifest \X Manifest
    /\ None \notin Manifest \cup Installation \cup Revision \cup Controller

VARIABLES
    pointer,  \* the row of platform_deployment_activation_state
    cache,    \* each controller's _state
    owed,     \* the event each controller has not yet appended
    event,    \* the last row of platform_deployment_activation_events
    query,    \* the requests, with how often their bundle has changed
    verified, \* history: the bundles a controller has verified
    movers    \* history: the controllers that have moved the pointer

vars == <<pointer, cache, owed, event, query, verified, movers>>

Status == {"pending", "prepared", "drained", "verified", "activated", "rolled_back"}

Pending == [status |-> "pending", installation |-> None, legacy |-> None, candidate |-> None, active |-> None]

Row == [status : Status \ {"pending"}, installation : Installation,
        legacy : Manifest, candidate : Manifest, active : Revision]

Pointer == Row \cup {Pending}

Event == [status : Status, active : Revision]

\* What a read captures: the digest stands for the whole bundle.
Context == [installation : Installation, revision : Revision, digest : Manifest]

NoContext == [installation |-> None, revision |-> None, digest |-> None]

Request == [at : {"idle", "reading", "answered", "rejected"}, via : Controller \cup {None},
            context : Context \cup {NoContext}, changes : 0 .. 2]

NoRequest == [at |-> "idle", via |-> None, context |-> NoContext, changes |-> 0]

Bundle(p) == <<p.installation, p.legacy, p.candidate>>

Init ==
    /\ pointer = Pending
    /\ cache = [c \in Controller |-> Pending]
    /\ owed = [c \in Controller |-> None]
    /\ event = None
    /\ query = [q \in Query |-> NoRequest]
    /\ verified = {} /\ movers = {}

----------------------------------------------------------------------------
(* Reading the pointer *)

Active(p) == IF p.active = RevisionOf[p.candidate] THEN p.candidate ELSE p.legacy

ContextOf(p) == [installation |-> p.installation, revision |-> RevisionOf[Active(p)], digest |-> Active(p)]

\* load returns nothing until the first save, and then the copy is kept.
Loaded(c) == IF pointer.status = "pending" THEN cache[c] ELSE pointer

Refresh(c) == cache' = [cache EXCEPT ![c] = Loaded(c)]

\* A controller is used by one call at a time; one that has saved appends its event next.
Idle(c) == owed[c] = None

----------------------------------------------------------------------------
(* Moving the pointer *)

Changed(p) == pointer.status = "pending" \/ ContextOf(p) # ContextOf(pointer)

Noted(p) ==
    [q \in Query |-> IF query[q].at = "reading" /\ query[q].changes < 2 /\ Changed(p)
                     THEN [query[q] EXCEPT !.changes = @ + 1] ELSE query[q]]

\* The row is overwritten whatever it holds, and the copy with it.
Save(c, p) ==
    /\ pointer' = p
    /\ cache' = [cache EXCEPT ![c] = p]
    /\ owed' = [owed EXCEPT ![c] = [status |-> p.status, active |-> p.active]]
    /\ query' = Noted(p)
    /\ movers' = movers \cup {c}
    /\ UNCHANGED event

\* The bundle the copy holds, in another status; only activate selects the candidate.
Advanced(c, status) ==
    [cache[c] EXCEPT !.status = status,
                     !.active = RevisionOf[IF status = "activated" THEN cache[c].candidate ELSE cache[c].legacy]]

Prepare(c, i, legacy, candidate) ==
    /\ Idle(c)
    /\ cache[c].status \in {"pending", "rolled_back"}
    /\ RevisionOf[legacy] # RevisionOf[candidate]
    /\ Save(c, [status |-> "prepared", installation |-> i, legacy |-> legacy,
                candidate |-> candidate, active |-> RevisionOf[legacy]])
    /\ UNCHANGED verified

MarkDrained(c) ==
    /\ Idle(c)
    /\ cache[c].status = "prepared"
    /\ Save(c, Advanced(c, "drained"))
    /\ UNCHANGED verified

\* A verification that does not match raises and changes nothing.
Verify(c) ==
    /\ Idle(c)
    /\ cache[c].status = "drained"
    /\ Save(c, Advanced(c, "verified"))
    /\ verified' = verified \cup {Bundle(cache[c])}

Activatable_Drained(c) == cache[c].status \in {"drained", "verified"}

Activatable(c) == cache[c].status = "verified"

Activate(c) ==
    /\ Idle(c)
    /\ Activatable(c)
    /\ Save(c, Advanced(c, "activated"))
    /\ UNCHANGED verified

Rollback(c) ==
    /\ Idle(c)
    /\ cache[c].status \in {"prepared", "drained", "verified", "activated"}
    /\ Save(c, Advanced(c, "rolled_back"))
    /\ UNCHANGED verified

AppendEvent(c) ==
    /\ ~Idle(c)
    /\ event' = owed[c]
    /\ owed' = [owed EXCEPT ![c] = None]
    /\ UNCHANGED <<pointer, cache, query, verified, movers>>

\* The second transaction fails: the call raises, what it has saved stays.
EventFails(c) ==
    /\ ~Idle(c)
    /\ owed' = [owed EXCEPT ![c] = None]
    /\ UNCHANGED <<pointer, cache, event, query, verified, movers>>

Reloaded_Pending == Pending

Reloaded == pointer

\* The process ends, between the two transactions or not, and a new one loads the row.
Restart(c) ==
    /\ cache' = [cache EXCEPT ![c] = Reloaded]
    /\ owed' = [owed EXCEPT ![c] = None]
    /\ query' = [q \in Query |-> IF query[q].via = c THEN NoRequest ELSE query[q]]
    /\ UNCHANGED <<pointer, event, verified, movers>>

----------------------------------------------------------------------------
(* Fenced reads *)

\* capture_read_context; a request before the first save is answered unavailable.
Capture(c, q) ==
    /\ Idle(c) /\ query[q].at = "idle"
    /\ Loaded(c).status # "pending"
    /\ Refresh(c)
    /\ query' = [query EXCEPT ![q] = [at |-> "reading", via |-> c, context |-> ContextOf(Loaded(c)), changes |-> 0]]
    /\ UNCHANGED <<pointer, owed, event, verified, movers>>

StillActive_Revision(q) == query[q].context.revision = ContextOf(Loaded(query[q].via)).revision

StillActive(q) == query[q].context = ContextOf(Loaded(query[q].via))

\* assert_read_context, after the services have been awaited.
Answer(q) ==
    /\ query[q].at = "reading" /\ Idle(query[q].via)
    /\ Refresh(query[q].via)
    /\ query' = [query EXCEPT ![q].at = IF StillActive(q) THEN "answered" ELSE "rejected"]
    /\ UNCHANGED <<pointer, owed, event, verified, movers>>

Done(q) ==
    /\ query[q].at \in {"answered", "rejected"}
    /\ query' = [query EXCEPT ![q] = NoRequest]
    /\ UNCHANGED <<pointer, cache, owed, event, verified, movers>>

\* assert_revision changes nothing but the copy.
AssertRevision(c) ==
    /\ Idle(c)
    /\ Refresh(c)
    /\ UNCHANGED <<pointer, owed, event, query, verified, movers>>

----------------------------------------------------------------------------

Operate(c) ==
    \/ \E i \in Installation, b \in Proposal : Prepare(c, i, b[1], b[2])
    \/ MarkDrained(c) \/ Verify(c) \/ Activate(c) \/ Rollback(c)

Next ==
    \/ \E c \in Operator : Operate(c)
    \/ \E c \in Controller : AppendEvent(c) \/ EventFails(c) \/ Restart(c) \/ AssertRevision(c)
    \/ \E c \in Controller, q \in Query : Capture(c, q)
    \/ \E q \in Query : Answer(q) \/ Done(q)

Spec == Init /\ [][Next]_vars

----------------------------------------------------------------------------

\* Every variable has its type.
TypeOK ==
    /\ pointer \in Pointer
    /\ cache \in [Controller -> Pointer]
    /\ owed \in [Controller -> Event \cup {None}]
    /\ event \in Event \cup {None}
    /\ query \in [Query -> Request]
    /\ verified \subseteq (Installation \X Manifest \X Manifest)
    /\ movers \subseteq Controller

\* handle returns an answer only if the bundle that was active when the services
\* were asked is the one they answer for: a single switch or rollback of the
\* pointer meanwhile, by any process, is always noticed (assert_read_context).
OneChangeIsRejected == \A q \in Query : query[q].at = "answered" => query[q].changes # 1

\* test_rest_read_is_rejected_when_active_pointer_changes_mid_request: no answer
\* is returned for a request during which the pointer changed.
ChangeIsRejected == \A q \in Query : query[q].at = "answered" => query[q].changes = 0

\* Whatever row a controller with an old copy overwrites, the pointer selects a
\* candidate only of a bundle that some controller has verified (activate).
ActiveWasVerified == pointer.status = "activated" => Bundle(pointer) \in verified

\* The one bundle that is selected, and the requests without what they went through.
Selected == IF pointer.status = "pending" THEN NoContext ELSE ContextOf(pointer)

Reads == [q \in Query |-> [at |-> query[q].at, context |-> query[q].context]]

Fence == INSTANCE ReadFence WITH selected <- Selected, reads <- Reads

\* Whatever copies the processes hold, and whoever overwrites the row, a request is
\* answered if and only if the bundle it was captured under is the one selected when its
\* answer is asserted (capture_read_context, assert_read_context).
ReadsAreFenced == Fence!FenceSpec

(* The strengthening *)

\* A copy comes from the row.
CopiesFollow == pointer = Pending => \A c \in Controller : cache[c] = Pending

\* The row and the copies that can become it are verified where they say so.
VerifiedRows ==
    /\ ActiveWasVerified
    /\ pointer.status = "verified" => Bundle(pointer) \in verified
    /\ \A c \in Controller : cache[c].status \in {"verified", "activated"} => Bundle(cache[c]) \in verified

\* The first change leaves the context of a request, the next may come back to it.
ReadsTrack ==
    \A q \in Query : query[q].at = "reading" =>
        /\ query[q].via \in Controller
        /\ pointer # Pending
        /\ query[q].changes = 0 => query[q].context = ContextOf(pointer)
        /\ query[q].changes = 1 => query[q].context # ContextOf(pointer)

\* Who alone has moved the pointer has it as its copy.
MoverIsCurrent == \A c \in Controller : movers = {c} => cache[c] = pointer

NobodyHasMoved == movers = {} => pointer = Pending

IInv == TypeOK /\ CopiesFollow /\ VerifiedRows /\ ReadsTrack /\ OneChangeIsRejected /\ MoverIsCurrent /\ NobodyHasMoved

Successor ==
    [status \in Status |->
        CASE status \in {"pending", "rolled_back"} -> {"prepared"}
          [] status = "prepared" -> {"drained", "rolled_back"}
          [] status = "drained" -> {"verified", "rolled_back"}
          [] status = "verified" -> {"activated", "rolled_back"}
          [] status = "activated" -> {"rolled_back"}]

\* As long as one controller alone moves the pointer, over its restarts and beside any
\* readers, the row goes along the chain, and only prepare changes the bundle; after a
\* rollback nothing else follows.
PointerIsLawful ==
    [][ (\E c \in Controller : movers' = {c}) =>
            /\ pointer'.status \in Successor[pointer.status]
            /\ pointer'.status # "prepared" => Bundle(pointer') = Bundle(pointer) ]_pointer
=============================================================================
