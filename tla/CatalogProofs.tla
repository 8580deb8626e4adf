---------------------------- MODULE CatalogProofs ----------------------------
(***************************************************************************)
(* Theorems about the two sides of the Catalog's tables: the pointer that  *)
(* selects what is read (DeploymentFence), for any number of controllers,  *)
(* requests and bundles, and the connector syncs that bring what is stored *)
(* (FeishuSync), for any number of processes, runs and items.              *)
(***************************************************************************)
EXTENDS DeploymentFence, FeishuSync, TLAPS

----------------------------------------------------------------------------
(* The deployment pointer.  Whatever moves it saves a row whose bundle is  *)
(* verified where the row says so (MoveSaves), and a save takes every      *)
(* request in flight away from its context at the first change (SaveStep). *)

(* The bundle of a copy in another status is a row.                        *)
LEMMA AdvancedIsRow ==
    ASSUME TypeOK, NEW c \in Controller, cache[c].status # "pending", NEW s \in Status \ {"pending"}
    PROVE  /\ Advanced(c, s) \in Row
           /\ Advanced(c, s).status = s
           /\ Bundle(Advanced(c, s)) = Bundle(cache[c])
<1>1. cache[c] \in Row
  BY DEF TypeOK, Pointer, Pending
<1>2. RevisionOf[IF s = "activated" THEN cache[c].candidate ELSE cache[c].legacy] \in Revision
  BY <1>1, FenceAssumption DEF Row
<1> QED
  BY <1>1, <1>2 DEF Advanced, Row, Bundle

(* Every operation that moves the pointer is a save of a row that is       *)
(* verified where it says so.                                              *)
LEMMA MoveSaves ==
    ASSUME TypeOK, VerifiedRows, NEW c \in Controller, Operate(c)
    PROVE  \E p \in Row : /\ Save(c, p)
                          /\ p.status \in {"verified", "activated"} => Bundle(p) \in verified'
                          /\ verified \subseteq verified'
                          /\ verified' \subseteq (Installation \X Manifest \X Manifest)
<1>0. verified \subseteq (Installation \X Manifest \X Manifest)
  BY DEF TypeOK
<1>1. ASSUME NEW i \in Installation, NEW b \in Proposal, Prepare(c, i, b[1], b[2])
      PROVE  \E p \in Row : /\ Save(c, p)
                            /\ p.status \in {"verified", "activated"} => Bundle(p) \in verified'
                            /\ verified \subseteq verified'
                            /\ verified' \subseteq (Installation \X Manifest \X Manifest)
  <2>1. b[1] \in Manifest /\ b[2] \in Manifest /\ RevisionOf[b[1]] \in Revision
    BY FenceAssumption
  <2>2. [status |-> "prepared", installation |-> i, legacy |-> b[1],
         candidate |-> b[2], active |-> RevisionOf[b[1]]] \in Row
    BY <2>1 DEF Row, Status
  <2> QED
    BY <1>0, <1>1, <2>2 DEF Prepare
<1>2. CASE MarkDrained(c)
  <2>1. Advanced(c, "drained") \in Row /\ Advanced(c, "drained").status = "drained"
    BY <1>2, AdvancedIsRow DEF MarkDrained, Status
  <2> QED
    BY <1>0, <1>2, <2>1 DEF MarkDrained
<1>3. CASE Verify(c)
  <2>1. Advanced(c, "verified") \in Row /\ Bundle(Advanced(c, "verified")) = Bundle(cache[c])
    BY <1>3, AdvancedIsRow DEF Verify, Status
  <2>2. Bundle(cache[c]) \in Installation \X Manifest \X Manifest
    BY <2>1 DEF Row, Bundle
  <2> QED
    BY <1>0, <1>3, <2>1, <2>2 DEF Verify
<1>4. CASE Activate(c)
  <2>1. Advanced(c, "activated") \in Row /\ Bundle(Advanced(c, "activated")) = Bundle(cache[c])
    BY <1>4, AdvancedIsRow DEF Activate, Activatable, Status
  <2>2. Bundle(cache[c]) \in verified
    BY <1>4 DEF Activate, Activatable, VerifiedRows
  <2> QED
    BY <1>0, <1>4, <2>1, <2>2 DEF Activate
<1>5. CASE Rollback(c)
  <2>1. Advanced(c, "rolled_back") \in Row /\ Advanced(c, "rolled_back").status = "rolled_back"
    BY <1>5, AdvancedIsRow DEF Rollback, Status
  <2> QED
    BY <1>0, <1>5, <2>1 DEF Rollback
<1> QED
  BY <1>1, <1>2, <1>3, <1>4, <1>5 DEF Operate

LEMMA InitInvariant == Init => IInv
<1> SUFFICES ASSUME Init PROVE IInv
  OBVIOUS
<1>1. TypeOK
  BY DEF Init, TypeOK, Pointer, Request, NoRequest, Event
<1>2. CopiesFollow /\ ReadsTrack /\ OneChangeIsRejected /\ MoverIsCurrent /\ NobodyHasMoved
  BY DEF Init, CopiesFollow, ReadsTrack, OneChangeIsRejected, NoRequest, MoverIsCurrent, NobodyHasMoved
<1>3. VerifiedRows
  BY DEF Init, VerifiedRows, ActiveWasVerified, Pending
<1> QED
  BY <1>1, <1>2, <1>3 DEF IInv

(* A save keeps the types: a request in flight is at most marked.          *)
LEMMA SaveType ==
    ASSUME IInv, NEW c \in Controller, NEW p \in Row, Save(c, p)
    PROVE  /\ pointer' \in Pointer
           /\ cache' \in [Controller -> Pointer]
           /\ owed' \in [Controller -> Event \cup {None}]
           /\ event' \in Event \cup {None}
           /\ query' \in [Query -> Request]
           /\ movers' \subseteq Controller
<1>0. /\ cache \in [Controller -> Pointer] /\ owed \in [Controller -> Event \cup {None}]
      /\ event \in Event \cup {None} /\ query \in [Query -> Request]
      /\ movers \subseteq Controller
  BY DEF IInv, TypeOK
<1>1. [status |-> p.status, active |-> p.active] \in Event
  BY DEF Row, Event
<1>2. ASSUME NEW q \in Query, query[q].changes < 2
      PROVE  [query[q] EXCEPT !.changes = @ + 1] \in Request
  <2>1. query[q] \in Request /\ query[q].changes + 1 \in 0 .. 2
    BY <1>0, <1>2 DEF Request
  <2> QED
    BY <2>1 DEF Request
<1>3. query' \in [Query -> Request]
  BY <1>0, <1>2 DEF Save, Noted
<1> QED
  BY <1>0, <1>1, <1>3 DEF Save, Pointer

(* What a save does to a request: nothing to one that is not in flight.    *)
LEMMA SaveMarks ==
    ASSUME IInv, NEW c \in Controller, NEW p \in Row, Save(c, p), NEW q \in Query
    PROVE  /\ query'[q].at = query[q].at
           /\ query'[q].via = query[q].via
           /\ query'[q].context = query[q].context
           /\ query'[q].changes = IF query[q].at = "reading" /\ query[q].changes < 2 /\ Changed(p)
                                  THEN query[q].changes + 1 ELSE query[q].changes
<1>1. query[q] \in Request
  BY DEF IInv, TypeOK
<1>2. query'[q] = IF query[q].at = "reading" /\ query[q].changes < 2 /\ Changed(p)
                  THEN [query[q] EXCEPT !.changes = @ + 1] ELSE query[q]
  BY DEF Save, Noted
<1> QED
  BY <1>1, <1>2 DEF Request

(* A save keeps the reads on their track, and so the whole invariant.      *)
LEMMA SaveStep ==
    ASSUME IInv, NEW c \in Controller, NEW p \in Row, Save(c, p),
           p.status \in {"verified", "activated"} => Bundle(p) \in verified',
           verified \subseteq verified',
           verified' \subseteq (Installation \X Manifest \X Manifest)
    PROVE  IInv'
<1>1. TypeOK'
  BY SaveType DEF TypeOK
<1>2. CopiesFollow'
  BY DEF CopiesFollow, Save, Row, Pending
<1>3. VerifiedRows'
  BY DEF VerifiedRows, ActiveWasVerified, Save, IInv, TypeOK
<1>4. ReadsTrack'
  <2> SUFFICES ASSUME NEW q \in Query, query'[q].at = "reading"
               PROVE  /\ query'[q].via \in Controller
                      /\ pointer' # Pending
                      /\ query'[q].changes = 0 => query'[q].context = ContextOf(pointer')
                      /\ query'[q].changes = 1 => query'[q].context # ContextOf(pointer')
    BY DEF ReadsTrack, ContextOf, Active
  <2>1. /\ query[q].at = "reading" /\ query[q].via \in Controller /\ pointer # Pending
        /\ query[q].changes = 0 => query[q].context = ContextOf(pointer)
        /\ query[q].changes = 1 => query[q].context # ContextOf(pointer)
        /\ query[q].changes \in 0 .. 2
    BY SaveMarks DEF IInv, ReadsTrack, TypeOK, Request
  <2>2. pointer.status # "pending"
    BY <2>1 DEF IInv, TypeOK, Pointer, Row
  <2>3. pointer' = p /\ p # Pending
    BY DEF Save, Row, Pending
  <2>4. CASE ContextOf(p) = ContextOf(pointer)
    BY <2>1, <2>2, <2>3, <2>4, SaveMarks DEF Changed
  <2>5. CASE ContextOf(p) # ContextOf(pointer)
    BY <2>1, <2>2, <2>3, <2>5, SaveMarks DEF Changed
  <2> QED
    BY <2>4, <2>5
<1>5. OneChangeIsRejected'
  BY SaveMarks DEF IInv, OneChangeIsRejected
<1>6. MoverIsCurrent' /\ NobodyHasMoved'
  <2>1. /\ cache' = [cache EXCEPT ![c] = p] /\ pointer' = p /\ movers' = movers \cup {c}
        /\ cache \in [Controller -> Pointer]
    BY DEF Save, IInv, TypeOK
  <2> QED
    BY <2>1 DEF MoverIsCurrent, NobodyHasMoved
<1> QED
  BY <1>1, <1>2, <1>3, <1>4, <1>5, <1>6 DEF IInv

(* A refresh keeps the copies: what it loads is the row, or nothing is     *)
(* there yet and the copy is as empty.                                     *)
LEMMA LoadedIsPointer == ASSUME IInv, NEW c \in Controller PROVE Loaded(c) = pointer
<1>1. pointer \in Pointer /\ (pointer = Pending => cache[c] = Pending)
  BY DEF IInv, TypeOK, CopiesFollow
<1> QED
  BY <1>1 DEF Loaded, Pointer, Row

LEMMA RefreshStep ==
    ASSUME IInv, NEW c \in Controller, cache' = [cache EXCEPT ![c] = pointer], UNCHANGED <<pointer, verified, movers>>
    PROVE  /\ cache' \in [Controller -> Pointer]
           /\ CopiesFollow'
           /\ VerifiedRows'
           /\ MoverIsCurrent' /\ NobodyHasMoved'
<1>1. pointer \in Pointer /\ cache \in [Controller -> Pointer]
  BY DEF IInv, TypeOK
<1>2. CopiesFollow'
  BY <1>1 DEF IInv, CopiesFollow
<1>3. VerifiedRows'
  BY <1>1 DEF IInv, VerifiedRows, ActiveWasVerified, Bundle
<1>4. MoverIsCurrent' /\ NobodyHasMoved'
  BY <1>1 DEF IInv, MoverIsCurrent, NobodyHasMoved
<1> QED
  BY <1>1, <1>2, <1>3, <1>4

(* A captured context is that of the row, and an answer is given for it.   *)
LEMMA CaptureStep == ASSUME IInv, NEW c \in Controller, NEW q \in Query, Capture(c, q) PROVE IInv'
<1>0. /\ pointer \in Row /\ Loaded(c) = pointer
      /\ cache' = [cache EXCEPT ![c] = pointer]
      /\ UNCHANGED <<pointer, owed, event, verified, movers>>
      /\ query' = [query EXCEPT ![q] = [at |-> "reading", via |-> c, context |-> ContextOf(pointer), changes |-> 0]]
  <2>1. Loaded(c) = pointer /\ pointer \in Pointer
    BY LoadedIsPointer DEF IInv, TypeOK
  <2>2. pointer \in Row
    BY <2>1 DEF Capture, Pointer, Pending
  <2> QED
    BY <2>1, <2>2 DEF Capture, Refresh
<1>1. Active(pointer) \in Manifest /\ ContextOf(pointer) \in Context
  BY <1>0, FenceAssumption DEF ContextOf, Active, Context, Row
<1>2. query' \in [Query -> Request]
  <2>1. [at |-> "reading", via |-> c, context |-> ContextOf(pointer), changes |-> 0] \in Request
    BY <1>1 DEF Request
  <2> QED
    BY <1>0, <2>1 DEF IInv, TypeOK
<1>3. TypeOK' /\ CopiesFollow' /\ VerifiedRows' /\ MoverIsCurrent' /\ NobodyHasMoved'
  BY <1>0, <1>2, RefreshStep DEF IInv, TypeOK
<1>4. ReadsTrack'
  BY <1>0 DEF IInv, TypeOK, ReadsTrack, ContextOf, Active, Row, Pending
<1>5. OneChangeIsRejected'
  BY <1>0 DEF IInv, TypeOK, OneChangeIsRejected
<1> QED
  BY <1>3, <1>4, <1>5 DEF IInv

LEMMA AnswerStep == ASSUME IInv, NEW q \in Query, Answer(q) PROVE IInv'
<1> DEFINE c == query[q].via
<1>0. /\ query[q].at = "reading" /\ c \in Controller
      /\ query[q].changes = 1 => query[q].context # ContextOf(pointer)
      /\ query \in [Query -> Request]
  BY DEF Answer, IInv, TypeOK, ReadsTrack
<1>1. /\ Loaded(c) = pointer /\ cache' = [cache EXCEPT ![c] = pointer]
      /\ UNCHANGED <<pointer, owed, event, verified, movers>>
      /\ query' = [query EXCEPT ![q].at = IF StillActive(q) THEN "answered" ELSE "rejected"]
  BY <1>0, LoadedIsPointer DEF Answer, Refresh
<1>2. query[q].changes = 1 => ~StillActive(q)
  BY <1>0, <1>1 DEF StillActive
<1>3. TypeOK' /\ CopiesFollow' /\ VerifiedRows' /\ MoverIsCurrent' /\ NobodyHasMoved'
  <2>1. query' \in [Query -> Request]
    BY <1>0, <1>1 DEF Request
  <2> QED
    BY <1>0, <1>1, <2>1, RefreshStep DEF IInv, TypeOK
<1>4. ReadsTrack'
  BY <1>0, <1>1 DEF IInv, ReadsTrack, ContextOf, Active, Request
<1>5. OneChangeIsRejected'
  BY <1>0, <1>1, <1>2 DEF IInv, OneChangeIsRejected, Request
<1> QED
  BY <1>3, <1>4, <1>5 DEF IInv

LEMMA InvariantStep == IInv /\ [Next]_vars => IInv'
<1> SUFFICES ASSUME IInv, [Next]_vars PROVE IInv'
  OBVIOUS
<1>1. ASSUME NEW c \in Operator, Operate(c) PROVE IInv'
  <2>1. c \in Controller
    BY FenceAssumption
  <2>2. PICK p \in Row : /\ Save(c, p)
                         /\ p.status \in {"verified", "activated"} => Bundle(p) \in verified'
                         /\ verified \subseteq verified'
                         /\ verified' \subseteq (Installation \X Manifest \X Manifest)
    BY <1>1, <2>1, MoveSaves DEF IInv
  <2> QED
    BY <2>1, <2>2, SaveStep
<1>2. ASSUME NEW c \in Controller, AppendEvent(c) \/ EventFails(c) PROVE IInv'
  <2>1. TypeOK'
    BY <1>2 DEF AppendEvent, EventFails, IInv, TypeOK
  <2> QED
    BY <1>2, <2>1 DEF AppendEvent, EventFails, IInv, CopiesFollow, VerifiedRows, ActiveWasVerified,
                      ReadsTrack, OneChangeIsRejected, ContextOf, Active, Bundle, MoverIsCurrent, NobodyHasMoved
<1>3. ASSUME NEW c \in Controller, Restart(c) PROVE IInv'
  <2>1. CopiesFollow' /\ VerifiedRows' /\ MoverIsCurrent' /\ NobodyHasMoved' /\ cache' \in [Controller -> Pointer]
    BY <1>3, RefreshStep DEF Restart, Reloaded
  <2>2. NoRequest \in Request
    BY DEF NoRequest, Request
  <2>3. TypeOK'
    BY <1>3, <2>1, <2>2 DEF Restart, IInv, TypeOK
  <2> QED
    BY <1>3, <2>1, <2>3 DEF Restart, IInv, ReadsTrack, OneChangeIsRejected, ContextOf, Active, NoRequest
<1>4. ASSUME NEW c \in Controller, AssertRevision(c) PROVE IInv'
  <2>1. cache' = [cache EXCEPT ![c] = pointer] /\ UNCHANGED <<pointer, owed, event, query, verified, movers>>
    BY <1>4, LoadedIsPointer DEF AssertRevision, Refresh
  <2> QED
    BY <2>1, RefreshStep DEF IInv, TypeOK, ReadsTrack, OneChangeIsRejected, ContextOf, Active
<1>5. ASSUME NEW c \in Controller, NEW q \in Query, Capture(c, q) PROVE IInv'
  BY <1>5, CaptureStep
<1>6. ASSUME NEW q \in Query, Answer(q) PROVE IInv'
  BY <1>6, AnswerStep
<1>7. ASSUME NEW q \in Query, Done(q) PROVE IInv'
  <2>1. NoRequest \in Request
    BY DEF NoRequest, Request
  <2>2. TypeOK'
    BY <1>7, <2>1 DEF Done, IInv, TypeOK
  <2> QED
    BY <1>7, <2>2 DEF Done, IInv, TypeOK, CopiesFollow, VerifiedRows, ActiveWasVerified,
                      ReadsTrack, OneChangeIsRejected, ContextOf, Active, Bundle, MoverIsCurrent, NobodyHasMoved, NoRequest
<1>8. CASE UNCHANGED vars
  BY <1>8 DEF vars, IInv, TypeOK, CopiesFollow, VerifiedRows, ActiveWasVerified,
              ReadsTrack, OneChangeIsRejected, ContextOf, Active, Bundle, MoverIsCurrent, NobodyHasMoved
<1> QED
  BY <1>1, <1>2, <1>3, <1>4, <1>5, <1>6, <1>7, <1>8 DEF Next

THEOREM Inductive == Spec => []IInv
BY InitInvariant, InvariantStep, PTL DEF Spec

(* The row, the copies and the requests have their types.                  *)
THEOREM TypeCorrect == Spec => []TypeOK
<1>1. IInv => TypeOK
  BY DEF IInv
<1> QED
  BY <1>1, Inductive, PTL

(* For any number of processes and requests: a single change of the        *)
(* pointer during a request is noticed (query_adapters.py, lines 151-161). *)
THEOREM ChangeIsNoticed == Spec => []OneChangeIsRejected
<1>1. IInv => OneChangeIsRejected
  BY DEF IInv
<1> QED
  BY <1>1, Inductive, PTL

(* For any number of operators with old copies: what is active has been    *)
(* verified (deployment.py, lines 257-312).                                *)
THEOREM OnlyVerifiedIsActive == Spec => []ActiveWasVerified
<1>1. IInv => ActiveWasVerified
  BY DEF IInv, VerifiedRows
<1> QED
  BY <1>1, Inductive, PTL

(* What a step of the only controller that has moved the pointer does to   *)
(* the row.                                                                *)
LEMMA LawfulStep == IInv /\ [Next]_vars =>
    [(\E c \in Controller : movers' = {c}) =>
        /\ pointer'.status \in Successor[pointer.status]
        /\ pointer'.status # "prepared" => Bundle(pointer') = Bundle(pointer)]_pointer
<1> SUFFICES ASSUME IInv, [Next]_vars, pointer' # pointer, NEW d \in Controller, movers' = {d}
             PROVE  /\ pointer'.status \in Successor[pointer.status]
                    /\ pointer'.status # "prepared" => Bundle(pointer') = Bundle(pointer)
  OBVIOUS
<1>1. PICK c \in Operator : Operate(c)
  BY DEF Next, AppendEvent, EventFails, Restart, AssertRevision, Capture, Answer, Done, vars
<1>2. cache[c] = pointer /\ c \in Controller /\ TypeOK /\ pointer.status \in Status
  <2>1. c \in Controller
    BY FenceAssumption
  <2>2. movers' = movers \cup {c}
    BY <1>1, <2>1, MoveSaves DEF IInv, Save
  <2>3. movers = {c} \/ movers = {}
    BY <2>2
  <2>4. cache[c] = pointer
    BY <2>1, <2>3 DEF IInv, MoverIsCurrent, NobodyHasMoved, CopiesFollow
  <2> QED
    BY <2>1, <2>4 DEF IInv, TypeOK, Pointer, Row, Pending, Status
<1>3. ASSUME NEW s \in Status \ {"pending"}, pointer.status # "pending", Save(c, Advanced(c, s))
      PROVE  pointer'.status = s /\ Bundle(pointer') = Bundle(pointer)
  <2>1. pointer' = Advanced(c, s)
    BY <1>3 DEF Save
  <2> QED
    BY <1>2, <1>3, <2>1, AdvancedIsRow DEF Bundle
<1>4. CASE \E i \in Installation, b \in Proposal : Prepare(c, i, b[1], b[2])
  BY <1>2, <1>4 DEF Prepare, Save, Successor
<1>5. CASE MarkDrained(c)
  BY <1>2, <1>3, <1>5 DEF MarkDrained, Successor, Status
<1>6. CASE Verify(c)
  BY <1>2, <1>3, <1>6 DEF Verify, Successor, Status
<1>7. CASE Activate(c)
  BY <1>2, <1>3, <1>7 DEF Activate, Activatable, Successor, Status
<1>8. CASE Rollback(c)
  BY <1>2, <1>3, <1>8 DEF Rollback, Successor, Status
<1> QED
  BY <1>1, <1>4, <1>5, <1>6, <1>7, <1>8 DEF Operate

(* As long as one controller alone moves the pointer, over every restart   *)
(* and beside any number of readers, the row moves along the chain         *)
(* (deployment.py, lines 191-371).                                         *)
THEOREM ChainIsKept == Spec => PointerIsLawful
BY Inductive, LawfulStep, PTL DEF Spec, PointerIsLawful

(* The abstract fence.  Its context is that of the row, which is what every *)
(* copy a read looks at has been refreshed to (LoadedIsPointer).            *)
LEMMA SelectedIsContext ==
    ASSUME IInv, pointer # Pending
    PROVE  pointer \in Row /\ Selected = ContextOf(pointer) /\ Selected \in Context /\ Selected # NoContext
<1>1. pointer \in Row
  BY DEF IInv, TypeOK, Pointer
<1>2. Selected = ContextOf(pointer)
  BY <1>1 DEF Selected, Row
<1>3. ContextOf(pointer) \in Context
  BY <1>1, FenceAssumption DEF ContextOf, Active, Context, Row
<1>4. ContextOf(pointer).installation \in Installation /\ NoContext.installation \notin Installation
  BY <1>3, FenceAssumption DEF Context, NoContext
<1> QED
  BY <1>1, <1>2, <1>3, <1>4

LEMMA ReadAt ==
    ASSUME NEW q \in Query
    PROVE  Reads[q].at = query[q].at /\ Reads[q].context = query[q].context
  BY DEF Reads

(* A save selects a bundle, and takes nothing from the reads but counts.    *)
LEMMA SaveSelects ==
    ASSUME IInv, IInv', NEW c \in Controller, NEW p \in Row, Save(c, p)
    PROVE  Fence!Select
<1>1. pointer' = p /\ p # Pending
  BY DEF Save, Row, Pending
<1>2. Selected' \in Context
  BY <1>1, FenceAssumption DEF Selected, ContextOf, Active, Context, Row
<1>3. \A q \in Query : query'[q].at = query[q].at /\ query'[q].context = query[q].context
  BY SaveMarks
<1>4. UNCHANGED Reads
  BY <1>3 DEF Reads
<1> QED
  BY <1>2, <1>4 DEF Fence!Select

LEMMA CaptureBegins ==
    ASSUME IInv, NEW c \in Controller, NEW q \in Query, Capture(c, q)
    PROVE  Fence!Begin(q)
<1>1. Loaded(c) = pointer /\ pointer # Pending /\ query \in [Query -> Request] /\ query[q].at = "idle"
  BY LoadedIsPointer DEF Capture, Pending, IInv, TypeOK
<1>2. Selected = ContextOf(pointer) /\ Selected # NoContext
  BY <1>1, SelectedIsContext
<1>3. query' = [query EXCEPT ![q] = [at |-> "reading", via |-> c, context |-> Selected, changes |-> 0]] /\ UNCHANGED pointer
  BY <1>1, <1>2 DEF Capture
<1>4. Reads' = [Reads EXCEPT ![q] = [at |-> "reading", context |-> Selected]]
  BY <1>1, <1>3 DEF Reads
<1>5. UNCHANGED Selected
  BY <1>3 DEF Selected, ContextOf, Active
<1> QED
  BY <1>1, <1>2, <1>4, <1>5, ReadAt DEF Fence!Begin

LEMMA AnswerEnds ==
    ASSUME IInv, NEW q \in Query, Answer(q)
    PROVE  Fence!End(q)
<1>1. /\ query \in [Query -> Request] /\ query[q] \in Request /\ query[q].at = "reading"
      /\ query[q].via \in Controller /\ pointer # Pending /\ UNCHANGED pointer
  BY DEF Answer, IInv, TypeOK, ReadsTrack
<1>2. StillActive(q) <=> query[q].context = Selected
  BY <1>1, LoadedIsPointer, SelectedIsContext DEF StillActive
<1> DEFINE outcome == IF query[q].context = Selected THEN "answered" ELSE "rejected"
<1>3. query' = [query EXCEPT ![q].at = outcome]
  BY <1>2 DEF Answer
<1> HIDE DEF outcome
<1>4. /\ query'[q].at = outcome /\ query'[q].context = query[q].context
      /\ \A r \in Query \ {q} : query'[r] = query[r]
  BY <1>1, <1>3 DEF Request
<1>5. Reads' = [Reads EXCEPT ![q] = [at |-> outcome, context |-> Reads[q].context]]
  BY <1>4, ReadAt DEF Reads
<1>6. UNCHANGED Selected
  BY <1>1 DEF Selected, ContextOf, Active
<1>7. outcome = IF Reads[q].context = Selected THEN "answered" ELSE "rejected"
  BY ReadAt DEF outcome
<1> QED
  BY <1>1, <1>5, <1>6, <1>7, ReadAt DEF Fence!End

(* A request that is over, or was made through a process that has ended.    *)
LEMMA RequestsDrop ==
    ASSUME NEW over \in SUBSET Query, UNCHANGED pointer,
           query' = [q \in Query |-> IF q \in over THEN NoRequest ELSE query[q]]
    PROVE  Fence!Drop(over)
<1>1. Reads' = [q \in Query |-> IF q \in over THEN Fence!NoRead ELSE Reads[q]]
  BY DEF Reads, NoRequest, Fence!NoRead
<1>2. UNCHANGED Selected
  BY DEF Selected, ContextOf, Active
<1> QED
  BY <1>1, <1>2 DEF Fence!Drop

LEMMA FenceStep == IInv /\ IInv' /\ [Next]_vars => [Fence!FenceNext]_<<Selected, Reads>>
<1> SUFFICES ASSUME IInv, IInv', [Next]_vars PROVE Fence!FenceNext \/ UNCHANGED <<Selected, Reads>>
  OBVIOUS
<1>1. ASSUME NEW c \in Operator, Operate(c) PROVE Fence!FenceNext
  <2>1. c \in Controller
    BY FenceAssumption
  <2>2. PICK p \in Row : Save(c, p)
    BY <1>1, <2>1, MoveSaves DEF IInv
  <2> QED
    BY <2>1, <2>2, SaveSelects DEF Fence!FenceNext
<1>2. ASSUME UNCHANGED <<pointer, query>> PROVE UNCHANGED <<Selected, Reads>>
  BY <1>2 DEF Selected, ContextOf, Active, Reads
<1>3. ASSUME NEW c \in Controller, Restart(c) PROVE Fence!FenceNext
  <2>1. query' = [q \in Query |-> IF q \in {r \in Query : query[r].via = c} THEN NoRequest ELSE query[q]]
    BY <1>3 DEF Restart
  <2> QED
    BY <1>3, <2>1, RequestsDrop DEF Restart, Fence!FenceNext
<1>4. ASSUME NEW q \in Query, Done(q) PROVE Fence!FenceNext
  <2>1. query' = [r \in Query |-> IF r \in {q} THEN NoRequest ELSE query[r]]
    BY <1>4 DEF Done, IInv, TypeOK
  <2> QED
    BY <1>4, <2>1, RequestsDrop DEF Done, Fence!FenceNext
<1>5. ASSUME NEW c \in Controller, NEW q \in Query, Capture(c, q) PROVE Fence!FenceNext
  BY <1>5, CaptureBegins DEF Fence!FenceNext
<1>6. ASSUME NEW q \in Query, Answer(q) PROVE Fence!FenceNext
  BY <1>6, AnswerEnds DEF Fence!FenceNext
<1> QED
  BY <1>1, <1>2, <1>3, <1>4, <1>5, <1>6 DEF Next, vars, AppendEvent, EventFails, AssertRevision

LEMMA FenceInitial == Init => Fence!FenceInit
  BY DEF Init, Pending, Selected, Reads, NoRequest, Fence!FenceInit, Fence!NoRead

(* Whatever copies the processes hold and whoever overwrites the row, a     *)
(* request is answered just when the bundle it was captured under is the    *)
(* selected one (query_adapters.py, lines 151-161).                         *)
THEOREM AnswersAreCurrent == Spec => ReadsAreFenced
<1>1. IInv /\ IInv' /\ [Next]_vars => [Fence!FenceNext]_<<Selected, Reads>>
  BY FenceStep
<1> QED
  BY <1>1, Inductive, FenceInitial, PTL DEF Spec, ReadsAreFenced, Fence!FenceSpec

----------------------------------------------------------------------------
(* The syncs.  There is one call at a time (OneSync), so each action has   *)
(* to be looked at for the call it is of (OnlyCallSteps): what that holds  *)
(* is no older than its listing, and its listing is the last one.          *)

(* Null is no revision, and none of the names.                             *)
LEMMA NullIsNoNumber == Null \notin Process \cup Key \cup Item \cup Config \cup Nat /\ MaxVersion \in Nat /\ MaxLists \in Nat
  BY SyncAssumption

(* What a process is that has no call.                                     *)
LEMMA NoSyncIsCall == NoSync \in Call /\ NoSync.at = "idle"
  BY NullIsNoNumber DEF NoSync, Call, NotFetched

(* The row of a publication, and that of a deletion.                       *)
LEMMA PublishedIsRow ==
    ASSUME SyncTypeOK, NEW p \in Process, NEW i \in Item, NEW asset \in Version
    PROVE  Published(p, i, asset) \in ItemRow
  BY DEF SyncTypeOK, Published, ItemRow, Call

LEMMA DeletedIsRow ==
    ASSUME SyncTypeOK, NEW p \in Process, NEW i \in Item
    PROVE  Deleted(p, i) \in ItemRow
<1>1. items[i] \in ItemRow /\ sync[p] \in Call
  BY DEF SyncTypeOK
<1> QED
  BY <1>1 DEF Deleted, ItemRow, Call

(* The item a call works on is one it has listed and is not done with.     *)
LEMMA ItemInHand ==
    ASSUME SyncTypeOK, CallsFollow, NEW p \in Process, sync[p].at \in {"fetching", "publishing"}
    PROVE  /\ sync[p] \in Call /\ CallFollows(p)
           /\ sync[p].item \in sync[p].todo /\ sync[p].item \in sync[p].listing /\ sync[p].item \in Item
<1>1. sync[p] \in Call /\ CallFollows(p)
  BY DEF SyncTypeOK, CallsFollow
<1>2. sync[p].item \in sync[p].todo /\ sync[p].todo \subseteq sync[p].listing
  BY <1>1 DEF CallFollows, HoldsItem, DoneIsStored
<1>3. sync[p].listing \subseteq Item
  BY <1>1 DEF Call
<1> QED
  BY <1>1, <1>2, <1>3

(* Each step keeps the types.                                              *)
LEMMA SyncTypeStep ==
    ASSUME SyncTypeOK, CallsFollow, [SyncNext]_syncVars
    PROVE  SyncTypeOK'
<1> USE DEF SyncTypeOK
<1>1. CASE UNCHANGED syncVars
  BY <1>1 DEF syncVars
<1>2. ASSUME NEW i \in Item, Edit(i) \/ List(i) PROVE SyncTypeOK'
  <2>1. remote[i] \in [listed : BOOLEAN, version : Version]
    OBVIOUS
  <2>2. CASE Edit(i)
    <3>1. remote[i].version + 1 \in Version
      BY <2>1, <2>2, NullIsNoNumber DEF Edit, Version
    <3>2. [remote[i] EXCEPT !.version = @ + 1] \in [listed : BOOLEAN, version : Version]
      BY <2>1, <3>1
    <3> QED
      BY <2>2, <3>2 DEF Edit
  <2>3. CASE List(i)
    <3>1. [remote[i] EXCEPT !.listed = ~@] \in [listed : BOOLEAN, version : Version]
      BY <2>1
    <3> QED
      BY <2>3, <3>1 DEF List
  <2> QED
    BY <1>2, <2>2, <2>3
<1>3. ASSUME NEW c \in Config, Configure(c) PROVE SyncTypeOK'
  BY <1>3 DEF Configure
<1>4. ASSUME NEW p \in Process, NEW k \in Key, NEW m \in Mode, Claim(p, k, m) PROVE SyncTypeOK'
  <2>1. [NoSync EXCEPT !.at = "discovering", !.key = k, !.mode = m, !.config = config] \in Call
    BY NoSyncIsCall DEF Call, Working
  <2>2. [status |-> "running", owner |-> p, config |-> config, mode |-> m] \in RunRow
    BY DEF RunRow
  <2> QED
    BY <1>4, <2>1, <2>2 DEF Claim
<1>5. ASSUME NEW p \in Process, NEW i \in Item, ReadItem(p, i) PROVE SyncTypeOK'
  <2>1. sync[p] \in Call /\ items[i].asset \in Version \cup {Null}
    BY DEF ItemRow
  <2>2. sync'[p] = [sync[p] EXCEPT !.at = "fetching", !.item = i, !.previous = items[i].asset,
                                   !.fast = (sync[p].mode = "incremental" /\ items[i].status = "ready")]
    BY <1>5, <2>1 DEF ReadItem, Call
  <2>3. sync'[p] \in Call
    BY <2>1, <2>2 DEF Call, Working
  <2> QED
    BY <1>5, <2>3 DEF ReadItem
<1>6. ASSUME NEW p \in Process, NEW i \in Item, FetchSchema(p, i) PROVE SyncTypeOK'
  <2>1. sync[p] \in Call
    OBVIOUS
  <2>2. sync'[p] = [sync[p] EXCEPT !.todo = @ \ {i}, !.fetched = [@ EXCEPT ![i] = remote[i].version]]
    BY <1>6, <2>1 DEF FetchSchema, Call
  <2>3. [sync[p].fetched EXCEPT ![i] = remote[i].version] \in [Item -> Version \cup {Null}]
    BY <2>1 DEF Call
  <2>4. sync'[p] \in Call
    BY <2>1, <2>2, <2>3 DEF Call
  <2> QED
    BY <1>6, <2>4 DEF FetchSchema
<1>7. ASSUME NEW p \in Process, Discover(p) PROVE SyncTypeOK'
  <2>1. lists + 1 \in 0 .. MaxLists
    BY <1>7, NullIsNoNumber DEF Discover
  <2>2. [i \in Item |-> remote[i].version] \in [Item -> Version \cup {Null}]
    OBVIOUS
  <2>3. sync[p] \in Call
    OBVIOUS
  <2>4. sync'[p] \in Call
    BY <1>7, <2>1, <2>2, <2>3 DEF Discover, Call, Working
  <2> QED
    BY <1>7, <2>1, <2>4 DEF Discover
<1>8. ASSUME NEW p \in Process, NoteDiscovery(p) \/ NoteTables(p) PROVE SyncTypeOK'
  <2>1. sync[p] \in Call
    OBVIOUS
  <2>2. PICK stage \in Working : sync'[p] = [sync[p] EXCEPT !.at = stage, !.todo = sync[p].listing]
    BY <1>8, <2>1 DEF NoteDiscovery, NoteTables, Call, Working
  <2>3. sync[p].listing \in SUBSET Item
    BY <2>1 DEF Call
  <2>4. sync'[p] \in Call
    BY <2>1, <2>2, <2>3 DEF Call
  <2> QED
    BY <1>8, <2>4 DEF NoteDiscovery, NoteTables
<1>9. ASSUME NEW p \in Process, Fetch(p) PROVE SyncTypeOK'
  <2>1. sync[p] \in Call /\ sync[p].item \in Item
    BY <1>9, ItemInHand DEF Fetch
  <2>2. sync'[p] \in Call
    BY <1>9, <2>1 DEF Fetch, Call, Working
  <2> QED
    BY <1>9, <2>2 DEF Fetch
<1>10. ASSUME NEW p \in Process, PublishItem(p) PROVE SyncTypeOK'
  <2> DEFINE i == sync[p].item
             asset == IF sync[p].fetched[i] = Null THEN items[i].asset ELSE sync[p].fetched[i]
  <2>1. sync[p] \in Call /\ i \in Item /\ (sync[p].fetched[i] = Null => sync[p].previous # Null)
    BY <1>10, ItemInHand DEF CallFollows, HoldsItem, PublishItem
  <2>2. asset \in Version
    BY <1>10, <2>1 DEF PublishItem, AssetKept, Call, ItemRow
  <2>3. Published(p, i, asset) \in ItemRow
    BY <2>1, <2>2, PublishedIsRow
  <2>4. NotFetched \in [Item -> Version \cup {Null}]
    BY DEF NotFetched
  <2> DEFINE done == [sync[p] EXCEPT !.at = "next", !.todo = @ \ {i}, !.item = Null, !.previous = Null,
                                     !.fast = FALSE, !.fetched = NotFetched]
  <2>5. done \in Call /\ sync' = [sync EXCEPT ![p] = done]
    <3>1. done \in Call
      BY <2>1, <2>4 DEF Call, Working
    <3>2. sync' = [sync EXCEPT ![p] = done]
      BY <1>10 DEF PublishItem
    <3> QED
      BY <3>1, <3>2
  <2>6. items' \in [Item -> ItemRow]
    BY <1>10, <2>3 DEF PublishItem
  <2> HIDE DEF done
  <2>7. sync' \in [Process -> Call]
    BY <2>5
  <2> QED
    BY <1>10, <2>6, <2>7 DEF PublishItem
<1>11. ASSUME NEW p \in Process, Succeed(p) PROVE runs' \in [Key -> RunRow] /\ sync' \in [Process -> Call]
                                                  /\ config' \in Config /\ remote' \in [Item -> [listed : BOOLEAN, version : Version]] /\ lists' \in 0 .. MaxLists
  <2>1. \A k \in Key : [runs[k] EXCEPT !.status = "succeeded", !.owner = Null] \in RunRow
    BY DEF RunRow
  <2> QED
    BY <1>11, <2>1, NoSyncIsCall DEF Succeed
<1>12. ASSUME NEW p \in Process, Reconcile(p) PROVE SyncTypeOK'
  <2>1. \A i \in Item : items'[i] \in ItemRow
    BY <1>12, DeletedIsRow DEF Reconcile
  <2> QED
    BY <1>11, <1>12, <2>1 DEF Reconcile
<1>13. ASSUME NEW p \in Process, PublishSchemas(p) PROVE SyncTypeOK'
  <2>1. \A i \in sync[p].listing : i \in Item /\ sync[p].fetched[i] \in Version
    BY <1>13 DEF CallsFollow, CallFollows, HoldsSchemas, PublishSchemas, Call
  <2>2. \A i \in Item : items'[i] \in ItemRow
    BY <1>13, <2>1, PublishedIsRow, DeletedIsRow DEF PublishSchemas
  <2> QED
    BY <1>11, <1>13, <2>2 DEF PublishSchemas
<1>14. ASSUME NEW p \in Process, Raise(p) PROVE SyncTypeOK'
  <2>1. sync[p] \in Call
    OBVIOUS
  <2>2. sync'[p] = [sync[p] EXCEPT !.at = "failing"]
    BY <1>14, <2>1 DEF Raise, SyncAt
  <2>3. sync'[p] \in Call
    BY <2>1, <2>2 DEF Call
  <2> QED
    BY <1>14, <2>3 DEF Raise, SyncAt
<1>15. ASSUME NEW p \in Process, Fail(p) \/ Die(p) PROVE SyncTypeOK'
  <2> DEFINE lost(k) == [runs[k] EXCEPT !.status = "failed", !.owner = Null]
  <2>1. \A k \in Key : lost(k) \in RunRow
    BY DEF RunRow
  <2>2. sync' \in [Process -> Call]
    BY <1>15, NoSyncIsCall DEF Fail, Die
  <2>3. runs' = runs \/ runs' = [runs EXCEPT ![sync[p].key] = lost(sync[p].key)]
    BY <1>15 DEF Fail, Die
  <2> HIDE DEF lost
  <2>4. runs' \in [Key -> RunRow]
    BY <2>1, <2>3
  <2> QED
    BY <1>15, <2>2, <2>4 DEF Fail, Die
<1> QED
  BY <1>1, <1>2, <1>3, <1>4, <1>5, <1>6, <1>7, <1>8, <1>9, <1>10, <1>12, <1>13, <1>14, <1>15
     DEF SyncNext, Step, Surroundings

(* A step of the one call there is, or one that ends it, leaves only what  *)
(* follows for that call to show.                                          *)
LEMMA OnlyCallSteps ==
    ASSUME OneSync, NEW p \in Process, sync[p].at # "idle",
           \A q \in Process \ {p} : sync'[q] = sync[q], CallFollows(p)'
    PROVE  OneSync' /\ CallsFollow'
<1>1. \A q \in Process \ {p} : sync[q].at = "idle"
  BY DEF OneSync
<1>2. \A q \in Process \ {p} : sync'[q].at = "idle"
  BY <1>1
<1>3. ASSUME NEW q \in Process, sync'[q].at = "idle" PROVE CallFollows(q)'
  BY <1>3 DEF CallFollows, HasItsRun, HasTheLastListing, DoneIsStored, HoldsItem, HoldsSchemas
<1> QED
  BY <1>2, <1>3 DEF OneSync, CallsFollow

(* A call that ends leaves none.                                           *)
LEMMA LastCallEnds ==
    ASSUME OneSync, NEW p \in Process, sync \in [Process -> Call], sync[p].at # "idle", sync' = [sync EXCEPT ![p] = NoSync]
    PROVE  OneSync' /\ CallsFollow'
<1>1. sync'[p].at = "idle" /\ \A q \in Process \ {p} : sync'[q] = sync[q]
  BY DEF NoSync
<1>2. CallFollows(p)'
  BY <1>1 DEF CallFollows, HasItsRun, HasTheLastListing, DoneIsStored, HoldsItem, HoldsSchemas
<1> QED
  BY <1>1, <1>2, OnlyCallSteps

(* What changes outside the sync: the remote side only gets newer, and the *)
(* binding is compared where it matters.                                   *)
LEMMA SurroundingsStep ==
    ASSUME SyncInv, Surroundings
    PROVE  OneSync' /\ ItemsAreFromRuns' /\ CallsFollow'
<1>1. /\ UNCHANGED <<runs, items, sync, lists>>
      /\ \A i \in Item : remote[i].version <= remote'[i].version /\ remote[i].version \in Nat /\ remote'[i].version \in Nat
  <2>0. \A i \in Item : remote[i] \in [listed : BOOLEAN, version : Version] /\ remote[i].version \in Nat
    BY DEF SyncInv, SyncTypeOK, Version
  <2>1. ASSUME NEW i \in Item, Edit(i) PROVE \A j \in Item : remote[j].version <= remote'[j].version /\ remote'[j].version \in Nat
    BY <2>0, <2>1 DEF Edit, SyncInv, SyncTypeOK
  <2>2. ASSUME NEW i \in Item, List(i) PROVE \A j \in Item : remote[j].version <= remote'[j].version /\ remote'[j].version \in Nat
    BY <2>0, <2>2 DEF List, SyncInv, SyncTypeOK
  <2>3. ASSUME NEW c \in Config, Configure(c) PROVE \A j \in Item : remote[j].version <= remote'[j].version /\ remote'[j].version \in Nat
    BY <2>0, <2>3 DEF Configure
  <2> QED
    BY <2>0, <2>1, <2>2, <2>3 DEF Surroundings, Edit, List, Configure
<1>2. ItemsAreFromRuns'
  BY <1>1 DEF SyncInv, ItemsAreFromRuns
<1>3. ASSUME NEW p \in Process PROVE CallFollows(p)'
  <2>0. CallFollows(p) /\ sync[p] \in Call
    BY DEF SyncInv, CallsFollow, SyncTypeOK
  <2>1. HasItsRun(p)' /\ DoneIsStored(p)'
    BY <1>1, <2>0 DEF CallFollows, HasItsRun, DoneIsStored
  <2>2. HasTheLastListing(p)'
    BY <1>1, <2>0 DEF CallFollows, HasTheLastListing
  <2>3. ASSUME NEW i \in Item, NEW stored, Fresh(p, i, stored)
        PROVE  /\ sync'[p].fetched[i] \in sync'[p].floor[i] .. remote'[i].version
               /\ Newer(sync'[p].fetched[i], stored)
    BY <1>1, <2>3 DEF Fresh
  <2>4. HoldsItem(p)'
    <3>1. sync[p].previous \in Nat \cup {Null}
      BY <2>0 DEF Call, Version
    <3>2. HoldsItem(p)
      BY <2>0 DEF CallFollows
    <3>3. sync[p].at \in {"fetching", "publishing"} => sync[p].item \in Item
      BY ItemInHand DEF SyncInv
    <3> QED
      BY <1>1, <2>3, <3>1, <3>2, <3>3 DEF HoldsItem, Fresh
  <2>5. HoldsSchemas(p)'
    BY <1>1, <2>0, <2>3 DEF CallFollows, HoldsSchemas, Fresh
  <2> QED
    BY <2>1, <2>2, <2>4, <2>5 DEF CallFollows
<1> QED
  BY <1>1, <1>2, <1>3 DEF SyncInv, OneSync, CallsFollow

(* A run that is there stays there under its binding: what is stored keeps *)
(* its run.                                                                *)
LEMMA ItemsKeepTheirRuns ==
    ASSUME SyncTypeOK, ItemsAreFromRuns, UNCHANGED <<items, remote>>, lists' \in Nat, lists <= lists',
           \A k \in Key : runs[k].status # "none" => runs'[k].status # "none" /\ runs'[k].config = runs[k].config
    PROVE  ItemsAreFromRuns'
<1>1. \A i \in Item : items[i].listed \in Nat /\ lists \in Nat
  BY DEF SyncTypeOK, ItemRow
<1> QED
  BY <1>1 DEF ItemsAreFromRuns

(* A claim starts when nobody syncs, on a run that is new or was claimed   *)
(* under the same binding.                                                 *)
LEMMA ClaimStep ==
    ASSUME SyncInv, NEW p \in Process, NEW k \in Key, NEW m \in Mode, Claim(p, k, m)
    PROVE  OneSync' /\ ItemsAreFromRuns' /\ CallsFollow'
<1>1. SyncTypeOK /\ config \in Config /\ lists \in Nat
  BY DEF SyncInv, SyncTypeOK
<1>2. /\ sync' = [sync EXCEPT ![p] = [NoSync EXCEPT !.at = "discovering", !.key = k, !.mode = m, !.config = config]]
      /\ runs' = [runs EXCEPT ![k] = [status |-> "running", owner |-> p, config |-> config, mode |-> m]]
      /\ \A q \in Process : sync[q].at = "idle"
      /\ runs[k].status = "none" \/ runs[k].config = config
      /\ UNCHANGED <<remote, items, lists>>
  BY DEF Claim, LockFree, SameRequest
<1>3. /\ sync'[p].at = "discovering" /\ sync'[p].key = k /\ sync'[p].mode = m
      /\ sync'[p].config = config /\ sync'[p].number = 0 /\ sync'[p].fetched = NotFetched
      /\ \A q \in Process \ {p} : sync'[q].at = "idle"
  BY <1>1, <1>2 DEF SyncTypeOK, NoSync
<1>4. /\ runs'[k].status = "running" /\ runs'[k].config = config
      /\ \A l \in Key \ {k} : runs'[l] = runs[l]
  BY <1>1, <1>2 DEF SyncTypeOK
<1>5. CallFollows(p)'
  BY <1>1, <1>3, <1>4 DEF CallFollows, HasItsRun, HasTheLastListing, DoneIsStored, HoldsItem, HoldsSchemas, NotFetched
<1>6. ASSUME NEW q \in Process \ {p} PROVE CallFollows(q)'
  BY <1>3 DEF CallFollows, HasItsRun, HasTheLastListing, DoneIsStored, HoldsItem, HoldsSchemas
<1>7. ItemsAreFromRuns'
  BY <1>1, <1>2, <1>4, ItemsKeepTheirRuns DEF SyncInv
<1> QED
  BY <1>3, <1>5, <1>6, <1>7 DEF OneSync, CallsFollow

(* The new listing is the last, and nothing has been fetched after it.     *)
LEMMA DiscoverStep ==
    ASSUME SyncInv, NEW p \in Process, Discover(p)
    PROVE  OneSync' /\ ItemsAreFromRuns' /\ CallsFollow'
<1>1. SyncTypeOK /\ lists \in Nat /\ sync[p] \in Call /\ CallFollows(p) /\ sync[p].at = "discovering"
  BY DEF SyncInv, SyncTypeOK, CallsFollow, Discover
<1>2. /\ \A q \in Process \ {p} : sync'[q] = sync[q]
      /\ sync'[p].at = "listed" /\ sync'[p].number = lists' /\ lists' = lists + 1
      /\ sync'[p].floor = [i \in Item |-> remote[i].version]
      /\ sync'[p].key = sync[p].key /\ sync'[p].config = sync[p].config /\ sync'[p].mode = sync[p].mode
      /\ sync'[p].fetched = sync[p].fetched
      /\ UNCHANGED <<remote, runs, items>>
  BY <1>1 DEF Discover, Call, SyncTypeOK
<1>3. \A i \in Item : remote[i].version \in Nat
  BY <1>1 DEF SyncTypeOK, Version
<1>4. CallFollows(p)'
  BY <1>1, <1>2, <1>3 DEF CallFollows, HasItsRun, HasTheLastListing, DoneIsStored, HoldsItem, HoldsSchemas, NotFetched
<1>5. OneSync' /\ CallsFollow'
  BY <1>1, <1>2, <1>4, OnlyCallSteps DEF SyncInv
<1>6. ItemsAreFromRuns'
  BY <1>1, <1>2, ItemsKeepTheirRuns DEF SyncInv
<1> QED
  BY <1>5, <1>6

(* At the start all that was listed is still to be done.                   *)
LEMMA NoteStep ==
    ASSUME SyncInv, NEW p \in Process, NoteDiscovery(p) \/ NoteTables(p)
    PROVE  OneSync' /\ ItemsAreFromRuns' /\ CallsFollow'
<1>1. SyncTypeOK /\ lists \in Nat /\ sync[p] \in Call /\ CallFollows(p) /\ sync[p].at = "listed"
  BY DEF SyncInv, SyncTypeOK, CallsFollow, NoteDiscovery, NoteTables
<1>2. PICK stage \in {"next", "schemas"} :
        sync' = [sync EXCEPT ![p].at = stage, ![p].todo = sync[p].listing] /\ UNCHANGED <<remote, runs, items, lists>>
  BY DEF NoteDiscovery, NoteTables
<1>3. /\ \A q \in Process \ {p} : sync'[q] = sync[q]
      /\ sync'[p] = [sync[p] EXCEPT !.at = stage, !.todo = sync[p].listing]
  BY <1>1, <1>2 DEF SyncTypeOK
<1>4. /\ sync'[p].at = stage /\ sync'[p].todo = sync'[p].listing
      /\ sync'[p].key = sync[p].key /\ sync'[p].config = sync[p].config /\ sync'[p].mode = sync[p].mode
      /\ sync'[p].number = sync[p].number /\ sync'[p].floor = sync[p].floor /\ sync'[p].fetched = NotFetched
  BY <1>1, <1>3 DEF Call, CallFollows, HoldsItem
<1>5. CallFollows(p)'
  <2>1. HasItsRun(p)' /\ HasTheLastListing(p)'
    BY <1>1, <1>2, <1>4 DEF CallFollows, HasItsRun, HasTheLastListing
  <2>2. DoneIsStored(p)' /\ HoldsItem(p)'
    BY <1>4 DEF DoneIsStored, HoldsItem
  <2>3. HoldsSchemas(p)'
    BY <1>4 DEF HoldsSchemas, NotFetched
  <2> QED
    BY <2>1, <2>2, <2>3 DEF CallFollows
<1>6. OneSync' /\ CallsFollow'
  BY <1>1, <1>3, <1>5, OnlyCallSteps DEF SyncInv
<1>7. ItemsAreFromRuns'
  BY <1>1, <1>2, ItemsKeepTheirRuns DEF SyncInv
<1> QED
  BY <1>6, <1>7

(* What is read of an item is no newer than the remote side.               *)
LEMMA ReadItemStep ==
    ASSUME SyncInv, NEW p \in Process, NEW i \in Item, ReadItem(p, i)
    PROVE  OneSync' /\ ItemsAreFromRuns' /\ CallsFollow'
<1>1. SyncTypeOK /\ lists \in Nat /\ sync[p] \in Call /\ CallFollows(p) /\ sync[p].at = "next"
  BY DEF SyncInv, SyncTypeOK, CallsFollow, ReadItem
<1>2. /\ \A q \in Process \ {p} : sync'[q] = sync[q]
      /\ sync'[p] = [sync[p] EXCEPT !.at = "fetching", !.item = i, !.previous = items[i].asset,
                                    !.fast = (sync[p].mode = "incremental" /\ items[i].status = "ready")]
      /\ UNCHANGED <<remote, runs, items, lists>>
  BY <1>1 DEF ReadItem, Call, SyncTypeOK
<1>3. /\ sync'[p].at = "fetching" /\ sync'[p].item = i /\ sync'[p].previous = items[i].asset
      /\ sync'[p].fast => items[i].status = "ready"
      /\ sync'[p].key = sync[p].key /\ sync'[p].config = sync[p].config /\ sync'[p].mode = sync[p].mode
      /\ sync'[p].number = sync[p].number /\ sync'[p].floor = sync[p].floor
      /\ sync'[p].listing = sync[p].listing /\ sync'[p].todo = sync[p].todo
  <2>1. /\ sync'[p].at = "fetching" /\ sync'[p].item = i /\ sync'[p].previous = items[i].asset
        /\ sync'[p].fast = (sync[p].mode = "incremental" /\ items[i].status = "ready")
    BY <1>1, <1>2 DEF Call
  <2>2. /\ sync'[p].key = sync[p].key /\ sync'[p].config = sync[p].config /\ sync'[p].mode = sync[p].mode
        /\ sync'[p].number = sync[p].number /\ sync'[p].floor = sync[p].floor
        /\ sync'[p].listing = sync[p].listing /\ sync'[p].todo = sync[p].todo
    BY <1>1, <1>2 DEF Call
  <2> QED
    BY <2>1, <2>2
<1>4. /\ items[i].asset # Null => items[i].asset <= remote[i].version
      /\ items[i].status = "ready" => items[i].asset # Null
      /\ i \in sync[p].todo
  BY NullIsNoNumber DEF SyncInv, ItemsAreFromRuns, ReadItem
<1>5. CallFollows(p)'
  BY <1>1, <1>2, <1>3, <1>4 DEF CallFollows, HasItsRun, HasTheLastListing, DoneIsStored, HoldsItem, HoldsSchemas
<1>6. OneSync' /\ CallsFollow'
  BY <1>1, <1>2, <1>5, OnlyCallSteps DEF SyncInv
<1>7. ItemsAreFromRuns'
  BY <1>1, <1>2, ItemsKeepTheirRuns DEF SyncInv
<1> QED
  BY <1>6, <1>7

(* Unchanged or fetched, it is no older than what was read, or listed.     *)
LEMMA FetchStep ==
    ASSUME SyncInv, NEW p \in Process, Fetch(p)
    PROVE  OneSync' /\ ItemsAreFromRuns' /\ CallsFollow'
<1> DEFINE i == sync[p].item
           found == IF Unchanged(p) THEN Null ELSE remote[i].version
<1>1. SyncTypeOK /\ lists \in Nat /\ sync[p] \in Call /\ CallFollows(p) /\ sync[p].at = "fetching"
      /\ i \in Item /\ i \in sync[p].todo
  BY ItemInHand DEF SyncInv, SyncTypeOK, Fetch
<1>2. /\ \A q \in Process \ {p} : sync'[q] = sync[q]
      /\ sync'[p] = [sync[p] EXCEPT !.at = "publishing", !.fetched = [sync[p].fetched EXCEPT ![i] = found]]
      /\ UNCHANGED <<remote, runs, items, lists>>
  BY <1>1 DEF Fetch, Call, SyncTypeOK
<1>3. /\ sync'[p].at = "publishing" /\ sync'[p].item = i /\ sync'[p].previous = sync[p].previous
      /\ sync'[p].fast = sync[p].fast
      /\ sync'[p].key = sync[p].key /\ sync'[p].config = sync[p].config /\ sync'[p].mode = sync[p].mode
      /\ sync'[p].number = sync[p].number /\ sync'[p].floor = sync[p].floor
      /\ sync'[p].listing = sync[p].listing /\ sync'[p].todo = sync[p].todo
      /\ sync'[p].fetched[i] = found
  BY <1>1, <1>2 DEF Call
<1>4. /\ remote[i].version \in Nat /\ remote[i].version # Null
      /\ sync[p].floor[i] \in 0 .. remote[i].version
      /\ sync[p].previous # Null => sync[p].previous \in Nat /\ sync[p].previous <= remote[i].version
      /\ sync[p].fast => sync[p].previous # Null
  BY <1>1, NullIsNoNumber DEF SyncTypeOK, Call, Version, CallFollows, HasTheLastListing, HoldsItem
<1>5. HoldsItem(p)'
  <2>1. CASE Unchanged(p)
    <3>1. found = Null /\ sync[p].previous # Null /\ sync[p].previous = remote[i].version
      BY <1>4, <2>1 DEF Unchanged
    <3> QED
      BY <1>1, <1>2, <1>3, <1>4, <3>1 DEF HoldsItem
  <2>2. CASE ~Unchanged(p)
    <3>1. found = remote[i].version /\ Newer(found, sync[p].previous)
      BY <1>4, <2>2 DEF Newer
    <3> HIDE DEF found
    <3> QED
      BY <1>1, <1>2, <1>3, <1>4, <3>1 DEF HoldsItem, Fresh
  <2> QED
    BY <2>1, <2>2
<1>6. CallFollows(p)'
  BY <1>1, <1>2, <1>3, <1>5 DEF CallFollows, HasItsRun, HasTheLastListing, DoneIsStored, HoldsSchemas
<1>7. OneSync' /\ CallsFollow'
  BY <1>1, <1>2, <1>6, OnlyCallSteps DEF SyncInv
<1>8. ItemsAreFromRuns'
  BY <1>1, <1>2, ItemsKeepTheirRuns DEF SyncInv
<1> QED
  BY <1>7, <1>8

(* What is stored of every item is from no earlier a listing and no earlier*)
(* a revision.                                                             *)
Advances == \A i \in Item : items'[i].listed >= items[i].listed /\ Newer(items'[i].asset, items[i].asset)

(* What is not written stands.                                             *)
LEMMA SameAdvances ==
    ASSUME SyncTypeOK, NEW i \in Item
    PROVE  items[i].listed >= items[i].listed /\ Newer(items[i].asset, items[i].asset)
  BY DEF SyncTypeOK, ItemRow, Version, Newer

(* What is about to be published of an item is no older than its listing,  *)
(* nor than what is stored.                                                *)
LEMMA PublishedIsNewer ==
    ASSUME SyncInv, NEW p \in Process, PublishItem(p)
    PROVE  LET i == sync[p].item
               asset == IF sync[p].fetched[i] = Null THEN items[i].asset ELSE sync[p].fetched[i] IN
           /\ sync[p].floor[i] \in 0 .. remote[i].version
           /\ asset \in sync[p].floor[i] .. remote[i].version
           /\ Newer(asset, items[i].asset)
<1> DEFINE i == sync[p].item
           asset == IF sync[p].fetched[i] = Null THEN items[i].asset ELSE sync[p].fetched[i]
<1>1. /\ SyncTypeOK /\ sync[p] \in Call /\ CallFollows(p) /\ sync[p].at = "publishing" /\ i \in Item
      /\ items[i].asset = sync[p].previous
  BY ItemInHand DEF SyncInv, PublishItem, AssetKept
<1>2. /\ sync[p].previous # Null => sync[p].previous \in Nat /\ sync[p].previous <= remote[i].version
      /\ sync[p].floor[i] \in 0 .. remote[i].version /\ remote[i].version \in Nat
  BY <1>1 DEF SyncTypeOK, Call, Version, CallFollows, HasTheLastListing, HoldsItem
<1>3. CASE sync[p].fetched[i] = Null
  <2>1. asset = sync[p].previous /\ sync[p].previous # Null /\ sync[p].previous >= sync[p].floor[i]
    BY <1>1, <1>3 DEF CallFollows, HoldsItem
  <2> QED
    BY <1>1, <1>2, <2>1 DEF Newer
<1>4. CASE sync[p].fetched[i] # Null
  <2>1. asset = sync[p].fetched[i] /\ Fresh(p, i, sync[p].previous)
    BY <1>1, <1>4 DEF CallFollows, HoldsItem
  <2> QED
    BY <1>1, <1>2, <2>1 DEF Fresh
<1> QED
  BY <1>3, <1>4

(* A publication stores what is no older than listing and stored asset.    *)
LEMMA PublishItemStep ==
    ASSUME SyncInv, NEW p \in Process, PublishItem(p)
    PROVE  OneSync' /\ ItemsAreFromRuns' /\ CallsFollow' /\ Advances
<1> DEFINE i == sync[p].item
           asset == IF sync[p].fetched[i] = Null THEN items[i].asset ELSE sync[p].fetched[i]
<1>1. SyncTypeOK /\ lists \in Nat /\ sync[p] \in Call /\ CallFollows(p) /\ sync[p].at = "publishing" /\ i \in Item
  BY ItemInHand DEF SyncInv, SyncTypeOK, PublishItem
<1>2. /\ \A q \in Process \ {p} : sync'[q] = sync[q]
      /\ sync'[p] = [sync[p] EXCEPT !.at = "next", !.todo = sync[p].todo \ {i}, !.item = Null, !.previous = Null,
                                    !.fast = FALSE, !.fetched = NotFetched]
      /\ items' = [items EXCEPT ![i] = Published(p, i, asset)]
      /\ items[i].asset = sync[p].previous
      /\ UNCHANGED <<remote, runs, lists>>
  BY <1>1 DEF PublishItem, AssetKept, SyncTypeOK
<1>3. /\ sync'[p].at = "next" /\ sync'[p].todo = sync[p].todo \ {i}
      /\ sync'[p].key = sync[p].key /\ sync'[p].config = sync[p].config /\ sync'[p].mode = sync[p].mode
      /\ sync'[p].number = sync[p].number /\ sync'[p].floor = sync[p].floor
      /\ sync'[p].listing = sync[p].listing /\ sync[p].listing \subseteq Item
  BY <1>1, <1>2 DEF Call
<1>4. /\ sync[p].floor[i] \in 0 .. remote[i].version
      /\ asset \in sync[p].floor[i] .. remote[i].version
      /\ Newer(asset, items[i].asset)
  BY PublishedIsNewer
<1> HIDE DEF asset
<1>5. /\ items'[i].status = "ready" /\ items'[i].asset = asset /\ items'[i].seenBy = sync[p].key
      /\ items'[i].config = sync[p].config /\ items'[i].listed = lists
      /\ \A j \in Item \ {i} : items'[j] = items[j]
  BY <1>1, <1>2 DEF Published, SyncTypeOK, CallFollows, HasTheLastListing
<1>6. CallFollows(p)'
  <2>1. HasItsRun(p)' /\ HasTheLastListing(p)' /\ HoldsItem(p)' /\ HoldsSchemas(p)'
    BY <1>1, <1>2, <1>3 DEF CallFollows, HasItsRun, HasTheLastListing, HoldsItem, HoldsSchemas
  <2>2. DoneIsStored(p)'
    <3>1. ASSUME NEW j \in sync[p].listing \ (sync[p].todo \ {i})
          PROVE  items'[j].status = "ready" /\ items'[j].asset >= sync[p].floor[j]
      <4>1. CASE j = i
        BY <1>4, <1>5, <4>1
      <4>2. CASE j # i
        BY <1>1, <1>3, <1>5, <4>2 DEF CallFollows, DoneIsStored
      <4> QED
        BY <4>1, <4>2
    <3>2. sync[p].todo \subseteq sync[p].listing
      BY <1>1 DEF CallFollows, DoneIsStored
    <3> QED
      BY <1>3, <3>1, <3>2 DEF DoneIsStored
  <2> QED
    BY <2>1, <2>2 DEF CallFollows
<1>7. OneSync' /\ CallsFollow'
  BY <1>1, <1>2, <1>6, OnlyCallSteps DEF SyncInv
<1>8. ItemsAreFromRuns'
  <2>1. /\ sync[p].key \in Key /\ runs[sync[p].key].status # "none" /\ runs[sync[p].key].config = sync[p].config
        /\ asset \in 0 .. remote[i].version
    BY <1>1, <1>4 DEF CallFollows, HasItsRun
  <2> QED
    BY <1>1, <1>2, <1>5, <2>1 DEF SyncInv, ItemsAreFromRuns
<1>9. Advances
  <2>1. lists >= items[i].listed
    BY <1>1 DEF SyncInv, SyncTypeOK, ItemsAreFromRuns, ItemRow
  <2> QED
    BY <1>1, <1>4, <1>5, <2>1, SameAdvances DEF Advances
<1> QED
  BY <1>7, <1>8, <1>9

(* Everything the call of p has listed is stored as it was listed, or newer;*)
(* after a full one nothing else is there.                                 *)
Brought(p) ==
    /\ \A i \in sync[p].listing : items'[i].status = "ready" /\ items'[i].asset >= sync[p].floor[i]
    /\ sync[p].mode = "full" => \A i \in Item \ sync[p].listing : items'[i].status # "ready"

(* The deletion of what was not listed changes neither asset nor binding.  *)
LEMMA DeletionKeeps ==
    ASSUME SyncTypeOK, NEW p \in Process, NEW i \in Item
    PROVE  /\ Deleted(p, i).status = "deleted" /\ Deleted(p, i).asset = items[i].asset
           /\ Deleted(p, i).seenBy = items[i].seenBy /\ Deleted(p, i).config = items[i].config
           /\ Deleted(p, i).listed = sync[p].number
<1>1. items[i] \in ItemRow
  BY DEF SyncTypeOK
<1> QED
  BY <1>1 DEF Deleted, ItemRow

(* A call that succeeds leaves its run, and every other, under the binding.*)
LEMMA SucceedKeepsRuns ==
    ASSUME SyncTypeOK, NEW p \in Process, Succeed(p)
    PROVE  \A k \in Key : runs'[k].status \in {runs[k].status, "succeeded"} /\ runs'[k].config = runs[k].config
<1>1. \A k \in Key : runs'[k] \in {runs[k], [runs[k] EXCEPT !.status = "succeeded", !.owner = Null]}
  BY DEF Succeed, SyncTypeOK
<1>2. \A k \in Key : runs[k] \in RunRow
  BY DEF SyncTypeOK
<1> QED
  BY <1>1, <1>2 DEF RunRow

(* At the end nothing of the listing is left to be done.                   *)
LEMMA ReconcileStep ==
    ASSUME SyncInv, NEW p \in Process, Reconcile(p)
    PROVE  OneSync' /\ ItemsAreFromRuns' /\ CallsFollow' /\ Advances /\ Brought(p)
<1>1. /\ SyncTypeOK /\ lists \in Nat /\ sync[p] \in Call /\ CallFollows(p) /\ ItemsAreFromRuns
      /\ sync[p].at = "next" /\ sync[p].todo = {} /\ sync[p].number = lists /\ sync[p].listing \subseteq Item
  BY DEF SyncInv, SyncTypeOK, CallsFollow, CallFollows, HasTheLastListing, Reconcile, Call
<1>2. /\ Succeed(p) /\ UNCHANGED <<remote, lists>> /\ sync' = [sync EXCEPT ![p] = NoSync]
      /\ items' = [i \in Item |-> IF Deletable(p, i) THEN Deleted(p, i) ELSE items[i]]
  BY DEF Reconcile, Succeed
<1>3. OneSync' /\ CallsFollow'
  BY <1>1, <1>2, LastCallEnds DEF SyncInv, SyncTypeOK
<1>4. ASSUME NEW i \in Item
      PROVE  /\ items'[i].asset = items[i].asset /\ items'[i].seenBy = items[i].seenBy /\ items'[i].config = items[i].config
             /\ items'[i].listed \in {items[i].listed, lists}
             /\ IF Deletable(p, i) THEN items'[i].status = "deleted" /\ items[i].status = "ready"
                ELSE items'[i].status = items[i].status
  BY <1>1, <1>2, DeletionKeeps DEF Deletable
<1>5. \A i \in Item : items[i].listed \in Nat /\ items[i].listed <= lists
  BY <1>1 DEF SyncTypeOK, ItemRow, ItemsAreFromRuns
<1>6. ItemsAreFromRuns'
  <2>1. \A k \in Key : runs'[k].status \in {runs[k].status, "succeeded"} /\ runs'[k].config = runs[k].config
    BY <1>1, <1>2, SucceedKeepsRuns
  <2> QED
    BY <1>1, <1>2, <1>4, <1>5, <2>1 DEF ItemsAreFromRuns
<1>7. Advances
  BY <1>1, <1>4, <1>5, SameAdvances DEF Advances
<1>8. Brought(p)
  <2>1. \A i \in sync[p].listing : items[i].status = "ready" /\ items[i].asset >= sync[p].floor[i]
    BY <1>1 DEF CallFollows, DoneIsStored
  <2>2. \A i \in sync[p].listing : ~Deletable(p, i)
    BY DEF Deletable, Unlisted
  <2>3. sync[p].mode = "full" => \A i \in Item \ sync[p].listing : Deletable(p, i) \/ items[i].status # "ready"
    BY DEF Deletable, Unlisted
  <2> QED
    BY <1>1, <1>4, <2>1, <2>2, <2>3 DEF Brought
<1> QED
  BY <1>3, <1>6, <1>7, <1>8

(* A schema is fetched after the listing, and nobody else stores one.      *)
LEMMA FetchSchemaStep ==
    ASSUME SyncInv, NEW p \in Process, NEW i \in Item, FetchSchema(p, i)
    PROVE  OneSync' /\ ItemsAreFromRuns' /\ CallsFollow'
<1>1. SyncTypeOK /\ lists \in Nat /\ sync[p] \in Call /\ CallFollows(p) /\ sync[p].at = "schemas"
  BY DEF SyncInv, SyncTypeOK, CallsFollow, FetchSchema
<1>2. /\ \A q \in Process \ {p} : sync'[q] = sync[q]
      /\ sync'[p] = [sync[p] EXCEPT !.todo = sync[p].todo \ {i},
                                    !.fetched = [sync[p].fetched EXCEPT ![i] = remote[i].version]]
      /\ UNCHANGED <<remote, runs, items, lists>>
  BY <1>1 DEF FetchSchema, Call, SyncTypeOK
<1>3. /\ sync'[p].at = "schemas" /\ sync'[p].todo = sync[p].todo \ {i}
      /\ sync'[p].key = sync[p].key /\ sync'[p].config = sync[p].config /\ sync'[p].mode = sync[p].mode
      /\ sync'[p].number = sync[p].number /\ sync'[p].floor = sync[p].floor /\ sync'[p].listing = sync[p].listing
      /\ sync'[p].fetched[i] = remote[i].version
      /\ \A j \in Item \ {i} : sync'[p].fetched[j] = sync[p].fetched[j]
  BY <1>1, <1>2 DEF Call
<1>4. /\ remote[i].version \in Nat /\ remote[i].version # Null
      /\ sync[p].floor[i] \in 0 .. remote[i].version
      /\ Newer(remote[i].version, items[i].asset)
  <2>1. /\ remote[i].version \in Nat /\ remote[i].version # Null
        /\ sync[p].floor[i] \in 0 .. remote[i].version
    BY <1>1, NullIsNoNumber DEF SyncTypeOK, Version, CallFollows, HasTheLastListing
  <2>2. items[i].asset = Null \/ items[i].asset \in 0 .. remote[i].version
    BY <1>1 DEF SyncInv, ItemsAreFromRuns
  <2> QED
    BY <2>1, <2>2 DEF Newer
<1>5. HoldsSchemas(p)'
  <2>1. ASSUME NEW j \in Item
        PROVE  IF sync'[p].fetched[j] = Null THEN j \notin sync'[p].listing \ sync'[p].todo
               ELSE /\ sync'[p].fetched[j] \in sync'[p].floor[j] .. remote'[j].version
                    /\ Newer(sync'[p].fetched[j], items'[j].asset)
    <3>1. CASE j = i
      BY <1>2, <1>3, <1>4, <3>1
    <3>2. CASE j # i
      BY <1>1, <1>2, <1>3, <3>2 DEF CallFollows, HoldsSchemas, Fresh
    <3> QED
      BY <3>1, <3>2
  <2> QED
    BY <2>1 DEF HoldsSchemas, Fresh
<1>6. CallFollows(p)'
  BY <1>1, <1>2, <1>3, <1>5 DEF CallFollows, HasItsRun, HasTheLastListing, DoneIsStored, HoldsItem
<1>7. OneSync' /\ CallsFollow'
  BY <1>1, <1>2, <1>6, OnlyCallSteps DEF SyncInv
<1>8. ItemsAreFromRuns'
  BY <1>1, <1>2, ItemsKeepTheirRuns DEF SyncInv
<1> QED
  BY <1>7, <1>8

(* All tables are published at once, each at what was fetched.             *)
LEMMA PublishSchemasStep ==
    ASSUME SyncInv, NEW p \in Process, PublishSchemas(p)
    PROVE  OneSync' /\ ItemsAreFromRuns' /\ CallsFollow' /\ Advances /\ Brought(p)
<1>1. /\ SyncTypeOK /\ lists \in Nat /\ sync[p] \in Call /\ CallFollows(p) /\ ItemsAreFromRuns
      /\ sync[p].at = "schemas" /\ sync[p].todo = {} /\ sync[p].number = lists /\ sync[p].listing \subseteq Item
  BY DEF SyncInv, SyncTypeOK, CallsFollow, CallFollows, HasTheLastListing, PublishSchemas, Call
<1>2. /\ Succeed(p) /\ UNCHANGED <<remote, lists>> /\ sync' = [sync EXCEPT ![p] = NoSync]
      /\ items' = [i \in Item |-> IF i \in sync[p].listing THEN Published(p, i, sync[p].fetched[i])
                                  ELSE IF Deletable(p, i) THEN Deleted(p, i) ELSE items[i]]
  BY DEF PublishSchemas, Succeed
<1>3. OneSync' /\ CallsFollow'
  BY <1>1, <1>2, LastCallEnds DEF SyncInv, SyncTypeOK
<1>4. /\ \A k \in Key : runs'[k].status \in {runs[k].status, "succeeded"} /\ runs'[k].config = runs[k].config
      /\ sync[p].key \in Key /\ runs[sync[p].key].status # "none" /\ runs[sync[p].key].config = sync[p].config
  BY <1>1, <1>2, SucceedKeepsRuns DEF CallFollows, HasItsRun
<1>5. \A i \in Item : items[i].listed \in Nat /\ items[i].listed <= lists
  BY <1>1 DEF SyncTypeOK, ItemRow, ItemsAreFromRuns
<1>6. ASSUME NEW i \in sync[p].listing
      PROVE  /\ items'[i].status = "ready" /\ items'[i].asset = sync[p].fetched[i] /\ items'[i].listed = lists
             /\ items'[i].seenBy = sync[p].key /\ items'[i].config = sync[p].config
             /\ sync[p].floor[i] \in 0 .. remote[i].version
             /\ Fresh(p, i, items[i].asset)
  <2>1. sync[p].floor[i] \in 0 .. remote[i].version /\ Fresh(p, i, items[i].asset)
    BY <1>1 DEF CallFollows, HoldsSchemas, HasTheLastListing
  <2> QED
    BY <1>1, <1>2, <2>1 DEF Published
<1>7. ASSUME NEW i \in Item \ sync[p].listing
      PROVE  /\ items'[i].asset = items[i].asset /\ items'[i].seenBy = items[i].seenBy /\ items'[i].config = items[i].config
             /\ items'[i].listed \in {items[i].listed, lists}
             /\ IF Deletable(p, i) THEN items'[i].status = "deleted" /\ items[i].status = "ready"
                ELSE items'[i].status = items[i].status
  BY <1>1, <1>2, DeletionKeeps DEF Deletable
<1>8. ItemsAreFromRuns'
  <2>1. ASSUME NEW i \in Item
        PROVE  /\ items'[i].listed <= lists'
               /\ items'[i].status = "none" => items'[i].asset = Null
               /\ items'[i].status # "none" =>
                     /\ items'[i].asset \in 0 .. remote'[i].version
                     /\ items'[i].seenBy \in Key /\ runs'[items'[i].seenBy].status # "none"
                     /\ items'[i].config = runs'[items'[i].seenBy].config
    <3>1. CASE i \in sync[p].listing
      <4>1. sync[p].fetched[i] \in 0 .. remote[i].version
        BY <1>6, <3>1 DEF Fresh
      <4>2. runs'[sync[p].key].status # "none" /\ runs'[sync[p].key].config = sync[p].config
        BY <1>4
      <4> QED
        <5>1. /\ items'[i].status = "ready" /\ items'[i].asset = sync[p].fetched[i] /\ items'[i].listed = lists
              /\ items'[i].seenBy = sync[p].key /\ items'[i].config = sync[p].config
          BY <1>6, <3>1
        <5>2. UNCHANGED <<remote, lists>> /\ lists \in Nat /\ sync[p].key \in Key
          BY <1>1, <1>2, <1>4
        <5> QED
          BY <4>1, <4>2, <5>1, <5>2
    <3>2. CASE i \notin sync[p].listing
      BY <1>1, <1>2, <1>4, <1>5, <1>7, <3>2 DEF ItemsAreFromRuns
    <3> QED
      BY <3>1, <3>2
  <2> QED
    BY <2>1 DEF ItemsAreFromRuns
<1>9. Advances
  <2>1. ASSUME NEW i \in sync[p].listing PROVE items'[i].listed >= items[i].listed /\ Newer(items'[i].asset, items[i].asset)
    BY <1>1, <1>5, <1>6 DEF Fresh
  <2>2. ASSUME NEW i \in Item \ sync[p].listing
        PROVE  items'[i].listed >= items[i].listed /\ Newer(items'[i].asset, items[i].asset)
    BY <1>1, <1>5, <1>7, SameAdvances
  <2> QED
    BY <2>1, <2>2 DEF Advances
<1>10. Brought(p)
  <2>1. \A i \in sync[p].listing : items'[i].status = "ready" /\ items'[i].asset >= sync[p].floor[i]
    BY <1>1, <1>6 DEF Fresh
  <2>2. sync[p].mode = "full" => \A i \in Item \ sync[p].listing : Deletable(p, i) \/ items[i].status # "ready"
    BY DEF Deletable, Unlisted
  <2> QED
    BY <1>7, <2>1, <2>2 DEF Brought
<1> QED
  BY <1>3, <1>8, <1>9, <1>10

(* A call that fails keeps its run.                                        *)
LEMMA RaiseStep ==
    ASSUME SyncInv, NEW p \in Process, Raise(p)
    PROVE  OneSync' /\ ItemsAreFromRuns' /\ CallsFollow'
<1>1. SyncTypeOK /\ lists \in Nat /\ sync[p] \in Call /\ CallFollows(p) /\ sync[p].at \in Working
  BY DEF SyncInv, SyncTypeOK, CallsFollow, Raise
<1>2. /\ \A q \in Process \ {p} : sync'[q] = sync[q]
      /\ sync'[p] = [sync[p] EXCEPT !.at = "failing"]
      /\ UNCHANGED <<remote, runs, items, lists>>
  BY <1>1 DEF Raise, SyncAt, SyncTypeOK
<1>3. /\ sync'[p].at = "failing" /\ sync[p].at # "idle"
      /\ sync'[p].key = sync[p].key /\ sync'[p].config = sync[p].config /\ sync'[p].mode = sync[p].mode
  BY <1>1, <1>2 DEF Call, Working
<1>4. CallFollows(p)'
  BY <1>1, <1>2, <1>3 DEF CallFollows, HasItsRun, HasTheLastListing, DoneIsStored, HoldsItem, HoldsSchemas
<1>5. OneSync' /\ CallsFollow'
  BY <1>1, <1>2, <1>3, <1>4, OnlyCallSteps DEF SyncInv
<1>6. ItemsAreFromRuns'
  BY <1>1, <1>2, ItemsKeepTheirRuns DEF SyncInv
<1> QED
  BY <1>5, <1>6

(* A run that fails or is left behind keeps its binding.                   *)
LEMMA EndStep ==
    ASSUME SyncInv, NEW p \in Process, Fail(p) \/ Die(p)
    PROVE  OneSync' /\ ItemsAreFromRuns' /\ CallsFollow'
<1>1. SyncTypeOK /\ lists \in Nat /\ sync[p].at # "idle"
  BY DEF SyncInv, SyncTypeOK, Fail, Die
<1>2. sync' = [sync EXCEPT ![p] = NoSync] /\ UNCHANGED <<remote, items, lists>>
  BY DEF Fail, Die
<1>3. OneSync' /\ CallsFollow'
  BY <1>1, <1>2, LastCallEnds DEF SyncInv, SyncTypeOK
<1>4. \A k \in Key : runs'[k] \in {runs[k], [runs[k] EXCEPT !.status = "failed", !.owner = Null]}
  BY <1>1 DEF Fail, Die, SyncTypeOK
<1>5. \A k \in Key : runs[k].status # "none" => runs'[k].status # "none" /\ runs'[k].config = runs[k].config
  <2>1. \A k \in Key : runs[k] \in RunRow
    BY <1>1 DEF SyncTypeOK
  <2> QED
    BY <1>4, <2>1 DEF RunRow
<1>6. ItemsAreFromRuns'
  BY <1>1, <1>2, <1>5, ItemsKeepTheirRuns DEF SyncInv
<1> QED
  BY <1>3, <1>6

(* Only the two publications that succeed, and PublishItem, write items.   *)
LEMMA ItemWriters ==
    ASSUME [SyncNext]_syncVars
    PROVE  \/ UNCHANGED items
           \/ \E p \in Process : PublishItem(p) \/ Reconcile(p) \/ PublishSchemas(p)
<1>1. CASE UNCHANGED syncVars
  BY <1>1 DEF syncVars
<1>2. CASE Surroundings
  BY <1>2 DEF Surroundings, Edit, List, Configure
<1>3. ASSUME NEW p \in Process, Step(p) PROVE UNCHANGED items \/ PublishItem(p) \/ Reconcile(p) \/ PublishSchemas(p)
  BY <1>3 DEF Step, Claim, ReadItem, FetchSchema, Discover, NoteDiscovery, Fetch, NoteTables, Raise, Fail, Die
<1> QED
  BY <1>1, <1>2, <1>3 DEF SyncNext

(* Only they make a run succeed.                                           *)
LEMMA RunEnders ==
    ASSUME SyncTypeOK, [SyncNext]_syncVars, NEW k \in Key, Succeeds(k)
    PROVE  \E p \in Process : Reconcile(p) \/ PublishSchemas(p)
<1>1. CASE UNCHANGED syncVars
  BY <1>1 DEF syncVars, Succeeds
<1>2. CASE Surroundings
  BY <1>2 DEF Surroundings, Edit, List, Configure, Succeeds
<1>3. ASSUME NEW p \in Process, Step(p) PROVE Reconcile(p) \/ PublishSchemas(p)
  <2>1. ASSUME NEW l \in Key, NEW m \in Mode, Claim(p, l, m) PROVE FALSE
    BY <2>1 DEF Claim, Succeeds, SyncTypeOK
  <2>2. CASE Fail(p)
    <3>1. runs'[k] \in {runs[k], [runs[k] EXCEPT !.status = "failed", !.owner = Null]} /\ runs[k] \in RunRow
      BY <2>2 DEF Fail, SyncTypeOK
    <3> QED
      BY <3>1 DEF RunRow, Succeeds
  <2>3. UNCHANGED runs => FALSE
    BY DEF Succeeds
  <2> QED
    BY <1>3, <2>1, <2>2, <2>3
       DEF Step, ReadItem, FetchSchema, Discover, NoteDiscovery, Fetch, PublishItem, NoteTables, Raise, Die
<1> QED
  BY <1>1, <1>2, <1>3 DEF SyncNext

(* Nothing is stored at first, and nobody syncs.                           *)
LEMMA SyncInitial == SyncInit => SyncInv
<1> SUFFICES ASSUME SyncInit PROVE SyncInv
  OBVIOUS
<1>1. SyncTypeOK
  <2>1. NoItem \in ItemRow /\ NoRun \in RunRow
    BY NullIsNoNumber DEF NoItem, NoRun, ItemRow, RunRow
  <2> QED
    BY <2>1, NoSyncIsCall, NullIsNoNumber DEF SyncInit, SyncTypeOK, Version
<1>2. OneSync /\ CallsFollow
  BY NoSyncIsCall DEF SyncInit, OneSync, CallsFollow, CallFollows, HasItsRun, HasTheLastListing, DoneIsStored,
     HoldsItem, HoldsSchemas
<1>3. ItemsAreFromRuns
  BY DEF SyncInit, ItemsAreFromRuns, NoItem
<1> QED
  BY <1>1, <1>2, <1>3 DEF SyncInv

(* Every step keeps the invariant.                                         *)
LEMMA SyncStep == SyncInv /\ [SyncNext]_syncVars => SyncInv'
<1> SUFFICES ASSUME SyncInv, [SyncNext]_syncVars PROVE SyncInv'
  OBVIOUS
<1>1. SyncTypeOK'
  BY SyncTypeStep DEF SyncInv
<1>2. OneSync' /\ ItemsAreFromRuns' /\ CallsFollow'
  <2>1. CASE UNCHANGED syncVars
    BY <2>1 DEF syncVars, SyncInv, OneSync, ItemsAreFromRuns, CallsFollow, CallFollows, HasItsRun, HasTheLastListing,
       DoneIsStored, HoldsItem, HoldsSchemas, Fresh
  <2>2. CASE Surroundings
    BY <2>2, SurroundingsStep
  <2>3. ASSUME NEW p \in Process, Step(p) PROVE OneSync' /\ ItemsAreFromRuns' /\ CallsFollow'
    BY <2>3, ClaimStep, DiscoverStep, NoteStep, ReadItemStep, FetchStep, PublishItemStep, ReconcileStep,
       FetchSchemaStep, PublishSchemasStep, RaiseStep, EndStep DEF Step
  <2> QED
    BY <2>1, <2>2, <2>3 DEF SyncNext
<1> QED
  BY <1>1, <1>2 DEF SyncInv

(* The invariant the theorems about the syncs rest on.                     *)
LEMMA SyncInductive == SyncSpec => []SyncInv
<1> QED
  BY SyncInitial, SyncStep, PTL DEF SyncSpec

(* Runs, items and calls keep their types.                                 *)
THEOREM SyncTypes == SyncSpec => []SyncTypeOK
<1>1. SyncInv => SyncTypeOK
  BY DEF SyncInv
<1> QED
  BY <1>1, SyncInductive, PTL

(* Whoever takes a run over, all its attempts publish under one binding.   *)
THEOREM OneBinding == SyncSpec => []RunHasOneBinding
<1>1. SyncInv => RunHasOneBinding
  BY DEF SyncInv, ItemsAreFromRuns, RunHasOneBinding
<1> QED
  BY <1>1, SyncInductive, PTL

(* What is stored of an item is not overwritten or deleted after an earlier*)
(* listing, and does not go back to an earlier revision.                   *)
THEOREM NothingGoesBack == SyncSpec => NewestListingStands
<1>1. SyncInv /\ [SyncNext]_syncVars =>
         [\A i \in Item : items'[i].listed >= items[i].listed /\ Newer(items'[i].asset, items[i].asset)]_items
  <2> SUFFICES ASSUME SyncInv, [SyncNext]_syncVars, items' # items
               PROVE  Advances
    BY DEF Advances
  <2> QED
    BY ItemWriters, PublishItemStep, ReconcileStep, PublishSchemasStep
<1> QED
  BY <1>1, SyncInductive, PTL DEF SyncSpec, NewestListingStands

(* A sync that reports success has stored what it listed, and a full one   *)
(* has left nothing else, whatever earlier attempts have published.        *)
THEOREM SuccessIsComplete == SyncSpec => SuccessIsTheListing
<1> DEFINE Complete(k) ==
             LET s == sync[runs[k].owner] IN
             /\ \A i \in s.listing : items'[i].status = "ready" /\ items'[i].asset >= s.floor[i]
             /\ s.mode = "full" => \A i \in Item \ s.listing : items'[i].status # "ready"
<1>1. ASSUME SyncInv, [SyncNext]_syncVars, NEW k \in Key, Succeeds(k) PROVE Complete(k)
  <2>1. PICK p \in Process : Reconcile(p) \/ PublishSchemas(p)
    BY <1>1, RunEnders DEF SyncInv
  <2>2. Brought(p) /\ Fenced(p)
    BY <1>1, <2>1, ReconcileStep, PublishSchemasStep DEF Reconcile, PublishSchemas
  <2>3. k = sync[p].key
    BY <1>1, <2>1 DEF Reconcile, PublishSchemas, Succeed, Succeeds, SyncInv, SyncTypeOK
  <2>4. sync[runs[k].owner] = sync[p]
    BY <2>2, <2>3 DEF Fenced
  <2> QED
    BY <2>2, <2>4 DEF Brought
<1>2. SyncInv /\ [SyncNext]_syncVars => [\A k \in Key : Succeeds(k) => Complete(k)]_runs
  BY <1>1
<1> QED
  BY <1>2, SyncInductive, PTL DEF SyncSpec, SuccessIsTheListing

----------------------------------------------------------------------------
(* The syncs as the abstract specification sees them: no more than one     *)
(* attempt is open, and what an action publishes is what SerialSync allows.*)

(* The attempt of the one call there is, and none when it has ended.       *)
LEMMA CallIsTheAttempt ==
    ASSUME OneSync, NEW p \in Process, sync[p].at # "idle"
    PROVE  OpenAttempts = {Attempt(p)}
  BY DEF OneSync, OpenAttempts

LEMMA AttemptGoesOn ==
    ASSUME OneSync, NEW p \in Process, sync[p].at # "idle", sync'[p].at # "idle",
           \A q \in Process \ {p} : sync'[q] = sync[q]
    PROVE  OpenAttempts' = {Attempt(p)'}
<1>1. \A q \in Process : sync'[q].at # "idle" => q = p
  BY DEF OneSync
<1> QED
  BY <1>1 DEF OpenAttempts, Attempt

LEMMA AttemptEnds ==
    ASSUME SyncInv, NEW p \in Process, sync[p].at # "idle", sync' = [sync EXCEPT ![p] = NoSync]
    PROVE  OpenAttempts' = {}
<1>1. \A q \in Process : sync'[q].at = "idle"
  BY DEF SyncInv, SyncTypeOK, OneSync, NoSync
<1> QED
  BY <1>1 DEF OpenAttempts

(* A step that reads, fetches or fails is of no interest to it.            *)
LEMMA AttemptStays ==
    ASSUME SyncInv, NEW p \in Process, sync[p].at # "idle", sync'[p].at # "idle",
           \A q \in Process \ {p} : sync'[q] = sync[q],
           sync'[p].key = sync[p].key, sync'[p].mode = sync[p].mode, sync'[p].number = sync[p].number,
           sync'[p].listing = sync[p].listing, sync'[p].floor = sync[p].floor
    PROVE  UNCHANGED OpenAttempts
<1>1. Attempt(p)' = Attempt(p)
  BY DEF Attempt
<1> QED
  BY <1>1, CallIsTheAttempt, AttemptGoesOn DEF SyncInv

(* The abstract state at a key, at an item and of a call.                  *)
LEMMA StoredAt ==
    ASSUME NEW i \in Item
    PROVE  /\ Stored[i] = [status |-> items[i].status, asset |-> items[i].asset,
                           config |-> items[i].config, listed |-> items[i].listed]
           /\ Stored[i].status = items[i].status /\ Stored[i].asset = items[i].asset /\ Stored[i].config = items[i].config
           /\ Revisions[i] = remote[i].version
  BY DEF Stored, Revisions

LEMMA StoredNext ==
    ASSUME NEW i \in Item
    PROVE  /\ Stored'[i] = [status |-> items'[i].status, asset |-> items'[i].asset,
                            config |-> items'[i].config, listed |-> items'[i].listed]
           /\ Stored'[i].status = items'[i].status /\ Stored'[i].asset = items'[i].asset
           /\ Revisions'[i] = remote'[i].version
  BY DEF Stored, Revisions

LEMMA RunStateAt ==
    ASSUME NEW k \in Key
    PROVE  RunStates[k].status = runs[k].status /\ RunStates[k].config = runs[k].config
  BY DEF RunStates

LEMMA AttemptOf ==
    ASSUME NEW p \in Process
    PROVE  /\ Attempt(p).key = sync[p].key /\ Attempt(p).full = (sync[p].mode = "full")
           /\ Attempt(p).number = sync[p].number
           /\ Attempt(p).listing = sync[p].listing /\ Attempt(p).floor = sync[p].floor
<1>1. /\ Attempt(p).key = sync[p].key /\ Attempt(p).number = sync[p].number
      /\ Attempt(p).listing = sync[p].listing /\ Attempt(p).floor = sync[p].floor
  BY DEF Attempt
<1>2. Attempt(p).full = (sync[p].mode = "full")
  BY DEF Attempt
<1> QED
  BY <1>1, <1>2

(* What a call publishes of a listed item is brought, ...                  *)
LEMMA PublishedIsBrought ==
    ASSUME SyncInv, NEW p \in Process, sync[p].at \in {"publishing", "schemas"},
           NEW i \in sync[p].listing, NEW v \in sync[p].floor[i] .. remote[i].version,
           items[i].asset = Null \/ items[i].asset <= v,
           items'[i] = Published(p, i, v)
    PROVE  Serial!Brings(Attempt(p), i)
<1>1. i \in Item /\ sync[p].key \in Key /\ runs[sync[p].key].config = sync[p].config
  BY DEF SyncInv, SyncTypeOK, Call, CallsFollow, CallFollows, HasItsRun
<1>2. RunStates[Attempt(p).key].config = sync[p].config
  BY <1>1, RunStateAt, AttemptOf
<1>3. Stored'[i] = [status |-> "ready", asset |-> v, config |-> sync[p].config, listed |-> sync[p].number]
  BY <1>1, StoredNext DEF Published
<1>4. v \in Attempt(p).floor[i] .. Revisions[i] /\ (Stored[i].asset = Null \/ Stored[i].asset <= v)
  BY <1>1, StoredAt, AttemptOf
<1>5. i \in Attempt(p).listing /\ Attempt(p).number = sync[p].number
  BY AttemptOf
<1> QED
  BY <1>2, <1>3, <1>4, <1>5 DEF Serial!Brings

(* ... and what it deletes is dropped.                                     *)
LEMMA DeletedIsDropped ==
    ASSUME SyncInv, NEW p \in Process, NEW i \in Item, Deletable(p, i), items'[i] = Deleted(p, i)
    PROVE  Serial!Drops(Attempt(p), i)
<1>1. /\ items'[i].status = "deleted" /\ items'[i].asset = items[i].asset
      /\ items'[i].config = items[i].config /\ items'[i].listed = sync[p].number
  BY DeletionKeeps DEF SyncInv
<1>2. Stored'[i] = [status |-> "deleted", asset |-> Stored[i].asset, config |-> Stored[i].config, listed |-> sync[p].number]
  <2>1. Stored'[i] = [status |-> items'[i].status, asset |-> items'[i].asset,
                      config |-> items'[i].config, listed |-> items'[i].listed]
    BY StoredNext
  <2>2. Stored[i].asset = items[i].asset /\ Stored[i].config = items[i].config
    BY StoredAt
  <2> QED
    BY <1>1, <2>1, <2>2
<1>3. Attempt(p).full /\ i \notin Attempt(p).listing /\ Attempt(p).number = sync[p].number /\ Stored[i].status = "ready"
  BY StoredAt, AttemptOf DEF Deletable, Unlisted
<1> QED
  BY <1>2, <1>3 DEF Serial!Drops

(* Behind the fence, with the last listing, a call writes what it may.     *)
LEMMA CallWrites ==
    ASSUME SyncInv, NEW p \in Process, sync[p].at \in {"next", "publishing", "schemas"}, Fenced(p),
           \A i \in Item : Stored'[i] = Stored[i] \/ Serial!Brings(Attempt(p), i) \/ Serial!Drops(Attempt(p), i)
    PROVE  Serial!Writes(Attempt(p))
<1>1. sync[p].number = lists /\ sync[p].number > 0 /\ sync[p].key \in Key /\ runs[sync[p].key].config = sync[p].config
  BY DEF SyncInv, CallsFollow, CallFollows, HasItsRun, HasTheLastListing
<1>2. Attempt(p).number = sync[p].number /\ Attempt(p).key = sync[p].key
  BY AttemptOf
<1>3. RunStates[Attempt(p).key].status = "running" /\ RunStates[Attempt(p).key].config = config
  BY <1>1, <1>2, RunStateAt DEF Fenced
<1>4. DOMAIN Stored' = Item
  BY DEF Stored
<1> QED
  BY <1>1, <1>2, <1>3, <1>4 DEF Serial!Writes

LEMMA SerialInitial == SyncInit => Serial!SerialInit
<1> SUFFICES ASSUME SyncInit PROVE Serial!SerialInit
  OBVIOUS
<1>1. config \in Config /\ lists = 0
  BY DEF SyncInit
<1>2. Revisions \in [Item -> Nat]
  BY DEF SyncInit, Revisions
<1>3. RunStates = [k \in Key |-> [status |-> "none", config |-> Null]]
  BY DEF SyncInit, RunStates, NoRun
<1>4. Stored = [i \in Item |-> [status |-> "none", asset |-> Null, config |-> Null, listed |-> 0]]
  BY DEF SyncInit, Stored, NoItem
<1>5. OpenAttempts = {}
  BY NoSyncIsCall DEF SyncInit, OpenAttempts
<1> QED
  BY <1>1, <1>2, <1>3, <1>4, <1>5 DEF Serial!SerialInit

(* The remote side only gets newer, the binding may change at any time.    *)
LEMMA SurroundingsChange ==
    ASSUME SyncInv, Surroundings
    PROVE  Serial!Change
<1>0. config \in Config /\ remote \in [Item -> [listed : BOOLEAN, version : Version]]
  BY DEF SyncInv, SyncTypeOK
<1>1. \A i \in Item : remote[i].version \in Nat /\ remote'[i].version \in Nat /\ remote'[i].version >= remote[i].version
  <2>0. \A i \in Item : remote[i] \in [listed : BOOLEAN, version : Version] /\ remote[i].version \in Nat
    BY <1>0 DEF Version
  <2>1. ASSUME NEW j \in Item, Edit(j) \/ List(j)
        PROVE  \A i \in Item : remote'[i].version \in Nat /\ remote'[i].version >= remote[i].version
    BY <1>0, <2>0, <2>1 DEF Edit, List
  <2>2. ASSUME NEW c \in Config, Configure(c)
        PROVE  \A i \in Item : remote'[i].version \in Nat /\ remote'[i].version >= remote[i].version
    BY <2>0, <2>2 DEF Configure
  <2> QED
    BY <2>0, <2>1, <2>2 DEF Surroundings
<1>2. Revisions' \in [Item -> Nat] /\ \A i \in Item : Revisions'[i] >= Revisions[i]
  BY <1>1 DEF Revisions
<1>3. config' \in Config /\ UNCHANGED <<runs, items, sync, lists>>
  BY <1>0 DEF Surroundings, Edit, List, Configure
<1>4. UNCHANGED <<RunStates, Stored, lists, OpenAttempts>>
  BY <1>3 DEF RunStates, Stored, OpenAttempts, Attempt
<1> QED
  BY <1>2, <1>3, <1>4 DEF Serial!Change

(* What a call reads, fetches and notes is not seen.                       *)
LEMMA UnseenStep ==
    ASSUME SyncInv, NEW p \in Process,
           \/ NoteDiscovery(p) \/ NoteTables(p) \/ Fetch(p) \/ Raise(p)
           \/ \E i \in Item : ReadItem(p, i) \/ FetchSchema(p, i)
    PROVE  UNCHANGED Serial!serialVars
<1>1. sync \in [Process -> Call] /\ sync[p] \in Call
  BY DEF SyncInv, SyncTypeOK
<1>2. UNCHANGED <<config, remote, runs, items, lists>>
  BY DEF NoteDiscovery, NoteTables, Fetch, Raise, ReadItem, FetchSchema
<1>3. /\ sync[p].at # "idle" /\ sync'[p].at # "idle"
      /\ \A q \in Process \ {p} : sync'[q] = sync[q]
      /\ sync'[p].key = sync[p].key /\ sync'[p].mode = sync[p].mode /\ sync'[p].number = sync[p].number
      /\ sync'[p].listing = sync[p].listing /\ sync'[p].floor = sync[p].floor
  <2>1. CASE NoteDiscovery(p) \/ NoteTables(p)
    BY <1>1, <2>1 DEF NoteDiscovery, NoteTables, Call
  <2>2. CASE Fetch(p)
    BY <1>1, <2>2 DEF Fetch, Call
  <2>3. CASE Raise(p)
    BY <1>1, <2>3 DEF Raise, SyncAt, Call, Working
  <2>4. ASSUME NEW i \in Item, ReadItem(p, i)
        PROVE  /\ sync[p].at # "idle" /\ sync'[p].at # "idle"
               /\ \A q \in Process \ {p} : sync'[q] = sync[q]
               /\ sync'[p].key = sync[p].key /\ sync'[p].mode = sync[p].mode /\ sync'[p].number = sync[p].number
               /\ sync'[p].listing = sync[p].listing /\ sync'[p].floor = sync[p].floor
    <3>1. /\ \A q \in Process \ {p} : sync'[q] = sync[q]
          /\ sync'[p] = [sync[p] EXCEPT !.at = "fetching", !.item = i, !.previous = items[i].asset,
                                        !.fast = (sync[p].mode = "incremental" /\ items[i].status = "ready")]
      BY <1>1, <2>4 DEF ReadItem, Call
    <3>2. sync[p].at # "idle"
      BY <2>4 DEF ReadItem
    <3> QED
      BY <1>1, <3>1, <3>2 DEF Call
  <2>5. ASSUME NEW i \in Item, FetchSchema(p, i)
        PROVE  /\ sync[p].at # "idle" /\ sync'[p].at # "idle"
               /\ \A q \in Process \ {p} : sync'[q] = sync[q]
               /\ sync'[p].key = sync[p].key /\ sync'[p].mode = sync[p].mode /\ sync'[p].number = sync[p].number
               /\ sync'[p].listing = sync[p].listing /\ sync'[p].floor = sync[p].floor
    BY <1>1, <2>5 DEF FetchSchema, Call
  <2> QED
    BY <2>1, <2>2, <2>3, <2>4, <2>5
<1>4. UNCHANGED OpenAttempts
  BY <1>3, AttemptStays
<1>5. UNCHANGED <<Revisions, RunStates, Stored>>
  BY <1>2 DEF Revisions, RunStates, Stored
<1> QED
  BY <1>2, <1>4, <1>5 DEF Serial!serialVars

(* A claim begins an attempt, since none is under way.                     *)
LEMMA ClaimBegins ==
    ASSUME SyncInv, NEW p \in Process, NEW k \in Key, NEW m \in Mode, Claim(p, k, m)
    PROVE  Serial!Begin(k, m = "full")
<1>1. /\ sync \in [Process -> Call] /\ runs \in [Key -> RunRow]
      /\ UNCHANGED <<config, remote, items, lists>>
  BY DEF SyncInv, SyncTypeOK, Claim
<1>2. /\ sync' = [sync EXCEPT ![p] = [NoSync EXCEPT !.at = "discovering", !.key = k, !.mode = m, !.config = config]]
      /\ runs' = [runs EXCEPT ![k] = [status |-> "running", owner |-> p, config |-> config, mode |-> m]]
      /\ \A q \in Process : sync[q].at = "idle"
      /\ runs[k].status = "none" \/ (runs[k].status \in {"running", "failed"} /\ runs[k].config = config)
  BY DEF Claim, LockFree, SameRequest
<1>3. OpenAttempts = {}
  BY <1>2 DEF OpenAttempts
<1>4. OpenAttempts' = {[key |-> k, full |-> m = "full", number |-> 0, listing |-> {}, floor |-> [i \in Item |-> Null]]}
  <2>1. /\ sync'[p].at = "discovering" /\ sync'[p].key = k /\ sync'[p].mode = m /\ sync'[p].number = 0
        /\ sync'[p].listing = {} /\ sync'[p].floor = [i \in Item |-> Null]
        /\ \A q \in Process \ {p} : sync'[q].at = "idle"
    BY <1>1, <1>2 DEF NoSync, NotFetched
  <2>2. OpenAttempts' = {Attempt(p)'}
    BY <2>1 DEF OpenAttempts
  <2> QED
    BY <2>1, <2>2 DEF Attempt
<1>5. RunStates' = [RunStates EXCEPT ![k] = [status |-> "running", config |-> config]]
  BY <1>1, <1>2 DEF RunStates
<1>6. RunStates[k].status = "none" \/ (RunStates[k].status \in {"running", "failed"} /\ RunStates[k].config = config)
  BY <1>2, RunStateAt
<1>7. UNCHANGED <<Revisions, Stored>>
  BY <1>1 DEF Revisions, Stored
<1> QED
  BY <1>1, <1>3, <1>4, <1>5, <1>6, <1>7 DEF Serial!Begin

(* It lists once.                                                          *)
LEMMA DiscoverLists ==
    ASSUME SyncInv, NEW p \in Process, Discover(p)
    PROVE  Serial!MakeListing(Attempt(p), {i \in Item : remote[i].listed})
<1> DEFINE listing == {i \in Item : remote[i].listed}
<1>1. /\ sync[p] \in Call /\ sync[p].at = "discovering" /\ sync[p].number = 0
      /\ UNCHANGED <<config, remote, runs, items>> /\ lists' = lists + 1
  BY DEF SyncInv, SyncTypeOK, CallsFollow, CallFollows, HoldsItem, Discover
<1> HIDE DEF listing
<1>2. /\ \A q \in Process \ {p} : sync'[q] = sync[q]
      /\ sync'[p] = [sync[p] EXCEPT !.at = "listed", !.number = lists + 1, !.listing = listing, !.floor = Revisions]
  BY <1>1 DEF SyncInv, SyncTypeOK, Discover, listing, Revisions
<1>3. /\ sync'[p].at = "listed" /\ sync'[p].number = lists + 1 /\ sync'[p].listing = listing /\ sync'[p].floor = Revisions
      /\ sync'[p].key = sync[p].key /\ sync'[p].mode = sync[p].mode
  BY <1>1, <1>2 DEF Call
<1>4. OpenAttempts' = {Attempt(p)'}
  BY <1>1, <1>2, <1>3, AttemptGoesOn DEF SyncInv
<1>5. Attempt(p)' = [key |-> Attempt(p).key, full |-> Attempt(p).full, number |-> lists + 1,
                     listing |-> listing, floor |-> Revisions]
  <2>1. Attempt(p)' = [key |-> sync[p].key, full |-> (sync[p].mode = "full"), number |-> lists + 1,
                       listing |-> listing, floor |-> Revisions]
    BY <1>3 DEF Attempt
  <2> QED
    BY <2>1, AttemptOf
<1>6. Attempt(p).number = 0
  BY <1>1, AttemptOf
<1>7. UNCHANGED <<Revisions, RunStates, Stored>>
  BY <1>1 DEF Revisions, RunStates, Stored
<1> QED
  BY <1>1, <1>4, <1>5, <1>6, <1>7 DEF Serial!MakeListing, listing

(* A publication brings one item, and leaves the attempt under way.        *)
LEMMA PublicationBrings ==
    ASSUME SyncInv, NEW p \in Process, PublishItem(p)
    PROVE  Serial!Bring(Attempt(p))
<1> DEFINE i == sync[p].item
           asset == IF sync[p].fetched[i] = Null THEN items[i].asset ELSE sync[p].fetched[i]
<1>1. /\ SyncTypeOK /\ sync[p] \in Call /\ CallFollows(p) /\ sync[p].at = "publishing"
      /\ i \in Item /\ i \in sync[p].listing /\ Fenced(p)
      /\ items[i].asset = sync[p].previous
      /\ UNCHANGED <<config, remote, runs, lists>>
  BY ItemInHand DEF SyncInv, PublishItem, AssetKept
<1>2. items' = [items EXCEPT ![i] = Published(p, i, asset)]
  BY DEF PublishItem
<1>3. /\ asset \in sync[p].floor[i] .. remote[i].version
      /\ items[i].asset = Null \/ items[i].asset <= asset
  BY PublishedIsNewer DEF Newer
<1> HIDE DEF asset
<1>4. items'[i] = Published(p, i, asset) /\ \A j \in Item \ {i} : items'[j] = items[j]
  BY <1>1, <1>2 DEF SyncTypeOK
<1>5. Serial!Brings(Attempt(p), i)
  BY <1>1, <1>3, <1>4, PublishedIsBrought
<1>6. \A j \in Item \ {i} : Stored'[j] = Stored[j]
  BY <1>4 DEF Stored
<1>7. Serial!Writes(Attempt(p))
  BY <1>1, <1>5, <1>6, CallWrites
<1>8. UNCHANGED OpenAttempts
  <2>1. /\ \A q \in Process \ {p} : sync'[q] = sync[q]
        /\ sync'[p] = [sync[p] EXCEPT !.at = "next", !.todo = sync[p].todo \ {i}, !.item = Null, !.previous = Null,
                                      !.fast = FALSE, !.fetched = NotFetched]
    BY <1>1 DEF PublishItem, SyncTypeOK
  <2>2. /\ sync'[p].at = "next" /\ sync'[p].key = sync[p].key /\ sync'[p].mode = sync[p].mode
        /\ sync'[p].number = sync[p].number /\ sync'[p].listing = sync[p].listing /\ sync'[p].floor = sync[p].floor
    BY <1>1, <2>1 DEF Call
  <2> QED
    BY <1>1, <2>1, <2>2, AttemptStays
<1>9. UNCHANGED <<Revisions, RunStates>>
  BY <1>1 DEF Revisions, RunStates
<1> QED
  BY <1>1, <1>7, <1>8, <1>9 DEF Serial!Bring

(* A call that succeeds has brought its listing.                           *)
LEMMA SuccessSucceeds ==
    ASSUME SyncInv, NEW p \in Process, Reconcile(p) \/ PublishSchemas(p)
    PROVE  Serial!Succeed(Attempt(p))
<1>1. /\ SyncTypeOK /\ sync[p] \in Call /\ CallFollows(p) /\ sync[p].at \in {"next", "schemas"}
      /\ sync[p].key \in Key /\ sync[p].listing \subseteq Item
      /\ Fenced(p) /\ Brought(p) /\ Succeed(p)
  <2>1. sync[p] \in Call /\ CallFollows(p) /\ sync[p].at \in {"next", "schemas"} /\ Fenced(p) /\ Succeed(p)
    BY DEF SyncInv, SyncTypeOK, CallsFollow, Reconcile, PublishSchemas
  <2>2. sync[p].key \in Key /\ sync[p].listing \subseteq Item
    BY <2>1 DEF CallFollows, HasItsRun, Call
  <2> QED
    BY <2>1, <2>2, ReconcileStep, PublishSchemasStep DEF SyncInv
<1>2. ASSUME NEW i \in Item
      PROVE  Stored'[i] = Stored[i] \/ Serial!Brings(Attempt(p), i) \/ Serial!Drops(Attempt(p), i)
  <2>1. CASE items'[i] = items[i]
    BY <2>1 DEF Stored
  <2>2. CASE Deletable(p, i) /\ items'[i] = Deleted(p, i)
    BY <2>2, DeletedIsDropped
  <2>3. CASE PublishSchemas(p) /\ i \in sync[p].listing
    <3>1. /\ sync[p].at = "schemas" /\ sync[p].todo = {}
          /\ items'[i] = Published(p, i, sync[p].fetched[i])
      BY <1>1, <2>3 DEF PublishSchemas, SyncTypeOK
    <3>2. Fresh(p, i, items[i].asset)
      BY <1>1, <2>3, <3>1 DEF CallFollows, HoldsSchemas
    <3> QED
      BY <2>3, <3>1, <3>2, PublishedIsBrought DEF Fresh, Newer
  <2> QED
    BY <1>1, <2>1, <2>2, <2>3 DEF Reconcile, PublishSchemas
<1>3. Serial!Writes(Attempt(p))
  BY <1>1, <1>2, CallWrites
<1>4. /\ \A i \in Attempt(p).listing : Stored'[i].status = "ready" /\ Stored'[i].asset >= Attempt(p).floor[i]
      /\ Attempt(p).full => \A i \in Item \ Attempt(p).listing : Stored'[i].status # "ready"
  BY <1>1, AttemptOf, StoredNext DEF Brought
<1>5. RunStates' = [RunStates EXCEPT ![Attempt(p).key].status = "succeeded"]
  <2>1. runs' = [runs EXCEPT ![sync[p].key].status = "succeeded", ![sync[p].key].owner = Null]
    BY <1>1 DEF Succeed
  <2>2. /\ runs'[sync[p].key].status = "succeeded" /\ runs'[sync[p].key].config = runs[sync[p].key].config
        /\ \A k \in Key \ {sync[p].key} : runs'[k] = runs[k]
    BY <1>1, <2>1 DEF SyncTypeOK, RunRow
  <2>3. Attempt(p).key = sync[p].key
    BY AttemptOf
  <2> QED
    BY <1>1, <2>2, <2>3 DEF RunStates
<1>6. OpenAttempts' = {}
  BY <1>1, AttemptEnds DEF Succeed
<1>7. UNCHANGED <<config, Revisions, lists>>
  BY <1>1 DEF Succeed, Revisions
<1> QED
  BY <1>3, <1>4, <1>5, <1>6, <1>7 DEF Serial!Succeed

(* A call that fails, or whose process ends, abandons its attempt.         *)
LEMMA EndAbandons ==
    ASSUME SyncInv, NEW p \in Process, Fail(p) \/ Die(p)
    PROVE  Serial!Abandon(Attempt(p))
<1>1. /\ SyncTypeOK /\ CallFollows(p) /\ sync[p].at # "idle" /\ sync[p].key \in Key
      /\ sync' = [sync EXCEPT ![p] = NoSync] /\ UNCHANGED <<config, remote, items, lists>>
  BY DEF SyncInv, CallsFollow, CallFollows, HasItsRun, Fail, Die
<1>2. RunStates' \in {RunStates, [RunStates EXCEPT ![Attempt(p).key].status = "failed"]}
  <2>1. CASE UNCHANGED runs
    BY <2>1 DEF RunStates
  <2>2. CASE runs' = [runs EXCEPT ![sync[p].key].status = "failed", ![sync[p].key].owner = Null]
    <3>1. /\ runs'[sync[p].key].status = "failed" /\ runs'[sync[p].key].config = runs[sync[p].key].config
          /\ \A k \in Key \ {sync[p].key} : runs'[k] = runs[k]
      BY <1>1, <2>2 DEF SyncTypeOK, RunRow
    <3>2. Attempt(p).key = sync[p].key
      BY AttemptOf
    <3> QED
      BY <1>1, <3>1, <3>2 DEF RunStates
  <2> QED
    BY <2>1, <2>2 DEF Fail, Die
<1>3. OpenAttempts' = {}
  BY <1>1, AttemptEnds
<1>4. UNCHANGED <<config, Revisions, Stored, lists>>
  BY <1>1 DEF Revisions, Stored
<1> QED
  BY <1>2, <1>3, <1>4 DEF Serial!Abandon

(* Each step is one of an attempt, or not seen.                            *)
LEMMA SerialStep == SyncInv /\ [SyncNext]_syncVars => [Serial!SerialNext]_(Serial!serialVars)
<1> SUFFICES ASSUME SyncInv, [SyncNext]_syncVars PROVE Serial!SerialNext \/ UNCHANGED Serial!serialVars
  OBVIOUS
<1>1. CASE UNCHANGED syncVars
  BY <1>1 DEF syncVars, Serial!serialVars, Revisions, RunStates, Stored, OpenAttempts, Attempt
<1>2. CASE Surroundings
  BY <1>2, SurroundingsChange DEF Serial!SerialNext
<1>3. ASSUME NEW p \in Process, NEW k \in Key, NEW m \in Mode, Claim(p, k, m) PROVE Serial!SerialNext
  BY <1>3, ClaimBegins DEF Serial!SerialNext
<1>4. ASSUME NEW p \in Process, Discover(p) \/ PublishItem(p) \/ Reconcile(p) \/ PublishSchemas(p) \/ Fail(p) \/ Die(p)
      PROVE  Serial!SerialNext
  <2>1. Attempt(p) \in OpenAttempts
    BY <1>4 DEF OpenAttempts, Discover, PublishItem, Reconcile, PublishSchemas, Fail, Die
  <2>2. \/ \E listing \in SUBSET Item : Serial!MakeListing(Attempt(p), listing)
        \/ Serial!Bring(Attempt(p)) \/ Serial!Succeed(Attempt(p)) \/ Serial!Abandon(Attempt(p))
    <3>1. CASE Discover(p)
      BY <3>1, DiscoverLists
    <3> QED
      BY <1>4, <3>1, PublicationBrings, SuccessSucceeds, EndAbandons
  <2> QED
    BY <2>1, <2>2 DEF Serial!SerialNext
<1> QED
  BY <1>1, <1>2, <1>3, <1>4, UnseenStep DEF SyncNext, Step

(* Processes that sync, fail, die and take runs over do what one attempt   *)
(* after the other could do (feishu_sync.py, lines 83-91 and 99).          *)
THEOREM SyncsAreSerial == SyncSpec => IsSerial
BY SyncInductive, SerialInitial, SerialStep, PTL DEF SyncSpec, IsSerial, Serial!SerialSpec
=============================================================================
