--------------------------- MODULE WriterAuthority ---------------------------
(***************************************************************************)
(* Who may write a persistent workspace: its lifecycle lock, its freeze    *)
(* marker and the revisions of its authority journal                       *)
(* (local/writer_authority.py, local/workspace_freeze.py, the opening of   *)
(* local/workspace.py, the descriptors a WikiQueueWorker retains).         *)
(*                                                                         *)
(* Every flock is taken without waiting: a command that meets a held lock, *)
(* or any other refusal, ends in its finally clauses, which close its      *)
(* descriptors and leave the disk as it is (Refuse).                       *)
(*                                                                         *)
(* A digest is modelled by what it is the digest of: the freeze receipt by *)
(* the operation in the marker (the directory and the workspace manifest   *)
(* are the same in every marker of one workspace), an installation         *)
(* manifest by itself, the event before by the position in the journal.    *)
(* One authority directory is modelled, and nobody edits its files by hand.*)
(***************************************************************************)
EXTENDS Integers, Sequences

CONSTANTS
    Process,     \* processes that open the workspace or run a command
    Op,          \* operation identifiers
    Prepared,    \* PREPARED installation manifests (assign to Knowledge)
    RolledBack,  \* ROLLED_BACK manifests with their evidence (assign away)
    None,        \* no operation, no manifest, no file
    Torn,        \* a .part file whose bytes are not all written
    MaxRevision  \* bound on the length of the journal

ASSUME AuthorityAssumption ==
    /\ None \notin Op \cup Prepared \cup RolledBack
    /\ Torn \notin Op \cup {None}
    /\ Prepared \cap RolledBack = {}
    /\ MaxRevision \in Nat \ {0}

VARIABLES
    home,      \* workspace.json and .initializing: absent, initializing, ready
    binding,   \* operation in .workspace-authority-v1.json, or None
    bindingPart, \* the same for its .part file
    marker,    \* operation in .workspace-freeze-v1.json, or None
    part,      \* the same for its .part file
    journal,   \* events of journal.json; <<>> while the file is missing
    receipts,  \* revisions with a thaw-receipt-rev<N>.json
    retired,   \* revisions with a freeze-marker-rev<N>.json
    pointer,   \* revision the active-installation.json names; 0 for none
    pc,        \* where the main thread of a process is
    task,      \* the operation and the manifest of its command
    worker,    \* its queue worker: none, running, exiting
    workspaceFds, \* its open descriptors on the workspace lock
    authorityFds  \* its open descriptors on the authority lock

disk == <<home, binding, bindingPart, marker, part, journal, receipts, retired, pointer>>
locks == <<workspaceFds, authorityFds>>
vars == <<disk, pc, task, worker, locks>>

Manifest == Prepared \cup RolledBack

\* An event of the journal: what it commits to.
Event == [state : {"existing_writer", "suspended", "assigned"},
          op : Op, freeze : Op \cup {None}, manifest : Manifest \cup {None}]

\* Who opened a descriptor on a lock file.  Those of a worker are dups of
\* the api's, so a lock is held until the last of its descriptors closes.
Descriptor == {"api", "worker", "command"}

----------------------------------------------------------------------------
Revision == Len(journal)
HeadEvent == journal[Revision]
Enrolled(o) == [state |-> "existing_writer", op |-> o, freeze |-> None, manifest |-> None]
Suspended(o) == [state |-> "suspended", op |-> o, freeze |-> o, manifest |-> None]
Assigned(o, m, f) == [state |-> "assigned", op |-> o, freeze |-> f, manifest |-> m]
AssignedToSelf == HeadEvent.state = "assigned" /\ HeadEvent.manifest \in Prepared

WorkspaceFree == \A q \in Process : workspaceFds[q] = {}
AuthorityFree_Unlocked == TRUE
AuthorityFree == \A q \in Process : authorityFds[q] = {}
\* Readers share the authority lock; commands take it exclusively.
AuthorityShareable == \A q \in Process : "command" \notin authorityFds[q]

Frozen == marker # None \/ part # None
\* load_binding finds a complete enrollment.
Bound == binding # None /\ bindingPart = None

\* The head of the journal lets Knowledge write.
Admits == HeadEvent.state = "existing_writer" \/ AssignedToSelf
\* acquire_writer also wants the active pointer to name an assigned head.
AcquireWriter == Admits /\ (AssignedToSelf => pointer = Revision)

OpenWorkspace(p, who) == workspaceFds' = [workspaceFds EXCEPT ![p] = @ \cup {who}]
OpenAuthority(p, who) == authorityFds' = [authorityFds EXCEPT ![p] = @ \cup {who}]
CloseWorkspace(p, who) == workspaceFds' = [workspaceFds EXCEPT ![p] = @ \ {who}]
CloseAuthority(p, who) == authorityFds' = [authorityFds EXCEPT ![p] = @ \ {who}]
Go(p, label) == pc' = [pc EXCEPT ![p] = label]
Start(p, label, o) == Go(p, label) /\ task' = [task EXCEPT ![p] = [op |-> o, kind |-> label]]

Init ==
    /\ home = "absent"
    /\ binding = None /\ bindingPart = None
    /\ marker = None /\ part = None
    /\ journal = << >>
    /\ receipts = {} /\ retired = {} /\ pointer = 0
    /\ pc = [p \in Process |-> "idle"]
    /\ task = [p \in Process |-> [op |-> None, kind |-> "idle"]]
    /\ worker = [p \in Process |-> "none"]
    /\ workspaceFds = [p \in Process |-> {}]
    /\ authorityFds = [p \in Process |-> {}]

----------------------------------------------------------------------------
\* Opening a workspace, its worker, and leaving it.

OpenLock(p) ==
    /\ pc[p] = "idle"
    /\ bindingPart = None /\ ~Frozen
    /\ WorkspaceFree
    /\ Go(p, "opening")
    /\ OpenWorkspace(p, "api")
    /\ UNCHANGED <<disk, task, worker, authorityFds>>

\* The checks made before the lock are repeated under it.
Admit(p) ==
    /\ pc[p] = "opening"
    /\ bindingPart = None /\ ~Frozen
    /\ binding # None => AuthorityShareable /\ AcquireWriter
    /\ home # "initializing"
    /\ Go(p, IF home = "ready" THEN "open" ELSE "initializing")
    /\ home' = IF home = "ready" THEN home ELSE "initializing"
    /\ IF binding = None THEN UNCHANGED authorityFds ELSE OpenAuthority(p, "api")
    /\ UNCHANGED <<binding, bindingPart, marker, part, journal, receipts, retired, pointer,
                   task, worker, workspaceFds>>

\* The .initializing marker goes when the manifest is written.
Initialise(p) ==
    /\ pc[p] = "initializing"
    /\ Go(p, "open")
    /\ home' = "ready"
    /\ UNCHANGED <<binding, bindingPart, marker, part, journal, receipts, retired, pointer,
                   task, worker, locks>>

\* A worker dups what the api holds.
Retain(p) ==
    /\ OpenWorkspace(p, "worker")
    /\ IF "api" \in authorityFds[p] THEN OpenAuthority(p, "worker") ELSE UNCHANGED authorityFds

StartWorker(p) ==
    /\ pc[p] = "open"
    /\ worker[p] = "none"
    /\ binding # None => "api" \in authorityFds[p] /\ Admits
    /\ worker' = [worker EXCEPT ![p] = "running"]
    /\ Retain(p)
    /\ UNCHANGED <<disk, pc, task>>

\* __exit__ closes the authority descriptor first, then the lock; a worker
\* that outlives its bounded close still has its own.
CloseApi(p) ==
    /\ pc[p] = "open"
    /\ Go(p, "closing")
    /\ CloseAuthority(p, "api")
    /\ UNCHANGED <<disk, task, worker, workspaceFds>>

ReleaseApi(p) ==
    /\ pc[p] = "closing"
    /\ Go(p, "idle")
    /\ CloseWorkspace(p, "api")
    /\ UNCHANGED <<disk, task, worker, authorityFds>>

ExitWorker(p) ==
    /\ worker[p] = "running"
    /\ worker' = [worker EXCEPT ![p] = "exiting"]
    /\ CloseAuthority(p, "worker")
    /\ UNCHANGED <<disk, pc, task, workspaceFds>>

ReleaseWorker(p) ==
    /\ worker[p] = "exiting"
    /\ worker' = [worker EXCEPT ![p] = "none"]
    /\ CloseWorkspace(p, "worker")
    /\ UNCHANGED <<disk, pc, task, authorityFds>>

----------------------------------------------------------------------------
\* enroll: the journal first, then the binding by way of its .part.

EnrollLock(p, o) ==
    /\ pc[p] = "idle"
    /\ home = "ready"
    /\ ~Frozen
    /\ WorkspaceFree
    /\ Start(p, "enroll", o)
    /\ OpenWorkspace(p, "command")
    /\ UNCHANGED <<disk, worker, authorityFds>>

\* A retry finds the journal of its own first attempt.
Enrollable_Any(o) == TRUE
Enrollable(o) == journal \in {<< >>, <<Enrolled(o)>>}

EnrollJournal(p) ==
    /\ pc[p] = "enroll"
    /\ AuthorityFree
    /\ {binding, bindingPart} \subseteq {None, task[p].op}
    /\ Enrollable(task[p].op)
    /\ journal' = <<Enrolled(task[p].op)>>
    /\ Go(p, "enroll_journal")
    /\ OpenAuthority(p, "command")
    /\ UNCHANGED <<home, binding, bindingPart, marker, part, receipts, retired, pointer,
                   task, worker, workspaceFds>>

\* The .part is created, then written; a complete one is reused.
EnrollPart(p) ==
    /\ binding = None
    /\ \/ pc[p] = "enroll_journal" /\ bindingPart = None /\ bindingPart' = Torn /\ Go(p, "enroll_torn")
       \/ pc[p] = "enroll_torn" /\ bindingPart' = task[p].op /\ Go(p, "enroll_journal")
    /\ UNCHANGED <<home, binding, marker, part, journal, receipts, retired, pointer, task, worker, locks>>

EnrollPublish(p) ==
    /\ pc[p] = "enroll_journal"
    /\ (binding = None) <=> (bindingPart # None)
    /\ binding' = task[p].op
    /\ bindingPart' = None
    /\ Go(p, "idle")
    /\ CloseWorkspace(p, "command") /\ CloseAuthority(p, "command")
    /\ UNCHANGED <<home, marker, part, journal, receipts, retired, pointer, task, worker>>

----------------------------------------------------------------------------
\* freeze_workspace, alone or as the first half of suspend.

StartFreeze(p, o) ==
    /\ pc[p] = "idle"
    /\ home = "ready"
    /\ Start(p, "freeze", o)
    /\ UNCHANGED <<disk, worker, locks>>

StartSuspend(p, o) ==
    /\ pc[p] = "idle"
    /\ Bound
    /\ HeadEvent.state = "suspended" => HeadEvent.op = o /\ marker = HeadEvent.freeze /\ part = None
    /\ Start(p, "suspend", o)
    /\ UNCHANGED <<disk, worker, locks>>

\* A retry resumes from the publication step the marker and .part show;
\* those of another operation, or torn, are rejected.
FreezeLock(p) ==
    /\ pc[p] \in {"freeze", "suspend"}
    /\ WorkspaceFree
    /\ {marker, part} \subseteq {None, task[p].op}
    /\ Go(p, IF part # None THEN IF marker # None THEN "linked" ELSE "staged"
             ELSE IF marker # None THEN "sealed" ELSE "unstaged")
    /\ OpenWorkspace(p, "command")
    /\ UNCHANGED <<disk, task, worker, authorityFds>>

\* The .part is created, written, linked to the marker's name, unlinked.
Publish(p) ==
    /\ \/ pc[p] = "unstaged" /\ part' = Torn /\ Go(p, "torn") /\ UNCHANGED marker
       \/ pc[p] = "torn" /\ part' = task[p].op /\ Go(p, "staged") /\ UNCHANGED marker
       \/ pc[p] = "staged" /\ marker' = part /\ Go(p, "linked") /\ UNCHANGED part
       \/ pc[p] = "linked" /\ part' = None /\ Go(p, "sealed") /\ UNCHANGED marker
    /\ UNCHANGED <<home, binding, bindingPart, journal, receipts, retired, pointer, task, worker, locks>>

EndFreeze(p) ==
    /\ pc[p] = "sealed"
    /\ Go(p, IF task[p].kind = "suspend" THEN "frozen" ELSE "idle")
    /\ CloseWorkspace(p, "command")
    /\ UNCHANGED <<disk, task, worker, authorityFds>>

\* The second half of suspend.  No lock was held since EndFreeze; the head
\* is read anew, and whatever it is now, if not suspended, is superseded.
CommitSuspension(p) ==
    /\ pc[p] = "frozen"
    /\ Bound
    /\ AuthorityFree
    /\ \/ HeadEvent = Suspended(task[p].op) /\ UNCHANGED journal
       \/ /\ HeadEvent.state # "suspended"
          /\ Revision < MaxRevision
          /\ journal' = Append(journal, Suspended(task[p].op))
    /\ Go(p, "idle")
    /\ UNCHANGED <<home, binding, bindingPart, marker, part, receipts, retired, pointer, task, worker, locks>>

----------------------------------------------------------------------------
\* assign and thaw.  The kind of the manifest decides the writer.

\* The marker on disk is the one the suspension committed to.
MarkerCommitted_Unread == TRUE
MarkerCommitted == part = None /\ marker = HeadEvent.freeze

Assignable_Head(o) == HeadEvent.state # "existing_writer" /\ HeadEvent.op = o
Assignable(o) == HeadEvent.state = "suspended" /\ HeadEvent.op = o

Assign(p, o, m) ==
    /\ pc[p] = "idle"
    /\ Bound
    /\ AuthorityFree
    /\ Assignable(o)
    /\ MarkerCommitted
    /\ Revision < MaxRevision
    /\ journal' = Append(journal, Assigned(o, m, HeadEvent.freeze))
    /\ UNCHANGED <<home, binding, bindingPart, marker, part, receipts, retired, pointer,
                   pc, task, worker, locks>>

Thawer_Any(o, m) == HeadEvent.state = "assigned" /\ HeadEvent.op = o /\ HeadEvent.manifest = m
Thawer(o, m) == AssignedToSelf /\ HeadEvent.op = o /\ HeadEvent.manifest = m

\* thaw accepts each state that a crash can have left.
Thawable(o, m) ==
    /\ Thawer(o, m)
    /\ part = None
    /\ IF Revision \in retired THEN marker = None /\ Revision \in receipts
                               ELSE marker = HeadEvent.freeze

\* The receipt is on disk before the marker is touched.
Recorded_Later == receipts
Recorded == receipts \cup {Revision}

ThawReceipt(p, o, m) ==
    /\ pc[p] = "idle"
    /\ Bound
    /\ WorkspaceFree /\ AuthorityFree
    /\ Thawable(o, m)
    /\ receipts' = Recorded
    /\ Start(p, "thaw", o)
    /\ OpenWorkspace(p, "command") /\ OpenAuthority(p, "command")
    /\ UNCHANGED <<home, binding, bindingPart, marker, part, journal, retired, pointer, worker>>

\* The marker moves to the authority directory: one rename.
ThawRetire(p) ==
    /\ pc[p] = "thaw"
    /\ marker' = None
    /\ retired' = retired \cup {Revision}
    /\ Go(p, "idle")
    /\ CloseWorkspace(p, "command") /\ CloseAuthority(p, "command")
    /\ UNCHANGED <<home, binding, bindingPart, part, journal, receipts, pointer, task, worker>>

----------------------------------------------------------------------------
\* A refusal or an exception: the descriptors of the main thread close.
Refuse(p) ==
    /\ pc[p] # "idle"
    /\ Go(p, "idle")
    /\ workspaceFds' = [workspaceFds EXCEPT ![p] = @ \ {"api", "command"}]
    /\ authorityFds' = [authorityFds EXCEPT ![p] = @ \ {"api", "command"}]
    /\ UNCHANGED <<disk, task, worker>>

\* The process dies, its worker with it.
Die(p) ==
    /\ worker[p] # "none" \/ pc[p] # "idle"
    /\ Go(p, "idle")
    /\ worker' = [worker EXCEPT ![p] = "none"]
    /\ workspaceFds' = [workspaceFds EXCEPT ![p] = {}]
    /\ authorityFds' = [authorityFds EXCEPT ![p] = {}]
    /\ UNCHANGED <<disk, task>>

\* The Harness publishes the installation the head assigns (external).
PublishPointer ==
    /\ Bound
    /\ AssignedToSelf
    /\ pointer' = Revision
    /\ UNCHANGED <<home, binding, bindingPart, marker, part, journal, receipts, retired,
                   pc, task, worker, locks>>

Next ==
    \/ PublishPointer
    \/ \E p \in Process :
        \/ OpenLock(p) \/ Admit(p) \/ Initialise(p) \/ CloseApi(p) \/ ReleaseApi(p)
        \/ StartWorker(p) \/ ExitWorker(p) \/ ReleaseWorker(p)
        \/ EnrollJournal(p) \/ EnrollPart(p) \/ EnrollPublish(p)
        \/ FreezeLock(p) \/ Publish(p) \/ EndFreeze(p) \/ CommitSuspension(p)
        \/ ThawRetire(p) \/ Refuse(p) \/ Die(p)
        \/ \E o \in Op : EnrollLock(p, o) \/ StartFreeze(p, o) \/ StartSuspend(p, o)
        \/ \E o \in Op, m \in Manifest : Assign(p, o, m) \/ ThawReceipt(p, o, m)

Spec == Init /\ [][Next]_vars

----------------------------------------------------------------------------
\* The types of the files, the threads and the descriptors.
TypeOK ==
    /\ home \in {"absent", "initializing", "ready"}
    /\ binding \in Op \cup {None} /\ bindingPart \in Op \cup {None, Torn}
    /\ marker \in Op \cup {None} /\ part \in Op \cup {None, Torn}
    /\ journal \in Seq(Event) /\ Revision <= MaxRevision
    /\ receipts \subseteq 1..Revision /\ retired \subseteq receipts /\ pointer \in 0..Revision
    /\ pc \in [Process -> {"idle", "opening", "initializing", "open", "closing",
                           "enroll", "enroll_journal", "enroll_torn", "freeze", "suspend",
                           "unstaged", "torn", "staged", "linked", "sealed", "frozen", "thaw"}]
    /\ task \in [Process -> [op : Op \cup {None}, kind : {"idle", "enroll", "freeze", "suspend", "thaw"}]]
    /\ worker \in [Process -> {"none", "running", "exiting"}]
    /\ workspaceFds \in [Process -> SUBSET Descriptor]
    /\ authorityFds \in [Process -> SUBSET Descriptor]

\* A process that may write the workspace: its api or its worker is at work.
Writing(p) == pc[p] \in {"initializing", "open"} \/ worker[p] = "running"
Writers == {p \in Process : Writing(p)}
MayWrite == Bound => Admits

\* A process writes only while the journal lets Knowledge write and no
\* freeze marker or .part exists, even a worker whose api has closed
\* ("both leases remain held through its last local settlement write").
WritersAreAdmitted == Writers # {} => MayWrite /\ ~Frozen

\* At most one process writes a workspace.
OneWriter == \A p, q \in Writers : p = q

\* Events alternate and an assignment repeats the freeze commitment of the
\* suspension before it ("the chain never regresses or skips").
LawfulChain ==
    \A n \in 1..Revision :
        /\ (n = 1) <=> (journal[n].state = "existing_writer")
        /\ n > 1 => ((journal[n].state = "assigned") <=> (journal[n - 1].state = "suspended"))
        /\ journal[n].state = "assigned" =>
              journal[n].op = journal[n - 1].op /\ journal[n].freeze = journal[n - 1].freeze

\* A workspace assigned away is still frozen by the marker the assignment
\* commits to ("assigned-away workspaces stay frozen").
AssignedAwayIsFrozen == Bound /\ HeadEvent.state = "assigned" /\ HeadEvent.manifest \in RolledBack => MarkerCommitted

\* Whatever a crash left behind, the thaw of the head is accepted again,
\* unless it is done and a newer freeze has begun ("each retries exactly").
ThawRetries ==
    Bound /\ AssignedToSelf =>
        \/ Thawable(HeadEvent.op, HeadEvent.manifest)
        \/ Revision \in retired /\ Frozen

\* Suspended workspaces stay frozen: the doc's claim.  See the finding.
SuspendedStaysFrozen == Bound /\ HeadEvent.state = "suspended" => MarkerCommitted

\* The journal is only appended to, and never while a process writes.
JournalOnlyGrows ==
    [][journal' # journal => /\ SubSeq(journal', 1, Len(journal)) = journal
                             /\ Len(journal') = Len(journal) + 1
                             /\ Writers = {}]_vars

\* The marker disappears only when the head has assigned the workspace to
\* Knowledge and its receipt is on disk ("never silently deleted").
MarkerLeavesAReceipt ==
    [][marker # None /\ marker' = None => AssignedToSelf /\ Revision \in receipts /\ Revision \in retired']_vars

----------------------------------------------------------------------------
\* The inductive invariant: what each lock, and each point of a command,
\* says of the descriptors and of the files.
Exclusive ==
    /\ \A p, q \in Process : workspaceFds[p] # {} /\ workspaceFds[q] # {} => p = q
    /\ \A p, q \in Process : "command" \in authorityFds[p] /\ authorityFds[q] # {} => p = q
    /\ \A p \in Process : "command" \in workspaceFds[p] => workspaceFds[p] = {"command"}
    /\ \A p \in Process : "command" \in authorityFds[p] => authorityFds[p] = {"command"}

HoldsWorkspace ==
    \A p \in Process :
        /\ pc[p] \in {"opening", "initializing", "open", "closing"} => "api" \in workspaceFds[p]
        /\ worker[p] # "none" => "worker" \in workspaceFds[p]
        /\ pc[p] \in {"enroll", "enroll_journal", "enroll_torn", "unstaged", "torn", "staged",
                      "linked", "sealed", "thaw"} => "command" \in workspaceFds[p]

HoldsAuthority ==
    \A p \in Process :
        /\ pc[p] \in {"enroll_journal", "enroll_torn", "thaw"} => "command" \in authorityFds[p]
        /\ pc[p] \in {"initializing", "open"} /\ binding # None => "api" \in authorityFds[p]
        /\ worker[p] = "running" /\ binding # None => "worker" \in authorityFds[p]

\* What the point a command has reached says of the files.
Progress ==
    \A p \in Process :
        /\ pc[p] # "idle" /\ pc[p] \notin {"opening", "initializing", "open", "closing"} => task[p].op \in Op
        /\ pc[p] \in {"enroll_journal", "enroll_torn"} => journal # << >>
        /\ pc[p] = "unstaged" => marker = None /\ part = None
        /\ pc[p] = "torn" => marker = None /\ part = Torn
        /\ pc[p] = "staged" => marker = None /\ part = task[p].op
        /\ pc[p] = "linked" => marker = task[p].op /\ part = task[p].op
        /\ pc[p] = "sealed" => part = None
        /\ pc[p] = "thaw" => AssignedToSelf /\ Revision \in receipts

\* A binding has a journal; a suspension names the operation that froze.
Committed ==
    /\ binding # None \/ bindingPart # None => journal # << >>
    /\ \A n \in 1..Revision : journal[n].state # "existing_writer" => journal[n].freeze \in Op

\* An assignment keeps its marker until its own thaw retires it.
MarkerKept ==
    journal # << >> /\ HeadEvent.state = "assigned" =>
        /\ Revision \in retired => HeadEvent.manifest \in Prepared
        /\ Revision \notin retired => MarkerCommitted

IInv ==
    /\ TypeOK /\ Exclusive /\ HoldsWorkspace /\ HoldsAuthority
    /\ Progress /\ Committed /\ MarkerKept /\ LawfulChain /\ WritersAreAdmitted

Fence == INSTANCE WriterFence WITH allowed <- MayWrite /\ ~Frozen, inside <- Writers
\* The files and locks implement the abstract fence.
ImplementsFence == Fence!Spec
=============================================================================
