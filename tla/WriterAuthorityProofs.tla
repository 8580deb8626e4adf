------------------------ MODULE WriterAuthorityProofs ------------------------
(***************************************************************************)
(* Theorems about WriterAuthority for any processes, operations, manifests *)
(* and length of the journal.  The locks make each change of the files the *)
(* act of a single process (Exclusive, HoldsWorkspace, HoldsAuthority);    *)
(* what that process has read then stays true until it acts (Progress).    *)
(***************************************************************************)
EXTENDS WriterAuthority, TLAPS

LEMMA InitInvariant == Init => IInv
<1> SUFFICES ASSUME Init PROVE IInv
  OBVIOUS
<1> USE AuthorityAssumption DEF Init, Revision
<1>1. TypeOK
  BY DEF TypeOK
<1>2. Exclusive /\ HoldsWorkspace /\ HoldsAuthority
  BY DEF Exclusive, HoldsWorkspace, HoldsAuthority
<1>3. Progress /\ Committed /\ MarkerKept
  BY DEF Progress, Committed, MarkerKept
<1>4. LawfulChain
  BY DEF LawfulChain
<1>5. WritersAreAdmitted
  BY DEF WritersAreAdmitted, Writers, Writing
<1> QED
  BY <1>1, <1>2, <1>3, <1>4, <1>5 DEF IInv

(* Files, threads and descriptors keep their types. *)
LEMMA TypeStep == TypeOK /\ Progress /\ Committed /\ [Next]_vars => TypeOK'
<1> SUFFICES ASSUME TypeOK /\ Progress /\ Committed, [Next]_vars PROVE TypeOK'
  OBVIOUS
<1> USE AuthorityAssumption DEF TypeOK, Descriptor, Revision
<1>1. CASE PublishPointer
  BY <1>1 DEF PublishPointer, Bound, Committed, disk, locks
<1>2. ASSUME NEW p \in Process, OpenLock(p)
      PROVE  TypeOK'
  BY <1>2 DEF OpenLock, Go, OpenWorkspace, WorkspaceFree, disk
<1>3. ASSUME NEW p \in Process, Admit(p)
      PROVE  TypeOK'
  <2>1. authorityFds' \in [Process -> SUBSET Descriptor]
    BY <1>3 DEF Admit, OpenAuthority
  <2> QED
    BY <1>3, <2>1 DEF Admit, Go
<1>4. ASSUME NEW p \in Process, Initialise(p)
      PROVE  TypeOK'
  BY <1>4 DEF Initialise, Go, disk, locks
<1>5. ASSUME NEW p \in Process, CloseApi(p)
      PROVE  TypeOK'
  BY <1>5 DEF CloseApi, Go, CloseAuthority, disk
<1>6. ASSUME NEW p \in Process, ReleaseApi(p)
      PROVE  TypeOK'
  BY <1>6 DEF ReleaseApi, Go, CloseWorkspace, disk
<1>7. ASSUME NEW p \in Process, StartWorker(p)
      PROVE  TypeOK'
  BY <1>7 DEF StartWorker, Retain, OpenWorkspace, OpenAuthority, disk
<1>8. ASSUME NEW p \in Process, ExitWorker(p)
      PROVE  TypeOK'
  BY <1>8 DEF ExitWorker, CloseAuthority, disk
<1>9. ASSUME NEW p \in Process, ReleaseWorker(p)
      PROVE  TypeOK'
  BY <1>9 DEF ReleaseWorker, CloseWorkspace, disk
<1>10. ASSUME NEW p \in Process, EnrollJournal(p)
      PROVE  TypeOK'
  <2>1. Enrolled(task[p].op) \in Event
    BY <1>10 DEF EnrollJournal, Progress, Enrolled, Event
  <2>2. /\ journal' \in Seq(Event) /\ Len(journal') = 1
        /\ Len(journal) = 0 \/ Len(journal) = 1
    BY <1>10, <2>1 DEF EnrollJournal, Enrollable
  <2>3. receipts \subseteq 1..1 /\ pointer \in 0..1
    <3>1. ASSUME NEW k \in {0, 1}, receipts \subseteq 1..k, pointer \in 0..k
          PROVE  receipts \subseteq 1..1 /\ pointer \in 0..1
      BY <3>1
    <3>2. Len(journal) \in {0, 1}
      BY <2>2
    <3>3. receipts \subseteq 1..Len(journal) /\ pointer \in 0..Len(journal)
      OBVIOUS
    <3> QED
      BY <3>1, <3>2, <3>3
  <2>4. /\ UNCHANGED <<receipts, retired, pointer>>
        /\ Len(journal') <= MaxRevision
    BY <1>10, <2>2 DEF EnrollJournal
  <2> QED
    BY <1>10, <2>2, <2>3, <2>4 DEF EnrollJournal, Go, OpenAuthority
<1>11. ASSUME NEW p \in Process, EnrollPart(p)
      PROVE  TypeOK'
  BY <1>11 DEF EnrollPart, Go, Progress, disk, locks
<1>12. ASSUME NEW p \in Process, EnrollPublish(p)
      PROVE  TypeOK'
  BY <1>12 DEF EnrollPublish, Go, CloseWorkspace, CloseAuthority, Progress, disk
<1>13. ASSUME NEW p \in Process, FreezeLock(p)
      PROVE  TypeOK'
  BY <1>13 DEF FreezeLock, Go, OpenWorkspace, WorkspaceFree, disk
<1>14. ASSUME NEW p \in Process, Publish(p)
      PROVE  TypeOK'
  BY <1>14 DEF Publish, Go, Progress, disk, locks
<1>15. ASSUME NEW p \in Process, EndFreeze(p)
      PROVE  TypeOK'
  BY <1>15 DEF EndFreeze, Go, CloseWorkspace, disk
<1>16. ASSUME NEW p \in Process, CommitSuspension(p)
      PROVE  TypeOK'
  <2>1. task[p].op \in Op
    BY <1>16 DEF CommitSuspension, Progress
  <2>2. CASE UNCHANGED journal
    BY <1>16, <2>2 DEF CommitSuspension, Go, disk, locks
  <2>3. CASE /\ HeadEvent.state # "suspended"
             /\ Revision < MaxRevision
             /\ journal' = Append(journal, Suspended(task[p].op))
    BY <1>16, <2>1, <2>3 DEF CommitSuspension, Go, Suspended, disk, locks, Event, Bound, Committed
  <2> QED
    BY <1>16, <2>2, <2>3 DEF CommitSuspension
<1>17. ASSUME NEW p \in Process, ThawRetire(p)
      PROVE  TypeOK'
  BY <1>17 DEF ThawRetire, Go, CloseWorkspace, CloseAuthority, Progress, disk
<1>18. ASSUME NEW p \in Process, Refuse(p)
      PROVE  TypeOK'
  BY <1>18 DEF Refuse, Go, disk
<1>19. ASSUME NEW p \in Process, Die(p)
      PROVE  TypeOK'
  BY <1>19 DEF Die, Go, disk
<1>20. ASSUME NEW p \in Process, NEW o \in Op, EnrollLock(p, o)
      PROVE  TypeOK'
  BY <1>20 DEF EnrollLock, Start, Go, OpenWorkspace, WorkspaceFree, disk
<1>21. ASSUME NEW p \in Process, NEW o \in Op, StartFreeze(p, o)
      PROVE  TypeOK'
  BY <1>21 DEF StartFreeze, Start, Go, disk, locks
<1>22. ASSUME NEW p \in Process, NEW o \in Op, StartSuspend(p, o)
      PROVE  TypeOK'
  BY <1>22 DEF StartSuspend, Start, Go, disk, locks
<1>23. ASSUME NEW p \in Process, NEW o \in Op, NEW m \in Manifest,
               Assign(p, o, m)
      PROVE  TypeOK'
  BY <1>23 DEF Assign, Assigned, Event, Manifest, HeadEvent, Assignable, Bound, Committed, disk, locks
<1>24. ASSUME NEW p \in Process, NEW o \in Op, NEW m \in Manifest,
               ThawReceipt(p, o, m)
      PROVE  TypeOK'
  <2>1. Revision \in 1..Revision
    BY <1>24 DEF ThawReceipt, Bound, Committed
  <2> QED
    BY <1>24, <2>1 DEF ThawReceipt, Start, Go, OpenWorkspace, OpenAuthority, Recorded
<1>25. CASE UNCHANGED vars
  BY <1>25 DEF vars, locks, disk
<1> QED
  BY <1>1, <1>2, <1>3, <1>4, <1>5, <1>6, <1>7, <1>8, <1>9, <1>10, <1>11, <1>12,
     <1>13, <1>14, <1>15, <1>16, <1>17, <1>18, <1>19, <1>20, <1>21, <1>22, <1>23, <1>24, <1>25
  DEF Next

(* The workspace lock has one holder, a command's authority lock excludes all. *)
LEMMA ExclusiveStep == TypeOK /\ Exclusive /\ HoldsWorkspace /\ HoldsAuthority /\ [Next]_vars => Exclusive'
<1> SUFFICES ASSUME TypeOK /\ Exclusive /\ HoldsWorkspace /\ HoldsAuthority, [Next]_vars PROVE Exclusive'
  OBVIOUS
<1> USE AuthorityAssumption DEF TypeOK, Exclusive, Descriptor
<1>1. CASE PublishPointer
  BY <1>1 DEF PublishPointer, disk, locks
<1>2. ASSUME NEW p \in Process, OpenLock(p)
      PROVE  Exclusive'
  BY <1>2 DEF OpenLock, Go, OpenWorkspace, WorkspaceFree, disk
<1>3. ASSUME NEW p \in Process, Admit(p)
      PROVE  Exclusive'
  <2>1. CASE UNCHANGED authorityFds
    BY <1>3, <2>1 DEF Admit
  <2>2. CASE OpenAuthority(p, "api") /\ binding # None
    <3>1. \A q \in Process : "command" \notin authorityFds'[q]
      BY <1>3, <2>2 DEF Admit, OpenAuthority, AuthorityShareable
    <3> QED
      BY <1>3, <3>1 DEF Admit
  <2> QED
    BY <1>3, <2>1, <2>2 DEF Admit
<1>4. ASSUME NEW p \in Process, Initialise(p)
      PROVE  Exclusive'
  BY <1>4 DEF Initialise, Go, disk, locks
<1>5. ASSUME NEW p \in Process, CloseApi(p)
      PROVE  Exclusive'
  BY <1>5 DEF CloseApi, Go, CloseAuthority, disk
<1>6. ASSUME NEW p \in Process, ReleaseApi(p)
      PROVE  Exclusive'
  BY <1>6 DEF ReleaseApi, Go, CloseWorkspace, disk
<1>7. ASSUME NEW p \in Process, StartWorker(p)
      PROVE  Exclusive'
  <2>1. "api" \in workspaceFds[p]
    BY <1>7 DEF StartWorker, HoldsWorkspace
  <2>2. workspaceFds' = [workspaceFds EXCEPT ![p] = @ \cup {"worker"}]
    BY <1>7 DEF StartWorker, Retain, OpenWorkspace
  <2>3. CASE "api" \in authorityFds[p]
    <3>1. authorityFds' = [authorityFds EXCEPT ![p] = @ \cup {"worker"}]
      BY <1>7, <2>3 DEF StartWorker, Retain, OpenAuthority
    <3> QED
      BY <2>1, <2>2, <2>3, <3>1
  <2>4. CASE "api" \notin authorityFds[p]
    <3>1. authorityFds' = authorityFds
      BY <1>7, <2>4 DEF StartWorker, Retain
    <3> QED
      BY <2>1, <2>2, <3>1
  <2> QED
    BY <2>3, <2>4
<1>8. ASSUME NEW p \in Process, ExitWorker(p)
      PROVE  Exclusive'
  BY <1>8 DEF ExitWorker, CloseAuthority, disk
<1>9. ASSUME NEW p \in Process, ReleaseWorker(p)
      PROVE  Exclusive'
  BY <1>9 DEF ReleaseWorker, CloseWorkspace, disk
<1>10. ASSUME NEW p \in Process, EnrollJournal(p)
      PROVE  Exclusive'
  BY <1>10 DEF EnrollJournal, Go, OpenAuthority, AuthorityFree, Enrollable, disk
<1>11. ASSUME NEW p \in Process, EnrollPart(p)
      PROVE  Exclusive'
  BY <1>11 DEF EnrollPart, Go, disk, locks
<1>12. ASSUME NEW p \in Process, EnrollPublish(p)
      PROVE  Exclusive'
  BY <1>12 DEF EnrollPublish, Go, CloseWorkspace, CloseAuthority, disk
<1>13. ASSUME NEW p \in Process, FreezeLock(p)
      PROVE  Exclusive'
  BY <1>13 DEF FreezeLock, Go, OpenWorkspace, WorkspaceFree, disk
<1>14. ASSUME NEW p \in Process, Publish(p)
      PROVE  Exclusive'
  BY <1>14 DEF Publish, Go, disk, locks
<1>15. ASSUME NEW p \in Process, EndFreeze(p)
      PROVE  Exclusive'
  BY <1>15 DEF EndFreeze, Go, CloseWorkspace, disk
<1>16. ASSUME NEW p \in Process, CommitSuspension(p)
      PROVE  Exclusive'
  BY <1>16 DEF CommitSuspension, Go, disk, locks
<1>17. ASSUME NEW p \in Process, ThawRetire(p)
      PROVE  Exclusive'
  BY <1>17 DEF ThawRetire, Go, CloseWorkspace, CloseAuthority, disk
<1>18. ASSUME NEW p \in Process, Refuse(p)
      PROVE  Exclusive'
  BY <1>18 DEF Refuse, Go, disk
<1>19. ASSUME NEW p \in Process, Die(p)
      PROVE  Exclusive'
  BY <1>19 DEF Die, Go, disk
<1>20. ASSUME NEW p \in Process, NEW o \in Op, EnrollLock(p, o)
      PROVE  Exclusive'
  BY <1>20 DEF EnrollLock, Start, Go, OpenWorkspace, WorkspaceFree, disk
<1>21. ASSUME NEW p \in Process, NEW o \in Op, StartFreeze(p, o)
      PROVE  Exclusive'
  BY <1>21 DEF StartFreeze, Start, Go, disk, locks
<1>22. ASSUME NEW p \in Process, NEW o \in Op, StartSuspend(p, o)
      PROVE  Exclusive'
  BY <1>22 DEF StartSuspend, Start, Go, disk, locks
<1>23. ASSUME NEW p \in Process, NEW o \in Op, NEW m \in Manifest,
               Assign(p, o, m)
      PROVE  Exclusive'
  BY <1>23 DEF Assign, disk, locks
<1>24. ASSUME NEW p \in Process, NEW o \in Op, NEW m \in Manifest,
               ThawReceipt(p, o, m)
      PROVE  Exclusive'
  BY <1>24 DEF ThawReceipt, Start, Go, OpenWorkspace, OpenAuthority, WorkspaceFree, AuthorityFree, Recorded, disk
<1>25. CASE UNCHANGED vars
  BY <1>25 DEF vars, locks, disk
<1> QED
  BY <1>1, <1>2, <1>3, <1>4, <1>5, <1>6, <1>7, <1>8, <1>9, <1>10, <1>11, <1>12,
     <1>13, <1>14, <1>15, <1>16, <1>17, <1>18, <1>19, <1>20, <1>21, <1>22, <1>23, <1>24, <1>25
  DEF Next

(* Whoever is at work in the workspace holds its lock. *)
LEMMA HoldsWorkspaceStep == TypeOK /\ HoldsWorkspace /\ [Next]_vars => HoldsWorkspace'
<1> SUFFICES ASSUME TypeOK /\ HoldsWorkspace, [Next]_vars PROVE HoldsWorkspace'
  OBVIOUS
<1> USE AuthorityAssumption DEF TypeOK, HoldsWorkspace, Descriptor
<1>1. CASE PublishPointer
  BY <1>1 DEF PublishPointer, disk, locks
<1>2. ASSUME NEW p \in Process, OpenLock(p)
      PROVE  HoldsWorkspace'
  BY <1>2 DEF OpenLock, Go, OpenWorkspace, WorkspaceFree, disk
<1>3. ASSUME NEW p \in Process, Admit(p)
      PROVE  HoldsWorkspace'
  BY <1>3 DEF Admit, Go, OpenAuthority, disk
<1>4. ASSUME NEW p \in Process, Initialise(p)
      PROVE  HoldsWorkspace'
  BY <1>4 DEF Initialise, Go, disk, locks
<1>5. ASSUME NEW p \in Process, CloseApi(p)
      PROVE  HoldsWorkspace'
  BY <1>5 DEF CloseApi, Go, CloseAuthority, disk
<1>6. ASSUME NEW p \in Process, ReleaseApi(p)
      PROVE  HoldsWorkspace'
  BY <1>6 DEF ReleaseApi, Go, CloseWorkspace, disk
<1>7. ASSUME NEW p \in Process, StartWorker(p)
      PROVE  HoldsWorkspace'
  BY <1>7 DEF StartWorker, Retain, OpenWorkspace, OpenAuthority, disk
<1>8. ASSUME NEW p \in Process, ExitWorker(p)
      PROVE  HoldsWorkspace'
  BY <1>8 DEF ExitWorker, CloseAuthority, disk
<1>9. ASSUME NEW p \in Process, ReleaseWorker(p)
      PROVE  HoldsWorkspace'
  BY <1>9 DEF ReleaseWorker, CloseWorkspace, disk
<1>10. ASSUME NEW p \in Process, EnrollJournal(p)
      PROVE  HoldsWorkspace'
  BY <1>10 DEF EnrollJournal, Go, OpenAuthority, AuthorityFree, Enrollable, disk
<1>11. ASSUME NEW p \in Process, EnrollPart(p)
      PROVE  HoldsWorkspace'
  BY <1>11 DEF EnrollPart, Go, disk, locks
<1>12. ASSUME NEW p \in Process, EnrollPublish(p)
      PROVE  HoldsWorkspace'
  BY <1>12 DEF EnrollPublish, Go, CloseWorkspace, CloseAuthority, disk
<1>13. ASSUME NEW p \in Process, FreezeLock(p)
      PROVE  HoldsWorkspace'
  BY <1>13 DEF FreezeLock, Go, OpenWorkspace, WorkspaceFree, disk
<1>14. ASSUME NEW p \in Process, Publish(p)
      PROVE  HoldsWorkspace'
  BY <1>14 DEF Publish, Go, disk, locks
<1>15. ASSUME NEW p \in Process, EndFreeze(p)
      PROVE  HoldsWorkspace'
  BY <1>15 DEF EndFreeze, Go, CloseWorkspace, disk
<1>16. ASSUME NEW p \in Process, CommitSuspension(p)
      PROVE  HoldsWorkspace'
  BY <1>16 DEF CommitSuspension, Go, disk, locks
<1>17. ASSUME NEW p \in Process, ThawRetire(p)
      PROVE  HoldsWorkspace'
  BY <1>17 DEF ThawRetire, Go, CloseWorkspace, CloseAuthority, disk
<1>18. ASSUME NEW p \in Process, Refuse(p)
      PROVE  HoldsWorkspace'
  BY <1>18 DEF Refuse, Go, disk
<1>19. ASSUME NEW p \in Process, Die(p)
      PROVE  HoldsWorkspace'
  BY <1>19 DEF Die, Go, disk
<1>20. ASSUME NEW p \in Process, NEW o \in Op, EnrollLock(p, o)
      PROVE  HoldsWorkspace'
  BY <1>20 DEF EnrollLock, Start, Go, OpenWorkspace, WorkspaceFree, disk
<1>21. ASSUME NEW p \in Process, NEW o \in Op, StartFreeze(p, o)
      PROVE  HoldsWorkspace'
  BY <1>21 DEF StartFreeze, Start, Go, disk, locks
<1>22. ASSUME NEW p \in Process, NEW o \in Op, StartSuspend(p, o)
      PROVE  HoldsWorkspace'
  BY <1>22 DEF StartSuspend, Start, Go, disk, locks
<1>23. ASSUME NEW p \in Process, NEW o \in Op, NEW m \in Manifest,
               Assign(p, o, m)
      PROVE  HoldsWorkspace'
  BY <1>23 DEF Assign, disk, locks
<1>24. ASSUME NEW p \in Process, NEW o \in Op, NEW m \in Manifest,
               ThawReceipt(p, o, m)
      PROVE  HoldsWorkspace'
  BY <1>24 DEF ThawReceipt, Start, Go, OpenWorkspace, OpenAuthority, WorkspaceFree, AuthorityFree, Recorded, disk
<1>25. CASE UNCHANGED vars
  BY <1>25 DEF vars, locks, disk
<1> QED
  BY <1>1, <1>2, <1>3, <1>4, <1>5, <1>6, <1>7, <1>8, <1>9, <1>10, <1>11, <1>12,
     <1>13, <1>14, <1>15, <1>16, <1>17, <1>18, <1>19, <1>20, <1>21, <1>22, <1>23, <1>24, <1>25
  DEF Next

(* Whoever writes an enrolled workspace shares the authority lock. *)
LEMMA HoldsAuthorityStep == TypeOK /\ Exclusive /\ HoldsWorkspace /\ HoldsAuthority /\ [Next]_vars => HoldsAuthority'
<1> SUFFICES ASSUME TypeOK /\ Exclusive /\ HoldsWorkspace /\ HoldsAuthority, [Next]_vars PROVE HoldsAuthority'
  OBVIOUS
<1> USE AuthorityAssumption DEF TypeOK, HoldsAuthority, Descriptor
<1>1. CASE PublishPointer
  BY <1>1 DEF PublishPointer, disk, locks
<1>2. ASSUME NEW p \in Process, OpenLock(p)
      PROVE  HoldsAuthority'
  BY <1>2 DEF OpenLock, Go, OpenWorkspace, WorkspaceFree, disk
<1>3. ASSUME NEW p \in Process, Admit(p)
      PROVE  HoldsAuthority'
  BY <1>3 DEF Admit, Go, OpenAuthority, disk
<1>4. ASSUME NEW p \in Process, Initialise(p)
      PROVE  HoldsAuthority'
  BY <1>4 DEF Initialise, Go, disk, locks
<1>5. ASSUME NEW p \in Process, CloseApi(p)
      PROVE  HoldsAuthority'
  BY <1>5 DEF CloseApi, Go, CloseAuthority, disk
<1>6. ASSUME NEW p \in Process, ReleaseApi(p)
      PROVE  HoldsAuthority'
  BY <1>6 DEF ReleaseApi, Go, CloseWorkspace, disk
<1>7. ASSUME NEW p \in Process, StartWorker(p)
      PROVE  HoldsAuthority'
  BY <1>7 DEF StartWorker, Retain, OpenWorkspace, OpenAuthority, disk
<1>8. ASSUME NEW p \in Process, ExitWorker(p)
      PROVE  HoldsAuthority'
  BY <1>8 DEF ExitWorker, CloseAuthority, disk
<1>9. ASSUME NEW p \in Process, ReleaseWorker(p)
      PROVE  HoldsAuthority'
  BY <1>9 DEF ReleaseWorker, CloseWorkspace, disk
<1>10. ASSUME NEW p \in Process, EnrollJournal(p)
      PROVE  HoldsAuthority'
  BY <1>10 DEF EnrollJournal, Go, OpenAuthority, AuthorityFree, Enrollable, disk
<1>11. ASSUME NEW p \in Process, EnrollPart(p)
      PROVE  HoldsAuthority'
  BY <1>11 DEF EnrollPart, Go, disk, locks
<1>12. ASSUME NEW p \in Process, EnrollPublish(p)
      PROVE  HoldsAuthority'
  BY <1>12 DEF EnrollPublish, Go, CloseWorkspace, CloseAuthority, Exclusive, HoldsWorkspace, disk
<1>13. ASSUME NEW p \in Process, FreezeLock(p)
      PROVE  HoldsAuthority'
  BY <1>13 DEF FreezeLock, Go, OpenWorkspace, WorkspaceFree, disk
<1>14. ASSUME NEW p \in Process, Publish(p)
      PROVE  HoldsAuthority'
  BY <1>14 DEF Publish, Go, disk, locks
<1>15. ASSUME NEW p \in Process, EndFreeze(p)
      PROVE  HoldsAuthority'
  BY <1>15 DEF EndFreeze, Go, CloseWorkspace, disk
<1>16. ASSUME NEW p \in Process, CommitSuspension(p)
      PROVE  HoldsAuthority'
  BY <1>16 DEF CommitSuspension, Go, disk, locks
<1>17. ASSUME NEW p \in Process, ThawRetire(p)
      PROVE  HoldsAuthority'
  BY <1>17 DEF ThawRetire, Go, CloseWorkspace, CloseAuthority, disk
<1>18. ASSUME NEW p \in Process, Refuse(p)
      PROVE  HoldsAuthority'
  BY <1>18 DEF Refuse, Go, disk
<1>19. ASSUME NEW p \in Process, Die(p)
      PROVE  HoldsAuthority'
  BY <1>19 DEF Die, Go, disk
<1>20. ASSUME NEW p \in Process, NEW o \in Op, EnrollLock(p, o)
      PROVE  HoldsAuthority'
  BY <1>20 DEF EnrollLock, Start, Go, OpenWorkspace, WorkspaceFree, disk
<1>21. ASSUME NEW p \in Process, NEW o \in Op, StartFreeze(p, o)
      PROVE  HoldsAuthority'
  BY <1>21 DEF StartFreeze, Start, Go, disk, locks
<1>22. ASSUME NEW p \in Process, NEW o \in Op, StartSuspend(p, o)
      PROVE  HoldsAuthority'
  BY <1>22 DEF StartSuspend, Start, Go, disk, locks
<1>23. ASSUME NEW p \in Process, NEW o \in Op, NEW m \in Manifest,
               Assign(p, o, m)
      PROVE  HoldsAuthority'
  BY <1>23 DEF Assign, disk, locks
<1>24. ASSUME NEW p \in Process, NEW o \in Op, NEW m \in Manifest,
               ThawReceipt(p, o, m)
      PROVE  HoldsAuthority'
  BY <1>24 DEF ThawReceipt, Start, Go, OpenWorkspace, OpenAuthority, WorkspaceFree, AuthorityFree, Recorded, disk
<1>25. CASE UNCHANGED vars
  BY <1>25 DEF vars, locks, disk
<1> QED
  BY <1>1, <1>2, <1>3, <1>4, <1>5, <1>6, <1>7, <1>8, <1>9, <1>10, <1>11, <1>12,
     <1>13, <1>14, <1>15, <1>16, <1>17, <1>18, <1>19, <1>20, <1>21, <1>22, <1>23, <1>24, <1>25
  DEF Next

(* The files stay as a command in progress has found or left them. *)
LEMMA ProgressStep == TypeOK /\ Exclusive /\ HoldsWorkspace /\ HoldsAuthority /\ Progress /\ [Next]_vars => Progress'
<1> SUFFICES ASSUME TypeOK /\ Exclusive /\ HoldsWorkspace /\ HoldsAuthority /\ Progress, [Next]_vars PROVE Progress'
  OBVIOUS
<1> USE AuthorityAssumption DEF TypeOK, Progress, Revision, HeadEvent, AssignedToSelf
<1>1. CASE PublishPointer
  BY <1>1 DEF PublishPointer, disk, locks
<1>2. ASSUME NEW p \in Process, OpenLock(p)
      PROVE  Progress'
  BY <1>2 DEF OpenLock, Go, OpenWorkspace, WorkspaceFree, disk
<1>3. ASSUME NEW p \in Process, Admit(p)
      PROVE  Progress'
  BY <1>3 DEF Admit, Go, OpenAuthority, disk
<1>4. ASSUME NEW p \in Process, Initialise(p)
      PROVE  Progress'
  BY <1>4 DEF Initialise, Go, disk, locks
<1>5. ASSUME NEW p \in Process, CloseApi(p)
      PROVE  Progress'
  BY <1>5 DEF CloseApi, Go, CloseAuthority, disk
<1>6. ASSUME NEW p \in Process, ReleaseApi(p)
      PROVE  Progress'
  BY <1>6 DEF ReleaseApi, Go, CloseWorkspace, disk
<1>7. ASSUME NEW p \in Process, StartWorker(p)
      PROVE  Progress'
  BY <1>7 DEF StartWorker, Retain, OpenWorkspace, OpenAuthority, disk
<1>8. ASSUME NEW p \in Process, ExitWorker(p)
      PROVE  Progress'
  BY <1>8 DEF ExitWorker, CloseAuthority, disk
<1>9. ASSUME NEW p \in Process, ReleaseWorker(p)
      PROVE  Progress'
  BY <1>9 DEF ReleaseWorker, CloseWorkspace, disk
<1>10. ASSUME NEW p \in Process, EnrollJournal(p)
      PROVE  Progress'
  BY <1>10 DEF EnrollJournal, Go, OpenAuthority, AuthorityFree, Enrollable, HoldsAuthority, disk
<1>11. ASSUME NEW p \in Process, EnrollPart(p)
      PROVE  Progress'
  BY <1>11 DEF EnrollPart, Go, disk, locks
<1>12. ASSUME NEW p \in Process, EnrollPublish(p)
      PROVE  Progress'
  BY <1>12 DEF EnrollPublish, Go, CloseWorkspace, CloseAuthority, disk
<1>13. ASSUME NEW p \in Process, FreezeLock(p)
      PROVE  Progress'
  BY <1>13 DEF FreezeLock, Go, OpenWorkspace, WorkspaceFree, disk
<1>14. ASSUME NEW p \in Process, Publish(p)
      PROVE  Progress'
  BY <1>14 DEF Publish, Go, Exclusive, HoldsWorkspace, disk, locks
<1>15. ASSUME NEW p \in Process, EndFreeze(p)
      PROVE  Progress'
  BY <1>15 DEF EndFreeze, Go, CloseWorkspace, disk
<1>16. ASSUME NEW p \in Process, CommitSuspension(p)
      PROVE  Progress'
  BY <1>16 DEF CommitSuspension, Go, AuthorityFree, HoldsAuthority, disk, locks
<1>17. ASSUME NEW p \in Process, ThawRetire(p)
      PROVE  Progress'
  BY <1>17 DEF ThawRetire, Go, CloseWorkspace, CloseAuthority, Exclusive, HoldsWorkspace, disk
<1>18. ASSUME NEW p \in Process, Refuse(p)
      PROVE  Progress'
  BY <1>18 DEF Refuse, Go, disk
<1>19. ASSUME NEW p \in Process, Die(p)
      PROVE  Progress'
  BY <1>19 DEF Die, Go, disk
<1>20. ASSUME NEW p \in Process, NEW o \in Op, EnrollLock(p, o)
      PROVE  Progress'
  BY <1>20 DEF EnrollLock, Start, Go, OpenWorkspace, WorkspaceFree, disk
<1>21. ASSUME NEW p \in Process, NEW o \in Op, StartFreeze(p, o)
      PROVE  Progress'
  BY <1>21 DEF StartFreeze, Start, Go, disk, locks
<1>22. ASSUME NEW p \in Process, NEW o \in Op, StartSuspend(p, o)
      PROVE  Progress'
  BY <1>22 DEF StartSuspend, Start, Go, disk, locks
<1>23. ASSUME NEW p \in Process, NEW o \in Op, NEW m \in Manifest,
               Assign(p, o, m)
      PROVE  Progress'
  BY <1>23 DEF Assign, AuthorityFree, HoldsAuthority, disk, locks
<1>24. ASSUME NEW p \in Process, NEW o \in Op, NEW m \in Manifest,
               ThawReceipt(p, o, m)
      PROVE  Progress'
  BY <1>24 DEF ThawReceipt, Start, Go, OpenWorkspace, OpenAuthority, WorkspaceFree, AuthorityFree, Recorded, Thawable, Thawer, disk
<1>25. CASE UNCHANGED vars
  BY <1>25 DEF vars, locks, disk
<1> QED
  BY <1>1, <1>2, <1>3, <1>4, <1>5, <1>6, <1>7, <1>8, <1>9, <1>10, <1>11, <1>12,
     <1>13, <1>14, <1>15, <1>16, <1>17, <1>18, <1>19, <1>20, <1>21, <1>22, <1>23, <1>24, <1>25
  DEF Next

(* A binding has a journal, and each suspension names what froze. *)
LEMMA CommittedStep == TypeOK /\ Progress /\ Committed /\ [Next]_vars => Committed'
<1> SUFFICES ASSUME TypeOK /\ Progress /\ Committed, [Next]_vars PROVE Committed'
  OBVIOUS
<1> USE AuthorityAssumption DEF TypeOK, Committed, Revision, HeadEvent
<1>1. CASE PublishPointer
  BY <1>1 DEF PublishPointer, disk, locks
<1>2. ASSUME NEW p \in Process, OpenLock(p)
      PROVE  Committed'
  BY <1>2 DEF OpenLock, Go, OpenWorkspace, WorkspaceFree, disk
<1>3. ASSUME NEW p \in Process, Admit(p)
      PROVE  Committed'
  BY <1>3 DEF Admit, Go, OpenAuthority, disk
<1>4. ASSUME NEW p \in Process, Initialise(p)
      PROVE  Committed'
  BY <1>4 DEF Initialise, Go, disk, locks
<1>5. ASSUME NEW p \in Process, CloseApi(p)
      PROVE  Committed'
  BY <1>5 DEF CloseApi, Go, CloseAuthority, disk
<1>6. ASSUME NEW p \in Process, ReleaseApi(p)
      PROVE  Committed'
  BY <1>6 DEF ReleaseApi, Go, CloseWorkspace, disk
<1>7. ASSUME NEW p \in Process, StartWorker(p)
      PROVE  Committed'
  BY <1>7 DEF StartWorker, Retain, OpenWorkspace, OpenAuthority, disk
<1>8. ASSUME NEW p \in Process, ExitWorker(p)
      PROVE  Committed'
  BY <1>8 DEF ExitWorker, CloseAuthority, disk
<1>9. ASSUME NEW p \in Process, ReleaseWorker(p)
      PROVE  Committed'
  BY <1>9 DEF ReleaseWorker, CloseWorkspace, disk
<1>10. ASSUME NEW p \in Process, EnrollJournal(p)
      PROVE  Committed'
  BY <1>10 DEF EnrollJournal, Go, OpenAuthority, AuthorityFree, Enrollable, Enrolled, disk
<1>11. ASSUME NEW p \in Process, EnrollPart(p)
      PROVE  Committed'
  BY <1>11 DEF EnrollPart, Go, Progress, disk, locks
<1>12. ASSUME NEW p \in Process, EnrollPublish(p)
      PROVE  Committed'
  BY <1>12 DEF EnrollPublish, Go, CloseWorkspace, CloseAuthority, Progress, disk
<1>13. ASSUME NEW p \in Process, FreezeLock(p)
      PROVE  Committed'
  BY <1>13 DEF FreezeLock, Go, OpenWorkspace, WorkspaceFree, disk
<1>14. ASSUME NEW p \in Process, Publish(p)
      PROVE  Committed'
  BY <1>14 DEF Publish, Go, disk, locks
<1>15. ASSUME NEW p \in Process, EndFreeze(p)
      PROVE  Committed'
  BY <1>15 DEF EndFreeze, Go, CloseWorkspace, disk
<1>16. ASSUME NEW p \in Process, CommitSuspension(p)
      PROVE  Committed'
  <2>1. task[p].op \in Op
    BY <1>16 DEF CommitSuspension, Progress
  <2>2. CASE UNCHANGED journal
    BY <1>16, <2>2 DEF CommitSuspension, Go, disk, locks
  <2>3. CASE /\ HeadEvent.state # "suspended"
             /\ Revision < MaxRevision
             /\ journal' = Append(journal, Suspended(task[p].op))
    BY <1>16, <2>1, <2>3 DEF CommitSuspension, Go, Suspended, disk, locks
  <2> QED
    BY <1>16, <2>2, <2>3 DEF CommitSuspension
<1>17. ASSUME NEW p \in Process, ThawRetire(p)
      PROVE  Committed'
  BY <1>17 DEF ThawRetire, Go, CloseWorkspace, CloseAuthority, disk
<1>18. ASSUME NEW p \in Process, Refuse(p)
      PROVE  Committed'
  BY <1>18 DEF Refuse, Go, disk
<1>19. ASSUME NEW p \in Process, Die(p)
      PROVE  Committed'
  BY <1>19 DEF Die, Go, disk
<1>20. ASSUME NEW p \in Process, NEW o \in Op, EnrollLock(p, o)
      PROVE  Committed'
  BY <1>20 DEF EnrollLock, Start, Go, OpenWorkspace, WorkspaceFree, disk
<1>21. ASSUME NEW p \in Process, NEW o \in Op, StartFreeze(p, o)
      PROVE  Committed'
  BY <1>21 DEF StartFreeze, Start, Go, disk, locks
<1>22. ASSUME NEW p \in Process, NEW o \in Op, StartSuspend(p, o)
      PROVE  Committed'
  BY <1>22 DEF StartSuspend, Start, Go, disk, locks
<1>23. ASSUME NEW p \in Process, NEW o \in Op, NEW m \in Manifest,
               Assign(p, o, m)
      PROVE  Committed'
  BY <1>23 DEF Assign, Assigned, Assignable, Bound, disk, locks
<1>24. ASSUME NEW p \in Process, NEW o \in Op, NEW m \in Manifest,
               ThawReceipt(p, o, m)
      PROVE  Committed'
  BY <1>24 DEF ThawReceipt, Start, Go, OpenWorkspace, OpenAuthority, WorkspaceFree, AuthorityFree, Recorded, disk
<1>25. CASE UNCHANGED vars
  BY <1>25 DEF vars, locks, disk
<1> QED
  BY <1>1, <1>2, <1>3, <1>4, <1>5, <1>6, <1>7, <1>8, <1>9, <1>10, <1>11, <1>12,
     <1>13, <1>14, <1>15, <1>16, <1>17, <1>18, <1>19, <1>20, <1>21, <1>22, <1>23, <1>24, <1>25
  DEF Next

(* The marker of an assignment stays until its thaw. *)
LEMMA MarkerKeptStep == TypeOK /\ Progress /\ Committed /\ MarkerKept /\ [Next]_vars => MarkerKept'
<1> SUFFICES ASSUME TypeOK /\ Progress /\ Committed /\ MarkerKept, [Next]_vars PROVE MarkerKept'
  OBVIOUS
<1> USE AuthorityAssumption DEF TypeOK, MarkerKept, Revision, HeadEvent, MarkerCommitted
<1>1. CASE PublishPointer
  BY <1>1 DEF PublishPointer, disk, locks
<1>2. ASSUME NEW p \in Process, OpenLock(p)
      PROVE  MarkerKept'
  BY <1>2 DEF OpenLock, Go, OpenWorkspace, WorkspaceFree, disk
<1>3. ASSUME NEW p \in Process, Admit(p)
      PROVE  MarkerKept'
  BY <1>3 DEF Admit, Go, OpenAuthority, disk
<1>4. ASSUME NEW p \in Process, Initialise(p)
      PROVE  MarkerKept'
  BY <1>4 DEF Initialise, Go, disk, locks
<1>5. ASSUME NEW p \in Process, CloseApi(p)
      PROVE  MarkerKept'
  BY <1>5 DEF CloseApi, Go, CloseAuthority, disk
<1>6. ASSUME NEW p \in Process, ReleaseApi(p)
      PROVE  MarkerKept'
  BY <1>6 DEF ReleaseApi, Go, CloseWorkspace, disk
<1>7. ASSUME NEW p \in Process, StartWorker(p)
      PROVE  MarkerKept'
  BY <1>7 DEF StartWorker, Retain, OpenWorkspace, OpenAuthority, disk
<1>8. ASSUME NEW p \in Process, ExitWorker(p)
      PROVE  MarkerKept'
  BY <1>8 DEF ExitWorker, CloseAuthority, disk
<1>9. ASSUME NEW p \in Process, ReleaseWorker(p)
      PROVE  MarkerKept'
  BY <1>9 DEF ReleaseWorker, CloseWorkspace, disk
<1>10. ASSUME NEW p \in Process, EnrollJournal(p)
      PROVE  MarkerKept'
  BY <1>10 DEF EnrollJournal, Go, OpenAuthority, AuthorityFree, Enrollable, Enrolled, disk
<1>11. ASSUME NEW p \in Process, EnrollPart(p)
      PROVE  MarkerKept'
  BY <1>11 DEF EnrollPart, Go, disk, locks
<1>12. ASSUME NEW p \in Process, EnrollPublish(p)
      PROVE  MarkerKept'
  BY <1>12 DEF EnrollPublish, Go, CloseWorkspace, CloseAuthority, disk
<1>13. ASSUME NEW p \in Process, FreezeLock(p)
      PROVE  MarkerKept'
  BY <1>13 DEF FreezeLock, Go, OpenWorkspace, WorkspaceFree, disk
<1>14. ASSUME NEW p \in Process, Publish(p)
      PROVE  MarkerKept'
  BY <1>14 DEF Publish, Go, Progress, Committed, disk, locks
<1>15. ASSUME NEW p \in Process, EndFreeze(p)
      PROVE  MarkerKept'
  BY <1>15 DEF EndFreeze, Go, CloseWorkspace, disk
<1>16. ASSUME NEW p \in Process, CommitSuspension(p)
      PROVE  MarkerKept'
  BY <1>16 DEF CommitSuspension, Go, Suspended, disk, locks
<1>17. ASSUME NEW p \in Process, ThawRetire(p)
      PROVE  MarkerKept'
  BY <1>17 DEF ThawRetire, Go, CloseWorkspace, CloseAuthority, Progress, AssignedToSelf, disk
<1>18. ASSUME NEW p \in Process, Refuse(p)
      PROVE  MarkerKept'
  BY <1>18 DEF Refuse, Go, disk
<1>19. ASSUME NEW p \in Process, Die(p)
      PROVE  MarkerKept'
  BY <1>19 DEF Die, Go, disk
<1>20. ASSUME NEW p \in Process, NEW o \in Op, EnrollLock(p, o)
      PROVE  MarkerKept'
  BY <1>20 DEF EnrollLock, Start, Go, OpenWorkspace, WorkspaceFree, disk
<1>21. ASSUME NEW p \in Process, NEW o \in Op, StartFreeze(p, o)
      PROVE  MarkerKept'
  BY <1>21 DEF StartFreeze, Start, Go, disk, locks
<1>22. ASSUME NEW p \in Process, NEW o \in Op, StartSuspend(p, o)
      PROVE  MarkerKept'
  BY <1>22 DEF StartSuspend, Start, Go, disk, locks
<1>23. ASSUME NEW p \in Process, NEW o \in Op, NEW m \in Manifest,
               Assign(p, o, m)
      PROVE  MarkerKept'
  BY <1>23 DEF Assign, Assigned, disk, locks
<1>24. ASSUME NEW p \in Process, NEW o \in Op, NEW m \in Manifest,
               ThawReceipt(p, o, m)
      PROVE  MarkerKept'
  BY <1>24 DEF ThawReceipt, Start, Go, OpenWorkspace, OpenAuthority, WorkspaceFree, AuthorityFree, Recorded, disk
<1>25. CASE UNCHANGED vars
  BY <1>25 DEF vars, locks, disk
<1> QED
  BY <1>1, <1>2, <1>3, <1>4, <1>5, <1>6, <1>7, <1>8, <1>9, <1>10, <1>11, <1>12,
     <1>13, <1>14, <1>15, <1>16, <1>17, <1>18, <1>19, <1>20, <1>21, <1>22, <1>23, <1>24, <1>25
  DEF Next

(* The chain never regresses or skips. *)
LEMMA ChainStep == TypeOK /\ Progress /\ Committed /\ LawfulChain /\ [Next]_vars => LawfulChain'
<1> SUFFICES ASSUME TypeOK /\ Progress /\ Committed /\ LawfulChain, [Next]_vars PROVE LawfulChain'
  OBVIOUS
<1> USE AuthorityAssumption DEF TypeOK, LawfulChain, Revision, HeadEvent
<1>1. CASE PublishPointer
  BY <1>1 DEF PublishPointer, disk, locks
<1>2. ASSUME NEW p \in Process, OpenLock(p)
      PROVE  LawfulChain'
  BY <1>2 DEF OpenLock, Go, OpenWorkspace, WorkspaceFree, disk
<1>3. ASSUME NEW p \in Process, Admit(p)
      PROVE  LawfulChain'
  BY <1>3 DEF Admit, Go, OpenAuthority, disk
<1>4. ASSUME NEW p \in Process, Initialise(p)
      PROVE  LawfulChain'
  BY <1>4 DEF Initialise, Go, disk, locks
<1>5. ASSUME NEW p \in Process, CloseApi(p)
      PROVE  LawfulChain'
  BY <1>5 DEF CloseApi, Go, CloseAuthority, disk
<1>6. ASSUME NEW p \in Process, ReleaseApi(p)
      PROVE  LawfulChain'
  BY <1>6 DEF ReleaseApi, Go, CloseWorkspace, disk
<1>7. ASSUME NEW p \in Process, StartWorker(p)
      PROVE  LawfulChain'
  BY <1>7 DEF StartWorker, Retain, OpenWorkspace, OpenAuthority, disk
<1>8. ASSUME NEW p \in Process, ExitWorker(p)
      PROVE  LawfulChain'
  BY <1>8 DEF ExitWorker, CloseAuthority, disk
<1>9. ASSUME NEW p \in Process, ReleaseWorker(p)
      PROVE  LawfulChain'
  BY <1>9 DEF ReleaseWorker, CloseWorkspace, disk
<1>10. ASSUME NEW p \in Process, EnrollJournal(p)
      PROVE  LawfulChain'
  BY <1>10 DEF EnrollJournal, Go, OpenAuthority, AuthorityFree, Enrollable, Enrolled, disk
<1>11. ASSUME NEW p \in Process, EnrollPart(p)
      PROVE  LawfulChain'
  BY <1>11 DEF EnrollPart, Go, disk, locks
<1>12. ASSUME NEW p \in Process, EnrollPublish(p)
      PROVE  LawfulChain'
  BY <1>12 DEF EnrollPublish, Go, CloseWorkspace, CloseAuthority, disk
<1>13. ASSUME NEW p \in Process, FreezeLock(p)
      PROVE  LawfulChain'
  BY <1>13 DEF FreezeLock, Go, OpenWorkspace, WorkspaceFree, disk
<1>14. ASSUME NEW p \in Process, Publish(p)
      PROVE  LawfulChain'
  BY <1>14 DEF Publish, Go, disk, locks
<1>15. ASSUME NEW p \in Process, EndFreeze(p)
      PROVE  LawfulChain'
  BY <1>15 DEF EndFreeze, Go, CloseWorkspace, disk
<1>16. ASSUME NEW p \in Process, CommitSuspension(p)
      PROVE  LawfulChain'
  <2>1. task[p].op \in Op
    BY <1>16 DEF CommitSuspension, Progress
  <2>2. CASE UNCHANGED journal
    BY <1>16, <2>2 DEF CommitSuspension, Go, disk, locks
  <2>3. CASE /\ HeadEvent.state # "suspended"
             /\ Revision < MaxRevision
             /\ journal' = Append(journal, Suspended(task[p].op))
    BY <1>16, <2>1, <2>3 DEF CommitSuspension, Go, Suspended, disk, locks, Bound, Committed
  <2> QED
    BY <1>16, <2>2, <2>3 DEF CommitSuspension
<1>17. ASSUME NEW p \in Process, ThawRetire(p)
      PROVE  LawfulChain'
  BY <1>17 DEF ThawRetire, Go, CloseWorkspace, CloseAuthority, disk
<1>18. ASSUME NEW p \in Process, Refuse(p)
      PROVE  LawfulChain'
  BY <1>18 DEF Refuse, Go, disk
<1>19. ASSUME NEW p \in Process, Die(p)
      PROVE  LawfulChain'
  BY <1>19 DEF Die, Go, disk
<1>20. ASSUME NEW p \in Process, NEW o \in Op, EnrollLock(p, o)
      PROVE  LawfulChain'
  BY <1>20 DEF EnrollLock, Start, Go, OpenWorkspace, WorkspaceFree, disk
<1>21. ASSUME NEW p \in Process, NEW o \in Op, StartFreeze(p, o)
      PROVE  LawfulChain'
  BY <1>21 DEF StartFreeze, Start, Go, disk, locks
<1>22. ASSUME NEW p \in Process, NEW o \in Op, StartSuspend(p, o)
      PROVE  LawfulChain'
  BY <1>22 DEF StartSuspend, Start, Go, disk, locks
<1>23. ASSUME NEW p \in Process, NEW o \in Op, NEW m \in Manifest,
               Assign(p, o, m)
      PROVE  LawfulChain'
  BY <1>23 DEF Assign, Assigned, Assignable, Bound, Committed, disk, locks
<1>24. ASSUME NEW p \in Process, NEW o \in Op, NEW m \in Manifest,
               ThawReceipt(p, o, m)
      PROVE  LawfulChain'
  BY <1>24 DEF ThawReceipt, Start, Go, OpenWorkspace, OpenAuthority, WorkspaceFree, AuthorityFree, Recorded, disk
<1>25. CASE UNCHANGED vars
  BY <1>25 DEF vars, locks, disk
<1> QED
  BY <1>1, <1>2, <1>3, <1>4, <1>5, <1>6, <1>7, <1>8, <1>9, <1>10, <1>11, <1>12,
     <1>13, <1>14, <1>15, <1>16, <1>17, <1>18, <1>19, <1>20, <1>21, <1>22, <1>23, <1>24, <1>25
  DEF Next

(* The files that admitted a writer do not change while it writes. *)
LEMMA AdmittedStep == IInv /\ [Next]_vars => WritersAreAdmitted'
<1> SUFFICES ASSUME IInv, [Next]_vars, NEW q \in Process, Writing(q)'
             PROVE  (MayWrite /\ ~Frozen)'
  BY DEF WritersAreAdmitted, Writers
<1>0. Writing(q) => MayWrite /\ ~Frozen
  BY DEF IInv, WritersAreAdmitted, Writers
<1> USE AuthorityAssumption DEF IInv, TypeOK, Writing, MayWrite, Frozen, Bound, Admits, AssignedToSelf, HeadEvent, Revision
<1>1. CASE PublishPointer
  BY <1>0, <1>1 DEF PublishPointer, disk, locks
<1>2. ASSUME NEW p \in Process, OpenLock(p)
      PROVE  (MayWrite /\ ~Frozen)'
  BY <1>0, <1>2 DEF OpenLock, Go, OpenWorkspace, WorkspaceFree, disk
<1>3. ASSUME NEW p \in Process, Admit(p)
      PROVE  (MayWrite /\ ~Frozen)'
  BY <1>0, <1>3 DEF Admit, Go, OpenAuthority, AcquireWriter, disk
<1>4. ASSUME NEW p \in Process, Initialise(p)
      PROVE  (MayWrite /\ ~Frozen)'
  BY <1>0, <1>4 DEF Initialise, Go, disk, locks
<1>5. ASSUME NEW p \in Process, CloseApi(p)
      PROVE  (MayWrite /\ ~Frozen)'
  BY <1>0, <1>5 DEF CloseApi, Go, CloseAuthority, disk
<1>6. ASSUME NEW p \in Process, ReleaseApi(p)
      PROVE  (MayWrite /\ ~Frozen)'
  BY <1>0, <1>6 DEF ReleaseApi, Go, CloseWorkspace, disk
<1>7. ASSUME NEW p \in Process, StartWorker(p)
      PROVE  (MayWrite /\ ~Frozen)'
  BY <1>0, <1>7 DEF StartWorker, Retain, OpenWorkspace, OpenAuthority, disk
<1>8. ASSUME NEW p \in Process, ExitWorker(p)
      PROVE  (MayWrite /\ ~Frozen)'
  BY <1>0, <1>8 DEF ExitWorker, CloseAuthority, disk
<1>9. ASSUME NEW p \in Process, ReleaseWorker(p)
      PROVE  (MayWrite /\ ~Frozen)'
  BY <1>0, <1>9 DEF ReleaseWorker, CloseWorkspace, disk
<1>10. ASSUME NEW p \in Process, EnrollJournal(p)
      PROVE  (MayWrite /\ ~Frozen)'
  BY <1>0, <1>10 DEF EnrollJournal, Go, OpenAuthority, AuthorityFree, Enrollable, Enrolled, Exclusive, HoldsWorkspace, disk
<1>11. ASSUME NEW p \in Process, EnrollPart(p)
      PROVE  (MayWrite /\ ~Frozen)'
  BY <1>0, <1>11 DEF EnrollPart, Go, Exclusive, HoldsWorkspace, disk, locks
<1>12. ASSUME NEW p \in Process, EnrollPublish(p)
      PROVE  (MayWrite /\ ~Frozen)'
  BY <1>0, <1>12 DEF EnrollPublish, Go, CloseWorkspace, CloseAuthority, Exclusive, HoldsWorkspace, disk
<1>13. ASSUME NEW p \in Process, FreezeLock(p)
      PROVE  (MayWrite /\ ~Frozen)'
  BY <1>0, <1>13 DEF FreezeLock, Go, OpenWorkspace, WorkspaceFree, disk
<1>14. ASSUME NEW p \in Process, Publish(p)
      PROVE  (MayWrite /\ ~Frozen)'
  BY <1>0, <1>14 DEF Publish, Go, Exclusive, HoldsWorkspace, disk, locks
<1>15. ASSUME NEW p \in Process, EndFreeze(p)
      PROVE  (MayWrite /\ ~Frozen)'
  BY <1>0, <1>15 DEF EndFreeze, Go, CloseWorkspace, disk
<1>16. ASSUME NEW p \in Process, CommitSuspension(p)
      PROVE  (MayWrite /\ ~Frozen)'
  BY <1>0, <1>16 DEF CommitSuspension, Go, HoldsAuthority, AuthorityFree, disk, locks
<1>17. ASSUME NEW p \in Process, ThawRetire(p)
      PROVE  (MayWrite /\ ~Frozen)'
  BY <1>0, <1>17 DEF ThawRetire, Go, CloseWorkspace, CloseAuthority, Exclusive, HoldsWorkspace, disk
<1>18. ASSUME NEW p \in Process, Refuse(p)
      PROVE  (MayWrite /\ ~Frozen)'
  BY <1>0, <1>18 DEF Refuse, Go, disk
<1>19. ASSUME NEW p \in Process, Die(p)
      PROVE  (MayWrite /\ ~Frozen)'
  BY <1>0, <1>19 DEF Die, Go, disk
<1>20. ASSUME NEW p \in Process, NEW o \in Op, EnrollLock(p, o)
      PROVE  (MayWrite /\ ~Frozen)'
  BY <1>0, <1>20 DEF EnrollLock, Start, Go, OpenWorkspace, WorkspaceFree, disk
<1>21. ASSUME NEW p \in Process, NEW o \in Op, StartFreeze(p, o)
      PROVE  (MayWrite /\ ~Frozen)'
  BY <1>0, <1>21 DEF StartFreeze, Start, Go, disk, locks
<1>22. ASSUME NEW p \in Process, NEW o \in Op, StartSuspend(p, o)
      PROVE  (MayWrite /\ ~Frozen)'
  BY <1>0, <1>22 DEF StartSuspend, Start, Go, disk, locks
<1>23. ASSUME NEW p \in Process, NEW o \in Op, NEW m \in Manifest,
               Assign(p, o, m)
      PROVE  (MayWrite /\ ~Frozen)'
  BY <1>0, <1>23 DEF Assign, HoldsAuthority, AuthorityFree, disk, locks
<1>24. ASSUME NEW p \in Process, NEW o \in Op, NEW m \in Manifest,
               ThawReceipt(p, o, m)
      PROVE  (MayWrite /\ ~Frozen)'
  BY <1>0, <1>24 DEF ThawReceipt, Start, Go, OpenWorkspace, OpenAuthority, WorkspaceFree, AuthorityFree, Recorded, disk
<1>25. CASE UNCHANGED vars
  BY <1>0, <1>25 DEF vars, locks, disk
<1> QED
  BY <1>1, <1>2, <1>3, <1>4, <1>5, <1>6, <1>7, <1>8, <1>9, <1>10, <1>11, <1>12,
     <1>13, <1>14, <1>15, <1>16, <1>17, <1>18, <1>19, <1>20, <1>21, <1>22, <1>23, <1>24, <1>25
  DEF Next

(* All parts of the invariant step together. *)
LEMMA InvariantStep == IInv /\ [Next]_vars => IInv'
<1> SUFFICES ASSUME IInv, [Next]_vars PROVE IInv'
  OBVIOUS
<1>1. TypeOK' /\ Exclusive' /\ HoldsWorkspace' /\ HoldsAuthority'
  BY TypeStep, ExclusiveStep, HoldsWorkspaceStep, HoldsAuthorityStep DEF IInv
<1>2. Progress' /\ Committed' /\ MarkerKept' /\ LawfulChain'
  BY ProgressStep, CommittedStep, MarkerKeptStep, ChainStep DEF IInv
<1> QED
  BY <1>1, <1>2, AdmittedStep DEF IInv

(* The locks and the files agree in every reachable state. *)
THEOREM Invariant == Spec => []IInv
  BY InitInvariant, InvariantStep, PTL DEF Spec

(* Files, threads and descriptors have their types. *)
THEOREM TypeCorrect == Spec => []TypeOK
  BY Invariant, PTL DEF IInv

(* No process writes, not even a worker whose api has closed, unless the   *)
(* journal lets Knowledge write and the workspace is not frozen.           *)
THEOREM Admission == Spec => []WritersAreAdmitted
  BY Invariant, PTL DEF IInv

(* Revisions alternate and an assignment repeats the freeze commitment.    *)
THEOREM Chain == Spec => []LawfulChain
  BY Invariant, PTL DEF IInv

LEMMA WriterHoldsWorkspace ==
    IInv => \A p \in Process : Writing(p) => "api" \in workspaceFds[p] \/ "worker" \in workspaceFds[p]
  BY DEF IInv, HoldsWorkspace, Writing

LEMMA AtMostOneWriter == IInv => OneWriter
  BY WriterHoldsWorkspace DEF IInv, Exclusive, OneWriter, Writers

(* A workspace has at most one writing process.                            *)
THEOREM SingleWriter == Spec => []OneWriter
  BY Invariant, AtMostOneWriter, PTL

(* A workspace assigned away keeps the marker it was frozen with.          *)
THEOREM AwayIsFrozen == Spec => []AssignedAwayIsFrozen
<1>1. IInv => AssignedAwayIsFrozen
  BY AuthorityAssumption DEF IInv, MarkerKept, Committed, AssignedAwayIsFrozen, Bound
<1> QED
  BY <1>1, Invariant, PTL

(* Whatever a crash left, the thaw of the head is accepted again.          *)
THEOREM ThawResumes == Spec => []ThawRetries
<1>1. IInv => ThawRetries
  BY DEF IInv, TypeOK, MarkerKept, Committed, ThawRetries, Bound, AssignedToSelf, Thawable,
         Thawer, Frozen, MarkerCommitted
<1> QED
  BY <1>1, Invariant, PTL

(* The journal is appended to over a workspace nobody writes. *)
LEMMA GrowthStep ==
    IInv /\ [Next]_vars =>
        (journal' # journal => /\ SubSeq(journal', 1, Len(journal)) = journal
                               /\ Len(journal') = Len(journal) + 1
                               /\ Writers = {})
<1> DEFINE Grows == /\ SubSeq(journal', 1, Len(journal)) = journal
                    /\ Len(journal') = Len(journal) + 1
                    /\ Writers = {}
<1> SUFFICES ASSUME IInv, [Next]_vars, journal' # journal PROVE Grows
  OBVIOUS
<1>a. journal \in Seq(Event)
  BY DEF IInv, TypeOK
<1>b. ASSUME NEW e \in Event, journal' = Append(journal, e)
      PROVE  SubSeq(journal', 1, Len(journal)) = journal /\ Len(journal') = Len(journal) + 1
  BY <1>a, <1>b
<1>c. AuthorityFree /\ Bound => Writers = {}
  BY DEF IInv, AuthorityFree, HoldsAuthority, Bound, Writers, Writing
<1> USE AuthorityAssumption DEF Grows
<1>1. CASE PublishPointer
  BY <1>1 DEF PublishPointer, disk, locks
<1>2. ASSUME NEW p \in Process, OpenLock(p)
      PROVE  Grows
  BY <1>2 DEF OpenLock, Go, OpenWorkspace, WorkspaceFree, disk
<1>3. ASSUME NEW p \in Process, Admit(p)
      PROVE  Grows
  BY <1>3 DEF Admit, Go, OpenAuthority, disk
<1>4. ASSUME NEW p \in Process, Initialise(p)
      PROVE  Grows
  BY <1>4 DEF Initialise, Go, disk, locks
<1>5. ASSUME NEW p \in Process, CloseApi(p)
      PROVE  Grows
  BY <1>5 DEF CloseApi, Go, CloseAuthority, disk
<1>6. ASSUME NEW p \in Process, ReleaseApi(p)
      PROVE  Grows
  BY <1>6 DEF ReleaseApi, Go, CloseWorkspace, disk
<1>7. ASSUME NEW p \in Process, StartWorker(p)
      PROVE  Grows
  BY <1>7 DEF StartWorker, Retain, OpenWorkspace, OpenAuthority, disk
<1>8. ASSUME NEW p \in Process, ExitWorker(p)
      PROVE  Grows
  BY <1>8 DEF ExitWorker, CloseAuthority, disk
<1>9. ASSUME NEW p \in Process, ReleaseWorker(p)
      PROVE  Grows
  BY <1>9 DEF ReleaseWorker, CloseWorkspace, disk
<1>10. ASSUME NEW p \in Process, EnrollJournal(p)
      PROVE  Grows
  <2>1. journal = << >> /\ journal' = <<Enrolled(task[p].op)>>
    BY <1>10 DEF EnrollJournal, Enrollable
  <2>2. Writers = {}
    BY <1>10, WriterHoldsWorkspace DEF EnrollJournal, IInv, Exclusive, HoldsWorkspace, Writers, Writing
  <2> QED
    BY <2>1, <2>2
<1>11. ASSUME NEW p \in Process, EnrollPart(p)
      PROVE  Grows
  BY <1>11 DEF EnrollPart, Go, disk, locks
<1>12. ASSUME NEW p \in Process, EnrollPublish(p)
      PROVE  Grows
  BY <1>12 DEF EnrollPublish, Go, CloseWorkspace, CloseAuthority, disk
<1>13. ASSUME NEW p \in Process, FreezeLock(p)
      PROVE  Grows
  BY <1>13 DEF FreezeLock, Go, OpenWorkspace, WorkspaceFree, disk
<1>14. ASSUME NEW p \in Process, Publish(p)
      PROVE  Grows
  BY <1>14 DEF Publish, Go, disk, locks
<1>15. ASSUME NEW p \in Process, EndFreeze(p)
      PROVE  Grows
  BY <1>15 DEF EndFreeze, Go, CloseWorkspace, disk
<1>16. ASSUME NEW p \in Process, CommitSuspension(p)
      PROVE  Grows
  <2>1. Suspended(task[p].op) \in Event
    BY <1>16 DEF CommitSuspension, IInv, Progress, Suspended, Event
  <2>2. journal' = Append(journal, Suspended(task[p].op)) /\ Writers = {}
    BY <1>16, <1>c DEF CommitSuspension
  <2> QED
    BY <1>b, <2>1, <2>2
<1>17. ASSUME NEW p \in Process, ThawRetire(p)
      PROVE  Grows
  BY <1>17 DEF ThawRetire, Go, CloseWorkspace, CloseAuthority, disk
<1>18. ASSUME NEW p \in Process, Refuse(p)
      PROVE  Grows
  BY <1>18 DEF Refuse, Go, disk
<1>19. ASSUME NEW p \in Process, Die(p)
      PROVE  Grows
  BY <1>19 DEF Die, Go, disk
<1>20. ASSUME NEW p \in Process, NEW o \in Op, EnrollLock(p, o)
      PROVE  Grows
  BY <1>20 DEF EnrollLock, Start, Go, OpenWorkspace, WorkspaceFree, disk
<1>21. ASSUME NEW p \in Process, NEW o \in Op, StartFreeze(p, o)
      PROVE  Grows
  BY <1>21 DEF StartFreeze, Start, Go, disk, locks
<1>22. ASSUME NEW p \in Process, NEW o \in Op, StartSuspend(p, o)
      PROVE  Grows
  BY <1>22 DEF StartSuspend, Start, Go, disk, locks
<1>23. ASSUME NEW p \in Process, NEW o \in Op, NEW m \in Manifest,
               Assign(p, o, m)
      PROVE  Grows
  <2>1. HeadEvent \in Event
    BY <1>23, <1>a DEF Assign, Bound, IInv, Committed, TypeOK, HeadEvent, Revision
  <2>2. Assigned(o, m, HeadEvent.freeze) \in Event
    BY <2>1 DEF Assigned, Event, Manifest
  <2>3. journal' = Append(journal, Assigned(o, m, HeadEvent.freeze)) /\ Writers = {}
    BY <1>23, <1>c DEF Assign
  <2> QED
    BY <1>b, <2>2, <2>3
<1>24. ASSUME NEW p \in Process, NEW o \in Op, NEW m \in Manifest,
               ThawReceipt(p, o, m)
      PROVE  Grows
  BY <1>24 DEF ThawReceipt, Start, Go, OpenWorkspace, OpenAuthority, WorkspaceFree, AuthorityFree, Recorded, disk
<1>25. CASE UNCHANGED vars
  BY <1>25 DEF vars, locks, disk
<1> QED
  BY <1>1, <1>2, <1>3, <1>4, <1>5, <1>6, <1>7, <1>8, <1>9, <1>10, <1>11, <1>12,
     <1>13, <1>14, <1>15, <1>16, <1>17, <1>18, <1>19, <1>20, <1>21, <1>22, <1>23, <1>24, <1>25
  DEF Next

(* The journal is only appended to, and never while a process writes.      *)
THEOREM AppendOnly == Spec => JournalOnlyGrows
  BY Invariant, GrowthStep, PTL DEF Spec, JournalOnlyGrows

(* Only the end of a thaw takes the marker away. *)
LEMMA ThawStep ==
    IInv /\ [Next]_vars =>
        (marker # None /\ marker' = None => AssignedToSelf /\ Revision \in receipts /\ Revision \in retired')
<1> SUFFICES ASSUME IInv, [Next]_vars, marker # None, marker' = None
             PROVE  AssignedToSelf /\ Revision \in receipts /\ Revision \in retired'
  OBVIOUS
<1> USE AuthorityAssumption DEF IInv
<1>1. CASE PublishPointer
  BY <1>1 DEF PublishPointer, disk, locks
<1>2. ASSUME NEW p \in Process, OpenLock(p)
      PROVE  AssignedToSelf /\ Revision \in receipts /\ Revision \in retired'
  BY <1>2 DEF OpenLock, Go, OpenWorkspace, WorkspaceFree, disk
<1>3. ASSUME NEW p \in Process, Admit(p)
      PROVE  AssignedToSelf /\ Revision \in receipts /\ Revision \in retired'
  BY <1>3 DEF Admit, Go, OpenAuthority, disk
<1>4. ASSUME NEW p \in Process, Initialise(p)
      PROVE  AssignedToSelf /\ Revision \in receipts /\ Revision \in retired'
  BY <1>4 DEF Initialise, Go, disk, locks
<1>5. ASSUME NEW p \in Process, CloseApi(p)
      PROVE  AssignedToSelf /\ Revision \in receipts /\ Revision \in retired'
  BY <1>5 DEF CloseApi, Go, CloseAuthority, disk
<1>6. ASSUME NEW p \in Process, ReleaseApi(p)
      PROVE  AssignedToSelf /\ Revision \in receipts /\ Revision \in retired'
  BY <1>6 DEF ReleaseApi, Go, CloseWorkspace, disk
<1>7. ASSUME NEW p \in Process, StartWorker(p)
      PROVE  AssignedToSelf /\ Revision \in receipts /\ Revision \in retired'
  BY <1>7 DEF StartWorker, Retain, OpenWorkspace, OpenAuthority, disk
<1>8. ASSUME NEW p \in Process, ExitWorker(p)
      PROVE  AssignedToSelf /\ Revision \in receipts /\ Revision \in retired'
  BY <1>8 DEF ExitWorker, CloseAuthority, disk
<1>9. ASSUME NEW p \in Process, ReleaseWorker(p)
      PROVE  AssignedToSelf /\ Revision \in receipts /\ Revision \in retired'
  BY <1>9 DEF ReleaseWorker, CloseWorkspace, disk
<1>10. ASSUME NEW p \in Process, EnrollJournal(p)
      PROVE  AssignedToSelf /\ Revision \in receipts /\ Revision \in retired'
  BY <1>10 DEF EnrollJournal, Go, OpenAuthority, AuthorityFree, Enrollable, disk
<1>11. ASSUME NEW p \in Process, EnrollPart(p)
      PROVE  AssignedToSelf /\ Revision \in receipts /\ Revision \in retired'
  BY <1>11 DEF EnrollPart, Go, disk, locks
<1>12. ASSUME NEW p \in Process, EnrollPublish(p)
      PROVE  AssignedToSelf /\ Revision \in receipts /\ Revision \in retired'
  BY <1>12 DEF EnrollPublish, Go, CloseWorkspace, CloseAuthority, disk
<1>13. ASSUME NEW p \in Process, FreezeLock(p)
      PROVE  AssignedToSelf /\ Revision \in receipts /\ Revision \in retired'
  BY <1>13 DEF FreezeLock, Go, OpenWorkspace, WorkspaceFree, disk
<1>14. ASSUME NEW p \in Process, Publish(p)
      PROVE  AssignedToSelf /\ Revision \in receipts /\ Revision \in retired'
  BY <1>14 DEF Publish, Go, Progress, TypeOK, disk, locks
<1>15. ASSUME NEW p \in Process, EndFreeze(p)
      PROVE  AssignedToSelf /\ Revision \in receipts /\ Revision \in retired'
  BY <1>15 DEF EndFreeze, Go, CloseWorkspace, disk
<1>16. ASSUME NEW p \in Process, CommitSuspension(p)
      PROVE  AssignedToSelf /\ Revision \in receipts /\ Revision \in retired'
  BY <1>16 DEF CommitSuspension, Go, disk, locks
<1>17. ASSUME NEW p \in Process, ThawRetire(p)
      PROVE  AssignedToSelf /\ Revision \in receipts /\ Revision \in retired'
  BY <1>17 DEF ThawRetire, Go, CloseWorkspace, CloseAuthority, Progress, disk
<1>18. ASSUME NEW p \in Process, Refuse(p)
      PROVE  AssignedToSelf /\ Revision \in receipts /\ Revision \in retired'
  BY <1>18 DEF Refuse, Go, disk
<1>19. ASSUME NEW p \in Process, Die(p)
      PROVE  AssignedToSelf /\ Revision \in receipts /\ Revision \in retired'
  BY <1>19 DEF Die, Go, disk
<1>20. ASSUME NEW p \in Process, NEW o \in Op, EnrollLock(p, o)
      PROVE  AssignedToSelf /\ Revision \in receipts /\ Revision \in retired'
  BY <1>20 DEF EnrollLock, Start, Go, OpenWorkspace, WorkspaceFree, disk
<1>21. ASSUME NEW p \in Process, NEW o \in Op, StartFreeze(p, o)
      PROVE  AssignedToSelf /\ Revision \in receipts /\ Revision \in retired'
  BY <1>21 DEF StartFreeze, Start, Go, disk, locks
<1>22. ASSUME NEW p \in Process, NEW o \in Op, StartSuspend(p, o)
      PROVE  AssignedToSelf /\ Revision \in receipts /\ Revision \in retired'
  BY <1>22 DEF StartSuspend, Start, Go, disk, locks
<1>23. ASSUME NEW p \in Process, NEW o \in Op, NEW m \in Manifest,
               Assign(p, o, m)
      PROVE  AssignedToSelf /\ Revision \in receipts /\ Revision \in retired'
  BY <1>23 DEF Assign, disk, locks
<1>24. ASSUME NEW p \in Process, NEW o \in Op, NEW m \in Manifest,
               ThawReceipt(p, o, m)
      PROVE  AssignedToSelf /\ Revision \in receipts /\ Revision \in retired'
  BY <1>24 DEF ThawReceipt, Start, Go, OpenWorkspace, OpenAuthority, WorkspaceFree, AuthorityFree, Recorded, disk
<1>25. CASE UNCHANGED vars
  BY <1>25 DEF vars, locks, disk
<1> QED
  BY <1>1, <1>2, <1>3, <1>4, <1>5, <1>6, <1>7, <1>8, <1>9, <1>10, <1>11, <1>12,
     <1>13, <1>14, <1>15, <1>16, <1>17, <1>18, <1>19, <1>20, <1>21, <1>22, <1>23, <1>24, <1>25
  DEF Next

(* The marker is never deleted but by a thaw whose receipt is on disk.     *)
THEOREM AuditedThaw == Spec => MarkerLeavesAReceipt
  BY Invariant, ThawStep, PTL DEF Spec, MarkerLeavesAReceipt

(* Only Admit adds a writer, and what removes one leaves the files alone. *)
LEMMA WritersStep ==
    IInv /\ [Next]_vars =>
        \/ \E p \in Process : Admit(p) /\ ~Writing(p)
        \/ \A q \in Process : Writing(q)' <=> Writing(q)
        \/ (\A q \in Process : Writing(q)' => Writing(q)) /\ UNCHANGED (MayWrite /\ ~Frozen)
<1> SUFFICES ASSUME IInv, [Next]_vars
             PROVE  \/ \E p \in Process : Admit(p) /\ ~Writing(p)
                    \/ \A q \in Process : Writing(q)' <=> Writing(q)
                    \/ (\A q \in Process : Writing(q)' => Writing(q)) /\ UNCHANGED (MayWrite /\ ~Frozen)
  OBVIOUS
<1> DEFINE Same == \A q \in Process : Writing(q)' <=> Writing(q)
           Leaves == (\A q \in Process : Writing(q)' => Writing(q)) /\ UNCHANGED (MayWrite /\ ~Frozen)
<1>0. DOMAIN pc = Process /\ DOMAIN worker = Process
  BY DEF IInv, TypeOK
<1>1. CASE PublishPointer
  <2>1. Same
    BY <1>0, <1>1 DEF PublishPointer, Writing, locks
  <2> QED
    BY <2>1
<1>2. ASSUME NEW p \in Process, OpenLock(p)
      PROVE  Same
  BY <1>0, <1>2 DEF OpenLock, Go, Writing
<1>3. ASSUME NEW p \in Process, Admit(p)
      PROVE  Same \/ ~Writing(p)
  BY <1>0, <1>3 DEF Admit, Go, Writing
<1>4. ASSUME NEW p \in Process, Initialise(p)
      PROVE  Same
  BY <1>0, <1>4 DEF Initialise, Go, Writing
<1>5. ASSUME NEW p \in Process, CloseApi(p)
      PROVE  Leaves
  <2>1. \A q \in Process : Writing(q)' => Writing(q)
    BY <1>0, <1>5 DEF CloseApi, Go, Writing
  <2>2. UNCHANGED (MayWrite /\ ~Frozen)
    BY <1>5 DEF CloseApi, disk, MayWrite, Frozen, Bound, Admits, AssignedToSelf, HeadEvent, Revision
  <2> QED
    BY <2>1, <2>2
<1>6. ASSUME NEW p \in Process, ReleaseApi(p)
      PROVE  Same
  BY <1>0, <1>6 DEF ReleaseApi, Go, Writing
<1>7. ASSUME NEW p \in Process, StartWorker(p)
      PROVE  Same
  BY <1>0, <1>7 DEF StartWorker, Writing
<1>8. ASSUME NEW p \in Process, ExitWorker(p)
      PROVE  Leaves
  <2>1. \A q \in Process : Writing(q)' => Writing(q)
    BY <1>0, <1>8 DEF ExitWorker, Writing
  <2>2. UNCHANGED (MayWrite /\ ~Frozen)
    BY <1>8 DEF ExitWorker, disk, MayWrite, Frozen, Bound, Admits, AssignedToSelf, HeadEvent, Revision
  <2> QED
    BY <2>1, <2>2
<1>9. ASSUME NEW p \in Process, ReleaseWorker(p)
      PROVE  Same
  BY <1>0, <1>9 DEF ReleaseWorker, Writing
<1>10. ASSUME NEW p \in Process, EnrollJournal(p)
      PROVE  Same
  BY <1>0, <1>10 DEF EnrollJournal, Go, Writing
<1>11. ASSUME NEW p \in Process, EnrollPart(p)
      PROVE  Same
  BY <1>0, <1>11 DEF EnrollPart, Go, Writing
<1>12. ASSUME NEW p \in Process, EnrollPublish(p)
      PROVE  Same
  BY <1>0, <1>12 DEF EnrollPublish, Go, Writing
<1>13. ASSUME NEW p \in Process, FreezeLock(p)
      PROVE  Same
  BY <1>0, <1>13 DEF FreezeLock, Go, Writing
<1>14. ASSUME NEW p \in Process, Publish(p)
      PROVE  Same
  BY <1>0, <1>14 DEF Publish, Go, Writing
<1>15. ASSUME NEW p \in Process, EndFreeze(p)
      PROVE  Same
  BY <1>0, <1>15 DEF EndFreeze, Go, Writing
<1>16. ASSUME NEW p \in Process, CommitSuspension(p)
      PROVE  Same
  BY <1>0, <1>16 DEF CommitSuspension, Go, Writing
<1>17. ASSUME NEW p \in Process, ThawRetire(p)
      PROVE  Same
  BY <1>0, <1>17 DEF ThawRetire, Go, Writing
<1>18. ASSUME NEW p \in Process, Refuse(p)
      PROVE  Leaves
  <2>1. \A q \in Process : Writing(q)' => Writing(q)
    BY <1>0, <1>18 DEF Refuse, Go, Writing
  <2>2. UNCHANGED (MayWrite /\ ~Frozen)
    BY <1>18 DEF Refuse, disk, MayWrite, Frozen, Bound, Admits, AssignedToSelf, HeadEvent, Revision
  <2> QED
    BY <2>1, <2>2
<1>19. ASSUME NEW p \in Process, Die(p)
      PROVE  Leaves
  <2>1. \A q \in Process : Writing(q)' => Writing(q)
    BY <1>0, <1>19 DEF Die, Go, Writing
  <2>2. UNCHANGED (MayWrite /\ ~Frozen)
    BY <1>19 DEF Die, disk, MayWrite, Frozen, Bound, Admits, AssignedToSelf, HeadEvent, Revision
  <2> QED
    BY <2>1, <2>2
<1>20. ASSUME NEW p \in Process, NEW o \in Op, EnrollLock(p, o)
      PROVE  Same
  BY <1>0, <1>20 DEF EnrollLock, Start, Go, Writing
<1>21. ASSUME NEW p \in Process, NEW o \in Op, StartFreeze(p, o)
      PROVE  Same
  BY <1>0, <1>21 DEF StartFreeze, Start, Go, Writing
<1>22. ASSUME NEW p \in Process, NEW o \in Op, StartSuspend(p, o)
      PROVE  Same
  BY <1>0, <1>22 DEF StartSuspend, Start, Go, Writing
<1>23. ASSUME NEW p \in Process, NEW o \in Op, NEW m \in Manifest,
               Assign(p, o, m)
      PROVE  Same
  BY <1>0, <1>23 DEF Assign, Writing, locks
<1>24. ASSUME NEW p \in Process, NEW o \in Op, NEW m \in Manifest,
               ThawReceipt(p, o, m)
      PROVE  Same
  BY <1>0, <1>24 DEF ThawReceipt, Start, Go, Writing
<1>25. CASE UNCHANGED vars
  <2>1. Same
    BY <1>0, <1>25 DEF vars, Writing
  <2> QED
    BY <2>1
<1> QED
  BY <1>1, <1>2, <1>3, <1>4, <1>5, <1>6, <1>7, <1>8, <1>9, <1>10, <1>11, <1>12,
     <1>13, <1>14, <1>15, <1>16, <1>17, <1>18, <1>19, <1>20, <1>21, <1>22, <1>23, <1>24, <1>25
  DEF Next

(* Each step of the files and locks is a step of the fence, or none.       *)
LEMMA FenceStep == IInv /\ IInv' /\ [Next]_vars => [Fence!Next]_<<MayWrite /\ ~Frozen, Writers>>
<1> SUFFICES ASSUME IInv, IInv', [Next]_vars
             PROVE  [Fence!Next]_<<MayWrite /\ ~Frozen, Writers>>
  OBVIOUS
<1>1. OneWriter /\ OneWriter'
  <2>1. OneWriter
    BY AtMostOneWriter
  <2>2. \A p \in Process : Writing(p)' => "api" \in workspaceFds'[p] \/ "worker" \in workspaceFds'[p]
    BY DEF IInv, HoldsWorkspace, Writing
  <2>3. OneWriter'
    BY <2>2 DEF IInv, Exclusive, OneWriter, Writers
  <2> QED
    BY <2>1, <2>3
<1>2. ASSUME NEW p \in Process, Admit(p), ~Writing(p)
      PROVE  Fence!Enter(p)
  <2>1. \A q \in Process : q # p => ~Writing(q)
    BY <1>2, WriterHoldsWorkspace DEF Admit, IInv, Exclusive, HoldsWorkspace
  <2>2. Writers = {}
    BY <1>2, <2>1 DEF Writers
  <2>3. Writers' = {p}
    BY <1>2, <2>1 DEF Admit, Go, Writers, Writing, IInv, TypeOK
  <2>4. (MayWrite /\ ~Frozen) /\ (MayWrite /\ ~Frozen)'
    BY <1>2 DEF Admit, MayWrite, Frozen, Bound, AcquireWriter, Admits, AssignedToSelf, HeadEvent, Revision
  <2> QED
    BY <2>2, <2>3, <2>4 DEF Fence!Enter
<1>3. CASE Writers' = Writers
  <2>1. CASE Writers = {}
    BY <1>3, <2>1 DEF Fence!Next, Fence!Decide
  <2>2. CASE Writers # {}
    BY <1>3, <2>2 DEF IInv, WritersAreAdmitted
  <2> QED
    BY <2>1, <2>2
<1>4. CASE Writers' \subseteq Writers /\ Writers' # Writers /\ UNCHANGED (MayWrite /\ ~Frozen)
  <2>1. PICK p \in Process : p \in Writers /\ p \notin Writers'
    BY <1>4 DEF Writers
  <2>2. Writers' = Writers \ {p}
    BY <1>1, <1>4, <2>1 DEF OneWriter
  <2> QED
    BY <1>4, <2>1, <2>2 DEF Fence!Next, Fence!Leave
<1> QED
  BY <1>2, <1>3, <1>4, WritersStep DEF Fence!Next, Writers

(* The files and locks implement the abstract WriterFence. *)
THEOREM Implementation == Spec => ImplementsFence
<1>1. Init => Fence!Init
  BY AuthorityAssumption DEF Init, Fence!Init, MayWrite, Bound, Frozen, Writers, Writing
<1> QED
  BY <1>1, Invariant, FenceStep, PTL DEF Spec, ImplementsFence, Fence!Spec
=============================================================================
