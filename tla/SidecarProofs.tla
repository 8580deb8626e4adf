--------------------------- MODULE SidecarProofs ---------------------------
(***************************************************************************)
(* Theorems about Sidecar for any number of calls, keys, revisions and     *)
(* results, any lease and any bounds.  The argument rests on one inductive *)
(* invariant, IInv: a row is running only under the active revision, every *)
(* answer given is the one recorded in a completed row, and a call that    *)
(* holds a lease in force is the owner named in the row of its key, owners *)
(* being unique.                                                           *)
(***************************************************************************)
EXTENDS Sidecar, TLAPS

LEMMA IdleCallType == /\ IdleCall \in Call
                      /\ IdleCall.at = "idle"
                      /\ IdleCall.owner = 0 /\ IdleCall.now = 0
                      /\ IdleCall.expires = 0 /\ IdleCall.epoch = 0
  BY SidecarAssumption DEF IdleCall, Call, Position

\* Rollback changes a row only by fencing it.
LEMMA RolledBackRow ==
  ASSUME NEW run \in Run
  PROVE  /\ RolledBack(run) \in Run
         /\ RolledBack(run).status # "running"
         /\ RolledBack(run).owner = run.owner
         /\ RolledBack(run).status = "completed" <=> run.status = "completed"
         /\ run.status # "running" => RolledBack(run) = run
<1>1. CASE run.status = "running"
  BY <1>1 DEF RolledBack, Run, RunStatus
<1>2. CASE run.status # "running"
  BY <1>2 DEF RolledBack
<1> QED
  BY <1>1, <1>2

LEMMA InitInvariant == Init => IInv
<1> SUFFICES ASSUME Init PROVE IInv
  OBVIOUS
<1> USE SidecarAssumption, IdleCallType DEF Init
<1>1. NoRun \in Run
  BY DEF NoRun, Run, RunStatus
<1>2. TypeOK
  BY <1>1 DEF TypeOK
<1>3. ModeExclusion /\ RunningOnlyWhileActive /\ ResultsInSpace /\ AnswersAreRecorded
  BY DEF ModeExclusion, RunningOnlyWhileActive, ResultsInSpace,
     AnswersAreRecorded, NoRun
<1>4. OwnersAreFresh /\ LeaseIsInRow
  BY DEF OwnersAreFresh, LeaseIsInRow, HasOwner, InForce, NoRun
<1> QED
  BY <1>2, <1>3, <1>4 DEF IInv

(* Rows, calls and answers keep their types. *)
LEMMA TypeStep == TypeOK /\ ResultsInSpace /\ [Next]_vars => TypeOK'
<1> SUFFICES ASSUME TypeOK /\ ResultsInSpace, [Next]_vars PROVE TypeOK'
  OBVIOUS
<1> USE SidecarAssumption, IdleCallType DEF TypeOK, ResultsInSpace
<1>1. CASE StopLegacy
  BY <1>1 DEF StopLegacy
<1>2. ASSUME NEW r \in Revision, Activate(r) PROVE TypeOK'
  BY <1>2 DEF Activate
<1>3. CASE Rollback
  <2>1. runs' \in [Key -> Run]
    BY <1>3, RolledBackRow DEF Rollback
  <2>2. rollbacks' \in Nat
    BY <1>3 DEF Rollback
  <2> QED
    BY <1>3, <2>1, <2>2, Zenon DEF Rollback
<1>4. ASSUME NEW w \in Worker, NEW k \in Key, NEW r \in Revision,
               Submit(w, k, r) PROVE TypeOK'
  <2>1. [IdleCall EXCEPT !.at = "claiming", !.key = k, !.revision = r,
                         !.now = clock] \in Call
    BY DEF Call, Position
  <2>2. calls' \in [Worker -> Call]
    BY <1>4, <2>1 DEF Submit
  <2> QED
    BY <1>4, <2>2 DEF Submit, stateRow
<1>5. ASSUME NEW w \in Worker, ClaimGranted(w) PROVE TypeOK'
  <2>1. claims + 1 \in Nat /\ calls[w].now + LeaseTicks \in Nat
    BY DEF Call
  <2>2. runs' \in [Key -> Run]
    BY <1>5, <2>1 DEF ClaimGranted, Run, RunStatus, Call
  <2>3. [calls[w] EXCEPT !.at = "handling", !.owner = claims + 1,
                         !.expires = calls[w].now + LeaseTicks,
                         !.epoch = rollbacks] \in Call
    BY <2>1 DEF Call, Position
  <2>4. calls' \in [Worker -> Call]
    BY <1>5, <2>3 DEF ClaimGranted
  <2> QED
    BY <1>5, <2>1, <2>2, <2>4 DEF ClaimGranted, stateRow
<1>6. ASSUME NEW w \in Worker, ClaimReplayed(w) PROVE TypeOK'
  BY <1>6 DEF ClaimReplayed, stateRow, Replayable, Result, Call
<1>7. ASSUME NEW w \in Worker, ClaimRefused(w) PROVE TypeOK'
  BY <1>7 DEF ClaimRefused, stateRow
<1>8. ASSUME NEW w \in Worker, HandlerRaises(w) PROVE TypeOK'
  BY <1>8 DEF HandlerRaises, stateRow, Call, Position
<1>9. ASSUME NEW w \in Worker, NEW u \in Uri \cup {ForeignUri},
               HandlerReturns(w, u) PROVE TypeOK'
  <2>1. [calls[w] EXCEPT !.at = "returned", !.uri = u] \in Call
    BY DEF Call, Position
  <2>2. calls' \in [Worker -> Call]
    BY <1>9, <2>1 DEF HandlerReturns
  <2> QED
    BY <1>9, <2>2 DEF HandlerReturns, stateRow
<1>10. ASSUME NEW w \in Worker, BeginComplete(w) PROVE TypeOK'
  <2>1. \A at \in Position : [calls[w] EXCEPT !.at = at, !.now = clock] \in Call
    BY DEF Call
  <2>2. calls' \in [Worker -> Call]
    <3>1. (IF InSpace(calls[w].uri) THEN "completing" ELSE "releasing") \in Position
      BY DEF Position
    <3> QED
      BY <1>10, <2>1, <3>1 DEF BeginComplete
  <2> QED
    BY <1>10, <2>2 DEF BeginComplete, stateRow
<1>11. ASSUME NEW w \in Worker, Complete(w) PROVE TypeOK'
  BY <1>11 DEF Complete, stateRow, Call, Position, Run, RunStatus, Result
<1>12. ASSUME NEW w \in Worker, LeaseLost(w) PROVE TypeOK'
  BY <1>12 DEF LeaseLost, stateRow, Call, Position
<1>13. ASSUME NEW w \in Worker, Release(w) PROVE TypeOK'
  <2>1. runs' \in [Key -> Run]
    <3>1. CASE Owned(calls[w])
      BY <1>13, <3>1 DEF Release, Run, RunStatus, Call
    <3>2. CASE ~Owned(calls[w])
      BY <1>13, <3>2 DEF Release
    <3> QED
      BY <3>1, <3>2
  <2> QED
    BY <1>13, <2>1 DEF Release, stateRow
<1>14. ASSUME NEW w \in Worker, Crash(w) PROVE TypeOK'
  BY <1>14 DEF Crash, stateRow
<1>15. CASE Tick
  BY <1>15 DEF Tick, stateRow
<1>16. CASE UNCHANGED vars
  BY <1>16 DEF vars
<1> QED
  BY <1>1, <1>2, <1>3, <1>4, <1>5, <1>6, <1>7, <1>8,
     <1>9, <1>10, <1>11, <1>12, <1>13, <1>14, <1>15, <1>16
  DEF Next, Operate, Advance

(* Nothing outside the Space of its request is about to be recorded. *)
LEMMA SpaceStep == TypeOK /\ RunningOnlyWhileActive /\ ResultsInSpace /\ [Next]_vars => ResultsInSpace'
<1> SUFFICES ASSUME TypeOK /\ RunningOnlyWhileActive /\ ResultsInSpace, [Next]_vars PROVE ResultsInSpace'
  OBVIOUS
<1> USE SidecarAssumption, IdleCallType DEF TypeOK, ResultsInSpace, RunningOnlyWhileActive
<1>1. CASE StopLegacy
  BY <1>1 DEF StopLegacy
<1>2. ASSUME NEW r \in Revision, Activate(r) PROVE ResultsInSpace'
  BY <1>2 DEF Activate
<1>3. CASE Rollback
  BY <1>3, RolledBackRow DEF Rollback
<1>4. ASSUME NEW w \in Worker, NEW k \in Key, NEW r \in Revision,
               Submit(w, k, r) PROVE ResultsInSpace'
  BY <1>4 DEF Submit, stateRow, IdleCall
<1>5. ASSUME NEW w \in Worker, ClaimGranted(w) PROVE ResultsInSpace'
  BY <1>5 DEF ClaimGranted, stateRow, Call, Position, Run, RunStatus
<1>6. ASSUME NEW w \in Worker, ClaimReplayed(w) PROVE ResultsInSpace'
  BY <1>6 DEF ClaimReplayed, stateRow
<1>7. ASSUME NEW w \in Worker, ClaimRefused(w) PROVE ResultsInSpace'
  BY <1>7 DEF ClaimRefused, stateRow
<1>8. ASSUME NEW w \in Worker, HandlerRaises(w) PROVE ResultsInSpace'
  BY <1>8 DEF HandlerRaises, stateRow, Call, Position
<1>9. ASSUME NEW w \in Worker, NEW u \in Uri \cup {ForeignUri},
               HandlerReturns(w, u) PROVE ResultsInSpace'
  BY <1>9 DEF HandlerReturns, stateRow, Call, Position
<1>10. ASSUME NEW w \in Worker, BeginComplete(w) PROVE ResultsInSpace'
  BY <1>10 DEF BeginComplete, stateRow, Call, Position, InSpace
<1>11. ASSUME NEW w \in Worker, Complete(w) PROVE ResultsInSpace'
  <2>1. calls[w].key \in Key /\ calls[w].uri \in Uri
    BY <1>11 DEF Complete, Call
  <2>2. runs[calls[w].key].revision \in Revision
    BY <1>11, <2>1 DEF Complete, HoldsLease, RevisionIsActive, Call
  <2> QED
    BY <1>11, <2>1, <2>2 DEF Complete, stateRow, Call, Position, Run
<1>12. ASSUME NEW w \in Worker, LeaseLost(w) PROVE ResultsInSpace'
  BY <1>12 DEF LeaseLost, stateRow, Call, Position
<1>13. ASSUME NEW w \in Worker, Release(w) PROVE ResultsInSpace'
  BY <1>13 DEF Release, stateRow, Run, RunStatus
<1>14. ASSUME NEW w \in Worker, Crash(w) PROVE ResultsInSpace'
  BY <1>14 DEF Crash, stateRow
<1>15. CASE Tick
  BY <1>15 DEF Tick, stateRow
<1>16. CASE UNCHANGED vars
  BY <1>16 DEF vars
<1> QED
  BY <1>1, <1>2, <1>3, <1>4, <1>5, <1>6, <1>7, <1>8,
     <1>9, <1>10, <1>11, <1>12, <1>13, <1>14, <1>15, <1>16
  DEF Next, Operate, Advance

(* The mode of the deployment and the rows that may run in it. *)
LEMMA ModeStep == TypeOK /\ ModeExclusion /\ RunningOnlyWhileActive /\ [Next]_vars => (ModeExclusion /\ RunningOnlyWhileActive)'
<1> SUFFICES ASSUME TypeOK /\ ModeExclusion /\ RunningOnlyWhileActive, [Next]_vars PROVE (ModeExclusion /\ RunningOnlyWhileActive)'
  OBVIOUS
<1> USE SidecarAssumption, IdleCallType DEF TypeOK, ModeExclusion, RunningOnlyWhileActive
<1>1. CASE StopLegacy
  BY <1>1 DEF StopLegacy
<1>2. ASSUME NEW r \in Revision, Activate(r) PROVE (ModeExclusion /\ RunningOnlyWhileActive)'
  BY <1>2 DEF Activate
<1>3. CASE Rollback
  BY <1>3 DEF Rollback, RolledBack, Run
<1>4. ASSUME NEW w \in Worker, NEW k \in Key, NEW r \in Revision,
               Submit(w, k, r) PROVE (ModeExclusion /\ RunningOnlyWhileActive)'
  BY <1>4 DEF Submit, stateRow
<1>5. ASSUME NEW w \in Worker, ClaimGranted(w) PROVE (ModeExclusion /\ RunningOnlyWhileActive)'
  BY <1>5 DEF ClaimGranted, stateRow, Claimable, RevisionIsActive, Run, RunStatus, Call
<1>6. ASSUME NEW w \in Worker, ClaimReplayed(w) PROVE (ModeExclusion /\ RunningOnlyWhileActive)'
  BY <1>6 DEF ClaimReplayed, stateRow
<1>7. ASSUME NEW w \in Worker, ClaimRefused(w) PROVE (ModeExclusion /\ RunningOnlyWhileActive)'
  BY <1>7 DEF ClaimRefused, stateRow
<1>8. ASSUME NEW w \in Worker, HandlerRaises(w) PROVE (ModeExclusion /\ RunningOnlyWhileActive)'
  BY <1>8 DEF HandlerRaises, stateRow
<1>9. ASSUME NEW w \in Worker, NEW u \in Uri \cup {ForeignUri},
               HandlerReturns(w, u) PROVE (ModeExclusion /\ RunningOnlyWhileActive)'
  BY <1>9 DEF HandlerReturns, stateRow
<1>10. ASSUME NEW w \in Worker, BeginComplete(w) PROVE (ModeExclusion /\ RunningOnlyWhileActive)'
  BY <1>10 DEF BeginComplete, stateRow
<1>11. ASSUME NEW w \in Worker, Complete(w) PROVE (ModeExclusion /\ RunningOnlyWhileActive)'
  BY <1>11 DEF Complete, stateRow, Run, RunStatus
<1>12. ASSUME NEW w \in Worker, LeaseLost(w) PROVE (ModeExclusion /\ RunningOnlyWhileActive)'
  BY <1>12 DEF LeaseLost, stateRow
<1>13. ASSUME NEW w \in Worker, Release(w) PROVE (ModeExclusion /\ RunningOnlyWhileActive)'
  BY <1>13 DEF Release, stateRow, Run, RunStatus
<1>14. ASSUME NEW w \in Worker, Crash(w) PROVE (ModeExclusion /\ RunningOnlyWhileActive)'
  BY <1>14 DEF Crash, stateRow
<1>15. CASE Tick
  BY <1>15 DEF Tick, stateRow
<1>16. CASE UNCHANGED vars
  BY <1>16 DEF vars
<1> QED
  BY <1>1, <1>2, <1>3, <1>4, <1>5, <1>6, <1>7, <1>8,
     <1>9, <1>10, <1>11, <1>12, <1>13, <1>14, <1>15, <1>16
  DEF Next, Operate, Advance

(* An answer, once given, stays the one recorded for its key. *)
LEMMA AnswersStep == TypeOK /\ RunningOnlyWhileActive /\ AnswersAreRecorded /\ [Next]_vars => AnswersAreRecorded'
<1> SUFFICES ASSUME TypeOK /\ RunningOnlyWhileActive /\ AnswersAreRecorded, [Next]_vars PROVE AnswersAreRecorded'
  OBVIOUS
<1> USE SidecarAssumption, IdleCallType DEF TypeOK, RunningOnlyWhileActive, AnswersAreRecorded, Result
<1>1. CASE StopLegacy
  BY <1>1 DEF StopLegacy
<1>2. ASSUME NEW r \in Revision, Activate(r) PROVE AnswersAreRecorded'
  BY <1>2 DEF Activate
<1>3. CASE Rollback
  BY <1>3 DEF Rollback, RolledBack, Run
<1>4. ASSUME NEW w \in Worker, NEW k \in Key, NEW r \in Revision,
               Submit(w, k, r) PROVE AnswersAreRecorded'
  BY <1>4 DEF Submit, stateRow
<1>5. ASSUME NEW w \in Worker, ClaimGranted(w) PROVE AnswersAreRecorded'
  BY <1>5 DEF ClaimGranted, stateRow, Claimable, Run, Call
<1>6. ASSUME NEW w \in Worker, ClaimReplayed(w) PROVE AnswersAreRecorded'
  BY <1>6 DEF ClaimReplayed, stateRow, Replayable, BoundHere, Call
<1>7. ASSUME NEW w \in Worker, ClaimRefused(w) PROVE AnswersAreRecorded'
  BY <1>7 DEF ClaimRefused, stateRow
<1>8. ASSUME NEW w \in Worker, HandlerRaises(w) PROVE AnswersAreRecorded'
  BY <1>8 DEF HandlerRaises, stateRow
<1>9. ASSUME NEW w \in Worker, NEW u \in Uri \cup {ForeignUri},
               HandlerReturns(w, u) PROVE AnswersAreRecorded'
  BY <1>9 DEF HandlerReturns, stateRow
<1>10. ASSUME NEW w \in Worker, BeginComplete(w) PROVE AnswersAreRecorded'
  BY <1>10 DEF BeginComplete, stateRow
<1>11. ASSUME NEW w \in Worker, Complete(w) PROVE AnswersAreRecorded'
  BY <1>11 DEF Complete, stateRow, HoldsLease, RevisionIsActive, Run, Call
<1>12. ASSUME NEW w \in Worker, LeaseLost(w) PROVE AnswersAreRecorded'
  BY <1>12 DEF LeaseLost, stateRow
<1>13. ASSUME NEW w \in Worker, Release(w) PROVE AnswersAreRecorded'
  BY <1>13 DEF Release, stateRow, Owned, Run, Call
<1>14. ASSUME NEW w \in Worker, Crash(w) PROVE AnswersAreRecorded'
  BY <1>14 DEF Crash, stateRow
<1>15. CASE Tick
  BY <1>15 DEF Tick, stateRow
<1>16. CASE UNCHANGED vars
  BY <1>16 DEF vars
<1> QED
  BY <1>1, <1>2, <1>3, <1>4, <1>5, <1>6, <1>7, <1>8,
     <1>9, <1>10, <1>11, <1>12, <1>13, <1>14, <1>15, <1>16
  DEF Next, Operate, Advance

(* No two calls share an owner. *)
LEMMA OwnersStep == TypeOK /\ OwnersAreFresh /\ [Next]_vars => OwnersAreFresh'
<1> SUFFICES ASSUME TypeOK /\ OwnersAreFresh, [Next]_vars PROVE OwnersAreFresh'
  OBVIOUS
<1> USE SidecarAssumption, IdleCallType DEF TypeOK, OwnersAreFresh, HasOwner
<1>1. CASE StopLegacy
  BY <1>1 DEF StopLegacy
<1>2. ASSUME NEW r \in Revision, Activate(r) PROVE OwnersAreFresh'
  BY <1>2 DEF Activate
<1>3. CASE Rollback
  <2>1. \A k \in Key : runs'[k].owner = runs[k].owner
    BY <1>3, RolledBackRow DEF Rollback
  <2>2. rollbacks' = rollbacks + 1 /\ claims' = claims /\ calls' = calls /\ clock' = clock
    BY <1>3 DEF Rollback
  <2>3. \A w \in Worker : calls'[w].epoch <= rollbacks'
    BY <2>2 DEF Call
  <2> QED
    BY <2>1, <2>2, <2>3
<1>4. ASSUME NEW w \in Worker, NEW k \in Key, NEW r \in Revision,
               Submit(w, k, r) PROVE OwnersAreFresh'
  BY <1>4 DEF Submit, stateRow, IdleCall, Call
<1>5. ASSUME NEW w \in Worker, ClaimGranted(w) PROVE OwnersAreFresh'
  BY <1>5 DEF ClaimGranted, stateRow, Run, Call
<1>6. ASSUME NEW w \in Worker, ClaimReplayed(w) PROVE OwnersAreFresh'
  BY <1>6 DEF ClaimReplayed, stateRow
<1>7. ASSUME NEW w \in Worker, ClaimRefused(w) PROVE OwnersAreFresh'
  BY <1>7 DEF ClaimRefused, stateRow
<1>8. ASSUME NEW w \in Worker, HandlerRaises(w) PROVE OwnersAreFresh'
  BY <1>8 DEF HandlerRaises, stateRow, Call
<1>9. ASSUME NEW w \in Worker, NEW u \in Uri \cup {ForeignUri},
               HandlerReturns(w, u) PROVE OwnersAreFresh'
  BY <1>9 DEF HandlerReturns, stateRow, Call
<1>10. ASSUME NEW w \in Worker, BeginComplete(w) PROVE OwnersAreFresh'
  BY <1>10 DEF BeginComplete, stateRow, Call
<1>11. ASSUME NEW w \in Worker, Complete(w) PROVE OwnersAreFresh'
  BY <1>11 DEF Complete, stateRow, Run, Call
<1>12. ASSUME NEW w \in Worker, LeaseLost(w) PROVE OwnersAreFresh'
  BY <1>12 DEF LeaseLost, stateRow, Call
<1>13. ASSUME NEW w \in Worker, Release(w) PROVE OwnersAreFresh'
  BY <1>13 DEF Release, stateRow, Run, Call
<1>14. ASSUME NEW w \in Worker, Crash(w) PROVE OwnersAreFresh'
  BY <1>14 DEF Crash, stateRow
<1>15. CASE Tick
  <2>1. clock' = clock + 1 /\ UNCHANGED <<runs, claims, calls, rollbacks>>
    BY <1>15 DEF Tick, stateRow
  <2>2. \A w \in Worker : calls'[w].now <= clock'
    BY <2>1 DEF Call
  <2> QED
    BY <2>1, <2>2
<1>16. CASE UNCHANGED vars
  BY <1>16 DEF vars
<1> QED
  BY <1>1, <1>2, <1>3, <1>4, <1>5, <1>6, <1>7, <1>8,
     <1>9, <1>10, <1>11, <1>12, <1>13, <1>14, <1>15, <1>16
  DEF Next, Operate, Advance

(* A lease in force stays the one in the row of its key. *)
LEMMA LeaseStep == TypeOK /\ OwnersAreFresh /\ LeaseIsInRow /\ [Next]_vars => LeaseIsInRow'
<1> SUFFICES ASSUME TypeOK /\ OwnersAreFresh /\ LeaseIsInRow, [Next]_vars PROVE LeaseIsInRow'
  OBVIOUS
<1> USE SidecarAssumption, IdleCallType DEF TypeOK, OwnersAreFresh, LeaseIsInRow, InForce, Live, HasOwner
<1>1. CASE StopLegacy
  BY <1>1 DEF StopLegacy
<1>2. ASSUME NEW r \in Revision, Activate(r) PROVE LeaseIsInRow'
  BY <1>2 DEF Activate
<1>3. CASE Rollback
  <2>1. calls' = calls /\ rollbacks' = rollbacks + 1
    BY <1>3 DEF Rollback
  <2>2. \A v \in Worker : calls'[v].epoch # rollbacks'
    BY <2>1 DEF Call
  <2> QED
    BY <2>2
<1>4. ASSUME NEW w \in Worker, NEW k \in Key, NEW r \in Revision,
               Submit(w, k, r) PROVE LeaseIsInRow'
  BY <1>4 DEF Submit, stateRow, IdleCall, Call
<1>5. ASSUME NEW w \in Worker, ClaimGranted(w) PROVE LeaseIsInRow'
  BY <1>5 DEF ClaimGranted, stateRow, Claimable, Run, Call
<1>6. ASSUME NEW w \in Worker, ClaimReplayed(w) PROVE LeaseIsInRow'
  BY <1>6 DEF ClaimReplayed, stateRow
<1>7. ASSUME NEW w \in Worker, ClaimRefused(w) PROVE LeaseIsInRow'
  BY <1>7 DEF ClaimRefused, stateRow
<1>8. ASSUME NEW w \in Worker, HandlerRaises(w) PROVE LeaseIsInRow'
  BY <1>8 DEF HandlerRaises, stateRow, Call
<1>9. ASSUME NEW w \in Worker, NEW u \in Uri \cup {ForeignUri},
               HandlerReturns(w, u) PROVE LeaseIsInRow'
  BY <1>9 DEF HandlerReturns, stateRow, Call
<1>10. ASSUME NEW w \in Worker, BeginComplete(w) PROVE LeaseIsInRow'
  BY <1>10 DEF BeginComplete, stateRow, Call
<1>11. ASSUME NEW w \in Worker, Complete(w) PROVE LeaseIsInRow'
  BY <1>11 DEF Complete, stateRow, HoldsLease, Run, Call
<1>12. ASSUME NEW w \in Worker, LeaseLost(w) PROVE LeaseIsInRow'
  BY <1>12 DEF LeaseLost, stateRow, HoldsLease, Call
<1>13. ASSUME NEW w \in Worker, Release(w) PROVE LeaseIsInRow'
  BY <1>13 DEF Release, stateRow, Owned, Run, Call
<1>14. ASSUME NEW w \in Worker, Crash(w) PROVE LeaseIsInRow'
  BY <1>14 DEF Crash, stateRow
<1>15. CASE Tick
  BY <1>15 DEF Tick, stateRow, Call
<1>16. CASE UNCHANGED vars
  BY <1>16 DEF vars
<1> QED
  BY <1>1, <1>2, <1>3, <1>4, <1>5, <1>6, <1>7, <1>8,
     <1>9, <1>10, <1>11, <1>12, <1>13, <1>14, <1>15, <1>16
  DEF Next, Operate, Advance

(* IInv is an invariant: the whole state of the sidecar, kept by every step. *)
THEOREM Invariant == Spec => []IInv
<1>1. IInv /\ [Next]_vars => IInv'
  BY TypeStep, SpaceStep, ModeStep, AnswersStep, OwnersStep, LeaseStep DEF IInv
<1> QED
  BY InitInvariant, <1>1, PTL DEF Spec

(* Type correctness: in particular no caller is ever handed a result outside *)
(* the Space of its request.                                                 *)
THEOREM TypeCorrect == Spec => []TypeOK
<1>1. IInv => TypeOK
  BY DEF IInv
<1> QED
  BY Invariant, <1>1, PTL

(* stop_legacy, activate and rollback keep legacy and sidecar apart. *)
THEOREM Exclusion == Spec => []ModeExclusion
<1>1. IInv => ModeExclusion
  BY DEF IInv
<1> QED
  BY Invariant, <1>1, PTL

(* rollback fences every run: none outlives the revision it was claimed under. *)
THEOREM Fencing == Spec => []RunningOnlyWhileActive
<1>1. IInv => RunningOnlyWhileActive
  BY DEF IInv
<1> QED
  BY Invariant, <1>1, PTL

(* process() is idempotent: all answers for one key are equal, because each *)
(* is the one recorded in the completed row of that key.                    *)
THEOREM Idempotence == Spec => []ResultsAgree
<1>1. IInv => ResultsAgree
  <2> SUFFICES ASSUME IInv, NEW a \in returned, NEW b \in returned,
                      a.key = b.key
               PROVE a = b
    BY DEF ResultsAgree
  <2>1. a \in Result /\ b \in Result
    BY DEF IInv, TypeOK
  <2>2. a.revision = b.revision /\ a.uri = b.uri
    BY DEF IInv, AnswersAreRecorded
  <2> QED
    BY <2>1, <2>2 DEF Result
<1> QED
  BY Invariant, <1>1, PTL

(* No two handlers hold a lease in force on one key. *)
THEOREM LeaseExclusion == Spec => []LiveLeaseIsExclusive
<1>1. IInv => LiveLeaseIsExclusive
  BY DEF IInv, LiveLeaseIsExclusive, LeaseIsInRow, OwnersAreFresh, InForce,
         HasOwner
<1> QED
  BY Invariant, <1>1, PTL

\* The transactions that write a row of the runs.
LEMMA RunWriters ==
  ASSUME [Next]_vars, runs' # runs
  PROVE  Rollback \/ \E w \in Worker : ClaimGranted(w) \/ Complete(w) \/ Release(w)
BY DEF Next, Operate, Advance, vars, stateRow, StopLegacy, Activate, Submit, ClaimReplayed,
       ClaimRefused, HandlerReturns, HandlerRaises, BeginComplete, LeaseLost, Crash, Tick

(* A late claim, completion or release leaves the row of a lease in force    *)
(* alone: only its own call, or a rollback, ends the run.                    *)
THEOREM Ownership == Spec => OnlyOwnerEndsRun
<1> DEFINE EndsAsItMay(w) == \/ runs'[calls[w].key] = runs[calls[w].key]
                             \/ calls'[w].at = "idle"
                             \/ rollbacks' # rollbacks
<1>1. IInv /\ [Next]_vars =>
        [\A w \in Worker : InForce(calls[w]) /\ runs[calls[w].key].status = "running"
            => EndsAsItMay(w)]_vars
  <2> SUFFICES ASSUME IInv, [Next]_vars, NEW w \in Worker, InForce(calls[w]), runs' # runs
               PROVE  EndsAsItMay(w)
    OBVIOUS
  <2> USE DEF IInv, TypeOK, OwnersAreFresh
  <2>1. /\ runs[calls[w].key].status = "running"
        /\ runs[calls[w].key].owner = calls[w].owner
        /\ runs[calls[w].key].expires > clock
        /\ HasOwner(calls[w]) /\ calls[w].at # "releasing"
    BY DEF LeaseIsInRow, InForce, Live, HasOwner
  <2>2. CASE Rollback
    BY <2>2 DEF Rollback
  <2>3. ASSUME NEW v \in Worker, ClaimGranted(v), calls[v].key = calls[w].key PROVE FALSE
    <3>1. ~Live(runs[calls[w].key].expires, calls[v].now)
      BY <2>1, <2>3 DEF ClaimGranted, Claimable
    <3>2. /\ calls[v].now \in Nat /\ clock \in Nat /\ calls[v].now <= clock
          /\ runs[calls[w].key].expires \in Nat
      BY DEF Call, Run
    <3> QED
      BY <2>1, <3>1, <3>2 DEF Live
  <2>4. ASSUME NEW v \in Worker, Complete(v), calls[v].key = calls[w].key PROVE calls'[w].at = "idle"
    <3>1. HasOwner(calls[v]) /\ calls[v].owner = calls[w].owner
      BY <2>1, <2>4 DEF Complete, HoldsLease, HasOwner
    <3>2. v = w
      BY <2>1, <3>1
    <3> QED
      BY <2>4, <3>2, IdleCallType DEF Complete
  <2>5. ASSUME NEW v \in Worker, Release(v), calls[v].key = calls[w].key, Owned(calls[v]) PROVE FALSE
    <3>1. HasOwner(calls[v]) /\ calls[v].owner = calls[w].owner /\ calls[v].at = "releasing"
      BY <2>1, <2>5 DEF Release, Owned, HasOwner
    <3> QED
      BY <2>1, <3>1
  <2>6. ASSUME NEW v \in Worker, ClaimGranted(v) \/ Complete(v) \/ Release(v)
        PROVE  EndsAsItMay(w)
    <3>1. CASE calls[v].key # calls[w].key
      BY <2>6, <3>1 DEF ClaimGranted, Complete, Release, Call
    <3>2. CASE calls[v].key = calls[w].key
      BY <2>3, <2>4, <2>5, <2>6, <3>2 DEF Release
    <3> QED
      BY <3>1, <3>2
  <2> QED
    BY <2>2, <2>6, RunWriters
<1> QED
  BY Invariant, <1>1, PTL DEF Spec, OnlyOwnerEndsRun

\* The abstract state that the running steps of a call leave alone.
LEMMA SameRecords ==
  ASSUME UNCHANGED stateRow, UNCHANGED returned,
         \A k \in Key : /\ runs'[k].status = "completed" <=> runs[k].status = "completed"
                        /\ runs[k].status = "completed" => runs'[k] = runs[k]
  PROVE  UNCHANGED Promise!vars
<1>1. Published' = Published
  BY DEF Published
<1> QED
  BY <1>1 DEF Promise!vars, Mode, stateRow

(* The sidecar implements Continuity: stop_legacy, activate and rollback    *)
(* move its mode, the transaction of _complete publishes, the replay branch *)
(* of _claim replays, and every other step is invisible.                    *)
THEOREM Implementation == Spec => ImplementsContinuity
<1>1. Init => Promise!Init
  BY DEF Init, Promise!Init, Mode, Published, NoRun
<1>2. IInv /\ [Next]_vars => [Promise!Next]_(Promise!vars)
  <2> SUFFICES ASSUME IInv, [Next]_vars
               PROVE  Promise!Next \/ UNCHANGED Promise!vars
    OBVIOUS
  <2> USE SidecarAssumption DEF IInv, TypeOK
  <2>1. CASE StopLegacy
    <3>1. Published' = Published /\ Mode # "sidecar" /\ Mode' = "drained"
      BY <2>1 DEF StopLegacy, Published, Mode
    <3> QED
      BY <2>1, <3>1 DEF StopLegacy, Promise!Next, Promise!Drain
  <2>2. ASSUME NEW r \in Revision, Activate(r)
        PROVE  Promise!Next \/ UNCHANGED Promise!vars
    <3>1. Published' = Published /\ Mode' = "sidecar" /\ activeRevision' = r
      BY <2>2 DEF Activate, Published, Mode
    <3>2. CASE sidecarActive
      BY <2>2, <3>1, <3>2 DEF Activate, Mode, Promise!vars
    <3>3. CASE ~sidecarActive
      <4>1. Mode = "drained"
        BY <2>2, <3>3 DEF Activate, Mode
      <4>2. Promise!Activate(r)
        BY <2>2, <3>1, <4>1 DEF Activate, Promise!Activate
      <4> QED
        BY <4>2 DEF Promise!Next
    <3> QED
      BY <3>2, <3>3
  <2>3. CASE Rollback
    <3>1. \A k \in Key : runs'[k] = RolledBack(runs[k])
      BY <2>3 DEF Rollback
    <3>2. Published' = Published
      BY <3>1, RolledBackRow DEF Published, Run
    <3>3. Mode' = "legacy"
      BY <2>3 DEF Rollback, Mode
    <3> QED
      BY <2>3, <3>2, <3>3 DEF Rollback, Promise!Next, Promise!Fallback
  <2>4. ASSUME NEW w \in Worker, NEW k \in Key, NEW r \in Revision,
               Submit(w, k, r)
        PROVE  UNCHANGED Promise!vars
    BY <2>4, SameRecords DEF Submit
  <2>5. ASSUME NEW w \in Worker, ClaimGranted(w) PROVE UNCHANGED Promise!vars
    <3>1. calls[w].key \in Key
      BY DEF Call
    <3> QED
      BY <2>5, <3>1, SameRecords DEF ClaimGranted, Claimable, Run
  <2>6. ASSUME NEW w \in Worker, ClaimReplayed(w) PROVE Promise!Next
    <3> DEFINE k == calls[w].key
    <3>1. k \in Key /\ runs[k].status = "completed"
      BY <2>6 DEF ClaimReplayed, Replayable, Call
    <3>2. Published[k] = [key |-> k, revision |-> runs[k].revision,
                          uri |-> runs[k].uri]
      BY <3>1 DEF Published
    <3>3. Published[k] # NoResult /\ Published[k].revision = activeRevision
      BY <2>6, <3>1, <3>2
      DEF ClaimReplayed, Replayable, RevisionIsActive, BoundHere, NoResult,
          ResultsInSpace
    <3>4. Mode = "sidecar" /\ UNCHANGED <<Mode, activeRevision, Published>>
      BY <2>6 DEF ClaimReplayed, Replayable, RevisionIsActive, Mode, stateRow,
                  Published
    <3>5. returned' = returned \cup {Published[k]}
      BY <2>6, <3>2 DEF ClaimReplayed
    <3>6. Promise!Replay(k)
      BY <3>3, <3>4, <3>5 DEF Promise!Replay
    <3> QED
      BY <3>1, <3>6 DEF Promise!Next
  <2>7. ASSUME NEW w \in Worker, ClaimRefused(w) PROVE UNCHANGED Promise!vars
    BY <2>7, SameRecords DEF ClaimRefused
  <2>8. ASSUME NEW w \in Worker, HandlerRaises(w) PROVE UNCHANGED Promise!vars
    BY <2>8, SameRecords DEF HandlerRaises
  <2>9. ASSUME NEW w \in Worker, NEW u \in Uri \cup {ForeignUri},
               HandlerReturns(w, u)
        PROVE  UNCHANGED Promise!vars
    BY <2>9, SameRecords DEF HandlerReturns
  <2>10. ASSUME NEW w \in Worker, BeginComplete(w) PROVE UNCHANGED Promise!vars
    BY <2>10, SameRecords DEF BeginComplete
  <2>11. ASSUME NEW w \in Worker, Complete(w) PROVE Promise!Next
    <3> DEFINE k == calls[w].key
               u == calls[w].uri
               result == [key |-> k, revision |-> activeRevision, uri |-> u]
    <3>1. k \in Key /\ u \in Uri /\ runs[k].status = "running"
      BY <2>11 DEF Complete, HoldsLease, Call, ResultsInSpace
    <3>2. /\ calls[w].revision = activeRevision
          /\ runs[k].revision = activeRevision
      BY <2>11, <3>1
      DEF Complete, HoldsLease, RevisionIsActive, RunningOnlyWhileActive
    <3>3. runs' = [runs EXCEPT ![k].status = "completed", ![k].expires = 0,
                               ![k].uri = u]
      BY <2>11 DEF Complete
    <3>4. /\ runs'[k].status = "completed" /\ runs'[k].uri = u
          /\ runs'[k].revision = activeRevision
          /\ \A j \in Key \ {k} : runs'[j] = runs[j]
      BY <3>1, <3>2, <3>3 DEF Run
    <3>5. Published[k] = NoResult
          /\ Published' = [Published EXCEPT ![k] = result]
      BY <3>1, <3>4 DEF Published
    <3>6. Mode = "sidecar" /\ UNCHANGED <<Mode, activeRevision>>
      BY <2>11 DEF Complete, HoldsLease, RevisionIsActive, Mode, stateRow
    <3>7. returned' = returned \cup {result}
      BY <2>11, <3>2 DEF Complete
    <3>8. Promise!Publish(k, u)
      BY <3>5, <3>6, <3>7 DEF Promise!Publish
    <3> QED
      BY <3>1, <3>8 DEF Promise!Next
  <2>12. ASSUME NEW w \in Worker, LeaseLost(w) PROVE UNCHANGED Promise!vars
    BY <2>12, SameRecords DEF LeaseLost
  <2>13. ASSUME NEW w \in Worker, Release(w) PROVE UNCHANGED Promise!vars
    <3>1. calls[w].key \in Key
      BY DEF Call
    <3>2. CASE Owned(calls[w])
      BY <2>13, <3>1, <3>2, SameRecords DEF Release, Owned, Run
    <3>3. CASE ~Owned(calls[w])
      BY <2>13, <3>3, SameRecords DEF Release
    <3> QED
      BY <3>2, <3>3
  <2>14. ASSUME NEW w \in Worker, Crash(w) PROVE UNCHANGED Promise!vars
    BY <2>14, SameRecords DEF Crash
  <2>15. CASE Tick
    BY <2>15, SameRecords DEF Tick
  <2>16. CASE UNCHANGED vars
    BY <2>16, SameRecords DEF vars, stateRow
  <2> QED
    BY <2>1, <2>2, <2>3, <2>4, <2>5, <2>6, <2>7, <2>8, <2>9, <2>10, <2>11,
       <2>12, <2>13, <2>14, <2>15, <2>16 DEF Next, Operate, Advance
<1> QED
  BY Invariant, <1>1, <1>2, PTL DEF Spec, ImplementsContinuity, Promise!Spec
=============================================================================
