---------------------------- MODULE CutoverProofs ----------------------------
(***************************************************************************)
(* Theorems about Cutover for any number of units, any capabilities and    *)
(* any revisions.  The argument: a policy, once configured, keeps its      *)
(* revision (Pins), so what a promotion has configured stays configured;   *)
(* the order of the units is lost only where a save fails or a rollback    *)
(* stops (unsettled), and a rollback that finishes has saved every unit it *)
(* covers, in memory and on disk.                                          *)
(***************************************************************************)
EXTENDS Cutover, TLAPS

LEMMA InitInvariant == Init => IInv
<1> SUFFICES ASSUME Init PROVE IInv
  OBVIOUS
<1> USE CutoverAssumption DEF Init, Is, Idle, Down
<1>1. TypeOK
  BY DEF TypeOK, UnitState
<1>2. PoliciesAgree /\ CacheAgrees /\ Progress
  BY DEF PoliciesAgree, CacheAgrees, Progress, PromotionSoFar, RollbackSoFar
<1>3. OrderedUnits /\ RollbackHolds /\ ServedAsConfigured
  BY DEF OrderedUnits, InOrder, RollbackHolds, ServedAsConfigured, Routable
<1> QED
  BY <1>1, <1>2, <1>3 DEF IInv

LEMMA Calls == TypeOK =>
    /\ call.op = "promote" => call \in Promotion
    /\ call.op = "rollback" => call \in Rollback
BY DEF TypeOK, Idle, Down, Promotion, Rollback

(* Units keep their types: one that has left pending names a revision.    *)
LEMMA TablesStep == TypeOK /\ [Next]_vars => (stored \in [Unit -> UnitState] /\ states \in [Unit -> UnitState])'
<1> SUFFICES ASSUME TypeOK, [Next]_vars PROVE (stored \in [Unit -> UnitState] /\ states \in [Unit -> UnitState])'
  OBVIOUS
<1>0. /\ stored \in [Unit -> UnitState]
      /\ states \in [Unit -> UnitState]
      /\ call.op = "promote" => call.unit \in Unit /\ call.revision \in Revision
      /\ call.op = "rollback" => call.at \in 1..(NUnits + 1)
      /\ None \notin Revision
  BY Calls, CutoverAssumption DEF TypeOK, Promotion, Rollback
<1>1. CASE Start
  BY <1>0, <1>1 DEF Start, histories, UnitState, Status
<1>2. CASE Crash
  BY <1>0, <1>2 DEF Crash, Is, histories, UnitState, Status
<1>3. CASE PromoteConfigure
  BY <1>0, <1>3 DEF PromoteConfigure, SavePolicy, Configurable, Configured, Promoting, histories, UnitState, Status
<1>4. CASE PromoteFails
  BY <1>0, <1>4 DEF PromoteFails, histories, UnitState, Status
<1>5. CASE PromoteSave
  BY <1>0, <1>5 DEF PromoteSave, Save, Is, histories, UnitState, Status
<1>6. CASE PromoteSaveFails
  BY <1>0, <1>6 DEF PromoteSaveFails, SaveFails, Is, histories, UnitState, Status
<1>7. CASE RollbackSkip
  BY <1>0, <1>7 DEF RollbackSkip, Reaches, RollingBack, UnitState, Status, histories
<1>8. CASE RollbackCutBack
  BY <1>0, <1>8 DEF RollbackCutBack, CutBack, SavePolicy, Configured, RollingBack, histories, UnitState, Status
<1>9. CASE RollbackCutBackFails
  BY <1>0, <1>9 DEF RollbackCutBackFails, histories, UnitState, Status
<1>10. CASE RollbackNext
  BY <1>0, <1>10 DEF RollbackNext, RollingBack, histories, UnitState, Status
<1>11. CASE FinishRollback
  BY <1>0, <1>11 DEF FinishRollback, histories, UnitState, Status
<1>12. ASSUME NEW u \in Unit, Stabilize(u)
      PROVE  (stored \in [Unit -> UnitState] /\ states \in [Unit -> UnitState])'
  BY <1>0, <1>12 DEF Stabilize, Save, SaveFails, Is, histories, UnitState, Status
<1>13. ASSUME NEW u \in Unit, StartRollback(u)
      PROVE  (stored \in [Unit -> UnitState] /\ states \in [Unit -> UnitState])'
  BY <1>0, <1>13 DEF StartRollback, RollbackFrom, RollingBack, histories, UnitState, Status
<1>14. ASSUME NEW u \in Unit, RollbackSave(u)
      PROVE  (stored \in [Unit -> UnitState] /\ states \in [Unit -> UnitState])'
  BY <1>0, <1>14 DEF RollbackSave, Reaches, Save, Is, RollingBack, histories, UnitState, Status
<1>15. ASSUME NEW u \in Unit, RollbackSaveFails(u)
      PROVE  (stored \in [Unit -> UnitState] /\ states \in [Unit -> UnitState])'
  BY <1>0, <1>15 DEF RollbackSaveFails, Reaches, SaveFails, Is, histories, UnitState, Status
<1>16. ASSUME NEW u \in Unit, NEW r \in Revision, Promote(u, r)
      PROVE  (stored \in [Unit -> UnitState] /\ states \in [Unit -> UnitState])'
  BY <1>0, <1>16 DEF Promote, Promotable, Promoting, histories, UnitState, Status
<1>17. ASSUME NEW c \in Capability, NEW healthy \in BOOLEAN, SetHealth(c, healthy)
      PROVE  (stored \in [Unit -> UnitState] /\ states \in [Unit -> UnitState])'
  BY <1>0, <1>17 DEF SetHealth, SavePolicy, histories, UnitState, Status
<1>18. ASSUME NEW c \in Capability, NEW r \in Revision, Dispatch(c, r)
      PROVE  (stored \in [Unit -> UnitState] /\ states \in [Unit -> UnitState])'
  BY <1>0, <1>18 DEF Dispatch, Admitted, Decides, Configured, histories, UnitState, Status
<1>19. ASSUME NEW c \in Capability, NEW r \in Revision, DispatchFallsBack(c, r)
      PROVE  (stored \in [Unit -> UnitState] /\ states \in [Unit -> UnitState])'
  BY <1>0, <1>19 DEF DispatchFallsBack, Admitted, Decides, Configured, CutBack, SavePolicy, RollbackFrom, RollingBack, histories, UnitState, Status
<1>20. ASSUME NEW c \in Capability, NEW r \in Revision, DispatchFailsTwice(c, r)
      PROVE  (stored \in [Unit -> UnitState] /\ states \in [Unit -> UnitState])'
  BY <1>0, <1>20 DEF DispatchFailsTwice, Admitted, Decides, Configured, CutBack, SavePolicy, histories, UnitState, Status
<1>21. ASSUME NEW c \in Capability, NEW r \in Revision, 
               NEW enabled \in BOOLEAN, NEW healthy \in BOOLEAN, Configure(c, r, enabled, healthy)
      PROVE  (stored \in [Unit -> UnitState] /\ states \in [Unit -> UnitState])'
  BY <1>0, <1>21 DEF Configure, Configurable, SavePolicy, Configured, histories, UnitState, Status
<1>22. CASE UNCHANGED vars
  BY <1>0, <1>22 DEF vars, histories, UnitState, Status
<1> QED
  BY <1>1, <1>2, <1>3, <1>4, <1>5, <1>6, <1>7, <1>8, <1>9, <1>10, <1>11, <1>12,
     <1>13, <1>14, <1>15, <1>16, <1>17, <1>18, <1>19, <1>20, <1>21, <1>22
  DEF Next

(* Policies keep their type.                                              *)
LEMMA PolicyTypeStep == TypeOK /\ [Next]_vars => (policy \in [Capability -> Policy \cup {None}])'
<1> SUFFICES ASSUME TypeOK, [Next]_vars PROVE (policy \in [Capability -> Policy \cup {None}])'
  OBVIOUS
<1>0. /\ policy \in [Capability -> Policy \cup {None}]
      /\ call.op = "promote" => call.todo \subseteq Capability /\ call.revision \in Revision
      /\ call.op = "rollback" => call.todo \subseteq Capability
  BY Calls, CutoverAssumption DEF TypeOK, Promotion, Rollback
<1>1. CASE Start
  BY <1>0, <1>1 DEF Start, histories, Policy
<1>2. CASE Crash
  BY <1>0, <1>2 DEF Crash, Is, histories, Policy
<1>3. CASE PromoteConfigure
  BY <1>0, <1>3 DEF PromoteConfigure, SavePolicy, Configurable, Configured, Promoting, histories, Policy
<1>4. CASE PromoteFails
  BY <1>0, <1>4 DEF PromoteFails, histories, Policy
<1>5. CASE PromoteSave
  BY <1>0, <1>5 DEF PromoteSave, Save, Is, histories, Policy
<1>6. CASE PromoteSaveFails
  BY <1>0, <1>6 DEF PromoteSaveFails, SaveFails, Is, histories, Policy
<1>7. CASE RollbackSkip
  BY <1>0, <1>7 DEF RollbackSkip, Reaches, RollingBack, UnitState, Status, histories, Policy
<1>8. CASE RollbackCutBack
  <2>1. PICK c \in call.todo :
          IF Configured(c, states[call.at].revision) THEN CutBack(c) ELSE UNCHANGED policy
    BY <1>8 DEF RollbackCutBack
  <2>2. c \in Capability
    BY <1>0, <1>8 DEF RollbackCutBack
  <2>3. CASE CutBack(c) /\ policy[c] # None
    BY <1>0, <2>2, <2>3 DEF CutBack, SavePolicy, Policy
  <2> QED
    BY <1>0, <2>1, <2>3 DEF Configured
<1>9. CASE RollbackCutBackFails
  BY <1>0, <1>9 DEF RollbackCutBackFails, histories, Policy
<1>10. CASE RollbackNext
  BY <1>0, <1>10 DEF RollbackNext, RollingBack, histories, Policy
<1>11. CASE FinishRollback
  BY <1>0, <1>11 DEF FinishRollback, histories, Policy
<1>12. ASSUME NEW u \in Unit, Stabilize(u)
      PROVE  (policy \in [Capability -> Policy \cup {None}])'
  BY <1>0, <1>12 DEF Stabilize, Save, SaveFails, Is, histories, Policy
<1>13. ASSUME NEW u \in Unit, StartRollback(u)
      PROVE  (policy \in [Capability -> Policy \cup {None}])'
  BY <1>0, <1>13 DEF StartRollback, RollbackFrom, RollingBack, histories, Policy
<1>14. ASSUME NEW u \in Unit, RollbackSave(u)
      PROVE  (policy \in [Capability -> Policy \cup {None}])'
  BY <1>0, <1>14 DEF RollbackSave, Reaches, Save, Is, RollingBack, histories, Policy
<1>15. ASSUME NEW u \in Unit, RollbackSaveFails(u)
      PROVE  (policy \in [Capability -> Policy \cup {None}])'
  BY <1>0, <1>15 DEF RollbackSaveFails, Reaches, SaveFails, Is, histories, Policy
<1>16. ASSUME NEW u \in Unit, NEW r \in Revision, Promote(u, r)
      PROVE  (policy \in [Capability -> Policy \cup {None}])'
  BY <1>0, <1>16 DEF Promote, Promotable, Promoting, histories, Policy
<1>17. ASSUME NEW c \in Capability, NEW healthy \in BOOLEAN, SetHealth(c, healthy)
      PROVE  (policy \in [Capability -> Policy \cup {None}])'
  BY <1>0, <1>17 DEF SetHealth, SavePolicy, histories, Policy
<1>18. ASSUME NEW c \in Capability, NEW r \in Revision, Dispatch(c, r)
      PROVE  (policy \in [Capability -> Policy \cup {None}])'
  BY <1>0, <1>18 DEF Dispatch, Admitted, Decides, Configured, histories, Policy
<1>19. ASSUME NEW c \in Capability, NEW r \in Revision, DispatchFallsBack(c, r)
      PROVE  (policy \in [Capability -> Policy \cup {None}])'
  BY <1>0, <1>19 DEF DispatchFallsBack, Admitted, Decides, Configured, CutBack, SavePolicy, RollbackFrom, RollingBack, histories, Policy
<1>20. ASSUME NEW c \in Capability, NEW r \in Revision, DispatchFailsTwice(c, r)
      PROVE  (policy \in [Capability -> Policy \cup {None}])'
  BY <1>0, <1>20 DEF DispatchFailsTwice, Admitted, Decides, Configured, CutBack, SavePolicy, histories, Policy
<1>21. ASSUME NEW c \in Capability, NEW r \in Revision, 
               NEW enabled \in BOOLEAN, NEW healthy \in BOOLEAN, Configure(c, r, enabled, healthy)
      PROVE  (policy \in [Capability -> Policy \cup {None}])'
  BY <1>0, <1>21 DEF Configure, Configurable, SavePolicy, Configured, histories, Policy
<1>22. CASE UNCHANGED vars
  BY <1>0, <1>22 DEF vars, histories, Policy
<1> QED
  BY <1>1, <1>2, <1>3, <1>4, <1>5, <1>6, <1>7, <1>8, <1>9, <1>10, <1>11, <1>12,
     <1>13, <1>14, <1>15, <1>16, <1>17, <1>18, <1>19, <1>20, <1>21, <1>22
  DEF Next

(* Calls keep their type.                                                 *)
LEMMA CallTypeStep == TypeOK /\ Progress /\ [Next]_vars => (call \in {Idle, Down} \cup Promotion \cup Rollback)'
<1> SUFFICES ASSUME TypeOK /\ Progress, [Next]_vars PROVE (call \in {Idle, Down} \cup Promotion \cup Rollback)'
  OBVIOUS
<1>0. /\ call \in {Idle, Down} \cup Promotion \cup Rollback
      /\ call.op = "promote" => call \in Promotion
      /\ call.op = "rollback" => call \in Rollback
      /\ NUnits \in Nat \ {0}
      /\ call.op = "rollback" /\ call.stage = "cut_back" => call.at \in Unit
      /\ UnitOf \in [Capability -> Unit]
  BY Calls, CutoverAssumption DEF TypeOK, Progress, RollbackSoFar
<1>1. CASE Start
  BY <1>0, <1>1 DEF Start, histories, Promotion, Rollback, Unit, Idle, Down, Capabilities
<1>2. CASE Crash
  BY <1>0, <1>2 DEF Crash, Is, histories, Promotion, Rollback, Unit, Idle, Down, Capabilities
<1>3. CASE PromoteConfigure
  BY <1>0, <1>3 DEF PromoteConfigure, SavePolicy, Configurable, Configured, Promoting, histories, Promotion, Rollback, Unit, Idle, Down, Capabilities
<1>4. CASE PromoteFails
  BY <1>0, <1>4 DEF PromoteFails, histories, Promotion, Rollback, Unit, Idle, Down, Capabilities
<1>5. CASE PromoteSave
  BY <1>0, <1>5 DEF PromoteSave, Save, Is, histories, Promotion, Rollback, Unit, Idle, Down, Capabilities
<1>6. CASE PromoteSaveFails
  BY <1>0, <1>6 DEF PromoteSaveFails, SaveFails, Is, histories, Promotion, Rollback, Unit, Idle, Down, Capabilities
<1>7. CASE RollbackSkip
  BY <1>0, <1>7 DEF RollbackSkip, Reaches, RollingBack, UnitState, Status, histories, Promotion, Rollback, Unit, Idle, Down, Capabilities
<1>8. CASE RollbackCutBack
  BY <1>0, <1>8 DEF RollbackCutBack, CutBack, SavePolicy, Configured, RollingBack, histories, Promotion, Rollback, Unit, Idle, Down, Capabilities
<1>9. CASE RollbackCutBackFails
  BY <1>0, <1>9 DEF RollbackCutBackFails, histories, Promotion, Rollback, Unit, Idle, Down, Capabilities
<1>10. CASE RollbackNext
  BY <1>0, <1>10 DEF RollbackNext, RollingBack, histories, Promotion, Rollback, Unit, Idle, Down, Capabilities
<1>11. CASE FinishRollback
  BY <1>0, <1>11 DEF FinishRollback, histories, Promotion, Rollback, Unit, Idle, Down, Capabilities
<1>12. ASSUME NEW u \in Unit, Stabilize(u)
      PROVE  (call \in {Idle, Down} \cup Promotion \cup Rollback)'
  BY <1>0, <1>12 DEF Stabilize, Save, SaveFails, Is, histories, Promotion, Rollback, Unit, Idle, Down, Capabilities
<1>13. ASSUME NEW u \in Unit, StartRollback(u)
      PROVE  (call \in {Idle, Down} \cup Promotion \cup Rollback)'
  BY <1>0, <1>13 DEF StartRollback, RollbackFrom, RollingBack, histories, Promotion, Rollback, Unit, Idle, Down, Capabilities
<1>14. ASSUME NEW u \in Unit, RollbackSave(u)
      PROVE  (call \in {Idle, Down} \cup Promotion \cup Rollback)'
  BY <1>0, <1>14 DEF RollbackSave, Reaches, Save, Is, RollingBack, histories, Promotion, Rollback, Unit, Idle, Down, Capabilities
<1>15. ASSUME NEW u \in Unit, RollbackSaveFails(u)
      PROVE  (call \in {Idle, Down} \cup Promotion \cup Rollback)'
  BY <1>0, <1>15 DEF RollbackSaveFails, Reaches, SaveFails, Is, histories, Promotion, Rollback, Unit, Idle, Down, Capabilities
<1>16. ASSUME NEW u \in Unit, NEW r \in Revision, Promote(u, r)
      PROVE  (call \in {Idle, Down} \cup Promotion \cup Rollback)'
  BY <1>0, <1>16 DEF Promote, Promotable, Promoting, histories, Promotion, Rollback, Unit, Idle, Down, Capabilities
<1>17. ASSUME NEW c \in Capability, NEW healthy \in BOOLEAN, SetHealth(c, healthy)
      PROVE  (call \in {Idle, Down} \cup Promotion \cup Rollback)'
  BY <1>0, <1>17 DEF SetHealth, SavePolicy, histories, Promotion, Rollback, Unit, Idle, Down, Capabilities
<1>18. ASSUME NEW c \in Capability, NEW r \in Revision, Dispatch(c, r)
      PROVE  (call \in {Idle, Down} \cup Promotion \cup Rollback)'
  BY <1>0, <1>18 DEF Dispatch, Admitted, Decides, Configured, histories, Promotion, Rollback, Unit, Idle, Down, Capabilities
<1>19. ASSUME NEW c \in Capability, NEW r \in Revision, DispatchFallsBack(c, r)
      PROVE  (call \in {Idle, Down} \cup Promotion \cup Rollback)'
  BY <1>0, <1>19 DEF DispatchFallsBack, Admitted, Decides, Configured, CutBack, SavePolicy, RollbackFrom, RollingBack, histories, Promotion, Rollback, Unit, Idle, Down, Capabilities
<1>20. ASSUME NEW c \in Capability, NEW r \in Revision, DispatchFailsTwice(c, r)
      PROVE  (call \in {Idle, Down} \cup Promotion \cup Rollback)'
  BY <1>0, <1>20 DEF DispatchFailsTwice, Admitted, Decides, Configured, CutBack, SavePolicy, histories, Promotion, Rollback, Unit, Idle, Down, Capabilities
<1>21. ASSUME NEW c \in Capability, NEW r \in Revision, 
               NEW enabled \in BOOLEAN, NEW healthy \in BOOLEAN, Configure(c, r, enabled, healthy)
      PROVE  (call \in {Idle, Down} \cup Promotion \cup Rollback)'
  BY <1>0, <1>21 DEF Configure, Configurable, SavePolicy, Configured, histories, Promotion, Rollback, Unit, Idle, Down, Capabilities
<1>22. CASE UNCHANGED vars
  BY <1>0, <1>22 DEF vars, histories, Promotion, Rollback, Unit, Idle, Down, Capabilities
<1> QED
  BY <1>1, <1>2, <1>3, <1>4, <1>5, <1>6, <1>7, <1>8, <1>9, <1>10, <1>11, <1>12,
     <1>13, <1>14, <1>15, <1>16, <1>17, <1>18, <1>19, <1>20, <1>21, <1>22
  DEF Next

(* The histories keep their types.                                        *)
LEMMA HistoryTypeStep == TypeOK /\ [Next]_vars => (served \in [Unit -> SUBSET Revision] /\ fenced \subseteq Unit /\ unsettled \subseteq Unit)'
<1> SUFFICES ASSUME TypeOK, [Next]_vars PROVE (served \in [Unit -> SUBSET Revision] /\ fenced \subseteq Unit /\ unsettled \subseteq Unit)'
  OBVIOUS
<1>0. /\ served \in [Unit -> SUBSET Revision] /\ fenced \subseteq Unit /\ unsettled \subseteq Unit
      /\ call.op = "promote" => call.unit \in Unit
      /\ call.op = "rollback" => call.from \in Unit
      /\ NUnits \in Nat \ {0}
      /\ UnitOf \in [Capability -> Unit]
  BY Calls, CutoverAssumption DEF TypeOK, Promotion, Rollback
<1>1. CASE Start
  BY <1>0, <1>1 DEF Start, histories, Unit
<1>2. CASE Crash
  BY <1>0, <1>2 DEF Crash, Is, histories, Unit
<1>3. CASE PromoteConfigure
  BY <1>0, <1>3 DEF PromoteConfigure, SavePolicy, Configurable, Configured, Promoting, histories, Unit
<1>4. CASE PromoteFails
  BY <1>0, <1>4 DEF PromoteFails, histories, Unit
<1>5. CASE PromoteSave
  BY <1>0, <1>5 DEF PromoteSave, Save, Is, histories, Unit
<1>6. CASE PromoteSaveFails
  BY <1>0, <1>6 DEF PromoteSaveFails, SaveFails, Is, histories, Unit
<1>7. CASE RollbackSkip
  BY <1>0, <1>7 DEF RollbackSkip, Reaches, RollingBack, UnitState, Status, histories, Unit
<1>8. CASE RollbackCutBack
  BY <1>0, <1>8 DEF RollbackCutBack, CutBack, SavePolicy, Configured, RollingBack, histories, Unit
<1>9. CASE RollbackCutBackFails
  BY <1>0, <1>9 DEF RollbackCutBackFails, histories, Unit
<1>10. CASE RollbackNext
  BY <1>0, <1>10 DEF RollbackNext, RollingBack, histories, Unit
<1>11. CASE FinishRollback
  <2>1. call.from..NUnits \subseteq Unit
    BY <1>0, <1>11 DEF FinishRollback, Unit
  <2> QED
    BY <1>0, <2>1, <1>11 DEF FinishRollback, Unit
<1>12. ASSUME NEW u \in Unit, Stabilize(u)
      PROVE  (served \in [Unit -> SUBSET Revision] /\ fenced \subseteq Unit /\ unsettled \subseteq Unit)'
  BY <1>0, <1>12 DEF Stabilize, Save, SaveFails, Is, histories, Unit
<1>13. ASSUME NEW u \in Unit, StartRollback(u)
      PROVE  (served \in [Unit -> SUBSET Revision] /\ fenced \subseteq Unit /\ unsettled \subseteq Unit)'
  BY <1>0, <1>13 DEF StartRollback, RollbackFrom, RollingBack, histories, Unit
<1>14. ASSUME NEW u \in Unit, RollbackSave(u)
      PROVE  (served \in [Unit -> SUBSET Revision] /\ fenced \subseteq Unit /\ unsettled \subseteq Unit)'
  BY <1>0, <1>14 DEF RollbackSave, Reaches, Save, Is, RollingBack, histories, Unit
<1>15. ASSUME NEW u \in Unit, RollbackSaveFails(u)
      PROVE  (served \in [Unit -> SUBSET Revision] /\ fenced \subseteq Unit /\ unsettled \subseteq Unit)'
  BY <1>0, <1>15 DEF RollbackSaveFails, Reaches, SaveFails, Is, histories, Unit
<1>16. ASSUME NEW u \in Unit, NEW r \in Revision, Promote(u, r)
      PROVE  (served \in [Unit -> SUBSET Revision] /\ fenced \subseteq Unit /\ unsettled \subseteq Unit)'
  BY <1>0, <1>16 DEF Promote, Promotable, Promoting, histories, Unit
<1>17. ASSUME NEW c \in Capability, NEW healthy \in BOOLEAN, SetHealth(c, healthy)
      PROVE  (served \in [Unit -> SUBSET Revision] /\ fenced \subseteq Unit /\ unsettled \subseteq Unit)'
  BY <1>0, <1>17 DEF SetHealth, SavePolicy, histories, Unit
<1>18. ASSUME NEW c \in Capability, NEW r \in Revision, Dispatch(c, r)
      PROVE  (served \in [Unit -> SUBSET Revision] /\ fenced \subseteq Unit /\ unsettled \subseteq Unit)'
  BY <1>0, <1>18 DEF Dispatch, Admitted, Decides, Configured, histories, Unit
<1>19. ASSUME NEW c \in Capability, NEW r \in Revision, DispatchFallsBack(c, r)
      PROVE  (served \in [Unit -> SUBSET Revision] /\ fenced \subseteq Unit /\ unsettled \subseteq Unit)'
  BY <1>0, <1>19 DEF DispatchFallsBack, Admitted, Decides, Configured, CutBack, SavePolicy, RollbackFrom, RollingBack, histories, Unit
<1>20. ASSUME NEW c \in Capability, NEW r \in Revision, DispatchFailsTwice(c, r)
      PROVE  (served \in [Unit -> SUBSET Revision] /\ fenced \subseteq Unit /\ unsettled \subseteq Unit)'
  BY <1>0, <1>20 DEF DispatchFailsTwice, Admitted, Decides, Configured, CutBack, SavePolicy, histories, Unit
<1>21. ASSUME NEW c \in Capability, NEW r \in Revision, 
               NEW enabled \in BOOLEAN, NEW healthy \in BOOLEAN, Configure(c, r, enabled, healthy)
      PROVE  (served \in [Unit -> SUBSET Revision] /\ fenced \subseteq Unit /\ unsettled \subseteq Unit)'
  BY <1>0, <1>21 DEF Configure, Configurable, SavePolicy, Configured, histories, Unit
<1>22. CASE UNCHANGED vars
  BY <1>0, <1>22 DEF vars, histories, Unit
<1> QED
  BY <1>1, <1>2, <1>3, <1>4, <1>5, <1>6, <1>7, <1>8, <1>9, <1>10, <1>11, <1>12,
     <1>13, <1>14, <1>15, <1>16, <1>17, <1>18, <1>19, <1>20, <1>21, <1>22
  DEF Next

(* Writing a policy that may be configured keeps every revision.           *)
LEMMA SavePins == ASSUME TypeOK, NEW c \in Capability, NEW r \in Revision, NEW e \in BOOLEAN, NEW h \in BOOLEAN,
                         Configurable(c, r), SavePolicy(c, r, e, h),
                         NEW d \in Capability, policy[d] # None
                  PROVE  policy'[d] # None /\ policy'[d].revision = policy[d].revision
<1> DEFINE new == [revision |-> r, enabled |-> e, healthy |-> h]
<1>1. CASE c = d
  <2>1. policy'[d] = new
    BY <1>1 DEF SavePolicy, TypeOK
  <2>2. new \in Policy /\ new.revision = r
    BY DEF Policy
  <2>3. policy'[d] # None
    BY <2>1, <2>2, CutoverAssumption
  <2> QED
    BY <1>1, <2>1, <2>2, <2>3 DEF Configurable, Configured
<1>2. CASE c # d
  BY <1>2 DEF SavePolicy, TypeOK
<1> QED
  BY <1>1, <1>2

LEMMA CutBackPins == ASSUME TypeOK, NEW c \in Capability, policy[c] # None, CutBack(c),
                            NEW d \in Capability, policy[d] # None
                     PROVE  policy'[d] # None /\ policy'[d].revision = policy[d].revision
<1>1. policy[c].revision \in Revision /\ Configurable(c, policy[c].revision)
  BY DEF TypeOK, Policy, Configurable, Configured
<1> QED
  BY <1>1, SavePins DEF CutBack

(* A configured capability keeps its revision.                             *)
LEMMA PinStep == TypeOK /\ [Next]_vars =>
    \A d \in Capability : policy[d] # None => policy'[d] # None /\ policy'[d].revision = policy[d].revision
<1> SUFFICES ASSUME TypeOK, [Next]_vars, NEW d \in Capability, policy[d] # None
             PROVE  policy'[d] # None /\ policy'[d].revision = policy[d].revision
  OBVIOUS
<1>0. /\ policy \in [Capability -> Policy \cup {None}]
      /\ call.op = "promote" => call.todo \subseteq Capability /\ call.revision \in Revision
      /\ call.op = "rollback" => call.todo \subseteq Capability
      /\ policy[d] # None
  BY Calls DEF TypeOK, Promotion, Rollback
<1>1. CASE Start
  BY <1>0, <1>1 DEF Start, histories
<1>2. CASE Crash
  BY <1>0, <1>2 DEF Crash, Is, histories
<1>3. CASE PromoteConfigure
  <2>1. PICK c \in call.todo : Configurable(c, call.revision) /\ SavePolicy(c, call.revision, TRUE, TRUE)
    BY <1>3 DEF PromoteConfigure
  <2>2. c \in Capability /\ call.revision \in Revision
    BY <1>0, <1>3 DEF PromoteConfigure
  <2> QED
    BY <2>1, <2>2, <1>0, SavePins
<1>4. CASE PromoteFails
  BY <1>0, <1>4 DEF PromoteFails, histories
<1>5. CASE PromoteSave
  BY <1>0, <1>5 DEF PromoteSave, Save, Is, histories
<1>6. CASE PromoteSaveFails
  BY <1>0, <1>6 DEF PromoteSaveFails, SaveFails, Is, histories
<1>7. CASE RollbackSkip
  BY <1>0, <1>7 DEF RollbackSkip, Reaches, RollingBack, UnitState, Status, histories
<1>8. CASE RollbackCutBack
  <2>1. PICK c \in call.todo :
          IF Configured(c, states[call.at].revision) THEN CutBack(c) ELSE UNCHANGED policy
    BY <1>8 DEF RollbackCutBack
  <2>2. c \in Capability
    BY <1>0, <1>8 DEF RollbackCutBack
  <2>3. CASE UNCHANGED policy
    BY <1>0, <2>3
  <2>4. CASE CutBack(c) /\ policy[c] # None
    BY <1>0, <2>2, <2>4, CutBackPins
  <2> QED
    BY <2>1, <2>3, <2>4 DEF Configured
<1>9. CASE RollbackCutBackFails
  BY <1>0, <1>9 DEF RollbackCutBackFails, histories
<1>10. CASE RollbackNext
  BY <1>0, <1>10 DEF RollbackNext, RollingBack, histories
<1>11. CASE FinishRollback
  BY <1>0, <1>11 DEF FinishRollback, histories
<1>12. ASSUME NEW u \in Unit, Stabilize(u)
      PROVE  policy'[d] # None /\ policy'[d].revision = policy[d].revision
  BY <1>0, <1>12 DEF Stabilize, Save, SaveFails, Is, histories
<1>13. ASSUME NEW u \in Unit, StartRollback(u)
      PROVE  policy'[d] # None /\ policy'[d].revision = policy[d].revision
  BY <1>0, <1>13 DEF StartRollback, RollbackFrom, RollingBack, histories
<1>14. ASSUME NEW u \in Unit, RollbackSave(u)
      PROVE  policy'[d] # None /\ policy'[d].revision = policy[d].revision
  BY <1>0, <1>14 DEF RollbackSave, Reaches, Save, Is, RollingBack, histories
<1>15. ASSUME NEW u \in Unit, RollbackSaveFails(u)
      PROVE  policy'[d] # None /\ policy'[d].revision = policy[d].revision
  BY <1>0, <1>15 DEF RollbackSaveFails, Reaches, SaveFails, Is, histories
<1>16. ASSUME NEW u \in Unit, NEW r \in Revision, Promote(u, r)
      PROVE  policy'[d] # None /\ policy'[d].revision = policy[d].revision
  BY <1>0, <1>16 DEF Promote, Promotable, Promoting, histories
<1>17. ASSUME NEW c \in Capability, NEW healthy \in BOOLEAN, SetHealth(c, healthy)
      PROVE  policy'[d] # None /\ policy'[d].revision = policy[d].revision
  <2>1. CASE policy[c].enabled \in BOOLEAN /\ policy[c].revision \in Revision
    <3>1. Configurable(c, policy[c].revision) /\ (policy[c].enabled /\ healthy) \in BOOLEAN
      BY <2>1 DEF Configurable, Configured
    <3> QED
      BY <1>0, <2>1, <3>1, <1>17, SavePins DEF SetHealth
  <2> QED
    BY <1>0, <2>1, <1>17 DEF SetHealth, Policy
<1>18. ASSUME NEW c \in Capability, NEW r \in Revision, Dispatch(c, r)
      PROVE  policy'[d] # None /\ policy'[d].revision = policy[d].revision
  BY <1>0, <1>18 DEF Dispatch, Admitted, Decides, Configured, histories
<1>19. ASSUME NEW c \in Capability, NEW r \in Revision, DispatchFallsBack(c, r)
      PROVE  policy'[d] # None /\ policy'[d].revision = policy[d].revision
  BY <1>0, <1>19, CutBackPins DEF DispatchFallsBack, Admitted, Decides, Configured
<1>20. ASSUME NEW c \in Capability, NEW r \in Revision, DispatchFailsTwice(c, r)
      PROVE  policy'[d] # None /\ policy'[d].revision = policy[d].revision
  BY <1>0, <1>20, CutBackPins DEF DispatchFailsTwice, Admitted, Decides, Configured
<1>21. ASSUME NEW c \in Capability, NEW r \in Revision, 
               NEW enabled \in BOOLEAN, NEW healthy \in BOOLEAN, Configure(c, r, enabled, healthy)
      PROVE  policy'[d] # None /\ policy'[d].revision = policy[d].revision
  BY <1>0, <1>21, SavePins DEF Configure
<1>22. CASE UNCHANGED vars
  BY <1>0, <1>22 DEF vars, histories
<1> QED
  BY <1>1, <1>2, <1>3, <1>4, <1>5, <1>6, <1>7, <1>8, <1>9, <1>10, <1>11, <1>12,
     <1>13, <1>14, <1>15, <1>16, <1>17, <1>18, <1>19, <1>20, <1>21, <1>22
  DEF Next

(* The policies of a promoted unit name its revision.                      *)
LEMMA AgreeStep == IInv /\ [Next]_vars => PoliciesAgree'
<1> SUFFICES ASSUME IInv, [Next]_vars, NEW d \in Capability
             PROVE  /\ stored'[UnitOf[d]].status # "pending" => policy'[d] # None /\ policy'[d].revision = stored'[UnitOf[d]].revision
                    /\ call' # Down /\ states'[UnitOf[d]].status # "pending" => policy'[d] # None /\ policy'[d].revision = states'[UnitOf[d]].revision
  BY DEF PoliciesAgree, Configured
<1>0. /\ UnitOf[d] \in Unit
      /\ stored \in [Unit -> UnitState] /\ states \in [Unit -> UnitState]
      /\ stored[UnitOf[d]].status # "pending" => policy[d] # None /\ policy[d].revision = stored[UnitOf[d]].revision
      /\ call # Down /\ states[UnitOf[d]].status # "pending" => policy[d] # None /\ policy[d].revision = states[UnitOf[d]].revision
      /\ call.op = "promote" => call.unit \in Unit
      /\ call.op = "promote" /\ call.unit = UnitOf[d] /\ call.todo = {} => policy[d] # None /\ policy[d].revision = call.revision
      /\ call.op # "down" => call # Down
      /\ policy[d] # None => policy'[d] # None /\ policy'[d].revision = policy[d].revision
  BY Calls, PinStep, CutoverAssumption
  DEF IInv, TypeOK, PoliciesAgree, Configured, Progress, PromotionSoFar, RollbackSoFar, Capabilities, Promotion, Down
<1> DEFINE Agree(table) == table[UnitOf[d]].status # "pending" =>
                              policy'[d] # None /\ policy'[d].revision = table[UnitOf[d]].revision
<1>1. CASE Start
  BY <1>0, <1>1 DEF Start, histories, Idle, Down
<1>2. CASE Crash
  BY <1>0, <1>2 DEF Crash, Is, histories, Idle, Down
<1>3. CASE PromoteConfigure
  BY <1>0, <1>3 DEF PromoteConfigure, SavePolicy, Configurable, Configured, Promoting, histories, Idle, Down
<1>4. CASE PromoteFails
  BY <1>0, <1>4 DEF PromoteFails, histories, Idle, Down
<1>5. CASE PromoteSave
  BY <1>0, <1>5 DEF PromoteSave, Save, Is, histories, Idle, Down
<1>6. CASE PromoteSaveFails
  BY <1>0, <1>6 DEF PromoteSaveFails, SaveFails, Is, histories, Idle, Down
<1>7. CASE RollbackSkip
  BY <1>0, <1>7 DEF RollbackSkip, Reaches, RollingBack, UnitState, Status, histories, Idle, Down
<1>8. CASE RollbackCutBack
  BY <1>0, <1>8 DEF RollbackCutBack, CutBack, SavePolicy, Configured, RollingBack, histories, Idle, Down
<1>9. CASE RollbackCutBackFails
  BY <1>0, <1>9 DEF RollbackCutBackFails, histories, Idle, Down
<1>10. CASE RollbackNext
  BY <1>0, <1>10 DEF RollbackNext, RollingBack, histories, Idle, Down
<1>11. CASE FinishRollback
  BY <1>0, <1>11 DEF FinishRollback, histories, Idle, Down
<1>12. ASSUME NEW u \in Unit, Stabilize(u)
      PROVE  Agree(stored') /\ (call' # Down => Agree(states'))
  BY <1>0, <1>12 DEF Stabilize, Save, SaveFails, Is, histories, Idle, Down
<1>13. ASSUME NEW u \in Unit, StartRollback(u)
      PROVE  Agree(stored') /\ (call' # Down => Agree(states'))
  BY <1>0, <1>13 DEF StartRollback, RollbackFrom, RollingBack, histories, Idle, Down
<1>14. ASSUME NEW u \in Unit, RollbackSave(u)
      PROVE  Agree(stored') /\ (call' # Down => Agree(states'))
  BY <1>0, <1>14 DEF RollbackSave, Reaches, Save, Is, RollingBack, histories, Idle, Down
<1>15. ASSUME NEW u \in Unit, RollbackSaveFails(u)
      PROVE  Agree(stored') /\ (call' # Down => Agree(states'))
  BY <1>0, <1>15 DEF RollbackSaveFails, Reaches, SaveFails, Is, histories, Idle, Down
<1>16. ASSUME NEW u \in Unit, NEW r \in Revision, Promote(u, r)
      PROVE  Agree(stored') /\ (call' # Down => Agree(states'))
  BY <1>0, <1>16 DEF Promote, Promotable, Promoting, histories, Idle, Down
<1>17. ASSUME NEW c \in Capability, NEW healthy \in BOOLEAN, SetHealth(c, healthy)
      PROVE  Agree(stored') /\ (call' # Down => Agree(states'))
  BY <1>0, <1>17 DEF SetHealth, SavePolicy, histories, Idle, Down
<1>18. ASSUME NEW c \in Capability, NEW r \in Revision, Dispatch(c, r)
      PROVE  Agree(stored') /\ (call' # Down => Agree(states'))
  BY <1>0, <1>18 DEF Dispatch, Admitted, Decides, Configured, histories, Idle, Down
<1>19. ASSUME NEW c \in Capability, NEW r \in Revision, DispatchFallsBack(c, r)
      PROVE  Agree(stored') /\ (call' # Down => Agree(states'))
  BY <1>0, <1>19 DEF DispatchFallsBack, Admitted, Decides, Configured, CutBack, SavePolicy, RollbackFrom, RollingBack, histories, Idle, Down
<1>20. ASSUME NEW c \in Capability, NEW r \in Revision, DispatchFailsTwice(c, r)
      PROVE  Agree(stored') /\ (call' # Down => Agree(states'))
  BY <1>0, <1>20 DEF DispatchFailsTwice, Admitted, Decides, Configured, CutBack, SavePolicy, histories, Idle, Down
<1>21. ASSUME NEW c \in Capability, NEW r \in Revision, 
               NEW enabled \in BOOLEAN, NEW healthy \in BOOLEAN, Configure(c, r, enabled, healthy)
      PROVE  Agree(stored') /\ (call' # Down => Agree(states'))
  BY <1>0, <1>21 DEF Configure, Configurable, SavePolicy, Configured, histories, Idle, Down
<1>22. CASE UNCHANGED vars
  BY <1>0, <1>22 DEF vars, histories, Idle, Down
<1> QED
  BY <1>1, <1>2, <1>3, <1>4, <1>5, <1>6, <1>7, <1>8, <1>9, <1>10, <1>11, <1>12,
     <1>13, <1>14, <1>15, <1>16, <1>17, <1>18, <1>19, <1>20, <1>21, <1>22
  DEF Next

(* Memory and disk differ only where a save failed or a rollback is open.  *)
LEMMA CacheStep == IInv /\ [Next]_vars => CacheAgrees'
<1> SUFFICES ASSUME IInv, [Next]_vars, call' # Down, NEW v \in Unit
             PROVE  /\ v \notin unsettled' => states'[v] = stored'[v]
                    /\ states'[v].status = "pending" => stored'[v].status = "pending"
  BY DEF CacheAgrees
<1>0. /\ stored \in [Unit -> UnitState] /\ states \in [Unit -> UnitState]
      /\ call.op = "promote" => call.unit \in Unit
      /\ call # Down /\ v \notin unsettled => states[v] = stored[v]
      /\ call # Down /\ states[v].status = "pending" => stored[v].status = "pending"
      /\ call.op = "rollback" => /\ call.from \in Unit /\ call.at \in Nat /\ call.from <= call.at
                                 /\ \A w \in Unit : call.from <= w => w \in unsettled
                                 /\ \A w \in Unit : call.from <= w /\ (w < call.at \/ (w = call.at /\ call.stage = "cut_back")) =>
                                      ~Routable(states[w]) /\ states[w] = stored[w]
      /\ call.op # "down" => call # Down
      /\ NUnits \in Nat \ {0}
  BY Calls, CutoverAssumption
  DEF IInv, TypeOK, CacheAgrees, Progress, PromotionSoFar, RollbackSoFar, Promotion, Rollback, Down, Unit
<1>1. CASE Start
  BY <1>0, <1>1 DEF Start, histories, Idle, Down
<1>2. CASE Crash
  BY <1>0, <1>2 DEF Crash, Is, histories, Idle, Down
<1>3. CASE PromoteConfigure
  BY <1>0, <1>3 DEF PromoteConfigure, SavePolicy, Configurable, Configured, Promoting, histories, Idle, Down
<1>4. CASE PromoteFails
  BY <1>0, <1>4 DEF PromoteFails, histories, Idle, Down
<1>5. CASE PromoteSave
  BY <1>0, <1>5 DEF PromoteSave, Save, Is, histories, Idle, Down
<1>6. CASE PromoteSaveFails
  BY <1>0, <1>6 DEF PromoteSaveFails, SaveFails, Is, histories, Idle, Down
<1>7. CASE RollbackSkip
  BY <1>0, <1>7 DEF RollbackSkip, Reaches, RollingBack, UnitState, Status, histories, Idle, Down
<1>8. CASE RollbackCutBack
  BY <1>0, <1>8 DEF RollbackCutBack, CutBack, SavePolicy, Configured, RollingBack, histories, Idle, Down
<1>9. CASE RollbackCutBackFails
  BY <1>0, <1>9 DEF RollbackCutBackFails, histories, Idle, Down
<1>10. CASE RollbackNext
  BY <1>0, <1>10 DEF RollbackNext, RollingBack, histories, Idle, Down
<1>11. CASE FinishRollback
  <2>1. ASSUME NEW w \in Unit, w \in call.from..NUnits
        PROVE  ~Routable(states[w]) /\ states[w] = stored[w]
    BY <1>0, <2>1, <1>11 DEF FinishRollback, Unit
  <2> QED
    BY <1>0, <2>1, <1>11 DEF FinishRollback, Idle, Down, Routable, Unit
<1>12. ASSUME NEW u \in Unit, Stabilize(u)
      PROVE  /\ v \notin unsettled' => states'[v] = stored'[v]
             /\ states'[v].status = "pending" => stored'[v].status = "pending"
  BY <1>0, <1>12 DEF Stabilize, Save, SaveFails, Is, histories, Idle, Down
<1>13. ASSUME NEW u \in Unit, StartRollback(u)
      PROVE  /\ v \notin unsettled' => states'[v] = stored'[v]
             /\ states'[v].status = "pending" => stored'[v].status = "pending"
  BY <1>0, <1>13 DEF StartRollback, RollbackFrom, RollingBack, histories, Idle, Down
<1>14. ASSUME NEW u \in Unit, RollbackSave(u)
      PROVE  /\ v \notin unsettled' => states'[v] = stored'[v]
             /\ states'[v].status = "pending" => stored'[v].status = "pending"
  BY <1>0, <1>14 DEF RollbackSave, Reaches, Save, Is, RollingBack, histories, Idle, Down
<1>15. ASSUME NEW u \in Unit, RollbackSaveFails(u)
      PROVE  /\ v \notin unsettled' => states'[v] = stored'[v]
             /\ states'[v].status = "pending" => stored'[v].status = "pending"
  BY <1>0, <1>15 DEF RollbackSaveFails, Reaches, SaveFails, Is, histories, Idle, Down
<1>16. ASSUME NEW u \in Unit, NEW r \in Revision, Promote(u, r)
      PROVE  /\ v \notin unsettled' => states'[v] = stored'[v]
             /\ states'[v].status = "pending" => stored'[v].status = "pending"
  BY <1>0, <1>16 DEF Promote, Promotable, Promoting, histories, Idle, Down
<1>17. ASSUME NEW c \in Capability, NEW healthy \in BOOLEAN, SetHealth(c, healthy)
      PROVE  /\ v \notin unsettled' => states'[v] = stored'[v]
             /\ states'[v].status = "pending" => stored'[v].status = "pending"
  BY <1>0, <1>17 DEF SetHealth, SavePolicy, histories, Idle, Down
<1>18. ASSUME NEW c \in Capability, NEW r \in Revision, Dispatch(c, r)
      PROVE  /\ v \notin unsettled' => states'[v] = stored'[v]
             /\ states'[v].status = "pending" => stored'[v].status = "pending"
  BY <1>0, <1>18 DEF Dispatch, Admitted, Decides, Configured, histories, Idle, Down
<1>19. ASSUME NEW c \in Capability, NEW r \in Revision, DispatchFallsBack(c, r)
      PROVE  /\ v \notin unsettled' => states'[v] = stored'[v]
             /\ states'[v].status = "pending" => stored'[v].status = "pending"
  BY <1>0, <1>19 DEF DispatchFallsBack, Admitted, Decides, Configured, CutBack, SavePolicy, RollbackFrom, RollingBack, histories, Idle, Down
<1>20. ASSUME NEW c \in Capability, NEW r \in Revision, DispatchFailsTwice(c, r)
      PROVE  /\ v \notin unsettled' => states'[v] = stored'[v]
             /\ states'[v].status = "pending" => stored'[v].status = "pending"
  BY <1>0, <1>20 DEF DispatchFailsTwice, Admitted, Decides, Configured, CutBack, SavePolicy, histories, Idle, Down
<1>21. ASSUME NEW c \in Capability, NEW r \in Revision, 
               NEW enabled \in BOOLEAN, NEW healthy \in BOOLEAN, Configure(c, r, enabled, healthy)
      PROVE  /\ v \notin unsettled' => states'[v] = stored'[v]
             /\ states'[v].status = "pending" => stored'[v].status = "pending"
  BY <1>0, <1>21 DEF Configure, Configurable, SavePolicy, Configured, histories, Idle, Down
<1>22. CASE UNCHANGED vars
  BY <1>0, <1>22 DEF vars, histories, Idle, Down
<1> QED
  BY <1>1, <1>2, <1>3, <1>4, <1>5, <1>6, <1>7, <1>8, <1>9, <1>10, <1>11, <1>12,
     <1>13, <1>14, <1>15, <1>16, <1>17, <1>18, <1>19, <1>20, <1>21, <1>22
  DEF Next

(* What a completed rollback covers stays on legacy.                       *)
LEMMA FencedStep == IInv /\ [Next]_vars => RollbackHolds'
<1> SUFFICES ASSUME IInv, [Next]_vars PROVE RollbackHolds'
  OBVIOUS
<1>a. fenced' \subseteq Unit
  BY HistoryTypeStep DEF IInv
<1> SUFFICES ASSUME NEW v \in Unit, v \in fenced'
             PROVE  ~Routable(stored'[v]) /\ (call' # Down => ~Routable(states'[v]))
  BY <1>a DEF RollbackHolds, Routable
<1>0. /\ stored \in [Unit -> UnitState] /\ states \in [Unit -> UnitState]
      /\ v \in fenced => ~Routable(stored[v])
      /\ v \in fenced /\ call # Down => ~Routable(states[v])
      /\ call.op = "promote" => call.unit \in Unit
      /\ call.op = "rollback" => /\ call.from \in Unit /\ call.at \in Nat /\ call.from <= call.at
                                 /\ \A w \in Unit : call.from <= w => w \in unsettled
                                 /\ \A w \in Unit : call.from <= w /\ (w < call.at \/ (w = call.at /\ call.stage = "cut_back")) =>
                                      ~Routable(states[w]) /\ states[w] = stored[w]
      /\ call.op # "down" => call # Down
      /\ NUnits \in Nat \ {0}
  BY Calls, CutoverAssumption
  DEF IInv, TypeOK, RollbackHolds, Progress, PromotionSoFar, RollbackSoFar, Promotion, Rollback, Down, Unit
<1>1. CASE Start
  BY <1>0, <1>1 DEF Start, histories, Idle, Down, Routable
<1>2. CASE Crash
  BY <1>0, <1>2 DEF Crash, Is, histories, Idle, Down, Routable
<1>3. CASE PromoteConfigure
  BY <1>0, <1>3 DEF PromoteConfigure, SavePolicy, Configurable, Configured, Promoting, histories, Idle, Down, Routable
<1>4. CASE PromoteFails
  BY <1>0, <1>4 DEF PromoteFails, histories, Idle, Down, Routable
<1>5. CASE PromoteSave
  BY <1>0, <1>5 DEF PromoteSave, Save, Is, histories, Idle, Down, Routable
<1>6. CASE PromoteSaveFails
  BY <1>0, <1>6 DEF PromoteSaveFails, SaveFails, Is, histories, Idle, Down, Routable
<1>7. CASE RollbackSkip
  BY <1>0, <1>7 DEF RollbackSkip, Reaches, RollingBack, UnitState, Status, histories, Idle, Down, Routable
<1>8. CASE RollbackCutBack
  BY <1>0, <1>8 DEF RollbackCutBack, CutBack, SavePolicy, Configured, RollingBack, histories, Idle, Down, Routable
<1>9. CASE RollbackCutBackFails
  BY <1>0, <1>9 DEF RollbackCutBackFails, histories, Idle, Down, Routable
<1>10. CASE RollbackNext
  BY <1>0, <1>10 DEF RollbackNext, RollingBack, histories, Idle, Down, Routable
<1>11. CASE FinishRollback
  <2>1. ASSUME NEW w \in Unit, w \in call.from..NUnits
        PROVE  ~Routable(states[w]) /\ states[w] = stored[w]
    BY <1>0, <2>1, <1>11 DEF FinishRollback, Unit
  <2> QED
    BY <1>0, <2>1, <1>11 DEF FinishRollback, Idle, Down, Routable, Unit
<1>12. ASSUME NEW u \in Unit, Stabilize(u)
      PROVE  ~Routable(stored'[v]) /\ (call' # Down => ~Routable(states'[v]))
  BY <1>0, <1>12 DEF Stabilize, Save, SaveFails, Is, histories, Idle, Down, Routable
<1>13. ASSUME NEW u \in Unit, StartRollback(u)
      PROVE  ~Routable(stored'[v]) /\ (call' # Down => ~Routable(states'[v]))
  BY <1>0, <1>13 DEF StartRollback, RollbackFrom, RollingBack, histories, Idle, Down, Routable
<1>14. ASSUME NEW u \in Unit, RollbackSave(u)
      PROVE  ~Routable(stored'[v]) /\ (call' # Down => ~Routable(states'[v]))
  BY <1>0, <1>14 DEF RollbackSave, Reaches, Save, Is, RollingBack, histories, Idle, Down, Routable
<1>15. ASSUME NEW u \in Unit, RollbackSaveFails(u)
      PROVE  ~Routable(stored'[v]) /\ (call' # Down => ~Routable(states'[v]))
  BY <1>0, <1>15 DEF RollbackSaveFails, Reaches, SaveFails, Is, histories, Idle, Down, Routable
<1>16. ASSUME NEW u \in Unit, NEW r \in Revision, Promote(u, r)
      PROVE  ~Routable(stored'[v]) /\ (call' # Down => ~Routable(states'[v]))
  BY <1>0, <1>16 DEF Promote, Promotable, Promoting, histories, Idle, Down, Routable
<1>17. ASSUME NEW c \in Capability, NEW healthy \in BOOLEAN, SetHealth(c, healthy)
      PROVE  ~Routable(stored'[v]) /\ (call' # Down => ~Routable(states'[v]))
  BY <1>0, <1>17 DEF SetHealth, SavePolicy, histories, Idle, Down, Routable
<1>18. ASSUME NEW c \in Capability, NEW r \in Revision, Dispatch(c, r)
      PROVE  ~Routable(stored'[v]) /\ (call' # Down => ~Routable(states'[v]))
  BY <1>0, <1>18 DEF Dispatch, Admitted, Decides, Configured, histories, Idle, Down, Routable
<1>19. ASSUME NEW c \in Capability, NEW r \in Revision, DispatchFallsBack(c, r)
      PROVE  ~Routable(stored'[v]) /\ (call' # Down => ~Routable(states'[v]))
  BY <1>0, <1>19 DEF DispatchFallsBack, Admitted, Decides, Configured, CutBack, SavePolicy, RollbackFrom, RollingBack, histories, Idle, Down, Routable
<1>20. ASSUME NEW c \in Capability, NEW r \in Revision, DispatchFailsTwice(c, r)
      PROVE  ~Routable(stored'[v]) /\ (call' # Down => ~Routable(states'[v]))
  BY <1>0, <1>20 DEF DispatchFailsTwice, Admitted, Decides, Configured, CutBack, SavePolicy, histories, Idle, Down, Routable
<1>21. ASSUME NEW c \in Capability, NEW r \in Revision, 
               NEW enabled \in BOOLEAN, NEW healthy \in BOOLEAN, Configure(c, r, enabled, healthy)
      PROVE  ~Routable(stored'[v]) /\ (call' # Down => ~Routable(states'[v]))
  BY <1>0, <1>21 DEF Configure, Configurable, SavePolicy, Configured, histories, Idle, Down, Routable
<1>22. CASE UNCHANGED vars
  BY <1>0, <1>22 DEF vars, histories, Idle, Down, Routable
<1> QED
  BY <1>1, <1>2, <1>3, <1>4, <1>5, <1>6, <1>7, <1>8, <1>9, <1>10, <1>11, <1>12,
     <1>13, <1>14, <1>15, <1>16, <1>17, <1>18, <1>19, <1>20, <1>21, <1>22
  DEF Next

(* Platform answers under the revision that the policies name.             *)
LEMMA ServedStep == IInv /\ [Next]_vars => ServedAsConfigured'
<1> SUFFICES ASSUME IInv, [Next]_vars, NEW d \in Capability, NEW q \in served'[UnitOf[d]]
             PROVE  policy'[d] # None /\ policy'[d].revision = q
  BY DEF ServedAsConfigured, Capabilities, Configured
<1>0. /\ served \in [Unit -> SUBSET Revision]
      /\ q \in served[UnitOf[d]] => policy[d] # None /\ policy[d].revision = q
      /\ policy[d] # None => policy'[d] # None /\ policy'[d].revision = policy[d].revision
      /\ \A c \in Capability : UnitOf[c] \in Unit
  BY PinStep, CutoverAssumption
  DEF IInv, TypeOK, ServedAsConfigured, Capabilities, Configured
<1>1. CASE Start
  BY <1>0, <1>1 DEF Start, histories
<1>2. CASE Crash
  BY <1>0, <1>2 DEF Crash, Is, histories
<1>3. CASE PromoteConfigure
  BY <1>0, <1>3 DEF PromoteConfigure, SavePolicy, Configurable, Configured, Promoting, histories
<1>4. CASE PromoteFails
  BY <1>0, <1>4 DEF PromoteFails, histories
<1>5. CASE PromoteSave
  BY <1>0, <1>5 DEF PromoteSave, Save, Is, histories
<1>6. CASE PromoteSaveFails
  BY <1>0, <1>6 DEF PromoteSaveFails, SaveFails, Is, histories
<1>7. CASE RollbackSkip
  BY <1>0, <1>7 DEF RollbackSkip, Reaches, RollingBack, UnitState, Status, histories
<1>8. CASE RollbackCutBack
  BY <1>0, <1>8 DEF RollbackCutBack, CutBack, SavePolicy, Configured, RollingBack, histories
<1>9. CASE RollbackCutBackFails
  BY <1>0, <1>9 DEF RollbackCutBackFails, histories
<1>10. CASE RollbackNext
  BY <1>0, <1>10 DEF RollbackNext, RollingBack, histories
<1>11. CASE FinishRollback
  BY <1>0, <1>11 DEF FinishRollback, histories
<1>12. ASSUME NEW u \in Unit, Stabilize(u)
      PROVE  policy'[d] # None /\ policy'[d].revision = q
  BY <1>0, <1>12 DEF Stabilize, Save, SaveFails, Is, histories
<1>13. ASSUME NEW u \in Unit, StartRollback(u)
      PROVE  policy'[d] # None /\ policy'[d].revision = q
  BY <1>0, <1>13 DEF StartRollback, RollbackFrom, RollingBack, histories
<1>14. ASSUME NEW u \in Unit, RollbackSave(u)
      PROVE  policy'[d] # None /\ policy'[d].revision = q
  BY <1>0, <1>14 DEF RollbackSave, Reaches, Save, Is, RollingBack, histories
<1>15. ASSUME NEW u \in Unit, RollbackSaveFails(u)
      PROVE  policy'[d] # None /\ policy'[d].revision = q
  BY <1>0, <1>15 DEF RollbackSaveFails, Reaches, SaveFails, Is, histories
<1>16. ASSUME NEW u \in Unit, NEW r \in Revision, Promote(u, r)
      PROVE  policy'[d] # None /\ policy'[d].revision = q
  BY <1>0, <1>16 DEF Promote, Promotable, Promoting, histories
<1>17. ASSUME NEW c \in Capability, NEW healthy \in BOOLEAN, SetHealth(c, healthy)
      PROVE  policy'[d] # None /\ policy'[d].revision = q
  BY <1>0, <1>17 DEF SetHealth, SavePolicy, histories
<1>18. ASSUME NEW c \in Capability, NEW r \in Revision, Dispatch(c, r)
      PROVE  policy'[d] # None /\ policy'[d].revision = q
  <2>1. CASE q = r /\ UnitOf[c] = UnitOf[d]
    <3>1. /\ policy[c] # None /\ policy[c].revision = r
          /\ Routable(states[UnitOf[c]]) /\ call # Down
      BY <1>18 DEF Dispatch, Admitted, Decides, Configured, Idle, Down
    <3>2. \A e \in Capability : UnitOf[e] = UnitOf[c] => policy[e] # None /\ policy[e].revision = states[UnitOf[c]].revision
      BY <3>1 DEF IInv, PoliciesAgree, Configured, Routable
    <3> QED
      BY <1>0, <2>1, <3>1, <3>2
  <2>2. CASE q \in served[UnitOf[d]]
    BY <1>0, <2>2
  <2> QED
    BY <1>0, <2>1, <2>2, <1>18 DEF Dispatch
<1>19. ASSUME NEW c \in Capability, NEW r \in Revision, DispatchFallsBack(c, r)
      PROVE  policy'[d] # None /\ policy'[d].revision = q
  BY <1>0, <1>19 DEF DispatchFallsBack, Admitted, Decides, Configured, CutBack, SavePolicy, RollbackFrom, RollingBack, histories
<1>20. ASSUME NEW c \in Capability, NEW r \in Revision, DispatchFailsTwice(c, r)
      PROVE  policy'[d] # None /\ policy'[d].revision = q
  BY <1>0, <1>20 DEF DispatchFailsTwice, Admitted, Decides, Configured, CutBack, SavePolicy, histories
<1>21. ASSUME NEW c \in Capability, NEW r \in Revision, 
               NEW enabled \in BOOLEAN, NEW healthy \in BOOLEAN, Configure(c, r, enabled, healthy)
      PROVE  policy'[d] # None /\ policy'[d].revision = q
  BY <1>0, <1>21 DEF Configure, Configurable, SavePolicy, Configured, histories
<1>22. CASE UNCHANGED vars
  BY <1>0, <1>22 DEF vars, histories
<1> QED
  BY <1>1, <1>2, <1>3, <1>4, <1>5, <1>6, <1>7, <1>8, <1>9, <1>10, <1>11, <1>12,
     <1>13, <1>14, <1>15, <1>16, <1>17, <1>18, <1>19, <1>20, <1>21, <1>22
  DEF Next

(* On disk, before a routable unit every unit is stable or unsettled.      *)
LEMMA StoredOrderStep == IInv /\ [Next]_vars => InOrder(stored)'
<1> SUFFICES ASSUME IInv, [Next]_vars, NEW x \in Unit, NEW v \in 1..(x - 1), Routable(stored'[x])
             PROVE  stored'[v].status = "stable" \/ v \in unsettled'
  BY DEF InOrder, Routable
<1>0. /\ stored \in [Unit -> UnitState] /\ states \in [Unit -> UnitState]
      /\ Routable(stored[x]) => stored[v].status = "stable" \/ v \in unsettled
      /\ Routable(states[x]) /\ call # Down => states[v].status = "stable" \/ v \in unsettled
      /\ \A w \in Unit : call # Down /\ w \notin unsettled => states[w] = stored[w]
      /\ call.op = "promote" => call.unit \in Unit /\ ~Routable(states[call.unit])
      /\ call.op = "promote" /\ call.unit = x => states[v].status = "stable"
      /\ x \in 1..NUnits /\ v \in 1..NUnits /\ v < x
      /\ call.op = "rollback" => /\ call.from \in Unit /\ call.at \in Nat /\ call.from <= call.at
                                 /\ \A w \in Unit : call.from <= w => w \in unsettled
                                 /\ \A w \in Unit : call.from <= w /\ (w < call.at \/ (w = call.at /\ call.stage = "cut_back")) =>
                                      ~Routable(states[w]) /\ states[w] = stored[w]
      /\ call.op # "down" => call # Down
      /\ NUnits \in Nat \ {0}
  BY Calls, CutoverAssumption
  DEF IInv, TypeOK, OrderedUnits, InOrder, CacheAgrees, Progress, PromotionSoFar, RollbackSoFar, Promotable, Promotion, Rollback, Down, Unit
<1>1. CASE Start
  BY <1>0, <1>1 DEF Start, histories, Idle, Down, Routable
<1>2. CASE Crash
  BY <1>0, <1>2 DEF Crash, Is, histories, Idle, Down, Routable
<1>3. CASE PromoteConfigure
  BY <1>0, <1>3 DEF PromoteConfigure, SavePolicy, Configurable, Configured, Promoting, histories, Idle, Down, Routable
<1>4. CASE PromoteFails
  BY <1>0, <1>4 DEF PromoteFails, histories, Idle, Down, Routable
<1>5. CASE PromoteSave
  <2>1. /\ call.unit \in Unit /\ call # Down /\ UNCHANGED unsettled
        /\ ~Routable(states[call.unit])
        /\ stored' = [stored EXCEPT ![call.unit] = [status |-> "active", revision |-> call.revision]]
    BY <1>0, <1>5 DEF PromoteSave, Save, Is
  <2>2. CASE x = call.unit
    BY <1>0, <2>1, <2>2, <1>5 DEF PromoteSave, Unit
  <2>3. CASE v = call.unit
    <3>1. Routable(stored[x])
      BY <1>0, <2>1, <2>3 DEF Unit, Routable
    <3>2. v \in Unit
      BY <1>0 DEF Unit
    <3>3. stored[v].status = "stable" => v \in unsettled
      BY <1>0, <2>1, <2>3, <3>2 DEF Routable
    <3> QED
      BY <1>0, <2>1, <3>1, <3>3
  <2>4. CASE x # call.unit /\ v # call.unit
    BY <1>0, <2>1, <2>4 DEF Unit, Routable
  <2> QED
    BY <2>2, <2>3, <2>4
<1>6. CASE PromoteSaveFails
  BY <1>0, <1>6 DEF PromoteSaveFails, SaveFails, Is, histories, Idle, Down, Routable
<1>7. CASE RollbackSkip
  BY <1>0, <1>7 DEF RollbackSkip, Reaches, RollingBack, UnitState, Status, histories, Idle, Down, Routable
<1>8. CASE RollbackCutBack
  BY <1>0, <1>8 DEF RollbackCutBack, CutBack, SavePolicy, Configured, RollingBack, histories, Idle, Down, Routable
<1>9. CASE RollbackCutBackFails
  BY <1>0, <1>9 DEF RollbackCutBackFails, histories, Idle, Down, Routable
<1>10. CASE RollbackNext
  BY <1>0, <1>10 DEF RollbackNext, RollingBack, histories, Idle, Down, Routable
<1>11. CASE FinishRollback
  <2>1. Routable(stored[x]) \/ Routable(states[x])
    BY <1>11 DEF FinishRollback, Idle, Down
  <2>2. ~(call.from <= x)
    BY <1>0, <2>1, <1>11 DEF FinishRollback, Unit
  <2>3. v \notin call.from..NUnits
    BY <1>0, <2>2, <1>11 DEF FinishRollback, Unit
  <2> QED
    BY <1>0, <2>3, <1>11 DEF FinishRollback, Idle, Down
<1>12. ASSUME NEW u \in Unit, Stabilize(u)
      PROVE  stored'[v].status = "stable" \/ v \in unsettled'
  <2>1. v # x /\ (u = v => states[v].status = "active") /\ states[u].status = "active" /\ call # Down
    BY <1>0, <1>12 DEF Stabilize, Idle, Down
  <2>2. CASE Save(u, Is("stable", states[u].revision)) /\ UNCHANGED unsettled
    <3>1. CASE u = x
      BY <1>0, <2>1, <2>2, <3>1 DEF Save, Is, Routable, Unit
    <3>2. CASE u # x
      BY <1>0, <2>1, <2>2, <3>2 DEF Save, Is, Routable, Unit
    <3> QED
      BY <3>1, <3>2
  <2>3. CASE SaveFails(u, Is("stable", states[u].revision)) /\ unsettled' = unsettled \cup {u}
    BY <1>0, <2>1, <2>3 DEF SaveFails, Is, Routable, Unit
  <2> QED
    BY <2>2, <2>3, <1>12 DEF Stabilize
<1>13. ASSUME NEW u \in Unit, StartRollback(u)
      PROVE  stored'[v].status = "stable" \/ v \in unsettled'
  BY <1>0, <1>13 DEF StartRollback, RollbackFrom, RollingBack, histories, Idle, Down, Routable
<1>14. ASSUME NEW u \in Unit, RollbackSave(u)
      PROVE  stored'[v].status = "stable" \/ v \in unsettled'
  BY <1>0, <1>14 DEF RollbackSave, Reaches, Save, Is, RollingBack, histories, Idle, Down, Routable
<1>15. ASSUME NEW u \in Unit, RollbackSaveFails(u)
      PROVE  stored'[v].status = "stable" \/ v \in unsettled'
  BY <1>0, <1>15 DEF RollbackSaveFails, Reaches, SaveFails, Is, histories, Idle, Down, Routable
<1>16. ASSUME NEW u \in Unit, NEW r \in Revision, Promote(u, r)
      PROVE  stored'[v].status = "stable" \/ v \in unsettled'
  BY <1>0, <1>16 DEF Promote, Promotable, Promoting, histories, Idle, Down, Routable
<1>17. ASSUME NEW c \in Capability, NEW healthy \in BOOLEAN, SetHealth(c, healthy)
      PROVE  stored'[v].status = "stable" \/ v \in unsettled'
  BY <1>0, <1>17 DEF SetHealth, SavePolicy, histories, Idle, Down, Routable
<1>18. ASSUME NEW c \in Capability, NEW r \in Revision, Dispatch(c, r)
      PROVE  stored'[v].status = "stable" \/ v \in unsettled'
  BY <1>0, <1>18 DEF Dispatch, Admitted, Decides, Configured, histories, Idle, Down, Routable
<1>19. ASSUME NEW c \in Capability, NEW r \in Revision, DispatchFallsBack(c, r)
      PROVE  stored'[v].status = "stable" \/ v \in unsettled'
  BY <1>0, <1>19 DEF DispatchFallsBack, Admitted, Decides, Configured, CutBack, SavePolicy, RollbackFrom, RollingBack, histories, Idle, Down, Routable
<1>20. ASSUME NEW c \in Capability, NEW r \in Revision, DispatchFailsTwice(c, r)
      PROVE  stored'[v].status = "stable" \/ v \in unsettled'
  BY <1>0, <1>20 DEF DispatchFailsTwice, Admitted, Decides, Configured, CutBack, SavePolicy, histories, Idle, Down, Routable
<1>21. ASSUME NEW c \in Capability, NEW r \in Revision, 
               NEW enabled \in BOOLEAN, NEW healthy \in BOOLEAN, Configure(c, r, enabled, healthy)
      PROVE  stored'[v].status = "stable" \/ v \in unsettled'
  BY <1>0, <1>21 DEF Configure, Configurable, SavePolicy, Configured, histories, Idle, Down, Routable
<1>22. CASE UNCHANGED vars
  BY <1>0, <1>22 DEF vars, histories, Idle, Down, Routable
<1> QED
  BY <1>1, <1>2, <1>3, <1>4, <1>5, <1>6, <1>7, <1>8, <1>9, <1>10, <1>11, <1>12,
     <1>13, <1>14, <1>15, <1>16, <1>17, <1>18, <1>19, <1>20, <1>21, <1>22
  DEF Next

(* The same in memory.                                                     *)
LEMMA StatesOrderStep == IInv /\ [Next]_vars => (call # Down => InOrder(states))'
<1> SUFFICES ASSUME IInv, [Next]_vars, call' # Down, NEW x \in Unit, NEW v \in 1..(x - 1), Routable(states'[x])
             PROVE  states'[v].status = "stable" \/ v \in unsettled'
  BY DEF InOrder, Routable
<1>0. /\ stored \in [Unit -> UnitState] /\ states \in [Unit -> UnitState]
      /\ Routable(stored[x]) => stored[v].status = "stable" \/ v \in unsettled
      /\ Routable(states[x]) /\ call # Down => states[v].status = "stable" \/ v \in unsettled
      /\ \A w \in Unit : call # Down /\ w \notin unsettled => states[w] = stored[w]
      /\ call.op = "promote" => call.unit \in Unit /\ ~Routable(states[call.unit])
      /\ call.op = "promote" /\ call.unit = x => states[v].status = "stable"
      /\ x \in 1..NUnits /\ v \in 1..NUnits /\ v < x
      /\ call.op = "rollback" => /\ call.from \in Unit /\ call.at \in Nat /\ call.from <= call.at
                                 /\ \A w \in Unit : call.from <= w => w \in unsettled
                                 /\ \A w \in Unit : call.from <= w /\ (w < call.at \/ (w = call.at /\ call.stage = "cut_back")) =>
                                      ~Routable(states[w]) /\ states[w] = stored[w]
      /\ call.op # "down" => call # Down
      /\ NUnits \in Nat \ {0}
  BY Calls, CutoverAssumption
  DEF IInv, TypeOK, OrderedUnits, InOrder, CacheAgrees, Progress, PromotionSoFar, RollbackSoFar, Promotable, Promotion, Rollback, Down, Unit
<1>1. CASE Start
  BY <1>0, <1>1 DEF Start, histories, Idle, Down, Routable
<1>2. CASE Crash
  BY <1>0, <1>2 DEF Crash, Is, histories, Idle, Down, Routable
<1>3. CASE PromoteConfigure
  BY <1>0, <1>3 DEF PromoteConfigure, SavePolicy, Configurable, Configured, Promoting, histories, Idle, Down, Routable
<1>4. CASE PromoteFails
  BY <1>0, <1>4 DEF PromoteFails, histories, Idle, Down, Routable
<1>5. CASE PromoteSave
  BY <1>0, <1>5 DEF PromoteSave, Save, Is, histories, Idle, Down, Routable
<1>6. CASE PromoteSaveFails
  BY <1>0, <1>6 DEF PromoteSaveFails, SaveFails, Is, histories, Idle, Down, Routable
<1>7. CASE RollbackSkip
  BY <1>0, <1>7 DEF RollbackSkip, Reaches, RollingBack, UnitState, Status, histories, Idle, Down, Routable
<1>8. CASE RollbackCutBack
  BY <1>0, <1>8 DEF RollbackCutBack, CutBack, SavePolicy, Configured, RollingBack, histories, Idle, Down, Routable
<1>9. CASE RollbackCutBackFails
  BY <1>0, <1>9 DEF RollbackCutBackFails, histories, Idle, Down, Routable
<1>10. CASE RollbackNext
  BY <1>0, <1>10 DEF RollbackNext, RollingBack, histories, Idle, Down, Routable
<1>11. CASE FinishRollback
  <2>1. Routable(stored[x]) \/ Routable(states[x])
    BY <1>11 DEF FinishRollback, Idle, Down
  <2>2. ~(call.from <= x)
    BY <1>0, <2>1, <1>11 DEF FinishRollback, Unit
  <2>3. v \notin call.from..NUnits
    BY <1>0, <2>2, <1>11 DEF FinishRollback, Unit
  <2> QED
    BY <1>0, <2>3, <1>11 DEF FinishRollback, Idle, Down
<1>12. ASSUME NEW u \in Unit, Stabilize(u)
      PROVE  states'[v].status = "stable" \/ v \in unsettled'
  <2>1. v # x /\ (u = v => states[v].status = "active") /\ states[u].status = "active" /\ call # Down
    BY <1>0, <1>12 DEF Stabilize, Idle, Down
  <2>2. CASE Save(u, Is("stable", states[u].revision)) /\ UNCHANGED unsettled
    <3>1. CASE u = x
      BY <1>0, <2>1, <2>2, <3>1 DEF Save, Is, Routable, Unit
    <3>2. CASE u # x
      BY <1>0, <2>1, <2>2, <3>2 DEF Save, Is, Routable, Unit
    <3> QED
      BY <3>1, <3>2
  <2>3. CASE SaveFails(u, Is("stable", states[u].revision)) /\ unsettled' = unsettled \cup {u}
    BY <1>0, <2>1, <2>3 DEF SaveFails, Is, Routable, Unit
  <2> QED
    BY <2>2, <2>3, <1>12 DEF Stabilize
<1>13. ASSUME NEW u \in Unit, StartRollback(u)
      PROVE  states'[v].status = "stable" \/ v \in unsettled'
  BY <1>0, <1>13 DEF StartRollback, RollbackFrom, RollingBack, histories, Idle, Down, Routable
<1>14. ASSUME NEW u \in Unit, RollbackSave(u)
      PROVE  states'[v].status = "stable" \/ v \in unsettled'
  BY <1>0, <1>14 DEF RollbackSave, Reaches, Save, Is, RollingBack, histories, Idle, Down, Routable
<1>15. ASSUME NEW u \in Unit, RollbackSaveFails(u)
      PROVE  states'[v].status = "stable" \/ v \in unsettled'
  BY <1>0, <1>15 DEF RollbackSaveFails, Reaches, SaveFails, Is, histories, Idle, Down, Routable
<1>16. ASSUME NEW u \in Unit, NEW r \in Revision, Promote(u, r)
      PROVE  states'[v].status = "stable" \/ v \in unsettled'
  BY <1>0, <1>16 DEF Promote, Promotable, Promoting, histories, Idle, Down, Routable
<1>17. ASSUME NEW c \in Capability, NEW healthy \in BOOLEAN, SetHealth(c, healthy)
      PROVE  states'[v].status = "stable" \/ v \in unsettled'
  BY <1>0, <1>17 DEF SetHealth, SavePolicy, histories, Idle, Down, Routable
<1>18. ASSUME NEW c \in Capability, NEW r \in Revision, Dispatch(c, r)
      PROVE  states'[v].status = "stable" \/ v \in unsettled'
  BY <1>0, <1>18 DEF Dispatch, Admitted, Decides, Configured, histories, Idle, Down, Routable
<1>19. ASSUME NEW c \in Capability, NEW r \in Revision, DispatchFallsBack(c, r)
      PROVE  states'[v].status = "stable" \/ v \in unsettled'
  BY <1>0, <1>19 DEF DispatchFallsBack, Admitted, Decides, Configured, CutBack, SavePolicy, RollbackFrom, RollingBack, histories, Idle, Down, Routable
<1>20. ASSUME NEW c \in Capability, NEW r \in Revision, DispatchFailsTwice(c, r)
      PROVE  states'[v].status = "stable" \/ v \in unsettled'
  BY <1>0, <1>20 DEF DispatchFailsTwice, Admitted, Decides, Configured, CutBack, SavePolicy, histories, Idle, Down, Routable
<1>21. ASSUME NEW c \in Capability, NEW r \in Revision, 
               NEW enabled \in BOOLEAN, NEW healthy \in BOOLEAN, Configure(c, r, enabled, healthy)
      PROVE  states'[v].status = "stable" \/ v \in unsettled'
  BY <1>0, <1>21 DEF Configure, Configurable, SavePolicy, Configured, histories, Idle, Down, Routable
<1>22. CASE UNCHANGED vars
  BY <1>0, <1>22 DEF vars, histories, Idle, Down, Routable
<1> QED
  BY <1>1, <1>2, <1>3, <1>4, <1>5, <1>6, <1>7, <1>8, <1>9, <1>10, <1>11, <1>12,
     <1>13, <1>14, <1>15, <1>16, <1>17, <1>18, <1>19, <1>20, <1>21, <1>22
  DEF Next

LEMMA EveryUnitServes == (\E u \in Unit : TRUE) /\ (\E c \in Capability : TRUE)
BY CutoverAssumption DEF Unit

(* A promotion in progress still may go on, its policies are in place.     *)
LEMMA PromotionStep == IInv /\ [Next]_vars => PromotionSoFar'
<1> SUFFICES ASSUME IInv, [Next]_vars, call'.op = "promote", NEW v, NEW d \in Capability
             PROVE  /\ ~Routable(states'[call'.unit])
                    /\ v \in 1..(call'.unit - 1) => states'[v].status = "stable"
                    /\ UnitOf[d] = call'.unit /\ d \notin call'.todo =>
                         policy'[d] # None /\ policy'[d].revision = call'.revision
  BY EveryUnitServes DEF PromotionSoFar, Promotable, Capabilities, Configured, Routable
<1>0. /\ UnitOf[d] \in Unit
      /\ call.op = "promote" => /\ ~Routable(states[call.unit])
                                /\ v \in 1..(call.unit - 1) => states[v].status = "stable"
                                /\ UnitOf[d] = call.unit /\ d \notin call.todo =>
                                     policy[d] # None /\ policy[d].revision = call.revision
                                /\ call \in Promotion
      /\ call.op = "rollback" => call \in Rollback
      /\ policy[d] # None => policy'[d] # None /\ policy'[d].revision = policy[d].revision
  BY Calls, PinStep, CutoverAssumption
  DEF IInv, TypeOK, Progress, PromotionSoFar, Promotable, Capabilities, Configured
<1>1. CASE Start
  BY <1>0, <1>1 DEF Start, histories, Idle, Down, Promotion, Rollback, Capabilities
<1>2. CASE Crash
  BY <1>0, <1>2 DEF Crash, Is, histories, Idle, Down, Promotion, Rollback, Capabilities
<1>3. CASE PromoteConfigure
  <2>1. PICK c \in call.todo :
          /\ Configurable(c, call.revision)
          /\ SavePolicy(c, call.revision, TRUE, TRUE)
          /\ call' = Promoting(call.unit, call.revision, call.todo \ {c})
    BY <1>3 DEF PromoteConfigure
  <2>2. /\ call \in Promotion /\ UNCHANGED states
        /\ policy \in [Capability -> Policy \cup {None}]
    BY <1>0, <1>3 DEF PromoteConfigure, IInv, TypeOK
  <2>3. /\ call.revision \in Revision
        /\ call' = [op |-> "promote", unit |-> call.unit, revision |-> call.revision, todo |-> call.todo \ {c}]
    BY <2>1, <2>2 DEF Promotion, Promoting
  <2>4. c = d => policy'[d] = [revision |-> call.revision, enabled |-> TRUE, healthy |-> TRUE]
    BY <2>1, <2>2 DEF SavePolicy
  <2>5. [revision |-> call.revision, enabled |-> TRUE, healthy |-> TRUE] \in Policy
    BY <2>3 DEF Policy
  <2>6. c = d => policy'[d] # None /\ policy'[d].revision = call.revision
    BY <2>4, <2>5, CutoverAssumption
  <2> QED
    BY <1>0, <2>2, <2>3, <2>6, <1>3 DEF PromoteConfigure
<1>4. CASE PromoteFails
  BY <1>0, <1>4 DEF PromoteFails, histories, Idle, Down, Promotion, Rollback, Capabilities
<1>5. CASE PromoteSave
  BY <1>0, <1>5 DEF PromoteSave, Save, Is, histories, Idle, Down, Promotion, Rollback, Capabilities
<1>6. CASE PromoteSaveFails
  BY <1>0, <1>6 DEF PromoteSaveFails, SaveFails, Is, histories, Idle, Down, Promotion, Rollback, Capabilities
<1>7. CASE RollbackSkip
  BY <1>0, <1>7 DEF RollbackSkip, Reaches, RollingBack, UnitState, Status, histories, Idle, Down, Promotion, Rollback, Capabilities
<1>8. CASE RollbackCutBack
  BY <1>0, <1>8 DEF RollbackCutBack, CutBack, SavePolicy, Configured, RollingBack, histories, Idle, Down, Promotion, Rollback, Capabilities
<1>9. CASE RollbackCutBackFails
  BY <1>0, <1>9 DEF RollbackCutBackFails, histories, Idle, Down, Promotion, Rollback, Capabilities
<1>10. CASE RollbackNext
  BY <1>0, <1>10 DEF RollbackNext, RollingBack, histories, Idle, Down, Promotion, Rollback, Capabilities
<1>11. CASE FinishRollback
  BY <1>0, <1>11 DEF FinishRollback, histories, Idle, Down, Promotion, Rollback, Capabilities
<1>12. ASSUME NEW u \in Unit, Stabilize(u)
      PROVE  /\ ~Routable(states'[call'.unit])
             /\ v \in 1..(call'.unit - 1) => states'[v].status = "stable"
             /\ UnitOf[d] = call'.unit /\ d \notin call'.todo =>
                  policy'[d] # None /\ policy'[d].revision = call'.revision
  BY <1>0, <1>12 DEF Stabilize, Save, SaveFails, Is, histories, Idle, Down, Promotion, Rollback, Capabilities
<1>13. ASSUME NEW u \in Unit, StartRollback(u)
      PROVE  /\ ~Routable(states'[call'.unit])
             /\ v \in 1..(call'.unit - 1) => states'[v].status = "stable"
             /\ UnitOf[d] = call'.unit /\ d \notin call'.todo =>
                  policy'[d] # None /\ policy'[d].revision = call'.revision
  BY <1>0, <1>13 DEF StartRollback, RollbackFrom, RollingBack, histories, Idle, Down, Promotion, Rollback, Capabilities
<1>14. ASSUME NEW u \in Unit, RollbackSave(u)
      PROVE  /\ ~Routable(states'[call'.unit])
             /\ v \in 1..(call'.unit - 1) => states'[v].status = "stable"
             /\ UnitOf[d] = call'.unit /\ d \notin call'.todo =>
                  policy'[d] # None /\ policy'[d].revision = call'.revision
  BY <1>0, <1>14 DEF RollbackSave, Reaches, Save, Is, RollingBack, histories, Idle, Down, Promotion, Rollback, Capabilities
<1>15. ASSUME NEW u \in Unit, RollbackSaveFails(u)
      PROVE  /\ ~Routable(states'[call'.unit])
             /\ v \in 1..(call'.unit - 1) => states'[v].status = "stable"
             /\ UnitOf[d] = call'.unit /\ d \notin call'.todo =>
                  policy'[d] # None /\ policy'[d].revision = call'.revision
  BY <1>0, <1>15 DEF RollbackSaveFails, Reaches, SaveFails, Is, histories, Idle, Down, Promotion, Rollback, Capabilities
<1>16. ASSUME NEW u \in Unit, NEW r \in Revision, Promote(u, r)
      PROVE  /\ ~Routable(states'[call'.unit])
             /\ v \in 1..(call'.unit - 1) => states'[v].status = "stable"
             /\ UnitOf[d] = call'.unit /\ d \notin call'.todo =>
                  policy'[d] # None /\ policy'[d].revision = call'.revision
  BY <1>0, <1>16 DEF Promote, Promotable, Promoting, histories, Idle, Down, Promotion, Rollback, Capabilities
<1>17. ASSUME NEW c \in Capability, NEW healthy \in BOOLEAN, SetHealth(c, healthy)
      PROVE  /\ ~Routable(states'[call'.unit])
             /\ v \in 1..(call'.unit - 1) => states'[v].status = "stable"
             /\ UnitOf[d] = call'.unit /\ d \notin call'.todo =>
                  policy'[d] # None /\ policy'[d].revision = call'.revision
  BY <1>0, <1>17 DEF SetHealth, SavePolicy, histories, Idle, Down, Promotion, Rollback, Capabilities
<1>18. ASSUME NEW c \in Capability, NEW r \in Revision, Dispatch(c, r)
      PROVE  /\ ~Routable(states'[call'.unit])
             /\ v \in 1..(call'.unit - 1) => states'[v].status = "stable"
             /\ UnitOf[d] = call'.unit /\ d \notin call'.todo =>
                  policy'[d] # None /\ policy'[d].revision = call'.revision
  BY <1>0, <1>18 DEF Dispatch, Admitted, Decides, Configured, histories, Idle, Down, Promotion, Rollback, Capabilities
<1>19. ASSUME NEW c \in Capability, NEW r \in Revision, DispatchFallsBack(c, r)
      PROVE  /\ ~Routable(states'[call'.unit])
             /\ v \in 1..(call'.unit - 1) => states'[v].status = "stable"
             /\ UnitOf[d] = call'.unit /\ d \notin call'.todo =>
                  policy'[d] # None /\ policy'[d].revision = call'.revision
  BY <1>0, <1>19 DEF DispatchFallsBack, Admitted, Decides, Configured, CutBack, SavePolicy, RollbackFrom, RollingBack, histories, Idle, Down, Promotion, Rollback, Capabilities
<1>20. ASSUME NEW c \in Capability, NEW r \in Revision, DispatchFailsTwice(c, r)
      PROVE  /\ ~Routable(states'[call'.unit])
             /\ v \in 1..(call'.unit - 1) => states'[v].status = "stable"
             /\ UnitOf[d] = call'.unit /\ d \notin call'.todo =>
                  policy'[d] # None /\ policy'[d].revision = call'.revision
  BY <1>0, <1>20 DEF DispatchFailsTwice, Admitted, Decides, Configured, CutBack, SavePolicy, histories, Idle, Down, Promotion, Rollback, Capabilities
<1>21. ASSUME NEW c \in Capability, NEW r \in Revision, 
               NEW enabled \in BOOLEAN, NEW healthy \in BOOLEAN, Configure(c, r, enabled, healthy)
      PROVE  /\ ~Routable(states'[call'.unit])
             /\ v \in 1..(call'.unit - 1) => states'[v].status = "stable"
             /\ UnitOf[d] = call'.unit /\ d \notin call'.todo =>
                  policy'[d] # None /\ policy'[d].revision = call'.revision
  BY <1>0, <1>21 DEF Configure, Configurable, SavePolicy, Configured, histories, Idle, Down, Promotion, Rollback, Capabilities
<1>22. CASE UNCHANGED vars
  BY <1>0, <1>22 DEF vars, histories, Idle, Down, Promotion, Rollback, Capabilities
<1> QED
  BY <1>1, <1>2, <1>3, <1>4, <1>5, <1>6, <1>7, <1>8, <1>9, <1>10, <1>11, <1>12,
     <1>13, <1>14, <1>15, <1>16, <1>17, <1>18, <1>19, <1>20, <1>21, <1>22
  DEF Next

(* A rollback in progress covers unsettled units.                          *)
LEMMA RollbackShapeStep == IInv /\ [Next]_vars => (call'.op = "rollback" =>
             /\ call'.from..NUnits \subseteq unsettled'
             /\ call'.from <= call'.at
             /\ call'.stage = "cut_back" => call'.at \in Unit
             /\ call'.todo # {} => call'.stage = "cut_back")
<1> SUFFICES ASSUME IInv, [Next]_vars, call'.op = "rollback"
      PROVE  /\ call'.from..NUnits \subseteq unsettled'
             /\ call'.from <= call'.at
             /\ call'.stage = "cut_back" => call'.at \in Unit
             /\ call'.todo # {} => call'.stage = "cut_back"
  OBVIOUS
<1>0. /\ stored \in [Unit -> UnitState] /\ states \in [Unit -> UnitState]
      /\ call.op = "promote" => call \in Promotion
      /\ call.op = "rollback" => /\ call \in Rollback
                                 /\ call.from..NUnits \subseteq unsettled
                                 /\ call.from \in Unit /\ call.at \in Nat
                                 /\ call.from <= call.at
                                 /\ call.stage = "cut_back" => call.at \in Unit
                                 /\ call.todo # {} => call.stage = "cut_back"
                                 /\ \A x \in Unit : call.from <= x /\ (x < call.at \/ (x = call.at /\ call.stage = "cut_back")) =>
                                      ~Routable(states[x]) /\ states[x] = stored[x]
                                 /\ call # Down
      /\ NUnits \in Nat \ {0} /\ None \notin Revision
      /\ UnitOf \in [Capability -> Unit]
  BY Calls, CutoverAssumption
  DEF IInv, TypeOK, Progress, RollbackSoFar, CacheAgrees, Rollback, Unit, Down
<1>1. CASE Start
  BY <1>0, <1>1 DEF Start, histories, Idle, Down, Promotion, Rollback, Routable, Unit
<1>2. CASE Crash
  BY <1>0, <1>2 DEF Crash, Is, histories, Idle, Down, Promotion, Rollback, Routable, Unit
<1>3. CASE PromoteConfigure
  BY <1>0, <1>3 DEF PromoteConfigure, SavePolicy, Configurable, Configured, Promoting, histories, Idle, Down, Promotion, Rollback, Routable, Unit
<1>4. CASE PromoteFails
  BY <1>0, <1>4 DEF PromoteFails, histories, Idle, Down, Promotion, Rollback, Routable, Unit
<1>5. CASE PromoteSave
  BY <1>0, <1>5 DEF PromoteSave, Save, Is, histories, Idle, Down, Promotion, Rollback, Routable, Unit
<1>6. CASE PromoteSaveFails
  BY <1>0, <1>6 DEF PromoteSaveFails, SaveFails, Is, histories, Idle, Down, Promotion, Rollback, Routable, Unit
<1>7. CASE RollbackSkip
  BY <1>0, <1>7 DEF RollbackSkip, Reaches, RollingBack, UnitState, Status, histories, Idle, Down, Promotion, Rollback, Routable, Unit
<1>8. CASE RollbackCutBack
  BY <1>0, <1>8 DEF RollbackCutBack, CutBack, SavePolicy, Configured, RollingBack, histories, Idle, Down, Promotion, Rollback, Routable, Unit
<1>9. CASE RollbackCutBackFails
  BY <1>0, <1>9 DEF RollbackCutBackFails, histories, Idle, Down, Promotion, Rollback, Routable, Unit
<1>10. CASE RollbackNext
  BY <1>0, <1>10 DEF RollbackNext, RollingBack, histories, Idle, Down, Promotion, Rollback, Routable, Unit
<1>11. CASE FinishRollback
  BY <1>0, <1>11 DEF FinishRollback, histories, Idle, Down, Promotion, Rollback, Routable, Unit
<1>12. ASSUME NEW u \in Unit, Stabilize(u)
      PROVE  /\ call'.from..NUnits \subseteq unsettled'
             /\ call'.from <= call'.at
             /\ call'.stage = "cut_back" => call'.at \in Unit
             /\ call'.todo # {} => call'.stage = "cut_back"
  BY <1>0, <1>12 DEF Stabilize, Save, SaveFails, Is, histories, Idle, Down, Promotion, Rollback, Routable, Unit
<1>13. ASSUME NEW u \in Unit, StartRollback(u)
      PROVE  /\ call'.from..NUnits \subseteq unsettled'
             /\ call'.from <= call'.at
             /\ call'.stage = "cut_back" => call'.at \in Unit
             /\ call'.todo # {} => call'.stage = "cut_back"
  BY <1>0, <1>13 DEF StartRollback, RollbackFrom, RollingBack, histories, Idle, Down, Promotion, Rollback, Routable, Unit
<1>14. ASSUME NEW u \in Unit, RollbackSave(u)
      PROVE  /\ call'.from..NUnits \subseteq unsettled'
             /\ call'.from <= call'.at
             /\ call'.stage = "cut_back" => call'.at \in Unit
             /\ call'.todo # {} => call'.stage = "cut_back"
  BY <1>0, <1>14 DEF RollbackSave, Reaches, Save, Is, RollingBack, histories, Idle, Down, Promotion, Rollback, Routable, Unit
<1>15. ASSUME NEW u \in Unit, RollbackSaveFails(u)
      PROVE  /\ call'.from..NUnits \subseteq unsettled'
             /\ call'.from <= call'.at
             /\ call'.stage = "cut_back" => call'.at \in Unit
             /\ call'.todo # {} => call'.stage = "cut_back"
  BY <1>0, <1>15 DEF RollbackSaveFails, Reaches, SaveFails, Is, histories, Idle, Down, Promotion, Rollback, Routable, Unit
<1>16. ASSUME NEW u \in Unit, NEW r \in Revision, Promote(u, r)
      PROVE  /\ call'.from..NUnits \subseteq unsettled'
             /\ call'.from <= call'.at
             /\ call'.stage = "cut_back" => call'.at \in Unit
             /\ call'.todo # {} => call'.stage = "cut_back"
  BY <1>0, <1>16 DEF Promote, Promotable, Promoting, histories, Idle, Down, Promotion, Rollback, Routable, Unit
<1>17. ASSUME NEW c \in Capability, NEW healthy \in BOOLEAN, SetHealth(c, healthy)
      PROVE  /\ call'.from..NUnits \subseteq unsettled'
             /\ call'.from <= call'.at
             /\ call'.stage = "cut_back" => call'.at \in Unit
             /\ call'.todo # {} => call'.stage = "cut_back"
  BY <1>0, <1>17 DEF SetHealth, SavePolicy, histories, Idle, Down, Promotion, Rollback, Routable, Unit
<1>18. ASSUME NEW c \in Capability, NEW r \in Revision, Dispatch(c, r)
      PROVE  /\ call'.from..NUnits \subseteq unsettled'
             /\ call'.from <= call'.at
             /\ call'.stage = "cut_back" => call'.at \in Unit
             /\ call'.todo # {} => call'.stage = "cut_back"
  BY <1>0, <1>18 DEF Dispatch, Admitted, Decides, Configured, histories, Idle, Down, Promotion, Rollback, Routable, Unit
<1>19. ASSUME NEW c \in Capability, NEW r \in Revision, DispatchFallsBack(c, r)
      PROVE  /\ call'.from..NUnits \subseteq unsettled'
             /\ call'.from <= call'.at
             /\ call'.stage = "cut_back" => call'.at \in Unit
             /\ call'.todo # {} => call'.stage = "cut_back"
  BY <1>0, <1>19 DEF DispatchFallsBack, Admitted, Decides, Configured, CutBack, SavePolicy, RollbackFrom, RollingBack, histories, Idle, Down, Promotion, Rollback, Routable, Unit
<1>20. ASSUME NEW c \in Capability, NEW r \in Revision, DispatchFailsTwice(c, r)
      PROVE  /\ call'.from..NUnits \subseteq unsettled'
             /\ call'.from <= call'.at
             /\ call'.stage = "cut_back" => call'.at \in Unit
             /\ call'.todo # {} => call'.stage = "cut_back"
  BY <1>0, <1>20 DEF DispatchFailsTwice, Admitted, Decides, Configured, CutBack, SavePolicy, histories, Idle, Down, Promotion, Rollback, Routable, Unit
<1>21. ASSUME NEW c \in Capability, NEW r \in Revision, 
               NEW enabled \in BOOLEAN, NEW healthy \in BOOLEAN, Configure(c, r, enabled, healthy)
      PROVE  /\ call'.from..NUnits \subseteq unsettled'
             /\ call'.from <= call'.at
             /\ call'.stage = "cut_back" => call'.at \in Unit
             /\ call'.todo # {} => call'.stage = "cut_back"
  BY <1>0, <1>21 DEF Configure, Configurable, SavePolicy, Configured, histories, Idle, Down, Promotion, Rollback, Routable, Unit
<1>22. CASE UNCHANGED vars
  BY <1>0, <1>22 DEF vars, histories, Idle, Down, Promotion, Rollback, Routable, Unit
<1> QED
  BY <1>1, <1>2, <1>3, <1>4, <1>5, <1>6, <1>7, <1>8, <1>9, <1>10, <1>11, <1>12,
     <1>13, <1>14, <1>15, <1>16, <1>17, <1>18, <1>19, <1>20, <1>21, <1>22
  DEF Next

(* A rollback in progress has saved every unit it has passed.              *)
LEMMA RollbackPassedStep == IInv /\ [Next]_vars => (call'.op = "rollback" =>
    \A y \in Unit : call'.from <= y /\ (y < call'.at \/ (y = call'.at /\ call'.stage = "cut_back")) =>
        ~Routable(states'[y]) /\ states'[y] = stored'[y])
<1> SUFFICES ASSUME IInv, [Next]_vars, call'.op = "rollback", NEW y \in Unit, call'.from <= y,
                    y < call'.at \/ (y = call'.at /\ call'.stage = "cut_back")
             PROVE  ~Routable(states'[y]) /\ states'[y] = stored'[y]
  OBVIOUS
<1>0. /\ stored \in [Unit -> UnitState] /\ states \in [Unit -> UnitState]
      /\ call.op = "promote" => call \in Promotion
      /\ call.op = "rollback" => /\ call \in Rollback
                                 /\ call.from..NUnits \subseteq unsettled
                                 /\ call.from \in Unit /\ call.at \in Nat
                                 /\ call.from <= call.at
                                 /\ call.stage = "cut_back" => call.at \in Unit
                                 /\ call.todo # {} => call.stage = "cut_back"
                                 /\ \A x \in Unit : call.from <= x /\ (x < call.at \/ (x = call.at /\ call.stage = "cut_back")) =>
                                      ~Routable(states[x]) /\ states[x] = stored[x]
                                 /\ call # Down
      /\ NUnits \in Nat \ {0} /\ None \notin Revision
      /\ UnitOf \in [Capability -> Unit]
      /\ states[y].status = "pending" /\ call # Down => stored[y].status = "pending"
  BY Calls, CutoverAssumption
  DEF IInv, TypeOK, Progress, RollbackSoFar, CacheAgrees, Rollback, Unit, Down
<1>1. CASE Start
  BY <1>0, <1>1 DEF Start, histories, Idle, Down, Promotion, Rollback, Routable, Unit
<1>2. CASE Crash
  BY <1>0, <1>2 DEF Crash, Is, histories, Idle, Down, Promotion, Rollback, Routable, Unit
<1>3. CASE PromoteConfigure
  BY <1>0, <1>3 DEF PromoteConfigure, SavePolicy, Configurable, Configured, Promoting, histories, Idle, Down, Promotion, Rollback, Routable, Unit
<1>4. CASE PromoteFails
  BY <1>0, <1>4 DEF PromoteFails, histories, Idle, Down, Promotion, Rollback, Routable, Unit
<1>5. CASE PromoteSave
  BY <1>0, <1>5 DEF PromoteSave, Save, Is, histories, Idle, Down, Promotion, Rollback, Routable, Unit
<1>6. CASE PromoteSaveFails
  BY <1>0, <1>6 DEF PromoteSaveFails, SaveFails, Is, histories, Idle, Down, Promotion, Rollback, Routable, Unit
<1>7. CASE RollbackSkip
  <2>1. /\ call.op = "rollback" /\ UNCHANGED <<stored, states>>
        /\ states[call.at].status = "pending"
        /\ call'.from = call.from /\ call'.at = call.at + 1 /\ call'.stage = "save"
    BY <1>7 DEF RollbackSkip, Reaches, RollingBack
  <2>2. CASE y = call.at
    <3>1. states[y] = [status |-> "pending", revision |-> None] /\ stored[y] = states[y]
      BY <1>0, <2>1, <2>2 DEF UnitState, Status
    <3> QED
      BY <2>1, <3>1 DEF Routable
  <2>3. CASE y < call.at
    BY <1>0, <2>1, <2>3
  <2> QED
    BY <1>0, <2>1, <2>2, <2>3 DEF Unit
<1>8. CASE RollbackCutBack
  BY <1>0, <1>8 DEF RollbackCutBack, CutBack, SavePolicy, Configured, RollingBack, histories, Idle, Down, Promotion, Rollback, Routable, Unit
<1>9. CASE RollbackCutBackFails
  BY <1>0, <1>9 DEF RollbackCutBackFails, histories, Idle, Down, Promotion, Rollback, Routable, Unit
<1>10. CASE RollbackNext
  BY <1>0, <1>10 DEF RollbackNext, RollingBack, histories, Idle, Down, Promotion, Rollback, Routable, Unit
<1>11. CASE FinishRollback
  BY <1>0, <1>11 DEF FinishRollback, histories, Idle, Down, Promotion, Rollback, Routable, Unit
<1>12. ASSUME NEW u \in Unit, Stabilize(u)
      PROVE  ~Routable(states'[y]) /\ states'[y] = stored'[y]
  BY <1>0, <1>12 DEF Stabilize, Save, SaveFails, Is, histories, Idle, Down, Promotion, Rollback, Routable, Unit
<1>13. ASSUME NEW u \in Unit, StartRollback(u)
      PROVE  ~Routable(states'[y]) /\ states'[y] = stored'[y]
  BY <1>0, <1>13 DEF StartRollback, RollbackFrom, RollingBack, histories, Idle, Down, Promotion, Rollback, Routable, Unit
<1>14. ASSUME NEW u \in Unit, RollbackSave(u)
      PROVE  ~Routable(states'[y]) /\ states'[y] = stored'[y]
  BY <1>0, <1>14 DEF RollbackSave, Reaches, Save, Is, RollingBack, histories, Idle, Down, Promotion, Rollback, Routable, Unit
<1>15. ASSUME NEW u \in Unit, RollbackSaveFails(u)
      PROVE  ~Routable(states'[y]) /\ states'[y] = stored'[y]
  BY <1>0, <1>15 DEF RollbackSaveFails, Reaches, SaveFails, Is, histories, Idle, Down, Promotion, Rollback, Routable, Unit
<1>16. ASSUME NEW u \in Unit, NEW r \in Revision, Promote(u, r)
      PROVE  ~Routable(states'[y]) /\ states'[y] = stored'[y]
  BY <1>0, <1>16 DEF Promote, Promotable, Promoting, histories, Idle, Down, Promotion, Rollback, Routable, Unit
<1>17. ASSUME NEW c \in Capability, NEW healthy \in BOOLEAN, SetHealth(c, healthy)
      PROVE  ~Routable(states'[y]) /\ states'[y] = stored'[y]
  BY <1>0, <1>17 DEF SetHealth, SavePolicy, histories, Idle, Down, Promotion, Rollback, Routable, Unit
<1>18. ASSUME NEW c \in Capability, NEW r \in Revision, Dispatch(c, r)
      PROVE  ~Routable(states'[y]) /\ states'[y] = stored'[y]
  BY <1>0, <1>18 DEF Dispatch, Admitted, Decides, Configured, histories, Idle, Down, Promotion, Rollback, Routable, Unit
<1>19. ASSUME NEW c \in Capability, NEW r \in Revision, DispatchFallsBack(c, r)
      PROVE  ~Routable(states'[y]) /\ states'[y] = stored'[y]
  BY <1>0, <1>19 DEF DispatchFallsBack, Admitted, Decides, Configured, CutBack, SavePolicy, RollbackFrom, RollingBack, histories, Idle, Down, Promotion, Rollback, Routable, Unit
<1>20. ASSUME NEW c \in Capability, NEW r \in Revision, DispatchFailsTwice(c, r)
      PROVE  ~Routable(states'[y]) /\ states'[y] = stored'[y]
  BY <1>0, <1>20 DEF DispatchFailsTwice, Admitted, Decides, Configured, CutBack, SavePolicy, histories, Idle, Down, Promotion, Rollback, Routable, Unit
<1>21. ASSUME NEW c \in Capability, NEW r \in Revision, 
               NEW enabled \in BOOLEAN, NEW healthy \in BOOLEAN, Configure(c, r, enabled, healthy)
      PROVE  ~Routable(states'[y]) /\ states'[y] = stored'[y]
  BY <1>0, <1>21 DEF Configure, Configurable, SavePolicy, Configured, histories, Idle, Down, Promotion, Rollback, Routable, Unit
<1>22. CASE UNCHANGED vars
  BY <1>0, <1>22 DEF vars, histories, Idle, Down, Promotion, Rollback, Routable, Unit
<1> QED
  BY <1>1, <1>2, <1>3, <1>4, <1>5, <1>6, <1>7, <1>8, <1>9, <1>10, <1>11, <1>12,
     <1>13, <1>14, <1>15, <1>16, <1>17, <1>18, <1>19, <1>20, <1>21, <1>22
  DEF Next

(* Every step of the coordinator preserves the invariant.                  *)
LEMMA InvariantStep == IInv /\ [Next]_vars => IInv'
<1> SUFFICES ASSUME IInv, [Next]_vars PROVE IInv'
  OBVIOUS
<1>0. TypeOK /\ Progress
  BY DEF IInv
<1>1. TypeOK'
  <2>1. (stored \in [Unit -> UnitState] /\ states \in [Unit -> UnitState])'
    BY <1>0, TablesStep
  <2>2. (policy \in [Capability -> Policy \cup {None}])'
    BY <1>0, PolicyTypeStep
  <2>3. (call \in {Idle, Down} \cup Promotion \cup Rollback)'
    BY <1>0, CallTypeStep
  <2>4. (served \in [Unit -> SUBSET Revision] /\ fenced \subseteq Unit /\ unsettled \subseteq Unit)'
    BY <1>0, HistoryTypeStep
  <2> QED
    BY <2>1, <2>2, <2>3, <2>4 DEF TypeOK
<1>2. OrderedUnits'
  BY StoredOrderStep, StatesOrderStep DEF OrderedUnits
<1>3. Progress'
  BY PromotionStep, RollbackShapeStep, RollbackPassedStep DEF Progress, RollbackSoFar, Routable
<1> QED
  BY <1>1, <1>2, <1>3, AgreeStep, CacheStep, FencedStep, ServedStep DEF IInv

THEOREM Invariant == Spec => []IInv
<1> QED
  BY InitInvariant, InvariantStep, PTL DEF Spec

(* Units, policies and calls have their types: a unit that has left pending*)
(* names a revision.                                                       *)
THEOREM TypeCorrect == Spec => []TypeOK
<1>1. IInv => TypeOK
  BY DEF IInv
<1> QED
  BY <1>1, Invariant, PTL

(* A promoted unit has policies for every capability, all of its revision. *)
THEOREM Agreement == Spec => []PoliciesAgree
<1>1. IInv => PoliciesAgree
  BY DEF IInv
<1> QED
  BY <1>1, Invariant, PTL

(* Units are routable in order, in memory and on disk, but for those that a*)
(* failed write or an open rollback has left unsettled.                    *)
THEOREM Order == Spec => []OrderedUnits
<1>1. IInv => OrderedUnits
  BY DEF IInv
<1> QED
  BY <1>1, Invariant, PTL

(* A completed rollback holds through restarts until the next promotion.   *)
THEOREM FenceHolds == Spec => []RollbackHolds
<1>1. IInv => RollbackHolds
  BY DEF IInv
<1> QED
  BY <1>1, Invariant, PTL

LEMMA PinnedRevision == ASSUME NEW u \in Unit, NEW r \in Revision,
                               \A c \in Capabilities(u) : Configured(c, r)
                        PROVE  Pinned(u) = r
<1>1. PICK d \in Capabilities(u) : TRUE
  BY CutoverAssumption DEF Capabilities
<1>2. \A s \in Revision : (\A c \in Capabilities(u) : Configured(c, s)) => s = r
  BY <1>1 DEF Configured
<1> QED
  BY <1>2 DEF Pinned

LEMMA PinnedOrNone == ASSUME NEW u \in Unit
                      PROVE  \/ Pinned(u) = None
                             \/ Pinned(u) \in Revision /\ \A c \in Capabilities(u) : Configured(c, Pinned(u))
BY DEF Pinned

(* The revision a unit is pinned to does not change.                       *)
LEMMA PinnedStays == ASSUME IInv, [Next]_vars, NEW u \in Unit
                     PROVE  \/ Pinned(u)' = Pinned(u)
                            \/ Pinned(u) = None /\ Pinned(u)' \in Revision
<1>1. CASE Pinned(u) = None
  BY <1>1 DEF Pinned
<1>2. CASE Pinned(u) \in Revision /\ \A c \in Capabilities(u) : Configured(c, Pinned(u))
  <2>1. PICK r \in Revision : r = Pinned(u)
    BY <1>2
  <2>2. \A c \in Capabilities(u) : Configured(c, r)'
    BY <1>2, <2>1, PinStep DEF IInv, Configured, Capabilities
  <2>3. PICK d \in Capabilities(u) : TRUE
    BY CutoverAssumption DEF Capabilities
  <2>4. \A s \in Revision : (\A c \in Capabilities(u) : Configured(c, s)') => s = r
    BY <2>2, <2>3 DEF Configured
  <2>5. Pinned(u)' = r
    BY <2>2, <2>4 DEF Pinned
  <2> QED
    BY <2>1, <2>5
<1> QED
  BY <1>1, <1>2, PinnedOrNone

(* A step writes the policy of at most one capability.                     *)
LEMMA OneAtATime == TypeOK /\ [Next]_vars =>
             \/ \E e \in Capability, s \in Revision : Dispatch(e, s)
             \/ /\ UNCHANGED served
                /\ \E e \in Capability : \A d \in Capability \ {e} : policy'[d] = policy[d]
<1> SUFFICES ASSUME TypeOK, [Next]_vars
      PROVE  \/ \E e \in Capability, s \in Revision : Dispatch(e, s)
             \/ /\ UNCHANGED served
                /\ \E e \in Capability : \A d \in Capability \ {e} : policy'[d] = policy[d]
  OBVIOUS
<1>0. /\ policy \in [Capability -> Policy \cup {None}]
      /\ call.op = "promote" => call.todo \subseteq Capability
      /\ call.op = "rollback" => call.todo \subseteq Capability
      /\ \E c \in Capability : TRUE
  BY Calls, EveryUnitServes DEF TypeOK, Promotion, Rollback
<1>1. CASE Start
  BY <1>0, <1>1 DEF Start, histories
<1>2. CASE Crash
  BY <1>0, <1>2 DEF Crash, Is, histories
<1>3. CASE PromoteConfigure
  <2>1. PICK c \in call.todo :
          /\ Configurable(c, call.revision)
          /\ SavePolicy(c, call.revision, TRUE, TRUE)
          /\ call' = Promoting(call.unit, call.revision, call.todo \ {c})
    BY <1>3 DEF PromoteConfigure
  <2>2. c \in Capability /\ \A d \in Capability \ {c} : policy'[d] = policy[d]
    BY <1>0, <2>1, <1>3 DEF PromoteConfigure, SavePolicy
  <2> QED
    BY <2>2, <1>3 DEF PromoteConfigure, histories
<1>4. CASE PromoteFails
  BY <1>0, <1>4 DEF PromoteFails, histories
<1>5. CASE PromoteSave
  BY <1>0, <1>5 DEF PromoteSave, Save, Is, histories
<1>6. CASE PromoteSaveFails
  BY <1>0, <1>6 DEF PromoteSaveFails, SaveFails, Is, histories
<1>7. CASE RollbackSkip
  BY <1>0, <1>7 DEF RollbackSkip, Reaches, RollingBack, UnitState, Status, histories
<1>8. CASE RollbackCutBack
  <2>1. PICK c \in call.todo :
          IF Configured(c, states[call.at].revision) THEN CutBack(c) ELSE UNCHANGED policy
    BY <1>8 DEF RollbackCutBack
  <2>2. c \in Capability /\ \A d \in Capability \ {c} : policy'[d] = policy[d]
    BY <1>0, <2>1, <1>8 DEF RollbackCutBack, CutBack, SavePolicy
  <2> QED
    BY <2>2, <1>8 DEF RollbackCutBack, histories
<1>9. CASE RollbackCutBackFails
  BY <1>0, <1>9 DEF RollbackCutBackFails, histories
<1>10. CASE RollbackNext
  BY <1>0, <1>10 DEF RollbackNext, RollingBack, histories
<1>11. CASE FinishRollback
  BY <1>0, <1>11 DEF FinishRollback, histories
<1>12. ASSUME NEW u \in Unit, Stabilize(u)
      PROVE  \/ \E e \in Capability, s \in Revision : Dispatch(e, s)
             \/ /\ UNCHANGED served
                /\ \E e \in Capability : \A d \in Capability \ {e} : policy'[d] = policy[d]
  BY <1>0, <1>12 DEF Stabilize, Save, SaveFails, Is, histories
<1>13. ASSUME NEW u \in Unit, StartRollback(u)
      PROVE  \/ \E e \in Capability, s \in Revision : Dispatch(e, s)
             \/ /\ UNCHANGED served
                /\ \E e \in Capability : \A d \in Capability \ {e} : policy'[d] = policy[d]
  BY <1>0, <1>13 DEF StartRollback, RollbackFrom, RollingBack, histories
<1>14. ASSUME NEW u \in Unit, RollbackSave(u)
      PROVE  \/ \E e \in Capability, s \in Revision : Dispatch(e, s)
             \/ /\ UNCHANGED served
                /\ \E e \in Capability : \A d \in Capability \ {e} : policy'[d] = policy[d]
  BY <1>0, <1>14 DEF RollbackSave, Reaches, Save, Is, RollingBack, histories
<1>15. ASSUME NEW u \in Unit, RollbackSaveFails(u)
      PROVE  \/ \E e \in Capability, s \in Revision : Dispatch(e, s)
             \/ /\ UNCHANGED served
                /\ \E e \in Capability : \A d \in Capability \ {e} : policy'[d] = policy[d]
  BY <1>0, <1>15 DEF RollbackSaveFails, Reaches, SaveFails, Is, histories
<1>16. ASSUME NEW u \in Unit, NEW r \in Revision, Promote(u, r)
      PROVE  \/ \E e \in Capability, s \in Revision : Dispatch(e, s)
             \/ /\ UNCHANGED served
                /\ \E e \in Capability : \A d \in Capability \ {e} : policy'[d] = policy[d]
  BY <1>0, <1>16 DEF Promote, Promotable, Promoting, histories
<1>17. ASSUME NEW c \in Capability, NEW healthy \in BOOLEAN, SetHealth(c, healthy)
      PROVE  \/ \E e \in Capability, s \in Revision : Dispatch(e, s)
             \/ /\ UNCHANGED served
                /\ \E e \in Capability : \A d \in Capability \ {e} : policy'[d] = policy[d]
  <2>1. \A d \in Capability \ {c} : policy'[d] = policy[d]
    BY <1>0, <1>17 DEF SetHealth, SavePolicy
  <2> QED
    BY <2>1, <1>17 DEF SetHealth, histories
<1>18. ASSUME NEW c \in Capability, NEW r \in Revision, Dispatch(c, r)
      PROVE  \/ \E e \in Capability, s \in Revision : Dispatch(e, s)
             \/ /\ UNCHANGED served
                /\ \E e \in Capability : \A d \in Capability \ {e} : policy'[d] = policy[d]
  BY <1>18
<1>19. ASSUME NEW c \in Capability, NEW r \in Revision, DispatchFallsBack(c, r)
      PROVE  \/ \E e \in Capability, s \in Revision : Dispatch(e, s)
             \/ /\ UNCHANGED served
                /\ \E e \in Capability : \A d \in Capability \ {e} : policy'[d] = policy[d]
  <2>1. \A d \in Capability \ {c} : policy'[d] = policy[d]
    BY <1>0, <1>19 DEF DispatchFallsBack, SavePolicy, CutBack
  <2> QED
    BY <2>1, <1>19 DEF DispatchFallsBack, histories
<1>20. ASSUME NEW c \in Capability, NEW r \in Revision, DispatchFailsTwice(c, r)
      PROVE  \/ \E e \in Capability, s \in Revision : Dispatch(e, s)
             \/ /\ UNCHANGED served
                /\ \E e \in Capability : \A d \in Capability \ {e} : policy'[d] = policy[d]
  <2>1. \A d \in Capability \ {c} : policy'[d] = policy[d]
    BY <1>0, <1>20 DEF DispatchFailsTwice, SavePolicy, CutBack
  <2> QED
    BY <2>1, <1>20 DEF DispatchFailsTwice, histories
<1>21. ASSUME NEW c \in Capability, NEW r \in Revision, 
               NEW enabled \in BOOLEAN, NEW healthy \in BOOLEAN, Configure(c, r, enabled, healthy)
      PROVE  \/ \E e \in Capability, s \in Revision : Dispatch(e, s)
             \/ /\ UNCHANGED served
                /\ \E e \in Capability : \A d \in Capability \ {e} : policy'[d] = policy[d]
  <2>1. \A d \in Capability \ {c} : policy'[d] = policy[d]
    BY <1>0, <1>21 DEF Configure, SavePolicy
  <2> QED
    BY <2>1, <1>21 DEF Configure, histories
<1>22. CASE UNCHANGED vars
  BY <1>0, <1>22 DEF vars, histories
<1> QED
  BY <1>1, <1>2, <1>3, <1>4, <1>5, <1>6, <1>7, <1>8, <1>9, <1>10, <1>11, <1>12,
     <1>13, <1>14, <1>15, <1>16, <1>17, <1>18, <1>19, <1>20, <1>21, <1>22
  DEF Next

LEMMA PinnedPrimed == ASSUME NEW u \in Unit, NEW r \in Revision,
                             \A c \in Capabilities(u) : Configured(c, r)'
                      PROVE  Pinned(u)' = r
<1>1. PICK d \in Capabilities(u) : TRUE
  BY CutoverAssumption DEF Capabilities
<1>2. \A s \in Revision : (\A c \in Capabilities(u) : Configured(c, s)') => s = r
  BY <1>1 DEF Configured
<1> QED
  BY <1>2 DEF Pinned

(* Writing the policy of one capability leaves the other units pinned as   *)
(* they were.                                                              *)
LEMMA OthersStayPinned == ASSUME NEW c \in Capability, NEW u \in Unit, UnitOf[c] # u,
                                 \A d \in Capability \ {c} : policy'[d] = policy[d]
                          PROVE  Pinned(u)' = Pinned(u)
<1>1. \A r : (\A d \in Capabilities(u) : Configured(d, r)') <=> (\A d \in Capabilities(u) : Configured(d, r))
  BY DEF Capabilities, Configured
<1>2. CASE \E r \in Revision : \A d \in Capabilities(u) : Configured(d, r)
  <2>1. PICK r \in Revision : \A d \in Capabilities(u) : Configured(d, r)
    BY <1>2
  <2>2. Pinned(u) = r
    BY <2>1, PinnedRevision
  <2>3. \A d \in Capabilities(u) : Configured(d, r)'
    BY <1>1, <2>1
  <2> QED
    BY <2>2, <2>3, PinnedPrimed
<1>3. CASE ~\E r \in Revision : \A d \in Capabilities(u) : Configured(d, r)
  BY <1>1, <1>3 DEF Pinned
<1> QED
  BY <1>2, <1>3

(* Each step is a step of the abstract pin, or none.                       *)
LEMMA PinRefines == IInv /\ [Next]_vars => [Pin!Next]_<<[u \in Unit |-> Pinned(u)], served>>
<1> SUFFICES ASSUME IInv, [Next]_vars
             PROVE  [Pin!Next]_<<[u \in Unit |-> Pinned(u)], served>>
  OBVIOUS
<1> DEFINE pin == [u \in Unit |-> Pinned(u)]
<1>1. ASSUME NEW c \in Capability, NEW r \in Revision, Dispatch(c, r)
      PROVE  Pin!Serve(UnitOf[c], r)
  <2>1. /\ UnitOf[c] \in Unit
        /\ Routable(states[UnitOf[c]]) /\ call # Down /\ Configured(c, r)
    BY <1>1, CutoverAssumption DEF Dispatch, Admitted, Decides, Idle, Down
  <2>2. \A e \in Capabilities(UnitOf[c]) : Configured(e, r)
    BY <2>1 DEF IInv, PoliciesAgree, Routable, Configured, Capabilities
  <2>3. pin[UnitOf[c]] = r
    BY <2>1, <2>2, PinnedRevision
  <2>4. UNCHANGED policy
    BY <1>1 DEF Dispatch
  <2>5. \A u \in Unit : Pinned(u)' = Pinned(u)
    BY <2>4 DEF Pinned, Configured
  <2>6. pin' = pin
    BY <2>5
  <2> QED
    BY <1>1, <2>3, <2>6 DEF Pin!Serve, Dispatch
<1>2. ASSUME UNCHANGED served, NEW c \in Capability, \A d \in Capability \ {c} : policy'[d] = policy[d]
      PROVE  \/ UNCHANGED <<pin, served>>
             \/ \E r \in Revision : Pin!Pin(UnitOf[c], r)
  <2> DEFINE u == UnitOf[c]
  <2>1. u \in Unit
    BY CutoverAssumption
  <2>2. \A w \in Unit \ {u} : Pinned(w)' = Pinned(w)
    BY <1>2, OthersStayPinned
  <2>3. CASE Pinned(u)' = Pinned(u)
    BY <1>2, <2>2, <2>3
  <2>4. CASE Pinned(u) = None /\ Pinned(u)' \in Revision
    <3>1. pin' = [pin EXCEPT ![u] = Pinned(u)']
      BY <2>1, <2>2
    <3>2. pin[u] = None
      BY <2>1, <2>4
    <3> QED
      BY <1>2, <2>4, <3>1, <3>2 DEF Pin!Pin
  <2> QED
    BY <2>1, <2>3, <2>4, PinnedStays
<1>3. TypeOK
  BY DEF IInv
<1> QED
  BY <1>1, <1>2, <1>3, OneAtATime, CutoverAssumption DEF Pin!Next

(* A unit is served under one revision for ever.                           *)
THEOREM Implementation == Spec => ImplementsPin
<1>1. Init => Pin!Init
  <2> SUFFICES ASSUME Init PROVE Pin!Init
    OBVIOUS
  <2>1. \A c \in Capability, r \in Revision : ~Configured(c, r)
    BY DEF Init, Configured
  <2>2. \A u \in Unit : Pinned(u) = None
    BY <2>1, CutoverAssumption DEF Pinned, Capabilities
  <2> QED
    BY <2>2 DEF Init, Pin!Init
<1> QED
  BY <1>1, Invariant, PinRefines, PTL DEF Spec, ImplementsPin, Pin!Spec
=============================================================================
