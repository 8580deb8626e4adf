------------------------------- MODULE Cutover -------------------------------
(***************************************************************************)
(* The ordered cutover of capabilities from the legacy product to Platform *)
(* (continuity/cutover.py, cutover_sqlite.py) and the traffic policies it  *)
(* drives (continuity/traffic.py, traffic_sqlite.py): one coordinator over *)
(* two SQLite files.  A load or a save is one transaction of one file, and *)
(* a call makes many of them: the process may die between any two, and any *)
(* save may fail (a locked or full database), which raises out of the call.*)
(*                                                                         *)
(* A routing key's bucket, the traffic percentage, the rollback window and *)
(* the active-revision check of traffic.py only ever turn a platform route *)
(* into a legacy one, which changes no state: a request that they send to  *)
(* legacy is a stuttering step.  The capabilities of a unit are taken in   *)
(* any order.  The audit tables, which nothing reads back, are left out.   *)
(***************************************************************************)
EXTENDS Integers

CONSTANTS
    NUnits,      \* CUTOVER_UNITS, by position
    Capability,  \* TRAFFIC_CAPABILITIES
    UnitOf,      \* CUTOVER_UNIT_CAPABILITIES: the unit of a capability
    Revision,    \* deployment revisions
    None         \* no policy, no revision

Unit == 1..NUnits
Policy == [revision : Revision, enabled : BOOLEAN, healthy : BOOLEAN]

ASSUME CutoverAssumption ==
    /\ NUnits \in Nat \ {0}
    /\ UnitOf \in [Capability -> Unit]
    /\ \A u \in Unit : \E c \in Capability : UnitOf[c] = u
    /\ None \notin Revision \cup Policy
    /\ Revision # {}

Capabilities(u) == {c \in Capability : UnitOf[c] = u}

VARIABLES
    stored,  \* platform_cutover_units: the state of each unit on disk
    states,  \* CapabilityCutoverCoordinator._states, the same in memory
    policy,  \* platform_traffic_policies: the policy of each capability
    call,    \* the call the coordinator is executing
    served,  \* history: revisions under which Platform answered for a unit
    fenced,  \* history: units a completed rollback covers, not promoted since
    unsettled \* history: units whose last save failed, and units that a
              \* rollback has started on and none has finished since

vars == <<stored, states, policy, call, served, fenced, unsettled>>
histories == <<served, fenced, unsettled>>

Status == {"pending", "active", "stable", "rolled_back"}
\* CutoverUnitState: a unit that has left pending names a revision.
UnitState ==
    [status : {"pending"}, revision : {None}] \cup [status : Status \ {"pending"}, revision : Revision]

Idle == [op |-> "idle"]
Down == [op |-> "down"]

\* promote has these capabilities left to configure.
Promotion == [op : {"promote"}, unit : Unit, revision : Revision, todo : SUBSET Capability]
\* rollback from a unit on has reached a unit; it is about to save it, or has
\* saved it and has these capabilities left to cut back.
Rollback == [op : {"rollback"}, from : Unit, at : 1..(NUnits + 1), stage : {"save", "cut_back"},
             todo : SUBSET Capability]

Promoting(u, r, todo) == [op |-> "promote", unit |-> u, revision |-> r, todo |-> todo]
RollingBack(from, at, stage, todo) ==
    [op |-> "rollback", from |-> from, at |-> at, stage |-> stage, todo |-> todo]

Routable(state) == state.status \in {"active", "stable"}
Is(status, revision) == [status |-> status, revision |-> revision]

----------------------------------------------------------------------------
\* An empty installation: no row, every unit pending.
Init ==
    /\ stored = [u \in Unit |-> Is("pending", None)]
    /\ states = stored
    /\ policy = [c \in Capability |-> None]
    /\ call = Idle
    /\ served = [u \in Unit |-> {}]
    /\ fenced = {}
    /\ unsettled = {}

\* CapabilityCutoverCoordinator.__init__ reads every unit.
Start ==
    /\ call = Down
    /\ call' = Idle
    /\ states' = stored
    /\ UNCHANGED <<stored, policy, histories>>

\* The process dies, in a call or between calls, and its memory with it.
Crash ==
    /\ call # Down
    /\ call' = Down
    /\ states' = [u \in Unit |-> Is("pending", None)]
    /\ UNCHANGED <<stored, policy, histories>>

----------------------------------------------------------------------------
(* The traffic controller. *)

Configured(c, r) == policy[c] # None /\ policy[c].revision = r

\* configure refuses to change the revision of a configured capability.
Configurable_Any(c, r) == TRUE

Configurable(c, r) == policy[c] = None \/ Configured(c, r)

SavePolicy(c, r, enabled, healthy) ==
    policy' = [policy EXCEPT ![c] = [revision |-> r, enabled |-> enabled, healthy |-> healthy]]

\* An operator configures a capability on the controller itself.
Configure(c, r, enabled, healthy) ==
    /\ call = Idle
    /\ Configurable(c, r)
    /\ SavePolicy(c, r, enabled, healthy)
    /\ UNCHANGED <<stored, states, call, histories>>

\* set_health: an unhealthy capability is disabled too.
SetHealth(c, healthy) ==
    /\ call = Idle
    /\ policy[c] # None
    /\ SavePolicy(c, policy[c].revision, policy[c].enabled /\ healthy, healthy)
    /\ UNCHANGED <<stored, states, call, histories>>

\* record_failure cuts a capability back to legacy.
CutBack(c) == SavePolicy(c, policy[c].revision, FALSE, FALSE)

\* decide lets a request through to Platform.
Decides_AnyRevision(c, r) == policy[c] # None /\ policy[c].enabled /\ policy[c].healthy

Decides(c, r) == Configured(c, r) /\ policy[c].enabled /\ policy[c].healthy

----------------------------------------------------------------------------
(* promote and stabilize. *)

\* The coordinator's _save: the memory first, then the file, if it can be
\* written.
Save(u, state) ==
    /\ states' = [states EXCEPT ![u] = state]
    /\ stored' = [stored EXCEPT ![u] = state]

SaveFails(u, state) ==
    /\ states' = [states EXCEPT ![u] = state]
    /\ UNCHANGED stored

\* A promotion of an active or stable unit returns or raises at once.
Promotable_AnyOrder(u) == ~Routable(states[u])

Promotable(u) ==
    /\ ~Routable(states[u])
    /\ \A v \in 1..(u - 1) : states[v].status = "stable"

Promote(u, r) ==
    /\ call = Idle
    /\ Promotable(u)
    /\ call' = Promoting(u, r, Capabilities(u))
    /\ UNCHANGED <<stored, states, policy, histories>>

PromoteConfigure ==
    /\ call.op = "promote"
    /\ \E c \in call.todo :
        /\ Configurable(c, call.revision)
        /\ SavePolicy(c, call.revision, TRUE, TRUE)
        /\ call' = Promoting(call.unit, call.revision, call.todo \ {c})
    /\ UNCHANGED <<stored, states, histories>>

\* configure raises, on a pinned revision or because the file cannot be
\* written, and promote with it.
PromoteFails ==
    /\ call.op = "promote"
    /\ call.todo # {}
    /\ call' = Idle
    /\ UNCHANGED <<stored, states, policy, histories>>

PromoteSave ==
    /\ call.op = "promote"
    /\ call.todo = {}
    /\ Save(call.unit, Is("active", call.revision))
    /\ fenced' = fenced \ {call.unit}
    /\ call' = Idle
    /\ UNCHANGED <<policy, served, unsettled>>

PromoteSaveFails ==
    /\ call.op = "promote"
    /\ call.todo = {}
    /\ SaveFails(call.unit, Is("active", call.revision))
    /\ fenced' = fenced \ {call.unit}
    /\ unsettled' = unsettled \cup {call.unit}
    /\ call' = Idle
    /\ UNCHANGED <<policy, served>>

Stabilize(u) ==
    /\ call = Idle
    /\ states[u].status = "active"
    /\ \/ /\ Save(u, Is("stable", states[u].revision))
          /\ UNCHANGED unsettled
       \/ /\ SaveFails(u, Is("stable", states[u].revision))
          /\ unsettled' = unsettled \cup {u}
    /\ UNCHANGED <<policy, call, served, fenced>>

----------------------------------------------------------------------------
(* rollback: unit after unit, from the given one to the last. *)

RollbackFrom(u) == RollingBack(u, u, "save", {})

StartRollback(u) ==
    /\ call = Idle
    /\ call' = RollbackFrom(u)
    /\ unsettled' = unsettled \cup u..NUnits
    /\ UNCHANGED <<stored, states, policy, served, fenced>>

\* The unit that the loop of rollback has reached, and not saved yet.
Reaches(u) == call.op = "rollback" /\ call.at = u /\ call.stage = "save"

RollbackSkip ==
    /\ \E u \in Unit : Reaches(u) /\ states[u].status = "pending"
    /\ call' = RollingBack(call.from, call.at + 1, "save", {})
    /\ UNCHANGED <<stored, states, policy, histories>>

RollbackSave_CacheOnly(u) ==
    /\ Reaches(u)
    /\ states[u].status # "pending"
    /\ SaveFails(u, Is("rolled_back", states[u].revision))
    /\ call' = RollingBack(call.from, u, "cut_back", Capabilities(u))
    /\ UNCHANGED <<policy, histories>>

RollbackSave(u) ==
    /\ Reaches(u)
    /\ states[u].status # "pending"
    /\ Save(u, Is("rolled_back", states[u].revision))
    /\ call' = RollingBack(call.from, u, "cut_back", Capabilities(u))
    /\ UNCHANGED <<policy, histories>>

\* The unit's file cannot be written: rollback raises half-way.
RollbackSaveFails(u) ==
    /\ Reaches(u)
    /\ states[u].status # "pending"
    /\ SaveFails(u, Is("rolled_back", states[u].revision))
    /\ call' = Idle
    /\ UNCHANGED <<policy, histories>>

\* record_failure refuses a missing policy and one of another revision, and
\* rollback goes on.
RollbackCutBack ==
    /\ call.op = "rollback"
    /\ \E c \in call.todo :
        /\ IF Configured(c, states[call.at].revision) THEN CutBack(c) ELSE UNCHANGED policy
        /\ call' = RollingBack(call.from, call.at, "cut_back", call.todo \ {c})
    /\ UNCHANGED <<stored, states, histories>>

\* The policy file cannot be written: rollback raises half-way.
RollbackCutBackFails ==
    /\ call.op = "rollback"
    /\ call.todo # {}
    /\ call' = Idle
    /\ UNCHANGED <<stored, states, policy, histories>>

RollbackNext ==
    /\ call.op = "rollback"
    /\ call.stage = "cut_back"
    /\ call.todo = {}
    /\ call' = RollingBack(call.from, call.at + 1, "save", {})
    /\ UNCHANGED <<stored, states, policy, histories>>

FinishRollback ==
    /\ call.op = "rollback"
    /\ call.at = NUnits + 1
    /\ call' = Idle
    /\ fenced' = fenced \cup call.from..NUnits
    /\ unsettled' = unsettled \ call.from..NUnits
    /\ UNCHANGED <<stored, states, policy, served>>

----------------------------------------------------------------------------
(* dispatch: a unit that is not routable goes to legacy, a stuttering step. *)

Admitted(c, r) == call = Idle /\ Routable(states[UnitOf[c]]) /\ Decides(c, r)

Dispatch(c, r) ==
    /\ Admitted(c, r)
    /\ served' = [served EXCEPT ![UnitOf[c]] = @ \cup {r}]
    /\ UNCHANGED <<stored, states, policy, call, fenced, unsettled>>

\* The platform handler raises; the capability is cut back, legacy answers
\* the request, and the unit is rolled back.
DispatchFallsBack(c, r) ==
    /\ Admitted(c, r)
    /\ CutBack(c)
    /\ call' = RollbackFrom(UnitOf[c])
    /\ unsettled' = unsettled \cup UnitOf[c]..NUnits
    /\ UNCHANGED <<stored, states, served, fenced>>

\* The platform handler raises, and so does the legacy one: the capability is
\* cut back and the exception leaves dispatch before its rollback.
DispatchFailsTwice(c, r) ==
    /\ Admitted(c, r)
    /\ CutBack(c)
    /\ UNCHANGED <<stored, states, call, histories>>

----------------------------------------------------------------------------
Next ==
    \/ Start \/ Crash
    \/ PromoteConfigure \/ PromoteFails \/ PromoteSave \/ PromoteSaveFails
    \/ RollbackSkip \/ RollbackCutBack \/ RollbackCutBackFails \/ RollbackNext \/ FinishRollback
    \/ \E u \in Unit :
        \/ Stabilize(u) \/ StartRollback(u) \/ RollbackSave(u) \/ RollbackSaveFails(u)
        \/ \E r \in Revision : Promote(u, r)
    \/ \E c \in Capability :
        \/ \E healthy \in BOOLEAN : SetHealth(c, healthy)
        \/ \E r \in Revision :
            \/ Dispatch(c, r) \/ DispatchFallsBack(c, r) \/ DispatchFailsTwice(c, r)
            \/ \E enabled, healthy \in BOOLEAN : Configure(c, r, enabled, healthy)

Spec == Init /\ [][Next]_vars

----------------------------------------------------------------------------
(* Properties. *)

TypeOK ==
    /\ stored \in [Unit -> UnitState]
    /\ states \in [Unit -> UnitState]
    /\ policy \in [Capability -> Policy \cup {None}]
    /\ call \in {Idle, Down} \cup Promotion \cup Rollback
    /\ served \in [Unit -> SUBSET Revision]
    /\ fenced \subseteq Unit
    /\ unsettled \subseteq Unit

\* Every capability of a unit that was ever promoted is configured, and all
\* of them for the unit's own revision, in memory and on disk: a promotion
\* that stopped half-way, failed to be saved or was retried with another
\* revision leaves no unit that mixes revisions.
PoliciesAgree ==
    \A c \in Capability :
        /\ stored[UnitOf[c]].status # "pending" => Configured(c, stored[UnitOf[c]].revision)
        /\ call # Down /\ states[UnitOf[c]].status # "pending" => Configured(c, states[UnitOf[c]].revision)

\* Units are promoted in order: before a routable one every unit is stable,
\* save for those a rollback or a failed write has left unsettled.
InOrder(table) ==
    \A u \in Unit : Routable(table[u]) => \A v \in 1..(u - 1) : table[v].status = "stable" \/ v \in unsettled

OrderedUnits == InOrder(stored) /\ (call # Down => InOrder(states))

\* What a completed rollback has covered stays on legacy, through restarts,
\* until somebody promotes it again.
RollbackHolds ==
    \A u \in fenced : ~Routable(stored[u]) /\ (call # Down => ~Routable(states[u]))

\* "If the durable state write fails, the state remains non-routable": a unit
\* that is routable in memory is routable on disk.
FailedWriteStaysClosed ==
    call = Idle => \A u \in Unit : Routable(states[u]) => Routable(stored[u])

\* A unit that has been rolled back has taken every later one with it,
\* whenever the coordinator is at rest.
RollbackTakesLaterUnits ==
    call = Idle => \A u \in Unit : states[u].status = "rolled_back" =>
        \A v \in (u + 1)..NUnits : ~Routable(states[v])

----------------------------------------------------------------------------
\* The inductive invariant.

\* Memory and disk differ only where a save failed or a rollback is open; a
\* unit that memory has never seen is not on disk either.
CacheAgrees ==
    call # Down => \A u \in Unit :
        /\ u \notin unsettled => states[u] = stored[u]
        /\ states[u].status = "pending" => stored[u].status = "pending"

\* A promotion still may go on, and its policies are in place.
PromotionSoFar ==
    call.op = "promote" =>
        /\ Promotable(call.unit)
        /\ \A c \in Capabilities(call.unit) \ call.todo : Configured(c, call.revision)

\* A rollback has saved every unit it has passed.
RollbackSoFar ==
    call.op = "rollback" =>
        /\ call.from..NUnits \subseteq unsettled
        /\ call.from <= call.at
        /\ call.stage = "cut_back" => call.at \in Unit
        /\ call.todo # {} => call.stage = "cut_back"
        /\ \A u \in Unit : call.from <= u /\ (u < call.at \/ (u = call.at /\ call.stage = "cut_back")) =>
            ~Routable(states[u]) /\ states[u] = stored[u]

Progress == PromotionSoFar /\ RollbackSoFar

\* Platform has answered for a unit under the revision its policies name.
ServedAsConfigured ==
    \A u \in Unit : \A r \in served[u] : \A c \in Capabilities(u) : Configured(c, r)

IInv ==
    /\ TypeOK /\ PoliciesAgree /\ CacheAgrees /\ Progress
    /\ OrderedUnits /\ RollbackHolds /\ ServedAsConfigured

\* The revision all policies of a unit agree on.
Pinned(u) ==
    IF \E r \in Revision : \A c \in Capabilities(u) : Configured(c, r)
    THEN CHOOSE r \in Revision : \A c \in Capabilities(u) : Configured(c, r)
    ELSE None

Pin == INSTANCE PinnedRevision WITH pin <- [u \in Unit |-> Pinned(u)]
\* Through failed writes, crashes, rollbacks and new promotions a unit is
\* only ever served under one revision, the one its policies are pinned to.
ImplementsPin == Pin!Spec
=============================================================================
