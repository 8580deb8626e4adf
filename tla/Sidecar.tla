------------------------------ MODULE Sidecar ------------------------------
(***************************************************************************)
(* The durable sidecar of backend/knowledge_platform/continuity/sqlite.py: *)
(* one SQLite file shared by any number of calls of process(), by the      *)
(* operators that stop the legacy workers, activate a deployment revision  *)
(* and roll back.  A transaction of the code is one action; the clock      *)
(* reads that precede a transaction, the handler that runs outside any     *)
(* transaction and the release of a failed run are actions of their own,   *)
(* so every interleaving of them is a behaviour.                           *)
(***************************************************************************)
EXTENDS Integers, FiniteSets

CONSTANTS
    Worker,        \* concurrent calls of SqlitePlatformSidecar.process
    Key,           \* idempotency digests: capability|space|resource|key
    Revision,      \* deployment revisions a request or an activation names
    NoRevision,    \* the empty active_revision
    Uri,           \* results inside the Space of the request
    ForeignUri,    \* a result outside it
    NoUri,         \* the empty resource_uri of a run without a result
    LeaseTicks,    \* lease_seconds
    MaxClock,      \* bound: last instant of the clock
    MaxClaims,     \* bound: number of leases handed out
    MaxRollbacks   \* bound: number of rollbacks

ASSUME SidecarAssumption ==
    /\ Key # {}
    /\ Revision # {}
    /\ NoRevision \notin Revision
    /\ ForeignUri \notin Uri
    /\ NoUri \notin Uri
    /\ LeaseTicks \in Nat \ {0}
    /\ MaxClock \in Nat
    /\ MaxClaims \in Nat
    /\ MaxRollbacks \in Nat

VARIABLES
    legacyEnabled,   \* the row of platform_continuity_state ...
    sidecarActive,
    activeRevision,
    runs,            \* platform_continuity_runs, one row per key
    claims,          \* owners handed out so far: owner n is the n-th claim
    rollbacks,       \* rolled_back_to_legacy rows of the audit table
    returned,        \* results that process() has returned to its callers
    calls,           \* local variables and position of each call
    clock

vars == <<legacyEnabled, sidecarActive, activeRevision, runs, claims,
          rollbacks, returned, calls, clock>>
stateRow == <<legacyEnabled, sidecarActive, activeRevision>>

RunStatus == {"absent", "running", "completed", "released", "rolled_back"}
Position == {"idle", "claiming", "handling", "returned", "completing",
             "releasing"}

Run == [status : RunStatus, revision : Revision \cup {NoRevision},
        owner : Nat, expires : Nat, uri : Uri \cup {NoUri}]
Call == [at : Position, key : Key, revision : Revision, owner : Nat,
         now : Nat, expires : Nat, epoch : Nat,
         uri : Uri \cup {ForeignUri, NoUri}]
Result == [key : Key, revision : Revision, uri : Uri]

NoRun == [status |-> "absent", revision |-> NoRevision, owner |-> 0,
          expires |-> 0, uri |-> NoUri]

\* A call that is not running has no variables of interest.
IdleCall == [at |-> "idle", key |-> CHOOSE k \in Key : TRUE,
             revision |-> CHOOSE r \in Revision : TRUE, owner |-> 0,
             now |-> 0, expires |-> 0, epoch |-> 0, uri |-> NoUri]

(* _live: leases are compared strictly; NULL (0 here) is never live. *)
Live(expires, now) == expires > now

Init ==
    /\ legacyEnabled = TRUE
    /\ sidecarActive = FALSE
    /\ activeRevision = NoRevision
    /\ runs = [k \in Key |-> NoRun]
    /\ claims = 0
    /\ rollbacks = 0
    /\ returned = {}
    /\ calls = [w \in Worker |-> IdleCall]
    /\ clock = 0

-----------------------------------------------------------------------------
(* Operators of the deployment. *)

StopLegacy ==
    /\ ~sidecarActive
    /\ legacyEnabled' = FALSE
    /\ UNCHANGED <<sidecarActive, activeRevision, runs, claims, rollbacks,
                   returned, calls, clock>>

\* A mistake in activation: the revision is switched.
Activate_Switches(r) ==
    /\ ~legacyEnabled
    /\ sidecarActive' = TRUE /\ activeRevision' = r
    /\ UNCHANGED <<legacyEnabled, runs, claims, rollbacks, returned, calls,
                   clock>>

Activate(r) ==
    /\ ~legacyEnabled
    /\ sidecarActive => activeRevision = r
    /\ sidecarActive' = TRUE
    /\ activeRevision' = r
    /\ UNCHANGED <<legacyEnabled, runs, claims, rollbacks, returned, calls,
                   clock>>

\* Mistakes a maintainer could make in the statements that rollback runs.
RolledBack_SkipsRunning(run) == run
\* Every running row is fenced in the same transaction that re-enables legacy.
RolledBack(run) ==
    IF run.status = "running"
    THEN [run EXCEPT !.status = "rolled_back", !.expires = 0]
    ELSE run

Rollback ==
    /\ rollbacks < MaxRollbacks
    /\ runs' = [k \in Key |-> RolledBack(runs[k])]
    /\ sidecarActive' = FALSE
    /\ activeRevision' = NoRevision
    /\ legacyEnabled' = TRUE
    /\ rollbacks' = rollbacks + 1
    /\ UNCHANGED <<claims, returned, calls, clock>>

-----------------------------------------------------------------------------
(* process(request), call by call. *)

\* The call starts; _claim reads the clock before its transaction begins.
Submit(w, k, r) ==
    /\ calls[w].at = "idle"
    /\ calls' = [calls EXCEPT ![w] = [IdleCall EXCEPT !.at = "claiming",
                     !.key = k, !.revision = r, !.now = clock]]
    /\ UNCHANGED <<stateRow, runs, claims, rollbacks, returned, clock>>

\* The request may go on to the row of its key.
RevisionIsActive(c) == sidecarActive /\ activeRevision = c.revision

\* The row of the key is bound to this revision, or there is none.
BoundHere(c) ==
    runs[c.key].status # "absent" => runs[c.key].revision = c.revision

\* The mistake: a live lease is ignored.
Claimable_LeaseIgnored(c) ==
    RevisionIsActive(c) /\ BoundHere(c) /\ runs[c.key].status # "completed"

Claimable(c) ==
    /\ RevisionIsActive(c)
    /\ BoundHere(c)
    /\ runs[c.key].status # "completed"
    /\ ~ /\ runs[c.key].status = "running"
         /\ Live(runs[c.key].expires, c.now)

Replayable(c) ==
    /\ RevisionIsActive(c)
    /\ BoundHere(c)
    /\ runs[c.key].status = "completed"

ClaimGranted(w) ==
    LET c == calls[w] IN
    /\ c.at = "claiming"
    /\ Claimable(c)
    /\ claims < MaxClaims
    /\ claims' = claims + 1
    /\ runs' = [runs EXCEPT ![c.key] =
                    [status |-> "running", revision |-> c.revision,
                     owner |-> claims + 1, expires |-> c.now + LeaseTicks,
                     uri |-> NoUri]]
    /\ calls' = [calls EXCEPT ![w] =
                    [c EXCEPT !.at = "handling", !.owner = claims + 1,
                              !.expires = c.now + LeaseTicks,
                              !.epoch = rollbacks]]
    /\ UNCHANGED <<stateRow, rollbacks, returned, clock>>

ClaimReplayed(w) ==
    LET c == calls[w] IN
    /\ c.at = "claiming"
    /\ Replayable(c)
    /\ returned' = returned \cup {[key |-> c.key,
                        revision |-> runs[c.key].revision,
                        uri |-> runs[c.key].uri]}
    /\ calls' = [calls EXCEPT ![w] = IdleCall]
    /\ UNCHANGED <<stateRow, runs, claims, rollbacks, clock>>

\* SqliteContinuityError: nothing was claimed, so nothing is released.
ClaimRefused(w) ==
    /\ calls[w].at = "claiming"
    /\ ~Claimable(calls[w])
    /\ ~Replayable(calls[w])
    /\ calls' = [calls EXCEPT ![w] = IdleCall]
    /\ UNCHANGED <<stateRow, runs, claims, rollbacks, returned, clock>>

\* The capability handler runs outside any transaction, for any time.
HandlerReturns(w, u) ==
    /\ calls[w].at = "handling"
    /\ calls' = [calls EXCEPT ![w].at = "returned", ![w].uri = u]
    /\ UNCHANGED <<stateRow, runs, claims, rollbacks, returned, clock>>

HandlerRaises(w) ==
    /\ calls[w].at = "handling"
    /\ calls' = [calls EXCEPT ![w].at = "releasing"]
    /\ UNCHANGED <<stateRow, runs, claims, rollbacks, returned, clock>>

InSpace(u) == u \in Uri

\* _complete checks the Space of the result and reads the clock, both before
\* its transaction.
BeginComplete(w) ==
    /\ calls[w].at = "returned"
    /\ calls' = [calls EXCEPT
                    ![w].at = IF InSpace(calls[w].uri)
                              THEN "completing" ELSE "releasing",
                    ![w].now = clock]
    /\ UNCHANGED <<stateRow, runs, claims, rollbacks, returned, clock>>

HoldsLease(c) ==
    /\ RevisionIsActive(c)
    /\ runs[c.key].status = "running"
    /\ runs[c.key].owner = c.owner
    /\ Live(runs[c.key].expires, c.now)

Complete(w) ==
    LET c == calls[w] IN
    /\ c.at = "completing"
    /\ HoldsLease(c)
    /\ runs' = [runs EXCEPT ![c.key].status = "completed",
                            ![c.key].expires = 0,
                            ![c.key].uri = c.uri]
    /\ returned' = returned \cup {[key |-> c.key, revision |-> c.revision,
                                   uri |-> c.uri]}
    /\ calls' = [calls EXCEPT ![w] = IdleCall]
    /\ UNCHANGED <<stateRow, claims, rollbacks, clock>>

LeaseLost(w) ==
    /\ calls[w].at = "completing"
    /\ ~HoldsLease(calls[w])
    /\ calls' = [calls EXCEPT ![w].at = "releasing"]
    /\ UNCHANGED <<stateRow, runs, claims, rollbacks, returned, clock>>

\* The mistake: the run is released by its key alone.
Owned_ByKey(c) == runs[c.key].status = "running"
Owned(c) == runs[c.key].status = "running" /\ runs[c.key].owner = c.owner

Release(w) ==
    LET c == calls[w] IN
    /\ c.at = "releasing"
    /\ runs' = IF Owned(c)
               THEN [runs EXCEPT ![c.key].status = "released",
                                 ![c.key].expires = 0]
               ELSE runs
    /\ calls' = [calls EXCEPT ![w] = IdleCall]
    /\ UNCHANGED <<stateRow, claims, rollbacks, returned, clock>>

\* The process dies, or a BaseException passes the except Exception: the call
\* is gone and its row, if any, stays as it is.
Crash(w) ==
    /\ calls[w].at # "idle"
    /\ calls' = [calls EXCEPT ![w] = IdleCall]
    /\ UNCHANGED <<stateRow, runs, claims, rollbacks, returned, clock>>

Tick ==
    /\ clock < MaxClock
    /\ clock' = clock + 1
    /\ UNCHANGED <<stateRow, runs, claims, rollbacks, returned, calls>>

-----------------------------------------------------------------------------
Operate == StopLegacy \/ Rollback \/ \E r \in Revision : Activate(r)

Advance(w) ==
    \/ ClaimGranted(w) \/ ClaimReplayed(w) \/ ClaimRefused(w)
    \/ HandlerRaises(w) \/ \E u \in Uri \cup {ForeignUri} : HandlerReturns(w, u)
    \/ BeginComplete(w) \/ Complete(w) \/ LeaseLost(w) \/ Release(w)

Next ==
    \/ Operate
    \/ \E w \in Worker : \/ \E k \in Key, r \in Revision : Submit(w, k, r)
                         \/ Advance(w)
                         \/ Crash(w)
    \/ Tick

Spec == Init /\ [][Next]_vars

-----------------------------------------------------------------------------
TypeOK ==
    /\ legacyEnabled \in BOOLEAN
    /\ sidecarActive \in BOOLEAN
    /\ activeRevision \in Revision \cup {NoRevision}
    /\ runs \in [Key -> Run]
    /\ claims \in Nat
    /\ rollbacks \in Nat
    /\ returned \subseteq Result
    /\ calls \in [Worker -> Call]
    /\ clock \in Nat

\* Rollback leaves nothing running: a row is running only under the revision
\* that is active now, and only while legacy is stopped.  A run that is
\* claimed after, or survives, a rollback to legacy would break it.
RunningOnlyWhileActive ==
    \A k \in Key : runs[k].status = "running" =>
        /\ sidecarActive
        /\ ~legacyEnabled
        /\ runs[k].revision = activeRevision

\* The state row never says that legacy and the sidecar both work, and it
\* names a revision exactly while the sidecar works.
ModeExclusion ==
    /\ ~(legacyEnabled /\ sidecarActive)
    /\ sidecarActive <=> activeRevision # NoRevision

\* Every caller that ever got a result for a key got the same one, whatever
\* crashes, expired leases, rollbacks and re-activations happened in between.
ResultsAgree ==
    \A a, b \in returned : a.key = b.key => a = b

\* A handler whose lease has not run out, and that no rollback has fenced, is
\* the owner of the row of its key: two such handlers never work on one key,
\* although each tests the lease against a clock it read before its
\* transaction began.
InForce(c) ==
    /\ c.at \in {"handling", "returned", "completing"}
    /\ Live(c.expires, clock)
    /\ c.epoch = rollbacks
LiveLeaseIsExclusive ==
    \A v, w \in Worker :
        InForce(calls[v]) /\ InForce(calls[w]) /\ calls[v].key = calls[w].key
            => v = w

\* A late call cannot disturb the run of a newer owner: while a live lease is
\* in force its row leaves "running" only by the step of its own owner or by a
\* rollback.
OnlyOwnerEndsRun ==
    [][\A w \in Worker : InForce(calls[w]) /\ runs[calls[w].key].status = "running"
            => \/ runs'[calls[w].key] = runs[calls[w].key]
               \/ calls'[w].at = "idle"
               \/ rollbacks' # rollbacks]_vars

\* The sidecar keeps what Continuity promises: the mode is read off the state
\* row, the published results off the completed rows.
NoResult == [key |-> NoUri, revision |-> NoRevision, uri |-> NoUri]
Mode == IF sidecarActive THEN "sidecar"
        ELSE IF legacyEnabled THEN "legacy" ELSE "drained"
Published == [k \in Key |->
    IF runs[k].status = "completed"
    THEN [key |-> k, revision |-> runs[k].revision, uri |-> runs[k].uri]
    ELSE NoResult]

Promise == INSTANCE Continuity WITH
    mode <- Mode, revision <- activeRevision, record <- Published,
    answered <- returned
ImplementsContinuity == Promise!Spec

-----------------------------------------------------------------------------
(* The inductive invariant that the proofs of SidecarProofs rest on. *)

HasOwner(c) == c.at \in {"handling", "returned", "completing", "releasing"}

\* What a call is about to record, and what a completed row holds, lies in the
\* Space of the request.
ResultsInSpace ==
    /\ \A w \in Worker : calls[w].at = "completing" => calls[w].uri \in Uri
    /\ \A k \in Key : runs[k].status = "completed" =>
            runs[k].revision \in Revision /\ runs[k].uri \in Uri

\* Every answer is the result recorded for its key.
AnswersAreRecorded ==
    \A a \in returned :
        /\ runs[a.key].status = "completed"
        /\ runs[a.key].revision = a.revision
        /\ runs[a.key].uri = a.uri

\* Owners are fresh: no two calls share one, and clock readings and epochs
\* lie in the past.
OwnersAreFresh ==
    /\ \A k \in Key : runs[k].owner <= claims
    /\ \A w \in Worker : /\ calls[w].owner <= claims
                         /\ calls[w].now <= clock
                         /\ calls[w].epoch <= rollbacks
    /\ \A v, w \in Worker :
            HasOwner(calls[v]) /\ HasOwner(calls[w])
                /\ calls[v].owner = calls[w].owner => v = w

\* A lease in force is the one in the row of its key.
LeaseIsInRow ==
    \A w \in Worker : InForce(calls[w]) =>
        /\ runs[calls[w].key].status = "running"
        /\ runs[calls[w].key].owner = calls[w].owner
        /\ runs[calls[w].key].expires = calls[w].expires

IInv == /\ TypeOK
        /\ ModeExclusion
        /\ RunningOnlyWhileActive
        /\ ResultsInSpace
        /\ AnswersAreRecorded
        /\ OwnersAreFresh
        /\ LeaseIsInRow
=============================================================================
