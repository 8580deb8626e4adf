--------------------------- MODULE WikiGeneration ---------------------------
(***************************************************************************)
(* Wiki generation: the admission queue (local/wiki_authoring_queue.py),   *)
(* the receipt-bound controls on it (local/wiki_queue_control.py) and the  *)
(* durable proposals (local/wiki_authoring_generation.py), all tables of   *)
(* one Catalog.  Every BEGIN IMMEDIATE transaction is one action; what     *)
(* generate() and run_queue() read in one transaction and use in a later   *)
(* one is kept in the variables of the call, so commits, controls, crashes *)
(* and other calls may come in between.                                    *)
(***************************************************************************)
EXTENDS Integers, Sequences, FiniteSets

CONSTANTS
    Op,            \* operation identities, ordered as their strings are
    Actor,         \* subject ids of principals
    Command,       \* command ids of queue controls
    Caller,        \* callers of generate(): each has one call at a time
    QueueWorker,   \* the callers that are queue workers, which run run_queue
    ServiceActor,  \* the principal of the queue workers
    MaxRevision,   \* bound: last revision of the Wiki workspace
    MaxClock,      \* bound: last second of the clock
    MaxHistory,    \* MAX_HISTORY: control commands per admission
    MaxAdmissions, \* MAX_ADMISSIONS: rows of the queue
    MaxCrashes     \* bound: calls lost to a crash

ASSUME GenerationAssumption ==
    /\ Op \subseteq Nat /\ Op # {}
    /\ QueueWorker \subseteq Caller
    /\ ServiceActor \in Actor
    /\ MaxRevision \in Nat /\ MaxClock \in Nat
    /\ MaxHistory \in Nat /\ MaxAdmissions \in Nat /\ MaxCrashes \in Nat

VARIABLES
    revision,   \* revision of the Wiki workspace: apply() only ever adds
    queue,      \* knowledge_wiki_authoring_queue with its control history
    proposals,  \* knowledge_wiki_authoring_proposals
    calls,      \* calls of generate(), direct or from run_queue
    modelCalls, \* how often the model has been invoked for an operation
    crashes,
    clock

vars == <<revision, queue, proposals, calls, modelCalls, crashes, clock>>

Request == [actor : Actor, base : Nat]        \* base: expected_revision
Control == [id : Command, action : {"cancel", "reschedule"}, due : Nat,
            expected : Nat]                   \* expected: the receipt it names
Row == [state : {"none", "queued", "rejected", "cancelled"},
        request : Request, admitted : Nat, due : Nat, history : Seq(Control)]
Proposal == [state : {"none", "unsettled", "ready", "failed", "abandoned"},
             request : Request]
Call == [at : {"idle", "reading", "context", "claiming", "claimed", "calling",
               "settling", "rejecting"},
         op : Op, request : Request, outcome : {"none", "ready", "failed"}]

AnyRequest == [actor |-> ServiceActor, base |-> 0]
NoRow == [state |-> "none", request |-> AnyRequest, admitted |-> 0,
          due |-> 0, history |-> <<>>]
NoProposal == [state |-> "none", request |-> AnyRequest]
IdleCall == [at |-> "idle", op |-> CHOOSE o \in Op : TRUE,
             request |-> AnyRequest, outcome |-> "none"]

Init ==
    /\ revision = 0
    /\ queue = [o \in Op |-> NoRow]
    /\ proposals = [o \in Op |-> NoProposal]
    /\ calls = [c \in Caller |-> IdleCall]
    /\ modelCalls = [o \in Op |-> 0]
    /\ crashes = 0
    /\ clock = 0

Exists(row) == row.state # "none"
Unclaimed(o) == ~Exists(proposals[o])

-----------------------------------------------------------------------------
(* Administration. *)

\* apply() commits a patch; the workspace revision, a digest over a log that
\* only grows, never recurs.
Publish ==
    /\ revision < MaxRevision
    /\ revision' = revision + 1
    /\ UNCHANGED <<queue, proposals, calls, modelCalls, crashes, clock>>

Admissions == Cardinality({o \in Op : Exists(queue[o])})

\* A new admission; a repeated one changes nothing.  _status refuses, and so
\* rolls back, an admission whose proposal was made for another request.
Enqueue(o, r, due) ==
    /\ ~Exists(queue[o])
    /\ Admissions < MaxAdmissions
    /\ r.base = revision
    /\ Unclaimed(o) \/ proposals[o].request = r
    /\ queue' = [queue EXCEPT ![o] =
                    [state |-> "queued", request |-> r, admitted |-> due,
                     due |-> due, history |-> <<>>]]
    /\ UNCHANGED <<revision, proposals, calls, modelCalls, crashes, clock>>

\* The receipt an administrator names is the one of the row as it is: receipts
\* commit to the whole history, so its length tells them apart.
SeesCurrent(o, expected) == expected = Len(queue[o].history)

Controllable(o) ==
    /\ queue[o].state = "queued"
    /\ Unclaimed(o)
    /\ Len(queue[o].history) < MaxHistory

\* A command id that was used before replays its result or is refused.
FreshCommand(o, id) ==
    \A i \in 1..Len(queue[o].history) : queue[o].history[i].id # id

\* The mistake: a cancellation records the due time of its command.
ControlQueue_DueLost(o, id, action, due, expected) ==
    LET newState == IF action = "cancel" THEN "cancelled" ELSE "queued"
        entry == [id |-> id, action |-> action, due |-> due,
                  expected |-> expected] IN
    /\ FreshCommand(o, id) /\ Controllable(o) /\ SeesCurrent(o, expected)
    /\ queue' = [queue EXCEPT ![o].state = newState,
                              ![o].history = Append(@, entry)]
    /\ UNCHANGED <<revision, proposals, calls, modelCalls, crashes, clock>>

ControlQueue(o, id, action, due, expected) ==
    LET newDue == IF action = "reschedule" THEN due ELSE queue[o].due
        newState == IF action = "cancel" THEN "cancelled" ELSE "queued"
        entry == [id |-> id, action |-> action, due |-> newDue,
                  expected |-> expected]
        history == Append(queue[o].history, entry) IN
    /\ FreshCommand(o, id)
    /\ Controllable(o)
    /\ SeesCurrent(o, expected)
    /\ queue' = [queue EXCEPT ![o] = [queue[o] EXCEPT !.due = newDue,
                                 !.state = newState, !.history = history]]
    /\ UNCHANGED <<revision, proposals, calls, modelCalls, crashes, clock>>

\* The receipt of an unsettled proposal is a function of its request, so the
\* precondition of abandon() is that it is still unsettled; a repeated command
\* changes nothing.
Abandon(o) ==
    /\ proposals[o].state = "unsettled"
    /\ proposals' = [proposals EXCEPT ![o].state = "abandoned"]
    /\ UNCHANGED <<revision, queue, calls, modelCalls, crashes, clock>>

-----------------------------------------------------------------------------
(* generate(who, request), for a direct caller or inside run_queue. *)

GenerateDirectly(c, o, r) ==
    /\ c \notin QueueWorker
    /\ calls[c].at = "idle"
    /\ calls' = [calls EXCEPT ![c] = [IdleCall EXCEPT !.at = "reading",
                                          !.op = o, !.request = r]]
    /\ UNCHANGED <<revision, queue, proposals, modelCalls, crashes, clock>>

Due(o) == /\ queue[o].state = "queued"
          /\ queue[o].due <= clock
          /\ Unclaimed(o)

Mine(o) == Due(o) /\ queue[o].request.actor = ServiceActor

\* ORDER BY not_before, operation_id LIMIT 1.
Oldest(o) ==
    /\ Mine(o)
    /\ \A p \in Op : Mine(p) =>
            \/ queue[o].due < queue[p].due
            \/ (queue[o].due = queue[p].due /\ o <= p)

SelectDue(c, o) ==
    /\ c \in QueueWorker
    /\ calls[c].at = "idle"
    /\ Oldest(o)
    /\ calls' = [calls EXCEPT ![c] = [IdleCall EXCEPT !.at = "reading",
                                      !.op = o, !.request = queue[o].request]]
    /\ UNCHANGED <<revision, queue, proposals, modelCalls, crashes, clock>>

Goto(c, place) == calls' = [calls EXCEPT ![c].at = place]
Return(c) == calls' = [calls EXCEPT ![c] = IdleCall]

\* ValueError: run_queue goes on to its rejection transaction, a direct caller
\* gets the error.
ValueError(c) == IF c \in QueueWorker THEN Goto(c, "rejecting") ELSE Return(c)

\* The first look for a proposal: an identical request gets it back.
ReadPrevious(c) ==
    LET p == proposals[calls[c].op] IN
    /\ calls[c].at = "reading"
    /\ IF ~Exists(p) THEN Goto(c, "context")
       ELSE IF p.request = calls[c].request THEN Return(c)
       ELSE ValueError(c)
    /\ UNCHANGED <<revision, queue, proposals, modelCalls, crashes, clock>>

\* The context is read and must be of the expected revision; a selection or a
\* budget that does not hold is a ValueError too.
ReadContext(c, valid) ==
    /\ calls[c].at = "context"
    /\ IF valid /\ calls[c].request.base = revision
       THEN Goto(c, "claiming") ELSE ValueError(c)
    /\ UNCHANGED <<revision, queue, proposals, modelCalls, crashes, clock>>

\* check_claim: an admission that exists must still authorize this request.
Authorized_StateIgnored(c) ==
    LET row == queue[calls[c].op] IN
    Exists(row) => row.request = calls[c].request /\ row.due <= clock
Authorized(c) ==
    LET row == queue[calls[c].op] IN
    Exists(row) => /\ row.state = "queued"
                   /\ row.request = calls[c].request
                   /\ row.due <= clock

Free_Reclaims(o) == proposals[o].state \in {"none", "unsettled"}
Free(o) == Unclaimed(o)

Claim(c) ==
    LET o == calls[c].op IN
    /\ calls[c].at = "claiming"
    /\ Free(o)
    /\ Authorized(c)
    /\ calls[c].request.base = revision
    /\ proposals' = [proposals EXCEPT ![o] =
                        [state |-> "unsettled", request |-> calls[c].request]]
    /\ Goto(c, "claimed")
    /\ UNCHANGED <<revision, queue, modelCalls, crashes, clock>>

ClaimFails(c) ==
    LET o == calls[c].op IN
    /\ calls[c].at = "claiming"
    /\ ~(Free(o) /\ Authorized(c) /\ calls[c].request.base = revision)
    /\ IF ~Free(o) /\ proposals[o].request = calls[c].request
       THEN Return(c) ELSE ValueError(c)
    /\ UNCHANGED <<revision, queue, proposals, modelCalls, crashes, clock>>

InvokeModel(c) ==
    /\ calls[c].at = "claimed"
    /\ modelCalls' = [modelCalls EXCEPT ![calls[c].op] = @ + 1]
    /\ Goto(c, "calling")
    /\ UNCHANGED <<revision, queue, proposals, crashes, clock>>

\* The draft is previewed against the workspace as it is when the model
\* answers; any exception up to there makes the attempt a failed one.
ModelReturns(c, outcome) ==
    /\ calls[c].at = "calling"
    /\ outcome = "ready" => calls[c].request.base = revision
    /\ calls' = [calls EXCEPT ![c] = [@ EXCEPT !.at = "settling",
                                               !.outcome = outcome]]
    /\ UNCHANGED <<revision, queue, proposals, modelCalls, crashes, clock>>

Settleable_Abandoned(o) == proposals[o].state \in {"unsettled", "abandoned"}
Settleable(o) == proposals[o].state = "unsettled"

\* The settlement: an attempt abandoned meanwhile keeps that outcome; any other
\* state is a settlement conflict.
Settle(c) ==
    LET o == calls[c].op IN
    /\ calls[c].at = "settling"
    /\ proposals' = IF Settleable(o) /\ proposals[o].request = calls[c].request
                    THEN [proposals EXCEPT ![o].state = calls[c].outcome]
                    ELSE proposals
    /\ IF proposals[o].request = calls[c].request
             /\ proposals[o].state \in {"unsettled", "abandoned"}
       THEN Return(c) ELSE ValueError(c)
    /\ UNCHANGED <<revision, queue, modelCalls, crashes, clock>>

Rejectable_Retries(o) == FALSE
Rejectable(o) == Due(o)

\* Only a failure before any claim rejects the admission; retrying instead
\* would let a stale admission block the queue for ever.
Reject(c) ==
    LET o == calls[c].op IN
    /\ calls[c].at = "rejecting"
    /\ queue' = IF Rejectable(o)
                THEN [queue EXCEPT ![o].state = "rejected"] ELSE queue
    /\ Return(c)
    /\ UNCHANGED <<revision, proposals, modelCalls, crashes, clock>>

\* The process is lost, or an exception that is not a ValueError ends the call;
\* an unsettled proposal stays as it is.
Crash(c) ==
    /\ crashes < MaxCrashes
    /\ calls[c].at # "idle"
    /\ crashes' = crashes + 1
    /\ Return(c)
    /\ UNCHANGED <<revision, queue, proposals, modelCalls, clock>>

Tick == /\ clock < MaxClock
        /\ clock' = clock + 1
        /\ UNCHANGED <<revision, queue, proposals, calls, modelCalls, crashes>>

-----------------------------------------------------------------------------
Proceed(c) ==
    \/ ReadPrevious(c) \/ ReadContext(c, TRUE)
    \/ Claim(c) \/ ClaimFails(c) \/ InvokeModel(c)
    \/ \E outcome \in {"ready", "failed"} : ModelReturns(c, outcome)
    \/ Settle(c) \/ Reject(c)
    \/ \E o \in Op : SelectDue(c, o)

Requests == [actor : Actor, base : 0..MaxRevision]

Administer ==
    \/ Publish
    \/ \E o \in Op :
        \/ \E r \in Requests, due \in 0..MaxClock : Enqueue(o, r, due)
        \/ \E id \in Command, due \in 0..MaxClock, expected \in 0..MaxHistory :
              \/ ControlQueue(o, id, "cancel", due, expected)
              \/ ControlQueue(o, id, "reschedule", due, expected)
        \/ Abandon(o)

Next ==
    \/ Administer
    \/ \E c \in Caller :
        \/ \E o \in Op, r \in Requests : GenerateDirectly(c, o, r)
        \/ Proceed(c)
        \/ ReadContext(c, FALSE)
        \/ Crash(c)
    \/ Tick

\* The worker loop runs again after every pass, and after the process restarts;
\* the model client has a timeout, so a call returns or fails.
Fairness == \A c \in Caller : WF_vars(Proceed(c))

Spec == Init /\ [][Next]_vars
FairSpec == Spec /\ Fairness

-----------------------------------------------------------------------------
TypeOK ==
    /\ revision \in Nat
    /\ queue \in [Op -> Row]
    /\ proposals \in [Op -> Proposal]
    /\ calls \in [Caller -> Call]
    /\ modelCalls \in [Op -> Nat]
    /\ crashes \in Nat
    /\ clock \in Nat

\* Whatever is retried, raced or lost in a crash, the model is invoked at most
\* once for an operation.
AtMostOnce == \A o \in Op : modelCalls[o] <= 1

\* An admission that was cancelled or rejected has no proposal, and the model
\* has not been called for it: a worker that selected it before the
\* cancellation must not go through with it.
WithdrawnNeverRuns ==
    \A o \in Op : queue[o].state \in {"rejected", "cancelled"} =>
        Unclaimed(o) /\ modelCalls[o] = 0

\* The row of an admission is what its chain of control commands says, a
\* rejection apart (history() of the queue control refuses any other row);
\* each command names the receipt that its predecessor in the chain produced,
\* so none is lost or applied to an admission its author did not see.
HistoryMatchesRow ==
    \A o \in Op :
        LET row == queue[o]
            n == Len(row.history)
            last == row.history[n] IN
        Exists(row) =>
            IF n = 0 THEN row.due = row.admitted /\ row.state # "cancelled"
            ELSE /\ row.due = last.due
                 /\ (row.state = "cancelled") <=> (last.action = "cancel")
                 /\ \A i \in 1..n-1 : row.history[i].action = "reschedule"
                 /\ \A i \in 1..n : row.history[i].expected = i - 1

\* A settled or abandoned attempt is final: a model answer that arrives late
\* cannot revive an abandoned proposal.
SettlementIsFinal ==
    [][\A o \in Op : proposals[o].state \in {"ready", "failed", "abandoned"}
            => proposals'[o] = proposals[o]]_vars

\* A due admission of the queue workers' principal does not stay so: it gets
\* claimed, rejected, cancelled or moved to a later time.
DueIsServed == \A o \in Op : Mine(o) ~> ~Mine(o)

\* Operations go the way OnceTask allows: the stage of each is read off its
\* admission and its proposal.
Stage(o) == IF queue[o].state \in {"rejected", "cancelled"} THEN "withdrawn"
            ELSE IF Unclaimed(o) THEN "open"
            ELSE IF proposals[o].state = "unsettled" THEN "taken"
            ELSE "settled"
Stages == [o \in Op |-> Stage(o)]

Once == INSTANCE OnceTask WITH task <- Stages, calls <- modelCalls
RunsOnce == Once!Spec

-----------------------------------------------------------------------------
(* The inductive invariant that the proofs of WikiGenerationProofs rest on. *)

\* A call past its claim and before its invocation of the model is the only
\* one, its operation has a proposal, and the model was not invoked for it.
ClaimIsExclusive ==
    /\ \A c \in Caller : calls[c].at = "claimed" =>
            ~Unclaimed(calls[c].op) /\ modelCalls[calls[c].op] = 0
    /\ \A c, d \in Caller :
            calls[c].at = "claimed" /\ calls[d].at = "claimed"
                /\ calls[c].op = calls[d].op => c = d
    /\ \A c \in Caller : calls[c].at = "settling" =>
            calls[c].outcome \in {"ready", "failed"}

\* The model is invoked only for an operation with a proposal.
CalledIsClaimed == \A o \in Op : modelCalls[o] # 0 => ~Unclaimed(o)

IInv == /\ TypeOK
        /\ AtMostOnce
        /\ ClaimIsExclusive
        /\ CalledIsClaimed
        /\ WithdrawnNeverRuns
=============================================================================
