----------------------------- MODULE WikiProofs -----------------------------
(***************************************************************************)
(* Theorems about the two ways a Wiki page comes about: the generation     *)
(* queue (WikiGeneration), for any operations, principals, callers,        *)
(* commands and bounds, and the compilation jobs that publish a page       *)
(* (WikiPublication), for any number of processes, keys and inodes.        *)
(***************************************************************************)
EXTENDS WikiGeneration, WikiPublication, TLAPS

----------------------------------------------------------------------------
(* The queue.  IInv says why the model is invoked at most once: the        *)
(* insertion of the proposal lets a single call past the claim, and        *)
(* proposals are never deleted, so no later call gets there.               *)

LEMMA IdleCallType == /\ IdleCall \in Call
                      /\ IdleCall.at = "idle"
                      /\ AnyRequest \in Request
  BY GenerationAssumption DEF IdleCall, Call, AnyRequest, Request

LEMMA RequestsTyped == Requests \subseteq Request
  BY GenerationAssumption DEF Requests, Request

LEMMA InitInvariant == Init => IInv
<1> SUFFICES ASSUME Init PROVE IInv
  OBVIOUS
<1> USE GenerationAssumption, IdleCallType DEF Init
<1>1. NoRow \in Row /\ NoProposal \in Proposal
  <2>1. << >> \in Seq(Control)
    OBVIOUS
  <2> QED
    BY <2>1 DEF NoRow, Row, NoProposal, Proposal
<1>2. TypeOK
  BY <1>1 DEF TypeOK
<1>3. AtMostOnce /\ CalledIsClaimed
  BY DEF AtMostOnce, CalledIsClaimed
<1>4. ClaimIsExclusive
  BY DEF ClaimIsExclusive
<1>5. WithdrawnNeverRuns
  BY DEF WithdrawnNeverRuns, NoRow
<1> QED
  BY <1>2, <1>3, <1>4, <1>5 DEF IInv

\* A rejection changes the state of an admission and nothing else.
LEMMA RejectedRow ==
  ASSUME NEW row \in Row
  PROVE  [row EXCEPT !.state = "rejected"] \in Row
BY DEF Row

(* Rows, proposals and calls keep their types. *)
LEMMA TypeStep == TypeOK /\ ClaimIsExclusive /\ [Next]_vars => TypeOK'
<1> SUFFICES ASSUME TypeOK /\ ClaimIsExclusive, [Next]_vars PROVE TypeOK'
  OBVIOUS
<1> USE GenerationAssumption, IdleCallType DEF TypeOK, ClaimIsExclusive
<1>1. CASE Publish
  BY <1>1 DEF Publish
<1>2. ASSUME NEW o \in Op, NEW r \in Requests, NEW due \in 0..MaxClock,
               Enqueue(o, r, due)
      PROVE  TypeOK'
  <2>1. [state |-> "queued", request |-> r, admitted |-> due,
         due |-> due, history |-> << >>] \in Row
    <3>1. << >> \in Seq(Control) /\ r \in Request /\ due \in Nat
      BY RequestsTyped
    <3> QED
      BY <3>1 DEF Row
  <2> QED
    BY <1>2, <2>1 DEF Enqueue
<1>3. ASSUME NEW o \in Op, NEW id \in Command, NEW due \in 0..MaxClock,
               NEW expected \in 0..MaxHistory,
               NEW action \in {"cancel", "reschedule"},
               ControlQueue(o, id, action, due, expected)
      PROVE  TypeOK'
  <2> DEFINE newDue == IF action = "reschedule" THEN due ELSE queue[o].due
             newState == IF action = "cancel" THEN "cancelled" ELSE "queued"
             entry == [id |-> id, action |-> action, due |-> newDue,
                       expected |-> expected]
             chain == Append(queue[o].history, entry)
             row == [queue[o] EXCEPT !.due = newDue, !.state = newState,
                                     !.history = chain]
  <2>1. newDue \in Nat /\ expected \in Nat /\ newState \in {"queued", "cancelled"}
    BY DEF Row
  <2>2. entry \in Control
    BY <2>1 DEF Control
  <2>3. chain \in Seq(Control)
    <3>1. queue[o].history \in Seq(Control)
      BY DEF Row
    <3> QED
      BY <2>2, <3>1
  <2>4. row \in Row
    <3> HIDE DEF newDue, newState, entry, chain
    <3> QED
      BY <2>1, <2>3 DEF Row
  <2>5. queue' = [queue EXCEPT ![o] = row]
    BY <1>3 DEF ControlQueue
  <2> QED
    BY <1>3, <2>4, <2>5 DEF ControlQueue
<1>4. ASSUME NEW o \in Op, Abandon(o)
      PROVE  TypeOK'
  BY <1>4 DEF Abandon, Proposal
<1>5. ASSUME NEW c \in Caller, NEW o \in Op, NEW r \in Requests,
               GenerateDirectly(c, o, r)
      PROVE  TypeOK'
  BY <1>5, RequestsTyped DEF GenerateDirectly, Call
<1>6. ASSUME NEW c \in Caller, NEW o \in Op, SelectDue(c, o)
      PROVE  TypeOK'
  BY <1>6 DEF SelectDue, Call, Row
<1>7. ASSUME NEW c \in Caller, ReadPrevious(c)
      PROVE  TypeOK'
  BY <1>7 DEF ReadPrevious, Goto, Return, ValueError, Call
<1>8. ASSUME NEW c \in Caller, NEW valid \in BOOLEAN,
               ReadContext(c, valid)
      PROVE  TypeOK'
  BY <1>8 DEF ReadContext, Goto, Return, ValueError, Call
<1>9. ASSUME NEW c \in Caller, Claim(c)
      PROVE  TypeOK'
  BY <1>9 DEF Claim, Goto, Free, Call, Proposal
<1>10. ASSUME NEW c \in Caller, ClaimFails(c)
      PROVE  TypeOK'
  BY <1>10 DEF ClaimFails, Goto, Return, ValueError, Call
<1>11. ASSUME NEW c \in Caller, InvokeModel(c)
      PROVE  TypeOK'
  BY <1>11 DEF InvokeModel, Goto, Call
<1>12. ASSUME NEW c \in Caller, NEW outcome \in {"ready", "failed"},
               ModelReturns(c, outcome)
      PROVE  TypeOK'
  BY <1>12 DEF ModelReturns, Call
<1>13. ASSUME NEW c \in Caller, Settle(c)
      PROVE  TypeOK'
  <2> DEFINE o == calls[c].op
  <2>1. calls' \in [Caller -> Call]
    BY <1>13 DEF Settle, Goto, Return, ValueError, Call
  <2>2. CASE proposals' = [proposals EXCEPT ![o].state = calls[c].outcome]
    <3>1. proposals' \in [Op -> Proposal]
      BY <1>13, <2>2 DEF Settle, Call, Proposal
    <3> QED
      BY <1>13, <2>1, <3>1 DEF Settle
  <2>3. CASE proposals' = proposals
    BY <1>13, <2>1, <2>3 DEF Settle
  <2> QED
    BY <1>13, <2>2, <2>3 DEF Settle
<1>14. ASSUME NEW c \in Caller, Reject(c)
      PROVE  TypeOK'
  <2>1. queue' \in [Op -> Row]
    <3>1. CASE queue' = queue
      BY <3>1
    <3>2. CASE queue' = [queue EXCEPT ![calls[c].op].state = "rejected"]
      <4>1. calls[c] \in Call
        OBVIOUS
      <4>2. calls[c].op \in Op
        BY <4>1 DEF Call
      <4>3. queue[calls[c].op] \in Row
        BY <4>2
      <4>4. [queue[calls[c].op] EXCEPT !.state = "rejected"] \in Row
        BY <4>3, RejectedRow
      <4> QED
        BY <3>2, <4>2, <4>4
    <3> QED
      BY <1>14, <3>1, <3>2 DEF Reject
  <2> QED
    BY <1>14, <2>1 DEF Reject, Return
<1>15. ASSUME NEW c \in Caller, Crash(c)
      PROVE  TypeOK'
  BY <1>15 DEF Crash, Return
<1>16. CASE Tick
  BY <1>16 DEF Tick
<1>17. CASE UNCHANGED vars
  BY <1>17 DEF vars
<1> QED
  BY <1>1, <1>2, <1>3, <1>4, <1>5, <1>6, <1>7, <1>8,
     <1>9, <1>10, <1>11, <1>12, <1>13, <1>14, <1>15, <1>16, <1>17
  DEF Next, Administer, Proceed

(* Only one call ever gets past the claim of an operation. *)
LEMMA ClaimStep == TypeOK /\ ClaimIsExclusive /\ CalledIsClaimed /\ [Next]_vars => ClaimIsExclusive'
<1> SUFFICES ASSUME TypeOK /\ ClaimIsExclusive /\ CalledIsClaimed, [Next]_vars PROVE ClaimIsExclusive'
  OBVIOUS
<1> USE GenerationAssumption, IdleCallType DEF TypeOK, ClaimIsExclusive, CalledIsClaimed, Unclaimed, Exists, Call
<1>1. CASE Publish
  BY <1>1 DEF Publish
<1>2. ASSUME NEW o \in Op, NEW r \in Requests, NEW due \in 0..MaxClock,
               Enqueue(o, r, due)
      PROVE  ClaimIsExclusive'
  BY <1>2 DEF Enqueue
<1>3. ASSUME NEW o \in Op, NEW id \in Command, NEW due \in 0..MaxClock,
               NEW expected \in 0..MaxHistory,
               NEW action \in {"cancel", "reschedule"},
               ControlQueue(o, id, action, due, expected)
      PROVE  ClaimIsExclusive'
  BY <1>3 DEF ControlQueue
<1>4. ASSUME NEW o \in Op, Abandon(o)
      PROVE  ClaimIsExclusive'
  BY <1>4 DEF Abandon, Proposal
<1>5. ASSUME NEW c \in Caller, NEW o \in Op, NEW r \in Requests,
               GenerateDirectly(c, o, r)
      PROVE  ClaimIsExclusive'
  BY <1>5 DEF GenerateDirectly
<1>6. ASSUME NEW c \in Caller, NEW o \in Op, SelectDue(c, o)
      PROVE  ClaimIsExclusive'
  BY <1>6 DEF SelectDue
<1>7. ASSUME NEW c \in Caller, ReadPrevious(c)
      PROVE  ClaimIsExclusive'
  BY <1>7 DEF ReadPrevious, Goto, Return, ValueError
<1>8. ASSUME NEW c \in Caller, NEW valid \in BOOLEAN,
               ReadContext(c, valid)
      PROVE  ClaimIsExclusive'
  <2>1. /\ calls' = [calls EXCEPT ![c] = calls'[c]]
        /\ calls'[c].at \in {"claiming", "rejecting", "idle"}
    BY <1>8 DEF ReadContext, Goto, Return, ValueError
  <2>2. UNCHANGED <<proposals, modelCalls>>
    BY <1>8 DEF ReadContext
  <2> QED
    BY <2>1, <2>2
<1>9. ASSUME NEW c \in Caller, Claim(c)
      PROVE  ClaimIsExclusive'
  BY <1>9 DEF Claim, Goto, Free
<1>10. ASSUME NEW c \in Caller, ClaimFails(c)
      PROVE  ClaimIsExclusive'
  BY <1>10 DEF ClaimFails, Goto, Return, ValueError
<1>11. ASSUME NEW c \in Caller, InvokeModel(c)
      PROVE  ClaimIsExclusive'
  BY <1>11 DEF InvokeModel, Goto
<1>12. ASSUME NEW c \in Caller, NEW outcome \in {"ready", "failed"},
               ModelReturns(c, outcome)
      PROVE  ClaimIsExclusive'
  BY <1>12 DEF ModelReturns
<1>13. ASSUME NEW c \in Caller, Settle(c)
      PROVE  ClaimIsExclusive'
  <2>1. /\ calls' = [calls EXCEPT ![c] = calls'[c]]
        /\ calls'[c].at \in {"rejecting", "idle"}
    BY <1>13 DEF Settle, Goto, Return, ValueError
  <2>2. modelCalls' = modelCalls
    BY <1>13 DEF Settle
  <2>3. \A o \in Op : Exists(proposals[o]) => Exists(proposals'[o])
    BY <1>13 DEF Settle, Exists, Proposal
  <2>4. \A d \in Caller : calls'[d].at \in {"claimed", "settling"} =>
            d # c /\ calls'[d] = calls[d]
    BY <2>1
  <2>5. \A d \in Caller : calls'[d].at = "claimed" =>
            Exists(proposals'[calls'[d].op]) /\ modelCalls'[calls'[d].op] = 0
    BY <2>2, <2>3, <2>4
  <2> QED
    BY <2>4, <2>5
<1>14. ASSUME NEW c \in Caller, Reject(c)
      PROVE  ClaimIsExclusive'
  BY <1>14 DEF Reject, Return, Rejectable, Due
<1>15. ASSUME NEW c \in Caller, Crash(c)
      PROVE  ClaimIsExclusive'
  BY <1>15 DEF Crash, Return
<1>16. CASE Tick
  BY <1>16 DEF Tick
<1>17. CASE UNCHANGED vars
  BY <1>17 DEF vars
<1> QED
  BY <1>1, <1>2, <1>3, <1>4, <1>5, <1>6, <1>7, <1>8,
     <1>9, <1>10, <1>11, <1>12, <1>13, <1>14, <1>15, <1>16, <1>17
  DEF Next, Administer, Proceed

(* The call past the claim invokes a model that was not invoked before. *)
LEMMA OnceStep == TypeOK /\ ClaimIsExclusive /\ AtMostOnce /\ CalledIsClaimed /\ [Next]_vars => (AtMostOnce /\ CalledIsClaimed)'
<1> SUFFICES ASSUME TypeOK /\ ClaimIsExclusive /\ AtMostOnce /\ CalledIsClaimed, [Next]_vars PROVE (AtMostOnce /\ CalledIsClaimed)'
  OBVIOUS
<1> USE GenerationAssumption, IdleCallType DEF TypeOK, ClaimIsExclusive, AtMostOnce, CalledIsClaimed, Unclaimed, Exists, Call
<1>1. CASE Publish
  BY <1>1 DEF Publish
<1>2. ASSUME NEW o \in Op, NEW r \in Requests, NEW due \in 0..MaxClock,
               Enqueue(o, r, due)
      PROVE  (AtMostOnce /\ CalledIsClaimed)'
  BY <1>2 DEF Enqueue
<1>3. ASSUME NEW o \in Op, NEW id \in Command, NEW due \in 0..MaxClock,
               NEW expected \in 0..MaxHistory,
               NEW action \in {"cancel", "reschedule"},
               ControlQueue(o, id, action, due, expected)
      PROVE  (AtMostOnce /\ CalledIsClaimed)'
  BY <1>3 DEF ControlQueue
<1>4. ASSUME NEW o \in Op, Abandon(o)
      PROVE  (AtMostOnce /\ CalledIsClaimed)'
  BY <1>4 DEF Abandon, Proposal
<1>5. ASSUME NEW c \in Caller, NEW o \in Op, NEW r \in Requests,
               GenerateDirectly(c, o, r)
      PROVE  (AtMostOnce /\ CalledIsClaimed)'
  BY <1>5 DEF GenerateDirectly
<1>6. ASSUME NEW c \in Caller, NEW o \in Op, SelectDue(c, o)
      PROVE  (AtMostOnce /\ CalledIsClaimed)'
  BY <1>6 DEF SelectDue
<1>7. ASSUME NEW c \in Caller, ReadPrevious(c)
      PROVE  (AtMostOnce /\ CalledIsClaimed)'
  BY <1>7 DEF ReadPrevious, Goto, Return, ValueError
<1>8. ASSUME NEW c \in Caller, NEW valid \in BOOLEAN,
               ReadContext(c, valid)
      PROVE  (AtMostOnce /\ CalledIsClaimed)'
  BY <1>8 DEF ReadContext, Goto, Return, ValueError
<1>9. ASSUME NEW c \in Caller, Claim(c)
      PROVE  (AtMostOnce /\ CalledIsClaimed)'
  BY <1>9 DEF Claim, Goto, Free
<1>10. ASSUME NEW c \in Caller, ClaimFails(c)
      PROVE  (AtMostOnce /\ CalledIsClaimed)'
  BY <1>10 DEF ClaimFails, Goto, Return, ValueError
<1>11. ASSUME NEW c \in Caller, InvokeModel(c)
      PROVE  (AtMostOnce /\ CalledIsClaimed)'
  BY <1>11 DEF InvokeModel, Goto
<1>12. ASSUME NEW c \in Caller, NEW outcome \in {"ready", "failed"},
               ModelReturns(c, outcome)
      PROVE  (AtMostOnce /\ CalledIsClaimed)'
  BY <1>12 DEF ModelReturns
<1>13. ASSUME NEW c \in Caller, Settle(c)
      PROVE  (AtMostOnce /\ CalledIsClaimed)'
  BY <1>13 DEF Settle, Goto, Return, ValueError, Settleable, Proposal
<1>14. ASSUME NEW c \in Caller, Reject(c)
      PROVE  (AtMostOnce /\ CalledIsClaimed)'
  BY <1>14 DEF Reject, Return, Rejectable, Due
<1>15. ASSUME NEW c \in Caller, Crash(c)
      PROVE  (AtMostOnce /\ CalledIsClaimed)'
  BY <1>15 DEF Crash, Return
<1>16. CASE Tick
  BY <1>16 DEF Tick
<1>17. CASE UNCHANGED vars
  BY <1>17 DEF vars
<1> QED
  BY <1>1, <1>2, <1>3, <1>4, <1>5, <1>6, <1>7, <1>8,
     <1>9, <1>10, <1>11, <1>12, <1>13, <1>14, <1>15, <1>16, <1>17
  DEF Next, Administer, Proceed

(* What is withdrawn has no proposal and gets none. *)
LEMMA WithdrawnStep == TypeOK /\ ClaimIsExclusive /\ CalledIsClaimed /\ WithdrawnNeverRuns /\ [Next]_vars => WithdrawnNeverRuns'
<1> SUFFICES ASSUME TypeOK /\ ClaimIsExclusive /\ CalledIsClaimed /\ WithdrawnNeverRuns, [Next]_vars PROVE WithdrawnNeverRuns'
  OBVIOUS
<1> USE GenerationAssumption, IdleCallType DEF TypeOK, ClaimIsExclusive, CalledIsClaimed, WithdrawnNeverRuns,
    Unclaimed, Exists, Call
<1>1. CASE Publish
  BY <1>1 DEF Publish
<1>2. ASSUME NEW o \in Op, NEW r \in Requests, NEW due \in 0..MaxClock,
               Enqueue(o, r, due)
      PROVE  WithdrawnNeverRuns'
  BY <1>2 DEF Enqueue, Row
<1>3. ASSUME NEW o \in Op, NEW id \in Command, NEW due \in 0..MaxClock,
               NEW expected \in 0..MaxHistory,
               NEW action \in {"cancel", "reschedule"},
               ControlQueue(o, id, action, due, expected)
      PROVE  WithdrawnNeverRuns'
  <2>1. \A p \in Op \ {o} : queue'[p] = queue[p]
    BY <1>3 DEF ControlQueue
  <2>2. Unclaimed(o) /\ modelCalls[o] = 0
    BY <1>3 DEF ControlQueue, Controllable
  <2> QED
    BY <1>3, <2>1, <2>2 DEF ControlQueue
<1>4. ASSUME NEW o \in Op, Abandon(o)
      PROVE  WithdrawnNeverRuns'
  BY <1>4 DEF Abandon, Proposal
<1>5. ASSUME NEW c \in Caller, NEW o \in Op, NEW r \in Requests,
               GenerateDirectly(c, o, r)
      PROVE  WithdrawnNeverRuns'
  BY <1>5 DEF GenerateDirectly
<1>6. ASSUME NEW c \in Caller, NEW o \in Op, SelectDue(c, o)
      PROVE  WithdrawnNeverRuns'
  BY <1>6 DEF SelectDue
<1>7. ASSUME NEW c \in Caller, ReadPrevious(c)
      PROVE  WithdrawnNeverRuns'
  BY <1>7 DEF ReadPrevious, Goto, Return, ValueError
<1>8. ASSUME NEW c \in Caller, NEW valid \in BOOLEAN,
               ReadContext(c, valid)
      PROVE  WithdrawnNeverRuns'
  BY <1>8 DEF ReadContext, Goto, Return, ValueError
<1>9. ASSUME NEW c \in Caller, Claim(c)
      PROVE  WithdrawnNeverRuns'
  BY <1>9 DEF Claim, Goto, Free, Authorized, Proposal
<1>10. ASSUME NEW c \in Caller, ClaimFails(c)
      PROVE  WithdrawnNeverRuns'
  BY <1>10 DEF ClaimFails, Goto, Return, ValueError
<1>11. ASSUME NEW c \in Caller, InvokeModel(c)
      PROVE  WithdrawnNeverRuns'
  BY <1>11 DEF InvokeModel, Goto
<1>12. ASSUME NEW c \in Caller, NEW outcome \in {"ready", "failed"},
               ModelReturns(c, outcome)
      PROVE  WithdrawnNeverRuns'
  BY <1>12 DEF ModelReturns
<1>13. ASSUME NEW c \in Caller, Settle(c)
      PROVE  WithdrawnNeverRuns'
  <2> DEFINE o == calls[c].op
             settles == Settleable(o) /\ proposals[o].request = calls[c].request
  <2>1. CASE settles
    <3>1. proposals' = [proposals EXCEPT ![o].state = calls[c].outcome]
      BY <1>13, <2>1 DEF Settle
    <3>2. calls[c].outcome # "none" /\ proposals[o].state # "none" /\ o \in Op
      BY <1>13, <2>1 DEF Settle, Settleable
    <3>3. \A p \in Op : (proposals'[p].state = "none") <=> (proposals[p].state = "none")
      BY <3>1, <3>2 DEF Proposal
    <3> QED
      BY <1>13, <3>3 DEF Settle
  <2>2. CASE ~settles
    BY <1>13, <2>2 DEF Settle
  <2> QED
    BY <2>1, <2>2
<1>14. ASSUME NEW c \in Caller, Reject(c)
      PROVE  WithdrawnNeverRuns'
  <2> DEFINE o == calls[c].op
  <2>1. CASE Rejectable(o)
    <3>5. o \in Op
      OBVIOUS
    <3>6. proposals[o].state = "none"
      BY <2>1 DEF Rejectable, Due
    <3>4. modelCalls[o] = 0
      BY <3>5, <3>6
    <3>2. \A p \in Op \ {o} : queue'[p] = queue[p]
      BY <1>14, <2>1 DEF Reject
    <3> QED
      BY <1>14, <3>2, <3>4, <3>5, <3>6 DEF Reject
  <2>2. CASE ~Rejectable(o)
    BY <1>14, <2>2 DEF Reject
  <2> QED
    BY <2>1, <2>2
<1>15. ASSUME NEW c \in Caller, Crash(c)
      PROVE  WithdrawnNeverRuns'
  BY <1>15 DEF Crash, Return
<1>16. CASE Tick
  BY <1>16 DEF Tick
<1>17. CASE UNCHANGED vars
  BY <1>17 DEF vars
<1> QED
  BY <1>1, <1>2, <1>3, <1>4, <1>5, <1>6, <1>7, <1>8,
     <1>9, <1>10, <1>11, <1>12, <1>13, <1>14, <1>15, <1>16, <1>17
  DEF Next, Administer, Proceed

(* IInv is an invariant of the generation tables and the calls on them. *)
THEOREM Invariant == Spec => []IInv
<1>1. IInv /\ [Next]_vars => IInv'
  BY TypeStep, ClaimStep, OnceStep, WithdrawnStep DEF IInv
<1> QED
  BY InitInvariant, <1>1, PTL DEF Spec

(* Type correctness of the rows that queue, control and generation write. *)
THEOREM TypeCorrect == Spec => []TypeOK
<1>1. IInv => TypeOK
  BY DEF IInv
<1> QED
  BY Invariant, <1>1, PTL

(* generate() never pays for a second model call of one operation. *)
THEOREM ModelAtMostOnce == Spec => []AtMostOnce
<1>1. IInv => AtMostOnce
  BY DEF IInv
<1> QED
  BY Invariant, <1>1, PTL

(* A cancelled or rejected admission never runs (check_claim, _status). *)
THEOREM Withdrawal == Spec => []WithdrawnNeverRuns
<1>1. IInv => WithdrawnNeverRuns
  BY DEF IInv
<1> QED
  BY Invariant, <1>1, PTL

----------------------------------------------------------------------------
(* What happens to a proposal, and to the stage of an operation *)

\* Three transactions write a proposal: the claim, the settlement and abandon().
LEMMA ProposalWriters ==
  ASSUME [Next]_vars, proposals' # proposals
  PROVE  \/ \E o \in Op : Abandon(o)
         \/ \E c \in Caller : Claim(c) \/ Settle(c)
<1>1. ~ UNCHANGED vars /\ ~Tick
  BY DEF vars, Tick
<1>2. ~Publish
  BY DEF Publish
<1>3. ASSUME NEW c \in Caller
      PROVE  /\ ~ \E o \in Op, r \in Requests : GenerateDirectly(c, o, r)
             /\ ~ReadContext(c, FALSE) /\ ~Crash(c)
  BY DEF GenerateDirectly, ReadContext, Crash
<1>4. ASSUME NEW c \in Caller, Proceed(c)
      PROVE  Claim(c) \/ Settle(c)
  BY <1>4 DEF Proceed, SelectDue, ReadPrevious, ReadContext, ClaimFails, InvokeModel, ModelReturns, Reject
<1>5. \A o \in Op, r \in Requests, due \in 0..MaxClock : ~Enqueue(o, r, due)
  BY DEF Enqueue
<1>6. \A o \in Op, id \in Command, due \in 0..MaxClock, expected \in 0..MaxHistory :
          ~ControlQueue(o, id, "cancel", due, expected) /\ ~ControlQueue(o, id, "reschedule", due, expected)
  BY DEF ControlQueue
<1> QED
  BY <1>1, <1>2, <1>3, <1>4, <1>5, <1>6 DEF Next, Administer

\* Three write an admission: enqueue, the control commands and the rejection.
LEMMA AdmissionWriters ==
  ASSUME [Next]_vars, queue' # queue
  PROVE  \/ \E o \in Op, r \in Requests, due \in 0..MaxClock : Enqueue(o, r, due)
         \/ \E o \in Op, id \in Command, due \in 0..MaxClock, expected \in 0..MaxHistory :
               \E action \in {"cancel", "reschedule"} : ControlQueue(o, id, action, due, expected)
         \/ \E c \in Caller : Reject(c)
<1>1. ~ UNCHANGED vars /\ ~Tick
  BY DEF vars, Tick
<1>2. ~Publish /\ \A o \in Op : ~Abandon(o)
  BY DEF Publish, Abandon
<1>3. ASSUME NEW c \in Caller
      PROVE  /\ ~ \E o \in Op, r \in Requests : GenerateDirectly(c, o, r)
             /\ ~ReadContext(c, FALSE) /\ ~Crash(c)
  BY DEF GenerateDirectly, ReadContext, Crash
<1>4. ASSUME NEW c \in Caller, Proceed(c)
      PROVE  Reject(c)
  BY <1>4 DEF Proceed, SelectDue, ReadPrevious, ReadContext, Claim, ClaimFails, InvokeModel, ModelReturns, Settle
<1> QED
  BY <1>1, <1>2, <1>3, <1>4 DEF Next, Administer

\* Only a call past its claim invokes the model.
LEMMA ModelCallers ==
  ASSUME [Next]_vars, modelCalls' # modelCalls
  PROVE  \E c \in Caller : InvokeModel(c)
<1>1. ~ UNCHANGED vars /\ ~Tick
  BY DEF vars, Tick
<1>2. ~Publish /\ \A o \in Op : ~Abandon(o)
  BY DEF Publish, Abandon
<1>3. ASSUME NEW c \in Caller
      PROVE  /\ ~ \E o \in Op, r \in Requests : GenerateDirectly(c, o, r)
             /\ ~ReadContext(c, FALSE) /\ ~Crash(c)
  BY DEF GenerateDirectly, ReadContext, Crash
<1>4. ASSUME NEW c \in Caller, Proceed(c)
      PROVE  InvokeModel(c)
  BY <1>4 DEF Proceed, SelectDue, ReadPrevious, ReadContext, Claim, ClaimFails, ModelReturns, Settle, Reject
<1>5. \A o \in Op, r \in Requests, due \in 0..MaxClock : ~Enqueue(o, r, due)
  BY DEF Enqueue
<1>6. \A o \in Op, id \in Command, due \in 0..MaxClock, expected \in 0..MaxHistory :
          ~ControlQueue(o, id, "cancel", due, expected) /\ ~ControlQueue(o, id, "reschedule", due, expected)
  BY DEF ControlQueue
<1> QED
  BY <1>1, <1>2, <1>3, <1>4, <1>5, <1>6 DEF Next, Administer

(* A late answer of the model changes nothing of a settled or abandoned      *)
(* proposal: the settlement tests the row it writes.                         *)
THEOREM Settled == Spec => SettlementIsFinal
<1>1. IInv /\ [Next]_vars =>
        [\A o \in Op : proposals[o].state \in {"ready", "failed", "abandoned"}
            => proposals'[o] = proposals[o]]_vars
  <2> SUFFICES ASSUME IInv, [Next]_vars, NEW o \in Op,
                      proposals[o].state \in {"ready", "failed", "abandoned"},
                      proposals' # proposals
               PROVE  proposals'[o] = proposals[o]
    OBVIOUS
  <2> USE DEF IInv, TypeOK
  <2>1. ASSUME NEW p \in Op, Abandon(p) PROVE proposals'[o] = proposals[o]
    BY <2>1 DEF Abandon
  <2>2. ASSUME NEW c \in Caller, Claim(c) PROVE proposals'[o] = proposals[o]
    BY <2>2 DEF Claim, Free, Unclaimed, Exists
  <2>3. ASSUME NEW c \in Caller, Settle(c) PROVE proposals'[o] = proposals[o]
    BY <2>3 DEF Settle, Settleable
  <2> QED
    BY <2>1, <2>2, <2>3, ProposalWriters
<1> QED
  BY Invariant, <1>1, PTL DEF Spec, SettlementIsFinal

----------------------------------------------------------------------------
(* WikiGeneration implements OnceTask *)

\* One operation goes to another stage, and no model is invoked.
LEMMA OneMoves ==
  ASSUME NEW o \in Op, NEW to, UNCHANGED modelCalls,
         Stage(o)' = to, \A p \in Op \ {o} : Stage(p)' = Stage(p)
  PROVE  Once!Move(o, Stage(o), to)
<1>1. Stages' = [Stages EXCEPT ![o] = to]
  BY DEF Stages
<1>2. Stages[o] = Stage(o)
  BY DEF Stages
<1> QED
  BY <1>1, <1>2 DEF Once!Move

\* No operation goes anywhere.
LEMMA NoneMoves ==
  ASSUME UNCHANGED modelCalls, \A p \in Op : Stage(p)' = Stage(p)
  PROVE  UNCHANGED Once!vars
BY DEF Once!vars, Stages

\* A stage is read off the states of the admission and of the proposal.
LEMMA SameStage ==
  ASSUME NEW p \in Op, queue'[p].state = queue[p].state, proposals'[p].state = proposals[p].state
  PROVE  Stage(p)' = Stage(p)
BY DEF Stage, Unclaimed, Exists

\* What is withdrawn has no proposal: a proposal alone decides the stage.
LEMMA ClaimedStage ==
  ASSUME IInv, NEW o \in Op, ~Unclaimed(o)
  PROVE  Stage(o) = IF proposals[o].state = "unsettled" THEN "taken" ELSE "settled"
BY DEF IInv, WithdrawnNeverRuns, Stage

LEMMA ControlMoves ==
  ASSUME IInv, NEW o \in Op, NEW id \in Command, NEW due \in 0..MaxClock, NEW expected \in 0..MaxHistory,
         NEW action \in {"cancel", "reschedule"}, ControlQueue(o, id, action, due, expected)
  PROVE  Once!Next \/ UNCHANGED Once!vars
<1> USE DEF IInv, TypeOK
<1>1. /\ queue[o] \in Row /\ queue[o].state = "queued" /\ Unclaimed(o)
      /\ UNCHANGED <<proposals, modelCalls>>
      /\ \A p \in Op \ {o} : queue'[p] = queue[p]
  BY DEF ControlQueue, Controllable
<1>2. queue'[o].state = IF action = "cancel" THEN "cancelled" ELSE "queued"
  BY <1>1 DEF ControlQueue, Row
<1>3. \A p \in Op \ {o} : Stage(p)' = Stage(p)
  BY <1>1, SameStage
<1>4. CASE action = "cancel"
  <2>1. Stage(o) = "open" /\ Stage(o)' = "withdrawn"
    BY <1>1, <1>2, <1>4 DEF Stage
  <2>2. Once!Withdraw(o)
    BY <1>1, <1>3, <2>1, OneMoves DEF Once!Withdraw
  <2> QED
    BY <2>2 DEF Once!Next
<1>5. CASE action = "reschedule"
  <2>1. Stage(o)' = Stage(o)
    BY <1>1, <1>2, <1>5, SameStage
  <2> QED
    BY <1>1, <1>3, <2>1, NoneMoves
<1> QED
  BY <1>4, <1>5

LEMMA AdmissionMoves ==
  ASSUME IInv, [Next]_vars, queue' # queue
  PROVE  Once!Next \/ UNCHANGED Once!vars
<1> USE DEF IInv, TypeOK
<1>1. ASSUME NEW o \in Op, NEW r \in Requests, NEW due \in 0..MaxClock, Enqueue(o, r, due)
      PROVE  Once!Next \/ UNCHANGED Once!vars
  <2>1. queue[o].state = "none" /\ queue'[o].state = "queued"
    BY <1>1 DEF Enqueue, Exists
  <2>2. \A p \in Op \ {o} : queue'[p] = queue[p]
    BY <1>1 DEF Enqueue
  <2>3. UNCHANGED <<proposals, modelCalls>>
    BY <1>1 DEF Enqueue
  <2>4. \A p \in Op : Stage(p)' = Stage(p)
    BY <2>1, <2>2, <2>3 DEF Stage, Unclaimed, Exists
  <2> QED
    BY <2>3, <2>4, NoneMoves
<1>2. ASSUME NEW o \in Op, NEW id \in Command, NEW due \in 0..MaxClock, NEW expected \in 0..MaxHistory,
             NEW action \in {"cancel", "reschedule"}, ControlQueue(o, id, action, due, expected)
      PROVE  Once!Next \/ UNCHANGED Once!vars
  BY <1>2, ControlMoves
<1>3. ASSUME NEW c \in Caller, Reject(c)
      PROVE  Once!Next \/ UNCHANGED Once!vars
  <2>1. PICK o \in Op : o = calls[c].op
    BY DEF Call
  <2>2. Rejectable(o) /\ UNCHANGED <<proposals, modelCalls>>
    BY <1>3, <2>1 DEF Reject
  <2>3. /\ \A p \in Op \ {o} : queue'[p] = queue[p]
        /\ queue'[o].state = "rejected"
    BY <1>3, <2>1, <2>2 DEF Reject, Row
  <2>4. Stage(o) = "open" /\ Stage(o)' = "withdrawn"
    BY <2>2, <2>3 DEF Stage, Rejectable, Due
  <2>5. \A p \in Op \ {o} : Stage(p)' = Stage(p)
    BY <2>2, <2>3, SameStage
  <2>6. Once!Withdraw(o)
    BY <2>1, <2>2, <2>4, <2>5, OneMoves DEF Once!Withdraw
  <2> QED
    BY <2>1, <2>6 DEF Once!Next
<1> QED
  BY <1>1, <1>2, <1>3, AdmissionWriters

LEMMA ProposalMoves ==
  ASSUME IInv, [Next]_vars, proposals' # proposals
  PROVE  Once!Next \/ UNCHANGED Once!vars
<1> USE DEF IInv, TypeOK
<1>1. ASSUME NEW o \in Op, Abandon(o) PROVE Once!Next
  <2>1. proposals[o].state = "unsettled" /\ UNCHANGED <<queue, modelCalls>>
    BY <1>1 DEF Abandon
  <2>2. /\ \A p \in Op \ {o} : proposals'[p] = proposals[p]
        /\ proposals'[o].state = "abandoned"
    BY <1>1 DEF Abandon, Proposal
  <2>3. Stage(o) = "taken" /\ queue[o].state \notin {"rejected", "cancelled"}
    BY <2>1, ClaimedStage DEF Unclaimed, Exists, WithdrawnNeverRuns
  <2>4. Stage(o)' = "settled"
    BY <2>1, <2>2, <2>3 DEF Stage, Unclaimed, Exists
  <2>5. \A p \in Op \ {o} : Stage(p)' = Stage(p)
    BY <2>1, <2>2, SameStage
  <2>6. Once!Settle(o)
    BY <2>1, <2>3, <2>4, <2>5, OneMoves DEF Once!Settle
  <2> QED
    BY <2>6 DEF Once!Next
<1>2. ASSUME NEW c \in Caller, Claim(c) PROVE Once!Next
  <2>1. PICK o \in Op : o = calls[c].op
    BY DEF Call
  <2>2. Unclaimed(o) /\ Authorized(c) /\ UNCHANGED <<queue, modelCalls>>
    BY <1>2, <2>1 DEF Claim, Free
  <2>3. /\ \A p \in Op \ {o} : proposals'[p] = proposals[p]
        /\ proposals'[o].state = "unsettled"
    BY <1>2, <2>1 DEF Claim
  <2>4. Stage(o) = "open" /\ Stage(o)' = "taken"
    BY <2>1, <2>2, <2>3 DEF Stage, Authorized, Unclaimed, Exists
  <2>5. \A p \in Op \ {o} : Stage(p)' = Stage(p)
    BY <2>2, <2>3, SameStage
  <2>6. Once!Take(o)
    BY <2>1, <2>2, <2>4, <2>5, OneMoves DEF Once!Take
  <2> QED
    BY <2>1, <2>6 DEF Once!Next
<1>3. ASSUME NEW c \in Caller, Settle(c) PROVE Once!Next
  <2>1. PICK o \in Op : o = calls[c].op
    BY DEF Call
  <2>2. calls[c].outcome \in {"ready", "failed"}
    BY <1>3 DEF ClaimIsExclusive, Settle
  <2>3. proposals[o].state = "unsettled" /\ UNCHANGED <<queue, modelCalls>>
    BY <1>3, <2>1 DEF Settle, Settleable
  <2>4. /\ \A p \in Op \ {o} : proposals'[p] = proposals[p]
        /\ proposals'[o].state = calls[c].outcome
    BY <1>3, <2>1 DEF Settle, Proposal
  <2>5. Stage(o) = "taken" /\ queue[o].state \notin {"rejected", "cancelled"}
    BY <2>1, <2>3, ClaimedStage DEF Unclaimed, Exists, WithdrawnNeverRuns
  <2>6. Stage(o)' = "settled"
    BY <2>3, <2>4, <2>5, <2>2 DEF Stage, Unclaimed, Exists
  <2>7. \A p \in Op \ {o} : Stage(p)' = Stage(p)
    BY <2>3, <2>4, SameStage
  <2>8. Once!Settle(o)
    BY <2>1, <2>3, <2>5, <2>6, <2>7, OneMoves DEF Once!Settle
  <2> QED
    BY <2>1, <2>8 DEF Once!Next
<1> QED
  BY <1>1, <1>2, <1>3, ProposalWriters

LEMMA ModelMoves ==
  ASSUME IInv, NEW c \in Caller, InvokeModel(c)
  PROVE  Once!Next
<1> USE DEF IInv, TypeOK
<1> DEFINE o == calls[c].op
<1>1. o \in Op /\ ~Unclaimed(o) /\ modelCalls[o] = 0
  BY DEF Call, ClaimIsExclusive, InvokeModel
<1>2. modelCalls' = [modelCalls EXCEPT ![o] = 1] /\ UNCHANGED <<queue, proposals>>
  BY <1>1 DEF InvokeModel
<1>3. Stages[o] \in {"taken", "settled"}
  BY <1>1, ClaimedStage DEF Stages
<1>4. Stages' = Stages
  BY <1>2 DEF Stages, Stage, Unclaimed, Exists
<1>5. Once!Invoke(o)
  BY <1>1, <1>2, <1>3, <1>4 DEF Once!Invoke
<1> QED
  BY <1>1, <1>5 DEF Once!Next

(* The queue implements OnceTask: an admission is withdrawn by a cancellation *)
(* or a rejection, taken by the claim of generate(), settled or abandoned     *)
(* once, and every other step is invisible.                                   *)
THEOREM Implementation == Spec => RunsOnce
<1>1. Init => Once!Init
  BY DEF Init, Once!Init, Stages, Stage, NoRow, NoProposal, Unclaimed, Exists
<1>2. IInv /\ [Next]_vars => [Once!Next]_(Once!vars)
  <2> SUFFICES ASSUME IInv, [Next]_vars
               PROVE  Once!Next \/ UNCHANGED Once!vars
    OBVIOUS
  <2>1. CASE UNCHANGED <<queue, proposals, modelCalls>>
    BY <2>1, NoneMoves DEF Stage, Unclaimed, Exists
  <2>2. CASE modelCalls' # modelCalls
    BY <2>2, ModelCallers, ModelMoves
  <2> QED
    BY <2>1, <2>2, AdmissionMoves, ProposalMoves
<1> QED
  BY Invariant, <1>1, <1>2, PTL DEF Spec, RunsOnce, Once!Spec

----------------------------------------------------------------------------
(* The row of an admission and its control history *)

\* What HistoryMatchesRow says of one row.
Matches(row) ==
    LET n == Len(row.history)
        last == row.history[n] IN
    IF n = 0 THEN row.due = row.admitted /\ row.state # "cancelled"
    ELSE /\ row.due = last.due
         /\ (row.state = "cancelled") <=> (last.action = "cancel")
         /\ \A i \in 1..n-1 : row.history[i].action = "reschedule"
         /\ \A i \in 1..n : row.history[i].expected = i - 1

LEMMA RowByRow == HistoryMatchesRow <=> \A o \in Op : Exists(queue[o]) => Matches(queue[o])
BY DEF HistoryMatchesRow, Matches

\* A command of the control appended to a row that is queued.
LEMMA MatchesAppended ==
  ASSUME NEW row \in Row, row.state = "queued", Matches(row),
         NEW entry \in Control, entry.expected = Len(row.history),
         NEW new \in Row, new.history = Append(row.history, entry), new.due = entry.due,
         new.state = "cancelled" <=> entry.action = "cancel"
  PROVE  Matches(new)
<1> DEFINE h == row.history
           n == Len(h)
<1>1. h \in Seq(Control) /\ n \in Nat
  BY DEF Row
<1>2. /\ Len(new.history) = n + 1
      /\ new.history[n + 1] = entry
      /\ \A i \in 1..n : new.history[i] = h[i]
  BY <1>1
<1>3. \A i \in 1..n : h[i].expected = i - 1
  BY <1>1 DEF Matches
<1>4. \A i \in 1..n : h[i].action = "reschedule"
  <2>1. \A i \in 1..n-1 : h[i].action = "reschedule"
    BY <1>1 DEF Matches
  <2>2. n # 0 => h[n].action = "reschedule"
    <3>1. n # 0 => h[n].action # "cancel"
      BY <1>1 DEF Matches
    <3>2. n # 0 => h[n] \in Control
      BY <1>1
    <3> QED
      BY <3>1, <3>2 DEF Control
  <2> QED
    BY <1>1, <2>1, <2>2
<1>5. \A i \in 1..n+1 : new.history[i].expected = i - 1
  BY <1>1, <1>2, <1>3
<1>6. \A i \in 1..n : new.history[i].action = "reschedule"
  BY <1>2, <1>4
<1> HIDE DEF h, n
<1> QED
  BY <1>1, <1>2, <1>5, <1>6 DEF Matches

LEMMA HistoryStep == IInv /\ HistoryMatchesRow /\ [Next]_vars => HistoryMatchesRow'
<1> SUFFICES ASSUME IInv, \A o \in Op : Exists(queue[o]) => Matches(queue[o]), [Next]_vars,
                    queue' # queue
             PROVE  \A o \in Op : Exists(queue'[o]) => Matches(queue'[o])
  <2>1. HistoryMatchesRow' <=> \A o \in Op : Exists(queue'[o]) => Matches(queue'[o])
    BY DEF HistoryMatchesRow, Matches, Exists
  <2> QED
    BY <2>1, RowByRow
<1> USE DEF IInv, TypeOK
<1>1. ASSUME NEW o \in Op, NEW r \in Requests, NEW due \in 0..MaxClock, Enqueue(o, r, due)
      PROVE  \A p \in Op : Exists(queue'[p]) => Matches(queue'[p])
  <2>1. \A p \in Op \ {o} : queue'[p] = queue[p]
    BY <1>1 DEF Enqueue
  <2>2. /\ queue'[o].state = "queued" /\ queue'[o].due = queue'[o].admitted
        /\ queue'[o].history = << >>
    BY <1>1 DEF Enqueue
  <2>3. Matches(queue'[o])
    BY <2>2 DEF Matches
  <2> QED
    BY <2>1, <2>3
<1>2. ASSUME NEW o \in Op, NEW id \in Command, NEW due \in 0..MaxClock, NEW expected \in 0..MaxHistory,
             NEW action \in {"cancel", "reschedule"}, ControlQueue(o, id, action, due, expected)
      PROVE  \A p \in Op : Exists(queue'[p]) => Matches(queue'[p])
  <2> DEFINE newDue == IF action = "reschedule" THEN due ELSE queue[o].due
             entry == [id |-> id, action |-> action, due |-> newDue, expected |-> expected]
  <2>1. \A p \in Op \ {o} : queue'[p] = queue[p]
    BY <1>2 DEF ControlQueue
  <2>2. queue[o] \in Row /\ queue[o].state = "queued" /\ expected = Len(queue[o].history)
    BY <1>2 DEF ControlQueue, Controllable, SeesCurrent
  <2>3. queue'[o] \in Row
    <3>1. TypeOK'
      BY TypeStep
    <3> QED
      BY <3>1
  <2>4. queue'[o] = [queue[o] EXCEPT !.due = newDue,
                                     !.state = IF action = "cancel" THEN "cancelled" ELSE "queued",
                                     !.history = Append(queue[o].history, entry)]
    BY <1>2 DEF ControlQueue
  <2>5. entry \in Control
    BY <2>2, GenerationAssumption DEF Control, Row
  <2>6. entry.expected = Len(queue[o].history) /\ entry.due = newDue /\ entry.action = action
    BY <2>2
  <2>7. /\ queue'[o].due = newDue
        /\ queue'[o].history = Append(queue[o].history, entry)
        /\ queue'[o].state = "cancelled" <=> action = "cancel"
    <3> HIDE DEF newDue, entry
    <3> QED
      BY <2>2, <2>4 DEF Row
  <2>8. Matches(queue[o])
    BY <2>2 DEF Exists
  <2>9. Matches(queue'[o])
    <3> HIDE DEF newDue, entry
    <3> QED
      BY <2>2, <2>3, <2>5, <2>6, <2>7, <2>8, MatchesAppended
  <2> QED
    BY <2>1, <2>9
<1>3. ASSUME NEW c \in Caller, Reject(c)
      PROVE  \A p \in Op : Exists(queue'[p]) => Matches(queue'[p])
  <2>1. PICK o \in Op : o = calls[c].op
    BY DEF Call
  <2>2. queue[o] \in Row /\ queue[o].state = "queued"
    BY <1>3, <2>1 DEF Reject, Rejectable, Due
  <2>3. /\ \A p \in Op \ {o} : queue'[p] = queue[p]
        /\ queue'[o] = [queue[o] EXCEPT !.state = "rejected"]
    BY <1>3, <2>1 DEF Reject
  <2>4. /\ queue'[o].state = "rejected" /\ queue'[o].due = queue[o].due
        /\ queue'[o].admitted = queue[o].admitted /\ queue'[o].history = queue[o].history
    BY <2>2, <2>3 DEF Row
  <2>5. Matches(queue'[o])
    BY <2>2, <2>4 DEF Matches, Exists
  <2> QED
    BY <2>3, <2>5
<1> QED
  BY <1>1, <1>2, <1>3, AdmissionWriters

(* The row of an admission is what the chain of its control commands says:   *)
(* history() of the queue control finds every row consistent.                *)
THEOREM HistoryIsTheRow == Spec => []HistoryMatchesRow
<1>1. Init => HistoryMatchesRow
  BY DEF Init, HistoryMatchesRow, NoRow, Exists
<1> QED
  BY Invariant, HistoryStep, <1>1, PTL DEF Spec

----------------------------------------------------------------------------
(* Compilation and publication.  A key is running while a process has it   *)
(* (KeysStep); behind a link there is a page or an archive (LinkedStep);   *)
(* who publishes alone finds the names as it has left them (NamesStep).    *)

(* None is no process, key or inode, and no key is torn.                   *)
LEMMA NoneIsNothing == None \notin Worker \cup Key \cup Inode \cup {Retirer} /\ Torn \notin Key /\ Retirer \notin Worker
  BY PublicationAssumption

(* What a step does to the attempt of a process keeps its type.            *)
LEMMA AttemptTypes ==
    ASSUME PublicationTypeOK, NEW w \in Worker
    PROVE  /\ Idle \in Attempt
           /\ \A stage \in Publishing \cup {"releasing"} : [worker EXCEPT ![w].at = stage] \in [Worker -> Attempt]
           /\ \A stage \in Publishing \cup {"releasing"}, i \in Inode \cup {None} :
                 [worker EXCEPT ![w].at = stage, ![w].open = i] \in [Worker -> Attempt]
<1>1. worker[w] \in Attempt /\ worker \in [Worker -> Attempt]
  BY DEF PublicationTypeOK
<1>2. Idle \in Attempt
  BY DEF Idle, Attempt
<1>3. ASSUME NEW stage \in Publishing \cup {"releasing"} PROVE [worker EXCEPT ![w].at = stage] \in [Worker -> Attempt]
  <2>1. [worker[w] EXCEPT !.at = stage] \in Attempt
    BY <1>1 DEF Attempt
  <2> QED
    BY <1>1, <2>1
<1>4. ASSUME NEW stage \in Publishing \cup {"releasing"}, NEW i \in Inode \cup {None}
      PROVE  [worker EXCEPT ![w].at = stage, ![w].open = i] \in [Worker -> Attempt]
  <2>1. [worker[w] EXCEPT !.at = stage, !.open = i] \in Attempt
    BY <1>1 DEF Attempt
  <2>2. [worker EXCEPT ![w].at = stage, ![w].open = i] = [worker EXCEPT ![w] = [worker[w] EXCEPT !.at = stage, !.open = i]]
    BY <1>1
  <2> QED
    BY <1>1, <2>1, <2>2
<1> QED
  BY <1>2, <1>3, <1>4

(* Every step keeps the types.                                             *)
LEMMA PublicationTypeStep ==
    ASSUME PublicationTypeOK, KeysAreRunning, LinkedIsKept, [PublicationNext]_publicationVars
    PROVE  PublicationTypeOK'
<1> USE DEF PublicationTypeOK, files, manifest, history
<1>1. CASE UNCHANGED publicationVars
  BY <1>1 DEF publicationVars
<1>2. ASSUME NEW w \in Worker, NEW k \in Key, ClaimJob(w, k) PROVE PublicationTypeOK'
  <2>1. [at |-> "compiling", key |-> k, open |-> None] \in Attempt
    BY DEF Attempt, Publishing
  <2> QED
    BY <1>2, <2>1 DEF ClaimJob
<1>3. ASSUME NEW w \in Worker, BeginPublish(w) PROVE PublicationTypeOK'
  <2>1. worker' \in [Worker -> Attempt]
    BY <1>3, AttemptTypes DEF BeginPublish, WorkerAt, Publishing
  <2>2. overlap' \in BOOLEAN
    BY <1>3 DEF BeginPublish
  <2> QED
    BY <1>3, <2>1, <2>2 DEF BeginPublish
<1>4. ASSUME NEW w \in Worker, Create(w) PROVE PublicationTypeOK'
  <2>1. PICK i \in Inode : /\ temp' = i /\ text' = [text EXCEPT ![i] = Torn]
                           /\ worker' = [worker EXCEPT ![w].at = "writing", ![w].open = i]
    BY <1>4 DEF Create, FreeInode
  <2>2. worker' \in [Worker -> Attempt]
    BY <2>1, AttemptTypes DEF Publishing
  <2> QED
    BY <1>4, <2>1, <2>2 DEF Create
<1>5. ASSUME NEW w \in Worker, Write(w) PROVE PublicationTypeOK'
  <2>1. worker[w].key \in Key
    BY <1>5 DEF Write, KeysAreRunning
  <2>2. worker' \in [Worker -> Attempt]
    BY <1>5, AttemptTypes DEF Write, Publishing
  <2>3. text' \in [Inode -> Key \cup {Torn}]
    BY <1>5, <2>1 DEF Write
  <2> QED
    BY <1>5, <2>2, <2>3 DEF Write
<1>6. ASSUME NEW w \in Worker, Link(w) \/ Unlink(w) PROVE PublicationTypeOK'
  <2>0. PICK stage \in Publishing \cup {"releasing"} : worker' = [worker EXCEPT ![w].at = stage]
    BY <1>6 DEF Link, Unlink, Publishing, WorkerAt
  <2>1. worker' \in [Worker -> Attempt]
    BY <2>0, AttemptTypes
  <2> QED
    BY <1>6, <2>1 DEF Link, Unlink
<1>7. ASSUME NEW w \in Worker, OpenManifest(w) \/ WriteManifest(w) PROVE PublicationTypeOK'
  <2>0. PICK stage \in Publishing : worker' = [worker EXCEPT ![w].at = stage]
    BY <1>7 DEF OpenManifest, WriteManifest, Publishing, WorkerAt
  <2>1. worker' \in [Worker -> Attempt]
    BY <2>0, AttemptTypes
  <2>2. record' \in Line \cup {None}
    BY <1>7 DEF OpenManifest, WriteManifest, Line, KeysAreRunning
  <2> QED
    BY <1>7, <2>1, <2>2 DEF OpenManifest, WriteManifest
<1>8. ASSUME NEW w \in Worker, Complete(w) \/ Release(w) PROVE PublicationTypeOK'
  <2>1. worker' \in [Worker -> Attempt]
    BY <1>8, AttemptTypes DEF Complete, Release
  <2>2. jobs' \in [Key -> {"none", "running", "succeeded"}]
    BY <1>8 DEF Complete, Release
  <2> QED
    BY <1>8, <2>1, <2>2 DEF Complete, Release
<1>9. ASSUME NEW w \in Worker, Raise(w) \/ Die(w) PROVE PublicationTypeOK'
  <2>1. CASE Raise(w)
    BY <2>1, AttemptTypes DEF Raise, Unlocked
  <2>2. CASE Die(w)
    BY <2>2, AttemptTypes DEF Die, Unlocked
  <2> QED
    BY <1>9, <2>1, <2>2
<1>10. CASE BeginRetire
  <2>1. retire' \in [at : Retiring \cup {"idle"}, latest : Line \cup {None}]
    BY <1>10 DEF BeginRetire, Retiring
  <2> QED
    BY <1>10, <2>1 DEF BeginRetire
<1>11. CASE LinkArchive \/ UnlinkPage
  <2>1. retire' \in [at : Retiring \cup {"idle"}, latest : Line \cup {None}]
    BY <1>11 DEF LinkArchive, UnlinkPage, RetireAt, Retiring
  <2> QED
    BY <1>11, <2>1 DEF LinkArchive, UnlinkPage, ArchivedPage
<1>12. CASE OpenManifestRetired
  <2>1. retire' \in [at : Retiring \cup {"idle"}, latest : Line \cup {None}]
    BY <1>12 DEF OpenManifestRetired, RetireAt, Retiring
  <2> QED
    BY <1>12, <2>1 DEF OpenManifestRetired
<1>13. CASE WriteManifestRetired
  <2>1. record' \in Line \cup {None}
    BY <1>13 DEF WriteManifestRetired, Line, LinkedIsKept
  <2> QED
    BY <1>13, <2>1 DEF WriteManifestRetired, Resting
<1>14. CASE RetireEnds
  BY <1>14 DEF RetireEnds, Resting, Unlocked
<1> QED
  BY <1>1, <1>2, <1>3, <1>4, <1>5, <1>6, <1>7, <1>8, <1>9, <1>10, <1>11, <1>12, <1>13, <1>14
     DEF PublicationNext, Compile, RetireSteps
(* Which key a process works on changes by a claim, and ends with its      *)
(* outcome.                                                                *)
LEMMA KeyWriters ==
    ASSUME PublicationTypeOK, [PublicationNext]_publicationVars
    PROVE  \/ /\ UNCHANGED jobs
              /\ \A v \in Worker : worker'[v].at # "idle" => worker[v].at # "idle" /\ worker'[v].key = worker[v].key
           \/ \E w \in Worker, k \in Key : ClaimJob(w, k)
           \/ \E w \in Worker : Complete(w) \/ Release(w)
<1> DEFINE Same == /\ UNCHANGED jobs
                   /\ \A v \in Worker : worker'[v].at # "idle" => worker[v].at # "idle" /\ worker'[v].key = worker[v].key
<1> USE DEF PublicationTypeOK, Attempt
<1>1. UNCHANGED <<jobs, worker>> => Same
  OBVIOUS
<1>2. ASSUME NEW w \in Worker, NEW stage, UNCHANGED jobs, worker[w].at # "idle",
             worker' = [worker EXCEPT ![w].at = stage] \/ \E i \in Inode \cup {None} : worker' = [worker EXCEPT ![w].at = stage, ![w].open = i]
      PROVE  Same
  BY <1>2
<1>3. ASSUME NEW w \in Worker, UNCHANGED jobs, worker' = [worker EXCEPT ![w] = Idle] PROVE Same
  BY <1>3 DEF Idle
<1> HIDE DEF Same
<1>4. CASE UNCHANGED publicationVars
  BY <1>1, <1>4 DEF publicationVars
<1>5. CASE RetireSteps \/ RetireEnds
  BY <1>1, <1>5 DEF RetireSteps, RetireEnds, BeginRetire, LinkArchive, UnlinkPage, OpenManifestRetired, WriteManifestRetired
<1>6. ASSUME NEW w \in Worker, BeginPublish(w) PROVE Same
  BY <1>2, <1>6 DEF BeginPublish, WorkerAt
<1>7. ASSUME NEW w \in Worker, Create(w) \/ Write(w) PROVE Same
  BY <1>2, <1>7 DEF Create, Write, FreeInode
<1>8. ASSUME NEW w \in Worker, Link(w) \/ Unlink(w) PROVE Same
  BY <1>2, <1>8 DEF Link, Unlink, WorkerAt
<1>9. ASSUME NEW w \in Worker, OpenManifest(w) \/ WriteManifest(w) PROVE Same
  BY <1>2, <1>9 DEF OpenManifest, WriteManifest, WorkerAt
<1>10. ASSUME NEW w \in Worker, Raise(w) PROVE Same
  BY <1>2, <1>10 DEF Raise, Publishing
<1>11. ASSUME NEW w \in Worker, Die(w) PROVE Same
  BY <1>3, <1>11 DEF Die
<1> QED
  BY <1>4, <1>5, <1>6, <1>7, <1>8, <1>9, <1>10, <1>11 DEF PublicationNext, Compile, Same

(* A key is claimed only where nobody has it, since whoever has it keeps it*)
(* running.                                                                *)
LEMMA KeysStep ==
    ASSUME PublicationTypeOK, KeysAreRunning, OneWorkerPerKey, [PublicationNext]_publicationVars
    PROVE  KeysAreRunning' /\ OneWorkerPerKey'
<1>1. CASE /\ UNCHANGED jobs
           /\ \A v \in Worker : worker'[v].at # "idle" => worker[v].at # "idle" /\ worker'[v].key = worker[v].key
  BY <1>1 DEF KeysAreRunning, OneWorkerPerKey
<1>2. ASSUME NEW w \in Worker, NEW k \in Key, ClaimJob(w, k) PROVE KeysAreRunning' /\ OneWorkerPerKey'
  <2>1. /\ jobs[k] = "none" /\ jobs'[k] = "running" /\ \A l \in Key \ {k} : jobs'[l] = jobs[l]
        /\ worker'[w].key = k /\ \A v \in Worker \ {w} : worker'[v] = worker[v]
    BY <1>2 DEF ClaimJob, Claimable, PublicationTypeOK
  <2>2. \A v \in Worker \ {w} : worker[v].at # "idle" => worker[v].key \in Key \ {k} /\ jobs[worker[v].key] = "running"
    BY <2>1 DEF KeysAreRunning
  <2> QED
    BY <2>1, <2>2 DEF KeysAreRunning, OneWorkerPerKey
<1>3. ASSUME NEW w \in Worker, Complete(w) \/ Release(w) PROVE KeysAreRunning' /\ OneWorkerPerKey'
  <2>1. /\ worker[w].at # "idle" /\ worker'[w].at = "idle"
        /\ \A v \in Worker \ {w} : worker'[v] = worker[v]
        /\ \A l \in Key \ {worker[w].key} : jobs'[l] = jobs[l]
    BY <1>3 DEF Complete, Release, PublicationTypeOK, Idle
  <2>2. \A v \in Worker \ {w} : worker[v].at # "idle" => worker[v].key \in Key \ {worker[w].key}
    BY <2>1 DEF KeysAreRunning, OneWorkerPerKey
  <2> QED
    BY <2>1, <2>2 DEF KeysAreRunning, OneWorkerPerKey
<1> QED
  BY <1>1, <1>2, <1>3, KeyWriters

(* The page goes only when there is an archive, which stays.               *)
LEMMA PageOrArchiveStays ==
    ASSUME LinkedIsKept, PublicationTypeOK, [PublicationNext]_publicationVars
    PROVE  /\ page # None \/ archive # None => page' # None \/ archive' # None
           /\ archive # None => archive' # None
<1> USE DEF files
<1>1. CASE UNCHANGED publicationVars
  BY <1>1 DEF publicationVars
<1>2. ASSUME NEW w \in Worker, Compile(w)
      PROVE  (page' = page \/ page' # None) /\ archive' = archive
  BY <1>2 DEF Compile, ClaimJob, BeginPublish, Create, Write, Link, Unlink, OpenManifest, WriteManifest, Complete,
     Raise, Release, Die
<1>3. CASE LinkArchive
  BY <1>3 DEF LinkArchive, ArchivedPage
<1>4. CASE UnlinkPage
  BY <1>4 DEF UnlinkPage, LinkedIsKept
<1>5. CASE BeginRetire \/ OpenManifestRetired \/ WriteManifestRetired \/ RetireEnds
  BY <1>5 DEF BeginRetire, OpenManifestRetired, WriteManifestRetired, RetireEnds
<1> QED
  BY <1>1, <1>2, <1>3, <1>4, <1>5 DEF PublicationNext, RetireSteps

(* The stages behind a link are entered by it, and so is a success.        *)
LEMMA LinkedStep ==
    ASSUME PublicationTypeOK, KeysAreRunning, LinkedIsKept, SucceededIsKept, [PublicationNext]_publicationVars
    PROVE  LinkedIsKept' /\ SucceededIsKept'
<1> DEFINE Behind == {"unlinking", "appending", "recording", "completing"}
           Late == {"unlinking", "appending", "recording"}
<1>1. ASSUME NEW w \in Worker, worker'[w].at \in Behind PROVE page' # None \/ archive' # None
  <2>1. CASE worker[w].at \in Behind
    BY <2>1, PageOrArchiveStays DEF LinkedIsKept
  <2>2. CASE worker[w].at \notin Behind
    <3>1. Link(w)
      <4>1. ASSUME NEW v \in Worker, Compile(v), ~Link(v) PROVE FALSE
        <5>1. CASE v # w
          <6>1. worker'[w] = worker[w]
            BY <4>1, <5>1 DEF Compile, ClaimJob, BeginPublish, Create, Write, Unlink, OpenManifest, WriteManifest,
               Complete, Raise, Release, Die, WorkerAt, PublicationTypeOK
          <6> QED
            BY <1>1, <2>2, <6>1
        <5>2. CASE v = w
          <6>1. CASE \E k \in Key : ClaimJob(w, k)
            BY <1>1, <6>1 DEF ClaimJob, PublicationTypeOK
          <6>2. CASE BeginPublish(w)
            BY <1>1, <6>2 DEF BeginPublish, WorkerAt, PublicationTypeOK, Attempt
          <6>3. CASE Create(w) \/ Write(w)
            BY <1>1, <6>3 DEF Create, Write, PublicationTypeOK, Attempt
          <6>4. CASE Unlink(w) \/ OpenManifest(w) \/ WriteManifest(w)
            BY <2>2, <6>4 DEF Unlink, OpenManifest, WriteManifest
          <6>5. CASE Complete(w) \/ Release(w) \/ Die(w)
            BY <1>1, <6>5 DEF Complete, Release, Die, PublicationTypeOK, Idle
          <6>6. CASE Raise(w)
            BY <1>1, <6>6 DEF Raise, PublicationTypeOK, Attempt
          <6> QED
            BY <4>1, <5>2, <6>1, <6>2, <6>3, <6>4, <6>5, <6>6 DEF Compile
        <5> QED
          BY <5>1, <5>2
      <4>2. ASSUME NEW v \in Worker, Link(v), v # w PROVE FALSE
        BY <1>1, <2>2, <4>2 DEF Link, WorkerAt, PublicationTypeOK
      <4>3. worker' # worker
        BY <1>1, <2>2
      <4> QED
        BY <4>1, <4>2, <4>3 DEF PublicationNext, publicationVars, RetireSteps, RetireEnds, BeginRetire, LinkArchive,
           UnlinkPage, OpenManifestRetired, WriteManifestRetired
    <3>2. worker'[w].at \in {"unlinking", "releasing"} /\ (worker'[w].at = "unlinking" => page' # None)
      BY <3>1 DEF Link, WorkerAt, PublicationTypeOK, Attempt
    <3> QED
      BY <1>1, <3>2
  <2> QED
    BY <2>1, <2>2
<1>2. retire'.at \in Late => archive' # None
  <2>1. CASE retire.at \in Late
    BY <2>1, PageOrArchiveStays DEF LinkedIsKept
  <2>2. CASE retire.at \notin Late /\ retire' # retire
    <3>1. BeginRetire \/ LinkArchive \/ RetireEnds
      BY <2>2 DEF PublicationNext, publicationVars, RetireSteps, Compile, ClaimJob, BeginPublish, Create, Write, Link,
         Unlink, OpenManifest, WriteManifest, Complete, Raise, Release, Die, UnlinkPage, OpenManifestRetired, WriteManifestRetired
    <3> QED
      BY <3>1 DEF BeginRetire, LinkArchive, ArchivedPage, RetireEnds, Resting
  <2> QED
    BY <2>1, <2>2
<1>3. retire'.at # "idle" => retire'.latest \in Line
  <2>1. CASE retire' # retire
    <3>1. RetireSteps \/ RetireEnds
      BY <2>1 DEF PublicationNext, publicationVars, Compile, ClaimJob, BeginPublish, Create, Write, Link,
         Unlink, OpenManifest, WriteManifest, Complete, Raise, Release, Die
    <3>2. CASE BeginRetire
      BY <3>2 DEF BeginRetire, PublicationTypeOK
    <3>3. CASE LinkArchive \/ UnlinkPage \/ OpenManifestRetired
      BY <3>3 DEF LinkArchive, UnlinkPage, OpenManifestRetired, RetireAt, LinkedIsKept, PublicationTypeOK
    <3>4. CASE WriteManifestRetired \/ RetireEnds
      BY <3>4 DEF WriteManifestRetired, RetireEnds, Resting
    <3> QED
      BY <3>1, <3>2, <3>3, <3>4 DEF RetireSteps
  <2>2. CASE retire' = retire
    BY <2>2 DEF LinkedIsKept
  <2> QED
    BY <2>1, <2>2
<1>4. SucceededIsKept'
  <2> SUFFICES ASSUME NEW k \in Key, jobs'[k] = "succeeded" PROVE page' # None \/ archive' # None
    BY DEF SucceededIsKept
  <2>1. CASE jobs[k] = "succeeded"
    BY <2>1, PageOrArchiveStays DEF SucceededIsKept
  <2>2. CASE jobs[k] # "succeeded"
    <3>1. ASSUME NEW w \in Worker, NEW l \in Key, ClaimJob(w, l) PROVE FALSE
      BY <2>2, <3>1 DEF ClaimJob, PublicationTypeOK
    <3>2. ASSUME NEW w \in Worker, Release(w) PROVE FALSE
      BY <2>2, <3>2 DEF Release, PublicationTypeOK
    <3>3. ASSUME NEW w \in Worker, Complete(w) PROVE page # None \/ archive # None
      BY <3>3 DEF Complete, LinkedIsKept
    <3> QED
      BY <2>2, <3>1, <3>2, <3>3, KeyWriters, PageOrArchiveStays
  <2> QED
    BY <2>1, <2>2
<1> QED
  BY <1>1, <1>2, <1>3, <1>4 DEF LinkedIsKept
(* Steps that leave the files alone, and let nobody in, change nothing for *)
(* the one that publishes.                                                 *)
LEMMA NamesUntouched ==
    ASSUME NamesAreLeft, PublishedIsWhole, UNCHANGED <<text, temp, page, archive, overlap>>,
           \A v \in Worker : worker'[v] = worker[v] \/ worker'[v].at \notin Publishing
                             \/ (Publishes(v) /\ worker'[v].at \notin {"creating", "writing", "linking"})
                             \/ worker'[v].at = "compiling"
    PROVE  NamesAreLeft' /\ PublishedIsWhole'
<1>1. PublishedIsWhole'
  BY DEF PublishedIsWhole
<1>2. \A v \in Worker : Publishes(v)' => Publishes(v)
  BY DEF Publishes
<1>3. ASSUME NEW w \in Worker, Publishes(w)', ~overlap PROVE PublishesAlone(w)'
  <2>1. PublishesAlone(w)
    BY <1>2, <1>3 DEF NamesAreLeft
  <2>2. \A v \in Worker : Publishes(v)' => v = w
    BY <1>2, <2>1 DEF PublishesAlone
  <2>3. worker'[w] = worker[w] \/ worker'[w].at \notin {"creating", "writing", "linking"}
    BY <1>3 DEF Publishes
  <2> QED
    BY <2>1, <2>2, <2>3 DEF PublishesAlone
<1> QED
  BY <1>1, <1>2, <1>3 DEF NamesAreLeft

(* A step of the only one that publishes leaves only its own names to show.*)
LEMMA AlonePublishes ==
    ASSUME NEW w \in Worker, ~overlap => \A v \in Worker \ {w} : ~Publishes(v),
           \A v \in Worker \ {w} : worker'[v] = worker[v], overlap' = overlap,
           ~overlap =>
              /\ worker'[w].at = "creating" => temp' = None /\ page' = None
              /\ worker'[w].at = "writing" => temp' = worker'[w].open /\ temp' # None /\ page' = None /\ archive' # temp'
              /\ worker'[w].at = "linking" => temp' # None /\ text'[temp'] # Torn
    PROVE  NamesAreLeft'
  BY DEF NamesAreLeft, PublishesAlone, Publishes

(* Both names are free for whoever begins to publish alone.                *)
LEMMA BeginPublishStep ==
    ASSUME PublicationInv, NEW w \in Worker, BeginPublish(w)
    PROVE  NamesAreLeft' /\ PublishedIsWhole'
<1>1. /\ \A v \in Worker \ {w} : worker'[v] = worker[v]
      /\ worker[w].at = "compiling"
      /\ worker'[w].at = IF NamesFree THEN "creating" ELSE "releasing"
      /\ UNCHANGED <<text, temp, page, archive>>
  BY DEF BeginPublish, WorkerAt, PublicationInv, PublicationTypeOK, Attempt, files
<1>2. CASE NamesFree
  <2>1. ~overlap' => ~overlap /\ \A v \in Worker \ {w} : ~Publishes(v)
    BY <1>2 DEF BeginPublish, Publishes
  <2>2. NamesAreLeft'
    BY <1>1, <1>2, <2>1 DEF NamesAreLeft, PublishesAlone, Publishes, NamesFree
  <2>3. PublishedIsWhole'
    BY <1>1, <2>1 DEF PublishedIsWhole, PublicationInv
  <2> QED
    BY <2>2, <2>3
<1>3. CASE ~NamesFree
  <2>1. overlap' = overlap
    BY <1>3 DEF BeginPublish, PublicationInv, PublicationTypeOK
  <2>2. worker'[w].at \notin Publishing
    BY <1>1, <1>3 DEF Publishing
  <2> QED
    BY <1>1, <2>1, <2>2, NamesUntouched DEF PublicationInv
<1> QED
  BY <1>2, <1>3

(* Who is alone creates a new inode, which no other name points at.        *)
LEMMA CreateStep ==
    ASSUME PublicationInv, NEW w \in Worker, Create(w)
    PROVE  NamesAreLeft' /\ PublishedIsWhole' /\ (~overlap /\ page # None => text'[page] = text[page])
<1>1. PICK i \in IF temp = None THEN FreeInode ELSE {temp} :
        /\ temp' = i /\ text' = [text EXCEPT ![i] = Torn]
        /\ worker' = [worker EXCEPT ![w].at = "writing", ![w].open = i]
        /\ worker[w].at = "creating" /\ UNCHANGED <<page, archive, overlap>>
  BY DEF Create, history
<1>2. /\ \A v \in Worker \ {w} : worker'[v] = worker[v]
      /\ worker'[w].at = "writing" /\ worker'[w].open = i
  BY <1>1 DEF PublicationInv, PublicationTypeOK, Attempt
<1>3. ~overlap => /\ \A v \in Worker \ {w} : ~Publishes(v)
                  /\ temp = None /\ page = None /\ i \in Inode /\ i # archive /\ i # None
  BY <1>1, NoneIsNothing DEF PublicationInv, NamesAreLeft, Publishes, PublishesAlone, Publishing, FreeInode
<1>4. NamesAreLeft'
  BY <1>1, <1>2, <1>3, AlonePublishes
<1>5. PublishedIsWhole'
  BY <1>1, <1>3 DEF PublicationInv, PublicationTypeOK, PublishedIsWhole
<1> QED
  BY <1>3, <1>4, <1>5

(* Who is alone writes what no other name points at.                       *)
LEMMA WriteStep ==
    ASSUME PublicationInv, NEW w \in Worker, Write(w)
    PROVE  NamesAreLeft' /\ PublishedIsWhole' /\ (~overlap /\ page # None => text'[page] = text[page])
<1>1. /\ text' = [text EXCEPT ![worker[w].open] = worker[w].key]
      /\ worker' = [worker EXCEPT ![w].at = "linking", ![w].open = None]
      /\ worker[w].at = "writing" /\ UNCHANGED <<temp, page, archive, overlap>>
  BY DEF Write, history
<1>2. /\ \A v \in Worker \ {w} : worker'[v] = worker[v]
      /\ worker'[w].at = "linking"
      /\ worker[w].key \in Key /\ worker[w].key # Torn
  BY <1>1, NoneIsNothing DEF PublicationInv, PublicationTypeOK, Attempt, KeysAreRunning
<1>3. ~overlap => /\ \A v \in Worker \ {w} : ~Publishes(v)
                  /\ temp = worker[w].open /\ temp \in Inode /\ temp # None /\ page = None /\ archive # temp
  BY <1>1, NoneIsNothing DEF PublicationInv, PublicationTypeOK, NamesAreLeft, Publishes, PublishesAlone, Publishing
<1>4. ~overlap => text'[temp'] # Torn
  BY <1>1, <1>2, <1>3 DEF PublicationInv, PublicationTypeOK
<1>5. NamesAreLeft'
  BY <1>1, <1>2, <1>3, <1>4, AlonePublishes
<1>6. PublishedIsWhole'
  BY <1>1, <1>3 DEF PublicationInv, PublicationTypeOK, PublishedIsWhole
<1> QED
  BY <1>3, <1>5, <1>6

(* What is linked has been written.                                        *)
LEMMA LinkStep ==
    ASSUME PublicationInv, NEW w \in Worker, Link(w)
    PROVE  NamesAreLeft' /\ PublishedIsWhole'
<1>1. /\ \A v \in Worker \ {w} : worker'[v] = worker[v]
      /\ worker[w].at = "linking" /\ worker'[w].at \in {"unlinking", "releasing"}
      /\ page' \in {page, temp} /\ UNCHANGED <<text, temp, archive, overlap>>
  BY DEF Link, WorkerAt, PublicationInv, PublicationTypeOK, Attempt, history
<1>2. ~overlap => (\A v \in Worker \ {w} : ~Publishes(v)) /\ text[temp] # Torn
  BY <1>1 DEF PublicationInv, NamesAreLeft, Publishes, PublishesAlone, Publishing
<1>3. NamesAreLeft'
  BY <1>1, <1>2, AlonePublishes
<1>4. PublishedIsWhole'
  BY <1>1, <1>2 DEF PublicationInv, PublishedIsWhole
<1> QED
  BY <1>3, <1>4

(* The temporary name is given up.                                         *)
LEMMA UnlinkStep ==
    ASSUME PublicationInv, NEW w \in Worker, Unlink(w)
    PROVE  NamesAreLeft' /\ PublishedIsWhole'
<1>1. /\ \A v \in Worker \ {w} : worker'[v] = worker[v]
      /\ worker[w].at = "unlinking" /\ worker'[w].at \in {"appending", "releasing"}
      /\ UNCHANGED <<text, page, archive, overlap>>
  BY DEF Unlink, WorkerAt, PublicationInv, PublicationTypeOK, Attempt, history
<1>2. ~overlap => \A v \in Worker \ {w} : ~Publishes(v)
  BY <1>1 DEF PublicationInv, NamesAreLeft, Publishes, PublishesAlone, Publishing
<1>3. NamesAreLeft'
  BY <1>1, <1>2, AlonePublishes
<1>4. PublishedIsWhole'
  BY <1>1 DEF PublicationInv, PublishedIsWhole
<1> QED
  BY <1>3, <1>4

(* A retirement links and unlinks a page, and what is being written is not *)
(* one.                                                                    *)
LEMMA RetireStep ==
    ASSUME PublicationInv, LinkArchive \/ UnlinkPage
    PROVE  NamesAreLeft' /\ PublishedIsWhole'
<1>1. /\ UNCHANGED <<text, temp, worker, overlap>>
      /\ page' \in {page, None} /\ archive' \in {archive, page}
      /\ archive' # archive => page # None
  BY DEF LinkArchive, UnlinkPage, ArchivedPage, history
<1>2. PublishedIsWhole'
  BY <1>1 DEF PublicationInv, PublishedIsWhole
<1>3. NamesAreLeft'
  BY <1>1 DEF PublicationInv, NamesAreLeft, PublishesAlone, Publishes
<1> QED
  BY <1>2, <1>3

(* Every step keeps what the names show of whoever publishes alone.        *)
LEMMA NamesStep ==
    ASSUME PublicationInv, [PublicationNext]_publicationVars
    PROVE  NamesAreLeft' /\ PublishedIsWhole'
<1> USE DEF files, manifest, history
<1>0. NamesAreLeft /\ PublishedIsWhole /\ PublicationTypeOK
  BY DEF PublicationInv
<1>1. CASE UNCHANGED publicationVars
  BY <1>0, <1>1, NamesUntouched DEF publicationVars
<1>2. CASE BeginRetire \/ OpenManifestRetired \/ WriteManifestRetired \/ RetireEnds
  BY <1>0, <1>2, NamesUntouched DEF BeginRetire, OpenManifestRetired, WriteManifestRetired, RetireEnds
<1>3. ASSUME NEW w \in Worker, NEW k \in Key, ClaimJob(w, k) PROVE NamesAreLeft' /\ PublishedIsWhole'
  <2>1. /\ \A v \in Worker \ {w} : worker'[v] = worker[v]
        /\ worker'[w].at = "compiling" /\ UNCHANGED <<text, temp, page, archive, overlap>>
    BY <1>0, <1>3 DEF ClaimJob, PublicationTypeOK
  <2> QED
    BY <1>0, <2>1, NamesUntouched
<1>4. ASSUME NEW w \in Worker, OpenManifest(w) \/ WriteManifest(w) PROVE NamesAreLeft' /\ PublishedIsWhole'
  <2>1. /\ \A v \in Worker \ {w} : worker'[v] = worker[v]
        /\ worker'[w].at \in {"recording", "completing"} /\ Publishes(w) /\ UNCHANGED <<text, temp, page, archive, overlap>>
    BY <1>0, <1>4 DEF OpenManifest, WriteManifest, WorkerAt, PublicationTypeOK, Attempt, Publishes, Publishing
  <2> QED
    BY <1>0, <2>1, NamesUntouched
<1>5. ASSUME NEW w \in Worker, Complete(w) \/ Release(w) \/ Die(w) \/ Raise(w) PROVE NamesAreLeft' /\ PublishedIsWhole'
  <2>1. /\ \A v \in Worker \ {w} : worker'[v] = worker[v]
        /\ worker'[w].at \in {"idle", "releasing"} /\ UNCHANGED <<text, temp, page, archive, overlap>>
    BY <1>0, <1>5 DEF Complete, Release, Die, Raise, PublicationTypeOK, Attempt, Idle
  <2>2. worker'[w].at \notin Publishing
    BY <2>1 DEF Publishing
  <2> QED
    BY <1>0, <2>1, <2>2, NamesUntouched
<1> QED
  BY <1>1, <1>2, <1>3, <1>4, <1>5, BeginPublishStep, CreateStep, WriteStep, LinkStep, UnlinkStep, RetireStep
     DEF PublicationNext, Compile, RetireSteps

(* At first there is no page, and no process compiles.                     *)
LEMMA PublicationInitial == PublicationInit => PublicationInv
<1> SUFFICES ASSUME PublicationInit PROVE PublicationInv
  OBVIOUS
<1>1. PublicationTypeOK
  <2>1. Idle \in Attempt /\ Resting \in [at : Retiring \cup {"idle"}, latest : Line \cup {None}]
    BY DEF Idle, Attempt, Resting
  <2> QED
    BY <2>1 DEF PublicationInit, PublicationTypeOK
<1>2. \A w \in Worker : worker[w].at = "idle" /\ ~Publishes(w)
  BY DEF PublicationInit, Idle, Publishes, Publishing
<1>3. KeysAreRunning /\ OneWorkerPerKey /\ LinkedIsKept /\ NamesAreLeft
  BY <1>2 DEF PublicationInit, KeysAreRunning, OneWorkerPerKey, LinkedIsKept, Resting, NamesAreLeft
<1>4. SucceededIsKept /\ PublishedIsWhole
  BY DEF PublicationInit, SucceededIsKept, PublishedIsWhole
<1> QED
  BY <1>1, <1>3, <1>4 DEF PublicationInv

(* Every step keeps the invariant.                                         *)
LEMMA PublicationStep == PublicationInv /\ [PublicationNext]_publicationVars => PublicationInv'
<1> SUFFICES ASSUME PublicationInv, [PublicationNext]_publicationVars PROVE PublicationInv'
  OBVIOUS
<1>1. PublicationTypeOK'
  BY PublicationTypeStep DEF PublicationInv
<1>2. KeysAreRunning' /\ OneWorkerPerKey'
  BY KeysStep DEF PublicationInv
<1>3. LinkedIsKept' /\ SucceededIsKept'
  BY LinkedStep DEF PublicationInv
<1>4. NamesAreLeft' /\ PublishedIsWhole'
  BY NamesStep
<1> QED
  BY <1>1, <1>2, <1>3, <1>4 DEF PublicationInv

(* The invariant the theorems about publication rest on.                   *)
LEMMA PublicationInductive == PublicationSpec => []PublicationInv
  BY PublicationInitial, PublicationStep, PTL DEF PublicationSpec

(* Rows, names, lines and attempts keep their types.                       *)
THEOREM PublicationTypes == PublicationSpec => []PublicationTypeOK
<1>1. PublicationInv => PublicationTypeOK
  BY DEF PublicationInv
<1> QED
  BY <1>1, PublicationInductive, PTL

(* No two processes compile one key, whatever raises or dies.              *)
THEOREM KeysExclude == PublicationSpec => []OneWorkerPerKey
<1>1. PublicationInv => OneWorkerPerKey
  BY DEF PublicationInv
<1> QED
  BY <1>1, PublicationInductive, PTL

(* Whatever is answered as succeeded has a page or an archived one.        *)
THEOREM SuccessHasAPage == PublicationSpec => []SucceededIsKept
<1>1. PublicationInv => SucceededIsKept
  BY DEF PublicationInv
<1> QED
  BY <1>1, PublicationInductive, PTL

(* Until two processes publish at once, pages and archives are whole.      *)
THEOREM PagesAreWhole == PublicationSpec => []PublishedIsWhole
<1>1. PublicationInv => PublishedIsWhole
  BY DEF PublicationInv
<1> QED
  BY <1>1, PublicationInductive, PTL

(* Only Create and Write change what an inode holds.                       *)
LEMMA TextWriters ==
    ASSUME [PublicationNext]_publicationVars
    PROVE  UNCHANGED text \/ \E w \in Worker : Create(w) \/ Write(w)
<1> USE DEF files
<1>1. CASE UNCHANGED publicationVars
  BY <1>1 DEF publicationVars
<1>2. CASE RetireSteps \/ RetireEnds
  BY <1>2 DEF RetireSteps, RetireEnds, BeginRetire, LinkArchive, UnlinkPage, OpenManifestRetired, WriteManifestRetired
<1>3. ASSUME NEW w \in Worker, Compile(w) PROVE UNCHANGED text \/ Create(w) \/ Write(w)
  BY <1>3 DEF Compile, ClaimJob, BeginPublish, Link, Unlink, OpenManifest, WriteManifest, Complete, Raise, Release, Die
<1> QED
  BY <1>1, <1>2, <1>3 DEF PublicationNext

(* A process that publishes alone overwrites no page (local.py 357-359):   *)
(* what a published page holds is not written again while it is the page.  *)
THEOREM AlonePagesStand == PublicationSpec => OverwrittenOnlyTogether
<1>1. PublicationInv /\ [PublicationNext]_publicationVars =>
         [page # None /\ page' = page /\ ~overlap => text'[page] = text[page]]_publicationVars
  BY TextWriters, CreateStep, WriteStep
<1> QED
  BY <1>1, PublicationInductive, PTL DEF PublicationSpec, OverwrittenOnlyTogether
=============================================================================
