----------------------------- MODULE Supervisor -----------------------------
(***************************************************************************)
(* The local supervisor (local/supervisor.py): start, its manager process  *)
(* and the runtime child of the manager, over one Home.  The lifecycle     *)
(* lock is inherited by the manager and freed by its death; the control    *)
(* and the state file are replaced atomically, by whoever writes them.     *)
(* Each write, spawn, signal and lock operation is an action, and any of   *)
(* the processes may be killed in between.  Control messages are           *)
(* authentic; a reader that only reports (status) is not shown.            *)
(***************************************************************************)
CONSTANTS
    Start,  \* invocations of start; each names its manager and its child too
    None    \* no invocation

ASSUME SupervisorAssumption == None \notin Start

VARIABLES
    start,   \* where each invocation of start is
    manager, \* where its manager is
    sigterm, \* whether its manager has been sent SIGTERM
    child,   \* where the runtime of its manager is
    control, \* supervisor.json: the manager that can be reached, if any
    state,   \* state.json: what was reported, and by which invocation
    stopped  \* history: managers whose stop command was answered

vars == <<start, manager, sigterm, child, control, state, stopped>>
files == <<control, state>>

StartStage == {"idle", "locked", "polling", "cleaning", "failing", "started", "failed", "killed"}
ManagerStage == {"none", "booting", "announced", "reported", "spawned", "serving", "answering",
                 "stopping", "aborting", "broken", "leaving", "unlinked", "dead"}
\* A runtime that is busy has a request in flight; one that has been asked to
\* exit drains, or waits for the request it has in flight.
ChildStage == {"none", "booting", "ready", "busy", "draining", "waiting", "gone"}
Report == [is : {"absent", "starting", "running", "stopped", "failed"}, of : Start \cup {None}]

Init ==
    /\ start = [s \in Start |-> "idle"]
    /\ manager = [s \in Start |-> "none"]
    /\ sigterm = [s \in Start |-> FALSE]
    /\ child = [s \in Start |-> "none"]
    /\ control = None
    /\ state = [is |-> "absent", of |-> None]
    /\ stopped = {}

Alive(s) == manager[s] \notin {"none", "dead"}
Running(s) == child[s] \notin {"none", "gone"}

StartAt(s, stage) == start' = [start EXCEPT ![s] = stage]
ManagerAt(s, stage) == manager' = [manager EXCEPT ![s] = stage]
ChildAt(s, stage) == child' = [child EXCEPT ![s] = stage]
Reports(s, is) == state' = [is |-> is, of |-> s]

----------------------------------------------------------------------------
(* start *)

\* The lock belongs to an open file that start shares with its manager: it
\* is free once neither has it open.
LockFree_StarterOnly == \A s \in Start : start[s] # "locked"
LockFree_BeforeUnlink ==
    \A s \in Start : start[s] # "locked" /\ (Alive(s) => manager[s] \in {"leaving", "unlinked"})

LockFree == \A s \in Start : start[s] # "locked" /\ ~Alive(s)

\* A start that finds the lock taken fails at once, and changes nothing.
Lock(s) ==
    /\ start[s] = "idle"
    /\ LockFree
    /\ StartAt(s, "locked")
    /\ UNCHANGED <<manager, sigterm, child, files, stopped>>

\* Report starting, spawn the manager, and leave the lock to it.
Launch(s) ==
    /\ start[s] = "locked"
    /\ StartAt(s, "polling")
    /\ ManagerAt(s, "booting")
    /\ Reports(s, "starting")
    /\ UNCHANGED <<sigterm, child, control, stopped>>

\* The directory, the token, the report or the spawn fails: the lock is
\* released before the failure is reported.
LaunchFails(s) ==
    /\ start[s] = "locked"
    /\ StartAt(s, "failing")
    /\ Reports(s, "starting") \/ UNCHANGED state
    /\ UNCHANGED <<manager, sigterm, child, control, stopped>>

\* The manager that the control file names answers: its runtime is healthy.
PollHealthy(s) ==
    /\ start[s] = "polling"
    /\ \E m \in Start : control = m /\ manager[m] = "serving" /\ child[m] \in {"ready", "busy"}
    /\ StartAt(s, "started")
    /\ UNCHANGED <<manager, sigterm, child, files, stopped>>

\* The own manager has exited, the manager in the control file answers that
\* its runtime has, the state file says failed, whoever wrote it, or time is
\* up.
GivesUp(s) ==
    /\ start[s] = "polling"
    /\ StartAt(s, "cleaning")
    /\ UNCHANGED <<manager, sigterm, child, files, stopped>>

Terminate(s) ==
    /\ start[s] = "cleaning"
    /\ Alive(s)
    /\ ~sigterm[s]
    /\ sigterm' = [sigterm EXCEPT ![s] = TRUE]
    /\ UNCHANGED <<start, manager, child, files, stopped>>

\* It has not exited in time.
Kill_Never(s) == FALSE /\ UNCHANGED vars

Kill(s) ==
    /\ start[s] = "cleaning"
    /\ Alive(s)
    /\ sigterm[s]
    /\ ManagerAt(s, "dead")
    /\ UNCHANGED <<start, sigterm, child, files, stopped>>

\* The manager to be cleaned up is the process start holds the handle of,
\* whether it has announced itself or not.
Reaped_Announced(s) == manager[s] = "dead" \/ control # s

Reaped(s) == ~Alive(s)

Reap(s) ==
    /\ start[s] = "cleaning"
    /\ Reaped(s)
    /\ StartAt(s, "failing")
    /\ UNCHANGED <<manager, sigterm, child, files, stopped>>

ReportFailure(s) ==
    /\ start[s] = "failing"
    /\ StartAt(s, "failed")
    /\ Reports(s, "failed") \/ UNCHANGED state
    /\ UNCHANGED <<manager, sigterm, child, control, stopped>>

StartIsKilled(s) ==
    /\ start[s] \in {"locked", "polling", "cleaning", "failing"}
    /\ StartAt(s, "killed")
    /\ UNCHANGED <<manager, sigterm, child, files, stopped>>

----------------------------------------------------------------------------
(* The manager *)

\* The socket is bound and listens before the control file names it.
Announce(m) ==
    /\ manager[m] = "booting"
    /\ ManagerAt(m, "announced")
    /\ control' = m
    /\ UNCHANGED <<start, sigterm, child, state, stopped>>

ReportStarting(m) ==
    /\ manager[m] = "announced"
    /\ ManagerAt(m, "reported")
    /\ Reports(m, "starting")
    /\ UNCHANGED <<start, sigterm, child, control, stopped>>

Spawn(m) ==
    /\ manager[m] = "reported"
    /\ ManagerAt(m, "spawned")
    /\ ChildAt(m, "booting")
    /\ UNCHANGED <<start, sigterm, files, stopped>>

ReportRunning(m) ==
    /\ manager[m] = "spawned"
    /\ ManagerAt(m, "serving")
    /\ Reports(m, "running")
    /\ UNCHANGED <<start, sigterm, child, control, stopped>>

\* A signal before the handlers are in place.
DiesOfSignal(m) ==
    /\ manager[m] = "booting"
    /\ sigterm[m]
    /\ ManagerAt(m, "dead")
    /\ UNCHANGED <<start, sigterm, child, files, stopped>>

\* The service loop sees that the runtime has exited.
SeesExit(m) ==
    /\ manager[m] = "serving"
    /\ child[m] = "gone"
    /\ ManagerAt(m, "broken")
    /\ Reports(m, "failed")
    /\ UNCHANGED <<start, sigterm, child, control, stopped>>

\* The stop command, which clients send to the manager in the control file.
Stop(m) ==
    /\ control = m
    /\ manager[m] = "serving"
    /\ ManagerAt(m, "answering")
    /\ UNCHANGED <<start, sigterm, child, files, stopped>>

\* The runtime is terminated, or killed, and waited for; then the report,
\* then the answer.
Answer_First(m) ==
    /\ manager[m] = "answering"
    /\ ManagerAt(m, "broken")
    /\ Reports(m, "stopped")
    /\ stopped' = stopped \cup {m}
    /\ UNCHANGED <<start, sigterm, child, control>>

Answer(m) ==
    /\ manager[m] = "answering"
    /\ ChildAt(m, "gone")
    /\ ManagerAt(m, "broken")
    /\ Reports(m, "stopped")
    /\ stopped' = stopped \cup {m}
    /\ UNCHANGED <<start, sigterm, control>>

\* The client has hung up, or the wait or the report has failed: the service
\* loop goes on.
AnswerFails(m) ==
    /\ manager[m] = "answering"
    /\ ManagerAt(m, "serving")
    /\ \/ UNCHANGED <<child, state>>
       \/ ChildAt(m, "gone") /\ UNCHANGED state
       \/ ChildAt(m, "gone") /\ Reports(m, "stopped")
    /\ UNCHANGED <<start, sigterm, control, stopped>>

\* The loop ends on a signal; the runtime is terminated and the end reported.
SeesSignal(m) ==
    /\ manager[m] \in {"serving", "broken"}
    /\ sigterm[m]
    /\ ManagerAt(m, "stopping")
    /\ UNCHANGED <<start, sigterm, child, files, stopped>>

EndsStopped(m) ==
    /\ manager[m] = "stopping"
    /\ ChildAt(m, "gone")
    /\ ManagerAt(m, "leaving")
    /\ Reports(m, "stopped")
    /\ UNCHANGED <<start, sigterm, control, stopped>>

\* The listener cannot be waited for: the loop ends, and the runtime is left
\* to its lifeline.
SelectFails(m) ==
    /\ manager[m] = "serving"
    /\ ManagerAt(m, "broken")
    /\ UNCHANGED <<start, sigterm, child, files, stopped>>

\* The loop has been left without one.
EndsUnsignalled(m) ==
    /\ manager[m] = "broken"
    /\ ~sigterm[m]
    /\ ManagerAt(m, "leaving")
    /\ UNCHANGED <<start, sigterm, child, files, stopped>>

\* Any exception outside the answering of a request.
Aborts(m) ==
    /\ manager[m] \in {"booting", "announced", "reported", "spawned", "serving", "stopping"}
    /\ ManagerAt(m, "aborting")
    /\ UNCHANGED <<start, sigterm, child, files, stopped>>

EndsAborted(m) ==
    /\ manager[m] = "aborting"
    /\ child' = [child EXCEPT ![m] = IF Running(m) THEN "gone" ELSE child[m]]
    /\ ManagerAt(m, "leaving")
    /\ Reports(m, "failed") \/ UNCHANGED state
    /\ UNCHANGED <<start, sigterm, control, stopped>>

\* The control file goes before the lock is released.
Unlink(m) ==
    /\ manager[m] = "leaving"
    /\ ManagerAt(m, "unlinked")
    /\ control' = None
    /\ UNCHANGED <<start, sigterm, child, state, stopped>>

Exit(m) ==
    /\ manager[m] = "unlinked"
    /\ ManagerAt(m, "dead")
    /\ UNCHANGED <<start, sigterm, child, files, stopped>>

ManagerIsKilled(m) ==
    /\ Alive(m)
    /\ ManagerAt(m, "dead")
    /\ UNCHANGED <<start, sigterm, child, files, stopped>>

\* Somebody else signals it, or its console goes away.
ManagerIsSignalled(m) ==
    /\ Alive(m)
    /\ ~sigterm[m]
    /\ sigterm' = [sigterm EXCEPT ![m] = TRUE]
    /\ UNCHANGED <<start, manager, child, files, stopped>>

----------------------------------------------------------------------------
(* The runtime *)

BecomesReady(c) ==
    /\ child[c] = "booting"
    /\ ChildAt(c, "ready")
    /\ UNCHANGED <<start, manager, sigterm, files, stopped>>

\* The port is taken, a configuration is refused, it crashes or is killed.
ChildExits(c) ==
    /\ Running(c)
    /\ ChildAt(c, "gone")
    /\ UNCHANGED <<start, manager, sigterm, files, stopped>>

\* A request arrives, and may take for ever.
Serve(c) ==
    /\ child[c] = "ready"
    /\ ChildAt(c, "busy")
    /\ UNCHANGED <<start, manager, sigterm, files, stopped>>

Respond(c) ==
    /\ \/ child[c] = "busy" /\ ChildAt(c, "ready")
       \/ child[c] = "waiting" /\ ChildAt(c, "draining")
    /\ UNCHANGED <<start, manager, sigterm, files, stopped>>

\* SIGTERM ends a runtime that has no handler yet; one that serves is asked to
\* exit, and sets no time limit to the requests in flight.
AskedToExit(c) ==
    \/ child[c] = "booting" /\ (ChildAt(c, "gone") \/ ChildAt(c, "draining"))
    \/ child[c] = "ready" /\ ChildAt(c, "draining")
    \/ child[c] = "busy" /\ ChildAt(c, "waiting")

Drain(c) ==
    /\ child[c] = "draining"
    /\ ChildAt(c, "gone")
    /\ UNCHANGED <<start, manager, sigterm, files, stopped>>

\* The manager asks before it kills.
ManagerAsks(m) ==
    /\ manager[m] \in {"answering", "stopping", "aborting"}
    /\ AskedToExit(m)
    /\ UNCHANGED <<start, manager, sigterm, files, stopped>>

\* watch_lifeline: the pipe closes with the manager. One SIGTERM, and nothing
\* after it.
Lifeline_OnceReady(c) ==
    /\ manager[c] = "dead"
    /\ child[c] # "booting"
    /\ AskedToExit(c)
    /\ UNCHANGED <<start, manager, sigterm, files, stopped>>

Lifeline(c) ==
    /\ manager[c] = "dead"
    /\ AskedToExit(c)
    /\ UNCHANGED <<start, manager, sigterm, files, stopped>>

----------------------------------------------------------------------------
StartStep(s) ==
    \/ Launch(s) \/ LaunchFails(s) \/ PollHealthy(s) \/ GivesUp(s)
    \/ Terminate(s) \/ Kill(s) \/ Reap(s) \/ ReportFailure(s)

ManagerStep(m) ==
    \/ Announce(m) \/ ReportStarting(m) \/ Spawn(m) \/ ReportRunning(m) \/ DiesOfSignal(m)
    \/ SeesExit(m) \/ Answer(m) \/ AnswerFails(m) \/ SeesSignal(m) \/ EndsStopped(m)
    \/ SelectFails(m) \/ EndsUnsignalled(m) \/ EndsAborted(m) \/ Unlink(m) \/ Exit(m)

Next ==
    \E s \in Start :
        \/ Lock(s) \/ StartStep(s) \/ StartIsKilled(s)
        \/ Stop(s) \/ ManagerStep(s) \/ Aborts(s) \/ ManagerIsKilled(s) \/ ManagerIsSignalled(s)
        \/ BecomesReady(s) \/ Serve(s) \/ Respond(s) \/ ChildExits(s)
        \/ ManagerAsks(s) \/ Lifeline(s) \/ Drain(s)

\* start has deadlines for all it waits for, the lifeline is polled by a
\* thread of its own, and a runtime that is asked to exit does so once no
\* request is in flight; a manager may hang, and so may a request.
Fairness == \A s \in Start : WF_vars(StartStep(s)) /\ WF_vars(Lifeline(s)) /\ WF_vars(Drain(s))

Spec == Init /\ [][Next]_vars
FairSpec == Spec /\ Fairness

----------------------------------------------------------------------------
(* Properties *)

\* Everything has its type; the control file names a manager or is missing,
\* and each report is somebody's.
TypeOK ==
    /\ start \in [Start -> StartStage]
    /\ manager \in [Start -> ManagerStage]
    /\ sigterm \in [Start -> BOOLEAN]
    /\ child \in [Start -> ChildStage]
    /\ control \in Start \cup {None}
    /\ state \in Report
    /\ state.is # "absent" => state.of \in Start
    /\ stopped \subseteq Start

\* The lifecycle lock, which start takes and leaves to its manager, is held
\* by one invocation: while a manager lives, until its control file is gone
\* and it has exited, no other start launches one, whoever is killed.
Owns(s) == start[s] = "locked" \/ Alive(s)

OneManager == \A s, t \in Start : Owns(s) /\ Owns(t) => s = t

\* The manager that announced itself and has not yet begun to clean up is the
\* one the control file names: no earlier manager's clean-up takes it away,
\* so stop and status reach it.
Announced == {"announced", "reported", "spawned", "serving", "answering", "stopping", "broken"}

ServingIsReachable == \A m \in Start : manager[m] \in Announced => control = m

\* A stop that was answered, and a stop that was reported, mean that the
\* runtime has exited.
StoppedIsGone ==
    /\ \A m \in stopped : child[m] = "gone"
    /\ state.is = "stopped" => child[state.of] = "gone"

\* A start that returns a failure leaves no manager of its own behind, though
\* the manager may never have announced itself, or may not react to SIGTERM.
FailedReapsManager == \A s \in Start : start[s] \in {"failing", "failed"} => ~Alive(s)

\* What holds between the stages of one invocation.
Stages ==
    \A s \in Start :
        /\ start[s] \in {"idle", "locked"} => manager[s] = "none"
        /\ child[s] # "none" => manager[s] \notin {"none", "booting", "announced", "reported"}

IInv == TypeOK /\ OneManager /\ ServingIsReachable /\ StoppedIsGone /\ FailedReapsManager /\ Stages

\* A runtime whose manager is dead, killed included, ends: it watches the
\* pipe from its first moment. Only a request that never ends keeps it, since
\* nobody escalates the one SIGTERM of the lifeline.
OrphansEnd == \A c \in Start : manager[c] = "dead" ~> (~Running(c) \/ child[c] = "waiting")

\* docs/knowledge-platform/repository-separation-workplan.md: "Supervisor
\* death closes a lifeline pipe so the runtime exits". Not one that hangs in
\* a request.
OrphansAlwaysEnd == \A c \in Start : manager[c] = "dead" ~> ~Running(c)

\* Every start that takes the lock returns, though its manager may hang.
StartReturns ==
    \A s \in Start :
        start[s] \in {"locked", "polling", "cleaning", "failing"} ~>
            start[s] \in {"started", "failed", "killed"}
=============================================================================
