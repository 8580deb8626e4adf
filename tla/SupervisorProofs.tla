--------------------------- MODULE SupervisorProofs ---------------------------
(***************************************************************************)
(* Theorems about Supervisor for any number of invocations.  The argument: *)
(* a manager is launched by the start that has the lock, so the owner of   *)
(* the lock stays the same invocation until its manager has exited         *)
(* (OneManager); then no other manager can replace or remove the control   *)
(* file while one is announced.                                            *)
(***************************************************************************)
EXTENDS Supervisor, TLAPS

LEMMA InitInvariant == Init => IInv
<1> SUFFICES ASSUME Init PROVE IInv
  OBVIOUS
<1> USE SupervisorAssumption DEF Init
<1>1. TypeOK
  BY DEF TypeOK, StartStage, ManagerStage, ChildStage, Report
<1>2. OneManager /\ ServingIsReachable
  BY DEF OneManager, Owns, Alive, ServingIsReachable, Announced
<1>3. StoppedIsGone /\ FailedReapsManager /\ Stages
  BY DEF StoppedIsGone, FailedReapsManager, Alive, Stages
<1> QED
  BY <1>1, <1>2, <1>3 DEF IInv

(* The stages keep their types.                                            *)
LEMMA StagesTypeStep == TypeOK /\ [Next]_vars => (start \in [Start -> StartStage] /\ manager \in [Start -> ManagerStage])'
<1> SUFFICES ASSUME TypeOK, [Next]_vars PROVE (start \in [Start -> StartStage] /\ manager \in [Start -> ManagerStage])'
  OBVIOUS
<1>0. start \in [Start -> StartStage] /\ manager \in [Start -> ManagerStage]
  BY DEF TypeOK
<1>1. ASSUME NEW s \in Start, Lock(s)
      PROVE  (start \in [Start -> StartStage] /\ manager \in [Start -> ManagerStage])'
  BY <1>0, <1>1 DEF Lock, StartAt, LockFree, files, StartStage, ManagerStage
<1>2. ASSUME NEW s \in Start, Launch(s)
      PROVE  (start \in [Start -> StartStage] /\ manager \in [Start -> ManagerStage])'
  BY <1>0, <1>2 DEF Launch, StartAt, ManagerAt, Reports, StartStage, ManagerStage
<1>3. ASSUME NEW s \in Start, LaunchFails(s)
      PROVE  (start \in [Start -> StartStage] /\ manager \in [Start -> ManagerStage])'
  BY <1>0, <1>3 DEF LaunchFails, StartAt, Reports, StartStage, ManagerStage
<1>4. ASSUME NEW s \in Start, PollHealthy(s)
      PROVE  (start \in [Start -> StartStage] /\ manager \in [Start -> ManagerStage])'
  BY <1>0, <1>4 DEF PollHealthy, StartAt, files, StartStage, ManagerStage
<1>5. ASSUME NEW s \in Start, GivesUp(s)
      PROVE  (start \in [Start -> StartStage] /\ manager \in [Start -> ManagerStage])'
  BY <1>0, <1>5 DEF GivesUp, StartAt, files, StartStage, ManagerStage
<1>6. ASSUME NEW s \in Start, Terminate(s)
      PROVE  (start \in [Start -> StartStage] /\ manager \in [Start -> ManagerStage])'
  BY <1>0, <1>6 DEF Terminate, Alive, files, StartStage, ManagerStage
<1>7. ASSUME NEW s \in Start, Kill(s)
      PROVE  (start \in [Start -> StartStage] /\ manager \in [Start -> ManagerStage])'
  BY <1>0, <1>7 DEF Kill, ManagerAt, Alive, files, StartStage, ManagerStage
<1>8. ASSUME NEW s \in Start, Reap(s)
      PROVE  (start \in [Start -> StartStage] /\ manager \in [Start -> ManagerStage])'
  BY <1>0, <1>8 DEF Reap, StartAt, Reaped, files, StartStage, ManagerStage
<1>9. ASSUME NEW s \in Start, ReportFailure(s)
      PROVE  (start \in [Start -> StartStage] /\ manager \in [Start -> ManagerStage])'
  BY <1>0, <1>9 DEF ReportFailure, StartAt, Reports, StartStage, ManagerStage
<1>10. ASSUME NEW s \in Start, StartIsKilled(s)
      PROVE  (start \in [Start -> StartStage] /\ manager \in [Start -> ManagerStage])'
  BY <1>0, <1>10 DEF StartIsKilled, StartAt, files, StartStage, ManagerStage
<1>11. ASSUME NEW s \in Start, Announce(s)
      PROVE  (start \in [Start -> StartStage] /\ manager \in [Start -> ManagerStage])'
  BY <1>0, <1>11 DEF Announce, ManagerAt, StartStage, ManagerStage
<1>12. ASSUME NEW s \in Start, ReportStarting(s)
      PROVE  (start \in [Start -> StartStage] /\ manager \in [Start -> ManagerStage])'
  BY <1>0, <1>12 DEF ReportStarting, ManagerAt, Reports, StartStage, ManagerStage
<1>13. ASSUME NEW s \in Start, Spawn(s)
      PROVE  (start \in [Start -> StartStage] /\ manager \in [Start -> ManagerStage])'
  BY <1>0, <1>13 DEF Spawn, ManagerAt, ChildAt, files, StartStage, ManagerStage
<1>14. ASSUME NEW s \in Start, ReportRunning(s)
      PROVE  (start \in [Start -> StartStage] /\ manager \in [Start -> ManagerStage])'
  BY <1>0, <1>14 DEF ReportRunning, ManagerAt, Reports, StartStage, ManagerStage
<1>15. ASSUME NEW s \in Start, DiesOfSignal(s)
      PROVE  (start \in [Start -> StartStage] /\ manager \in [Start -> ManagerStage])'
  BY <1>0, <1>15 DEF DiesOfSignal, ManagerAt, files, StartStage, ManagerStage
<1>16. ASSUME NEW s \in Start, SeesExit(s)
      PROVE  (start \in [Start -> StartStage] /\ manager \in [Start -> ManagerStage])'
  BY <1>0, <1>16 DEF SeesExit, ManagerAt, Reports, StartStage, ManagerStage
<1>17. ASSUME NEW s \in Start, Stop(s)
      PROVE  (start \in [Start -> StartStage] /\ manager \in [Start -> ManagerStage])'
  BY <1>0, <1>17 DEF Stop, ManagerAt, files, StartStage, ManagerStage
<1>18. ASSUME NEW s \in Start, Answer(s)
      PROVE  (start \in [Start -> StartStage] /\ manager \in [Start -> ManagerStage])'
  BY <1>0, <1>18 DEF Answer, ManagerAt, ChildAt, Reports, StartStage, ManagerStage
<1>19. ASSUME NEW s \in Start, AnswerFails(s)
      PROVE  (start \in [Start -> StartStage] /\ manager \in [Start -> ManagerStage])'
  BY <1>0, <1>19 DEF AnswerFails, ManagerAt, ChildAt, Reports, StartStage, ManagerStage
<1>20. ASSUME NEW s \in Start, SeesSignal(s)
      PROVE  (start \in [Start -> StartStage] /\ manager \in [Start -> ManagerStage])'
  BY <1>0, <1>20 DEF SeesSignal, ManagerAt, files, StartStage, ManagerStage
<1>21. ASSUME NEW s \in Start, EndsStopped(s)
      PROVE  (start \in [Start -> StartStage] /\ manager \in [Start -> ManagerStage])'
  BY <1>0, <1>21 DEF EndsStopped, ManagerAt, ChildAt, Reports, StartStage, ManagerStage
<1>22. ASSUME NEW s \in Start, SelectFails(s)
      PROVE  (start \in [Start -> StartStage] /\ manager \in [Start -> ManagerStage])'
  BY <1>0, <1>22 DEF SelectFails, ManagerAt, files, StartStage, ManagerStage
<1>23. ASSUME NEW s \in Start, EndsUnsignalled(s)
      PROVE  (start \in [Start -> StartStage] /\ manager \in [Start -> ManagerStage])'
  BY <1>0, <1>23 DEF EndsUnsignalled, ManagerAt, files, StartStage, ManagerStage
<1>24. ASSUME NEW s \in Start, Aborts(s)
      PROVE  (start \in [Start -> StartStage] /\ manager \in [Start -> ManagerStage])'
  BY <1>0, <1>24 DEF Aborts, ManagerAt, files, StartStage, ManagerStage
<1>25. ASSUME NEW s \in Start, EndsAborted(s)
      PROVE  (start \in [Start -> StartStage] /\ manager \in [Start -> ManagerStage])'
  BY <1>0, <1>25 DEF EndsAborted, ManagerAt, Reports, Running, StartStage, ManagerStage
<1>26. ASSUME NEW s \in Start, Unlink(s)
      PROVE  (start \in [Start -> StartStage] /\ manager \in [Start -> ManagerStage])'
  BY <1>0, <1>26 DEF Unlink, ManagerAt, StartStage, ManagerStage
<1>27. ASSUME NEW s \in Start, Exit(s)
      PROVE  (start \in [Start -> StartStage] /\ manager \in [Start -> ManagerStage])'
  BY <1>0, <1>27 DEF Exit, ManagerAt, files, StartStage, ManagerStage
<1>28. ASSUME NEW s \in Start, ManagerIsKilled(s)
      PROVE  (start \in [Start -> StartStage] /\ manager \in [Start -> ManagerStage])'
  BY <1>0, <1>28 DEF ManagerIsKilled, ManagerAt, Alive, files, StartStage, ManagerStage
<1>29. ASSUME NEW s \in Start, ManagerIsSignalled(s)
      PROVE  (start \in [Start -> StartStage] /\ manager \in [Start -> ManagerStage])'
  BY <1>0, <1>29 DEF ManagerIsSignalled, Alive, files, StartStage, ManagerStage
<1>30. ASSUME NEW s \in Start, BecomesReady(s)
      PROVE  (start \in [Start -> StartStage] /\ manager \in [Start -> ManagerStage])'
  BY <1>0, <1>30 DEF BecomesReady, ChildAt, files, StartStage, ManagerStage
<1>31. ASSUME NEW s \in Start, Serve(s)
      PROVE  (start \in [Start -> StartStage] /\ manager \in [Start -> ManagerStage])'
  BY <1>0, <1>31 DEF Serve, ChildAt, files, StartStage, ManagerStage
<1>32. ASSUME NEW s \in Start, Respond(s)
      PROVE  (start \in [Start -> StartStage] /\ manager \in [Start -> ManagerStage])'
  BY <1>0, <1>32 DEF Respond, ChildAt, files, StartStage, ManagerStage
<1>33. ASSUME NEW s \in Start, ChildExits(s)
      PROVE  (start \in [Start -> StartStage] /\ manager \in [Start -> ManagerStage])'
  BY <1>0, <1>33 DEF ChildExits, ChildAt, Running, files, StartStage, ManagerStage
<1>34. ASSUME NEW s \in Start, ManagerAsks(s)
      PROVE  (start \in [Start -> StartStage] /\ manager \in [Start -> ManagerStage])'
  BY <1>0, <1>34 DEF ManagerAsks, ChildAt, AskedToExit, files, StartStage, ManagerStage
<1>35. ASSUME NEW s \in Start, Lifeline(s)
      PROVE  (start \in [Start -> StartStage] /\ manager \in [Start -> ManagerStage])'
  BY <1>0, <1>35 DEF Lifeline, ChildAt, AskedToExit, files, StartStage, ManagerStage
<1>36. ASSUME NEW s \in Start, Drain(s)
      PROVE  (start \in [Start -> StartStage] /\ manager \in [Start -> ManagerStage])'
  BY <1>0, <1>36 DEF Drain, ChildAt, files, StartStage, ManagerStage
<1>37. CASE UNCHANGED vars
  BY <1>0, <1>37 DEF vars, files, StartStage, ManagerStage
<1> QED
  BY <1>1, <1>2, <1>3, <1>4, <1>5, <1>6, <1>7, <1>8, <1>9, <1>10, <1>11, <1>12,
     <1>13, <1>14, <1>15, <1>16, <1>17, <1>18, <1>19, <1>20, <1>21, <1>22, <1>23, <1>24,
     <1>25, <1>26, <1>27, <1>28, <1>29, <1>30, <1>31, <1>32, <1>33, <1>34, <1>35, <1>36,
     <1>37
  DEF Next, StartStep, ManagerStep

(* Signals and runtimes keep their types.                                  *)
LEMMA ChildTypeStep == TypeOK /\ [Next]_vars => (sigterm \in [Start -> BOOLEAN] /\ child \in [Start -> ChildStage])'
<1> SUFFICES ASSUME TypeOK, [Next]_vars PROVE (sigterm \in [Start -> BOOLEAN] /\ child \in [Start -> ChildStage])'
  OBVIOUS
<1>0. sigterm \in [Start -> BOOLEAN] /\ child \in [Start -> ChildStage]
  BY DEF TypeOK
<1>1. ASSUME NEW s \in Start, Lock(s)
      PROVE  (sigterm \in [Start -> BOOLEAN] /\ child \in [Start -> ChildStage])'
  BY <1>0, <1>1 DEF Lock, StartAt, LockFree, files, ChildStage
<1>2. ASSUME NEW s \in Start, Launch(s)
      PROVE  (sigterm \in [Start -> BOOLEAN] /\ child \in [Start -> ChildStage])'
  BY <1>0, <1>2 DEF Launch, StartAt, ManagerAt, Reports, ChildStage
<1>3. ASSUME NEW s \in Start, LaunchFails(s)
      PROVE  (sigterm \in [Start -> BOOLEAN] /\ child \in [Start -> ChildStage])'
  BY <1>0, <1>3 DEF LaunchFails, StartAt, Reports, ChildStage
<1>4. ASSUME NEW s \in Start, PollHealthy(s)
      PROVE  (sigterm \in [Start -> BOOLEAN] /\ child \in [Start -> ChildStage])'
  BY <1>0, <1>4 DEF PollHealthy, StartAt, files, ChildStage
<1>5. ASSUME NEW s \in Start, GivesUp(s)
      PROVE  (sigterm \in [Start -> BOOLEAN] /\ child \in [Start -> ChildStage])'
  BY <1>0, <1>5 DEF GivesUp, StartAt, files, ChildStage
<1>6. ASSUME NEW s \in Start, Terminate(s)
      PROVE  (sigterm \in [Start -> BOOLEAN] /\ child \in [Start -> ChildStage])'
  BY <1>0, <1>6 DEF Terminate, Alive, files, ChildStage
<1>7. ASSUME NEW s \in Start, Kill(s)
      PROVE  (sigterm \in [Start -> BOOLEAN] /\ child \in [Start -> ChildStage])'
  BY <1>0, <1>7 DEF Kill, ManagerAt, Alive, files, ChildStage
<1>8. ASSUME NEW s \in Start, Reap(s)
      PROVE  (sigterm \in [Start -> BOOLEAN] /\ child \in [Start -> ChildStage])'
  BY <1>0, <1>8 DEF Reap, StartAt, Reaped, files, ChildStage
<1>9. ASSUME NEW s \in Start, ReportFailure(s)
      PROVE  (sigterm \in [Start -> BOOLEAN] /\ child \in [Start -> ChildStage])'
  BY <1>0, <1>9 DEF ReportFailure, StartAt, Reports, ChildStage
<1>10. ASSUME NEW s \in Start, StartIsKilled(s)
      PROVE  (sigterm \in [Start -> BOOLEAN] /\ child \in [Start -> ChildStage])'
  BY <1>0, <1>10 DEF StartIsKilled, StartAt, files, ChildStage
<1>11. ASSUME NEW s \in Start, Announce(s)
      PROVE  (sigterm \in [Start -> BOOLEAN] /\ child \in [Start -> ChildStage])'
  BY <1>0, <1>11 DEF Announce, ManagerAt, ChildStage
<1>12. ASSUME NEW s \in Start, ReportStarting(s)
      PROVE  (sigterm \in [Start -> BOOLEAN] /\ child \in [Start -> ChildStage])'
  BY <1>0, <1>12 DEF ReportStarting, ManagerAt, Reports, ChildStage
<1>13. ASSUME NEW s \in Start, Spawn(s)
      PROVE  (sigterm \in [Start -> BOOLEAN] /\ child \in [Start -> ChildStage])'
  BY <1>0, <1>13 DEF Spawn, ManagerAt, ChildAt, files, ChildStage
<1>14. ASSUME NEW s \in Start, ReportRunning(s)
      PROVE  (sigterm \in [Start -> BOOLEAN] /\ child \in [Start -> ChildStage])'
  BY <1>0, <1>14 DEF ReportRunning, ManagerAt, Reports, ChildStage
<1>15. ASSUME NEW s \in Start, DiesOfSignal(s)
      PROVE  (sigterm \in [Start -> BOOLEAN] /\ child \in [Start -> ChildStage])'
  BY <1>0, <1>15 DEF DiesOfSignal, ManagerAt, files, ChildStage
<1>16. ASSUME NEW s \in Start, SeesExit(s)
      PROVE  (sigterm \in [Start -> BOOLEAN] /\ child \in [Start -> ChildStage])'
  BY <1>0, <1>16 DEF SeesExit, ManagerAt, Reports, ChildStage
<1>17. ASSUME NEW s \in Start, Stop(s)
      PROVE  (sigterm \in [Start -> BOOLEAN] /\ child \in [Start -> ChildStage])'
  BY <1>0, <1>17 DEF Stop, ManagerAt, files, ChildStage
<1>18. ASSUME NEW s \in Start, Answer(s)
      PROVE  (sigterm \in [Start -> BOOLEAN] /\ child \in [Start -> ChildStage])'
  BY <1>0, <1>18 DEF Answer, ManagerAt, ChildAt, Reports, ChildStage
<1>19. ASSUME NEW s \in Start, AnswerFails(s)
      PROVE  (sigterm \in [Start -> BOOLEAN] /\ child \in [Start -> ChildStage])'
  BY <1>0, <1>19 DEF AnswerFails, ManagerAt, ChildAt, Reports, ChildStage
<1>20. ASSUME NEW s \in Start, SeesSignal(s)
      PROVE  (sigterm \in [Start -> BOOLEAN] /\ child \in [Start -> ChildStage])'
  BY <1>0, <1>20 DEF SeesSignal, ManagerAt, files, ChildStage
<1>21. ASSUME NEW s \in Start, EndsStopped(s)
      PROVE  (sigterm \in [Start -> BOOLEAN] /\ child \in [Start -> ChildStage])'
  BY <1>0, <1>21 DEF EndsStopped, ManagerAt, ChildAt, Reports, ChildStage
<1>22. ASSUME NEW s \in Start, SelectFails(s)
      PROVE  (sigterm \in [Start -> BOOLEAN] /\ child \in [Start -> ChildStage])'
  BY <1>0, <1>22 DEF SelectFails, ManagerAt, files, ChildStage
<1>23. ASSUME NEW s \in Start, EndsUnsignalled(s)
      PROVE  (sigterm \in [Start -> BOOLEAN] /\ child \in [Start -> ChildStage])'
  BY <1>0, <1>23 DEF EndsUnsignalled, ManagerAt, files, ChildStage
<1>24. ASSUME NEW s \in Start, Aborts(s)
      PROVE  (sigterm \in [Start -> BOOLEAN] /\ child \in [Start -> ChildStage])'
  BY <1>0, <1>24 DEF Aborts, ManagerAt, files, ChildStage
<1>25. ASSUME NEW s \in Start, EndsAborted(s)
      PROVE  (sigterm \in [Start -> BOOLEAN] /\ child \in [Start -> ChildStage])'
  BY <1>0, <1>25 DEF EndsAborted, ManagerAt, Reports, Running, ChildStage
<1>26. ASSUME NEW s \in Start, Unlink(s)
      PROVE  (sigterm \in [Start -> BOOLEAN] /\ child \in [Start -> ChildStage])'
  BY <1>0, <1>26 DEF Unlink, ManagerAt, ChildStage
<1>27. ASSUME NEW s \in Start, Exit(s)
      PROVE  (sigterm \in [Start -> BOOLEAN] /\ child \in [Start -> ChildStage])'
  BY <1>0, <1>27 DEF Exit, ManagerAt, files, ChildStage
<1>28. ASSUME NEW s \in Start, ManagerIsKilled(s)
      PROVE  (sigterm \in [Start -> BOOLEAN] /\ child \in [Start -> ChildStage])'
  BY <1>0, <1>28 DEF ManagerIsKilled, ManagerAt, Alive, files, ChildStage
<1>29. ASSUME NEW s \in Start, ManagerIsSignalled(s)
      PROVE  (sigterm \in [Start -> BOOLEAN] /\ child \in [Start -> ChildStage])'
  BY <1>0, <1>29 DEF ManagerIsSignalled, Alive, files, ChildStage
<1>30. ASSUME NEW s \in Start, BecomesReady(s)
      PROVE  (sigterm \in [Start -> BOOLEAN] /\ child \in [Start -> ChildStage])'
  BY <1>0, <1>30 DEF BecomesReady, ChildAt, files, ChildStage
<1>31. ASSUME NEW s \in Start, Serve(s)
      PROVE  (sigterm \in [Start -> BOOLEAN] /\ child \in [Start -> ChildStage])'
  BY <1>0, <1>31 DEF Serve, ChildAt, files, ChildStage
<1>32. ASSUME NEW s \in Start, Respond(s)
      PROVE  (sigterm \in [Start -> BOOLEAN] /\ child \in [Start -> ChildStage])'
  BY <1>0, <1>32 DEF Respond, ChildAt, files, ChildStage
<1>33. ASSUME NEW s \in Start, ChildExits(s)
      PROVE  (sigterm \in [Start -> BOOLEAN] /\ child \in [Start -> ChildStage])'
  BY <1>0, <1>33 DEF ChildExits, ChildAt, Running, files, ChildStage
<1>34. ASSUME NEW s \in Start, ManagerAsks(s)
      PROVE  (sigterm \in [Start -> BOOLEAN] /\ child \in [Start -> ChildStage])'
  BY <1>0, <1>34 DEF ManagerAsks, ChildAt, AskedToExit, files, ChildStage
<1>35. ASSUME NEW s \in Start, Lifeline(s)
      PROVE  (sigterm \in [Start -> BOOLEAN] /\ child \in [Start -> ChildStage])'
  BY <1>0, <1>35 DEF Lifeline, ChildAt, AskedToExit, files, ChildStage
<1>36. ASSUME NEW s \in Start, Drain(s)
      PROVE  (sigterm \in [Start -> BOOLEAN] /\ child \in [Start -> ChildStage])'
  BY <1>0, <1>36 DEF Drain, ChildAt, files, ChildStage
<1>37. CASE UNCHANGED vars
  BY <1>0, <1>37 DEF vars, files, ChildStage
<1> QED
  BY <1>1, <1>2, <1>3, <1>4, <1>5, <1>6, <1>7, <1>8, <1>9, <1>10, <1>11, <1>12,
     <1>13, <1>14, <1>15, <1>16, <1>17, <1>18, <1>19, <1>20, <1>21, <1>22, <1>23, <1>24,
     <1>25, <1>26, <1>27, <1>28, <1>29, <1>30, <1>31, <1>32, <1>33, <1>34, <1>35, <1>36,
     <1>37
  DEF Next, StartStep, ManagerStep

(* The files and the history keep their types.                             *)
LEMMA FilesTypeStep == TypeOK /\ [Next]_vars => (control \in Start \cup {None} /\ state \in Report /\ (state.is # "absent" => state.of \in Start) /\ stopped \subseteq Start)'
<1> SUFFICES ASSUME TypeOK, [Next]_vars PROVE (control \in Start \cup {None} /\ state \in Report /\ (state.is # "absent" => state.of \in Start) /\ stopped \subseteq Start)'
  OBVIOUS
<1>0. /\ control \in Start \cup {None} /\ state \in Report
      /\ state.is # "absent" => state.of \in Start
      /\ stopped \subseteq Start
  BY DEF TypeOK
<1>1. ASSUME NEW s \in Start, Lock(s)
      PROVE  (control \in Start \cup {None} /\ state \in Report /\ (state.is # "absent" => state.of \in Start) /\ stopped \subseteq Start)'
  BY <1>0, <1>1 DEF Lock, StartAt, LockFree, files, Report
<1>2. ASSUME NEW s \in Start, Launch(s)
      PROVE  (control \in Start \cup {None} /\ state \in Report /\ (state.is # "absent" => state.of \in Start) /\ stopped \subseteq Start)'
  BY <1>0, <1>2 DEF Launch, StartAt, ManagerAt, Reports, Report
<1>3. ASSUME NEW s \in Start, LaunchFails(s)
      PROVE  (control \in Start \cup {None} /\ state \in Report /\ (state.is # "absent" => state.of \in Start) /\ stopped \subseteq Start)'
  BY <1>0, <1>3 DEF LaunchFails, StartAt, Reports, Report
<1>4. ASSUME NEW s \in Start, PollHealthy(s)
      PROVE  (control \in Start \cup {None} /\ state \in Report /\ (state.is # "absent" => state.of \in Start) /\ stopped \subseteq Start)'
  BY <1>0, <1>4 DEF PollHealthy, StartAt, files, Report
<1>5. ASSUME NEW s \in Start, GivesUp(s)
      PROVE  (control \in Start \cup {None} /\ state \in Report /\ (state.is # "absent" => state.of \in Start) /\ stopped \subseteq Start)'
  BY <1>0, <1>5 DEF GivesUp, StartAt, files, Report
<1>6. ASSUME NEW s \in Start, Terminate(s)
      PROVE  (control \in Start \cup {None} /\ state \in Report /\ (state.is # "absent" => state.of \in Start) /\ stopped \subseteq Start)'
  BY <1>0, <1>6 DEF Terminate, Alive, files, Report
<1>7. ASSUME NEW s \in Start, Kill(s)
      PROVE  (control \in Start \cup {None} /\ state \in Report /\ (state.is # "absent" => state.of \in Start) /\ stopped \subseteq Start)'
  BY <1>0, <1>7 DEF Kill, ManagerAt, Alive, files, Report
<1>8. ASSUME NEW s \in Start, Reap(s)
      PROVE  (control \in Start \cup {None} /\ state \in Report /\ (state.is # "absent" => state.of \in Start) /\ stopped \subseteq Start)'
  BY <1>0, <1>8 DEF Reap, StartAt, Reaped, files, Report
<1>9. ASSUME NEW s \in Start, ReportFailure(s)
      PROVE  (control \in Start \cup {None} /\ state \in Report /\ (state.is # "absent" => state.of \in Start) /\ stopped \subseteq Start)'
  BY <1>0, <1>9 DEF ReportFailure, StartAt, Reports, Report
<1>10. ASSUME NEW s \in Start, StartIsKilled(s)
      PROVE  (control \in Start \cup {None} /\ state \in Report /\ (state.is # "absent" => state.of \in Start) /\ stopped \subseteq Start)'
  BY <1>0, <1>10 DEF StartIsKilled, StartAt, files, Report
<1>11. ASSUME NEW s \in Start, Announce(s)
      PROVE  (control \in Start \cup {None} /\ state \in Report /\ (state.is # "absent" => state.of \in Start) /\ stopped \subseteq Start)'
  BY <1>0, <1>11 DEF Announce, ManagerAt, Report
<1>12. ASSUME NEW s \in Start, ReportStarting(s)
      PROVE  (control \in Start \cup {None} /\ state \in Report /\ (state.is # "absent" => state.of \in Start) /\ stopped \subseteq Start)'
  BY <1>0, <1>12 DEF ReportStarting, ManagerAt, Reports, Report
<1>13. ASSUME NEW s \in Start, Spawn(s)
      PROVE  (control \in Start \cup {None} /\ state \in Report /\ (state.is # "absent" => state.of \in Start) /\ stopped \subseteq Start)'
  BY <1>0, <1>13 DEF Spawn, ManagerAt, ChildAt, files, Report
<1>14. ASSUME NEW s \in Start, ReportRunning(s)
      PROVE  (control \in Start \cup {None} /\ state \in Report /\ (state.is # "absent" => state.of \in Start) /\ stopped \subseteq Start)'
  BY <1>0, <1>14 DEF ReportRunning, ManagerAt, Reports, Report
<1>15. ASSUME NEW s \in Start, DiesOfSignal(s)
      PROVE  (control \in Start \cup {None} /\ state \in Report /\ (state.is # "absent" => state.of \in Start) /\ stopped \subseteq Start)'
  BY <1>0, <1>15 DEF DiesOfSignal, ManagerAt, files, Report
<1>16. ASSUME NEW s \in Start, SeesExit(s)
      PROVE  (control \in Start \cup {None} /\ state \in Report /\ (state.is # "absent" => state.of \in Start) /\ stopped \subseteq Start)'
  BY <1>0, <1>16 DEF SeesExit, ManagerAt, Reports, Report
<1>17. ASSUME NEW s \in Start, Stop(s)
      PROVE  (control \in Start \cup {None} /\ state \in Report /\ (state.is # "absent" => state.of \in Start) /\ stopped \subseteq Start)'
  BY <1>0, <1>17 DEF Stop, ManagerAt, files, Report
<1>18. ASSUME NEW s \in Start, Answer(s)
      PROVE  (control \in Start \cup {None} /\ state \in Report /\ (state.is # "absent" => state.of \in Start) /\ stopped \subseteq Start)'
  BY <1>0, <1>18 DEF Answer, ManagerAt, ChildAt, Reports, Report
<1>19. ASSUME NEW s \in Start, AnswerFails(s)
      PROVE  (control \in Start \cup {None} /\ state \in Report /\ (state.is # "absent" => state.of \in Start) /\ stopped \subseteq Start)'
  BY <1>0, <1>19 DEF AnswerFails, ManagerAt, ChildAt, Reports, Report
<1>20. ASSUME NEW s \in Start, SeesSignal(s)
      PROVE  (control \in Start \cup {None} /\ state \in Report /\ (state.is # "absent" => state.of \in Start) /\ stopped \subseteq Start)'
  BY <1>0, <1>20 DEF SeesSignal, ManagerAt, files, Report
<1>21. ASSUME NEW s \in Start, EndsStopped(s)
      PROVE  (control \in Start \cup {None} /\ state \in Report /\ (state.is # "absent" => state.of \in Start) /\ stopped \subseteq Start)'
  BY <1>0, <1>21 DEF EndsStopped, ManagerAt, ChildAt, Reports, Report
<1>22. ASSUME NEW s \in Start, SelectFails(s)
      PROVE  (control \in Start \cup {None} /\ state \in Report /\ (state.is # "absent" => state.of \in Start) /\ stopped \subseteq Start)'
  BY <1>0, <1>22 DEF SelectFails, ManagerAt, files, Report
<1>23. ASSUME NEW s \in Start, EndsUnsignalled(s)
      PROVE  (control \in Start \cup {None} /\ state \in Report /\ (state.is # "absent" => state.of \in Start) /\ stopped \subseteq Start)'
  BY <1>0, <1>23 DEF EndsUnsignalled, ManagerAt, files, Report
<1>24. ASSUME NEW s \in Start, Aborts(s)
      PROVE  (control \in Start \cup {None} /\ state \in Report /\ (state.is # "absent" => state.of \in Start) /\ stopped \subseteq Start)'
  BY <1>0, <1>24 DEF Aborts, ManagerAt, files, Report
<1>25. ASSUME NEW s \in Start, EndsAborted(s)
      PROVE  (control \in Start \cup {None} /\ state \in Report /\ (state.is # "absent" => state.of \in Start) /\ stopped \subseteq Start)'
  BY <1>0, <1>25 DEF EndsAborted, ManagerAt, Reports, Running, Report
<1>26. ASSUME NEW s \in Start, Unlink(s)
      PROVE  (control \in Start \cup {None} /\ state \in Report /\ (state.is # "absent" => state.of \in Start) /\ stopped \subseteq Start)'
  BY <1>0, <1>26 DEF Unlink, ManagerAt, Report
<1>27. ASSUME NEW s \in Start, Exit(s)
      PROVE  (control \in Start \cup {None} /\ state \in Report /\ (state.is # "absent" => state.of \in Start) /\ stopped \subseteq Start)'
  BY <1>0, <1>27 DEF Exit, ManagerAt, files, Report
<1>28. ASSUME NEW s \in Start, ManagerIsKilled(s)
      PROVE  (control \in Start \cup {None} /\ state \in Report /\ (state.is # "absent" => state.of \in Start) /\ stopped \subseteq Start)'
  BY <1>0, <1>28 DEF ManagerIsKilled, ManagerAt, Alive, files, Report
<1>29. ASSUME NEW s \in Start, ManagerIsSignalled(s)
      PROVE  (control \in Start \cup {None} /\ state \in Report /\ (state.is # "absent" => state.of \in Start) /\ stopped \subseteq Start)'
  BY <1>0, <1>29 DEF ManagerIsSignalled, Alive, files, Report
<1>30. ASSUME NEW s \in Start, BecomesReady(s)
      PROVE  (control \in Start \cup {None} /\ state \in Report /\ (state.is # "absent" => state.of \in Start) /\ stopped \subseteq Start)'
  BY <1>0, <1>30 DEF BecomesReady, ChildAt, files, Report
<1>31. ASSUME NEW s \in Start, Serve(s)
      PROVE  (control \in Start \cup {None} /\ state \in Report /\ (state.is # "absent" => state.of \in Start) /\ stopped \subseteq Start)'
  BY <1>0, <1>31 DEF Serve, ChildAt, files, Report
<1>32. ASSUME NEW s \in Start, Respond(s)
      PROVE  (control \in Start \cup {None} /\ state \in Report /\ (state.is # "absent" => state.of \in Start) /\ stopped \subseteq Start)'
  BY <1>0, <1>32 DEF Respond, ChildAt, files, Report
<1>33. ASSUME NEW s \in Start, ChildExits(s)
      PROVE  (control \in Start \cup {None} /\ state \in Report /\ (state.is # "absent" => state.of \in Start) /\ stopped \subseteq Start)'
  BY <1>0, <1>33 DEF ChildExits, ChildAt, Running, files, Report
<1>34. ASSUME NEW s \in Start, ManagerAsks(s)
      PROVE  (control \in Start \cup {None} /\ state \in Report /\ (state.is # "absent" => state.of \in Start) /\ stopped \subseteq Start)'
  BY <1>0, <1>34 DEF ManagerAsks, ChildAt, AskedToExit, files, Report
<1>35. ASSUME NEW s \in Start, Lifeline(s)
      PROVE  (control \in Start \cup {None} /\ state \in Report /\ (state.is # "absent" => state.of \in Start) /\ stopped \subseteq Start)'
  BY <1>0, <1>35 DEF Lifeline, ChildAt, AskedToExit, files, Report
<1>36. ASSUME NEW s \in Start, Drain(s)
      PROVE  (control \in Start \cup {None} /\ state \in Report /\ (state.is # "absent" => state.of \in Start) /\ stopped \subseteq Start)'
  BY <1>0, <1>36 DEF Drain, ChildAt, files, Report
<1>37. CASE UNCHANGED vars
  BY <1>0, <1>37 DEF vars, files, Report
<1> QED
  BY <1>1, <1>2, <1>3, <1>4, <1>5, <1>6, <1>7, <1>8, <1>9, <1>10, <1>11, <1>12,
     <1>13, <1>14, <1>15, <1>16, <1>17, <1>18, <1>19, <1>20, <1>21, <1>22, <1>23, <1>24,
     <1>25, <1>26, <1>27, <1>28, <1>29, <1>30, <1>31, <1>32, <1>33, <1>34, <1>35, <1>36,
     <1>37
  DEF Next, StartStep, ManagerStep

LEMMA TypeStep == TypeOK /\ [Next]_vars => TypeOK'
BY StagesTypeStep, ChildTypeStep, FilesTypeStep DEF TypeOK

(* The lock is taken only when nobody has it, and a start that launches    *)
(* its manager had it.                                                     *)
LEMMA OneManagerStep == IInv /\ [Next]_vars => OneManager'
<1> SUFFICES ASSUME IInv, [Next]_vars PROVE OneManager'
  OBVIOUS
<1>0. /\ start \in [Start -> StartStage] /\ manager \in [Start -> ManagerStage]
      /\ OneManager
  BY DEF IInv, TypeOK
<1>1. ASSUME NEW s \in Start, Lock(s)
      PROVE  OneManager'
  BY <1>0, <1>1 DEF Lock, StartAt, LockFree, files, OneManager, Owns, Alive
<1>2. ASSUME NEW s \in Start, Launch(s)
      PROVE  OneManager'
  BY <1>0, <1>2 DEF Launch, StartAt, ManagerAt, Reports, OneManager, Owns, Alive
<1>3. ASSUME NEW s \in Start, LaunchFails(s)
      PROVE  OneManager'
  BY <1>0, <1>3 DEF LaunchFails, StartAt, Reports, OneManager, Owns, Alive
<1>4. ASSUME NEW s \in Start, PollHealthy(s)
      PROVE  OneManager'
  BY <1>0, <1>4 DEF PollHealthy, StartAt, files, OneManager, Owns, Alive
<1>5. ASSUME NEW s \in Start, GivesUp(s)
      PROVE  OneManager'
  BY <1>0, <1>5 DEF GivesUp, StartAt, files, OneManager, Owns, Alive
<1>6. ASSUME NEW s \in Start, Terminate(s)
      PROVE  OneManager'
  BY <1>0, <1>6 DEF Terminate, Alive, files, OneManager, Owns
<1>7. ASSUME NEW s \in Start, Kill(s)
      PROVE  OneManager'
  BY <1>0, <1>7 DEF Kill, ManagerAt, Alive, files, OneManager, Owns
<1>8. ASSUME NEW s \in Start, Reap(s)
      PROVE  OneManager'
  BY <1>0, <1>8 DEF Reap, StartAt, Reaped, files, OneManager, Owns, Alive
<1>9. ASSUME NEW s \in Start, ReportFailure(s)
      PROVE  OneManager'
  BY <1>0, <1>9 DEF ReportFailure, StartAt, Reports, OneManager, Owns, Alive
<1>10. ASSUME NEW s \in Start, StartIsKilled(s)
      PROVE  OneManager'
  BY <1>0, <1>10 DEF StartIsKilled, StartAt, files, OneManager, Owns, Alive
<1>11. ASSUME NEW s \in Start, Announce(s)
      PROVE  OneManager'
  BY <1>0, <1>11 DEF Announce, ManagerAt, OneManager, Owns, Alive
<1>12. ASSUME NEW s \in Start, ReportStarting(s)
      PROVE  OneManager'
  BY <1>0, <1>12 DEF ReportStarting, ManagerAt, Reports, OneManager, Owns, Alive
<1>13. ASSUME NEW s \in Start, Spawn(s)
      PROVE  OneManager'
  BY <1>0, <1>13 DEF Spawn, ManagerAt, ChildAt, files, OneManager, Owns, Alive
<1>14. ASSUME NEW s \in Start, ReportRunning(s)
      PROVE  OneManager'
  BY <1>0, <1>14 DEF ReportRunning, ManagerAt, Reports, OneManager, Owns, Alive
<1>15. ASSUME NEW s \in Start, DiesOfSignal(s)
      PROVE  OneManager'
  BY <1>0, <1>15 DEF DiesOfSignal, ManagerAt, files, OneManager, Owns, Alive
<1>16. ASSUME NEW s \in Start, SeesExit(s)
      PROVE  OneManager'
  BY <1>0, <1>16 DEF SeesExit, ManagerAt, Reports, OneManager, Owns, Alive
<1>17. ASSUME NEW s \in Start, Stop(s)
      PROVE  OneManager'
  BY <1>0, <1>17 DEF Stop, ManagerAt, files, OneManager, Owns, Alive
<1>18. ASSUME NEW s \in Start, Answer(s)
      PROVE  OneManager'
  BY <1>0, <1>18 DEF Answer, ManagerAt, ChildAt, Reports, OneManager, Owns, Alive
<1>19. ASSUME NEW s \in Start, AnswerFails(s)
      PROVE  OneManager'
  BY <1>0, <1>19 DEF AnswerFails, ManagerAt, ChildAt, Reports, OneManager, Owns, Alive
<1>20. ASSUME NEW s \in Start, SeesSignal(s)
      PROVE  OneManager'
  BY <1>0, <1>20 DEF SeesSignal, ManagerAt, files, OneManager, Owns, Alive
<1>21. ASSUME NEW s \in Start, EndsStopped(s)
      PROVE  OneManager'
  BY <1>0, <1>21 DEF EndsStopped, ManagerAt, ChildAt, Reports, OneManager, Owns, Alive
<1>22. ASSUME NEW s \in Start, SelectFails(s)
      PROVE  OneManager'
  BY <1>0, <1>22 DEF SelectFails, ManagerAt, files, OneManager, Owns, Alive
<1>23. ASSUME NEW s \in Start, EndsUnsignalled(s)
      PROVE  OneManager'
  BY <1>0, <1>23 DEF EndsUnsignalled, ManagerAt, files, OneManager, Owns, Alive
<1>24. ASSUME NEW s \in Start, Aborts(s)
      PROVE  OneManager'
  BY <1>0, <1>24 DEF Aborts, ManagerAt, files, OneManager, Owns, Alive
<1>25. ASSUME NEW s \in Start, EndsAborted(s)
      PROVE  OneManager'
  BY <1>0, <1>25 DEF EndsAborted, ManagerAt, Reports, Running, OneManager, Owns, Alive
<1>26. ASSUME NEW s \in Start, Unlink(s)
      PROVE  OneManager'
  BY <1>0, <1>26 DEF Unlink, ManagerAt, OneManager, Owns, Alive
<1>27. ASSUME NEW s \in Start, Exit(s)
      PROVE  OneManager'
  BY <1>0, <1>27 DEF Exit, ManagerAt, files, OneManager, Owns, Alive
<1>28. ASSUME NEW s \in Start, ManagerIsKilled(s)
      PROVE  OneManager'
  BY <1>0, <1>28 DEF ManagerIsKilled, ManagerAt, Alive, files, OneManager, Owns
<1>29. ASSUME NEW s \in Start, ManagerIsSignalled(s)
      PROVE  OneManager'
  BY <1>0, <1>29 DEF ManagerIsSignalled, Alive, files, OneManager, Owns
<1>30. ASSUME NEW s \in Start, BecomesReady(s)
      PROVE  OneManager'
  BY <1>0, <1>30 DEF BecomesReady, ChildAt, files, OneManager, Owns, Alive
<1>31. ASSUME NEW s \in Start, Serve(s)
      PROVE  OneManager'
  BY <1>0, <1>31 DEF Serve, ChildAt, files, OneManager, Owns, Alive
<1>32. ASSUME NEW s \in Start, Respond(s)
      PROVE  OneManager'
  BY <1>0, <1>32 DEF Respond, ChildAt, files, OneManager, Owns, Alive
<1>33. ASSUME NEW s \in Start, ChildExits(s)
      PROVE  OneManager'
  BY <1>0, <1>33 DEF ChildExits, ChildAt, Running, files, OneManager, Owns, Alive
<1>34. ASSUME NEW s \in Start, ManagerAsks(s)
      PROVE  OneManager'
  BY <1>0, <1>34 DEF ManagerAsks, ChildAt, AskedToExit, files, OneManager, Owns, Alive
<1>35. ASSUME NEW s \in Start, Lifeline(s)
      PROVE  OneManager'
  BY <1>0, <1>35 DEF Lifeline, ChildAt, AskedToExit, files, OneManager, Owns, Alive
<1>36. ASSUME NEW s \in Start, Drain(s)
      PROVE  OneManager'
  BY <1>0, <1>36 DEF Drain, ChildAt, files, OneManager, Owns, Alive
<1>37. CASE UNCHANGED vars
  BY <1>0, <1>37 DEF vars, files, OneManager, Owns, Alive
<1> QED
  BY <1>1, <1>2, <1>3, <1>4, <1>5, <1>6, <1>7, <1>8, <1>9, <1>10, <1>11, <1>12,
     <1>13, <1>14, <1>15, <1>16, <1>17, <1>18, <1>19, <1>20, <1>21, <1>22, <1>23, <1>24,
     <1>25, <1>26, <1>27, <1>28, <1>29, <1>30, <1>31, <1>32, <1>33, <1>34, <1>35, <1>36,
     <1>37
  DEF Next, StartStep, ManagerStep

(* Only the owner of the lock writes or removes the control file.          *)
LEMMA ReachableStep == IInv /\ [Next]_vars => ServingIsReachable'
<1> SUFFICES ASSUME IInv, [Next]_vars PROVE ServingIsReachable'
  OBVIOUS
<1>0. /\ manager \in [Start -> ManagerStage]
      /\ ServingIsReachable /\ OneManager
  BY DEF IInv, TypeOK
<1>1. ASSUME NEW s \in Start, Lock(s)
      PROVE  ServingIsReachable'
  BY <1>0, <1>1 DEF Lock, StartAt, LockFree, files, ServingIsReachable, Announced, OneManager, Owns, Alive
<1>2. ASSUME NEW s \in Start, Launch(s)
      PROVE  ServingIsReachable'
  BY <1>0, <1>2 DEF Launch, StartAt, ManagerAt, Reports, ServingIsReachable, Announced, OneManager, Owns, Alive
<1>3. ASSUME NEW s \in Start, LaunchFails(s)
      PROVE  ServingIsReachable'
  BY <1>0, <1>3 DEF LaunchFails, StartAt, Reports, ServingIsReachable, Announced, OneManager, Owns, Alive
<1>4. ASSUME NEW s \in Start, PollHealthy(s)
      PROVE  ServingIsReachable'
  BY <1>0, <1>4 DEF PollHealthy, StartAt, files, ServingIsReachable, Announced, OneManager, Owns, Alive
<1>5. ASSUME NEW s \in Start, GivesUp(s)
      PROVE  ServingIsReachable'
  BY <1>0, <1>5 DEF GivesUp, StartAt, files, ServingIsReachable, Announced, OneManager, Owns, Alive
<1>6. ASSUME NEW s \in Start, Terminate(s)
      PROVE  ServingIsReachable'
  BY <1>0, <1>6 DEF Terminate, Alive, files, ServingIsReachable, Announced, OneManager, Owns
<1>7. ASSUME NEW s \in Start, Kill(s)
      PROVE  ServingIsReachable'
  BY <1>0, <1>7 DEF Kill, ManagerAt, Alive, files, ServingIsReachable, Announced, OneManager, Owns
<1>8. ASSUME NEW s \in Start, Reap(s)
      PROVE  ServingIsReachable'
  BY <1>0, <1>8 DEF Reap, StartAt, Reaped, files, ServingIsReachable, Announced, OneManager, Owns, Alive
<1>9. ASSUME NEW s \in Start, ReportFailure(s)
      PROVE  ServingIsReachable'
  BY <1>0, <1>9 DEF ReportFailure, StartAt, Reports, ServingIsReachable, Announced, OneManager, Owns, Alive
<1>10. ASSUME NEW s \in Start, StartIsKilled(s)
      PROVE  ServingIsReachable'
  BY <1>0, <1>10 DEF StartIsKilled, StartAt, files, ServingIsReachable, Announced, OneManager, Owns, Alive
<1>11. ASSUME NEW s \in Start, Announce(s)
      PROVE  ServingIsReachable'
  BY <1>0, <1>11 DEF Announce, ManagerAt, ServingIsReachable, Announced, OneManager, Owns, Alive
<1>12. ASSUME NEW s \in Start, ReportStarting(s)
      PROVE  ServingIsReachable'
  BY <1>0, <1>12 DEF ReportStarting, ManagerAt, Reports, ServingIsReachable, Announced, OneManager, Owns, Alive
<1>13. ASSUME NEW s \in Start, Spawn(s)
      PROVE  ServingIsReachable'
  BY <1>0, <1>13 DEF Spawn, ManagerAt, ChildAt, files, ServingIsReachable, Announced, OneManager, Owns, Alive
<1>14. ASSUME NEW s \in Start, ReportRunning(s)
      PROVE  ServingIsReachable'
  BY <1>0, <1>14 DEF ReportRunning, ManagerAt, Reports, ServingIsReachable, Announced, OneManager, Owns, Alive
<1>15. ASSUME NEW s \in Start, DiesOfSignal(s)
      PROVE  ServingIsReachable'
  BY <1>0, <1>15 DEF DiesOfSignal, ManagerAt, files, ServingIsReachable, Announced, OneManager, Owns, Alive
<1>16. ASSUME NEW s \in Start, SeesExit(s)
      PROVE  ServingIsReachable'
  BY <1>0, <1>16 DEF SeesExit, ManagerAt, Reports, ServingIsReachable, Announced, OneManager, Owns, Alive
<1>17. ASSUME NEW s \in Start, Stop(s)
      PROVE  ServingIsReachable'
  BY <1>0, <1>17 DEF Stop, ManagerAt, files, ServingIsReachable, Announced, OneManager, Owns, Alive
<1>18. ASSUME NEW s \in Start, Answer(s)
      PROVE  ServingIsReachable'
  BY <1>0, <1>18 DEF Answer, ManagerAt, ChildAt, Reports, ServingIsReachable, Announced, OneManager, Owns, Alive
<1>19. ASSUME NEW s \in Start, AnswerFails(s)
      PROVE  ServingIsReachable'
  BY <1>0, <1>19 DEF AnswerFails, ManagerAt, ChildAt, Reports, ServingIsReachable, Announced, OneManager, Owns, Alive
<1>20. ASSUME NEW s \in Start, SeesSignal(s)
      PROVE  ServingIsReachable'
  BY <1>0, <1>20 DEF SeesSignal, ManagerAt, files, ServingIsReachable, Announced, OneManager, Owns, Alive
<1>21. ASSUME NEW s \in Start, EndsStopped(s)
      PROVE  ServingIsReachable'
  BY <1>0, <1>21 DEF EndsStopped, ManagerAt, ChildAt, Reports, ServingIsReachable, Announced, OneManager, Owns, Alive
<1>22. ASSUME NEW s \in Start, SelectFails(s)
      PROVE  ServingIsReachable'
  BY <1>0, <1>22 DEF SelectFails, ManagerAt, files, ServingIsReachable, Announced, OneManager, Owns, Alive
<1>23. ASSUME NEW s \in Start, EndsUnsignalled(s)
      PROVE  ServingIsReachable'
  BY <1>0, <1>23 DEF EndsUnsignalled, ManagerAt, files, ServingIsReachable, Announced, OneManager, Owns, Alive
<1>24. ASSUME NEW s \in Start, Aborts(s)
      PROVE  ServingIsReachable'
  BY <1>0, <1>24 DEF Aborts, ManagerAt, files, ServingIsReachable, Announced, OneManager, Owns, Alive
<1>25. ASSUME NEW s \in Start, EndsAborted(s)
      PROVE  ServingIsReachable'
  BY <1>0, <1>25 DEF EndsAborted, ManagerAt, Reports, Running, ServingIsReachable, Announced, OneManager, Owns, Alive
<1>26. ASSUME NEW s \in Start, Unlink(s)
      PROVE  ServingIsReachable'
  BY <1>0, <1>26 DEF Unlink, ManagerAt, ServingIsReachable, Announced, OneManager, Owns, Alive
<1>27. ASSUME NEW s \in Start, Exit(s)
      PROVE  ServingIsReachable'
  BY <1>0, <1>27 DEF Exit, ManagerAt, files, ServingIsReachable, Announced, OneManager, Owns, Alive
<1>28. ASSUME NEW s \in Start, ManagerIsKilled(s)
      PROVE  ServingIsReachable'
  BY <1>0, <1>28 DEF ManagerIsKilled, ManagerAt, Alive, files, ServingIsReachable, Announced, OneManager, Owns
<1>29. ASSUME NEW s \in Start, ManagerIsSignalled(s)
      PROVE  ServingIsReachable'
  BY <1>0, <1>29 DEF ManagerIsSignalled, Alive, files, ServingIsReachable, Announced, OneManager, Owns
<1>30. ASSUME NEW s \in Start, BecomesReady(s)
      PROVE  ServingIsReachable'
  BY <1>0, <1>30 DEF BecomesReady, ChildAt, files, ServingIsReachable, Announced, OneManager, Owns, Alive
<1>31. ASSUME NEW s \in Start, Serve(s)
      PROVE  ServingIsReachable'
  BY <1>0, <1>31 DEF Serve, ChildAt, files, ServingIsReachable, Announced, OneManager, Owns, Alive
<1>32. ASSUME NEW s \in Start, Respond(s)
      PROVE  ServingIsReachable'
  BY <1>0, <1>32 DEF Respond, ChildAt, files, ServingIsReachable, Announced, OneManager, Owns, Alive
<1>33. ASSUME NEW s \in Start, ChildExits(s)
      PROVE  ServingIsReachable'
  BY <1>0, <1>33 DEF ChildExits, ChildAt, Running, files, ServingIsReachable, Announced, OneManager, Owns, Alive
<1>34. ASSUME NEW s \in Start, ManagerAsks(s)
      PROVE  ServingIsReachable'
  BY <1>0, <1>34 DEF ManagerAsks, ChildAt, AskedToExit, files, ServingIsReachable, Announced, OneManager, Owns, Alive
<1>35. ASSUME NEW s \in Start, Lifeline(s)
      PROVE  ServingIsReachable'
  BY <1>0, <1>35 DEF Lifeline, ChildAt, AskedToExit, files, ServingIsReachable, Announced, OneManager, Owns, Alive
<1>36. ASSUME NEW s \in Start, Drain(s)
      PROVE  ServingIsReachable'
  BY <1>0, <1>36 DEF Drain, ChildAt, files, ServingIsReachable, Announced, OneManager, Owns, Alive
<1>37. CASE UNCHANGED vars
  BY <1>0, <1>37 DEF vars, files, ServingIsReachable, Announced, OneManager, Owns, Alive
<1> QED
  BY <1>1, <1>2, <1>3, <1>4, <1>5, <1>6, <1>7, <1>8, <1>9, <1>10, <1>11, <1>12,
     <1>13, <1>14, <1>15, <1>16, <1>17, <1>18, <1>19, <1>20, <1>21, <1>22, <1>23, <1>24,
     <1>25, <1>26, <1>27, <1>28, <1>29, <1>30, <1>31, <1>32, <1>33, <1>34, <1>35, <1>36,
     <1>37
  DEF Next, StartStep, ManagerStep

(* A runtime that has exited stays so: a manager spawns one only.          *)
LEMMA StoppedStep == IInv /\ [Next]_vars => StoppedIsGone'
<1> SUFFICES ASSUME IInv, [Next]_vars PROVE StoppedIsGone'
  OBVIOUS
<1>0. /\ manager \in [Start -> ManagerStage] /\ child \in [Start -> ChildStage]
      /\ state \in Report /\ (state.is # "absent" => state.of \in Start)
      /\ stopped \subseteq Start
      /\ StoppedIsGone
      /\ \A x \in Start : manager[x] = "reported" => child[x] = "none"
  BY DEF IInv, TypeOK, Stages
<1>1. ASSUME NEW s \in Start, Lock(s)
      PROVE  StoppedIsGone'
  BY <1>0, <1>1 DEF Lock, StartAt, LockFree, files, StoppedIsGone, Report
<1>2. ASSUME NEW s \in Start, Launch(s)
      PROVE  StoppedIsGone'
  BY <1>0, <1>2 DEF Launch, StartAt, ManagerAt, Reports, StoppedIsGone, Report
<1>3. ASSUME NEW s \in Start, LaunchFails(s)
      PROVE  StoppedIsGone'
  BY <1>0, <1>3 DEF LaunchFails, StartAt, Reports, StoppedIsGone, Report
<1>4. ASSUME NEW s \in Start, PollHealthy(s)
      PROVE  StoppedIsGone'
  BY <1>0, <1>4 DEF PollHealthy, StartAt, files, StoppedIsGone, Report
<1>5. ASSUME NEW s \in Start, GivesUp(s)
      PROVE  StoppedIsGone'
  BY <1>0, <1>5 DEF GivesUp, StartAt, files, StoppedIsGone, Report
<1>6. ASSUME NEW s \in Start, Terminate(s)
      PROVE  StoppedIsGone'
  BY <1>0, <1>6 DEF Terminate, Alive, files, StoppedIsGone, Report
<1>7. ASSUME NEW s \in Start, Kill(s)
      PROVE  StoppedIsGone'
  BY <1>0, <1>7 DEF Kill, ManagerAt, Alive, files, StoppedIsGone, Report
<1>8. ASSUME NEW s \in Start, Reap(s)
      PROVE  StoppedIsGone'
  BY <1>0, <1>8 DEF Reap, StartAt, Reaped, files, StoppedIsGone, Report
<1>9. ASSUME NEW s \in Start, ReportFailure(s)
      PROVE  StoppedIsGone'
  BY <1>0, <1>9 DEF ReportFailure, StartAt, Reports, StoppedIsGone, Report
<1>10. ASSUME NEW s \in Start, StartIsKilled(s)
      PROVE  StoppedIsGone'
  BY <1>0, <1>10 DEF StartIsKilled, StartAt, files, StoppedIsGone, Report
<1>11. ASSUME NEW s \in Start, Announce(s)
      PROVE  StoppedIsGone'
  BY <1>0, <1>11 DEF Announce, ManagerAt, StoppedIsGone, Report
<1>12. ASSUME NEW s \in Start, ReportStarting(s)
      PROVE  StoppedIsGone'
  BY <1>0, <1>12 DEF ReportStarting, ManagerAt, Reports, StoppedIsGone, Report
<1>13. ASSUME NEW s \in Start, Spawn(s)
      PROVE  StoppedIsGone'
  BY <1>0, <1>13 DEF Spawn, ManagerAt, ChildAt, files, StoppedIsGone, Report
<1>14. ASSUME NEW s \in Start, ReportRunning(s)
      PROVE  StoppedIsGone'
  BY <1>0, <1>14 DEF ReportRunning, ManagerAt, Reports, StoppedIsGone, Report
<1>15. ASSUME NEW s \in Start, DiesOfSignal(s)
      PROVE  StoppedIsGone'
  BY <1>0, <1>15 DEF DiesOfSignal, ManagerAt, files, StoppedIsGone, Report
<1>16. ASSUME NEW s \in Start, SeesExit(s)
      PROVE  StoppedIsGone'
  BY <1>0, <1>16 DEF SeesExit, ManagerAt, Reports, StoppedIsGone, Report
<1>17. ASSUME NEW s \in Start, Stop(s)
      PROVE  StoppedIsGone'
  BY <1>0, <1>17 DEF Stop, ManagerAt, files, StoppedIsGone, Report
<1>18. ASSUME NEW s \in Start, Answer(s)
      PROVE  StoppedIsGone'
  BY <1>0, <1>18 DEF Answer, ManagerAt, ChildAt, Reports, StoppedIsGone, Report
<1>19. ASSUME NEW s \in Start, AnswerFails(s)
      PROVE  StoppedIsGone'
  BY <1>0, <1>19 DEF AnswerFails, ManagerAt, ChildAt, Reports, StoppedIsGone, Report
<1>20. ASSUME NEW s \in Start, SeesSignal(s)
      PROVE  StoppedIsGone'
  BY <1>0, <1>20 DEF SeesSignal, ManagerAt, files, StoppedIsGone, Report
<1>21. ASSUME NEW s \in Start, EndsStopped(s)
      PROVE  StoppedIsGone'
  BY <1>0, <1>21 DEF EndsStopped, ManagerAt, ChildAt, Reports, StoppedIsGone, Report
<1>22. ASSUME NEW s \in Start, SelectFails(s)
      PROVE  StoppedIsGone'
  BY <1>0, <1>22 DEF SelectFails, ManagerAt, files, StoppedIsGone, Report
<1>23. ASSUME NEW s \in Start, EndsUnsignalled(s)
      PROVE  StoppedIsGone'
  BY <1>0, <1>23 DEF EndsUnsignalled, ManagerAt, files, StoppedIsGone, Report
<1>24. ASSUME NEW s \in Start, Aborts(s)
      PROVE  StoppedIsGone'
  BY <1>0, <1>24 DEF Aborts, ManagerAt, files, StoppedIsGone, Report
<1>25. ASSUME NEW s \in Start, EndsAborted(s)
      PROVE  StoppedIsGone'
  BY <1>0, <1>25 DEF EndsAborted, ManagerAt, Reports, Running, StoppedIsGone, Report
<1>26. ASSUME NEW s \in Start, Unlink(s)
      PROVE  StoppedIsGone'
  BY <1>0, <1>26 DEF Unlink, ManagerAt, StoppedIsGone, Report
<1>27. ASSUME NEW s \in Start, Exit(s)
      PROVE  StoppedIsGone'
  BY <1>0, <1>27 DEF Exit, ManagerAt, files, StoppedIsGone, Report
<1>28. ASSUME NEW s \in Start, ManagerIsKilled(s)
      PROVE  StoppedIsGone'
  BY <1>0, <1>28 DEF ManagerIsKilled, ManagerAt, Alive, files, StoppedIsGone, Report
<1>29. ASSUME NEW s \in Start, ManagerIsSignalled(s)
      PROVE  StoppedIsGone'
  BY <1>0, <1>29 DEF ManagerIsSignalled, Alive, files, StoppedIsGone, Report
<1>30. ASSUME NEW s \in Start, BecomesReady(s)
      PROVE  StoppedIsGone'
  BY <1>0, <1>30 DEF BecomesReady, ChildAt, files, StoppedIsGone, Report
<1>31. ASSUME NEW s \in Start, Serve(s)
      PROVE  StoppedIsGone'
  BY <1>0, <1>31 DEF Serve, ChildAt, files, StoppedIsGone, Report
<1>32. ASSUME NEW s \in Start, Respond(s)
      PROVE  StoppedIsGone'
  BY <1>0, <1>32 DEF Respond, ChildAt, files, StoppedIsGone, Report
<1>33. ASSUME NEW s \in Start, ChildExits(s)
      PROVE  StoppedIsGone'
  BY <1>0, <1>33 DEF ChildExits, ChildAt, Running, files, StoppedIsGone, Report
<1>34. ASSUME NEW s \in Start, ManagerAsks(s)
      PROVE  StoppedIsGone'
  BY <1>0, <1>34 DEF ManagerAsks, ChildAt, AskedToExit, files, StoppedIsGone, Report
<1>35. ASSUME NEW s \in Start, Lifeline(s)
      PROVE  StoppedIsGone'
  BY <1>0, <1>35 DEF Lifeline, ChildAt, AskedToExit, files, StoppedIsGone, Report
<1>36. ASSUME NEW s \in Start, Drain(s)
      PROVE  StoppedIsGone'
  BY <1>0, <1>36 DEF Drain, ChildAt, files, StoppedIsGone, Report
<1>37. CASE UNCHANGED vars
  BY <1>0, <1>37 DEF vars, files, StoppedIsGone, Report
<1> QED
  BY <1>1, <1>2, <1>3, <1>4, <1>5, <1>6, <1>7, <1>8, <1>9, <1>10, <1>11, <1>12,
     <1>13, <1>14, <1>15, <1>16, <1>17, <1>18, <1>19, <1>20, <1>21, <1>22, <1>23, <1>24,
     <1>25, <1>26, <1>27, <1>28, <1>29, <1>30, <1>31, <1>32, <1>33, <1>34, <1>35, <1>36,
     <1>37
  DEF Next, StartStep, ManagerStep

(* A start fails without a manager, or waits for its end.                  *)
LEMMA ReapedStep == IInv /\ [Next]_vars => FailedReapsManager'
<1> SUFFICES ASSUME IInv, [Next]_vars PROVE FailedReapsManager'
  OBVIOUS
<1>0. /\ start \in [Start -> StartStage] /\ manager \in [Start -> ManagerStage]
      /\ FailedReapsManager
      /\ \A x \in Start : start[x] = "locked" => manager[x] = "none"
  BY DEF IInv, TypeOK, Stages
<1>1. ASSUME NEW s \in Start, Lock(s)
      PROVE  FailedReapsManager'
  BY <1>0, <1>1 DEF Lock, StartAt, LockFree, files, FailedReapsManager, Alive
<1>2. ASSUME NEW s \in Start, Launch(s)
      PROVE  FailedReapsManager'
  BY <1>0, <1>2 DEF Launch, StartAt, ManagerAt, Reports, FailedReapsManager, Alive
<1>3. ASSUME NEW s \in Start, LaunchFails(s)
      PROVE  FailedReapsManager'
  BY <1>0, <1>3 DEF LaunchFails, StartAt, Reports, FailedReapsManager, Alive
<1>4. ASSUME NEW s \in Start, PollHealthy(s)
      PROVE  FailedReapsManager'
  BY <1>0, <1>4 DEF PollHealthy, StartAt, files, FailedReapsManager, Alive
<1>5. ASSUME NEW s \in Start, GivesUp(s)
      PROVE  FailedReapsManager'
  BY <1>0, <1>5 DEF GivesUp, StartAt, files, FailedReapsManager, Alive
<1>6. ASSUME NEW s \in Start, Terminate(s)
      PROVE  FailedReapsManager'
  BY <1>0, <1>6 DEF Terminate, Alive, files, FailedReapsManager
<1>7. ASSUME NEW s \in Start, Kill(s)
      PROVE  FailedReapsManager'
  BY <1>0, <1>7 DEF Kill, ManagerAt, Alive, files, FailedReapsManager
<1>8. ASSUME NEW s \in Start, Reap(s)
      PROVE  FailedReapsManager'
  BY <1>0, <1>8 DEF Reap, StartAt, Reaped, files, FailedReapsManager, Alive
<1>9. ASSUME NEW s \in Start, ReportFailure(s)
      PROVE  FailedReapsManager'
  BY <1>0, <1>9 DEF ReportFailure, StartAt, Reports, FailedReapsManager, Alive
<1>10. ASSUME NEW s \in Start, StartIsKilled(s)
      PROVE  FailedReapsManager'
  BY <1>0, <1>10 DEF StartIsKilled, StartAt, files, FailedReapsManager, Alive
<1>11. ASSUME NEW s \in Start, Announce(s)
      PROVE  FailedReapsManager'
  BY <1>0, <1>11 DEF Announce, ManagerAt, FailedReapsManager, Alive
<1>12. ASSUME NEW s \in Start, ReportStarting(s)
      PROVE  FailedReapsManager'
  BY <1>0, <1>12 DEF ReportStarting, ManagerAt, Reports, FailedReapsManager, Alive
<1>13. ASSUME NEW s \in Start, Spawn(s)
      PROVE  FailedReapsManager'
  BY <1>0, <1>13 DEF Spawn, ManagerAt, ChildAt, files, FailedReapsManager, Alive
<1>14. ASSUME NEW s \in Start, ReportRunning(s)
      PROVE  FailedReapsManager'
  BY <1>0, <1>14 DEF ReportRunning, ManagerAt, Reports, FailedReapsManager, Alive
<1>15. ASSUME NEW s \in Start, DiesOfSignal(s)
      PROVE  FailedReapsManager'
  BY <1>0, <1>15 DEF DiesOfSignal, ManagerAt, files, FailedReapsManager, Alive
<1>16. ASSUME NEW s \in Start, SeesExit(s)
      PROVE  FailedReapsManager'
  BY <1>0, <1>16 DEF SeesExit, ManagerAt, Reports, FailedReapsManager, Alive
<1>17. ASSUME NEW s \in Start, Stop(s)
      PROVE  FailedReapsManager'
  BY <1>0, <1>17 DEF Stop, ManagerAt, files, FailedReapsManager, Alive
<1>18. ASSUME NEW s \in Start, Answer(s)
      PROVE  FailedReapsManager'
  BY <1>0, <1>18 DEF Answer, ManagerAt, ChildAt, Reports, FailedReapsManager, Alive
<1>19. ASSUME NEW s \in Start, AnswerFails(s)
      PROVE  FailedReapsManager'
  BY <1>0, <1>19 DEF AnswerFails, ManagerAt, ChildAt, Reports, FailedReapsManager, Alive
<1>20. ASSUME NEW s \in Start, SeesSignal(s)
      PROVE  FailedReapsManager'
  BY <1>0, <1>20 DEF SeesSignal, ManagerAt, files, FailedReapsManager, Alive
<1>21. ASSUME NEW s \in Start, EndsStopped(s)
      PROVE  FailedReapsManager'
  BY <1>0, <1>21 DEF EndsStopped, ManagerAt, ChildAt, Reports, FailedReapsManager, Alive
<1>22. ASSUME NEW s \in Start, SelectFails(s)
      PROVE  FailedReapsManager'
  BY <1>0, <1>22 DEF SelectFails, ManagerAt, files, FailedReapsManager, Alive
<1>23. ASSUME NEW s \in Start, EndsUnsignalled(s)
      PROVE  FailedReapsManager'
  BY <1>0, <1>23 DEF EndsUnsignalled, ManagerAt, files, FailedReapsManager, Alive
<1>24. ASSUME NEW s \in Start, Aborts(s)
      PROVE  FailedReapsManager'
  BY <1>0, <1>24 DEF Aborts, ManagerAt, files, FailedReapsManager, Alive
<1>25. ASSUME NEW s \in Start, EndsAborted(s)
      PROVE  FailedReapsManager'
  BY <1>0, <1>25 DEF EndsAborted, ManagerAt, Reports, Running, FailedReapsManager, Alive
<1>26. ASSUME NEW s \in Start, Unlink(s)
      PROVE  FailedReapsManager'
  BY <1>0, <1>26 DEF Unlink, ManagerAt, FailedReapsManager, Alive
<1>27. ASSUME NEW s \in Start, Exit(s)
      PROVE  FailedReapsManager'
  BY <1>0, <1>27 DEF Exit, ManagerAt, files, FailedReapsManager, Alive
<1>28. ASSUME NEW s \in Start, ManagerIsKilled(s)
      PROVE  FailedReapsManager'
  BY <1>0, <1>28 DEF ManagerIsKilled, ManagerAt, Alive, files, FailedReapsManager
<1>29. ASSUME NEW s \in Start, ManagerIsSignalled(s)
      PROVE  FailedReapsManager'
  BY <1>0, <1>29 DEF ManagerIsSignalled, Alive, files, FailedReapsManager
<1>30. ASSUME NEW s \in Start, BecomesReady(s)
      PROVE  FailedReapsManager'
  BY <1>0, <1>30 DEF BecomesReady, ChildAt, files, FailedReapsManager, Alive
<1>31. ASSUME NEW s \in Start, Serve(s)
      PROVE  FailedReapsManager'
  BY <1>0, <1>31 DEF Serve, ChildAt, files, FailedReapsManager, Alive
<1>32. ASSUME NEW s \in Start, Respond(s)
      PROVE  FailedReapsManager'
  BY <1>0, <1>32 DEF Respond, ChildAt, files, FailedReapsManager, Alive
<1>33. ASSUME NEW s \in Start, ChildExits(s)
      PROVE  FailedReapsManager'
  BY <1>0, <1>33 DEF ChildExits, ChildAt, Running, files, FailedReapsManager, Alive
<1>34. ASSUME NEW s \in Start, ManagerAsks(s)
      PROVE  FailedReapsManager'
  BY <1>0, <1>34 DEF ManagerAsks, ChildAt, AskedToExit, files, FailedReapsManager, Alive
<1>35. ASSUME NEW s \in Start, Lifeline(s)
      PROVE  FailedReapsManager'
  BY <1>0, <1>35 DEF Lifeline, ChildAt, AskedToExit, files, FailedReapsManager, Alive
<1>36. ASSUME NEW s \in Start, Drain(s)
      PROVE  FailedReapsManager'
  BY <1>0, <1>36 DEF Drain, ChildAt, files, FailedReapsManager, Alive
<1>37. CASE UNCHANGED vars
  BY <1>0, <1>37 DEF vars, files, FailedReapsManager, Alive
<1> QED
  BY <1>1, <1>2, <1>3, <1>4, <1>5, <1>6, <1>7, <1>8, <1>9, <1>10, <1>11, <1>12,
     <1>13, <1>14, <1>15, <1>16, <1>17, <1>18, <1>19, <1>20, <1>21, <1>22, <1>23, <1>24,
     <1>25, <1>26, <1>27, <1>28, <1>29, <1>30, <1>31, <1>32, <1>33, <1>34, <1>35, <1>36,
     <1>37
  DEF Next, StartStep, ManagerStep

(* The stages of start, manager and runtime stay in step.                  *)
LEMMA StagesStep == IInv /\ [Next]_vars => Stages'
<1> SUFFICES ASSUME IInv, [Next]_vars PROVE Stages'
  OBVIOUS
<1>0. /\ start \in [Start -> StartStage] /\ manager \in [Start -> ManagerStage]
      /\ child \in [Start -> ChildStage]
      /\ Stages
  BY DEF IInv, TypeOK
<1>1. ASSUME NEW s \in Start, Lock(s)
      PROVE  Stages'
  BY <1>0, <1>1 DEF Lock, StartAt, LockFree, files, Stages, Alive
<1>2. ASSUME NEW s \in Start, Launch(s)
      PROVE  Stages'
  BY <1>0, <1>2 DEF Launch, StartAt, ManagerAt, Reports, Stages, Alive
<1>3. ASSUME NEW s \in Start, LaunchFails(s)
      PROVE  Stages'
  BY <1>0, <1>3 DEF LaunchFails, StartAt, Reports, Stages, Alive
<1>4. ASSUME NEW s \in Start, PollHealthy(s)
      PROVE  Stages'
  BY <1>0, <1>4 DEF PollHealthy, StartAt, files, Stages, Alive
<1>5. ASSUME NEW s \in Start, GivesUp(s)
      PROVE  Stages'
  BY <1>0, <1>5 DEF GivesUp, StartAt, files, Stages, Alive
<1>6. ASSUME NEW s \in Start, Terminate(s)
      PROVE  Stages'
  BY <1>0, <1>6 DEF Terminate, Alive, files, Stages
<1>7. ASSUME NEW s \in Start, Kill(s)
      PROVE  Stages'
  BY <1>0, <1>7 DEF Kill, ManagerAt, Alive, files, Stages
<1>8. ASSUME NEW s \in Start, Reap(s)
      PROVE  Stages'
  BY <1>0, <1>8 DEF Reap, StartAt, Reaped, files, Stages, Alive
<1>9. ASSUME NEW s \in Start, ReportFailure(s)
      PROVE  Stages'
  BY <1>0, <1>9 DEF ReportFailure, StartAt, Reports, Stages, Alive
<1>10. ASSUME NEW s \in Start, StartIsKilled(s)
      PROVE  Stages'
  BY <1>0, <1>10 DEF StartIsKilled, StartAt, files, Stages, Alive
<1>11. ASSUME NEW s \in Start, Announce(s)
      PROVE  Stages'
  BY <1>0, <1>11 DEF Announce, ManagerAt, Stages, Alive
<1>12. ASSUME NEW s \in Start, ReportStarting(s)
      PROVE  Stages'
  BY <1>0, <1>12 DEF ReportStarting, ManagerAt, Reports, Stages, Alive
<1>13. ASSUME NEW s \in Start, Spawn(s)
      PROVE  Stages'
  BY <1>0, <1>13 DEF Spawn, ManagerAt, ChildAt, files, Stages, Alive
<1>14. ASSUME NEW s \in Start, ReportRunning(s)
      PROVE  Stages'
  BY <1>0, <1>14 DEF ReportRunning, ManagerAt, Reports, Stages, Alive
<1>15. ASSUME NEW s \in Start, DiesOfSignal(s)
      PROVE  Stages'
  BY <1>0, <1>15 DEF DiesOfSignal, ManagerAt, files, Stages, Alive
<1>16. ASSUME NEW s \in Start, SeesExit(s)
      PROVE  Stages'
  BY <1>0, <1>16 DEF SeesExit, ManagerAt, Reports, Stages, Alive
<1>17. ASSUME NEW s \in Start, Stop(s)
      PROVE  Stages'
  BY <1>0, <1>17 DEF Stop, ManagerAt, files, Stages, Alive
<1>18. ASSUME NEW s \in Start, Answer(s)
      PROVE  Stages'
  BY <1>0, <1>18 DEF Answer, ManagerAt, ChildAt, Reports, Stages, Alive
<1>19. ASSUME NEW s \in Start, AnswerFails(s)
      PROVE  Stages'
  BY <1>0, <1>19 DEF AnswerFails, ManagerAt, ChildAt, Reports, Stages, Alive
<1>20. ASSUME NEW s \in Start, SeesSignal(s)
      PROVE  Stages'
  BY <1>0, <1>20 DEF SeesSignal, ManagerAt, files, Stages, Alive
<1>21. ASSUME NEW s \in Start, EndsStopped(s)
      PROVE  Stages'
  BY <1>0, <1>21 DEF EndsStopped, ManagerAt, ChildAt, Reports, Stages, Alive
<1>22. ASSUME NEW s \in Start, SelectFails(s)
      PROVE  Stages'
  BY <1>0, <1>22 DEF SelectFails, ManagerAt, files, Stages, Alive
<1>23. ASSUME NEW s \in Start, EndsUnsignalled(s)
      PROVE  Stages'
  BY <1>0, <1>23 DEF EndsUnsignalled, ManagerAt, files, Stages, Alive
<1>24. ASSUME NEW s \in Start, Aborts(s)
      PROVE  Stages'
  BY <1>0, <1>24 DEF Aborts, ManagerAt, files, Stages, Alive
<1>25. ASSUME NEW s \in Start, EndsAborted(s)
      PROVE  Stages'
  BY <1>0, <1>25 DEF EndsAborted, ManagerAt, Reports, Running, Stages, Alive
<1>26. ASSUME NEW s \in Start, Unlink(s)
      PROVE  Stages'
  BY <1>0, <1>26 DEF Unlink, ManagerAt, Stages, Alive
<1>27. ASSUME NEW s \in Start, Exit(s)
      PROVE  Stages'
  BY <1>0, <1>27 DEF Exit, ManagerAt, files, Stages, Alive
<1>28. ASSUME NEW s \in Start, ManagerIsKilled(s)
      PROVE  Stages'
  BY <1>0, <1>28 DEF ManagerIsKilled, ManagerAt, Alive, files, Stages
<1>29. ASSUME NEW s \in Start, ManagerIsSignalled(s)
      PROVE  Stages'
  BY <1>0, <1>29 DEF ManagerIsSignalled, Alive, files, Stages
<1>30. ASSUME NEW s \in Start, BecomesReady(s)
      PROVE  Stages'
  BY <1>0, <1>30 DEF BecomesReady, ChildAt, files, Stages, Alive
<1>31. ASSUME NEW s \in Start, Serve(s)
      PROVE  Stages'
  BY <1>0, <1>31 DEF Serve, ChildAt, files, Stages, Alive
<1>32. ASSUME NEW s \in Start, Respond(s)
      PROVE  Stages'
  BY <1>0, <1>32 DEF Respond, ChildAt, files, Stages, Alive
<1>33. ASSUME NEW s \in Start, ChildExits(s)
      PROVE  Stages'
  BY <1>0, <1>33 DEF ChildExits, ChildAt, Running, files, Stages, Alive
<1>34. ASSUME NEW s \in Start, ManagerAsks(s)
      PROVE  Stages'
  BY <1>0, <1>34 DEF ManagerAsks, ChildAt, AskedToExit, files, Stages, Alive
<1>35. ASSUME NEW s \in Start, Lifeline(s)
      PROVE  Stages'
  BY <1>0, <1>35 DEF Lifeline, ChildAt, AskedToExit, files, Stages, Alive
<1>36. ASSUME NEW s \in Start, Drain(s)
      PROVE  Stages'
  BY <1>0, <1>36 DEF Drain, ChildAt, files, Stages, Alive
<1>37. CASE UNCHANGED vars
  BY <1>0, <1>37 DEF vars, files, Stages, Alive
<1> QED
  BY <1>1, <1>2, <1>3, <1>4, <1>5, <1>6, <1>7, <1>8, <1>9, <1>10, <1>11, <1>12,
     <1>13, <1>14, <1>15, <1>16, <1>17, <1>18, <1>19, <1>20, <1>21, <1>22, <1>23, <1>24,
     <1>25, <1>26, <1>27, <1>28, <1>29, <1>30, <1>31, <1>32, <1>33, <1>34, <1>35, <1>36,
     <1>37
  DEF Next, StartStep, ManagerStep

LEMMA InductiveStep == IInv /\ [Next]_vars => IInv'
<1>1. IInv => TypeOK
  BY DEF IInv
<1> QED
  BY <1>1, TypeStep, OneManagerStep, ReachableStep, StoppedStep, ReapedStep, StagesStep DEF IInv

(* The inductive invariant holds in every state.                           *)
THEOREM Invariant == Spec => []IInv
BY InitInvariant, InductiveStep, PTL DEF Spec

(* Types: every stage, file and history keeps its type.                    *)
THEOREM TypeCorrect == Spec => []TypeOK
<1>1. IInv => TypeOK
  BY DEF IInv
<1> QED
  BY <1>1, Invariant, PTL

(* The lifecycle lock has one owner: two managers never live at once,      *)
(* whoever is killed.                                                      *)
THEOREM OneOwner == Spec => []OneManager
<1>1. IInv => OneManager
  BY DEF IInv
<1> QED
  BY <1>1, Invariant, PTL

(* An announced manager is the one that supervisor.json names.             *)
THEOREM Reachable == Spec => []ServingIsReachable
<1>1. IInv => ServingIsReachable
  BY DEF IInv
<1> QED
  BY <1>1, Invariant, PTL

(* A stop that is answered or reported means that the runtime has exited.  *)
THEOREM StopIsReal == Spec => []StoppedIsGone
<1>1. IInv => StoppedIsGone
  BY DEF IInv
<1> QED
  BY <1>1, Invariant, PTL

(* A start that fails leaves no manager behind.                            *)
THEOREM FailureCleansUp == Spec => []FailedReapsManager
<1>1. IInv => FailedReapsManager
  BY DEF IInv
<1> QED
  BY <1>1, Invariant, PTL
=============================================================================
