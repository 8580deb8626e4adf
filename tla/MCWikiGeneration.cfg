CONSTANTS
    Op = {1}
    Actor = {service, admin}
    Command = {c1, c2}
    Caller = {worker, direct}
    QueueWorker = {worker}
    ServiceActor = service
    MaxRevision = 1
    MaxClock = 1
    MaxHistory = 2
    MaxAdmissions = 2
    MaxCrashes = 1
SPECIFICATION Spec
CHECK_DEADLOCK FALSE
INVARIANTS
    WithdrawnNeverRuns
    HistoryMatchesRow
PROPERTIES
    SettlementIsFinal
    RunsOnce
