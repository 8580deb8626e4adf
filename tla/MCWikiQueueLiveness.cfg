CONSTANTS
    Op = {1, 2}
    Actor = {service}
    Command = {c1}
    Caller = {worker}
    QueueWorker = {worker}
    ServiceActor = service
    MaxRevision = 1
    MaxClock = 1
    MaxHistory = 1
    MaxAdmissions = 2
    MaxCrashes = 1
SPECIFICATION FairSpec
CHECK_DEADLOCK FALSE
PROPERTIES
    DueIsServed
