SPECIFICATION Spec
CONSTANTS
    service = service
    task = task
    up = up
    down = down
    NoJob = NoJob
    Jobs = {service, task}
    Names = {up, down}
    StartOn <- MCStartOn
    StopOn <- MCStopOn
    Task = {task}
    Cgroups = {service}
    Named = {service, task}
    MaxEmits = 1
    MaxEvents = 9
INVARIANTS
    NoAssertionFails
    BlockersCounted
    BlockerTells
PROPERTIES
    JobEventsWait
    FailureReported
