SPECIFICATION FairSpec
CONSTANTS
    service = service
    task = task
    up = up
    down = down
    NoJob = NoJob
    Jobs = {service, task}
    Names = {up, down}
    StartOn <- AroundStartOn
    StopOn <- AroundStopOn
    Task = {task}
    Cgroups = {service}
    Named = {service}
    MaxEmits = 1
    MaxEvents = 7
PROPERTIES
    EventsFinish
