SPECIFICATION Spec
CONSTANTS
    local = local
    service1 = service1
    service2 = service2
    worker = worker
    process = process
    Buses = {worker, process}
    Publishers = {worker}
    Subs <- MCSubs
    BusOf <- MCBusOf
    GroupOf <- MCGroupOf
    NoGroup = none
    Free = free
    MaxPublished = 2
    Recorders = {service2}
    Guarded = {}
INVARIANTS
    SavedSizesRight
CHECK_DEADLOCK FALSE
