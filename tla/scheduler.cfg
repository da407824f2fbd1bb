\* Two jobs, two queues and two workers; ids used again, jobs put back.
CONSTANTS
    Ids = {"a", "b"}
    Queues = {"local", "remote"}
    Priorities = {0, 1}
    Devices = {"d1", "d2"}
    Workers = {"w1", "w2"}
    Requests <- SomeRequests
    DeviceOf <- OneDeviceEach
    None = None
    MaxSeq = 3
SPECIFICATION LiveSchedSpec
INVARIANTS BoardSound
PROPERTIES QueuedIsServed ImplementsPriorityLine
CHECK_DEADLOCK FALSE
