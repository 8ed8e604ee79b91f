SPECIFICATION Spec
CONSTANTS
    Jobs = {j1}
    N = 2
    s1 = s1
    Sessions = {s1}
    SessionOf <- MCSessionOf
    NoJob = NoJob
    AutoResume = {TRUE, FALSE}
    MaxStops = 1
    MaxFaults = 0
INVARIANT DocShutdownLeavesPending
