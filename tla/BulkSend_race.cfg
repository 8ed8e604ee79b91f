SPECIFICATION Spec
CONSTANTS
    Jobs = {j1}
    N = 1
    s1 = s1
    Sessions = {s1}
    SessionOf <- MCSessionOf
    NoJob = NoJob
    AutoResume = {TRUE, FALSE}
    MaxStops = 0
    MaxFaults = 0
INVARIANT DocNoDuplicate
