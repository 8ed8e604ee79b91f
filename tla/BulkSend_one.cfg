SPECIFICATION Spec
CONSTANTS
    Jobs = {j1}
    N = 2
    s1 = s1
    Sessions = {s1}
    SessionOf <- MCSessionOf
    NoJob = NoJob
    AutoResume = {TRUE, FALSE}
    MaxStops = 2
    MaxFaults = 1
INVARIANTS IInv NoDuplicateSend OneExtraAtMost RowsTell
PROPERTY ReportedStays
