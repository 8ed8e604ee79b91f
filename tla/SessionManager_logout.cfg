SPECIFICATION Spec
CONSTANTS
    Names = {n1}
    Default = n1
    Requests = {r1}
    Clients = {c1, c2}
    Jids = {j1}
    NoClient = NoClient
    NoName = NoName
    NoJid = NoJid
    NoRow = NoRow
    MaxExits = 0
    MaxFaults = 0
INVARIANT DocRemoveLogsOut
