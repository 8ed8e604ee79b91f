SPECIFICATION Spec
CONSTANTS
    Names = {n1}
    Default = n1
    Requests = {r1, r2}
    Clients = {c1, c2, c3}
    Jids = {j1, j2}
    NoClient = NoClient
    NoName = NoName
    NoJid = NoJid
    NoRow = NoRow
    MaxExits = 1
    MaxFaults = 1
VIEW MCView
ACTION_CONSTRAINT Bounded
SYMMETRY MCSymmetry
INVARIANTS IInv NameExclusive NoStray PairingKept NoOrphan
PROPERTY NeverBuried
