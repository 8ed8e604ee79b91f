SPECIFICATION Spec
CONSTANTS
    a1 = a1
    a2 = a2
    a3 = a3
    a4 = a4
    a5 = a5
    p1 = p1
    p1b = p1b
    p2 = p2
    p3 = p3
    p4 = p4
    p5 = p5
    bad = bad
    r1 = r1
    r2 = r2
    o1 = o1
    o2 = o2
    Objects = {o1, o2}
    NoObject = NoObject
    Quiet = 1
    Cooldown = 2
    MaxTime = 4
    MaxExits = 1
    MaxFaults = 1
    Requests = {r1, r2}
    Accounts = {a1, a2, a3, a4, a5}
    Phones = {p1, p1b, p2, p3, p4, p5, bad}
    AccountOf <- MCAccountOf
    NoAccount = NoAccount
    Inputs <- MCInputs
    participantAddBatchLen = 2
    maxGroupParticipants = 8
SYMMETRY MCSymmetry
VIEW MCView
ACTION_CONSTRAINT Bounded
INVARIANTS IInv AskedOnce AnswerTrue
PROPERTY Paced
