SPECIFICATION Spec
CONSTANTS
    m1 = m1
    m2 = m2
    c1 = c1
    p1 = p1
    d1 = d1
    d2 = d2
    s1 = s1
    s2 = s2
    Messages = {m1, m2}
    Sent = {m1}
    FromMe = {m1, m2}
    WithMedia = {m1, m2}
    Chats = {c1}
    ChatOf <- MCChatOf
    Participants = {p1}
    Deliveries = {d1, d2}
    StoreMessages = FALSE
    StoreMedia = FALSE
    Listed = {}
    Switches = {s1, s2}
    NoRow = NoRow
    NoReceipt = NoReceipt
    Purger = Purger
    Remover = Remover
    MaxEvents = 3
    MaxCleanings = 2
    MaxFaults = 1
CHECK_DEADLOCK FALSE
SYMMETRY MCSymmetry
VIEW MCView
ACTION_CONSTRAINT OneMessage
INVARIANTS StoreInv ReceiptsNotAhead MediaKept SwitchKept
PROPERTY StatusRises
