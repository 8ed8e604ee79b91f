SPECIFICATION Spec
CONSTANTS
    s1 = s1
    s2 = s2
    e1 = e1
    e2 = e2
    e3 = e3
    e4 = e4
    w1 = w1
    w2 = w2
    Sessions = {s1, s2}
    Events = {e1, e3}
    SessionOf <- MCSessionOf
    Forwarded = {e1, e3}
    Workers = {w1}
    QueueSize = 2
    MaxRetries = 1
    NoEvent = NoEvent
CHECK_DEADLOCK FALSE
INVARIANT DocStopDrains
