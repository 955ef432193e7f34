SPECIFICATION PartsSpec
CONSTANTS
    s1 = s1
    s2 = s2
    p1 = p1
    r1 = r1
    r2 = r2
    u1 = u1
    u2 = u2
    q1 = q1
    q2 = q2
    q3 = q3
    Callers = {s1, s2, p1}
    Real = {p1}
    BlockSize = 2
    LowWater = 1
    MaxOrder = 5
    Captures = {"k1", "k2", "k3"}
    QueueSize = 2
INVARIANTS CapturesAddUp
PROPERTIES OrdersRise 
CHECK_DEADLOCK FALSE
