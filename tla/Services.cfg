SPECIFICATION PartsSpec
CONSTANTS
    Jobs = {j1}
    c1 = c1
    c2 = c2
    d1 = d1
    Callers = {c1, c2, d1}
    Drains = {d1}
    MayRestart = TRUE
    MaxRevision = 3
    q1 = q1
    q2 = q2
    q3 = q3
    t1 = t1
    e1 = e1
    e2 = e2
    Identities = {"k1", "k2"}
    Notifiers = {"n1", "n2"}
    Configs <- Mails
    MaxIdentities = 1
    MaxCount = 2
SYMMETRY MCSymmetry
VIEW MCView
INVARIANTS SnapFollowsRow NoStaleAdmission  MailIsKept ReadAsWhole 
PROPERTIES GroupsKept
CHECK_DEADLOCK FALSE
