CONSTANTS
    None = none
    MaxCalls = 2
    Senders = {t1, t2}
    Servers = {s1, s2}
    Ids = {i1, i2}
    Fds = {f1}
    MaxConns = 1
    Threads = {t1, t2}
    Keys = {k1, k2}
    Clients = {c1}
    Calls = {"upsert", "bulk", "search"}
    MaxRecords = 4
    a = a
    b = b
    c = c
    MaxLag = 1
    MaxLate = 1
    Parts = {"delivery", "mongo", "sched"}

SPECIFICATION FairSpec

INVARIANTS
    ExistsIsTrue

PROPERTIES
    QueueDrains
    CallsReturn
    EveryTaskCalled
    AddReturns

\* threads stop after MaxCalls calls, and the producer process ends
CHECK_DEADLOCK FALSE
