CONSTANTS
    None = none
    NULL = none
    max_count_per_entry = 2
    max_idle_time = 0
    Senders = {t1, t2}
    Consumers = {s1, s2}
    Ids = {i1, i2}
    Sockets = {f1}
    MaxConns = 2
    Threads = {p1, p2}
    Servers = {v1}
    Managers = {m1, m2}
    Conns = {c1, c2, c3}
    Fds = {3, 4}
    k1 = k1
    k2 = k2
    k3 = k3
    j1 = j1
    j2 = j2
    j3 = j3
    MaxLag = 1
    MaxLate = 1
    MaxTasks = 2
    Sizes = {1, 3}
    MaxCalls = 3
    Loggers = {l1, l2}
    LogSlots = {1, 2}
    LogSize = 1
    LogFiles <- SharedLog
    LogSplit <- FirstSplits
    t1 = l1
    t2 = l2
    MaxLines = 3
    MaxTime = 1
    MaxFailures = 1
    MaxConf = 4
    MaxBytes = 7

SPECIFICATION PartsSpec

SYMMETRY Alike

INVARIANTS
    PartsTypeOK
    OnePlace
    PoolConsistent
    SocketsOwned
    HashConsistent
    ChainSorted
    CountExact
    FileWhole
    SocketRestored
    FilesShared
    LinesKept
    IniFound
    PathRestored
    RoundTrips

PROPERTIES
    RefinesHashMap
    TasksKept

\* the pool may be destroyed, the process may end, the bounds are reached
CHECK_DEADLOCK FALSE
