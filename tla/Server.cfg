CONSTANTS
    Workers = {w1, w2, w3}
    Main = main
    Jobs = {j1, j2}
    None = none
    SignalThreads = {main, w1}
    MaxSpurious = 1

SPECIFICATION FairSpec

INVARIANTS
    TypeOK
    ClientOwnership

PROPERTIES
    EveryClientServed

\* the process ends, or its threads wait for each other
CHECK_DEADLOCK FALSE
