CONSTANTS
    Workers = {w1, w2}
    Main = main
    Jobs = {j1}
    None = none
    SignalThreads = {main}
    MaxSpurious = 0

SPECIFICATION FairSpec

PROPERTIES
    ServerReturns

\* the process ends, or its threads wait for each other
CHECK_DEADLOCK FALSE
