CONSTANTS
    Producers = {t1, t2}
    Folders <- ThreeFolders
    FilesIn <- ThreeFiles
    a = a
    b = b
    c = c
    Known = {a}
    Servers = {s1, s2, s3}
    None = none

SPECIFICATION FairSpec

INVARIANTS
    NothingLeft
    OnlyNewFiles

PROPERTIES
    ProducersEnd

\* the process ends, or crashes
CHECK_DEADLOCK FALSE
