SPECIFICATION Spec
CONSTANTS
    MaxLines = 4
    Files <- MCFiles
    NoFile = NoFile
CHECK_DEADLOCK FALSE
INVARIANT TypeOK
INVARIANT NoOverflow
INVARIANT ReadsToTheEnd
INVARIANT ChainsSuffice
INVARIANT LoadsFile
PROPERTY LoadEnds
