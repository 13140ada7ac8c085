SPECIFICATION Spec
CONSTANTS
    MaxConn = 3
    MTU = 4
    Size <- MCSize
    Fend = fend
    None = none
    Stdin = stdin
    Cut = {0, 2}
    MaxFrame <- MCMaxFrame
    MaxHost = 1
INVARIANTS TypeOK LoneFramesWhole LatestServed NeverDeaf
CHECK_DEADLOCK FALSE
