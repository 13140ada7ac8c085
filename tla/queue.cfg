SPECIFICATION FairSpec
CONSTANTS
    Packet = {p1, p2}
    Node = {n1, n2, n3}
    Nil = nil
    Garbage = garbage
    DepthMod = 8
    ReadyDepth = 2
    MaxPush = 4
INVARIANTS TypeOK MemorySafe PopsWhatItSent DepthMatches ReadyHolds
PROPERTIES ImplementsFifo ImplementsFairFifo
