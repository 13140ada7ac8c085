SPECIFICATION FairSpec
CONSTANTS
    Packet = {p, q}
    Long = {p}
    None = none
    Flush = FALSE
    Lag = FALSE
    MaxSend = 3
    MaxRx = 2
    MaxHang = 1
    MaxRestart = 0
    MaxPromisc = 0
INVARIANTS TypeOK  NoCorruptDelivery
PROPERTIES HalvesTogether  TxEnds Listens InterruptsServed
CHECK_DEADLOCK FALSE
