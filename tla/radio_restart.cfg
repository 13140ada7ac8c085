SPECIFICATION FairSpec
CONSTANTS
    Packet = {p, q}
    Long = {p}
    None = none
    Flush = FALSE
    Lag = FALSE
    MaxSend = 2
    MaxRx = 1
    MaxHang = 0
    MaxRestart = 1
    MaxPromisc = 1
PROPERTIES Recovers
CHECK_DEADLOCK FALSE
