SPECIFICATION Spec
CONSTANTS
    Packet = {p, q}
    Long = {p}
    None = none
    Flush = FALSE
    Lag = FALSE
    MaxSend = 2
    MaxRx = 0
    MaxHang = 1
    MaxRestart = 0
    MaxPromisc = 1
PROPERTY RawIsRaw
CHECK_DEADLOCK FALSE
