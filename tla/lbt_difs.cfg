SPECIFICATION ClaimsSpec
CONSTANTS
    Difs = 2
    Cw = {0, 1}
    Flush = FALSE
    HeaderTimeout = 1
    DataTimeout = 2
    Airtime = 1
    MaxNow = 6
    MaxPush = 2
PROPERTY DifsRestarts
