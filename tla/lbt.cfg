SPECIFICATION FairSpec
CONSTANTS
    Difs = 1
    Cw = {0, 1}
    Flush = TRUE
    HeaderTimeout = 1
    DataTimeout = 2
    Airtime = 1
    MaxNow = 4
    MaxPush = 2
INVARIANTS TypeOK NeverWedged
PROPERTIES BacksOff CwProgressKept TxReenabled
