SPECIFICATION FairSpec
CONSTANTS
    Bins = 4
    BinLen = 4
    Period = 2
    Width = 20
    Cost = {1, 2}
    Limit = 3
    LongLimit = 5
INVARIANTS TypeOK 
PROPERTIES DutyCycle LockOpens
