SPECIFICATION Spec
CONSTANTS
    Command <- Commands
    BufSize = 3
    MaxWrite = 3
    MaxClient = 1
INVARIANTS TypeOK PassedInOrder Lossless
CHECK_DEADLOCK FALSE
