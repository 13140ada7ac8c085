SPECIFICATION Spec
CONSTANTS
    Sender = {s, t}
    SeqNo = {a, b, c}
    SEQ_UNSET = unset
    None = none
    Fresh = TRUE
    MaxSend = 2
    MaxPromisc = 2
INVARIANTS TypeOK GivenIsGenuine GivenOnce
PROPERTY Completes
CHECK_DEADLOCK FALSE
