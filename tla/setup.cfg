SPECIFICATION Spec
CONSTANTS
    Param = {"sf", "preamble"}
    Value = {1, 2}
    Lost = lost
    Untold = untold
    ByteMod = 4
    MaxPower = 2
    MaxCommand = 2
    MaxSend = 1
    MaxHang = 1
    MaxBusy = 1
    MaxFail = 1
INVARIANTS TypeOK LossReported HostKnows TimingFollows
CHECK_DEADLOCK FALSE
