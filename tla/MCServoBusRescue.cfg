CONSTANTS
    Regs <- MCRegs
    Values <- MCValues
    Writes <- MCWrites
    Writable <- MCRegs
    Persistent <- MCRegs
    CmpRules = {}
    AllowedRules = {}
    SatMax = 2
    IdReg = "id"
    UnicastIds <- MCUnicastIds
    InitTable <- MCInitTable
    DataCap = 2
    EntryCap = 2
    OldImages = {}
    IdBytes <- MCIdBytes
    BaudReg = "baud"
    RescueRate = 1
    MaxSlot = 2
    None = None
SPECIFICATION Spec
INVARIANTS
    RescueHolds
