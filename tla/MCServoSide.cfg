CONSTANTS
    Regs <- MCRegs
    Values <- MCValues
    Writes <- MCWrites
    Writable <- MCRegs
    Persistent <- MCRegs
    CmpRules = {}
    AllowedRules = {}
    SatMax = 2
    IdReg = "id"
    UnicastIds <- MCUnicastIds
    InitTable <- MCInitTable
    DataCap = 2
    EntryCap = 2
    OldImages = {}
    IdBytes <- MCIdBytes
    BaudReg = "baud"
    RescueRate = 1
    MaxSlot = 2
    None = None
    Gaps = {2}
    BasePairs = 2
    WinPairs = 2
    Sanity = 8000
    Gate = 60000
    StepMin = 800
    StepMax = 4000
    StepsMax = 4
    TotalMax = 7
    Nominal = 2500
    Chips <- TrainChips
    Warmth <- TrainWarmth
    Seams = {0}
    Calibrates = TRUE
    Tracks = FALSE
    MaxWarm = 0
SPECIFICATION SuiteSpec
CHECK_DEADLOCK FALSE
INVARIANTS
    NoGhostTrigger
    NoOrphanReply
    ReplyIsCurrent
    ClockSound
    TxSound
PROPERTIES
    EffectsAwaitVerdict
    ServoSettles
