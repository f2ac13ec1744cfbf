CONSTANTS
    DecimMed = 2
    DecimSlow = 2
    OcTicks = 2
    BadCount = 2
    PosErrTicks = 2
    StallTicks = 2
    CurrentLimit = 2
    StallYield = 1
    DutyMax = 2
    Floor = 2
    Modes = {"Position", "Current", "Velocity", "OpenLoop"}
    Goals = {1, 2}
    Responses = {"Yield", "Fault"}
    Polarity = TRUE
    Overs = {TRUE, FALSE}
    Jumps = {TRUE, FALSE}
    Errs = {TRUE, FALSE}
    Taus = {"low", "mid", "trip"}
    Slows = {TRUE, FALSE}
    VelErrs <- BothSigns
    Holds = {TRUE, FALSE}
    Walls = {"none", "max", "min"}
    Amps = {1}
    Rails = {0, 3}
    Heats = {0, 2}
    MaxPos = 3
    GuardLo = 1
    GuardHi = 5
    Margin = 1
    StallPolls = 1
    Settle = 2
    Polls = 3
    Levels = 1
    RampCap = 2
    MoveCounts = 1
    SeekCap = 4
    LegCap = 3
    CaptureMax = 2
    StallArm = 1
    Programs <- Endstops
    MaxLost = 1
    RecenterCap = 2
    TelPort = FALSE
    CalArgs <- CommandLines
    Travel = 4
    SoftTravel = 2
    Fields <- GainNames
    MaxRuns = 3
    MaxFails = 2
SPECIFICATION SuiteSpec
CHECK_DEADLOCK FALSE
INVARIANTS
    KernelSafe
    SafeExit
    SavedUnmixed
    StreamTrue
PROPERTIES
    CalSafe
    KernelSteps
    RigSafe
