CONSTANTS
    TickMod = 18
    ByteTicks <- EngineRates
    RescueRate = "rescue"
    Horizon = 2
    Margin = 1
    EnumSlots = 1
    SlowExtra = 3
    RescueHold = 2
    Plans <- EnginePlans
    Deadlines = {3}
    Pulses = {1}
    Trains <- EngineTrains
    Bursts = {2}
    WireRates = {"fast"}
    Latency = 2
    PollLag = 2
    FleetRD = 3
    Lead = 1
    MaxDeadRun = 1
    MaxNoise = 1
    NumSeqs = 2
    MaxChunk = 2
    Ops <- LinkOps
    RailSets <- LinkRails
    Boots = {"boot"}
    Mps = 1
    TxqCap = 3
    Headroom = 2
    DescChunks = 2
    MaxOut = 2
    MaxFaults = 1
    MaxResets = 1
    MaxReads = 1
    Clears = TRUE
    RingLen = 16
    GoodFrames <- BusFrames
    Garble <- ShortJunk
SPECIFICATION SuiteSpec
CHECK_DEADLOCK FALSE
INVARIANTS
    AdapterSafe
    EdgesTrue
    PipeExact
    RosterTrue
    WalkerSound
PROPERTIES
    KeepsContract
    EngineSound
    ClientSound
