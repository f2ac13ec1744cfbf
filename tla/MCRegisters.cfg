CONSTANTS
    Regs <- MCRegs
    Values <- MCValues
    Writes <- MCWrites
    Writable <- MCWritable
    Persistent <- MCPersistent
    CmpRules <- MCRules
    AllowedRules <- MCAllowed
    SatMax = 2
    IdReg = "id"
    UnicastIds <- MCUnicastIds
    InitTable <- MCInitTable
    DataCap = 3
    EntryCap = 2
    OldImages <- MCOldImages
    IdBytes <- MCIdBytes
SPECIFICATION SuiteSpec
CHECK_DEADLOCK FALSE
INVARIANTS
    TypeOK
    BufferTiled
    DirtyTracksSave
    TableExact
    CodecAgrees
PROPERTIES
    ImplementsSession
