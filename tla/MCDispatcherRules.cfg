CONSTANTS
    Regs <- MCRegs
    Values <- MCValues
    Writes <- MCWrites
    Writable <- MCWritable
    Persistent <- MCPersistent
    CmpRules <- MCRules
    AllowedRules <- MCAllowed
    SatMax = 2
    IdReg = "id"
    UnicastIds <- MCUnicastIds
    InitTable <- MCInitTable
    DataCap = 4
    EntryCap = 3
    OldImages <- MCOldImages
    IdBytes <- MCIdBytes
SPECIFICATION Spec
INVARIANTS
    RuleValid
