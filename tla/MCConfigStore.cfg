CONSTANTS
    b1 = b1
    b2 = b2
    Bodies <- MCBodies
    DefaultBody = b1
    TailOf <- DistinctTails
    SeqMod = 4
    MaxFaults = 2
SPECIFICATION Spec
INVARIANTS
    NoLostSave
    DirtyHonest
    AdjacentSeqs
