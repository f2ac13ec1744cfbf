CONSTANTS
    RingLen = 32
    GoodFrames <- SentFrames
    Garble <- GarbledStatus
SPECIFICATION FramerSpec
CHECK_DEADLOCK FALSE
INVARIANTS
    NothingSkipped
