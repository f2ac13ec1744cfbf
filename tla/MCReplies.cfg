CONSTANTS
    N = 4
    ReplyGap = 2
    BreakLen = 4
    FrameLen = 9
    Latency = 1
    Reclaim = 9
    Allowance = 11
    RingLen = 32
    GoodFrames <- SentFrames
    Garble <- Junk
SPECIFICATION SuiteSpec
CHECK_DEADLOCK FALSE
INVARIANTS
    OneTalker
    FlagIsTrue
    ListOrder
    FramerSound
PROPERTIES
    EveryoneReplies
    EveryFrameFound
