\* Two interleaved streams of three positions, every gap, deadline and resync.
SPECIFICATION GapFairSpec
CONSTANTS
    d1 = d1
    d2 = d2
    d3 = d3
    none = none
    NoContent = none
    Devices <- WithStranger
    Members <- TwoMembers
    Contents <- MCContents
    Commands <- TwoStreams
    MaxClientSequence = 3
    GapTimeout = 1
INVARIANTS
    VisibleOrderGapless
    StreamOrderVisible
    PointerAtFreePosition
    WaitingIsAccounted
    FirstGapGetsFullTimeout
PROPERTIES
    OnlyResyncSkips
    ImplementsConversationLog
    BufferedIsResolved
\* Every stream may come to rest with nothing left to send, expire or resync.
CHECK_DEADLOCK FALSE
