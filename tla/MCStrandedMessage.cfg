\* Does a stream in waiting_gap wait for a message ahead of its pointer?
SPECIFICATION GapSpec
CONSTANTS
    d1 = d1
    d2 = d2
    d3 = d3
    none = none
    NoContent = none
    Devices <- OneMember
    Members <- OneMember
    Contents <- MCContents
    Commands <- OneStream
    MaxClientSequence = 3
    GapTimeout = 1
INVARIANT WaitingMeansAhead
CHECK_DEADLOCK FALSE
