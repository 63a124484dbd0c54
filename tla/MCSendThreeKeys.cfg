\* Three keys: one buffered message under two of them, and the message that drains it.
SPECIFICATION Spec
CONSTANTS
    d1 = d1
    none = none
    k1 = k1
    k2 = k2
    k3 = k3
    r1 = r1
    r2 = r2
    r3 = r3
    Devices <- MCDevices
    Members <- MCDevices
    Contents <- MCContents
    NoContent = none
    Commands <- MCCommands
    MaxClientSequence = 2
    GapTimeout = 0
    Keys <- ThreeKeys
    NoResponse = none
    MaxAttempt = 2
    Callers = {r1, r2, r3}
    KeyOf <- ThreeKeyOf
    CommandOf <- DrainCommandOf
INVARIANTS
    SharedMessageIsAdopted
    AnswersAgreeOnOrder
\* Clients may stop resending.
CHECK_DEADLOCK FALSE
