\* One key: two executions of the same request and one of another body.
SPECIFICATION FairSpec
CONSTANTS
    d1 = d1
    none = none
    k1 = k1
    k2 = k2
    k3 = k3
    r1 = r1
    r2 = r2
    r3 = r3
    Devices <- MCDevices
    Members <- MCDevices
    Contents <- MCContents
    NoContent = none
    Commands <- MCCommands
    MaxClientSequence = 1
    GapTimeout = 0
    Keys <- OneKey
    NoResponse = none
    MaxAttempt = 4
    Callers = {r1, r2, r3}
    KeyOf <- ReuseKeyOf
    CommandOf <- ReuseCommandOf
INVARIANTS
    OneOwner
    EffectOnlyIfCompleted
    AnswersAreDurable
PROPERTIES
    ImplementsSendOnce
    EveryKeyCompletes
\* Clients may stop resending.
CHECK_DEADLOCK FALSE
