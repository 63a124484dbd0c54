\* Two keys, two contents, two responses, three attempts; JSON of depth two;
\* small databases for the audit.
SPECIFICATION MCSpec
CONSTANTS
    k1 = k1
    k2 = k2
    f1 = f1
    f2 = f2
    p1 = p1
    p2 = p2
    none = none
    Keys = {k1, k2}
    Fingerprints = {f1, f2}
    Responses = {p1, p2}
    NoResponse = none
    NoFingerprint = none
    MaxAttempt = 3
    KeyOrder <- MCKeyOrder
    UuidTexts = {"u1", "u2"}
    BlankTexts = {"", " "}
    LengthOf <- MCLengthOf
    MAX_BODY_LENGTH = 2
    MAX_CLIENT_MESSAGE_ID_LENGTH = 2
    MAX_IDEMPOTENCY_KEY_LENGTH = 2
    MAX_SAFE_INTEGER = 9
    Values <- MCValues
    SendRequests <- MCSendRequests
    ResyncBodies <- MCResyncBodies
    Null = none
    Databases <- MCDatabases
INVARIANTS
    CanonicalIffSameValue
    FingerprintIffSameIntent
    PositionsAreExact
    OrderAndDeliveryAudited
PROPERTY OwnershipIsFenced
\* Both operations may be completed.
CHECK_DEADLOCK FALSE
