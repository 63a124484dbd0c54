\* The other settings: read is terminal and only the CronJob cleans, two batches
\* that it takes one at a time.
SPECIFICATION FairSpec
CONSTANTS
    m1 = m1
    m2 = m2
    d1 = d1
    d2 = d2
    a1 = a1
    a2 = a2
    a3 = a3
    s1 = s1
    s2 = s2
    Messages <- TwoMessages
    Recipients <- OneDevice
    Ackers <- ThreeAckers
    AckOf <- ReadingAcks
    Sweepers <- OneSweeper
    SweepLimit = 1
    Terminal = "read"
    CleanupOnComplete = FALSE
INVARIANT ProgressMatchesReceipts
PROPERTY EveryBatchIsCleaned
