\* Duplicate, concurrent and late acks against the CronJob, default settings.
SPECIFICATION Spec
CONSTANTS
    m1 = m1
    m2 = m2
    d1 = d1
    d2 = d2
    a1 = a1
    a2 = a2
    a3 = a3
    s1 = s1
    s2 = s2
    Messages <- OneMessage
    Recipients <- TwoDevices
    Ackers <- ThreeAckers
    AckOf <- RacingAcks
    Sweepers <- TwoSweepers
    SweepLimit = 1
    Terminal = "delivered"
    CleanupOnComplete = TRUE
INVARIANTS
    WorkIsKept
    OnlySweepsDeadlockAcks
PROPERTY ImplementsDeliveryPromise
