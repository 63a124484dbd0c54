\* Four runners on an empty database; one fault between them.
SPECIFICATION FairSpec
CONSTANTS
    job = job
    dev = dev
    branch = branch
    status = status
    a = a
    b = b
    edited = edited
    broken = broken
    Runners <- MCRunners
    Sqls <- MCSqls
    Versions = {1, 2, 3}
    DirectoryOf <- MCDirectoryOf
    StatusOnly = {status}
    Broken = {broken}
    NotApplied = NotApplied
    Nobody = Nobody
    MaxFaults = 1
INVARIANTS
    SchemaIsHistory
    NeverConfused
    DoneMeansMigrated
PROPERTY CompatibleRunnersMigrate
\* A runner that is done stays done.
CHECK_DEADLOCK FALSE
