\* Two sends, two seeds, one lab reset.
SPECIFICATION Spec
CONSTANTS
    seeded = seeded
    made = made
    c1 = c1
    c2 = c2
    seeder = seeder
    panel = panel
    Clients = {c1, c2}
    Seeders = {seeder}
    Resetter = panel
    Seeded = {seeded}
    Made = {made}
    MaxPosition = 2
    MaxSends <- SendsOf
    MaxSeeds = 2
INVARIANTS
    NothingOutlivesReset
    OnlyOverlapPoisons
    
PROPERTIES
    FreshIsFresh
\* Clients and tools stop after their requests.
CHECK_DEADLOCK FALSE
