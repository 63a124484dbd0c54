\* One key, one position: every send repeats the same request.
SPECIFICATION Spec
CONSTANTS
    Clients = {c1, c2}
    Keys = {k}
    Positions = {1}
    AckDevices = {d}
    Nothing = Nothing
    MaxRuns = 3
    MaxDeaths = 1
SYMMETRY ClientSymmetry
INVARIANTS
    DuplicatesNeedARace
    NumbersCollideOnlyInARace
    PanelShowsTheDamage
\* Clients stop after MaxRuns requests.
CHECK_DEADLOCK FALSE
