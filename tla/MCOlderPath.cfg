SPECIFICATION OlderSpec
CONSTANTS
    Containers = {web, db}
    Own = {web, db}
    Dummy = dummy
    MaxBoots = 1
    Stale = {}
SYMMETRY MCSymmetry
INVARIANTS
    OlderTypeOK
    NeverTwoPods
    FaultlessMigrationRestores
    ImagesAreWhole
PROPERTIES
    DeleteWaitsForCheckpoints
CHECK_DEADLOCK FALSE
