SPECIFICATION FairSpec
CONSTANTS
    Migrations = {a, b}
    WithTemplate = {}
    None = none
    MaxBoots = 1
PROPERTY DetectionEndsReconcile
CHECK_DEADLOCK FALSE
