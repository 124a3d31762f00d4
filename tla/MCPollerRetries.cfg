SPECIFICATION FairSpec
CONSTANTS
    Migrations = {a, b}
    WithTemplate = {}
    None = none
    MaxBoots = 1
PROPERTY PollerRetries
CHECK_DEADLOCK FALSE
