CONSTANTS
    Containers = {web, db, side}
    Own = {web, db}
    Dummy = dummy
    MaxBoots = 1
    web = web
    db = db
    side = side
SPECIFICATION FairSpec
INVARIANTS
    UploadsFindFiles
    NoGoroutineLeft
    FaultlessRunShips
PROPERTIES
    MigrationEnds
CHECK_DEADLOCK FALSE
