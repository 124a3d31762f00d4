SPECIFICATION FairSpec
CONSTANTS
    Migrations = {a, b, c}
    WithTemplate = {c}
    None = none
    MaxBoots = 2
INVARIANTS
    TypeOK
    OneMigrationAtATime
    DestinationReady
PROPERTIES
    ReconcileSettles
    SourceMigrates
CHECK_DEADLOCK FALSE
