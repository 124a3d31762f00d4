CONSTANTS
    Containers = {web}
    Own = {web}
    Dummy = dummy
    MaxBoots = 2
    web = web
SPECIFICATION Spec
INVARIANTS
    TypeOK
    MarkerLast
    NoStaleShipped
PROPERTIES
    DeliversInOrder
    DeleteWaitsForCheckpoints
CHECK_DEADLOCK FALSE
