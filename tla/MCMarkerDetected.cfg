SPECIFICATION WatchedSpec
CONSTANTS
    N = 3
    Tags <- MCTags
    Words = {"a", "b", "2024"}
    MaxWords = 2
    Year = "2024"
    Tag <- MCTag
    Late = {}
    DummyNamed <- MCDummyNamed
    MaxBoots = 1
PROPERTY MarkerDetected
CHECK_DEADLOCK FALSE
