SPECIFICATION FairSpec
CONSTANTS
    N = 3
    Tags <- MCTags
    Words = {"a", "b", "2024"}
    MaxWords = 2
    Year = "2024"
    Tag <- MCTag
    Late = {3}
    DummyNamed <- MCDummyNamed
    MaxBoots = 2
INVARIANTS
    TypeOK
    HangsOnlyAfterTwoFailures
    NewestArchiveWins
    BuildersRemoved
    AddsWholeArchives
    PodNameRecovered
    ContainerNameRecovered
PROPERTIES
    RestoreEnds
    MarkerStartsRestore
CHECK_DEADLOCK FALSE
