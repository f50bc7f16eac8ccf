CONSTANTS
    Platforms <- AllPlatforms
    Archive <- SmallArchives
    Digests = {"todo", "pinned"}
    Environments <- SomeEnvironments
SPECIFICATION FairSpec
INVARIANTS
    MarkerProvesTheTree
    PinnedBytesOnly
PROPERTY BuildsHeal
