SPECIFICATION Spec
CONSTANTS
    r1 = r1  r2 = r2  w1 = w1  w2 = w2
    Repos <- TwoRepos
    Tags <- TwoTags
    Scanners <- TwoScanners
    MaxShared = 1
    MaxReleases = 1
    MaxFaults = 1
INVARIANTS
    TypeOK
    RepeatNeedsOverlap
PROPERTIES
    CursorAndEventsMoveTogether
    StableReleaseIsSeen
