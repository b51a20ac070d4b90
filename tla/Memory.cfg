SPECIFICATION FairSpec
CONSTANTS
    None = None
    MaxRows = 3
    FileCap = 2
    Suffix = 1
INVARIANTS
    Remembered
    ArchivedOnce
    CacheCurrent
PROPERTY
    CompactionEnds
