\* Two directories; the scheduler's resync and one of the API overlap, and so
\* do two uploads.
SPECIFICATION FairSpec
CONSTANTS
    Slugs = {1, 2}
    Metas = {m1}
    Tasks = {t1}
    Calls = {a1}
    Uploads = {u1, u2}
    MaxChanges = 2
    MaxFaults = 1
    None = None
INVARIANTS
    TypeOK
    ImagesAreWhole
    SomeLockHolderMoves
    QuietIsCurrent
PROPERTIES
    ChangesAreScanned
