SPECIFICATION FairSpec
CONSTANTS
    Presses = {p1, p2}
    MaxPicks = 2
    MaxImages = 2
    NotAsked = NotAsked
    NotSaved = NotSaved
INVARIANTS TypeOK UploadsAccounted PicksInOrder GalleryOrphaned
PROPERTIES Publishes SavedOrFailed
CHECK_DEADLOCK FALSE
