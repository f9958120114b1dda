SPECIFICATION FairSpec
CONSTANTS
    Items = {x1, x2, x3}
    Pictured = {x1, x2}
    NoImage = NoImage
    MaxLinks = 3
    MaxCalls = 3
INVARIANTS TypeOK CountsAreRight AllPicturesShown AnsweredOnce CellShowsItem
PROPERTIES PicturesStay PicturesArrive
CHECK_DEADLOCK FALSE
