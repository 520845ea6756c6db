SPECIFICATION Spec
CONSTANTS
    Titles = {1, 2, 3, 4}
    Media = {1, 2}
    Seasons = {1}
    Shows = {9}
    NumberOf <- MCNumbersShared
    NoTraktId = {1}
    Values = {v1, v2}
    NoRating = NoRating
    TicksPerSecond = 2
    RetryAfters = {0}
    MaxTime = 2
    MaxEvents = 3
    MaxNumbers = 1
INVARIANTS
    TypeOK
    PendingIsCurrent
    OnlyOverlapLosesAChange
    DeliveredIsShown
PROPERTY
    DrainsUnlessBlocked
    TraktRatingIsAdopted
    ImplementsOutbox
