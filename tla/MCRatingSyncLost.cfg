SPECIFICATION Spec
CONSTANTS
    Titles = {1, 2}
    Media = {1, 2}
    Seasons = {1}
    Shows = {}
    NumberOf <- MCNumbersApart
    NoTraktId = {}
    Values = {v1, v2}
    NoRating = NoRating
    TicksPerSecond = 1
    RetryAfters = {0}
    MaxTime = 2
    MaxEvents = 3
    MaxNumbers = 1
INVARIANT
    NoChangeIsLost
