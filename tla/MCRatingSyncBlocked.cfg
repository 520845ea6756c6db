SPECIFICATION Spec
CONSTANTS
    Titles = {1, 2}
    Media = {1, 2}
    Seasons = {1}
    Shows = {}
    NumberOf <- MCNumbersApart
    NoTraktId = {1}
    Values = {v1, v2}
    NoRating = NoRating
    TicksPerSecond = 2
    RetryAfters = {0}
    MaxTime = 2
    MaxEvents = 3
    MaxNumbers = 1
PROPERTY
    IdentifiedChangeIsSent
