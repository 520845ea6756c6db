SPECIFICATION Spec
CONSTANTS
    Episodes = {1, 2, 3}
    Specials = {2}
    Movie = 10
    Season = 20
    Limit = 1
    MaxBatches = 2
    MaxToggles = 1
    MaxFailures = 1
CHECK_DEADLOCK FALSE
INVARIANTS
    TypeOK
    OneOpenTask
    SeasonIsAskedForWhenComplete
    AnnouncedOnce
PROPERTIES
    EpisodeIsAskedForWhenCaughtUp
    TaskIsAnnounced
