SPECIFICATION Spec
CONSTANTS
    Events = {e1, e2, e3}
    Movies = {m1}
    Instants = {1, 2}
    Days = {1, 2}
    Zones <- MCZones
    Values = {v1, v2}
    NoValue = NoValue
    NoWatch = NoWatch
    HeaderSize = 1
    MaxBytes = 4
    MaxEdits = 2
    MaxBatches = 2
SYMMETRY Symmetry
CHECK_DEADLOCK FALSE
INVARIANTS
    TypeOK
    NothingPendingIsUpToDate
    CurrentIsInTheDiary
    FilesHoldTheBatch
    OneDayCarriesTheRating
