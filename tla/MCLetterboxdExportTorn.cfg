SPECIFICATION Spec
CONSTANTS
    Events = {e1, e2}
    Movies = {m1}
    Instants = {1, 2}
    Days = {1, 2}
    Zones <- MCOneZone
    Values = {v1, v2}
    NoValue = NoValue
    NoWatch = NoWatch
    HeaderSize = 1
    MaxBytes = 4
    MaxEdits = 2
    MaxBatches = 2
CHECK_DEADLOCK FALSE
INVARIANT
    ChangesAreReExported
