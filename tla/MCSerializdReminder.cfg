SPECIFICATION Spec
CONSTANTS
    Requests = {r1}
    Notifier = notifier
    ReminderChanges = 2
    ReminderDays = 1
    MaxChanges = 3
    MaxTime = 1
    MaxMarks = 1
    MaxToggles = 1
    MaxFailures = 1
INVARIANTS
    TypeOK
    AnnouncedIsDue
    RepeatsAreExplained
PROPERTY
    DueIsAnnounced
