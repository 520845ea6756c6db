SPECIFICATION Spec
CONSTANTS
    Requests = {r1}
    Notifier = notifier
    ReminderChanges = 2
    ReminderDays = 1
    MaxChanges = 3
    MaxTime = 1
    MaxMarks = 0
    MaxToggles = 0
    MaxFailures = 0
INVARIANT
    AnnouncedAtMostOnce
