SPECIFICATION Spec
CONSTANTS
  Requests = {r1, r2}
  Webhooks = {"entered"}
  Environments <- MCEnvironments
  Fields = {"poll", "changes"}
  Values <- MCValues
  Default <- MCDefault
  Updates <- MCUpdates
  MaxChanges = 2
  Keys = {k1, k2}
  None = None
  Release = 2
  MaxBackups = 2
  Empty = Empty
  Plain = Plain
INVARIANTS
  TypeOK
  NotifierFollowsTheTable
  SecretsSurvive
  WorkingBackupRestores
PROPERTIES
  UpdatesKeepOtherSettings
  ServerComesUp
