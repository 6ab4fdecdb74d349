\* Two starts a day further apart than logs are kept, nothing failing.
SPECIFICATION Spec
CONSTANTS
  Thread = {t1}
  Capacity = 2
  Retention = 1
  Initially = {}
  Millis = {1}
  MaxDays = 2
  MaxStarts = 2
  MaxEvents = 1
CHECK_DEADLOCK FALSE
INVARIANT OldLogsGo
