\* A day of six minutes.
SPECIFICATION MCSpec
CONSTANTS
  Day = 6
  Notices = {n1, n2}
  Windows <- AllWindows
  Zones = {0, 2, 5}
  Schedules <- SomeSchedules
  MaxFailures = 3
INVARIANTS HoursTypeOK DeferredToTheEnd
PROPERTIES NotWoken NotPutOffForEver
