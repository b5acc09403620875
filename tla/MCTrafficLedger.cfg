\* Three days of three hours of two minutes, in three zones.
CONSTANTS
  Hour = 2
  Day = 6
  Week = 12
  Zones <- UtcAndEast
  Origin = 12
  Horizon = 26
  MaxBytes = 2
  MaxFaults = 1
  None = None
  Running = Running
SPECIFICATION Spec
INVARIANTS Consistent ChartsExact
CHECK_DEADLOCK FALSE
