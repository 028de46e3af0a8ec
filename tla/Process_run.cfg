SPECIFICATION ProcessFairSpec
CONSTANTS
  Times <- MCTimes
  Day = 18
  MinPeriod = 15
  SendSleep = 1
  MaxRun = 20
  MaxOwed = 1
  MaxStops = 2
INVARIANTS
  ProcessTypeOK
  DailySlots
  StopsInTime
PROPERTIES
  EventuallyRuns
