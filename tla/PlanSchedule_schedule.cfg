SPECIFICATION FairSpec
CONSTANTS
  p1 = p1  sched1 = sched1  r1 = r1  r2 = r2  tick1 = tick1  tick2 = tick2
  NoPlan = NoPlan  NoKey = NoKey  NoRun = NoRun  NoSchedule = NoSchedule
  Plans = {p1}
  Steps <- OneStep
  Keys <- AllKeys
  RunIds = {r1, r2}
  RunCap = 9
  EvidenceCap = 9
  MaxApprovals = 2
  MinutesPerHour = 2
  HoursPerDay = 2
  DaysPerWeek = 2
  MonthsPerYear = 2
  MonthLengths <- ShortMonths
  SearchDays = 9
  Schedules = {sched1}
  Bound <- OnePlan
  Crons <- SomeCrons
  Ticks = {tick1, tick2}
  LastMinute = 2
  MaxFaults = 1
INVARIANTS
  OneRunPerDue
PROPERTIES
  NextIsFirstMatch
  SchedulesGoOn
CHECK_DEADLOCK FALSE
